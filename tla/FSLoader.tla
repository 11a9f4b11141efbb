------------------------------ MODULE FSLoader ------------------------------
(***************************************************************************)
(* The configuration loader that watches a directory                       *)
(* (internal/config/fs.go).  One goroutine handles the file system's       *)
(* notifications: it reads the file again and stores what it finds, or     *)
(* drops what the file held, and sends the result to the subscribers.      *)
(*                                                                         *)
(* What a file holds is abstracted to the key, the version and the         *)
(* validity of the configuration in it; Garbage is anything that does not  *)
(* unmarshal.  A notification says which file was written (or created),    *)
(* removed or renamed, not what it held at the time.                       *)
(***************************************************************************)
EXTENDS Subscriptions

CONSTANTS
  Files,     \* configuration files
  Contents,  \* what each file may hold
  Keys,      \* types and names of configurations
  Garbage,   \* a file that does not unmarshal
  Absent,    \* no such file
  None,      \* no cache entry, no cache key
  MaxOps     \* bound on the changes of the directory

ASSUME FSAssumption ==
  /\ Contents \in [Files -> SUBSET ([key : Keys, version : Nat, valid : BOOLEAN] \cup {Garbage})]
  /\ MaxOps \in Nat

(* The markers are neither configurations nor keys. *)
ASSUME MarkerAssumption ==
  /\ Absent # Garbage
  /\ None \notin Keys
  /\ \A m \in {Garbage, Absent, None} : m \notin [key : Keys, version : Nat, valid : BOOLEAN]

VARIABLES
  disk,      \* what each file holds, Absent if it does not exist
  events,    \* notifications not yet handled
  nops,      \* changes of the directory so far
  renamed,   \* history: the files that were last renamed away
  cache,     \* the configuration stored for each key
  files,     \* the key each file was last loaded under
  pc,        \* where the loader's goroutine is
  toLoad,    \* files the scan of NewFSLoader has still to load
  instance,  \* the instance being sent
  locked,    \* it is being sent with the loader's lock held
  todo,      \* subscribers to which it has still to be sent
  watch,     \* where each call of Watch is
  pending,   \* the cached instances it has still to send
  closing,   \* where Close is
  panicked   \* the process died on a closed channel

diskVars == <<disk, events, nops, renamed>>
loadVars == <<cache, files, pc, toLoad, instance, locked, todo>>
watchVars == <<subs, watch, pending>>
closeVars == <<subsClosed, closing, panicked>>
vars == <<diskVars, loadVars, watchVars, chanVars, closeVars>>

Init ==
  /\ SubsInit
  /\ disk \in [Files -> {Absent} \cup UNION {Contents[f] : f \in Files}]
  /\ \A f \in Files : disk[f] \in Contents[f] \cup {Absent}
  /\ events = <<>>
  /\ nops = 0
  /\ renamed = {}
  /\ cache = [k \in Keys |-> None]
  /\ files = [f \in Files |-> None]
  /\ pc = "scan"
  /\ toLoad = {f \in Files : disk[f] # Absent}
  /\ instance = None
  /\ locked = FALSE
  /\ todo = <<>>
  /\ watch = [w \in Watchers |-> "none"]
  /\ pending = [w \in Watchers |-> {}]
  /\ closing = "open"
  /\ panicked = FALSE

Done == closing # "open"

-----------------------------------------------------------------------------
(* The directory, watched before it is scanned. *)

Change(f, c, op) ==
  /\ ~panicked
  /\ nops < MaxOps
  /\ nops' = nops + 1
  /\ disk' = [disk EXCEPT ![f] = c]
  /\ events' = Append(events, [file |-> f, op |-> op])
  /\ UNCHANGED <<loadVars, watchVars, chanVars, closeVars>>

WriteFile(f) ==
  /\ \E c \in Contents[f] : c # disk[f] /\ Change(f, c, "write")
  /\ renamed' = renamed \ {f}

RemoveFile(f) ==
  /\ disk[f] # Absent
  /\ Change(f, Absent, "remove")
  /\ UNCHANGED renamed

RenameFile(f) ==
  /\ disk[f] # Absent
  /\ Change(f, Absent, "rename")
  /\ renamed' = renamed \cup {f}

-----------------------------------------------------------------------------
(* Loading files. *)

IsConfig(c) == c \notin {Garbage, Absent}

(* A configuration that does not parse is stored only where there is no    *)
(* valid one.                                                              *)
IsStored(c) ==
  /\ IsConfig(c)
  /\ c.valid \/ cache[c.key] = None \/ ~cache[c.key].valid

(* loadConfigFile.  What cannot be read or unmarshalled yields an instance *)
(* without a name.                                                         *)
LoadConfigFile(f) ==
  /\ IF IsStored(disk[f])
     THEN /\ cache' = [cache EXCEPT ![disk[f].key] = disk[f]]
          /\ files' = [files EXCEPT ![f] = disk[f].key]
     ELSE UNCHANGED <<cache, files>>
  /\ instance' = IF IsConfig(disk[f])
                 THEN Instance(disk[f].key, disk[f].version, disk[f].valid, FALSE)
                 ELSE Instance(None, 0, FALSE, FALSE)

(* initLoadFiles; no subscriber exists yet.  A file may be gone when its   *)
(* turn comes.                                                             *)
ScanFile(f) ==
  /\ ~panicked
  /\ pc = "scan"
  /\ f \in toLoad
  /\ LoadConfigFile(f)
  /\ toLoad' = toLoad \ {f}
  /\ UNCHANGED <<diskVars, pc, locked, todo, watchVars, chanVars, closeVars>>

ScanEnds ==
  /\ ~panicked
  /\ pc = "scan"
  /\ toLoad = {}
  /\ pc' = "select"
  /\ UNCHANGED <<diskVars, cache, files, toLoad, instance, locked, todo,
                 watchVars, chanVars, closeVars>>

NextEvent(op) ==
  /\ ~panicked
  /\ pc = "select"
  /\ events # <<>>
  /\ Head(events).op = op
  /\ events' = Tail(events)
  /\ UNCHANGED <<disk, nops, renamed, toLoad, watchVars, chanVars, closeVars>>

(* processConfigFile reads the file as it is now. *)
HandleWrite ==
  /\ NextEvent("write")
  /\ LoadConfigFile(Head(events).file)
  /\ pc' = "loaded"
  /\ UNCHANGED <<locked, todo>>

(* Mutant: the file's key is forgotten, the configuration is not.          *)
HandleRemoveForgets ==
  /\ NextEvent("remove")
  /\ files' = [files EXCEPT ![Head(events).file] = None]
  /\ UNCHANGED <<cache, instance, pc, locked, todo>>

(* handleFileDelete drops the file's configuration, whichever file it came *)
(* from last, and sends it with the lock held.                             *)
HandleRemove ==
  /\ NextEvent("remove")
  /\ LET f == Head(events).file
         k == files[f]
     IN  IF k = None \/ cache[k] = None
         THEN UNCHANGED <<cache, files, instance, pc, locked, todo>>
         ELSE /\ cache' = [cache EXCEPT ![k] = None]
              /\ files' = [files EXCEPT ![f] = None]
              /\ instance' = Instance(k, cache[k].version, cache[k].valid, TRUE)
              /\ pc' = "send"
              /\ locked' = TRUE
              /\ todo' = SendTodo

(* Only Create, Write and Remove are handled. *)
HandleRename ==
  /\ NextEvent("rename")
  /\ UNCHANGED <<cache, files, instance, pc, locked, todo>>

(* Mutant: subscribers that still wait for the cached ones are skipped.    *)
SendToInitialized ==
  /\ ~panicked
  /\ pc = "loaded"
  /\ pc' = "send"
  /\ todo' = SelectSeq(subs, LAMBDA w : watch[w] = "done")
  /\ UNCHANGED <<diskVars, cache, files, toLoad, instance, locked, watchVars, chanVars, closeVars>>

SendBegins ==
  /\ ~panicked
  /\ pc = "loaded"
  /\ pc' = "send"
  /\ todo' = SendTodo
  /\ UNCHANGED <<diskVars, cache, files, toLoad, instance, locked, watchVars, chanVars, closeVars>>

Send ==
  /\ ~panicked
  /\ pc = "send"
  /\ todo # <<>>
  /\ SendTo(Head(todo), instance)
  /\ todo' = Tail(todo)
  /\ UNCHANGED <<diskVars, cache, files, pc, toLoad, instance, locked, watchVars, closeVars>>

(* Mutant: the lock is not released.                                       *)
SendEndsLocked ==
  /\ ~panicked
  /\ pc = "send"
  /\ todo = <<>>
  /\ pc' = "select"
  /\ UNCHANGED <<diskVars, cache, files, toLoad, instance, locked, todo, watchVars, chanVars, closeVars>>

SendEnds ==
  /\ ~panicked
  /\ pc = "send"
  /\ todo = <<>>
  /\ pc' = "select"
  /\ locked' = FALSE
  /\ UNCHANGED <<diskVars, cache, files, toLoad, instance, todo, watchVars, chanVars, closeVars>>

Stop ==
  /\ ~panicked
  /\ pc = "select"
  /\ Done
  /\ pc' = "done"
  /\ UNCHANGED <<diskVars, cache, files, toLoad, instance, locked, todo,
                 watchVars, chanVars, closeVars>>

LoaderNext ==
  \/ \E f \in Files : ScanFile(f)
  \/ ScanEnds
  \/ HandleWrite
  \/ HandleRemove
  \/ HandleRename
  \/ SendBegins
  \/ Send
  \/ SendEnds
  \/ Stop

-----------------------------------------------------------------------------
(* Watch. *)

(* A send holds the subscriptions' read lock, which keeps add out. *)
WatchAdd(w) ==
  /\ ~panicked
  /\ pc \notin {"scan", "send"}
  /\ watch[w] = "none"
  /\ IF subsClosed
     THEN /\ watch' = [watch EXCEPT ![w] = "nil"]
          /\ subs' = subs
     ELSE /\ watch' = [watch EXCEPT ![w] = "added"]
          /\ subs' = Append(subs, w)
  /\ UNCHANGED <<diskVars, loadVars, pending, chanVars, closeVars>>

(* wg.Add and the go statement. *)
WatchStart(w) ==
  /\ ~panicked
  /\ watch[w] = "added"
  /\ watch' = [watch EXCEPT ![w] = "list"]
  /\ UNCHANGED <<diskVars, loadVars, subs, pending, chanVars, closeVars>>

Cached(k) == Instance(k, cache[k].version, cache[k].valid, FALSE)

ListConfigs(f) == {inst \in {Cached(k) : k \in {j \in Keys : cache[j] # None}} : Matches(inst, f)}

WatchList(w) ==
  /\ ~panicked
  /\ watch[w] = "list"
  /\ ~locked
  /\ pending' = [pending EXCEPT ![w] = ListConfigs(Filter[w])]
  /\ watch' = [watch EXCEPT ![w] = "send"]
  /\ UNCHANGED <<diskVars, loadVars, subs, chanVars, closeVars>>

WatchSend(w) ==
  /\ ~panicked
  /\ watch[w] = "send"
  /\ \E inst \in pending[w] :
       IF subsClosed
       THEN /\ panicked' = TRUE
            /\ UNCHANGED <<chanVars, pending>>
       ELSE /\ SendOn(w, inst)
            /\ pending' = [pending EXCEPT ![w] = @ \ {inst}]
            /\ panicked' = panicked
  /\ UNCHANGED <<diskVars, loadVars, subs, watch, subsClosed, closing>>

(* The loop is over, or its select takes the closed done channel. *)
WatchDone(w) ==
  /\ ~panicked
  /\ watch[w] = "send"
  /\ pending[w] = {} \/ Done
  /\ watch' = [watch EXCEPT ![w] = "done"]
  /\ pending' = [pending EXCEPT ![w] = {}]
  /\ UNCHANGED <<diskVars, loadVars, subs, chanVars, closeVars>>

WatchReceive(w) ==
  /\ ~panicked
  /\ Receive(w)
  /\ UNCHANGED <<diskVars, loadVars, watchVars, left, sent, closeVars>>

WatchLeave(w) ==
  /\ ~panicked
  /\ watch[w] \notin {"none", "nil"}
  /\ Leave(w)
  /\ UNCHANGED <<diskVars, loadVars, watchVars, queued, sent, closeVars>>

WatchNext(w) == WatchStart(w) \/ WatchList(w) \/ WatchSend(w) \/ WatchDone(w)

-----------------------------------------------------------------------------
(* Close. *)

Close ==
  /\ ~panicked
  /\ pc # "scan"
  /\ closing = "open"
  /\ closing' = "wait"
  /\ UNCHANGED <<diskVars, loadVars, watchVars, chanVars, subsClosed, panicked>>

CloseWait ==
  /\ ~panicked
  /\ closing = "wait"
  /\ pc = "done"
  /\ \A w \in Watchers : watch[w] \notin {"list", "send"}
  /\ closing' = "waited"
  /\ UNCHANGED <<diskVars, loadVars, watchVars, chanVars, subsClosed, panicked>>

CloseSubs ==
  /\ ~panicked
  /\ closing = "waited"
  /\ closing' = "closed"
  /\ subsClosed' = TRUE
  /\ UNCHANGED <<diskVars, loadVars, watchVars, chanVars, panicked>>

(* A second call closes the done channel again. *)
CloseAgain ==
  /\ ~panicked
  /\ Done
  /\ panicked' = TRUE
  /\ UNCHANGED <<diskVars, loadVars, watchVars, chanVars, subsClosed, closing>>

CloseNext == CloseWait \/ CloseSubs

Next ==
  \/ \E f \in Files : WriteFile(f) \/ RemoveFile(f) \/ RenameFile(f)
  \/ LoaderNext
  \/ \E w \in Watchers : WatchAdd(w) \/ WatchNext(w) \/ WatchReceive(w) \/ WatchLeave(w)
  \/ Close
  \/ CloseNext
  \/ CloseAgain

Spec == Init /\ [][Next]_vars

-----------------------------------------------------------------------------

Config == (UNION {Contents[f] : f \in Files}) \ {Garbage}

InstanceRecord == [key : Keys \cup {None}, version : Nat, ok : BOOLEAN, expired : BOOLEAN]

(* The state has its type; the lock is held only while a deletion is sent. *)
TypeOK ==
  /\ disk \in [Files -> Config \cup {Garbage, Absent}]
  /\ events \in Seq([file : Files, op : {"write", "remove", "rename"}])
  /\ nops \in 0..MaxOps
  /\ renamed \subseteq Files
  /\ cache \in [Keys -> Config \cup {None}]
  /\ files \in [Files -> Keys \cup {None}]
  /\ pc \in {"scan", "select", "loaded", "send", "done"}
  /\ toLoad \subseteq Files
  /\ instance \in InstanceRecord \cup {None}
  /\ locked \in BOOLEAN /\ (locked => pc = "send")
  /\ todo \in Seq(Watchers) /\ subs \in Seq(Watchers)
  /\ watch \in [Watchers -> {"none", "nil", "added", "list", "send", "done"}]
  /\ pending \in [Watchers -> SUBSET InstanceRecord]
  /\ queued \in [Watchers -> 0..ChanCap]
  /\ left \subseteq Watchers
  /\ sent \in [Watchers -> SUBSET InstanceRecord]
  /\ closing \in {"open", "wait", "waited", "closed"}
  /\ {subsClosed, panicked} \subseteq BOOLEAN

(* Once every notification has been handled, the cache holds what the      *)
(* files hold and nothing of a removed file, although each notification is *)
(* handled by reading a file that may have changed again since.  It is     *)
(* required of files that each keep to a key of their own; a renamed file  *)
(* is left out, because handleEvent ignores the notification.              *)
CacheFollowsDisk ==
  pc = "select" /\ events = <<>> =>
    \A f \in Files : \A k \in {c.key : c \in Contents[f] \ {Garbage}} :
      /\ IsConfig(disk[f]) /\ disk[f].valid => cache[k] = disk[f]
      /\ disk[f] = Absent /\ f \notin renamed => cache[k] = None

(* "Instances received on the channel SHOULD have at minimum AT LEAST ONCE *)
(* semantics" (types.go:76): whatever is cached has been sent to every     *)
(* subscriber whose filter it matches, or is on its way, although Watch    *)
(* adds the subscriber and lists the cache in two steps.                   *)
AtLeastOnce ==
  ~Done /\ ~panicked =>
    \A w \in Watchers : \A k \in {j \in Keys : cache[j] # None} :
      watch[w] = "done" /\ Matches(Cached(k), SubFilter(w)) =>
        \/ Cached(k) \in sent[w]
        \/ pc = "loaded" /\ instance = Cached(k)
        \/ pc = "send" /\ instance = Cached(k) /\ \E i \in DOMAIN todo : todo[i] = w

-----------------------------------------------------------------------------

(* Every goroutine that can run does, and subscribers receive until they   *)
(* leave.                                                                  *)
FairSpec ==
  /\ Spec
  /\ WF_vars(LoaderNext)
  /\ WF_vars(CloseNext)
  /\ \A w \in Watchers : WF_vars(WatchNext(w)) /\ WF_vars(WatchReceive(w))

(* The loader's goroutine waits forever for a subscriber that has left its *)
(* channel full.                                                           *)
SendStuck == pc = "send" /\ todo # <<>> /\ Unreceived(Head(todo), instance)

(* Close returns with all channels closed, unless the process dies,        *)
(* although a deletion is sent with the lock held that Watch waits for.    *)
(* One thing alone can keep it from returning: the send looks at no done   *)
(* channel, so that one to a full channel whose subscriber has left, as    *)
(* collectorManager does when the agent stops, never ends.                 *)
CloseReturns == Done ~> (closing = "closed" \/ panicked \/ SendStuck)

=============================================================================
