# TLA+ specifications of the Antimetal system agent

The agent runs on a host or in a Kubernetes cluster. It observes hardware,
containers, Kubernetes objects and performance counters, keeps what it knows of
the inventory in a local graph of resources and relationships, and streams
changes of that graph, and performance samples, to the Antimetal service. This
directory holds specifications of its stateful parts, the TLC models that check
them on small instances, and TLAPS proofs for every instance.

## The system and its parts

| Part | Source | State and concurrency | Module |
| --- | --- | --- | --- |
| Resource store: database and indexes | `internal/resource/store` | an embedded key-value database with three relationship indexes | `StoreDB`, `RelationshipGraph` |
| Resource store: locking, event router, subscribers | `internal/resource/store` | an RWMutex, a router goroutine, one snapshot goroutine per subscriber | `ResourceStore` |
| Intake worker | `internal/intake` | subscribes to the store, batches deltas, retries them on a stream | `IntakeWorker` |
| Configuration loader: AMS stream | `internal/config/ams.go` | a stream goroutine, a lifecycle goroutine, a cache with an expiry heap, subscriptions | `TTLHeap`, `ConfigCache`, `Subscriptions`, `AMSLoader` |
| Configuration loader: files | `internal/config/fs.go` | a notification goroutine, a cache, subscriptions | `Subscriptions`, `FSLoader` |
| Channel merger | `pkg/channel` | one goroutine that selects over a changing set of channels | `Merger` |
| Performance manager | `internal/perf/manager` | starts and stops collectors as configurations come and go | `PerfManager` |
| Collectors, their wrappers and registry, deltas | `pkg/performance` | one goroutine per collector, status, previous sample | `HardwareInfo`, `Samples`, `Collectors` |
| Metrics router, consumers, ring buffer | `internal/metrics`, `pkg/ringbuffer` | a registry under an RWMutex, a ring buffer under a mutex, one goroutine per consumer | `RingBuffer`, `EventQueue`, `MetricsPipeline` |
| Kubernetes controller, generators, cluster providers | `internal/kubernetes` | informers, a work queue with retries, a worker that writes to the store | `K8sGenerate`, `K8sController` |
| Hardware and container managers, graph builders | `internal/hardware`, `internal/containers` | two goroutines that rewrite their graphs at every tick | `GraphBuilder`, `HardwareGraph`, `ContainerGraph`, `Inventory` |
| Container discovery | `pkg/containers` | none that outlives a call | `ContainerDiscovery` |
| Host, kernel, CPU and AWS helpers | `pkg/host`, `pkg/proc`, `pkg/kernel`, `pkg/cpu`, `pkg/aws` | cached values | `HostIdentity`, `HardwareInfo`, `AWSClient` |
| eBPF, endpoints, generated code, tools | `pkg/ebpf`, `internal/endpoints`, `cmd`, `pkg/api` | | not modelled |

How they interact: the managers and the controller write to the resource store;
the intake workers subscribe to it and send what they receive to the service.
The configuration loaders tell the performance manager which collectors to run;
their samples go through the channel merger to the metrics router and its
consumers. `PROJECT.json` lists every part, the code lines each definition
translates, and the hazards each part is exposed to.

## Modules

**`StoreDB`** has no variables. It defines the contents of the store's database
and one operator for each transaction: `AddResourceTxn`, `UpdateResourceTxn`,
`DeleteResourceTxn`, `AddRelationshipsTxn`, and the query `GetRelationships`. An
index value in the code is a sorted concatenation of 32-byte hashes with
repetitions; since it is determined by how often each hash occurs, the model
keeps counts, and `Layout` recovers the sequence for the one piece of code that
depends on positions, the binary search of `deleteObjKeyFromIndex`. That search
is translated as it stands (`SearchStep`, `SearchIndex`): it works on a
half-open interval but moves the upper end to `m - 1`, so it may miss a key that
is there. The order of the hashes is a constant, `HashOrder`.

An answer of `GetRelationships` is what was found, with the error it comes with.

**`RelationshipGraph`** is the database alone: one variable, `db`, and one action per
committed transaction. `ResourceStore` makes its steps of the same transactions.

**`ResourceStore`** is the store as goroutines run it. A client that calls a
writing operation takes the lock, commits (`Commit`), hands its events to the
router one at a time (`SendEvent`) and returns (`Return`). The router
(`RouterRange`, `RouterDeliver`, ...) copies each event to the channel of each
matching subscriber and blocks when a channel is full. `Subscribe` appends to
the list of subscribers, and a goroutine per subscriber reads a snapshot of the
database and sends it (`ReadInitialObjects`, `SendInitialObjects`). `Close`
stops the router, which closes every channel. What Go leaves open is left open
here: the router reads the list of subscribers without the lock, and a send on a
closed channel ends the process (`panicked`).

The variables `log` and `sent` are histories (every event committed, everything
ever sent to a subscriber); the program's state is each client's `outbox`, `current`,
and the part of `sent` past `nread`.

**`TTLHeap`** is the heap of expiry deadlines: `container/heap` written out, on
positions from 1. **`ConfigCache`** puts it together with the cache as
`processConfig` and the expiry loop use them. Each cache entry remembers the
position its heap node had when it was pushed; `Swap` does not update it, and
neither does the model.

**`Subscriptions`** has the filters and channels that both loaders share. A subscriber
receives until it leaves, as the performance manager does when the agent's context
ends; the same end makes the configuration manager call `Close`.
**`AMSLoader`** composes the cache and the subscriptions with the goroutines of
the AMS loader: the stream (`ManageStream`, `Connect`, `Recv`, `StreamProcess`,
`StreamSend`, `Ack`), the expiry loop (`LifecyclePop`, `LifecycleDelete`,
`LifecycleSend`), one goroutine per `Watch`, and `Close`. The popped node and
the deletion of its cache entry are two steps because the code takes two locks
one after the other.

**`FSLoader`** is the loader that watches a directory. The environment writes,
removes and renames files; each change queues a notification that names the file
and the operation only, and `LoadConfigFile` reads what the file holds by the
time it is handled.

**`Merger`** has the merger's goroutine and interface; **`PerfManager`** puts it
between the collectors the performance manager starts and the goroutine that
publishes their samples. A collector is numbered by its start, and so is its channel.

**`RingBuffer`** is the circular array with its two counters. **`EventQueue`** is
what the metrics buffer promises, a queue of the latest events. **`MetricsPipeline`**
is the way of an event from `Publish` through `HandleEvent` (`CheckLen`, `Push`,
`Notify`: three steps, since the lock is released between them) to the goroutine
of the OpenTelemetry consumer (`Notified`, `TickerFires`, `ContextDone`, each
followed by `Drain` and the processing of one event after the other). A publisher
inside `Publish` holds the router's lock for reading; `RegisterConsumer`,
`UnregisterConsumer` and `RouterStops` need it for writing. Events are numbered
in the order they are pushed; `taken`, `handled` and `atCancel` are histories.

**`IntakeWorker`** is the worker that sends the store's events to the service.
`Start` (`ReceiveEvent`, `FlushFullBatch`, `FinalFlush`, ...), the flusher and the
heartbeat (`TickFlush`, `TickHeartbeat`) and the streamer (`Get`, `Connect`,
`SendSucceeds`, `SendFails`) share a batch and a work queue. The queue belongs to
`client-go` and is modelled from how it is used: batches added for the first time
wait but keep their order (`fresh`), a batch added again after a failure waits for
any time (`again`), and a queue that shuts down accepts nothing, not even what
was waiting. A stream may break at any time and takes with it what has not
arrived (`wire`); the worker notices at its next send.

**`HardwareInfo`**, **`HostIdentity`** and **`AWSClient`** have no variables: they
are what the agent reads of a machine, as functions of the record of its files and
services. A file is `None` when it cannot be opened, and `Bad` stands where a number
cannot be parsed. **`Samples`** adds what one call of `Collect` does in each of the
sampling collectors, with the state kept for deltas (`Delta` and the operators named
after the collectors). **`Collectors`** is one collector from registration to its end:
`Register`, `Start`, the ticks of `ContinuousPointCollector` and of the two
collectors with goroutines of their own (processes, kernel log), cancellation; the
reader of the channel, who leaves at the end of the agent's context; and
the machine, whose counters grow, wrap, or go back, whose devices come and go, and
whose files fail. The delta arithmetic has the width of the counters (`Word`).

**`K8sGenerate`** is what the controller makes of an object: a resource and its
relationships, or an error that is final (`Failed`) or retried (`Retry`).
**`K8sController`** is its life: objects are applied and deleted (`Apply`, ...), the
informers see them in any order and may miss deletions, their handlers fill the
queue, and the worker (`Get`, `Update`, `Delete`) writes to the store. The queue of
`client-go` is external and the same as in `IntakeWorker`.

**`GraphBuilder`** has what both builders share: a builder turns a snapshot into a
plan, the sequence of its calls on the store. **`HardwareGraph`** and
**`ContainerGraph`** make the plans, **`ContainerDiscovery`** finds containers in the
cgroup tree and reads their metadata, and **`Inventory`** runs the two managers
beside each other, call by call, while the machine changes and calls fail.

`MC*` modules give the constants their values. **`RelationshipGraphProofs`**,
**`ResourceStoreProofs`**, **`AMSLoaderProofs`**, **`FSLoaderProofs`**,
**`PerfManagerProofs`**, **`MetricsPipelineProofs`**, **`IntakeWorkerProofs`** and
**`K8sControllerProofs`** hold the proofs. Induction up to a bound, and the existence
of recursively defined functions, are lemmas of their own there, since the library's
need an operator parameter.

## Runs

| Run | Shows |
| --- | --- |
| `graph` | Over all sequences of transactions: a relationship exists exactly when the indexes at both its ends hold its key; the predicate index never loses an existing relationship; no query returns a relationship that is gone or does not match, and an answer without an error is complete; a deletion cascades. |
| `store` | Two clients and two subscribers: a subscriber is sent the events in the order of the commits; nothing is lost between snapshot and events; what a subscriber was sent adds up to the database, unless an event overtook its snapshot. |
| `store_liveness` | Writers return, and `Close` ends with all channels closed or the process dead. |
| `ams_loader` | The expiry heap stays a heap with at most one node per cached key, although positions are stale; versions never decrease and a valid configuration never gives way to an invalid one; what was acknowledged is cached or was deleted as expired; whatever is cached was sent to each matching subscriber or is on its way; nothing but a send to a subscriber that has left keeps `Close` from returning. |
| `fs_loader` | Once notifications are handled, the cache equals the directory; subscribers get what is cached; nothing but a send to a subscriber that has left keeps `Close` from returning. |
| `perf` | Exactly the collectors that are registered or being added are not cancelled; stopped collectors end; samples are published in order and completely; `Start` returns, but in one case that the property excepts. |
| `metrics_pipeline` | The ring buffer implements `EventQueue`; a buffer at its threshold is about to be drained or has a notification pending; the last drain leaves nothing that was published before the context was done; every lost event is counted; events are processed. |
| `intake_worker` | Until shutdown every event is in the batch, in the queue, being sent or sent, whatever fails; as long as no stream has failed the service gets the deltas in order and once; every event is sent in the end; `Start` returns once the context is done. |
| `inventory` | Every hardware edge joins two nodes of one machine that are in the store; no relationship is written twice, although a container may be discovered twice; and if the machine stays as it is, its graph is in the store in the end. |
| `k8s` | Containment joins resources that are in the store, in whatever order events come, fail and are retried; as long as nothing is deleted every object is indexed in the end, unless its own write or its node's failed or an owner's kind is unknown; `Start` returns when cancelled. |
| `collectors` | Deltas never add up to more than the machine did, and after every compared sample to no less than the difference from the first, over any ticks, failures, and devices that come and go; a collector whose required files are readable delivers a sample; it ends when cancelled, but in two cases that the property excepts. |
| `graph_predicate_queries` | A counterexample, see below. |

### What the counterexamples say

* `graph_predicate_queries`: a query by predicate may miss existing
  relationships. The binary search does not find every key it is asked to
  delete, and `GetRelationships` stops at the first key without an object.

### Known divergences

The modules reproduce more differences between the code and its documentation,
for which no run is kept:

* A query by one end may miss relationships too: `DeleteResource` leaves keys in
  the indexes of the resources at the other ends (`store.go:383`). The query stops at
  such a key and returns what it has found with an error, or, having found nothing,
  that there is nothing (`store.go:626`).
* An event may overtake the snapshot of a new subscriber, which then ends with an old
  state of the resource (`store.go:724`); `ViewConverges` excepts this.
* A query with no filter finds nothing (`store.go:595`), where the documentation
  says that `nil` matches anything.
* A filter by kind alone selects nothing (`store.go:92`); one by kind and type
  selects a resource's addition but not its deletion (`store.go:417`).
* `Close` of the store may make the process panic: the goroutine that sends a
  subscriber's snapshot is not waited for and may find its channel closed
  (`store.go:724`; `panicked` in `ResourceStore`).
* The last flush of the intake worker is for nothing: as a rule its batch still waits in the
  queue when the queue shuts down, and is dropped (`worker.go:233`). Batches that
  wait for a retry are dropped too, and so are those ready to be sent, because
  the streamer looks at the context first.
* After a send has failed, its batch reaches the service behind newer ones
  (`worker.go:356`), and batches sent before on the same stream may be lost,
  because a send that returned without error has not arrived yet.
* A configuration addresses the expiry heap by the position its node had when it
  was pushed, which may be out of range by now and then ends the process
  (`ams.go:486`; `crashed` in `ConfigCache`).
* A new TTL may change another configuration's deadline, or none, and a disabled
  one may stay in force (`ams.go:451`, `ams.go:485`).
* A subscriber may receive an older version after a newer one (`ams.go:161`,
  `fs.go:263`), and invalid configurations in the list `Watch` sends first,
  although an unset status means valid ones only (`ams.go:172`).
* `Watch` joins the wait group only after it has subscribed, so `Close` may close
  the channel it is about to send on (`ams.go:168`).
* When a subscriber stops receiving, `Close` of either loader may never return
  (`subscription.go:68`, `ams.go:179`): the sends do not look at the context, and the
  performance manager leaves its channel when the agent's context ends
  (`manager.go:181`), which is also when `Close` is called. `CloseReturns` excepts
  exactly the send to a full channel whose subscriber has left.
* An expired configuration is popped from the heap before the lock on the cache is
  taken. A newer version stored in between is deleted and announced as expired,
  although it was acknowledged (`ams.go:229`).
* When the service is down for longer than the maximal age of a stream, the
  loader never reconnects: the deadline is set before the retry loop
  (`ams.go:247`).
* Closing the file loader twice panics (`fs.go:163`).
* The performance manager may not shut down: if it begins to add a collector and the
  event collector leaves first, the merger blocks on its output and `Add` on the
  merger (`manager.go:145`, `manager.go:301`). `manager_test.go:147` expects Start to
  return; `ShutsDown` excepts this case.
* A continuous collector whose goroutine ends before `Start` has set its status stays
  active for good and cannot be started again (`collector.go:211`). One whose channel
  is full when the event collector leaves blocks in its send for good
  (`collector.go:236`). `StopsWhenCancelled` excepts both.
* After a gap longer than the maximal interval the CPU, memory, system and TCP
  collectors refuse every later delta, because they then do not renew the last sample
  (`cpu.go:84`), where comments say that the state is reset (`types.go:65`,
  `types.go:74`). The disk, network and NUMA collectors renew it after every sample, and
  lose the growth between two that are too close to each other (`disk.go:98`).
  `NoGrowthLost` says what is left.
* When an optional file cannot be read, its counters count as zero, and the next delta
  is the whole counter; and the CPU time of a process that has the number of
  an earlier one may be negative, which as an unsigned number is huge
  (`process.go:334`). `NeverOvercounts` and `NoGrowthLost` except these columns.
* The process collector ignores a missing `/proc/[pid]/status`, which its comment
  calls critical; a kernel log error seen before cleanup is forgotten; a degraded
  collector never recovers its status.
* The Kubernetes controller writes an object again that was deleted while its update
  waited for a retry (`controller.go:243`), and an older version over a newer one in
  the same way; tombstones are ignored; a failed `UpdateResource` or `Delete` is
  final; an object with an owner of unknown kind is dropped; the reference to a
  cluster-scoped owner dangles; relationships an object no longer has stay; and
  pods of a node that is never stored are retried for ever.
* A container may be discovered more than once, although a comment says that ids are
  deduplicated (`discovery.go:149`): on a version 1 hierarchy by the directories below
  its own, on version 2 by another scope with its id, as podman's monitor has one
  (`discovery.go:376`). Its node then alternates between what the directories say.
* The canonical name of a machine may change between updates, which starts a second
  hardware tree beside the first; container edges keep the name of the builder's
  construction. Hardware and containers that are gone stay in the store, cpuset edges
  may point to CPUs that were never written, attributes of an edge are never
  refreshed, an error in reading the boot time is kept, NUMA distances are
  taken by position although node ids may have gaps, and the port of a registry is
  taken for an image's tag.

### Bounds

`graph` has three resources, two predicates, four relationships (both directions
between two resources, an edge to a third, a second predicate) and at most two
copies of a key per index value (`MaxCopies`): enough for a search that misses a
key among repetitions, and for keys left at the far end to be revived by a later
addition. In the store models `MaxEvents` bounds the committed events, and
`ChanCap` is 1 instead of 1000, so that channels do fill up. Two clients are
needed for a writer to wait for the lock while another sends; they are
symmetric. Deadlock checking is off in the store models because a store nobody
calls any more, a bounded history, or a dead process are legitimate ends.

The configuration models use two configurations, versions 0 to 3 and an
invalid one, a clock that stops at `MaxClock` = 2 (one configuration expires while
others are handled), two responses, and channels of capacity 1 instead of 10. What
needs more nodes in the expiry heap is proved (below). `FSLoader` allows `MaxOps` = 2
changes after an arbitrary initial directory, enough to remove a file and write it
again, or to change two files, before the first notification is handled. `perf` has
one name with two versions and two starts, so that a collector is replaced while it
runs, with two samples each and channels of capacity 1.

`metrics_pipeline` has one publisher, as the agent does (the performance
manager's event collector), a buffer of three, batches of two, so that a drain
may need two batches, and six events, with which the writing position goes all
the way round a full buffer.

`intake_worker` has batches of two and two events, which fill one batch or are flushed
one by one by the ticker, a heartbeat that goes between them, and two streams that
break, so that a batch fails again when it is retried.

`inventory` has a machine with three states (as it was, with a container in two
directories; changed; and with files missing), one change and one failing call, which hits any call of either manager;
`k8s` a node, a pod and a claim bound to a volume, one deletion, one missed deletion
and one failure, in four settings of which some fail at start. In `collectors` the
intervals 1 and 3 lie below and within the limits 2 and 3 of a delta, and their sums, after
ticks that failed or came too soon, within and above (elapsed time saturates at 4), the counters are 16 bits wide, and
two faults allow a file to fail and come back or a device to leave and return.

### Fairness

`store_liveness` assumes weak fairness of each goroutine of the program (the Go
scheduler runs every goroutine that can run) and of each subscriber's receive,
because the intake worker ranges over the channel until it is closed. Nothing is
assumed about clients calling the store. Weak fairness suffices since a step of
a goroutine, once enabled, stays enabled: the unbuffered channel and the lock
are contended by the one lock holder only.

`ams_loader`, `fs_loader`, `perf`, `metrics_pipeline`, `intake_worker`, `inventory`,
`k8s` and `collectors` assume the same of the goroutines of their parts. A `select`
with several ready cases picks one at random, so strong fairness is assumed of a case
that is ready again and again (the stop case of a loop, the merger's case for each
channel). Nothing is assumed of the service, of files, of `Publish`, of calls to
`Watch` and `Close`, and of the context. `intake_worker` also assumes that a wait in
the queue ends, that the ticker ticks, that a connection attempt succeeds in the end
(the code retries without limit), and that the store closes its channels when the
context is done (`store_liveness` checks it). `k8s` assumes that the informers see the
state of each object in the end and that each retry comes due; `inventory` that the
tickers tick; `collectors` that the channel of a collector is read until its
reader leaves, and the loaders' runs that a subscriber receives until it leaves; both
may leave at any time after the context has ended.

## Proofs

`RelationshipGraphProofs` proves every property of the `graph` run, and that queries
with both ends are exact (`EndpointQueriesExact`), for all sets
of resources and predicates, all hash orders and all batches. The inductive
invariant `GraphInv` adds to the checked invariants that an index holds only keys
that belong to it (`IndexesOwnKeys`): without it a deletion could take away
relationships of other resources. Its argument:

1. The search returns a position that holds the key or 0
   (`SearchIndexFinds`). The definition is a recursive function, so its
   existence is proved first, by induction on the length of the interval. Hence a deletion decreases only the counts of the keys
   it is asked for and never below zero (`DeleteObjKeysType`).
2. A deletion removes exactly the relationships whose key is in one of the
   resource's own indexes. By the invariant these are the ones with the resource
   at one end, so what stays keeps its count in its predicate's index, and what
   stays has both its end indexes untouched.
3. An addition increases the counts in all three indexes together with the set
   of objects, so both directions of the equivalence persist.
4. The theorems on queries follow from the invariant in one state; the cascade
   follows from the invariant and the definition of the deletion step.

The proofs assume what the code's callers guarantee: `HashOrder` is injective (no
two relationships share a hash), and no relationship has one resource at both
ends.

`MetricsPipelineProofs` proves every safety property of `metrics_pipeline`, and that
batches are processed once and completely (`BatchesComplete`), for all
capacities, batch sizes and numbers of events, and for any set of publishers with
one exception: `DropsCounted` holds for one publisher only, since a second one
could fill the buffer after the first has looked at its length.

1. `PushIsLatest`: a push on the array is the queue's push. The cases are a buffer
   that is not full (its elements start at position 0) and a full one (they start
   at the next position to write), the latter with and without wrap-around.
   `PipelineImplementsQueue` follows step by step.
2. `NoLostWakeup` is inductive together with the types.
3. `BatchesComplete` needs `EmptyBetweenDrains`, because a drain overwrites the
   batch the goroutine had; `FinalDrain` needs `LastDrainInv`, which says of the
   time after the last drain what `FinalDrain` says of the end; `DropsCounted`
   needs `DropInv`, which covers the moment between the count and the push.

The proofs assume a capacity and a batch size of at least one, which the
consumer's configuration enforces.

`IntakeWorkerProofs` proves for all batch sizes and numbers of events, heartbeats
and failures that `IntakeWorker` keeps its types, the bound on a batch among them,
and forgets nothing. The latter needs `ShutdownOrder`, that the queue shuts down only
after the channel was closed, and the channel only after the context was done:
otherwise an add could be refused while the context still runs. Then each
step moves a batch from one place to another (`NextNothingForgotten`).
`OrderUntilFailure` needs `OrderInv`: what has arrived, is on the wire, is being sent,
is ready, waits, and is in the batch forms one chain of consecutive numbers, as
long as nothing has failed. The links of the chain are lemmas on sequences of batches,
of which heartbeats are empty ones.

`ResourceStoreProofs` proves for any number of clients, subscribers, events and any
capacity of the channels:

1. `CommitOrderKept`: a writer has the lock from its commit until its last event is
   handed over, so at most one client has events in its outbox (`OutboxLocked`). These
   are the end of the log, and what comes before them the router has had, one after the
   other (`Routed`); it gives an event to a subscriber at most once (`SubscribedOnce`).
   Hence what is sent to a subscriber is in the order of the log (`SentInOrder`).
2. `NoChangeLost`: `NoLostChange` is inductive with `StoreInv`, in particular with
   `OutboxLocked`: a writer that commits finds the outbox of the one before it empty.
   Each step then moves an event on: from the outbox to the router, from the router to
   the channels of the subscribers left, from there to what was sent. A subscriber's
   snapshot covers what was committed before it.
3. `ViewsConverge`: the invariant is `ViewInv`. The database is what the log amounts to
   (`LogInv`); what is sent to a subscriber is in the order of the log, as above, and,
   from its first event on, without gaps (`NoGaps`); its snapshot is the database after
   some prefix of the log, and is sent unless it is empty (`SnapshotsTrue`). When nothing is on its way, the last message
   about a resource is then the last event about it, or a snapshot that is not older
   (`ViewIsVersion`); that a newer event did not overtake the snapshot, which the
   code allows, is a premise of `ViewConverges`. The hypothesis `DeletionsMatch` says that a filter
   that asks for a resource asks for its deletion, whose event has another kind
   (`DeletedKind`). It is true of all filters that name no kinds, which are the ones in
   use.

The proofs assume that no relationship is also a name of a resource.

`AMSLoaderProofs` proves the safety properties of `ams_loader` for any configurations,
responses, watchers, times and capacities. Its first half is about `TTLHeap` and
`ConfigCache` alone.

1. `container/heap` is correct (`HeapPushFacts`, `HeapFixFacts`, `HeapRemoveFacts`,
   `HeapPopFacts`): each operation yields a heap again whose nodes are the old ones
   but for the one added or taken, and an operation at a position out of range is the
   only one that fails. The sifting loops are recursive functions. `up`
   keeps all nodes in order but for the one that rises (`OrderAround`,
   `RiseKeepsOrder`), `down` all but for the one that sinks (`SinkKeepsOrder`), and
   both end where that one is in order too; that the function exists is again proved
   by induction up to a bound.
2. `CacheInv`: the heap is sound and the entry of a popped node is still cached. A
   stale position then fixes or removes the wrong node, which keeps the heap
   sound although deadlines are mixed up (known divergences).
   `VersionsImprove` follows, action by action.
3. `LoaderInv` adds where the goroutines can be (`Control`): when an
   acknowledgement is due, all objects of the response have been processed.
4. `AckedStaysCached` needs `AckInv`: the objects still to be processed are the last
   ones of the response, and those before them are kept, unless one was rejected.
5. `CachedIsDelivered`: `AtLeastOnce` is inductive with `LoaderInv`: a configuration
   that changes is sent to all watchers that were subscribed by then, and one that
   subscribes later finds it in the cache.

The proofs assume that the model value `None` is neither a key nor a number nor an
entry, and that filters and responses have their types.

`FSLoaderProofs` proves the safety properties of `fs_loader` for any files, contents,
watchers and capacities, and any number of changes to the files.

1. `CacheFollows` needs `CacheInv`. A valid configuration on disk is cached, or the last
   notification about its file that is still to be handled is a write, or the scan has
   yet to come to the file (`WrittenCached`); and likewise for a removed file
   (`RemovedDropped`). It is the last notification that counts: those before it are handled by
   reading a file that has changed since, which may store too new a configuration or drop
   one that is back, and the last one sets that right. `Attributed` says
   that what is cached under a file's key is recorded as coming from that file, so that
   a removal finds it. The hypothesis `OwnKeys` is the one under which the code keeps
   this up: two files with the same key overwrite each other's entry, and a file that
   changes its key leaves the old entry behind.
2. `SentAtLeastOnce` needs `SentInv`: who watches is in the list of subscribers before the
   cache is listed for it (`WatchersKnown`), and what is cached has been sent to a watcher
   that has listed the cache, is among what it listed, or is being sent (`ListedSent`).

The proofs assume that the markers for no file, nonsense and no entry differ from each
other as far as the code tells them apart, and from configurations and keys.

`PerfManagerProofs` proves `NoCollectorStrays` for any names and numbers of starts;
the invariant `ManagerInv` says that the table holds collectors under their own names,
and that while one is being added none runs under its name. It also proves that what a
collector sends is published in order and without gaps (`OrderKept`): `FlowInv` counts
the samples that are in the channel, held by the merger, and published.

`K8sControllerProofs` proves `ContainmentCorrect` for any objects, versions, settings
and failures. `K8sInv`: events name versions that exist, the worker runs only after
the cluster's resource was written, and containment joins what is in the store. That
the worker's steps keep it rests on what the generators return
(a pod only if its node is in the store), which is proved for each kind. It
assumes that no object of the API server is of kind Cluster.

### Model-checked only

* Liveness under fairness (`CloseCompletes`, `WritersReturn`, `CloseReturns`,
  `CancelledEnd`, `SamplesPublished`, `ShutsDown`, `EventsProcessed`, `EventsSent`,
  `Terminates`, `EventuallyInventoried`, `EventuallyIndexed`, `StopsWhenCancelled`):
  out of the proof system's reach.
* The properties of `inventory` and `collectors`: they rest on what folds over files,
  paths and plans compute, that is, on induction over data; `NeverOvercounts` and
  `NoGrowthLost` hold for the files of the instance, whose counters grow together, and
  are statements about sums of columns in files of any shape otherwise.

## Not modelled

Text and byte formats (key encoding, protobuf), logging, flags, metrics that are only
logged, and code that only talks to the outside (endpoints, eBPF, the cloud SDK beyond
what its client keeps). Files of `/proc` and `/sys` are modelled as lines of keys and values, paths
as sequences of segments. The execsnoop collector, which needs eBPF, is left out, and
so is the debug consumer, which counts and logs. The key-value database is
assumed to run its transactions atomically; the cgroup hierarchy does not change its version while
the agent runs.
