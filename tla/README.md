# Formal models of pmxcfs

pmxcfs is the replicated configuration file system of a Proxmox VE cluster: a
FUSE file system over an SQLite database that every node keeps a full copy of,
replicated through a Corosync process group (CPG). This directory models the
Rust implementation, `src/src/pmxcfs-rs`; the C daemon it replaces,
`src/src/pmxcfs`, was read where the Rust code refers to it. Source paths below
are relative to `src/src/pmxcfs-rs`.

`PROJECT.json` has the map from definitions to source lines, the runs, the
mutants that show each property can fail, the findings, the hazards and the
theorems. To repeat a run: `tlc -config <cfg> <module>`; to check the proofs of a
module: `tlapm <module>.tla`.

## The system and its parts

| part | state | operations | interacts with |
|---|---|---|---|
| Database (`pmxcfs-memdb`) | table `tree` in SQLite, index and tree maps, version counter, errors flag, write guard | create, write, set_mtime, delete, rename, apply_tree_entry, encode_index, open | state machine, FUSE, IPC |
| Mutexes of the database | guard, conn, index, tree, locks | every operation takes and drops some of them | the threads that deliver, serve FUSE and serve IPC |
| Lock directories (`locks.rs`, callbacks, FUSE) | directories under `priv/lock`, a cache of when each was first seen | mkdir, renewal, release, unlock request, expiry at the leader | state machine, clients |
| Distributed state machine (`pmxcfs-dfsm`) | mode, sync epoch, members and their states, two message queues, waiters, checksums | the CPG callbacks, synchronous sends, the verify timer | CPG, database callbacks, FUSE |
| Database callbacks (`memdb_callbacks.rs`, `index.rs`) | none of their own | delivery, index exchange, leader election, updates | state machine, database |
| Wire formats | none | serialise and parse every message | both process groups |
| Service manager (`pmxcfs-services`) | per service: running flag, AsyncFd, timers; shutdown token | initialise, dispatch, timer, reinitialise, shut down | all services, the reactor |
| Status store (`pmxcfs-status`) | node list, member list, status keys, guest list, counters, RRD dump cache | set, scan, dump, update | IPC, quorum and configuration services, second state machine |
| Cluster log (`pmxcfs-logger`) | buffer of fixed size, deduplication table | pack, insert, evict, sort, image, merge | IPC, second state machine |
| IPC (`pmxcfs-ipc`) | shared-memory rings, work queue, flow control word | accept, receive, handle, respond, stop | clients, request service |
| FUSE layer and plugin files (`pmxcfs/src/fuse`, `plugins`) | the request being served | one handler per kernel request | database, state machine, status store |

What is hard here: a message may arrive anywhere inside a round of state
exchange; rounds overlap, since CPG may order a message of one round after the
next has begun; a node may crash, be cut off or have a multicast refused between
any two steps; database operations are a sequence of locked sections and not one;
the version counter is at once allocator, clock and election criterion; the
status store has a lock per field and clients that trust counters; two processes
share the words of a ring with no lock at all; an answer may be late; and a
descriptor number may name another connection a moment later.

What correctness means: replicas that are synced agree; all nodes elect the same
leader from the same states; no epoch or inode is used twice; memory equals what
a restart would load; nothing is delivered twice; only expired locks are broken,
and abandoned ones go; nobody waits in a circle; a service that is down comes
back; a request is understood as sent and answered once, with its own result; a
counter that stands still means a content that has not changed.

## Modules

| module | models | extends |
|---|---|---|
| `MemDb` | one database, at the granularity of its locks and transactions | |
| `MemDbLockOrder` | the mutexes: each operation as its sequence of lock and unlock | |
| `LockDirs` | one cluster lock in a synced group, the lock cache, expiry | |
| `Replica` | the database as the protocol sees it: operators from database to database | |
| `Dfsm` | a group of nodes running the protocol over CPG | `Replica` |
| `WireFormat` | frames of both groups as sequences of cells | |
| `FuseFs` | the FUSE loop of one daemon, its database and its peer | `WireFormat` |
| `ServiceManager` | the tasks of the services and the reactor | |
| `IpcRequests` | what a request means: parsing, and the answer and effect of each handler | |
| `IpcServer` | acceptor, connections, work queue, flow control, stop | `IpcRequests` |
| `Fifo` | what a ring promises: a bounded first-in first-out channel | |
| `RingBuffer` | the ring in shared memory, load by load and store by store | |
| `Status` | status store, quorum and configuration services, guest list scans | |
| `ClusterLog` | the log of several daemons and its synchronisation | |

Each has an instance for TLC: `MCMemDb`, `MCMemDbLockOrder`, `MCMemDbReaddir`,
`MCLockDirs`, `MCDfsm`, `MCFuseFs` (`FuseFs` and `WireFormat`), `MCDaemon`
(`ServiceManager` and `IpcServer`), `MCRingBuffer` and `MCStatus` (`Status` and
`ClusterLog`). The theorems are in `MemDbProofs`, `MemDbLockOrderProofs`,
`LockDirsProofs`, `DfsmProofs`, `FuseProofs`, `DaemonProofs`, `RingBufferProofs` and
`StatusProofs`.

Definitions whose name ends in an underscore and a word (`NewRound_KeepsStates`)
are mutants: plausible bugs, used to show that a property notices them. They are
no part of the specifications.

### MemDb

`rows` and `versionRow` are the table, `index` and `tree` the maps, `version` the
atomic counter, `guard` the write guard; `pc`, `req` and `work` say where a
thread is in its operation and what it has read, until it returns. An operation is split where the
code releases a lock that another thread may take: `StartGuarded`/`StartUnguarded`
(the checks), `Enter` (guard and version bump), `Commit` (the transaction, with
`TransactionRefused` and `TransactionFails` for SQLite errors), `UpdateRoot`,
`Publish`. `Apply` and `EncodeIndex` are what the state machine calls. `Crash`
drops memory and loads the table, as `open` does.
Abstractions: every mutation stamps what it touches with its version, so the
version stands for writer and mtime, and `data` is the version of the write that
produced a content; the several lookups of one operation's checks are one step.
`MCMemDb` watches two things besides: `raced`, the entries that both threads had in
hand at once, and `replaced`, the directories that a rename has put something in the
place of.

### MemDbLockOrder

A thread runs a program: the `lock()` calls of an operation and the points where
the guards are dropped. `Acquire` waits for a free mutex. parking_lot mutexes are
not reentrant, so a thread may wait for itself.

### LockDirs

`lock[n]` is the directory at node n, `cache[n]` its lock cache. The cache is
keyed by paths as strings, and the code spells them in two ways, which the model
keeps. `Mkdir`, `Rmdir`, `Renew` and `RequestUnlock` are the FUSE requests;
`DeliverMessage` runs a handler; `Tick` lets time pass; `Restart` reloads the
cache. Messages reach all nodes in one order, each at its own pace: that is what
`Dfsm` provides as long as the group stays synced.

### Replica and Dfsm

`dfsm[n]` is the struct `Dfsm` of node n together with its database, `inbox[n]`
what CPG has ordered for n, `outbox[n]` what the library has accepted and not yet
ordered, `ring[n]` the CPG membership, `left` the remaining budget of faults and
requests. One CPG callback is one step, because the service dispatches callbacks
one after the other. A handler is an operator from the struct to a set of
outcomes: one for each way its multicasts are accepted or refused. `OnDeliver`
and `OnConfchg` are the callbacks; `IgnoreWrongEpoch` is their early return;
`SendMessageSync`/`SendTimeout` are a client's request and its timeout;
`VerifyRequest` is the hourly timer; `Join`, `Merge`, `Crash`, `Disconnect` and
`Partition` change the membership; `Order` is CPG ordering a multicast.
Abstractions: messages are records; files live in the root directory; members
are ordered by node id; the timestamp in an epoch is left out (the counter and
the process id tell epochs apart); updates go out in any order, as the code
iterates over a `HashSet`. A mutation stamps with its version, which also stands for
the mtime its message carries; a delete carries none, so `Deleted` stamps the root
with the node's own clock, the field `clock` of a database.

### WireFormat

A frame is a sequence of cells: an integer field is one cell, a 32-bit field keeps
its value modulo `Word`, a byte of a string is one cell and zero ends a C string; `Lead`
and `Trail` are the two bytes of a character outside ASCII, which a cut may part. `Transmit`
serialises a message and `Receive` parses the frame, with every length check of
`DfsmMessage`, `CFuseMessage`, `KvStoreMessage`, the index and the tree entry.

### FuseFs

`db` is the in-memory part of `MemDb`, one operation a step. `kernel` holds the
node ids the kernel knows; a handler turns one into a path as the database is now,
sends a message with the path and waits: `task` is the waiting request, `awaited`
the count in `message_results`, `order` what is under way. `Finish` and `Expire`
end the wait, `PeerSends` and `DeliverNext` are the other node, whose counts begin
anywhere, and the deliveries.
Without a cluster a handler changes the database itself.

### ServiceManager

One task per service; `registered` is the set of descriptor numbers the reactor
watches. The operating system hands out the numbers again. initialize, dispatch,
timer_callback and finalize of the daemon's services never suspend, so a task
runs from one wait to the next.

### IpcRequests and IpcServer

`IpcRequests` packs a request the way `PVE/Cluster.pm` does, parses it the way `request.rs`
does and gives the answer and the effect of each handler on `store`. In `IpcServer`
the acceptor is one task (`Accept` to `ConnectionCreated`); a connection is
`link[c]`, with a receiver (`Receive`, `Queue`, `SetFlow`), a worker (`TakeWork`,
`HandleWork`) and a sender (`SendResponse`); `StopStep` is the server's stop. A
ring is a bounded channel there, which is what `RingBuffer` is shown to be.

### Fifo and RingBuffer

`data` is the circle of words, `read_pt`, `write_pt` and the semaphore the shared
header. Each load and store is a step: `CheckSpace` to `Post` for the writer,
`SemWait` to `Return` for the reader. Stores become visible in program order.
`queue` is a history variable, the chunks whose `write_pt` has been stored and
whose `read_pt` has not; the refinement mapping sends it to the channel of `Fifo`.

### Status and ClusterLog

Every field of the store has a lock of its own, so an operation that touches two
fields is two steps. `task[t]` is what a task is in the middle of and `owed[t]`
the counters it has yet to increment. `config` and `notes` are the configuration
and the quorum service, `poll` a client that reads a content again when its
counter moved, `dump[r]` a reader of the RRD dump. `config.watch` and `tracking` say
whether the reactor still watches a service: a reconnection may cost it the
registration (manager.rs:142). `db.silent` is set by the changes of a file that move
no counter: a truncate of FUSE, and a write that creates an empty file. In `ClusterLog` an entry is
packed outside the lock (`LogLocally`, `DeliverLog`) and inserted under it
(`Insert`); a round of synchronisation is `BeginRound`, `GetState`, `Merge`.

## Runs

| run | instance | what it shows |
|---|---|---|
| `memdb` | delivering thread with 15 requests over 3 paths beside the truncate of FUSE, updates of a leader, crash and SQLite error at every step | the counter bounds every inode and version (`VersionBoundsInodes`), memory equals what a restart would load but for entries both threads had in hand at once (`CacheMatchesDisk`), only those and what lay in a directory that was renamed over lose their directory (`TreeHasNoOrphans`), `FileSystemLimit`, the durable version grows (`VersionIsDurable`), a waiting operation gets through (`OperationsComplete`) |
| `memdb_lock_order` | three threads, all operations | a circular wait has a readdir in it that holds the tree and waits for the index (`OnlyReaddirDeadlocks`); all operations but readdir take mutexes by rank and drop them (`OperationsAreWellLocked`) |
| `memdb_readdir` | a delivering thread and one that lists | **violation** of `NoCircularWait`: readdir takes the tree before the index |
| `lock_dirs` | 2 nodes, 2 locks in a row, a renewal or a restart | only a lock that has been there longer than the timeout is broken (`OnlyExpiredIsUnlocked`), nodes agree (`LocksAgree`), an abandoned lock goes (`AbandonedLockGoes`) |
| `lock_stale_unlock` | 2 nodes, 2 locks | **violation** of `UnlockSparesNewLock`: an Unlock under way deletes the lock that took the expired one's place |
| `dfsm_sync` | 3 nodes with prefixes of one history, verification at any time | all become synced (`EventuallySynced`), hold the same database (`ReplicasAgree`), verification finds no difference (`NobodyLeaves`) |
| `dfsm_messages` | 2 nodes, one of them half-updated by an interrupted round and equal in version and mtime, clocks that differ, 2 deletions, queue of 1, two joins, and one restart, disconnection, partition or refused multicast | no message is delivered twice (`DeliveredOnce`), no epoch is used twice (`EpochsAreDrawn`), nodes that decide under one epoch decide from the same states (`SameElection`), one node sends updates (`OneUpdater`) |
| `dfsm_lost_message` | 2 nodes, a write during state exchange | **violation** of `ReplicasAgree`: the message stays queued at every node but its sender |
| `fuse` | one directory and a file, three plugin files, a peer; frames of every type | a node id keeps naming its entry (`NodeidsResolve`), a handler goes on with its own result or that of a message of the peer with the same count (`AnswersAreOwn`), every request is answered (`RequestsAreAnswered`), frames are read back as sent, but for a key that is too long, which is cut, or refused where the cut parts a character (`FramesReadBack`) |
| `daemon` | 2 services over 2 descriptor numbers; 2 IPC clients with every request and with garbled ones | `ConnectionMatchesFlag`, `NoStaleRegistration`, `DownServiceIsRetried`, `ShutdownCompletes`; requests are understood as packed (`UnderstoodAsSent`) and answered once in order (`AnswersAreInOrder`), flow control is never late (`FlowControlCovers`), connections end (`ConnectionEnds`) |
| `ring_buffer` | ring of 11 words, chunks of 3, 4 and 5 words at every offset | the ring implements the channel (`ImplementsFifo`), the reader refuses nothing but a chunk that is too long (`ReaderFailsOnlyOnLong`), what is announced is received (`AnnouncedIsReceived`) |
| `status` | store with 2 nodes, 1 guest, 2 dump readers; log of 2 daemons and a foreign node | counters hide no change but the silent ones (`CachedIsFresh`), dumps are recent (`DumpIsRecent`), node list and quorum converge while their service is watched (`ConfigConverges`, `QuorumConverges`), logs stay ordered (`LogIsOrdered`), merge to the newest entries (`MergeKeepsNewest`), images read back (`ImageReadsBack`) |

### Bounds

Several instances have a variable `focus` that never changes: components that
share no variable, or requests that concern different parts, take turns by
behaviour and not in one state, so the state spaces add up and do not multiply. Its
guards only remove steps of the specification; the theorems have no focus.

Two nodes are enough for every order of two senders' messages; three are needed
for an election with a follower that is neither leader nor the one that answers,
so `dfsm_sync` has three. Two nodes are enough for a tie of two databases that differ
(`Tied`). `MaxJoin` 2 lets a second round start inside the first,
`MaxLoss` 1 puts a crash, a disconnection or a partition between any two steps (or
`MaxFail` 1 refuses a multicast: `dfsm_messages` has one fault of either kind),
`MaxQueueLen` 1 (500 in the code) makes the queue fill. In `MemDb`, three paths
give a directory, a file in it and a file beside it; `MaxVersion` 7 allows six
mutations in a row; `MaxFsSize` 3 and `MaxFileSize` 2 make both limits bite. In
`LockDirs` one tick stands for `LOCK_TIMEOUT`; `MaxBacklog` bounds how far a node
may lag behind, and the violation needs four messages to pass each other; a
behaviour has a renewal or a restart and not both, because every renewal is
refused. Two descriptor numbers for two services force reuse. The work queue of 2
and the threshold 1 (8 and 6 in the code) make the queue fill and flow control
change with 5 requests. In `FuseFs` this node has two requests under way or in a
row and a peer one message; when the peer's is there, the second request comes before
a delivery has changed the database. Chunks of 3, 4 and 5 words go round a ring of 11 words in
every position. The log's buffer holds two entries of full size, so that eviction,
merging and the image at full capacity happen; identifiers wrap around at 2, so that
they do with three entries.

### Deadlock checking and fairness

Deadlock is checked in `MemDb`, `LockDirs` and `memdb_readdir`. The others may
stop: the mutexes of the database when a readdir is in the circle, `Dfsm`, `Status`, `ClusterLog` and `FuseFs` when their budget is spent, the
daemon after its shutdown, and a ring whose writer waits for space in `send`.

* `Dfsm`: the service loop keeps dispatching and CPG orders what it has accepted
  (weak fairness, of taking the next event: a node that is not hung has a handler for
  each). No fairness for clients, timers, joins or faults.
* `MemDb`: strong fairness of a thread's steps: a thread is scheduled, and
  parking_lot hands over a contended mutex.
* `LockDirs`: messages are delivered, time passes, and somebody who wants the lock
  asks again, which `PVE::Cluster` does in a loop; renewals are bounded, since a
  lock that is renewed for ever is not abandoned.
* `FuseFs`: a handler whose message was delivered goes on, and its timer fires
  (weak fairness); nothing is assumed of the cluster.
* `ServiceManager`: time passes, a ready task is polled (weak fairness), and
  dispatch has strong fairness, because the biased select polls the timer first and
  comes to a readable descriptor at the first poll that finds no timer due.
* `IpcServer`: acceptor, receiver, worker and sender are polled while they are
  ready and a stop that has begun goes on (weak fairness); clients are free.
* `RingBuffer`: the reader's loop goes on (weak fairness); the writer is free.
* `Status`: the configuration and the quorum task are polled while the reactor watches
  them (weak fairness); a service whose registration was dropped has no step, and the
  two properties say nothing of it. CMAP and the quorum provider change a bounded
  number of times.

## What is proved

All theorems hold for every value of the constants that satisfies the module's
`ASSUME`: any number of nodes, threads, services, clients, requests and faults.
The assumptions say what kind of thing a constant is, and that the limits of the
code that are above zero there (8 and 6 in `connection.rs`, the sizes of a ring,
`LOCK_TIMEOUT`, the retry interval) are above zero. Leaves name Zenon where it is
enough: translating an obligation for the SMT solver is most of the work.

* **Epochs** (`DfsmProofs`): `EpochsSeparateRounds` and `NextEpochIsUnused`. Every
  epoch that a node uses or a message carries was drawn by the node it names, in
  this or an earlier process, so a new round's epoch is in nobody's hands. This is
  what the epoch check in `handle_dfsm_message` rests on. The invariant adds that
  counters are numbers, boxes are sequences, and drawn epochs stay drawn; it says
  nothing of databases, because none decides about an epoch.
* **Delivery** (`DfsmProofs`): `MessagesAreDeliveredOnce`. A request is known
  by its key: sender, process of the sender and count. At a node a key is in at
  most one of inbox, sync queue, message queue and log, and there once (`Once`,
  `NodeOnce`, `ArrivesOnce`); what its sender's outbox still has is nowhere
  (`Issued`); outboxes are numbered upwards and below the counter (`Numbered`).
  `DeliveredOnce` speaks of the log only; the rest is what makes it inductive: the
  handlers move a message from place to place, and a restarted sender counts from
  the start under a new process id. The message queue is a map that is delivered in
  the order of its counts; that this order lists each count once (`CountsAreListed`)
  is a fact about finite sets, carried as a hypothesis through the lemmas and shown
  at the end from the theorems on finite sets (`QueuesAreListed`).
* **Inodes** (`MemDbProofs`): `TypeCorrect` and `InodesAreFresh`. The version counter
  is never behind an inode or version in memory, on disk or in a thread's hands.
  `VersionBoundsInodes` is not inductive by itself: a thread that has drawn a
  version publishes it steps later, and another thread or a crash may come in
  between. The invariant adds the types, that the root is in its place (`RootInPlace`;
  an update of a leader may carry the root entry), that no link leads to it, and
  what a thread's `work` may hold at each program counter.
* **Mutexes** (`MemDbLockOrderProofs`): `NoDeadlock` and `OrderIsKept` for operations
  that take their mutexes by ascending rank and drop them, and
  `ReaddirIsTheOnlyDeadlock` for all operations of the database: a circular wait
  has a readdir in it that holds the tree and waits for the index. The invariant says that a thread owns exactly what its program
  holds at its position; in a waiting circle the thread that waits for the highest
  mutex contradicts it. An operation is a concatenation of locked sections, and
  the lemmas say that concatenating and nesting keep the order. readdir is
  disciplined but for one acquisition (`Disciplined`, `ReaddirSteps`): in a circle
  without a thread at that point the argument is the same. `memdb_readdir` shows that
  the exception is needed.
* **Lock directories** (`LockDirsProofs`): `UnlocksAreDue` and `NodesAgreeOnLocks`. For
  the first, no cache entry is older than the lock whose checksum it carries, under
  either spelling, and an Unlock under way names a lock past its timeout
  (`ExpiryInv`). For the second, of two nodes the one that is ahead has the lock
  that the other one will have after the messages in between (`ReplayInv`): the
  effect of a message depends on the lock directory alone and not on the cache.
* **Waiting handlers** (`FuseProofs`): `ResultsAreOwn`. Whatever database is open and
  whatever node ids the kernel holds, a handler goes on with the result of its own
  message, or with that of a message of the other node that has the count drawn last.
  `AnswersAreOwn` speaks of a result that has been given; `WaitInv` adds that a message
  of this node under way has a drawn count and, if it is the one awaited, the message
  of the waiting handler. Nothing is assumed of the other node's counts; every node
  counts from 0, so the collision is an ordinary case (see Deviations).
* **Service manager** (`DaemonProofs`): `TypeCorrect`, `ConnectionsAreConsistent` and
  `RegistrationsAreLive`: flag, AsyncFd and connection agree, and the reactor watches
  live connections only. It needs that no two services hold one descriptor.
* **IPC connections** (`DaemonProofs`): `EachRequestIsAnsweredOnce` and
  `FlowControlIsInTime`. The invariant of a connection (`LinkInv`) says which parts
  are empty at which stage (`Stages`), that a request moves along ring, receiver,
  queue and worker in the order it was sent (`Line`), and that what was received
  is made up of the answers and of what is under way (`Accounts`). The second adds
  what the flow word covers while the receiver is between `try_send` and the reading
  of the capacity (`Told`): the worker only shortens the queue meanwhile.
* **Ring buffer** (`RingBufferProofs`): `ReaderSafe` (the semaphore counts exactly the
  complete chunks that nobody has claimed; the reader fails only on a chunk that is
  too long), `UnreadSafe` (what the writer fills and what is unread are apart) and
  `RingBufferIsFifo` (the refinement). The invariant measures positions as distances
  from `read_pt`: chunks follow one another (`Layout`), the writer's chunk fits before
  the circle closes (`WriterFits`), each word holds what it should at every point of
  the writer's and the reader's code (`WriterData`, `Contents`, `ReaderData`).
* **Status store** (`StatusProofs`): `ClientsStayFresh` and `DumpsAreRecent`. For the
  first, every step that changes a content moves its counter, leaves a debt or marks
  the file as changed silently (`HidesNothing`), a task that is about to store owes nothing (`DebtsArePaid`), and
  a client is never ahead of a counter (`ClientIsBehind`). For the second, a dump was
  collected no earlier than the time it is stamped with (`StampsAreOld`).

### Only model-checked, and why

* Liveness (`EventuallySynced`, `OperationsComplete`, `AbandonedLockGoes`,
  `AnnouncedIsReceived`, `DownServiceIsRetried`, `ShutdownCompletes`,
  `ConnectionEnds`, `ConfigConverges`, `QuorumConverges`, `RequestsAreAnswered`):
  fairness and `ENABLED` are out of the prover's reach.
* `LogIsOrdered`, `MergeKeepsNewest`, `ImageReadsBack`, `UnderstoodAsSent`,
  `FramesReadBack`, `NodeidsResolve`: what a fold, a parser or a recursive path
  computes needs induction over data with an operator as a parameter. `TypeOK` of
  `Dfsm` too, since delivering a queue folds over databases.
* `CacheMatchesDisk`, `TreeHasNoOrphans`: the entries they except are those that the
  auxiliary variables of the instance follow. `FileSystemLimit`, `VersionIsDurable`,
  `ReplicasAgree`, `NobodyLeaves`: true of these instances and not of all;
  the deviations below say when. A theorem would have to exclude what the code does.
* `SameElection`, `OneUpdater`: `handle_sync_start` adopts an epoch and keeps the
  states it had collected before, so an invariant has to say of every state in a
  node's hands which round it may still be used in. No such invariant was found.

## Deviations

Three disagreements between code and documentation have a run and a finding in
`PROJECT.json`. The models show further ones; they keep what the code does, and
the properties say where they stop, or the passing runs stay away from them by their
instances:

Database

* `set_mtime`, `delete` and `rename` copy an entry before they hold the guard: a
  truncate in between is undone in memory and not on disk, although database.rs:47
  promises one guard for all mutations. `CacheMatchesDisk` and `TreeHasNoOrphans`
  confine it to the entries both threads had in hand and what those displace. Two concurrent renames of directories can make a cycle.
* `rename` over a directory that is not empty orphans its children, which
  `TreeHasNoOrphans` excepts; onto its own path it deletes the row on disk.
* `apply_tree_entry` publishes before COMMIT, so a failed COMMIT leaves memory
  ahead of the table; it also sets the `__version__` row back when an entry is
  older (`VersionIsDurable`), and neither it nor `encode_index` looks at the
  errors flag.
* A lock is created with writer 0 and renewed with the node's id, so `set_mtime`
  refuses every renewal; `delete` looks for the cache entry under another spelling
  of the path than `lock_expired`, so entries stay behind.

State machine

* A node that missed a deletion keeps the file: `find_differences` only walks the
  leader's entries. A round that is interrupted after the update with the highest
  version leaves a follower with the leader's version and mtime and not all entries;
  if its number is lower it leads the next round and keeps the gap (`ReplicasAgree`
  with two joins and a loss).
* Delete, rename and unlock stamp the parent directory with the clock of each node
  (memdb_callbacks.rs:424, 450, 547), so the checksums of the next verification differ
  although the contents are equal (`NobodyLeaves` with a deletion).
* `record_message_result` finds a waiter by the message count alone; two nodes
  that send at the same time answer each other's clients.
* `handle_membership_change` holds the write lock of `sync_nodes` while
  `deliver_message_queue` wants to read it: a process that finds itself alone with
  a queued message hangs (`hung` in the model).
* Nothing acts on Leave mode, and a `SyncStart` of an earlier round that is ordered
  late leads there (`EventuallySynced`, and `NobodyLeaves` with three nodes, with two
  joins and a loss).
* `send_updates_to_followers` does not compare digests, `process_state_update`
  does: a follower that differs in a digest only waits for updates nobody sends.

FUSE and wire formats

* Inodes from `PLUGIN_INODE_OFFSET` on collide with the node ids of plugin files, and
  a plugin hides an entry of the root with its name.
* A write's offset is cut to 32 bits. A status key is cut to 255 bytes, and the
  receiver refuses the message when the cut parts a character. A LOG frame of 20 to 23 bytes is indexed
  beyond its end.
* A message names a path: if another node's message puts another entry there first,
  the request changes that one.
* After a create the entry is looked up by path and may be another node's; a stale
  parent id resolves to the root; readdir by offset may skip an entry; truncate is
  local; setattr may truncate and then fail, write may create and then fail.
* The Rust daemon refuses no write without quorum; the C daemon does.

IPC

* A request shorter than a header is skipped without an answer; the flow word is
  not updated when the queue drains; the answer to a refused request overtakes
  those of requests before it; a sender that meets a full response ring waits for
  ever, as `send` of the ring does: nobody wakes it.
* The writer of a ring admits 4N-12 bytes and the reader refuses more than 4N-72.
* Finished connections stay in the map until the server stops, and one accepted
  during the stop is inserted after the map was emptied.
* The AsyncFd of a closed connection is dropped after the next one is registered
  (manager.rs:142): when the new connection has the old number, or another service
  has it by now, a live registration goes with it and that service hears nothing.
  `NoStaleRegistration` is the direction that holds. For the configuration and the
  quorum service this means a node list or a quorum flag that stays as it was.

Status store and log

* `.vmlist` is not updated by a delivered operation on a guest, the member list and
  the address table are not shown to anybody, a failed reading of CMAP leaves the
  old list, and local mode moves no counter. Neither does a truncate of FUSE, nor a
  write that creates an empty file or fails after it has created one: clients keep
  the old content of a tracked file until its counter moves for another reason.
* Two entries of one second and node may have one key, which merging keeps one of;
  an image of a full buffer does not fit the buffer's size.

## What is not modelled

* Start and shutdown of the daemon: wiring; the life cycle of the services is in
  `ServiceManager`.
* RRD storage: formatting and file I/O for a metrics back end.
* Configuration, types, test utilities: constant data and mocks.
* The Corosync bindings: foreign functions; Corosync is modelled from how the daemon
  uses it (multicast, ordering and membership in `Dfsm`, CMAP and quorum in `Status`).
* The C daemon, which is the reference of the Rust code, and the Perl tools, which
  are clients of the file system; of those only the packing of requests is modelled.
* Of the modelled parts: JSON texts, host statistics, the double mapping of a ring's
  file, a wait for the ring's semaphore that a signal cuts short (recv would return an
  error and the connection end; the daemon's handlers are tokio's, which let the
  kernel resume the wait), a handler of the request service that panics (the only way
  to a closed work queue), dispatches of CPG and of the quorum library that ask to be
  repeated and change nothing, asynchronous broadcasts of lock requests in `Dfsm` (they are in `LockDirs`),
  and operations that the daemon never calls (`replace_all_entries`, `acquire_lock`,
  `release_lock`). `PROJECT.json` lists them with reasons.
