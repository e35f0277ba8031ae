-------------------------------- MODULE MemDb ---------------------------------
(***************************************************************************)
(* The in-memory database with SQLite persistence (pmxcfs-memdb,           *)
(* database.rs and sync.rs): the table `tree' on disk, the index and tree  *)
(* maps in memory, the version counter that also allocates inodes, the     *)
(* errors flag and the write guard.                                        *)
(*                                                                         *)
(* Two threads of the daemon mutate it: the one that delivers cluster      *)
(* messages and the one that serves FUSE.  A mutation is split where the   *)
(* code drops a lock another thread may take: checks, entry (write guard   *)
(* and version bump), transaction, root metadata, publication in memory.   *)
(* create and write check under the guard and publish before they release  *)
(* it; set_mtime, delete and rename check before they take it and publish  *)
(* after with_mutation has released it.                                    *)
(*                                                                         *)
(* writer, mtime and the bytes of a file are abstracted: every mutation    *)
(* stamps what it touches with its version, so the version stands for the  *)
(* stamp and `data' is the version of the write that produced the content. *)
(* Lock directories have a module of their own (LockDirs).                 *)
(***************************************************************************)
EXTENDS Integers, FiniteSets, Sequences, FiniteSetsExt

CONSTANTS Threads,        \* the daemon's threads that mutate the database
          NoThread,       \* the write guard is free
          Names, NoName,  \* path components; the root's empty name
          Requests,       \* [Threads -> sets of requests], see Request below
          SyncThreads,    \* threads that apply the leader's updates and encode
          LeaderEntries,  \* entries a leader may send, as <<inode, entry>>
          MaxVersion,     \* bound of the model on the version counter
          MaxInodes, MaxFileSize, MaxFsSize,
          DiskFails       \* whether SQLite may report an error

Root == 0
NoInode == -1

\* Maps: HashMap::new, insert and remove.
Empty == [x \in {} |-> x]
Put(f, k, v) == [x \in DOMAIN f \cup {k} |-> IF x = k THEN v ELSE f[x]]
Drop(f, k) == [x \in DOMAIN f \ {k} |-> f[x]]
Larger(a, b) == IF a >= b THEN a ELSE b

Entry == [parent : Nat, name : Names \cup {NoName}, dir : BOOLEAN,
          version : Nat, size : Nat, data : Nat]

Guarded == {"create", "write"}
Unguarded == {"mtime", "delete", "rename"}

Request ==
       [op : {"create"}, path : Seq(Names), dir : BOOLEAN]
  \cup [op : {"write"}, path : Seq(Names), end : Nat, truncate : BOOLEAN]
  \cup [op : {"mtime", "delete"}, path : Seq(Names)]
  \cup [op : {"rename"}, path : Seq(Names), to : Seq(Names)]

\* The kernel never lets rename(2) through when a path is a prefix of the other.
IsAbove(path, other) ==
  Len(path) <= Len(other) /\ SubSeq(other, 1, Len(path)) = path

ASSUME MemDbAssumption ==
  /\ NoThread \notin Threads
  /\ SyncThreads \subseteq Threads
  /\ DiskFails \in BOOLEAN
  /\ \A t \in Threads : \A r \in Requests[t] :
       /\ r \in Request
       /\ r.path # << >>
       /\ r.op = "rename" => /\ r.to # << >>
                             /\ ~IsAbove(r.path, r.to) /\ ~IsAbove(r.to, r.path)
  /\ \A le \in LeaderEntries :
       /\ le[1] \in Nat /\ le[2] \in Entry /\ le[1] <= le[2].version
       /\ le[1] = Root => le[2].parent = Root /\ le[2].name = NoName

VARIABLES rows,        \* table tree without the __version__ row
          versionRow,  \* version column of the __version__ row
          index,       \* inode -> entry, the root included
          tree,        \* directory inode -> name -> inode
          version,     \* the atomic version counter
          errors,      \* the sticky errors flag
          guard,       \* thread that holds the write guard
          pc,          \* where each thread is in its operation
          req,         \* the request a thread is serving
          work,        \* what the thread has looked up and will write
          newVersion   \* version drawn by the thread's current mutation

disk == <<rows, versionRow>>
memory == <<index, tree, version, errors>>
threads == <<guard, pc, req, work, newVersion>>
vars == <<disk, memory, threads>>

NoEntry == [parent |-> Root, name |-> NoName, dir |-> FALSE,
            version |-> 0, size |-> 0, data |-> 0]
NoWork == [inode |-> NoInode, entry |-> NoEntry, parent |-> Root,
           name |-> NoName, target |-> NoInode]
NoRequest == [op |-> "none", path |-> <<>>]

RootEntry(v) == [parent |-> Root, name |-> NoName, dir |-> TRUE,
                 version |-> v, size |-> 0, data |-> 0]

-----------------------------------------------------------------------------
\* split_path
ParentPath(path) == SubSeq(path, 1, Len(path) - 1)
Last(path) == path[Len(path)]

\* lookup_path: the walk from the root; a link to an inode that is not in the
\* index is no entry.
Child(d, n) ==
  IF d \in DOMAIN tree /\ n \in DOMAIN tree[d] THEN tree[d][n] ELSE NoInode

Walk(path) ==
  LET walk[k \in 0 .. Len(path)] == IF k = 0 THEN Root ELSE Child(walk[k - 1], path[k])
  IN  walk[Len(path)]

LookupPath(path) ==
  LET i == IF path = << >> THEN Root ELSE Child(Walk(ParentPath(path)), Last(path))
  IN  IF i \in DOMAIN index THEN i ELSE NoInode

Exists(path) == LookupPath(path) # NoInode

IsDir(path) == Exists(path) /\ index[LookupPath(path)].dir

NotEmpty(i) == i \in DOMAIN tree /\ DOMAIN tree[i] # {}

Files == {i \in DOMAIN index : ~index[i].dir}
TotalSize == MapThenSumSet(LAMBDA i : index[i].size, Files)

SizeDelta(r) == Larger(r.end, index[LookupPath(r.path)].size)
                  - index[LookupPath(r.path)].size

CreateChecks(r) ==
  /\ ~Exists(r.path)
  /\ IsDir(ParentPath(r.path))
  /\ Cardinality(DOMAIN index) < MaxInodes

\* Mutant: the limit of the file system is compared without the new bytes.
WriteChecks_OldTotal(r) ==
  /\ Exists(r.path)
  /\ ~IsDir(r.path)
  /\ r.end <= MaxFileSize
  /\ SizeDelta(r) > 0 => TotalSize <= MaxFsSize

WriteChecks(r) ==
  /\ Exists(r.path)
  /\ ~IsDir(r.path)
  /\ r.end <= MaxFileSize
  /\ SizeDelta(r) > 0 => TotalSize + SizeDelta(r) <= MaxFsSize

IsRoot(path) == LookupPath(path) = Root

MtimeChecks(r) == Exists(r.path) /\ ~IsRoot(r.path)

\* Mutant: a directory is deleted with what it contains.
DeleteChecks_AnyDirectory(r) == Exists(r.path) /\ ~IsRoot(r.path)

DeleteChecks(r) ==
  /\ Exists(r.path) /\ ~IsRoot(r.path)
  /\ ~(IsDir(r.path) /\ NotEmpty(LookupPath(r.path)))

RenameChecks(r) == Exists(r.path) /\ ~IsRoot(r.path) /\ IsDir(ParentPath(r.to))

Checks(r) ==
  CASE r.op = "create" -> CreateChecks(r)
    [] r.op = "write"  -> WriteChecks(r)
    [] r.op = "mtime"  -> MtimeChecks(r)
    [] r.op = "delete" -> DeleteChecks(r)
    [] r.op = "rename" -> RenameChecks(r)

WrittenSize(r) ==
  IF r.truncate THEN r.end ELSE Larger(r.end, index[LookupPath(r.path)].size)

\* The entry of a new file or directory; its inode is its version.
CreateWork(r, v) ==
  LET p == LookupPath(ParentPath(r.path)) IN
  [inode |-> v, parent |-> p, name |-> Last(r.path), target |-> NoInode,
   entry |-> [parent |-> p, name |-> Last(r.path), dir |-> r.dir,
              version |-> v, size |-> 0, data |-> 0]]

WriteWork(r, v) ==
  LET i == LookupPath(r.path) IN
  [inode |-> i, parent |-> index[i].parent, name |-> index[i].name,
   target |-> NoInode,
   entry |-> [index[i] EXCEPT !.size = WrittenSize(r), !.data = v, !.version = v]]

\* set_mtime, delete and rename keep a copy of the entry as it is now.
SnapshotWork(r) ==
  LET i == LookupPath(r.path) IN
  [inode  |-> i,
   entry  |-> index[i],
   parent |-> IF r.op = "rename" THEN LookupPath(ParentPath(r.to)) ELSE index[i].parent,
   name   |-> IF r.op = "rename" THEN Last(r.to) ELSE index[i].name,
   target |-> IF r.op = "rename" THEN LookupPath(r.to) ELSE NoInode]

-----------------------------------------------------------------------------
\* load_from_db: what the maps and the counter become when the database is
\* opened.  The rows are read by ascending inode: of two rows with the same
\* parent and name the higher inode gets the link.
LoadedVersions == {versionRow} \cup {rows[i].version : i \in DOMAIN rows}

\* Mutant: the __version__ row does not count.
LoadedVersion_RowsOnly ==
  CHOOSE v \in {1} \cup {rows[i].version : i \in DOMAIN rows} :
    \A i \in DOMAIN rows : v >= rows[i].version

LoadedVersion ==
  CHOOSE v \in LoadedVersions : \A w \in LoadedVersions : v >= w

LoadedIndex == Put(rows, Root, RootEntry(versionRow))

LoadedLinks(d) == {i \in DOMAIN rows : rows[i].parent = d}

LoadedTree ==
  LET dirs == {Root} \cup {i \in DOMAIN rows : rows[i].dir}
                     \cup {rows[i].parent : i \in DOMAIN rows}
  IN  [d \in dirs |->
        [n \in {rows[i].name : i \in LoadedLinks(d)} |->
           CHOOSE i \in LoadedLinks(d) :
             /\ rows[i].name = n
             /\ \A j \in LoadedLinks(d) : rows[j].name = n => j <= i]]

\* A database that init_schema has just created and open has loaded.
Init ==
  /\ rows = Empty /\ versionRow = 1
  /\ index = [i \in {Root} |-> RootEntry(1)]
  /\ tree = [i \in {Root} |-> Empty]
  /\ version = 1 /\ errors = FALSE
  /\ guard = NoThread
  /\ pc = [t \in Threads |-> "idle"]
  /\ req = [t \in Threads |-> NoRequest]
  /\ work = [t \in Threads |-> NoWork]
  /\ newVersion = [t \in Threads |-> 0]

-----------------------------------------------------------------------------
\* Bound of the model: a mutation starts only if every mutation under way can
\* still draw a version.
Bounded == version + Cardinality({t \in Threads : pc[t] = "wait"}) < MaxVersion

\* An operation returns, with a result or an error: its locals are gone.
Returns(t) ==
  /\ pc' = [pc EXCEPT ![t] = "idle"]
  /\ req' = [req EXCEPT ![t] = NoRequest]
  /\ work' = [work EXCEPT ![t] = NoWork]
  /\ newVersion' = [newVersion EXCEPT ![t] = 0]

\* create and write only look at the errors flag before they wait for the guard.
StartGuarded(t, r) ==
  /\ pc[t] = "idle" /\ r.op \in Guarded /\ ~errors /\ Bounded
  /\ pc' = [pc EXCEPT ![t] = "wait"]
  /\ req' = [req EXCEPT ![t] = r]
  /\ UNCHANGED <<disk, memory, guard, work, newVersion>>

\* set_mtime, delete and rename do all their lookups first; then with_mutation
\* looks at the errors flag.  A request that fails its checks changes nothing.
StartUnguarded(t, r) ==
  /\ pc[t] = "idle" /\ r.op \in Unguarded /\ ~errors /\ Bounded
  /\ Checks(r)
  /\ pc' = [pc EXCEPT ![t] = "wait"]
  /\ req' = [req EXCEPT ![t] = r]
  /\ work' = [work EXCEPT ![t] = SnapshotWork(r)]
  /\ UNCHANGED <<disk, memory, guard, newVersion>>

\* The guard is taken, the checks of create and write pass, the version is drawn.
Enter(t) ==
  /\ pc[t] = "wait" /\ guard = NoThread
  /\ req[t].op \in Guarded => Checks(req[t])
  /\ guard' = t
  /\ version' = version + 1
  /\ newVersion' = [newVersion EXCEPT ![t] = version + 1]
  /\ work' = [work EXCEPT ![t] =
       CASE req[t].op = "create" -> CreateWork(req[t], version + 1)
         [] req[t].op = "write"  -> WriteWork(req[t], version + 1)
         [] OTHER                -> [@ EXCEPT !.entry.version = version + 1]]
  /\ pc' = [pc EXCEPT ![t] = "transaction"]
  /\ UNCHANGED <<disk, index, tree, errors, req>>

\* The checks of create and write fail under the guard: an error, no change.
Refuse(t) ==
  /\ pc[t] = "wait" /\ guard = NoThread
  /\ req[t].op \in Guarded /\ ~Checks(req[t])
  /\ Returns(t)
  /\ UNCHANGED <<disk, memory, guard>>

\* UPDATE tree SET ... WHERE inode = i: no row, no change.
UpdateRow(table, i, row) == IF i \in DOMAIN table THEN Put(table, i, row) ELSE table

\* The rows once t's transaction has committed.  Each statement only sets the
\* columns it names, on the row as it is now.
CreateRows(w) == Put(rows, w.inode, w.entry)

WriteRows(w, v) ==
  UpdateRow(rows, w.inode, [rows[w.inode] EXCEPT
    !.version = v, !.size = w.entry.size, !.data = w.entry.data])

MtimeRows(w, v) == UpdateRow(rows, w.inode, [rows[w.inode] EXCEPT !.version = v])

DeleteRows(w) == Drop(rows, w.inode)

RenameRows(w, v) ==
  UpdateRow(Drop(rows, w.target), w.inode, [rows[w.inode] EXCEPT
    !.parent = w.parent, !.name = w.name, !.version = v])

CommittedRows(t) ==
  LET w == work[t]
      v == newVersion[t]
  IN  CASE req[t].op = "create" -> CreateRows(w)
        [] req[t].op = "write"  -> WriteRows(w, v)
        [] req[t].op = "mtime"  -> MtimeRows(w, v)
        [] req[t].op = "delete" -> DeleteRows(w)
        [] req[t].op = "rename" -> RenameRows(w, v)

\* The whole transaction, under the connection's mutex; an INSERT whose inode
\* is taken fails.
Commit(t) ==
  /\ pc[t] = "transaction"
  /\ req[t].op = "create" => work[t].inode \notin DOMAIN rows
  /\ rows' = CommittedRows(t)
  /\ versionRow' = newVersion[t]
  /\ pc' = [pc EXCEPT ![t] = "root"]
  /\ UNCHANGED <<memory, guard, req, work, newVersion>>

\* Mutant: the error path keeps the guard.
Released_KeepsGuard(t) == guard' = guard /\ Returns(t)

Released(t) == guard' = NoThread /\ Returns(t)

\* BEGIN or the update of __version__ fails: an error is returned, the counter
\* stays bumped and the flag stays clear.
TransactionRefused(t) ==
  /\ pc[t] = "transaction" /\ DiskFails
  /\ Released(t)
  /\ UNCHANGED <<disk, memory>>

\* The mutation or COMMIT fails: rolled back, and the errors flag is set.
TransactionFails(t) ==
  /\ pc[t] = "transaction" /\ DiskFails
  /\ errors' = TRUE
  /\ Released(t)
  /\ UNCHANGED <<disk, index, tree, version>>

\* Root metadata in memory; with_mutation returns and drops the guard.
UpdateRoot(t) ==
  /\ pc[t] = "root"
  /\ index' = [index EXCEPT ![Root].version = newVersion[t]]
  /\ guard' = IF req[t].op \in Guarded THEN t ELSE NoThread
  /\ pc' = [pc EXCEPT ![t] = "publish"]
  /\ UNCHANGED <<disk, tree, version, errors, req, work, newVersion>>

Unlink(tr, d, n) == IF d \in DOMAIN tr THEN [tr EXCEPT ![d] = Drop(@, n)] ELSE tr
Link(tr, d, n, i) ==
  Put(tr, d, Put(IF d \in DOMAIN tr THEN tr[d] ELSE Empty, n, i))

PublishedIndex(t) ==
  LET w == work[t]
  IN  CASE req[t].op = "delete" -> Drop(index, w.inode)
        [] req[t].op = "rename" ->
             Put(Drop(index, w.target), w.inode,
                 [w.entry EXCEPT !.parent = w.parent, !.name = w.name])
        [] OTHER -> Put(index, w.inode, w.entry)

\* Mutant: the old name stays linked after a rename.
PublishedTree_KeepOldName(t) ==
  LET w == work[t]
      linked == Link(tree, w.parent, w.name, w.inode)
      unlinked == Unlink(tree, w.entry.parent, w.entry.name)
  IN  CASE req[t].op = "create" -> IF w.entry.dir THEN Put(linked, w.inode, Empty) ELSE linked
        [] req[t].op = "delete" -> IF w.entry.dir THEN Drop(unlinked, w.inode) ELSE unlinked
        [] req[t].op = "rename" -> linked
        [] OTHER -> tree

PublishedTree(t) ==
  LET w == work[t]
      linked == Link(tree, w.parent, w.name, w.inode)
      unlinked == Unlink(tree, w.entry.parent, w.entry.name)
  IN  CASE req[t].op = "create" -> IF w.entry.dir THEN Put(linked, w.inode, Empty) ELSE linked
        [] req[t].op = "delete" -> IF w.entry.dir THEN Drop(unlinked, w.inode) ELSE unlinked
        [] req[t].op = "rename" -> Link(unlinked, w.parent, w.name, w.inode)
        [] OTHER -> tree

\* The maps are updated under their own mutexes; create and write still hold
\* the guard, the others do not.
Publish(t) ==
  /\ pc[t] = "publish"
  /\ index' = PublishedIndex(t)
  /\ tree' = PublishedTree(t)
  /\ guard' = IF req[t].op \in Guarded THEN NoThread ELSE guard
  /\ Returns(t)
  /\ UNCHANGED <<disk, version, errors>>

-----------------------------------------------------------------------------
\* apply_tree_entry, in memory: the entry is linked where its parent and name
\* say, an entry of the same inode elsewhere is unlinked, nothing is deleted.
AppliedTree(i, e) ==
  LET moved == i \in DOMAIN index
               /\ (index[i].parent # e.parent \/ index[i].name # e.name)
      linked == IF moved
                THEN Link(Unlink(tree, index[i].parent, index[i].name), e.parent, e.name, i)
                ELSE IF i \in DOMAIN index THEN tree ELSE Link(tree, e.parent, e.name, i)
  IN  IF e.dir /\ i \notin DOMAIN linked THEN Put(linked, i, Empty) ELSE linked

\* Mutant: the counter is left alone.
ApplyInMemory_NoMax(i, e) ==
  /\ index' = [Put(index, i, e) EXCEPT ![Root].version = e.version]
  /\ tree' = AppliedTree(i, e)
  /\ version' = version

\* The index with the entry and the root's metadata set to the entry's, whatever
\* they were; the counter only grows.
ApplyInMemory(i, e) ==
  /\ index' = [Put(index, i, e) EXCEPT ![Root].version = e.version]
  /\ tree' = AppliedTree(i, e)
  /\ version' = Larger(version, e.version)

\* apply_tree_entry: it takes the connection, the index and the tree mutex, not
\* the guard, and ignores the errors flag.  The row of the root, which a leader
\* that runs the C daemon may send, is the __version__ row.
Apply(t, i, e) ==
  /\ pc[t] = "idle"
  /\ ApplyInMemory(i, e)
  /\ rows' = IF i = Root THEN rows ELSE Put(rows, i, e)
  /\ versionRow' = e.version
  /\ UNCHANGED <<errors, threads>>

\* Its COMMIT fails after memory has been updated.
ApplyCommitFails(t, i, e) ==
  /\ pc[t] = "idle" /\ DiskFails
  /\ ApplyInMemory(i, e)
  /\ UNCHANGED <<disk, errors, threads>>

\* encode_index: the root's version follows the counter, on disk as well unless
\* the transaction fails.
EncodeIndex(t) ==
  /\ pc[t] = "idle" /\ index[Root].version # version
  /\ index' = [index EXCEPT ![Root].version = version]
  /\ versionRow' \in {version} \cup (IF DiskFails THEN {versionRow} ELSE {})
  /\ UNCHANGED <<rows, tree, version, errors, threads>>

\* The daemon dies and is started again: memory is what open loads.
Crash ==
  /\ index' = LoadedIndex
  /\ tree' = LoadedTree
  /\ version' = LoadedVersion
  /\ errors' = FALSE
  /\ guard' = NoThread
  /\ pc' = [t \in Threads |-> "idle"]
  /\ req' = [t \in Threads |-> NoRequest]
  /\ work' = [t \in Threads |-> NoWork]
  /\ newVersion' = [t \in Threads |-> 0]
  /\ UNCHANGED disk

Step(t) == \/ Enter(t) \/ Refuse(t) \/ Commit(t) \/ TransactionRefused(t)
           \/ TransactionFails(t) \/ UpdateRoot(t) \/ Publish(t)

Next ==
  \/ \E t \in Threads : \E r \in Requests[t] : StartGuarded(t, r) \/ StartUnguarded(t, r)
  \/ \E t \in Threads : Step(t)
  \/ \E t \in SyncThreads : EncodeIndex(t)
  \/ \E t \in SyncThreads, le \in LeaderEntries :
       Apply(t, le[1], le[2]) \/ ApplyCommitFails(t, le[1], le[2])
  \/ Crash

Spec == Init /\ [][Next]_vars

\* A thread inside an operation keeps running, and a thread that waits for the
\* guard gets it if it is released again and again (parking_lot is fair).
FairSpec == Spec /\ \A t \in Threads : SF_vars(Step(t))

-----------------------------------------------------------------------------
\* One type invariant for the module.
Work == [inode : Int, entry : Entry, parent : Nat, name : Names \cup {NoName}, target : Int]

TypeOK ==
  /\ DOMAIN rows \subseteq Nat \ {Root} /\ \A i \in DOMAIN rows : rows[i] \in Entry
  /\ DOMAIN index \subseteq Nat /\ Root \in DOMAIN index
  /\ \A i \in DOMAIN index : index[i] \in Entry
  /\ versionRow \in Nat /\ version \in Nat /\ errors \in BOOLEAN
  /\ guard \in Threads \cup {NoThread}
  /\ pc \in [Threads -> {"idle", "wait", "transaction", "root", "publish"}]
  /\ req \in [Threads -> Request \cup {NoRequest}]
  /\ work \in [Threads -> Work]
  /\ newVersion \in [Threads -> Nat]

Quiescent == \A t \in Threads : pc[t] = "idle"

\* No inode and no version anywhere, in memory, on disk or in a thread's hands,
\* is ahead of the counter, so the inode create draws from it is a new one.
VersionBoundsInodes ==
  /\ versionRow <= version
  /\ \A i \in DOMAIN rows : i <= rows[i].version /\ rows[i].version <= version
  /\ \A i \in DOMAIN index : i <= version /\ index[i].version <= version
  /\ \A t \in Threads : pc[t] = "transaction" => newVersion[t] <= version

\* The files together never exceed the limit that write enforces.
FileSystemLimit == TotalSize <= MaxFsSize

\* A thread that waits for the guard gets through its operation.
OperationsComplete == \A t \in Threads : pc[t] = "wait" ~> pc[t] = "idle"
=============================================================================
