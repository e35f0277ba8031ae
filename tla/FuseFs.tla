-------------------------------- MODULE FuseFs --------------------------------
(***************************************************************************)
(* The FUSE side of one daemon (pmxcfs/src/fuse/filesystem.rs): a loop that *)
(* serves the kernel's requests one after the other.  The kernel names      *)
(* files by node ids, the database and the cluster name them by paths: a   *)
(* handler turns the id into a path as the database is now, sends a message *)
(* with that path to the cluster, and waits until the message has been     *)
(* delivered here or ten seconds are over.  Messages of other nodes are     *)
(* delivered in between.  Without a cluster the handler changes the         *)
(* database itself.                                                        *)
(*                                                                         *)
(* The database is the in-memory part of MemDb, one operation a step; a     *)
(* file is its size.  A path is a sequence of names.  Lock directories are  *)
(* the subject of LockDirs, limits and disk errors that of MemDb.           *)
(***************************************************************************)
EXTENDS Integers, FiniteSets, TLC, WireFormat

CONSTANTS Names,         \* names the kernel uses
          Priv, NodesDir,  \* the names priv and nodes
          Plugins,       \* the registry: sequence of [name, link, mode, writes, size]
          PluginOffset,  \* PLUGIN_INODE_OFFSET
          PeerMessages,  \* messages other nodes may send
          PeerCounts,    \* where the other node's message count may start
          Offsets, Sizes,  \* arguments of read, write and truncate
          MaxInode,      \* bounds of the model: the version of the database,
          MaxCount,      \*   messages of this node,
          MaxPeer        \*   messages of the other node

ASSUME FuseAssumption == MaxCount \in Nat /\ PeerCounts \subseteq Nat

VARIABLES db,        \* [index, tree, version]: the database
          clustered, \* whether there is a DFSM (no --local)
          quorate,   \* Status::is_quorate
          kernel,    \* node ids the kernel holds -> what it takes them for
          task,      \* the request that waits for its message, or Idle
          counter,   \* msg_counter of the DFSM
          awaited,   \* the count in message_results, or NoCount
          order,     \* messages sent to the cluster and not yet delivered here
          peer,      \* messages the other node has sent, and its first count
          reply,     \* the last reply to the kernel
          replaced   \* a rename has replaced a directory with entries (auxiliary)

fuseVars == <<db, clustered, quorate, kernel, task, counter, awaited, order, peer,
              reply, replaced>>

NoCount == 0
NoResult == [err |-> "none"]
Idle == [op |-> "idle"]
NoReply == [err |-> "none"]
Fail(e) == [err |-> e]
Done == [err |-> "OK"]

-----------------------------------------------------------------------------
\* The database (pmxcfs-memdb/src/database.rs).

RootInode == 0
NoInode == -1
DirEntry(p, n) == [parent |-> p, name |-> n, dir |-> TRUE, size |-> 0]
FileEntry(p, n) == [parent |-> p, name |-> n, dir |-> FALSE, size |-> 0]
NoLinks == [n \in {} |-> NoInode]
Without(f, x) == [y \in DOMAIN f \ {x} |-> f[y]]

EmptyDb == [index |-> (RootInode :> DirEntry(RootInode, "")),
            tree |-> (RootInode :> NoLinks), version |-> 1]

Link(d, i, n) == IF i \in DOMAIN d.tree /\ n \in DOMAIN d.tree[i] THEN d.tree[i][n] ELSE NoInode

\* split_path
Front(path) == SubSeq(path, 1, Len(path) - 1)
Last(path) == path[Len(path)]

\* lookup_path
Find(d, path) ==
  LET walk[k \in 0 .. Len(path)] ==
        IF k = 0 THEN RootInode ELSE Link(d, walk[k - 1], path[k])
      i == walk[Len(path)]
  IN  IF i \in DOMAIN d.index THEN i ELSE NoInode

Holds(d, path) == Find(d, path) # NoInode
HoldsDir(d, path) == Holds(d, path) /\ d.index[Find(d, path)].dir
HasChildren(d, i) == i \in DOMAIN d.tree /\ DOMAIN d.tree[i] # {}

Failed(d) == [db |-> d, ok |-> FALSE]
Changed(d, index, tree) ==
  [db |-> [index |-> index, tree |-> tree, version |-> d.version + 1], ok |-> TRUE]

\* create, whose parent is the directory of the path.
DbCreate(d, path, isDir) ==
  LET i == d.version + 1
      p == Find(d, Front(path))
      e == IF isDir THEN DirEntry(p, Last(path)) ELSE FileEntry(p, Last(path))
      linked == [d.tree EXCEPT ![p] = (Last(path) :> i) @@ @]
  IN  IF Holds(d, path) \/ ~ HoldsDir(d, Front(path)) THEN Failed(d)
      ELSE Changed(d, (i :> e) @@ d.index, IF isDir THEN (i :> NoLinks) @@ linked ELSE linked)

\* write
DbWrite(d, path, offset, len, truncate) ==
  LET i == Find(d, path)
      kept == IF truncate /\ offset < d.index[i].size THEN offset ELSE d.index[i].size
      size == IF offset + len > kept THEN offset + len ELSE kept
  IN  IF ~ Holds(d, path) \/ HoldsDir(d, path) THEN Failed(d)
      ELSE Changed(d, [d.index EXCEPT ![i].size = size], d.tree)

\* set_mtime of what is not a lock.
DbMtime(d, path) ==
  IF ~ Holds(d, path) \/ path = <<>> THEN Failed(d) ELSE Changed(d, d.index, d.tree)

\* Mutant: a directory goes with what is in it.
DbDelete_AnyDirectory(d, path) ==
  LET i == Find(d, path)
      p == d.index[i].parent
      unlinked == [d.tree EXCEPT ![p] = Without(@, d.index[i].name)]
  IN  IF ~ Holds(d, path) \/ i = RootInode THEN Failed(d)
      ELSE Changed(d, Without(d.index, i), Without(unlinked, i))

\* delete
DbDelete(d, path) ==
  LET i == Find(d, path)
      p == d.index[i].parent
      unlinked == [d.tree EXCEPT ![p] = Without(@, d.index[i].name)]
  IN  IF ~ Holds(d, path) \/ i = RootInode \/ (d.index[i].dir /\ HasChildren(d, i))
      THEN Failed(d)
      ELSE Changed(d, Without(d.index, i), Without(unlinked, i))

\* rename.  Whatever has the new name leaves the index; its own links stay.
DbRename(d, path, to) ==
  LET i == Find(d, path)
      target == Find(d, to)
      p == Find(d, Front(to))
      moved == [d.index[i] EXCEPT !.parent = p, !.name = Last(to)]
      unlinked == [d.tree EXCEPT ![d.index[i].parent] = Without(@, d.index[i].name)]
  IN  IF ~ Holds(d, path) \/ i = RootInode \/ ~ HoldsDir(d, Front(to))
      THEN Failed(d)
      ELSE Changed(d, (i :> moved) @@ Without(d.index, target),
                   [unlinked EXCEPT ![p] = (Last(to) :> i) @@ @])

-----------------------------------------------------------------------------
\* Delivery of a message (pmxcfs/src/memdb_callbacks.rs): the database after it
\* and the result.

Outcome(r, e) == [db |-> r.db, err |-> IF r.ok THEN "OK" ELSE e]

DeliverCreate(d, m) == Outcome(DbCreate(d, m.path, FALSE), "EACCES")
DeliverMkdir(d, m) == Outcome(DbCreate(d, m.path, TRUE), "EACCES")

\* A missing file is created first, and stays if the write fails.
DeliverWrite(d, m) ==
  LET c == IF Holds(d, m.path) THEN [db |-> d, ok |-> TRUE] ELSE DbCreate(d, m.path, FALSE)
  IN  IF ~ c.ok THEN Outcome(c, "EACCES")
      ELSE IF m.len = 0 THEN Outcome(c, "EACCES")
      ELSE Outcome(DbWrite(c.db, m.path, U32(m.offset), m.len, FALSE), "EACCES")

\* What is gone already counts as deleted.
DeliverDelete(d, m) ==
  IF Holds(d, m.path) THEN Outcome(DbDelete(d, m.path), "EACCES") ELSE [db |-> d, err |-> "OK"]

DeliverRename(d, m) ==
  IF Holds(d, m.path) THEN Outcome(DbRename(d, m.path, m.to), "EACCES")
                      ELSE [db |-> d, err |-> "ENOENT"]

DeliverMtime(d, m) ==
  IF Holds(d, m.path) THEN Outcome(DbMtime(d, m.path), "EACCES")
                      ELSE [db |-> d, err |-> "ENOENT"]

DeliverTo(d, m) ==
  CASE m.op = "create" -> DeliverCreate(d, m)
    [] m.op = "mkdir"  -> DeliverMkdir(d, m)
    [] m.op = "write"  -> DeliverWrite(d, m)
    [] m.op = "delete" -> DeliverDelete(d, m)
    [] m.op = "rename" -> DeliverRename(d, m)
    [] m.op = "mtime"  -> DeliverMtime(d, m)

\* A handler without a cluster calls the database itself; any failure is EACCES.
ApplyLocally(d, m) ==
  Outcome(CASE m.op = "create" -> DbCreate(d, m.path, FALSE)
           [] m.op = "mkdir"  -> DbCreate(d, m.path, TRUE)
           [] m.op = "write"  -> DbWrite(d, m.path, m.offset, m.len, FALSE)
           [] m.op = "delete" -> DbDelete(d, m.path)
           [] m.op = "rename" -> DbRename(d, m.path, m.to)
           [] m.op = "mtime"  -> DbMtime(d, m.path), "EACCES")

\* The rename m would replace a directory that is not empty.
Replaces(d, m) ==
  /\ m.op = "rename" /\ Holds(d, m.path) /\ HoldsDir(d, m.to)
  /\ HasChildren(d, Find(d, m.to)) /\ m.path # m.to

-----------------------------------------------------------------------------
\* Node ids, paths and attributes.

\* Mutant: the root keeps its number.
FuseToInode_Same(f) == f
FuseToInode(f) == IF f >= PluginOffset THEN f ELSE f - 1
InodeToFuse(i) == IF i >= PluginOffset THEN i ELSE i + 1

\* get_path_for_inode: when an ancestor is missing, the root.
PathOf(d, i) ==
  LET up[j \in Nat] ==
        IF j = RootInode THEN [found |-> TRUE, path |-> <<>>]
        ELSE IF j \notin DOMAIN d.index THEN [found |-> FALSE, path |-> <<>>]
        ELSE [up[d.index[j].parent] EXCEPT !.path = Append(@, d.index[j].name)]
  IN  IF up[i].found THEN up[i].path ELSE <<>>

\* get_path_for_inode of the parent, and join_path.
PathIn(f, n) == Append(PathOf(db, FuseToInode(f)), n)

\* is_private_path: priv and what is below it, and priv of every node.
IsPrivate(path) ==
  \/ path # <<>> /\ path[1] = Priv
  \/ Len(path) >= 3 /\ path[1] = NodesDir /\ path[3] = Priv

\* The bitwise and of an access mode, nine bits, and a mask of the code.
Bit(mode, k) == (mode \div 2^k) % 2
Masked ==
  [mode \in 0..\o777, mask \in {\o700, \o755, \o750, \o555, \o200} |->
     MapThenSumSet(LAMBDA k : Bit(mode, k) * Bit(mask, k) * 2^k, 0..8)]

\* entry_to_stat_with_quorum
Stat(d, i, path, q) ==
  LET e == d.index[i]
      base == IF e.dir THEN (IF q THEN \o777 ELSE \o555) ELSE (IF q THEN \o666 ELSE \o444)
      mask == IF IsPrivate(path) THEN \o700 ELSE IF e.dir THEN \o755 ELSE \o750
  IN  [err |-> "OK", node |-> InodeToFuse(i), kind |-> IF e.dir THEN "dir" ELSE "file",
       mode |-> Masked[base, mask], size |-> IF e.dir THEN 4096 ELSE e.size]

\* The plugin files of the root (pmxcfs/src/plugins): the k-th in the registry's
\* order has node id PluginOffset + k - 1.
PluginNames == {Plugins[k].name : k \in DOMAIN Plugins}
IsPlugin(f) == f >= PluginOffset /\ f - PluginOffset < Len(Plugins)
PluginAt(f) == Plugins[f - PluginOffset + 1]
PluginNode(n) == PluginOffset - 1 + (CHOOSE k \in DOMAIN Plugins : Plugins[k].name = n)

\* plugin_to_stat; plugin_supports_write decides about the write bits.
PluginStat(f) ==
  LET p == PluginAt(f)
  IN  [err |-> "OK", node |-> f, kind |-> IF p.link THEN "link" ELSE "file",
       mode |-> IF p.link THEN (IF quorate THEN \o777 ELSE \o555)
                ELSE IF p.writes THEN p.mode ELSE Masked[p.mode, \o555],
       size |-> p.size]

Bytes(length, offset, size) ==
  IF offset >= length THEN 0
  ELSE (IF offset + size < length THEN offset + size ELSE length) - offset

-----------------------------------------------------------------------------
\* Requests that are answered at once.

Free == task = Idle /\ reply = NoReply
Known(f, kind) == f \in DOMAIN kernel /\ kernel[f] = kind
KnownIds == DOMAIN kernel

\* The kernel takes over what an entry says.
Learned(r) == IF r.err = "OK" THEN (r.node :> r.kind) @@ kernel ELSE kernel

Answer(r) ==
  /\ reply' = r
  /\ UNCHANGED <<db, clustered, quorate, kernel, task, counter, awaited, order, peer, replaced>>

\* handle_lookup
LookupReply(p, n) ==
  LET path == PathIn(p, n)
  IN  IF FuseToInode(p) = RootInode /\ n \in PluginNames THEN PluginStat(PluginNode(n))
      ELSE IF FuseToInode(p) \notin DOMAIN db.index \/ ~ Holds(db, path) THEN Fail("ENOENT")
      ELSE Stat(db, Find(db, path), path, quorate)

Lookup(p, n) ==
  /\ Free /\ Known(p, "dir")
  /\ reply' = LookupReply(p, n)
  /\ kernel' = Learned(LookupReply(p, n))
  /\ UNCHANGED <<db, clustered, quorate, task, counter, awaited, order, peer, replaced>>

\* handle_getattr
GetattrReply(f) ==
  LET i == FuseToInode(f)
  IN  IF IsPlugin(f) THEN PluginStat(f)
      ELSE IF i \in DOMAIN db.index THEN Stat(db, i, PathOf(db, i), quorate)
      ELSE Fail("ENOENT")

Getattr(f) == Free /\ f \in KnownIds /\ Answer(GetattrReply(f))

\* handle_readdir: the directory itself twice, the plugins of the root, the
\* entries; attributes as if there were no quorum.
Listing(f) ==
  LET i == FuseToInode(f)
      path == PathOf(db, i)
      here == IF i \in DOMAIN db.index
              THEN <<[name |-> ".", stat |-> Stat(db, i, path, FALSE)],
                     [name |-> "..", stat |-> Stat(db, i, path, FALSE)]>>
              ELSE <<>>
      plugins == [k \in DOMAIN Plugins |->
                    [name |-> Plugins[k].name, stat |-> PluginStat(PluginOffset + k - 1)]]
      links == db.tree[Find(db, path)]
      there == {n \in DOMAIN links : links[n] \in DOMAIN db.index}
      names == CHOOSE s \in [1 .. Cardinality(there) -> there] : IsInjective(s)
      entry(n) == [name |-> n, stat |-> Stat(db, links[n], Append(path, n), FALSE)]
  IN  here \o (IF i = RootInode THEN plugins ELSE <<>>)
        \o [k \in DOMAIN names |-> entry(names[k])]

\* The kernel's buffer takes some of the entries behind the offset.
ReaddirReplies(f, offset) ==
  LET rest == From(Listing(f), offset + 1)
  IN  IF ~ HoldsDir(db, PathOf(db, FuseToInode(f))) THEN {Fail("ENOENT")}
      ELSE {[err |-> "OK", entries |-> SubSeq(rest, 1, n)] :
              n \in IF rest = <<>> THEN {0} ELSE {1, Len(rest)}}

Readdir(f, offset) ==
  /\ Free /\ Known(f, "dir")
  /\ \E r \in ReaddirReplies(f, offset) : Answer(r)

\* handle_read
Read(f, offset, size) ==
  LET path == PathOf(db, FuseToInode(f))
  IN  /\ Free /\ Known(f, "file")
      /\ Answer(IF IsPlugin(f) THEN [err |-> "OK", size |-> Bytes(PluginAt(f).size, offset, size)]
                ELSE IF FuseToInode(f) = RootInode THEN Fail("EISDIR")
                ELSE IF ~ Holds(db, path) \/ HoldsDir(db, path) THEN Fail("ENOENT")
                ELSE [err |-> "OK", size |-> Bytes(db.index[Find(db, path)].size, offset, size)])

\* handle_readlink
Readlink(f) ==
  /\ Free /\ Known(f, "link")
  /\ Answer(IF IsPlugin(f) THEN [err |-> "OK", size |-> PluginAt(f).size] ELSE Fail("EINVAL"))

\* handle_statfs: what is used of the blocks and the inodes.
Statfs ==
  /\ Free
  /\ Answer([err |-> "OK", inodes |-> Cardinality(DOMAIN db.index),
             bytes |-> FoldFunction(+, 0, [i \in DOMAIN db.index |-> db.index[i].size])])

\* Forget and Release of mount_fuse.
Forget(f) ==
  /\ Free /\ f \in KnownIds /\ f # InodeToFuse(RootInode)
  /\ kernel' = Without(kernel, f)
  /\ UNCHANGED <<db, clustered, quorate, task, counter, awaited, order, peer, reply, replaced>>

\* The caller takes the reply.
Return ==
  /\ reply # NoReply
  /\ reply' = NoReply
  /\ UNCHANGED <<db, clustered, quorate, kernel, task, counter, awaited, order, peer, replaced>>

-----------------------------------------------------------------------------
\* Requests that change the file system.

\* What a handler does once its message was delivered with success: create and
\* mkdir look the path up again, setattr the inode.
Completed(d, t) ==
  LET i == FuseToInode(t.node)
  IN  CASE t.op \in {"create", "mkdir"} ->
             IF Holds(d, t.msg.path) THEN Stat(d, Find(d, t.msg.path), t.msg.path, quorate)
                                     ELSE Fail("EIO")
        [] t.op = "setattr" ->
             IF i \in DOMAIN d.index THEN Stat(d, i, t.msg.path, quorate) ELSE Fail("ENOENT")
        [] t.op = "write" -> [err |-> "OK", size |-> t.msg.len]
        [] OTHER -> Done

Learns(t, r) == IF t.op \in {"create", "mkdir"} THEN Learned(r) ELSE kernel

\* send_message_sync up to its wait: the count is registered before the message
\* is sent; a message that cannot be sent is EIO.
SendSync(d, t) ==
  /\ counter < MaxCount
  /\ counter' = counter + 1
  /\ \/ /\ awaited' = counter + 1
        /\ order' = Append(order, [from |-> "here", count |-> counter + 1, msg |-> t.msg])
        /\ task' = t
        /\ reply' = NoReply
     \/ /\ reply' = Fail("EIO")
        /\ UNCHANGED <<awaited, order, task>>
  /\ db' = d
  /\ UNCHANGED <<clustered, quorate, kernel, peer, replaced>>

\* The handler's work on database d without a cluster.
Locally(d, t) ==
  \E r \in {ApplyLocally(d, t.msg)} :
    \E a \in {IF r.err = "OK" THEN Completed(r.db, t) ELSE Fail(r.err)} :
      /\ db' = r.db
      /\ reply' = a
      /\ kernel' = Learns(t, a)
      /\ replaced' = (replaced \/ Replaces(d, t.msg))
      /\ UNCHANGED <<clustered, quorate, task, counter, awaited, order, peer>>

Mutate(d, op, f, msg) ==
  LET t == [op |-> op, node |-> f, msg |-> msg, result |-> NoResult]
  IN  /\ db.version < MaxInode
      /\ IF clustered THEN SendSync(d, t) ELSE Locally(d, t)

\* handle_create, for Create and Mknod
CreateFile(p, n) ==
  /\ Free /\ Known(p, "dir")
  /\ Mutate(db, "create", p, [op |-> "create", path |-> PathIn(p, n)])

\* handle_mkdir
MakeDir(p, n) ==
  /\ Free /\ Known(p, "dir")
  /\ Mutate(db, "mkdir", p, [op |-> "mkdir", path |-> PathIn(p, n)])

\* handle_rmdir
RemoveDir(p, n) ==
  /\ Free /\ Known(p, "dir")
  /\ Mutate(db, "rmdir", p, [op |-> "delete", path |-> PathIn(p, n)])

\* handle_unlink, which looks at the path as it is before the message is sent.
Unlink(p, n) ==
  /\ Free /\ Known(p, "dir")
  /\ IF FuseToInode(p) = RootInode /\ n \in PluginNames THEN Answer(Fail("EACCES"))
     ELSE IF HoldsDir(db, PathIn(p, n)) THEN Answer(Fail("EISDIR"))
     ELSE Mutate(db, "unlink", p, [op |-> "delete", path |-> PathIn(p, n)])

IsAbove(path, other) ==
  Len(path) <= Len(other) /\ SubSeq(other, 1, Len(path)) = path

\* The kernel's own conditions for a rename: source and target, if there is one,
\* are of one kind, and the target is not above the source.  Directories stay
\* in their directory, a bound of the model.
RenameAllowed(p, path, q, to) ==
  /\ Holds(db, to) => HoldsDir(db, path) = HoldsDir(db, to)
  /\ ~ IsAbove(to, path)
  /\ HoldsDir(db, path) => p = q

\* handle_rename
Rename(p, n, q, k) ==
  /\ Free /\ Known(p, "dir") /\ Known(q, "dir") /\ RenameAllowed(p, PathIn(p, n), q, PathIn(q, k))
  /\ Mutate(db, "rename", p, [op |-> "rename", path |-> PathIn(p, n), to |-> PathIn(q, k)])

\* handle_write.  A plugin takes a write at offset zero only, and may refuse
\* the data; every id from the offset on is taken for a plugin's.
WriteFile(f, offset, len) ==
  /\ Free /\ Known(f, "file")
  /\ IF f >= PluginOffset
     THEN IF ~ IsPlugin(f) THEN Answer(Fail("ENOENT"))
          ELSE \/ Answer(Fail("EIO"))
               \/ offset = 0 /\ PluginAt(f).writes /\ Answer([err |-> "OK", size |-> len])
     ELSE Mutate(db, "write", f, [op |-> "write", path |-> PathOf(db, FuseToInode(f)),
                                  offset |-> offset, len |-> len])

\* The validation of chmod and chown in handle_setattr; nothing is changed.
NoMode == -1
ModeAllowed(path, mode) == mode = NoMode \/ mode = (IF IsPrivate(path) THEN \o600 ELSE \o640)

\* handle_setattr: validation, then the new size, which is written here and
\* nowhere else, then the mtime through the cluster.
NoSize == -1
SetattrOf(f, path) == [op |-> "setattr", node |-> f, msg |-> [path |-> path]]
Resized(d, r) ==
  /\ db' = d
  /\ reply' = r
  /\ UNCHANGED <<clustered, quorate, kernel, task, counter, awaited, order, peer, replaced>>

Setattr(f, size, mtime, mode, ownerAllowed) ==
  /\ Free /\ f \in KnownIds /\ db.version < MaxInode
  /\ \E path \in {PathOf(db, FuseToInode(f))} :
       IF ~ ModeAllowed(path, mode) \/ ~ ownerAllowed THEN Answer(Fail("EPERM"))
       ELSE \E cut \in {IF size = NoSize THEN [db |-> db, ok |-> TRUE]
                                        ELSE DbWrite(db, path, 0, size, TRUE)} :
              IF ~ cut.ok THEN Answer(Fail("EACCES"))
              ELSE IF mtime THEN Mutate(cut.db, "setattr", f, [op |-> "mtime", path |-> path])
              ELSE Resized(cut.db, Completed(cut.db, SetattrOf(f, path)))

\* Open of mount_fuse: a plugin opened for writing needs the owner's write bit;
\* O_TRUNC on a file is handle_setattr with size zero.
Opened(r) == IF r.err = "OK" THEN Done ELSE r
Open(f, write, trunc) ==
  /\ Free /\ Known(f, "file")
  /\ IF f >= PluginOffset
     THEN Answer(IF write /\ IsPlugin(f) /\ Masked[PluginAt(f).mode, \o200] = 0
                 THEN Fail("EACCES") ELSE Opened(GetattrReply(f)))
     ELSE IF ~ trunc THEN Answer(Opened(GetattrReply(f)))
     ELSE /\ db.version < MaxInode
          /\ \E path \in {PathOf(db, FuseToInode(f))} :
               \E cut \in {DbWrite(db, path, 0, 0, TRUE)} :
                 IF ~ cut.ok THEN Answer(Fail("EACCES"))
                 ELSE Resized(cut.db, Opened(Completed(cut.db, SetattrOf(f, path))))

-----------------------------------------------------------------------------
\* The cluster: delivery here, the waiting handler, the other node.

\* Mutant: the result goes to whoever waits.
RecordResult_Anyone(m) == awaited # NoCount

\* record_message_result looks for the count of the message alone.
RecordResult(m) == m.count = awaited

DeliverNext ==
  /\ order # <<>>
  /\ \E m \in {Head(order)} : \E r \in {DeliverTo(db, m.msg)} :
       /\ db' = r.db
       /\ replaced' = (replaced \/ Replaces(db, m.msg))
       /\ IF RecordResult(m)
          THEN /\ awaited' = NoCount
               /\ task' = [task EXCEPT !.result = [err |-> r.err, from |-> m.from, count |-> m.count,
                                                  msg |-> m.msg]]
          ELSE UNCHANGED <<awaited, task>>
  /\ order' = Tail(order)
  /\ UNCHANGED <<clustered, quorate, kernel, counter, peer, reply>>

\* The handler goes on with the result.
Finish ==
  /\ task # Idle /\ task.result # NoResult
  /\ LET a == IF task.result.err = "OK" THEN Completed(db, task) ELSE Fail(task.result.err)
     IN  reply' = a /\ kernel' = Learns(task, a)
  /\ task' = Idle
  /\ UNCHANGED <<db, clustered, quorate, counter, awaited, order, peer, replaced>>

\* Mutant: the wait has no end.
SendTimedOut_Never == FALSE

\* Ten seconds are over and there is no result: the guard forgets the count.
SendTimedOut == task # Idle /\ task.result = NoResult

Expire ==
  /\ SendTimedOut
  /\ reply' = Fail("EIO") /\ task' = Idle /\ awaited' = NoCount
  /\ UNCHANGED <<db, clustered, quorate, kernel, counter, order, peer, replaced>>

PeerSends(m) ==
  /\ clustered /\ peer.sent < MaxPeer /\ db.version < MaxInode
  /\ order' = Append(order, [from |-> "there", count |-> peer.first + peer.sent + 1, msg |-> m])
  /\ peer' = [peer EXCEPT !.sent = @ + 1]
  /\ UNCHANGED <<db, clustered, quorate, kernel, task, counter, awaited, reply, replaced>>

QuorumChanges ==
  /\ quorate' = ~ quorate
  /\ UNCHANGED <<db, clustered, kernel, task, counter, awaited, order, peer, reply, replaced>>

-----------------------------------------------------------------------------
\* mount_fuse; d is a database the daemon has opened, k what the kernel has
\* looked up since.
FuseInit(d, k) ==
  /\ db = d
  /\ clustered \in BOOLEAN /\ quorate = TRUE
  /\ kernel = k
  /\ task = Idle /\ counter = 0 /\ awaited = NoCount /\ order = <<>>
  /\ peer \in [sent : {0}, first : PeerCounts]
  /\ reply = NoReply /\ replaced = FALSE

Observe ==
  \/ \E f \in KnownIds :
       \/ Getattr(f) \/ Readlink(f) \/ Forget(f)
       \/ \E n \in Names \cup PluginNames : Lookup(f, n)
       \/ \E offset \in Offsets : Readdir(f, offset) \/ \E size \in Sizes : Read(f, offset, size)
  \/ Statfs

ChangeTree ==
  \E f \in KnownIds :
    \/ \E n \in Names : CreateFile(f, n) \/ MakeDir(f, n) \/ RemoveDir(f, n)
    \/ \E n \in Names \cup PluginNames : Unlink(f, n)
    \/ \E g \in KnownIds, n, k \in Names : Rename(f, n, g, k)

\* truncate and utimens, chmod, chown
SetattrCalls ==
  {[size |-> s, mtime |-> t, mode |-> NoMode, owner |-> TRUE] :
     s \in Sizes \cup {NoSize}, t \in BOOLEAN}
    \cup {[size |-> NoSize, mtime |-> FALSE, mode |-> x, owner |-> o] :
            x \in {NoMode, \o600, \o640}, o \in BOOLEAN}

ChangeFile ==
  \E f \in KnownIds :
    \/ \E offset \in Offsets, len \in Sizes : WriteFile(f, offset, len)
    \/ \E a \in SetattrCalls : Setattr(f, a.size, a.mtime, a.mode, a.owner)
    \/ \E write, trunc \in BOOLEAN : Open(f, write, trunc)

Cluster ==
  \/ DeliverNext \/ Finish \/ Expire \/ Return
  \/ \E m \in PeerMessages : PeerSends(m)

FuseNext == Observe \/ ChangeTree \/ ChangeFile \/ Cluster \/ QuorumChanges

FuseSpec(d, k) == FuseInit(d, k) /\ [][FuseNext]_fuseVars

-----------------------------------------------------------------------------
\* Properties.

\* The node id of an entry names that entry in a later request: it is no
\* plugin's id, it converts back to the inode, and the inode's path leads to it,
\* however this node and others create, rename and remove in between; and what
\* the kernel took for a directory or a file never becomes the other, since
\* inodes are not used twice and FUSE_GENERATION never changes.  This needs
\* inodes below PLUGIN_INODE_OFFSET and that no rename has replaced a directory
\* that had entries.
NodeidsResolve ==
  ~ replaced => \A i \in DOMAIN db.index :
    i + 1 < PluginOffset =>
      LET f == InodeToFuse(i)
      IN  /\ ~ IsPlugin(f)
          /\ Find(db, PathOf(db, FuseToInode(f))) = i
          /\ f \in KnownIds => Known(f, IF db.index[i].dir THEN "dir" ELSE "file")

\* A handler goes on with the result of its own message, never with that of an
\* earlier request of this node that timed out and was delivered late
\* (send_message_sync, record_message_result).  The count is all that is compared
\* and every node counts from zero, so the one other result it can take is that
\* of another node's message with just the count it drew last.
AnswersAreOwn ==
  task # Idle /\ task.result # NoResult =>
    \/ task.result.from = "here" /\ task.result.msg = task.msg
    \/ task.result.from = "there" /\ task.result.count = counter

\* Every request is answered, also when the cluster never delivers its message;
\* the loop of mount_fuse serves nobody else meanwhile.
RequestsAreAnswered == task # Idle ~> task = Idle

=============================================================================
