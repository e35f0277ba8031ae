------------------------------- MODULE Replica --------------------------------
(***************************************************************************)
(* What the cluster protocol sees of a node's database: the callbacks of   *)
(* pmxcfs/src/memdb_callbacks.rs over pmxcfs-memdb, as operators from a     *)
(* database to a database.  Module MemDb has the detail of one database;   *)
(* here an operation is one step, because the protocol calls it from the   *)
(* single thread that delivers cluster messages.                           *)
(*                                                                         *)
(* A database is                                                           *)
(*   version  the version counter, which also allocates inodes,            *)
(*   root     the version stored in the root entry and the __version__ row, *)
(*   stamp    writer and mtime of the root entry,                          *)
(*   ents     inode -> [name, version, data], the index without the root,  *)
(*   link     name -> inode, the root's children,                          *)
(*   clock    by how much the node's clock is ahead.                       *)
(* Files live in the root directory.  A mutation stamps what it touches    *)
(* with its version, which also stands for the writer and for the mtime    *)
(* that the message carries.  A delete carries no mtime: every node stamps *)
(* its root with its own clock.                                            *)
(***************************************************************************)
EXTENDS Integers, FiniteSets, Sequences, Functions

CONSTANTS Names,   \* names of files in the root directory
          Data     \* contents a write may store

NoData == 0

Empty == [x \in {} |-> x]
Put(f, k, v) == [x \in DOMAIN f \cup {k} |-> IF x = k THEN v ELSE f[x]]
Drop(f, k) == [x \in DOMAIN f \ {k} |-> f[x]]
Larger(a, b) == IF a >= b THEN a ELSE b

File == [name : Names, version : Nat, data : Data \cup {NoData}]

IsMap(f, S, T) == DOMAIN f \subseteq S /\ \A x \in DOMAIN f : f[x] \in T

IsDb(db) ==
  /\ DOMAIN db = {"version", "root", "stamp", "ents", "link", "clock"}
  /\ {db.version, db.root, db.stamp, db.clock} \subseteq Nat
  /\ IsMap(db.ents, Nat, File)
  /\ IsMap(db.link, Names, DOMAIN db.ents)

\* A database that init_schema has just created.
FreshDb ==
  [version |-> 1, root |-> 1, stamp |-> 1, ents |-> Empty, link |-> Empty, clock |-> 0]

Op == [kind : {"create", "delete"}, name : Names, data : {NoData}]
      \cup [kind : {"write"}, name : Names, data : Data]

-----------------------------------------------------------------------------
\* The mutations of one database (MemDb::create, write, delete).

Exists(db, name) == name \in DOMAIN db.link

Mutated(db, ents, link) ==
  LET v == db.version + 1
  IN  [db EXCEPT !.version = v, !.root = v, !.stamp = v, !.ents = ents, !.link = link]

Created(db, name) ==
  LET v == db.version + 1
  IN  Mutated(db, Put(db.ents, v, [name |-> name, version |-> v, data |-> NoData]),
              Put(db.link, name, v))

Written(db, name, data) ==
  Mutated(db, Put(db.ents, db.link[name],
                  [name |-> name, version |-> db.version + 1, data |-> data]),
          db.link)

Deleted(db, name) ==
  [Mutated(db, Drop(db.ents, db.link[name]), Drop(db.link, name))
     EXCEPT !.stamp = @ + db.clock]

\* deliver_message: the database after the operation, and its result.
DeliverCreate(db, op) ==
  IF Exists(db, op.name) THEN [db |-> db, ok |-> FALSE]
                         ELSE [db |-> Created(db, op.name), ok |-> TRUE]

DeliverWrite(db, op) ==
  LET there == IF Exists(db, op.name) THEN db ELSE Created(db, op.name)
  IN  [db |-> Written(there, op.name, op.data), ok |-> TRUE]

DeliverDelete(db, op) ==
  [db |-> IF Exists(db, op.name) THEN Deleted(db, op.name) ELSE db, ok |-> TRUE]

Deliver(db, op) ==
  CASE op.kind = "create" -> DeliverCreate(db, op)
    [] op.kind = "write"  -> DeliverWrite(db, op)
    [] op.kind = "delete" -> DeliverDelete(db, op)

-----------------------------------------------------------------------------
\* State exchange.

\* encode_index writes the version counter into the root entry.
Encoded(db) == [db EXCEPT !.root = db.version]

\* What the encoded index says of a database; digests stand for the entries.
Index(db) == [version |-> db.version, stamp |-> db.stamp, ents |-> db.ents]

\* encode_database: every entry of the index, the root included.
Checksum(db) == [root |-> db.root, stamp |-> db.stamp, ents |-> db.ents]

\* Ord for MemDbIndex: version, then mtime.
Higher(a, b) == \/ a.version > b.version
                \/ a.version = b.version /\ a.stamp > b.stamp

\* The first maximum in the order of the member list.
LeaderOf(ix) ==
  CHOOSE n \in DOMAIN ix :
    \A m \in DOMAIN ix : ~ Higher(ix[m], ix[n]) /\ (Higher(ix[n], ix[m]) \/ n <= m)

\* is_synced in process_state_update ...
SyncedWith(a, b) == a = b

\* ... and in send_updates_to_followers, which does not look at the digests.
NeedsNoUpdates(a, b) ==
  /\ a.version = b.version /\ a.stamp = b.stamp
  /\ Cardinality(DOMAIN a.ents) = Cardinality(DOMAIN b.ents)

\* Mutant: only missing inodes count.
Differences_MissingOnly(master, slave) == DOMAIN master.ents \ DOMAIN slave.ents

\* find_differences: the master's inodes that the slave lacks or has differently.
Differences(master, slave) ==
  {i \in DOMAIN master.ents :
     i \notin DOMAIN slave.ents \/ slave.ents[i] # master.ents[i]}

InodesToUpdate(leader, ix) ==
  UNION {Differences(leader, ix[n]) : n \in {m \in DOMAIN ix : ~ NeedsNoUpdates(ix[m], leader)}}

\* send_updates_to_followers reads the entries from the leader's database.
Updates(db, inodes) ==
  {[inode |-> i, file |-> db.ents[i]] : i \in inodes \cap DOMAIN db.ents}

\* process_update, which is apply_tree_entry.  An entry that takes the name of
\* another leaves that one in the index without a link.
Relinked(db, u) ==
  IF u.inode \notin DOMAIN db.ents
  THEN Put(db.link, u.file.name, u.inode)
  ELSE IF db.ents[u.inode].name = u.file.name
       THEN db.link
       ELSE Put(Drop(db.link, db.ents[u.inode].name), u.file.name, u.inode)

\* Mutant: the root entry is left as it was.
ApplyUpdate_KeepsRoot(db, u) ==
  [db EXCEPT !.version = Larger(@, u.file.version),
             !.ents = Put(@, u.inode, u.file), !.link = Relinked(db, u)]

ApplyUpdate(db, u) ==
  [db EXCEPT !.version = Larger(@, u.file.version),
             !.root = u.file.version, !.stamp = u.file.version,
             !.ents = Put(@, u.inode, u.file), !.link = Relinked(db, u)]

\* open: what load_from_db makes of the rows.
Reloaded(db) ==
  LET versions == {db.root} \cup {db.ents[i].version : i \in DOMAIN db.ents}
      named(n) == {i \in DOMAIN db.ents : db.ents[i].name = n}
  IN  [db EXCEPT
         !.version = CHOOSE v \in versions : \A w \in versions : w <= v,
         !.link = [n \in {db.ents[i].name : i \in DOMAIN db.ents} |->
                     CHOOSE i \in named(n) : \A j \in named(n) : j <= i]]

=============================================================================
