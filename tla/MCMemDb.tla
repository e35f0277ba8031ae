------------------------------- MODULE MCMemDb --------------------------------
(* Requests over three paths, of the thread that delivers cluster messages and of
   the one that serves FUSE.  Each behaviour looks at one part: "requests" has every
   request, "update" has some of them and the updates of a leader. *)
EXTENDS MemDb

VARIABLES focus, raced, replaced

Dir == <<"a">>
InDir == <<"a", "x">>
Top == <<"y">>

Create(p, d) == [op |-> "create", path |-> p, dir |-> d]
Write(p, n, tr) == [op |-> "write", path |-> p, end |-> n, truncate |-> tr]
Mtime(p) == [op |-> "mtime", path |-> p]
Delete(p) == [op |-> "delete", path |-> p]
Rename(p, q) == [op |-> "rename", path |-> p, to |-> q]

\* Cluster messages: one directory, a file in it, a file beside it.
Delivered ==
  {Create(Dir, TRUE), Create(InDir, FALSE), Create(Top, FALSE), Create(Top, TRUE),
   Write(InDir, 2, FALSE), Write(Top, 2, FALSE), Write(Top, 1, TRUE),
   Mtime(Dir), Mtime(InDir), Delete(Dir), Delete(InDir), Delete(Top),
   Rename(InDir, Top), Rename(Top, InDir), Rename(Top, Dir)}

\* The only mutation FUSE makes by itself in a cluster: truncate.
Truncated == {Write(InDir, 1, TRUE)}

MCRequests == [t \in Threads |-> IF t = "deliver" THEN Delivered ELSE Truncated]

E(p, n, d, v) == [parent |-> p, name |-> n, dir |-> d, version |-> v, size |-> 0, data |-> 0]
MCLeaderEntries ==
  {<<2, E(Root, "a", TRUE, 2)>>, <<3, E(2, "x", FALSE, 4)>>, <<Root, E(Root, NoName, TRUE, 3)>>}

Few == {Create(Dir, TRUE), Create(InDir, FALSE), Write(InDir, 2, FALSE)} \cup Truncated

(* Bound of the model on the version, lower with the updates of a leader. *)
MCBounded == version + Cardinality({t \in Threads : pc[t] = "wait"}) < 5

MCStart(t, r) ==
  /\ focus = "update" => r \in Few /\ MCBounded
  /\ StartGuarded(t, r) \/ StartUnguarded(t, r)

MCUpdate(t) ==
  \/ EncodeIndex(t)
  \/ \E le \in LeaderEntries :
       Apply(t, le[1], le[2]) \/ ApplyCommitFails(t, le[1], le[2])

-----------------------------------------------------------------------------
(* Auxiliary variables: raced, the entries two mutations had in hand at the same
   time since the daemon was started and what was displaced by those; replaced, the
   directories in whose place a rename has put something else. *)
InHand(t) == {work[t].inode, work[t].target} \ {NoInode}
Shared == UNION {InHand(t) \cap InHand(u) : <<t, u>> \in {p \in Threads \X Threads : p[1] # p[2]}}

ReplacedBy(t) ==
  IF pc[t] = "transaction" /\ pc'[t] = "root" /\ req[t].op = "rename"
  THEN {work[t].target} \cap {i \in DOMAIN index : index[i].dir} ELSE {}

\* What loses its name to a mutation of such an entry.
Displaced(t) ==
  IF pc[t] = "publish" /\ pc'[t] = "idle" /\ InHand(t) \cap raced # {}
  THEN {Child(work[t].entry.parent, work[t].entry.name), Child(work[t].parent, work[t].name)}
  ELSE {}

Watch ==
  /\ raced' = raced \cup Shared' \cup UNION {Displaced(t) : t \in Threads}
  /\ replaced' = replaced \cup UNION {ReplacedBy(t) : t \in Threads}
  /\ UNCHANGED focus

\* Rows whose directory has none: a start mends all else.
Stray == {i \in DOMAIN rows : rows[i].parent \notin DOMAIN rows \cup {Root}}

MCInit == Init /\ focus \in {"requests", "update"} /\ raced = {} /\ replaced = {}

MCNext ==
  \/ /\ \/ \E t \in Threads : \E r \in Requests[t] : MCStart(t, r)
        \/ \E t \in Threads : Step(t)
        \/ focus = "update" /\ \E t \in SyncThreads : MCUpdate(t)
     /\ Watch
  \/ Crash /\ raced' = raced \cap Stray /\ UNCHANGED <<replaced, focus>>

mcVars == <<vars, focus, raced, replaced>>

MCSpec == MCInit /\ [][MCNext]_mcVars /\ \A t \in Threads : SF_vars(Step(t))

-----------------------------------------------------------------------------
(* What the database promises while no update of a leader is applied: an update is
   one entry of several, may come before its directory, carries the version of the
   leader and changes the maps before it commits (apply_tree_entry). *)

Others(f) == [i \in DOMAIN f \ (raced \cup {Root}) |-> f[i]]
LinksToOthers(tr) ==
  UNION {{<<d, n, tr[d][n]>> : n \in {m \in DOMAIN tr[d] : tr[d][m] \notin raced}} :
           d \in DOMAIN tr}

\* Between operations the index and the tree hold what a restart would load from
\* the table, through crashes and SQLite errors, and with every request beside the
\* truncate of FUSE.  set_mtime, delete and rename publish a copy from before they
\* had the guard: an entry that both threads had in hand at once may differ until
\* the next start, and so may one that loses its name when that entry is changed
\* again, but no other.
CacheMatchesDisk ==
  focus # "update" /\ Quiescent =>
    /\ Others(index) = Others(rows)
    /\ LinksToOthers(tree) = LinksToOthers(LoadedTree)

\* Between operations every entry lies in a directory that exists, also after
\* crashes: an entry loses its directory only to a rename that puts something else
\* in the directory's place, which nothing in rename prevents, or as an entry that
\* both threads had in hand at once (delete, rename).
TreeHasNoOrphans ==
  focus # "update" /\ Quiescent =>
    \A i \in DOMAIN index \ (raced \cup {Root}) :
      \/ index[i].parent \in DOMAIN index /\ index[index[i].parent].dir
      \/ index[i].parent \in replaced

\* The version a restart would find only grows (load_from_db, with_mutation).
VersionIsDurable == [][focus # "update" => LoadedVersion' >= LoadedVersion]_vars
=============================================================================
