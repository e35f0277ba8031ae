----------------------------- MODULE MemDbProofs ------------------------------
(***************************************************************************)
(* For any number of threads, requests, leader entries and limits: the     *)
(* state is well typed, and no inode or version is ahead of the counter.   *)
(* The second fact is inductive only together with what a thread holds in  *)
(* its hands between two steps, with the absence of links to the root, and *)
(* with the root in its place.                                             *)
(***************************************************************************)
EXTENDS MemDb, TLAPS, WellFoundedInduction

InTransaction == {"transaction", "root", "publish"}

\* What a thread carries from one step of its mutation to the next.
WorkBounded(t) ==
  /\ pc[t] # "idle" => req[t] \in Requests[t]
  /\ pc[t] = "wait" /\ req[t].op \in Unguarded =>
       /\ work[t].inode \in Nat \ {Root} /\ work[t].inode <= version
       /\ work[t].target # Root
  /\ pc[t] \in InTransaction =>
       /\ work[t].inode \in Nat \ {Root} /\ work[t].inode <= newVersion[t]
       /\ work[t].target # Root
       /\ work[t].entry.version = newVersion[t] /\ newVersion[t] <= version

\* No directory entry leads back to the root.
LinksAvoidRoot ==
  \A d \in DOMAIN tree : \A n \in DOMAIN tree[d] : tree[d][n] # Root

\* The root lies in itself and has no name, so that an update of the leader for
\* the root links it nowhere.
RootInPlace == index[Root].parent = Root /\ index[Root].name = NoName

IInv ==
  /\ TypeOK
  /\ VersionBoundsInodes
  /\ LinksAvoidRoot
  /\ RootInPlace
  /\ \A t \in Threads : WorkBounded(t)

-----------------------------------------------------------------------------
\* A set of naturals with an upper bound has a maximum (load_from_db's loop).
LEMMA BoundedMaximum ==
  ASSUME NEW S, S \subseteq Nat, S # {}, NEW b \in Nat, \A x \in S : x <= b
  PROVE  \E m \in S : \A x \in S : m >= x
<1> DEFINE T == {b - x : x \in S}
<1>1. T \subseteq Nat /\ T # {}
  <2>1. ASSUME NEW x \in S PROVE b - x \in Nat
    <3>1. x \in Nat /\ x <= b
      BY Zenon
    <3> QED  BY <3>1
  <2>2. PICK x \in S : TRUE
    BY Zenon
  <2>3. b - x \in T
    BY Zenon
  <2> QED  BY <2>1, <2>3, Zenon
<1>2. PICK y \in T : \A z \in T : ~(<<z, y>> \in OpToRel(<, Nat))
  <2> HIDE DEF T
  <2> QED  BY <1>1, NatLessThanWellFounded, WFMin, Zenon
<1>3. \A z \in T : y <= z
  <2> SUFFICES ASSUME NEW z \in T PROVE y <= z
    BY Zenon
  <2>1. ~(<<z, y>> \in OpToRel(<, Nat))
    BY <1>2, Zenon
  <2>2. z \in Nat /\ y \in Nat
    BY <1>1, Zenon
  <2> HIDE DEF T
  <2> QED  BY <2>1, <2>2 DEF OpToRel
<1>4. PICK m \in S : y = b - m
  BY Zenon
<1>5. ASSUME NEW x \in S PROVE m >= x
  <2>1. b - x \in T
    BY Zenon
  <2>2. b - m <= b - x
    BY <1>3, <1>4, <2>1, Zenon
  <2>3. m \in Nat /\ x \in Nat /\ b \in Nat
    BY Zenon
  <2> HIDE DEF T
  <2> QED  BY <2>2, <2>3
<1> QED  BY <1>5, Zenon

\* Put and Drop do what their names say.
LEMMA PutFacts ==
  ASSUME NEW f, NEW k, NEW v
  PROVE  /\ DOMAIN Put(f, k, v) = DOMAIN f \cup {k}
         /\ Put(f, k, v)[k] = v
         /\ \A x \in DOMAIN f : x # k => Put(f, k, v)[x] = f[x]
BY Zenon DEF Put

\* HashMap::remove.
LEMMA DropFacts ==
  ASSUME NEW f, NEW k
  PROVE  /\ DOMAIN Drop(f, k) = DOMAIN f \ {k}
         /\ \A x \in DOMAIN f : x # k => Drop(f, k)[x] = f[x]
BY Zenon DEF Drop

\* Linking an inode other than the root, and unlinking, keep LinksAvoidRoot.
LEMMA LinkAvoidsRoot ==
  ASSUME NEW tr, \A d \in DOMAIN tr : \A n \in DOMAIN tr[d] : tr[d][n] # Root,
         NEW p, NEW m, NEW i, i # Root
  PROVE  /\ \A d \in DOMAIN Link(tr, p, m, i) :
              \A n \in DOMAIN Link(tr, p, m, i)[d] : Link(tr, p, m, i)[d][n] # Root
         /\ \A d \in DOMAIN Unlink(tr, p, m) :
              \A n \in DOMAIN Unlink(tr, p, m)[d] : Unlink(tr, p, m)[d][n] # Root
<1> DEFINE old == IF p \in DOMAIN tr THEN tr[p] ELSE Empty
           new == Put(old, m, i)
<1>1. \A n \in DOMAIN old : old[n] # Root
  BY Zenon DEF Root, Empty
<1>2. \A n \in DOMAIN new : new[n] # Root
  <2> HIDE DEF old
  <2> QED  BY <1>1, Zenon DEF Put
<1>3. Link(tr, p, m, i) = Put(tr, p, new)
  BY Zenon DEF Link
<1>4. \A d \in DOMAIN Put(tr, p, new) : \A n \in DOMAIN Put(tr, p, new)[d] :
         Put(tr, p, new)[d][n] # Root
  <2> HIDE DEF new
  <2> QED  BY <1>2, Zenon DEF Put
<1>5. \A d \in DOMAIN Unlink(tr, p, m) :
        \A n \in DOMAIN Unlink(tr, p, m)[d] : Unlink(tr, p, m)[d][n] # Root
  BY Zenon DEF Unlink, Drop
<1> QED  BY <1>3, <1>4, <1>5, Zenon

\* A lookup yields an inode of the index or none; below the root never the root.
LEMMA LookupFacts ==
  ASSUME IInv, NEW path
  PROVE  /\ Exists(path) => LookupPath(path) \in DOMAIN index
         /\ Exists(path) => LookupPath(path) \in Nat /\ LookupPath(path) <= version
         /\ path # << >> => LookupPath(path) # Root
         /\ LookupPath(path) \in Int
BY DEF IInv, TypeOK, VersionBoundsInodes, LinksAvoidRoot, Exists, LookupPath,
       Child, NoInode, Root

\* The numbers TypeOK speaks of.
LEMMA NumberFacts ==
  ASSUME TypeOK
  PROVE  /\ version \in Nat /\ versionRow \in Nat
         /\ \A i \in DOMAIN rows : i \in Nat /\ rows[i].version \in Nat
         /\ \A i \in DOMAIN index : i \in Nat /\ index[i].version \in Nat
         /\ \A t \in Threads : newVersion[t] \in Nat
BY Zenon DEF TypeOK, Entry

\* What the requests of the assumption have in common.
LEMMA RequestFacts ==
  ASSUME NEW t \in Threads, NEW r \in Requests[t]
  PROVE  /\ r \in Request /\ r.path # << >>
         /\ r.op \in Guarded \cup Unguarded
         /\ r.path \in Seq(Names) /\ Last(r.path) \in Names
         /\ r.op = "create" => r.dir \in BOOLEAN
         /\ r.op = "write" => r.end \in Nat
         /\ r.op = "rename" => r.to # << >> /\ Last(r.to) \in Names
<1>1. r \in Request /\ r.path # << >> /\ (r.op = "rename" => r.to # << >>)
  BY MemDbAssumption, Zenon DEF MemDbAssumption
<1>2. /\ r.op \in Guarded \cup Unguarded /\ r.path \in Seq(Names)
      /\ r.op = "create" => r.dir \in BOOLEAN
      /\ r.op = "write" => r.end \in Nat
      /\ r.op = "rename" => r.to \in Seq(Names)
  BY <1>1, Zenon DEF Request, Guarded, Unguarded
<1>3. ASSUME NEW s \in Seq(Names), s # << >> PROVE Last(s) \in Names
  BY <1>3 DEF Last
<1> QED  BY <1>1, <1>2, <1>3, Zenon

-----------------------------------------------------------------------------
\* A database that open has just created satisfies the invariant.
THEOREM InitInvariant == Init => IInv
<1> SUFFICES ASSUME Init PROVE IInv
  BY Zenon
<1> USE DEF Init, Empty
<1>1. RootEntry(1) \in Entry /\ NoEntry \in Entry
  BY Zenon DEF RootEntry, NoEntry, Entry, Root
<1>2. NoWork \in Work
  BY <1>1 DEF NoWork, Work, Root, NoInode
<1>3. TypeOK
  <2>1. work \in [Threads -> Work] /\ newVersion \in [Threads -> Nat]
    BY <1>2, Zenon
  <2>2. req \in [Threads -> Request \cup {NoRequest}]
    BY Zenon
  <2>3. pc \in [Threads -> {"idle", "wait", "transaction", "root", "publish"}]
    BY Zenon
  <2>4. /\ DOMAIN index \subseteq Nat /\ Root \in DOMAIN index
        /\ \A i \in DOMAIN index : index[i] \in Entry
    BY <1>1 DEF Root
  <2>5. DOMAIN rows = {} /\ versionRow \in Nat /\ version \in Nat
        /\ errors \in BOOLEAN /\ guard \in Threads \cup {NoThread}
    BY Zenon
  <2> QED  BY <2>1, <2>2, <2>3, <2>4, <2>5, Zenon DEF TypeOK
<1>4. VersionBoundsInodes
  BY DEF VersionBoundsInodes, RootEntry, Root
<1>5. LinksAvoidRoot
  BY Zenon DEF LinksAvoidRoot, Root
<1>6. \A t \in Threads : WorkBounded(t)
  BY Zenon DEF WorkBounded, InTransaction
<1>7. RootInPlace
  BY DEF RootInPlace, RootEntry
<1> QED  BY <1>3, <1>4, <1>5, <1>6, <1>7, Zenon DEF IInv

\* Steps that leave the table, the maps and the counter alone.
LEMMA StartGuardedInvariant ==
  ASSUME IInv, NEW t \in Threads, NEW r \in Requests[t], StartGuarded(t, r)
  PROVE  IInv'
<1> USE DEF IInv, StartGuarded, disk, memory
<1>0. r \in Request
  BY RequestFacts, Zenon
<1>1. TypeOK'
  BY <1>0, Zenon DEF TypeOK
<1>2. VersionBoundsInodes'
  BY Zenon DEF VersionBoundsInodes, TypeOK
<1>3. LinksAvoidRoot'
  BY Zenon DEF LinksAvoidRoot
<1>4. ASSUME NEW u \in Threads PROVE WorkBounded(u)'
  BY Zenon DEF WorkBounded, InTransaction, TypeOK, Guarded, Unguarded
<1>5. RootInPlace'
  BY Zenon DEF RootInPlace
<1> QED  BY <1>1, <1>2, <1>3, <1>4, <1>5, Zenon

\* set_mtime, delete and rename look their entry up: the copy they keep is in
\* bounds and is not the root.
LEMMA StartUnguardedInvariant ==
  ASSUME IInv, NEW t \in Threads, NEW r \in Requests[t], StartUnguarded(t, r)
  PROVE  IInv'
<1> USE DEF IInv
<1>0. /\ r \in Request /\ r.path # << >> /\ r.op \in Unguarded
      /\ r.op = "rename" => r.to # << >> /\ Last(r.to) \in Names
  BY RequestFacts, Zenon DEF StartUnguarded
<1>1. Exists(r.path) /\ (r.op = "rename" => Exists(ParentPath(r.to)))
  BY <1>0, Zenon DEF StartUnguarded, Checks, MtimeChecks, DeleteChecks, RenameChecks,
              IsDir, Unguarded
<1>2. /\ LookupPath(r.path) \in DOMAIN index
      /\ LookupPath(r.path) \in Nat \ {Root} /\ LookupPath(r.path) <= version
  BY <1>0, <1>1, LookupFacts, Zenon
<1>3. r.op = "rename" => /\ LookupPath(ParentPath(r.to)) \in Nat
                         /\ LookupPath(r.to) # Root /\ LookupPath(r.to) \in Int
  BY <1>0, <1>1, LookupFacts, Zenon
<1>4. index[LookupPath(r.path)] \in Entry
  BY <1>2, Zenon DEF TypeOK
<1>5. /\ SnapshotWork(r) \in Work
      /\ SnapshotWork(r).inode = LookupPath(r.path)
      /\ SnapshotWork(r).target # Root
  BY <1>0, <1>2, <1>3, <1>4 DEF SnapshotWork, Work, Entry, NoInode, Root
<1>6. TypeOK'
  BY <1>0, <1>5, Zenon DEF TypeOK, StartUnguarded, disk, memory
<1>7. VersionBoundsInodes'
  BY Zenon DEF VersionBoundsInodes, TypeOK, StartUnguarded, disk, memory
<1>8. LinksAvoidRoot'
  BY Zenon DEF LinksAvoidRoot, StartUnguarded, memory
<1>9. ASSUME NEW u \in Threads PROVE WorkBounded(u)'
  BY <1>2, <1>5, Zenon DEF WorkBounded, InTransaction, TypeOK, StartUnguarded, memory
<1>10. RootInPlace'
  BY Zenon DEF RootInPlace, StartUnguarded, memory
<1> QED  BY <1>6, <1>7, <1>8, <1>9, <1>10, Zenon

\* What Enter leaves in the thread's hands.
LEMMA EnterWork ==
  ASSUME IInv, NEW t \in Threads, Enter(t)
  PROVE  /\ work'[t] \in Work
         /\ work'[t].inode \in Nat \ {Root} /\ work'[t].inode <= version + 1
         /\ work'[t].entry.version = version + 1 /\ work'[t].target # Root
<1> USE DEF IInv
<1> DEFINE r == req[t]
           v == version + 1
           w == work'[t]
<1>0. /\ r \in Requests[t] /\ r.path # << >> /\ r.op \in Guarded \cup Unguarded
      /\ Last(r.path) \in Names
      /\ r.op = "create" => r.dir \in BOOLEAN
      /\ r.op = "write" => r.end \in Nat
  BY RequestFacts, Zenon DEF Enter, WorkBounded
<1>1. version \in Nat /\ v \in Nat /\ v > 0
  BY DEF TypeOK
<1>2. CASE r.op = "create"
  <2>1. Exists(ParentPath(r.path))
    BY <1>2, Zenon DEF Enter, Checks, CreateChecks, IsDir, Guarded
  <2>2. LookupPath(ParentPath(r.path)) \in Nat
    BY <2>1, LookupFacts, Zenon
  <2>3. w = CreateWork(r, v)
    BY <1>2, Zenon DEF Enter, TypeOK
  <2>4. /\ w \in Work /\ w.inode = v /\ w.entry.version = v /\ w.target # Root
    BY <2>2, <2>3, <1>0, <1>1, <1>2 DEF CreateWork, Work, Entry, NoInode, Root
  <2> QED  BY <2>4, <1>1 DEF Root
<1>3. CASE r.op = "write"
  <2>1. Exists(r.path)
    BY <1>3, Zenon DEF Enter, Checks, WriteChecks, Guarded
  <2>2. /\ LookupPath(r.path) \in Nat \ {Root} /\ LookupPath(r.path) <= version
        /\ index[LookupPath(r.path)] \in Entry
    BY <1>0, <2>1, LookupFacts, Zenon DEF TypeOK
  <2>3. WrittenSize(r) \in Nat
    BY <1>0, <1>3, <2>2, Zenon DEF WrittenSize, Larger, Entry
  <2>4. w = WriteWork(r, v)
    BY <1>3, Zenon DEF Enter, TypeOK
  <2>5. /\ w \in Work /\ w.inode = LookupPath(r.path) /\ w.entry.version = v
        /\ w.target # Root
    <3> DEFINE e == [index[LookupPath(r.path)] EXCEPT
                       !.size = WrittenSize(r), !.data = v, !.version = v]
    <3>1. e \in Entry /\ e.version = v
      BY <2>2, <2>3, <1>1, Zenon DEF Entry
    <3>2. index[LookupPath(r.path)].parent \in Nat
          /\ index[LookupPath(r.path)].name \in Names \cup {NoName}
      BY <2>2, Zenon DEF Entry
    <3>3. w = [inode |-> LookupPath(r.path), parent |-> index[LookupPath(r.path)].parent,
               name |-> index[LookupPath(r.path)].name, target |-> NoInode, entry |-> e]
      BY <2>4, Zenon DEF WriteWork
    <3> HIDE DEF e, v, r, w
    <3> QED  BY <3>1, <3>2, <3>3, <2>2 DEF Work, NoInode, Root
  <2> QED  BY <2>2, <2>5, <1>1
<1>4. CASE r.op \in Unguarded
  <2>1. /\ work[t].inode \in Nat \ {Root} /\ work[t].inode <= version
        /\ work[t].target # Root /\ work[t] \in Work
    BY <1>4, Zenon DEF Enter, WorkBounded, TypeOK
  <2>2. w = [work[t] EXCEPT !.entry.version = v]
    BY <1>4, Zenon DEF Enter, TypeOK, Unguarded
  <2>3. /\ w \in Work /\ w.inode = work[t].inode /\ w.entry.version = v
        /\ w.target = work[t].target
    BY <2>1, <2>2, <1>1 DEF Work, Entry
  <2> QED  BY <2>1, <2>3, <1>1
<1> QED  BY <1>0, <1>2, <1>3, <1>4, Zenon DEF Guarded, Unguarded

\* Drawing a version makes room for the inode and the version of the mutation.
LEMMA EnterInvariant ==
  ASSUME IInv, NEW t \in Threads, Enter(t)
  PROVE  IInv'
<1> USE DEF IInv
<1>1. /\ work'[t] \in Work
      /\ work'[t].inode \in Nat \ {Root} /\ work'[t].inode <= version + 1
      /\ work'[t].entry.version = version + 1 /\ work'[t].target # Root
  BY EnterWork, Zenon
<1>2. /\ \A u \in Threads : u # t => work'[u] = work[u]
      /\ work' \in [Threads -> Work]
  BY <1>1, Zenon DEF Enter, TypeOK
<1>3. TypeOK'
  BY <1>2 DEF TypeOK, Enter, disk
<1>4. VersionBoundsInodes'
  <2>1. version' = version + 1 /\ UNCHANGED <<rows, versionRow, index>>
    BY Zenon DEF Enter, disk
  <2>2. newVersion' = [newVersion EXCEPT ![t] = version + 1]
        /\ pc' = [pc EXCEPT ![t] = "transaction"]
    BY Zenon DEF Enter
  <2>3. pc \in [Threads -> {"idle", "wait", "transaction", "root", "publish"}]
        /\ newVersion \in [Threads -> Nat]
    BY Zenon DEF TypeOK
  <2> QED  BY <2>1, <2>2, <2>3, NumberFacts DEF VersionBoundsInodes
<1>5. LinksAvoidRoot'
  BY Zenon DEF LinksAvoidRoot, Enter
<1>6. ASSUME NEW u \in Threads PROVE WorkBounded(u)'
  <2>1. CASE u = t
    BY <2>1, <1>1 DEF WorkBounded, InTransaction, TypeOK, Enter
  <2>2. CASE u # t
    BY <2>2, <1>2 DEF WorkBounded, InTransaction, TypeOK, Enter, Work
  <2> QED  BY <2>1, <2>2, Zenon
<1>7. RootInPlace'
  BY Zenon DEF RootInPlace, Enter
<1> QED  BY <1>3, <1>4, <1>5, <1>6, <1>7, Zenon

\* A thread that returns is idle and holds nothing; the others are where they were.
LEMMA ReturnFacts ==
  ASSUME TypeOK, NEW t \in Threads, Returns(t)
  PROVE  /\ pc' \in [Threads -> {"idle", "wait", "transaction", "root", "publish"}]
         /\ req' \in [Threads -> Request \cup {NoRequest}]
         /\ work' \in [Threads -> Work]
         /\ newVersion' \in [Threads -> Nat]
         /\ pc'[t] = "idle"
         /\ \A u \in Threads \ {t} : /\ pc'[u] = pc[u] /\ req'[u] = req[u]
                                     /\ work'[u] = work[u] /\ newVersion'[u] = newVersion[u]
<1>1. NoWork \in Work /\ 0 \in Nat
  BY DEF NoWork, Work, NoEntry, Entry, NoInode, Root
<1>2. /\ pc \in [Threads -> {"idle", "wait", "transaction", "root", "publish"}]
      /\ req \in [Threads -> Request \cup {NoRequest}]
      /\ work \in [Threads -> Work]
      /\ newVersion \in [Threads -> Nat]
  BY Zenon DEF TypeOK
<1>3. /\ pc' = [pc EXCEPT ![t] = "idle"]
      /\ req' = [req EXCEPT ![t] = NoRequest]
      /\ work' = [work EXCEPT ![t] = NoWork]
      /\ newVersion' = [newVersion EXCEPT ![t] = 0]
  BY Zenon DEF Returns
<1> QED  BY <1>1, <1>2, <1>3, Zenon

\* Nothing is asked of a thread that has returned, and nothing new of the others.
LEMMA ReturnKeepsBounds ==
  ASSUME TypeOK, NEW t \in Threads, Returns(t), version' = version,
         NEW u \in Threads, WorkBounded(u)
  PROVE  WorkBounded(u)'
<1>1. CASE u = t
  <2>1. pc'[u] = "idle"
    BY <1>1, ReturnFacts, Zenon
  <2> QED  BY <2>1, Zenon DEF WorkBounded, InTransaction
<1>2. CASE u # t
  <2>1. /\ pc'[u] = pc[u] /\ req'[u] = req[u]
        /\ work'[u] = work[u] /\ newVersion'[u] = newVersion[u]
    BY <1>2, ReturnFacts, Zenon
  <2> QED  BY <2>1, Zenon DEF WorkBounded
<1> QED  BY <1>1, <1>2, Zenon

\* The three ways an operation ends early only move its thread.
LEMMA RefuseInvariant ==
  ASSUME IInv, NEW t \in Threads,
         Refuse(t) \/ TransactionRefused(t) \/ TransactionFails(t)
  PROVE  IInv'
<1>1. /\ TypeOK /\ VersionBoundsInodes /\ LinksAvoidRoot /\ RootInPlace
      /\ \A u \in Threads : WorkBounded(u)
      /\ Returns(t)
      /\ guard' \in {guard, NoThread} /\ errors' \in {errors, TRUE}
      /\ UNCHANGED <<rows, versionRow, index, tree, version>>
  BY Zenon DEF IInv, Refuse, TransactionRefused, TransactionFails, Released, disk, memory
<1>2. TypeOK'
  BY <1>1, ReturnFacts, Zenon DEF TypeOK
<1>3. VersionBoundsInodes'
  BY <1>1, ReturnFacts, Zenon DEF VersionBoundsInodes
<1>4. LinksAvoidRoot'
  BY <1>1, Zenon DEF LinksAvoidRoot
<1>5. ASSUME NEW u \in Threads PROVE WorkBounded(u)'
  BY <1>1, <1>5, ReturnKeepsBounds, Zenon
<1>6. RootInPlace'
  BY <1>1, Zenon DEF RootInPlace
<1> QED  BY <1>2, <1>3, <1>4, <1>5, <1>6, Zenon DEF IInv

\* A row may be replaced by one that keeps the bounds.
LEMMA RowBounds ==
  ASSUME IInv, NEW t \in Threads, pc[t] = "transaction"
  PROVE  /\ DOMAIN CommittedRows(t) \subseteq Nat \ {Root}
         /\ \A i \in DOMAIN CommittedRows(t) :
              /\ CommittedRows(t)[i] \in Entry
              /\ i <= CommittedRows(t)[i].version
              /\ CommittedRows(t)[i].version <= version
<1> DEFINE w == work[t]
           v == newVersion[t]
           Good(table) == /\ DOMAIN table \subseteq Nat \ {Root}
                          /\ \A i \in DOMAIN table :
                               /\ table[i] \in Entry
                               /\ i <= table[i].version /\ table[i].version <= version
<1>1. /\ w \in Work /\ w.inode \in Nat \ {Root} /\ w.inode <= v
      /\ w.entry.version = v /\ v \in Nat /\ v <= version /\ version \in Nat
      /\ w.entry \in Entry
  BY Zenon DEF IInv, TypeOK, WorkBounded, InTransaction, Work
<1>2. /\ req[t] \in Requests[t] /\ req[t].op \in Guarded \cup Unguarded
  BY RequestFacts, Zenon DEF IInv, WorkBounded
<1>3. Good(rows)
  BY Zenon DEF IInv, TypeOK, VersionBoundsInodes
<1>4. ASSUME NEW table, Good(table), NEW i \in Nat \ {Root}, NEW e \in Entry,
             i <= e.version, e.version <= version
      PROVE  Good(Put(table, i, e))
  BY <1>4, Zenon DEF Put
<1>5. ASSUME NEW table, Good(table), NEW i PROVE Good(Drop(table, i))
  BY <1>5, Zenon DEF Drop
<1>6. ASSUME w.inode \in DOMAIN rows
      PROVE  /\ rows[w.inode] \in Entry
             /\ w.parent \in Nat /\ w.name \in Names \cup {NoName}
             /\ w.entry.size \in Nat /\ w.entry.data \in Nat
  BY <1>1, <1>3, <1>6, Zenon DEF Work, Entry
<1>7. CASE req[t].op = "create"
  <2>1. CommittedRows(t) = Put(rows, w.inode, w.entry)
    BY <1>7, Zenon DEF CommittedRows, CreateRows
  <2>2. Good(Put(rows, w.inode, w.entry))
    BY <1>1, <1>3, <1>4, Zenon
  <2> QED  BY <2>1, <2>2, Zenon
<1>8. CASE req[t].op = "write"
  <2> DEFINE e == [rows[w.inode] EXCEPT
                    !.version = v, !.size = w.entry.size, !.data = w.entry.data]
  <2>1. CommittedRows(t) = UpdateRow(rows, w.inode, e)
    BY <1>8, Zenon DEF CommittedRows, WriteRows
  <2>2. w.inode \in DOMAIN rows => e \in Entry /\ e.version = v
    BY <1>1, <1>6, Zenon DEF Entry
  <2>3. w.inode \in DOMAIN rows => Good(Put(rows, w.inode, e))
    <3> HIDE DEF e
    <3> QED  BY <1>1, <1>3, <1>4, <2>2, Zenon
  <2> HIDE DEF e
  <2> QED  BY <2>1, <2>3, <1>3, Zenon DEF UpdateRow
<1>9. CASE req[t].op = "mtime"
  <2> DEFINE e == [rows[w.inode] EXCEPT !.version = v]
  <2>1. CommittedRows(t) = UpdateRow(rows, w.inode, e)
    BY <1>9, Zenon DEF CommittedRows, MtimeRows
  <2>2. w.inode \in DOMAIN rows => e \in Entry /\ e.version = v
    BY <1>1, <1>6, Zenon DEF Entry
  <2>3. w.inode \in DOMAIN rows => Good(Put(rows, w.inode, e))
    <3> HIDE DEF e
    <3> QED  BY <1>1, <1>3, <1>4, <2>2
  <2> HIDE DEF e
  <2> QED  BY <2>1, <2>3, <1>3 DEF UpdateRow
<1>10. CASE req[t].op = "delete"
  <2>1. CommittedRows(t) = Drop(rows, w.inode)
    BY <1>10, Zenon DEF CommittedRows, DeleteRows
  <2> QED  BY <2>1, <1>3, <1>5, Zenon
<1>11. CASE req[t].op = "rename"
  <2> DEFINE e == [rows[w.inode] EXCEPT
                    !.parent = w.parent, !.name = w.name, !.version = v]
             u == Drop(rows, w.target)
  <2>1. CommittedRows(t) = UpdateRow(u, w.inode, e)
    BY <1>11, Zenon DEF CommittedRows, RenameRows
  <2>2. w.inode \in DOMAIN rows => e \in Entry /\ e.version = v
    BY <1>1, <1>6, Zenon DEF Entry
  <2>3. Good(u) /\ (w.inode \in DOMAIN u => w.inode \in DOMAIN rows)
    BY <1>3, <1>5, DropFacts, Zenon
  <2>4. w.inode \in DOMAIN u => Good(Put(u, w.inode, e))
    <3> HIDE DEF e, u
    <3> QED  BY <1>1, <1>4, <2>2, <2>3, Zenon
  <2> HIDE DEF e, u
  <2> QED  BY <2>1, <2>3, <2>4, Zenon DEF UpdateRow
<1> QED  BY <1>2, <1>7, <1>8, <1>9, <1>10, <1>11, Zenon DEF Guarded, Unguarded

\* The transaction writes rows whose versions are the one drawn.
LEMMA CommitInvariant ==
  ASSUME IInv, NEW t \in Threads, Commit(t)
  PROVE  IInv'
<1>1. /\ TypeOK /\ VersionBoundsInodes /\ LinksAvoidRoot /\ RootInPlace
      /\ \A u \in Threads : WorkBounded(u)
      /\ pc[t] = "transaction" /\ pc' = [pc EXCEPT ![t] = "root"]
      /\ rows' = CommittedRows(t) /\ versionRow' = newVersion[t]
      /\ UNCHANGED <<index, tree, version, errors, guard, req, work, newVersion>>
  BY Zenon DEF IInv, Commit, memory
<1>2. /\ DOMAIN rows' \subseteq Nat \ {Root}
      /\ \A i \in DOMAIN rows' : /\ rows'[i] \in Entry /\ i <= rows'[i].version
                                 /\ rows'[i].version <= version'
  BY <1>1, RowBounds, Zenon
<1>3. TypeOK'
  BY <1>1, <1>2, Zenon DEF TypeOK
<1>4. VersionBoundsInodes'
  <2>1. pc \in [Threads -> {"idle", "wait", "transaction", "root", "publish"}]
    BY <1>1, Zenon DEF TypeOK
  <2>2. versionRow' <= version'
    BY <1>1, Zenon DEF WorkBounded, InTransaction
  <2>3. \A i \in DOMAIN index' : i <= version' /\ index'[i].version <= version'
    BY <1>1, Zenon DEF VersionBoundsInodes
  <2>4. \A u \in Threads : pc'[u] = "transaction" => newVersion'[u] <= version'
    BY <1>1, <2>1, Zenon DEF VersionBoundsInodes
  <2> QED  BY <1>2, <2>2, <2>3, <2>4, Zenon DEF VersionBoundsInodes
<1>5. LinksAvoidRoot'
  BY <1>1, Zenon DEF LinksAvoidRoot
<1>6. ASSUME NEW u \in Threads PROVE WorkBounded(u)'
  BY <1>1, Zenon DEF WorkBounded, InTransaction, TypeOK
<1>7. RootInPlace'
  BY <1>1, Zenon DEF RootInPlace
<1> QED  BY <1>3, <1>4, <1>5, <1>6, <1>7 DEF IInv

\* The root's metadata changes to a version that is not ahead of the counter.
LEMMA RootVersionBounds ==
  ASSUME IInv, NEW v \in Nat, v <= version
  PROVE  LET new == [index EXCEPT ![Root].version = v] IN
         /\ DOMAIN new = DOMAIN index
         /\ \A i \in DOMAIN new : new[i] \in Entry /\ new[i].version <= version
         /\ new[Root].parent = Root /\ new[Root].name = NoName
<1> DEFINE new == [index EXCEPT ![Root].version = v]
<1>1. /\ Root \in DOMAIN index
      /\ \A i \in DOMAIN index : index[i] \in Entry /\ index[i].version <= version
      /\ index[Root].parent = Root /\ index[Root].name = NoName
  BY Zenon DEF IInv, TypeOK, VersionBoundsInodes, RootInPlace
<1>2. DOMAIN new = DOMAIN index
  BY Zenon
<1>3. new[Root] = [index[Root] EXCEPT !.version = v]
  BY <1>1, Zenon
<1>4. /\ new[Root] \in Entry /\ new[Root].version = v
      /\ new[Root].parent = Root /\ new[Root].name = NoName
  BY <1>1, <1>3, Zenon DEF Entry
<1>5. \A i \in DOMAIN index : i # Root => new[i] = index[i]
  BY Zenon
<1> HIDE DEF new
<1>6. /\ DOMAIN new = DOMAIN index
      /\ \A i \in DOMAIN new : new[i] \in Entry /\ new[i].version <= version
      /\ new[Root].parent = Root /\ new[Root].name = NoName
  BY <1>1, <1>2, <1>4, <1>5, Zenon
<1> QED  BY <1>6, Zenon DEF new

\* The root metadata gets the version the thread has drawn.
LEMMA UpdateRootInvariant ==
  ASSUME IInv, NEW t \in Threads, UpdateRoot(t)
  PROVE  IInv'
<1>1. /\ TypeOK /\ VersionBoundsInodes /\ LinksAvoidRoot /\ RootInPlace
      /\ \A u \in Threads : WorkBounded(u)
      /\ pc[t] = "root" /\ pc' = [pc EXCEPT ![t] = "publish"]
      /\ index' = [index EXCEPT ![Root].version = newVersion[t]]
      /\ guard' \in {t, NoThread}
      /\ UNCHANGED <<rows, versionRow, tree, version, errors, req, work, newVersion>>
  BY Zenon DEF IInv, UpdateRoot, disk
<1>2. newVersion[t] \in Nat /\ newVersion[t] <= version
  BY <1>1, Zenon DEF WorkBounded, InTransaction, TypeOK
<1>3. /\ DOMAIN index' = DOMAIN index
      /\ \A i \in DOMAIN index' : index'[i] \in Entry /\ index'[i].version <= version
      /\ RootInPlace'
  BY <1>1, <1>2, RootVersionBounds, Zenon DEF RootInPlace
<1>4. TypeOK'
  BY <1>1, <1>3, Zenon DEF TypeOK
<1>5. VersionBoundsInodes'
  <2>1. pc \in [Threads -> {"idle", "wait", "transaction", "root", "publish"}]
    BY <1>1, Zenon DEF TypeOK
  <2>2. \A u \in Threads : pc'[u] = "transaction" => newVersion'[u] <= version'
    BY <1>1, <2>1, Zenon DEF VersionBoundsInodes
  <2> QED  BY <1>1, <1>3, <2>2, Zenon DEF VersionBoundsInodes
<1>6. LinksAvoidRoot'
  BY <1>1, Zenon DEF LinksAvoidRoot
<1>7. ASSUME NEW u \in Threads PROVE WorkBounded(u)'
  BY <1>1, Zenon DEF WorkBounded, InTransaction, TypeOK
<1> QED  BY <1>3, <1>4, <1>5, <1>6, <1>7 DEF IInv

\* An index entry may be replaced by one that keeps the bounds.
LEMMA IndexBounds ==
  ASSUME IInv, NEW t \in Threads, pc[t] = "publish"
  PROVE  /\ DOMAIN PublishedIndex(t) \subseteq Nat /\ Root \in DOMAIN PublishedIndex(t)
         /\ PublishedIndex(t)[Root] = index[Root]
         /\ \A i \in DOMAIN PublishedIndex(t) :
              /\ PublishedIndex(t)[i] \in Entry
              /\ i <= version /\ PublishedIndex(t)[i].version <= version
<1> DEFINE w == work[t]
           v == newVersion[t]
           Good(f) == /\ DOMAIN f \subseteq Nat /\ Root \in DOMAIN f
                      /\ f[Root] = index[Root]
                      /\ \A i \in DOMAIN f :
                           f[i] \in Entry /\ i <= version /\ f[i].version <= version
<1>1. /\ w \in Work /\ w.inode \in Nat \ {Root} /\ w.inode <= v
      /\ w.entry.version = v /\ v \in Nat /\ v <= version /\ version \in Nat
      /\ w.entry \in Entry /\ w.target # Root
      /\ w.parent \in Nat /\ w.name \in Names \cup {NoName}
  BY Zenon DEF IInv, TypeOK, WorkBounded, InTransaction, Work
<1>2. Good(index)
  BY Zenon DEF IInv, TypeOK, VersionBoundsInodes
<1>3. ASSUME NEW f, Good(f), NEW i \in Nat \ {Root}, i <= version,
             NEW e \in Entry, e.version <= version
      PROVE  Good(Put(f, i, e))
  BY <1>3, Zenon DEF Put
<1>4. ASSUME NEW f, Good(f), NEW i, i # Root PROVE Good(Drop(f, i))
  BY <1>4, Zenon DEF Drop
<1>5. w.inode <= version
  BY <1>1
<1>6. CASE req[t].op = "delete"
  <2>1. PublishedIndex(t) = Drop(index, w.inode)
    BY <1>6, Zenon DEF PublishedIndex
  <2>2. Good(Drop(index, w.inode))
    <3> HIDE DEF Good
    <3> QED  BY <1>1, <1>2, <1>4, Zenon
  <2> QED  BY <2>1, <2>2, Zenon
<1>7. CASE req[t].op = "rename"
  <2> DEFINE e == [w.entry EXCEPT !.parent = w.parent, !.name = w.name]
             f == Drop(index, w.target)
  <2>1. PublishedIndex(t) = Put(f, w.inode, e)
    BY <1>7, Zenon DEF PublishedIndex
  <2>2. e \in Entry /\ e.version = v
    BY <1>1, Zenon DEF Entry
  <2>3. Good(f)
    BY <1>1, <1>2, <1>4, Zenon
  <2>4. Good(Put(f, w.inode, e))
    <3> HIDE DEF e, f, Good
    <3> QED  BY <2>2, <2>3, <1>1, <1>3, <1>5, Zenon
  <2> HIDE DEF e, f
  <2> QED  BY <2>1, <2>4, Zenon
<1>8. CASE req[t].op \notin {"delete", "rename"}
  <2>1. PublishedIndex(t) = Put(index, w.inode, w.entry)
    BY <1>8, Zenon DEF PublishedIndex
  <2>2. Good(Put(index, w.inode, w.entry))
    <3> HIDE DEF Good
    <3> QED  BY <1>1, <1>2, <1>3, <1>5, Zenon
  <2> QED  BY <2>1, <2>2, Zenon
<1> QED  BY <1>6, <1>7, <1>8, Zenon

\* Adding or removing a directory's own map keeps LinksAvoidRoot.
LEMMA TreeMapAvoidsRoot ==
  ASSUME NEW tr, \A d \in DOMAIN tr : \A n \in DOMAIN tr[d] : tr[d][n] # Root, NEW i
  PROVE  /\ \A d \in DOMAIN Put(tr, i, Empty) :
              \A n \in DOMAIN Put(tr, i, Empty)[d] : Put(tr, i, Empty)[d][n] # Root
         /\ \A d \in DOMAIN Drop(tr, i) :
              \A n \in DOMAIN Drop(tr, i)[d] : Drop(tr, i)[d][n] # Root
BY Zenon DEF Put, Drop, Empty

\* What is published in memory is what the thread held.
LEMMA PublishInvariant ==
  ASSUME IInv, NEW t \in Threads, Publish(t)
  PROVE  IInv'
<1>1. /\ TypeOK /\ VersionBoundsInodes /\ LinksAvoidRoot /\ RootInPlace
      /\ \A u \in Threads : WorkBounded(u)
      /\ pc[t] = "publish" /\ Returns(t)
      /\ index' = PublishedIndex(t) /\ tree' = PublishedTree(t)
      /\ guard' \in {guard, NoThread}
      /\ UNCHANGED <<rows, versionRow, version, errors>>
  BY Zenon DEF IInv, Publish, disk
<1>2. /\ DOMAIN index' \subseteq Nat /\ Root \in DOMAIN index' /\ RootInPlace'
      /\ \A i \in DOMAIN index' :
           index'[i] \in Entry /\ i <= version /\ index'[i].version <= version
  BY <1>1, IndexBounds, Zenon DEF RootInPlace
<1>3. TypeOK'
  BY <1>1, <1>2, ReturnFacts, Zenon DEF TypeOK
<1>4. VersionBoundsInodes'
  <2>1. \A u \in Threads : pc'[u] = "transaction" => newVersion'[u] <= version'
    BY <1>1, ReturnFacts, Zenon DEF VersionBoundsInodes
  <2> QED  BY <1>1, <1>2, <2>1, Zenon DEF VersionBoundsInodes
<1>5. LinksAvoidRoot'
  <2> DEFINE w == work[t]
             linked == Link(tree, w.parent, w.name, w.inode)
             unlinked == Unlink(tree, w.entry.parent, w.entry.name)
             Avoids(tr) == \A d \in DOMAIN tr : \A n \in DOMAIN tr[d] : tr[d][n] # Root
  <2>1. w.inode # Root
    BY <1>1, Zenon DEF WorkBounded, InTransaction
  <2>2. Avoids(tree)
    BY <1>1, Zenon DEF LinksAvoidRoot
  <2>3. Avoids(linked) /\ Avoids(unlinked)
    BY <2>1, <2>2, LinkAvoidsRoot, Zenon
  <2>4. Avoids(Link(unlinked, w.parent, w.name, w.inode))
    <3> HIDE DEF unlinked
    <3> QED  BY <2>1, <2>3, LinkAvoidsRoot, Zenon
  <2>5. Avoids(Put(linked, w.inode, Empty)) /\ Avoids(Drop(unlinked, w.inode))
    <3> HIDE DEF linked, unlinked
    <3> QED  BY <2>3, TreeMapAvoidsRoot, Zenon
  <2>6. PublishedTree(t) \in {linked, unlinked, tree, Put(linked, w.inode, Empty),
          Drop(unlinked, w.inode), Link(unlinked, w.parent, w.name, w.inode)}
    <3> HIDE DEF linked, unlinked
    <3> QED  BY Zenon DEF PublishedTree, linked, unlinked
  <2>7. Avoids(PublishedTree(t))
    <3> HIDE DEF linked, unlinked
    <3> QED  BY <2>2, <2>3, <2>4, <2>5, <2>6, Zenon
  <2> QED  BY <1>1, <2>7, Zenon DEF LinksAvoidRoot
<1>6. ASSUME NEW u \in Threads PROVE WorkBounded(u)'
  BY <1>1, <1>6, ReturnKeepsBounds, Zenon
<1> QED  BY <1>2, <1>3, <1>4, <1>5, <1>6 DEF IInv

\* An entry of the leader that is applied: the index, then its root.
LEMMA AppliedIndexBounds ==
  ASSUME IInv, NEW le \in LeaderEntries
  PROVE  LET i == le[1]
             e == le[2]
             new == [Put(index, i, e) EXCEPT ![Root].version = e.version]
             top == Larger(version, e.version)
         IN  /\ DOMAIN new \subseteq Nat /\ Root \in DOMAIN new
             /\ new[Root].parent = Root /\ new[Root].name = NoName
             /\ top \in Nat /\ version <= top /\ e.version <= top
             /\ \A j \in DOMAIN new : new[j] \in Entry /\ j <= top /\ new[j].version <= top
<1> DEFINE i == le[1]
           e == le[2]
           put == Put(index, i, e)
           new == [put EXCEPT ![Root].version = e.version]
           top == Larger(version, e.version)
<1>1. /\ i \in Nat /\ e \in Entry /\ i <= e.version
      /\ i = Root => e.parent = Root /\ e.name = NoName
  BY MemDbAssumption, Zenon DEF MemDbAssumption
<1>2. e.version \in Nat /\ version \in Nat
  BY <1>1, NumberFacts, Zenon DEF Entry, IInv
<1>3. top \in Nat /\ version <= top /\ e.version <= top
  <2> HIDE DEF e
  <2> QED  BY <1>2 DEF Larger
<1>4. /\ DOMAIN index \subseteq Nat /\ Root \in DOMAIN index
      /\ \A j \in DOMAIN index : index[j] \in Entry /\ j <= version /\ index[j].version <= version
      /\ \A j \in DOMAIN index : j \in Nat /\ index[j].version \in Nat
      /\ index[Root].parent = Root /\ index[Root].name = NoName
  BY NumberFacts, Zenon DEF IInv, TypeOK, VersionBoundsInodes, RootInPlace
<1>5. /\ DOMAIN put = DOMAIN index \cup {i} /\ put[i] = e
      /\ \A j \in DOMAIN index : j # i => put[j] = index[j]
  BY Zenon DEF Put
<1>6. i <= top
  <2> HIDE DEF i, e, top
  <2> QED  BY <1>1, <1>2, <1>3
<1> HIDE DEF i, e, put, top
<1>7. \A j \in DOMAIN put : put[j] \in Entry /\ j <= top /\ put[j].version <= top
  BY <1>1, <1>2, <1>3, <1>4, <1>5, <1>6
<1>8. /\ DOMAIN put \subseteq Nat /\ Root \in DOMAIN put
      /\ put[Root].parent = Root /\ put[Root].name = NoName
  BY <1>1, <1>4, <1>5, Zenon
<1>9. /\ DOMAIN new = DOMAIN put
      /\ new[Root] = [put[Root] EXCEPT !.version = e.version]
      /\ \A j \in DOMAIN put : j # Root => new[j] = put[j]
  BY <1>8, Zenon
<1>10. /\ new[Root] \in Entry /\ new[Root].version = e.version
       /\ new[Root].parent = Root /\ new[Root].name = NoName
  BY <1>2, <1>7, <1>8, <1>9, Zenon DEF Entry
<1> HIDE DEF new
<1>11. \A j \in DOMAIN new : new[j] \in Entry /\ j <= top /\ new[j].version <= top
  BY <1>3, <1>7, <1>9, <1>10, Zenon
<1> QED  BY <1>3, <1>8, <1>9, <1>10, <1>11, Zenon DEF i, e, put, top, new

\* apply_tree_entry never links the root: an entry for the root changes neither
\* its directory nor its name.
LEMMA AppliedTreeAvoidsRoot ==
  ASSUME LinksAvoidRoot, RootInPlace, Root \in DOMAIN index, NEW i, NEW e,
         i = Root => e.parent = Root /\ e.name = NoName
  PROVE  \A d \in DOMAIN AppliedTree(i, e) :
           \A n \in DOMAIN AppliedTree(i, e)[d] : AppliedTree(i, e)[d][n] # Root
<1> DEFINE Avoids(tr) == \A d \in DOMAIN tr : \A n \in DOMAIN tr[d] : tr[d][n] # Root
           unlinked == Unlink(tree, index[i].parent, index[i].name)
           moved == Link(unlinked, e.parent, e.name, i)
           added == Link(tree, e.parent, e.name, i)
<1>1. Avoids(tree)
  BY Zenon DEF LinksAvoidRoot
<1>0. CASE i = Root
  <2>1. AppliedTree(i, e) \in {tree, Put(tree, i, Empty)}
    BY <1>0, Zenon DEF AppliedTree, RootInPlace
  <2>2. Avoids(Put(tree, i, Empty))
    BY <1>1, TreeMapAvoidsRoot, Zenon
  <2> QED  BY <1>1, <2>1, <2>2, Zenon
<1> SUFFICES ASSUME i # Root
             PROVE  Avoids(AppliedTree(i, e))
  BY <1>0, Zenon
<1>2. Avoids(unlinked) /\ Avoids(added)
  BY <1>1, LinkAvoidsRoot, Zenon
<1>3. Avoids(moved)
  <2> HIDE DEF unlinked
  <2> QED  BY <1>2, LinkAvoidsRoot, Zenon
<1>4. AppliedTree(i, e) \in {moved, added, tree, Put(moved, i, Empty),
                             Put(added, i, Empty), Put(tree, i, Empty)}
  <2> HIDE DEF moved, added
  <2> QED  BY Zenon DEF AppliedTree, moved, added, unlinked
<1> HIDE DEF moved, added
<1>5. Avoids(Put(moved, i, Empty)) /\ Avoids(Put(added, i, Empty)) /\ Avoids(Put(tree, i, Empty))
  BY <1>1, <1>2, <1>3, TreeMapAvoidsRoot, Zenon
<1> QED  BY <1>1, <1>2, <1>3, <1>4, <1>5, Zenon

\* apply_tree_entry raises the counter to the version of the entry, whether or
\* not its COMMIT succeeds.
LEMMA ApplyInvariant ==
  ASSUME IInv, NEW t \in Threads, NEW le \in LeaderEntries,
         Apply(t, le[1], le[2]) \/ ApplyCommitFails(t, le[1], le[2])
  PROVE  IInv'
<1> DEFINE i == le[1]
           e == le[2]
<1>1. /\ TypeOK /\ VersionBoundsInodes /\ LinksAvoidRoot /\ RootInPlace
      /\ \A u \in Threads : WorkBounded(u)
  BY Zenon DEF IInv
<1>2. /\ index' = [Put(index, i, e) EXCEPT ![Root].version = e.version]
      /\ tree' = AppliedTree(i, e)
      /\ version' = Larger(version, e.version)
      /\ UNCHANGED <<errors, guard, pc, req, work, newVersion>>
      /\ \/ rows' = Put(rows, i, e) /\ versionRow' = e.version /\ i # Root
         \/ rows' = rows /\ versionRow' \in {versionRow, e.version}
  BY Zenon DEF Apply, ApplyCommitFails, ApplyInMemory, threads, disk
<1>3. /\ i \in Nat /\ e \in Entry /\ i <= e.version /\ e.version \in Nat
      /\ i = Root => e.parent = Root /\ e.name = NoName
  BY MemDbAssumption, Zenon DEF MemDbAssumption, Entry
<1>4. /\ DOMAIN index' \subseteq Nat /\ Root \in DOMAIN index' /\ RootInPlace'
      /\ version' \in Nat /\ version <= version' /\ e.version <= version'
      /\ \A j \in DOMAIN index' :
           index'[j] \in Entry /\ j <= version' /\ index'[j].version <= version'
  BY <1>2, AppliedIndexBounds, Zenon DEF RootInPlace
<1> HIDE DEF i, e
<1>5. /\ version \in Nat /\ versionRow \in Nat
      /\ \A j \in DOMAIN rows : j \in Nat /\ rows[j].version \in Nat
      /\ \A u \in Threads : newVersion[u] \in Nat
  BY <1>1, NumberFacts, Zenon
<1>6. /\ DOMAIN rows' \subseteq Nat \ {Root} /\ versionRow' \in Nat /\ versionRow' <= version'
      /\ \A j \in DOMAIN rows' : /\ rows'[j] \in Entry
                                 /\ j <= rows'[j].version /\ rows'[j].version <= version'
  <2>1. /\ DOMAIN rows \subseteq Nat \ {Root} /\ versionRow <= version
        /\ \A j \in DOMAIN rows : /\ rows[j] \in Entry
                                  /\ j <= rows[j].version /\ rows[j].version <= version
    BY <1>1, Zenon DEF TypeOK, VersionBoundsInodes
  <2>2. CASE rows' = rows /\ versionRow' \in {versionRow, e.version}
    BY <2>1, <2>2, <1>3, <1>4, <1>5
  <2>3. CASE rows' = Put(rows, i, e) /\ versionRow' = e.version /\ i # Root
    <3>1. /\ DOMAIN rows' = DOMAIN rows \cup {i} /\ rows'[i] = e
          /\ \A j \in DOMAIN rows : j # i => rows'[j] = rows[j]
      BY <2>3, Zenon DEF Put
    <3> QED  BY <2>1, <2>3, <3>1, <1>3, <1>4, <1>5
  <2> QED  BY <1>2, <2>2, <2>3, Zenon
<1>7. TypeOK'
  BY <1>1, <1>2, <1>4, <1>6, Zenon DEF TypeOK
<1>8. VersionBoundsInodes'
  BY <1>1, <1>2, <1>4, <1>5, <1>6 DEF VersionBoundsInodes
<1>9. LinksAvoidRoot'
  <2>1. Root \in DOMAIN index
    BY <1>1, Zenon DEF TypeOK
  <2> QED  BY <1>1, <1>2, <1>3, <2>1, AppliedTreeAvoidsRoot DEF LinksAvoidRoot
<1>10. ASSUME NEW u \in Threads PROVE WorkBounded(u)'
  <2>1. WorkBounded(u) /\ work[u].inode \in Int
    BY <1>1, Zenon DEF TypeOK, Work
  <2> QED  BY <2>1, <1>2, <1>4, <1>5 DEF WorkBounded
<1> QED  BY <1>4, <1>7, <1>8, <1>9, <1>10, Zenon DEF IInv

\* encode_index sets the version of the root to the counter, no further.
LEMMA EncodeInvariant ==
  ASSUME IInv, NEW t \in Threads, EncodeIndex(t)
  PROVE  IInv'
<1>1. /\ TypeOK /\ VersionBoundsInodes /\ LinksAvoidRoot /\ RootInPlace
      /\ \A u \in Threads : WorkBounded(u)
      /\ index' = [index EXCEPT ![Root].version = version]
      /\ versionRow' \in {version, versionRow}
      /\ UNCHANGED <<rows, tree, version, errors, guard, pc, req, work, newVersion>>
  BY Zenon DEF IInv, EncodeIndex, threads
<1>2. version \in Nat /\ version <= version /\ versionRow \in Nat
  BY <1>1, NumberFacts
<1>3. /\ DOMAIN index' = DOMAIN index
      /\ \A i \in DOMAIN index' : index'[i] \in Entry /\ index'[i].version <= version
      /\ RootInPlace'
  BY <1>1, <1>2, RootVersionBounds, Zenon DEF RootInPlace
<1>4. TypeOK'
  BY <1>1, <1>2, <1>3, Zenon DEF TypeOK
<1>5. VersionBoundsInodes'
  BY <1>1, <1>2, <1>3, Zenon DEF VersionBoundsInodes
<1>6. LinksAvoidRoot'
  BY <1>1, Zenon DEF LinksAvoidRoot
<1>7. ASSUME NEW u \in Threads PROVE WorkBounded(u)'
  BY <1>1, Zenon DEF WorkBounded
<1> QED  BY <1>3, <1>4, <1>5, <1>6, <1>7 DEF IInv

\* The counter load_from_db computes bounds every row and the __version__ row.
LEMMA LoadedVersionFacts ==
  ASSUME TypeOK, VersionBoundsInodes
  PROVE  /\ LoadedVersion \in Nat /\ versionRow <= LoadedVersion
         /\ \A i \in DOMAIN rows : rows[i].version <= LoadedVersion
<1>1. LoadedVersions \subseteq Nat /\ LoadedVersions # {}
  BY NumberFacts, Zenon DEF LoadedVersions
<1>2. version \in Nat /\ \A v \in LoadedVersions : v <= version
  BY NumberFacts, Zenon DEF LoadedVersions, VersionBoundsInodes
<1>3. \E m \in LoadedVersions : \A x \in LoadedVersions : m >= x
  BY <1>1, <1>2, BoundedMaximum, Zenon
<1>4. LoadedVersion \in LoadedVersions /\ \A x \in LoadedVersions : LoadedVersion >= x
  BY <1>3, Zenon DEF LoadedVersion
<1>5. /\ versionRow \in LoadedVersions
      /\ \A i \in DOMAIN rows : rows[i].version \in LoadedVersions
  BY Zenon DEF LoadedVersions
<1> QED  BY <1>1, <1>4, <1>5, Zenon

\* The links load_from_db makes lead to rows, and the root has no row.
LEMMA LoadedTreeAvoidsRoot ==
  ASSUME TypeOK, VersionBoundsInodes, NEW d \in DOMAIN LoadedTree,
         NEW n \in DOMAIN LoadedTree[d]
  PROVE  LoadedTree[d][n] # Root
<1> DEFINE S == {i \in LoadedLinks(d) : rows[i].name = n}
<1>1. S \subseteq Nat /\ Root \notin S /\ S \subseteq DOMAIN rows
  BY Zenon DEF TypeOK, LoadedLinks
<1>2. n \in {rows[i].name : i \in LoadedLinks(d)}
  BY Zenon DEF LoadedTree
<1>3. S # {}
  BY <1>2, Zenon
<1>4. version \in Nat /\ \A i \in S : i <= version
  <2>1. \A i \in DOMAIN rows : i \in Nat /\ rows[i].version \in Nat /\ version \in Nat
                               /\ i <= rows[i].version /\ rows[i].version <= version
    BY NumberFacts, Zenon DEF VersionBoundsInodes
  <2> QED  BY <1>1, <2>1, NumberFacts
<1>5. \E m \in S : \A x \in S : m >= x
  <2> HIDE DEF S
  <2> QED  BY <1>1, <1>3, <1>4, BoundedMaximum, Zenon
<1>6. PICK m \in LoadedLinks(d) : m \in S /\ \A x \in S : m >= x
  BY <1>5, Zenon
<1>7. \A j \in LoadedLinks(d) : rows[j].name = n => j <= m
  BY <1>1, <1>6, Zenon
<1>8. \E i \in LoadedLinks(d) :
         rows[i].name = n /\ \A j \in LoadedLinks(d) : rows[j].name = n => j <= i
  BY <1>6, <1>7, Zenon
<1>9. LoadedTree[d][n] = CHOOSE i \in LoadedLinks(d) :
         /\ rows[i].name = n
         /\ \A j \in LoadedLinks(d) : rows[j].name = n => j <= i
  BY <1>2, Zenon DEF LoadedTree
<1>10. LoadedTree[d][n] \in LoadedLinks(d)
  BY <1>8, <1>9, Zenon
<1> QED  BY <1>10, Zenon DEF LoadedLinks, TypeOK

\* A restart loads a state that satisfies the invariant from any disk that a
\* crash can leave.
LEMMA CrashInvariant ==
  ASSUME IInv, Crash
  PROVE  IInv'
<1>1. /\ TypeOK /\ VersionBoundsInodes
      /\ rows' = rows /\ versionRow' = versionRow
      /\ index' = LoadedIndex /\ tree' = LoadedTree /\ version' = LoadedVersion
      /\ errors' = FALSE /\ guard' = NoThread
      /\ pc' = [t \in Threads |-> "idle"] /\ req' = [t \in Threads |-> NoRequest]
      /\ work' = [t \in Threads |-> NoWork] /\ newVersion' = [t \in Threads |-> 0]
  BY Zenon DEF IInv, Crash, disk
<1>2. /\ LoadedVersion \in Nat /\ versionRow <= LoadedVersion
      /\ \A i \in DOMAIN rows : rows[i].version <= LoadedVersion
  BY <1>1, LoadedVersionFacts, Zenon
<1>3. /\ DOMAIN LoadedIndex = DOMAIN rows \cup {Root}
      /\ LoadedIndex[Root] = RootEntry(versionRow)
      /\ \A i \in DOMAIN rows : i # Root => LoadedIndex[i] = rows[i]
  BY Zenon DEF LoadedIndex, Put
<1>4. /\ DOMAIN rows \subseteq Nat \ {Root} /\ \A i \in DOMAIN rows : rows[i] \in Entry
      /\ versionRow \in Nat
  BY <1>1, Zenon DEF TypeOK
<1>5. RootEntry(versionRow) \in Entry /\ RootEntry(versionRow).version = versionRow
  BY <1>4, Zenon DEF RootEntry, Entry, Root
<1>6. NoWork \in Work
  <2>1. NoEntry \in Entry
    BY Zenon DEF NoEntry, Entry, Root
  <2> QED  BY <2>1 DEF NoWork, Work, Root, NoInode
<1>7. TypeOK'
  <2>1. work' \in [Threads -> Work] /\ newVersion' \in [Threads -> Nat]
    BY <1>1, <1>6, Zenon
  <2>2. req' \in [Threads -> Request \cup {NoRequest}]
    BY <1>1, Zenon
  <2>3. pc' \in [Threads -> {"idle", "wait", "transaction", "root", "publish"}]
    BY <1>1, Zenon
  <2>4. /\ DOMAIN index' \subseteq Nat /\ Root \in DOMAIN index'
        /\ \A i \in DOMAIN index' : index'[i] \in Entry
    BY <1>1, <1>3, <1>4, <1>5 DEF Root
  <2>5. version' \in Nat /\ versionRow' \in Nat
        /\ errors' \in BOOLEAN /\ guard' \in Threads \cup {NoThread}
    BY <1>1, <1>2, <1>4, Zenon
  <2> QED  BY <2>1, <2>2, <2>3, <2>4, <2>5, <1>1, <1>4, Zenon DEF TypeOK
<1>8. VersionBoundsInodes'
  <2>1. \A i \in DOMAIN rows : i \in Nat /\ rows[i].version \in Nat /\ i <= rows[i].version
    BY <1>1, NumberFacts, Zenon DEF VersionBoundsInodes
  <2>2. \A i \in DOMAIN rows : i <= LoadedVersion
    BY <1>2, <2>1
  <2>3. \A i \in DOMAIN index' : i <= version' /\ index'[i].version <= version'
    BY <1>1, <1>2, <1>3, <1>4, <1>5, <2>2 DEF Root
  <2> QED  BY <1>1, <1>2, <2>1, <2>3, Zenon DEF VersionBoundsInodes
<1>9. LinksAvoidRoot'
  BY <1>1, LoadedTreeAvoidsRoot, Zenon DEF LinksAvoidRoot
<1>10. \A t \in Threads : WorkBounded(t)'
  BY <1>1, Zenon DEF WorkBounded, InTransaction
<1>11. RootInPlace'
  BY <1>1, <1>3 DEF RootInPlace, RootEntry
<1> QED  BY <1>7, <1>8, <1>9, <1>10, <1>11, Zenon DEF IInv

-----------------------------------------------------------------------------
\* Every step of the database keeps the invariant.
THEOREM NextInvariant == IInv /\ [Next]_vars => IInv'
<1> SUFFICES ASSUME IInv, [Next]_vars PROVE IInv'
  BY Zenon
<1>1. CASE UNCHANGED vars
  BY <1>1, Zenon DEF IInv, vars, disk, memory, threads, TypeOK, VersionBoundsInodes,
              LinksAvoidRoot, RootInPlace, WorkBounded
<1>2. ASSUME NEW t \in Threads, NEW r \in Requests[t],
             StartGuarded(t, r) \/ StartUnguarded(t, r)
      PROVE  IInv'
  BY <1>2, StartGuardedInvariant, StartUnguardedInvariant, Zenon
<1>3. ASSUME NEW t \in Threads, Step(t) PROVE IInv'
  BY Zenon, <1>3, EnterInvariant, RefuseInvariant, CommitInvariant, UpdateRootInvariant,
     PublishInvariant DEF Step
<1>4. ASSUME NEW t \in SyncThreads, EncodeIndex(t) PROVE IInv'
  BY <1>4, EncodeInvariant, MemDbAssumption, Zenon DEF MemDbAssumption
<1>5. ASSUME NEW t \in SyncThreads, NEW le \in LeaderEntries,
             Apply(t, le[1], le[2]) \/ ApplyCommitFails(t, le[1], le[2])
      PROVE  IInv'
  BY <1>5, ApplyInvariant, MemDbAssumption, Zenon DEF MemDbAssumption
<1>6. CASE Crash
  BY <1>6, CrashInvariant, Zenon
<1> QED  BY <1>1, <1>2, <1>3, <1>4, <1>5, <1>6, Zenon DEF Next

\* The maps, the table and what the threads hold are always well formed.
THEOREM TypeCorrect == Spec => []TypeOK
<1>1. IInv => TypeOK
  BY Zenon DEF IInv
<1> QED  BY <1>1, InitInvariant, NextInvariant, PTL DEF Spec

\* The counter is never behind an inode or a version, through crashes, failed
\* transactions and updates of the leader: create never draws an inode in use.
THEOREM InodesAreFresh == Spec => []VersionBoundsInodes
<1>1. IInv => VersionBoundsInodes
  BY Zenon DEF IInv
<1> QED  BY <1>1, InitInvariant, NextInvariant, PTL DEF Spec
=============================================================================
