---------------------------- MODULE MemDbLockOrder -----------------------------
(***************************************************************************)
(* The five mutexes of MemDbInner and the order in which each operation    *)
(* takes and drops them (database.rs, locks.rs, sync.rs).  What the        *)
(* operations do in between is left out: an operation is the sequence of   *)
(* its lock() calls and of the points where the guards are dropped.        *)
(***************************************************************************)
EXTENDS Integers, Sequences

CONSTANTS Threads,   \* threads of the daemon that call into the database
          Nobody,    \* owner of a free mutex
          Programs   \* [Threads -> the operations each thread calls]

ASSUME LockOrderAssumption == Nobody \notin Threads

Mutexes == {"guard", "conn", "index", "tree", "locks"}

\* The order of the comment in apply_tree_entry ("conn, then index, then tree"),
\* with the write guard before and the lock cache after.
Rank == [m \in Mutexes |-> CASE m = "guard" -> 1 [] m = "conn" -> 2 [] m = "index" -> 3
                             [] m = "tree" -> 4 [] m = "locks" -> 5]

Lock(m) == [do |-> "lock", mutex |-> m]
Unlock(m) == [do |-> "unlock", mutex |-> m]
Under(m, body) == <<Lock(m)>> \o body \o <<Unlock(m)>>
Brief(m) == Under(m, << >>)

-----------------------------------------------------------------------------
\* Mutant: the two guards of lookup_path in the other order.
LookupPath_TreeFirst == Under("tree", Brief("index"))

LookupPath == Under("index", Brief("tree"))

\* get_entry_by_inode, get_version_entry, get_all_entries, encode_database, statfs.
ReadIndex == Brief("index")

Readdir == LookupPath \o Under("tree", Brief("index"))

\* An operation that fails its first check.
CreateRefused == Under("guard", LookupPath)

Create ==
  Under("guard", LookupPath \o LookupPath \o Brief("index") \o Brief("conn")
                 \o Brief("index") \o Under("index", Brief("tree")))

Write == Under("guard", LookupPath \o Brief("index") \o Brief("conn")
                        \o Brief("index") \o Brief("index"))

WithMutation == Under("guard", Brief("conn") \o Brief("index"))

SetMtime == LookupPath \o WithMutation \o Brief("index") \o Brief("locks")

Delete == LookupPath \o Brief("tree") \o WithMutation
          \o Under("index", Brief("tree")) \o Brief("locks")

Rename == LookupPath \o LookupPath \o LookupPath \o LookupPath \o WithMutation
          \o Under("index", Brief("tree"))

LockExpired == LookupPath \o Brief("locks")

\* Mutant: the index is still locked when encode_index returns.
EncodeIndex_KeepsIndex == <<Lock("conn"), Lock("index"), Unlock("conn")>>

\* encode_index drops the connection before the index.
EncodeIndex == <<Lock("conn"), Lock("index"), Unlock("conn"), Unlock("index")>>

ApplyTreeEntry == Under("conn", Under("index", Brief("tree")))

-----------------------------------------------------------------------------
\* Program p holds m before its k-th step.
HeldAt(p, k, m) ==
  \E i \in 1..(k - 1) : p[i] = Lock(m) /\ \A j \in (i + 1)..(k - 1) : p[j] # Unlock(m)

\* p takes mutexes by ascending rank and drops all of them.
WellLocked(p) ==
  /\ p \in Seq([do : {"lock", "unlock"}, mutex : Mutexes])
  /\ \A k \in 1..Len(p), m, n \in Mutexes :
       p[k] = Lock(m) /\ HeldAt(p, k, n) => Rank[n] < Rank[m]
  /\ \A m \in Mutexes : ~HeldAt(p, Len(p) + 1, m)

VARIABLES prog,   \* the operation a thread is in, << >> when in none
          pos,    \* its next step
          owner   \* which thread holds a mutex

vars == <<prog, pos, owner>>

Busy(t) == pos[t] \in 1..Len(prog[t])

Op(t) == prog[t][pos[t]]

Init ==
  /\ prog = [t \in Threads |-> << >>]
  /\ pos = [t \in Threads |-> 1]
  /\ owner = [m \in Mutexes |-> Nobody]

Start(t, p) ==
  /\ ~Busy(t)
  /\ prog' = [prog EXCEPT ![t] = p]
  /\ pos' = [pos EXCEPT ![t] = 1]
  /\ UNCHANGED owner

Acquire(t) ==
  /\ Busy(t) /\ Op(t).do = "lock" /\ owner[Op(t).mutex] = Nobody
  /\ owner' = [owner EXCEPT ![Op(t).mutex] = t]
  /\ pos' = [pos EXCEPT ![t] = @ + 1]
  /\ UNCHANGED prog

Release(t) ==
  /\ Busy(t) /\ Op(t).do = "unlock"
  /\ owner' = [owner EXCEPT ![Op(t).mutex] = Nobody]
  /\ pos' = [pos EXCEPT ![t] = @ + 1]
  /\ UNCHANGED prog

Step(t) == Acquire(t) \/ Release(t)

Next == \E t \in Threads : Step(t) \/ \E p \in Programs[t] : Start(t, p)

Spec == Init /\ [][Next]_vars

-----------------------------------------------------------------------------
Waiting(t) == Busy(t) /\ Op(t).do = "lock"

Waits(t, u) == Waiting(t) /\ owner[Op(t).mutex] = u

\* Each of the threads waits for a mutex that another of them holds, or that it
\* holds itself: parking_lot mutexes are not reentrant.
CircularWait(S) == S # {} /\ \A t \in S : \E u \in S : Waits(t, u)

\* readdir, at the place where it holds the tree and goes on to lock the index.
Listing(t) == prog[t] = Readdir /\ Waiting(t) /\ Op(t).mutex = "index" /\ owner["tree"] = t

\* No threads wait for one another for good.
NoCircularWait == \A S \in SUBSET Threads : ~CircularWait(S)

\* readdir is behind every deadlock of the database: threads that wait for one
\* another in a circle have one among them that lists a directory and asks for
\* the index while it holds the tree.
OnlyReaddirDeadlocks ==
  \A S \in SUBSET Threads : CircularWait(S) => \E t \in S : Listing(t)

\* Whoever waits for a mutex only holds mutexes of a lower rank (database.rs:
\* "Acquire locks in consistent order: conn, then index, then tree"), but for
\* that place in readdir.
WaitersOutrank ==
  \A t \in Threads : Waiting(t) /\ ~Listing(t) =>
    \A m \in Mutexes : owner[m] = t => Rank[m] < Rank[Op(t).mutex]

\* Every operation that is started, readdir excepted, takes its mutexes by
\* ascending rank, and it drops all of them before it returns.
OperationsAreWellLocked == \A t \in Threads : prog[t] = Readdir \/ WellLocked(prog[t])

=============================================================================
