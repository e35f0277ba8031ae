------------------------- MODULE MemDbLockOrderProofs --------------------------
(***************************************************************************)
(* For any threads and any operations that take their mutexes by ascending *)
(* rank: no circular wait.  The invariant ties the owner of a mutex to the *)
(* place its owner has reached in its operation.  The operations of the    *)
(* database are shown to take their mutexes so, readdir excepted, and a    *)
(* thread in readdir is shown to be part of every circular wait.           *)
(***************************************************************************)
EXTENDS MemDbLockOrder, TLAPS, WellFoundedInduction

\* What the theorems assume: an operation keeps the order, or is readdir.
Disciplined(p) == WellLocked(p) \/ p = Readdir

Hypothesis == \A t \in Threads : \A p \in Programs[t] : Disciplined(p)

IInv ==
  /\ prog \in [Threads -> {<< >>} \cup UNION {Programs[t] : t \in Threads}]
  /\ pos \in [Threads -> Nat]
  /\ owner \in [Mutexes -> Threads \cup {Nobody}]
  /\ \A t \in Threads : /\ Disciplined(prog[t])
                        /\ pos[t] \in 1..(Len(prog[t]) + 1)
                        /\ \A m \in Mutexes : owner[m] = t => HeldAt(prog[t], pos[t], m)

-----------------------------------------------------------------------------
\* An operation that takes nothing is well locked.
LEMMA EmptyIsWellLocked == WellLocked(<< >>)
BY DEF WellLocked, HeldAt

LockSteps == [do : {"lock", "unlock"}, mutex : Mutexes]

\* The steps Lock(m) and Unlock(m) are steps of the model, and differ.
LEMMA StepFacts ==
  ASSUME NEW m \in Mutexes
  PROVE  /\ Lock(m) \in LockSteps /\ Unlock(m) \in LockSteps
         /\ \A a : Lock(m) # Unlock(a)
         /\ \A a : Lock(m) = Lock(a) => m = a
         /\ Lock(m).mutex = m /\ Unlock(m).mutex = m
<1>1. Lock(m) \in LockSteps /\ Unlock(m) \in LockSteps
  BY Zenon DEF Lock, Unlock, LockSteps
<1>2. Lock(m).mutex = m /\ Unlock(m).mutex = m /\ Lock(m).do = "lock"
  BY Zenon DEF Lock, Unlock
<1>3. ASSUME NEW a PROVE Unlock(a).do = "unlock" /\ Lock(a).mutex = a
  BY Zenon DEF Lock, Unlock
<1> QED  BY <1>1, <1>2, <1>3, Zenon

\* The order itself.
LEMMA MutexOrder ==
  /\ {"guard", "conn", "index", "tree", "locks"} \subseteq Mutexes
  /\ Rank["guard"] < Rank["conn"] /\ Rank["guard"] < Rank["index"] /\ Rank["guard"] < Rank["tree"]
  /\ Rank["conn"] < Rank["index"] /\ Rank["conn"] < Rank["tree"]
  /\ Rank["index"] < Rank["tree"]
BY DEF Rank, Mutexes

\* Ranks are small numbers.
LEMMA RankFacts == \A m \in Mutexes : Rank[m] \in 1..5
BY DEF Rank, Mutexes

\* readdir step by step: it drops all it takes, and the index that it takes
\* below the tree is its only step against the order.
LEMMA ReaddirSteps ==
  /\ Readdir \in Seq(LockSteps) /\ Len(Readdir) = 8
  /\ Readdir[6] = Lock("index")
  /\ \A m \in Mutexes : HeldAt(Readdir, 6, m) <=> m = "tree"
  /\ \A m \in Mutexes : ~HeldAt(Readdir, Len(Readdir) + 1, m)
  /\ \A k \in 1..Len(Readdir), m, n \in Mutexes :
       Readdir[k] = Lock(m) /\ HeldAt(Readdir, k, n) => k = 6 \/ Rank[n] < Rank[m]
<1> DEFINE s == Readdir
<1>1. "index" \in Mutexes /\ "tree" \in Mutexes
  BY MutexOrder, Zenon
<1>2. /\ s \in Seq(LockSteps) /\ Len(s) = 8
      /\ s[1] = Lock("index") /\ s[2] = Lock("tree")
      /\ s[3] = Unlock("tree") /\ s[4] = Unlock("index")
      /\ s[5] = Lock("tree") /\ s[6] = Lock("index")
      /\ s[7] = Unlock("index") /\ s[8] = Unlock("tree")
  BY <1>1, StepFacts DEF Readdir, LookupPath, Under, Brief
<1> HIDE DEF s
<1>3. HeldAt(s, 6, "tree")
  BY <1>2 DEF HeldAt
<1>4. ASSUME NEW n \in Mutexes, NEW i \in 1..8, s[i] = Lock(n)
      PROVE  \/ i \in {1, 6} /\ n = "index"
             \/ i \in {2, 5} /\ n = "tree"
  <2>1. i \notin {3, 4, 7, 8}
    BY <1>1, <1>2, <1>4, StepFacts
  <2>2. i \in {1, 6} => n = "index"
    BY <1>1, <1>2, <1>4, StepFacts
  <2>3. i \in {2, 5} => n = "tree"
    BY <1>1, <1>2, <1>4, StepFacts
  <2>4. i \in {1, 6} \/ i \in {2, 5}
    BY <2>1
  <2> QED  BY <2>2, <2>3, <2>4, Zenon
<1>5. ASSUME NEW n \in Mutexes, HeldAt(s, 9, n) PROVE FALSE
  <2>1. PICK i \in 1..8 : s[i] = Lock(n) /\ \A j \in (i + 1)..8 : s[j] # Unlock(n)
    BY <1>5 DEF HeldAt
  <2> QED  BY <2>1, <1>2, <1>4
<1>6. ASSUME NEW k \in 1..8, NEW m \in Mutexes, NEW n \in Mutexes,
             s[k] = Lock(m), HeldAt(s, k, n), k # 6
      PROVE  Rank[n] < Rank[m]
  <2>1. PICK i \in 1..(k - 1) : s[i] = Lock(n) /\ \A j \in (i + 1)..(k - 1) : s[j] # Unlock(n)
    BY <1>6, Zenon DEF HeldAt
  <2>2. i \in 1..8 /\ k # 1
    OBVIOUS
  <2>3. k = 2 \/ k = 5
    BY <2>2, <1>4, <1>6
  <2>4. CASE k = 2
    BY <2>1, <2>4, <1>4, <1>6, MutexOrder
  <2>5. CASE k = 5
    BY <2>1, <2>2, <2>5, <1>2, <1>4
  <2> QED  BY <2>3, <2>4, <2>5, Zenon
<1>7. ASSUME NEW m \in Mutexes, HeldAt(s, 6, m) PROVE m = "tree"
  <2>1. PICK i \in 1..5 : s[i] = Lock(m) /\ \A j \in (i + 1)..5 : s[j] # Unlock(m)
    BY <1>7 DEF HeldAt
  <2> QED  BY <2>1, <1>2, <1>4
<1> QED  BY <1>2, <1>3, <1>5, <1>6, <1>7 DEF s

\* readdir does not keep the order.
LEMMA ReaddirBreaksOrder == ~WellLocked(Readdir)
<1>1. ~(Rank["tree"] < Rank["index"])
  BY DEF Rank, Mutexes
<1>2. 6 \in 1..Len(Readdir)
  BY ReaddirSteps
<1> QED  BY <1>1, <1>2, ReaddirSteps, MutexOrder, Zenon DEF WellLocked

\* The steps of an operation name mutexes, and it drops all it takes.
LEMMA DisciplinedSteps ==
  ASSUME NEW p, Disciplined(p)
  PROVE  /\ Len(p) \in Nat
         /\ \A k \in 1..Len(p) : p[k] \in [do : {"lock", "unlock"}, mutex : Mutexes]
         /\ \A m \in Mutexes : ~HeldAt(p, Len(p) + 1, m)
<1>1. p \in Seq(LockSteps) /\ \A m \in Mutexes : ~HeldAt(p, Len(p) + 1, m)
  BY ReaddirSteps, Zenon DEF Disciplined, WellLocked, LockSteps
<1>2. Len(p) \in Nat /\ \A k \in 1..Len(p) : p[k] \in LockSteps
  BY <1>1
<1> QED  BY <1>1, <1>2, Zenon DEF LockSteps

\* A step that is not the release of m leaves m held.
LEMMA StillHeld ==
  ASSUME NEW p, NEW k \in Nat \ {0}, NEW m, HeldAt(p, k, m), p[k] # Unlock(m)
  PROVE  HeldAt(p, k + 1, m)
<1>1. PICK i \in 1..(k - 1) : p[i] = Lock(m) /\ \A j \in (i + 1)..(k - 1) : p[j] # Unlock(m)
  BY Zenon DEF HeldAt
<1>2. i \in 1..((k + 1) - 1)
  OBVIOUS
<1>3. \A j \in (i + 1)..((k + 1) - 1) : j \in (i + 1)..(k - 1) \/ j = k
  OBVIOUS
<1> QED  BY <1>1, <1>2, <1>3, Zenon DEF HeldAt

\* The initial state.
LEMMA InitInvariant == Init => IInv
BY EmptyIsWellLocked, LockOrderAssumption DEF Init, IInv, Disciplined, LockOrderAssumption

\* An idle thread holds nothing, so the operation it starts holds nothing either.
LEMMA StartInvariant ==
  ASSUME Hypothesis, IInv, NEW t \in Threads, NEW p \in Programs[t], Start(t, p)
  PROVE  IInv'
<1>1. Disciplined(p)
  BY Zenon DEF Hypothesis
<1>2. Len(prog[t]) \in Nat /\ Len(p) \in Nat
  BY <1>1, DisciplinedSteps, Zenon DEF IInv
<1>3. pos[t] = Len(prog[t]) + 1
  BY <1>2 DEF IInv, Start, Busy
<1>4. \A m \in Mutexes : owner[m] # t
  <2>1. Disciplined(prog[t]) /\ \A m \in Mutexes : owner[m] = t => HeldAt(prog[t], pos[t], m)
    BY Zenon DEF IInv
  <2>2. \A m \in Mutexes : ~HeldAt(prog[t], pos[t], m)
    <3>1. \A m \in Mutexes : ~HeldAt(prog[t], Len(prog[t]) + 1, m)
      BY <2>1, DisciplinedSteps
    <3> QED  BY <1>3, <3>1, Zenon
  <2> QED  BY <2>1, <2>2, Zenon
<1>5. prog' = [prog EXCEPT ![t] = p] /\ pos' = [pos EXCEPT ![t] = 1] /\ owner' = owner
  BY Zenon DEF Start
<1>6. /\ prog' \in [Threads -> {<< >>} \cup UNION {Programs[u] : u \in Threads}]
      /\ pos' \in [Threads -> Nat] /\ owner' \in [Mutexes -> Threads \cup {Nobody}]
  BY <1>5, Zenon DEF IInv
<1>7. ASSUME NEW u \in Threads
      PROVE  /\ Disciplined(prog'[u]) /\ pos'[u] \in 1..(Len(prog'[u]) + 1)
             /\ \A m \in Mutexes : owner'[m] = u => HeldAt(prog'[u], pos'[u], m)
  <2>1. CASE u = t
    <3>1. prog'[u] = p /\ pos'[u] = 1
      BY <2>1, <1>5, Zenon DEF IInv
    <3> QED  BY <2>1, <3>1, <1>1, <1>2, <1>4, <1>5
  <2>2. CASE u # t
    <3>1. prog'[u] = prog[u] /\ pos'[u] = pos[u]
      BY <2>2, <1>5, Zenon DEF IInv
    <3> QED  BY <3>1, <1>5, Zenon DEF IInv
  <2> QED  BY <2>1, <2>2, Zenon
<1> QED  BY <1>6, <1>7, Zenon DEF IInv

\* Taking and dropping a mutex moves the thread and the mutex together.
LEMMA StepInvariant ==
  ASSUME IInv, NEW t \in Threads, Step(t)
  PROVE  IInv'
<1> DEFINE p == prog[t]
           k == pos[t]
           o == Op(t)
<1>0. Disciplined(p) /\ k \in 1..Len(p) /\ o = p[k]
  BY Zenon DEF IInv, Step, Acquire, Release, Busy, Op
<1>1. /\ Disciplined(p) /\ k \in 1..Len(p) /\ o = p[k] /\ k \in Nat \ {0}
      /\ Len(p) \in Nat
  BY <1>0, DisciplinedSteps
<1>2. o \in [do : {"lock", "unlock"}, mutex : Mutexes]
  BY <1>0, DisciplinedSteps
<1>3. /\ prog' = prog /\ pos' = [pos EXCEPT ![t] = @ + 1]
      /\ \/ o.do = "lock" /\ owner[o.mutex] = Nobody /\ owner' = [owner EXCEPT ![o.mutex] = t]
         \/ o.do = "unlock" /\ owner' = [owner EXCEPT ![o.mutex] = Nobody]
  BY Zenon DEF Step, Acquire, Release
<1>4. /\ pos \in [Threads -> Nat] /\ owner \in [Mutexes -> Threads \cup {Nobody}]
      /\ prog \in [Threads -> {<< >>} \cup UNION {Programs[u] : u \in Threads}]
      /\ \A u \in Threads : /\ Disciplined(prog[u]) /\ pos[u] \in 1..(Len(prog[u]) + 1)
                            /\ \A m \in Mutexes : owner[m] = u => HeldAt(prog[u], pos[u], m)
  BY Zenon DEF IInv
<1>5. pos' \in [Threads -> Nat] /\ owner' \in [Mutexes -> Threads \cup {Nobody}]
  <2> HIDE DEF o
  <2> QED  BY <1>2, <1>3, <1>4
<1>6. pos'[t] = k + 1 /\ \A u \in Threads : u # t => pos'[u] = pos[u]
  BY <1>3, <1>4, Zenon
<1>7. k + 1 \in 1..(Len(p) + 1)
  BY <1>1
<1>8. ASSUME NEW m \in Mutexes, owner'[m] = t PROVE HeldAt(p, k + 1, m)
  <2>1. CASE o.do = "lock" /\ m = o.mutex
    <3>1. p[k] = Lock(m)
      BY <2>1, <1>1, <1>2, Zenon DEF Lock
    <3> HIDE DEF p, k
    <3> QED  BY <3>1, <1>1 DEF HeldAt
  <2>2. CASE o.do = "lock" /\ m # o.mutex
    <3>1. owner[m] = t
      BY <2>2, <1>8, <1>2, <1>3, <1>4, Zenon
    <3>2. p[k] # Unlock(m)
      BY <2>2, <1>1 DEF Unlock
    <3> QED  BY <3>1, <3>2, <1>1, <1>4, StillHeld, Zenon
  <2>3. CASE o.do = "unlock"
    <3>1. owner'[o.mutex] = Nobody /\ t # Nobody
      BY <2>3, <1>2, <1>3, <1>4, LockOrderAssumption, Zenon DEF LockOrderAssumption
    <3>2. m # o.mutex /\ owner[m] = t
      BY <2>3, <3>1, <1>8, <1>2, <1>3, <1>4, Zenon
    <3>3. p[k] # Unlock(m)
      BY <3>2, <1>1 DEF Unlock
    <3> QED  BY <3>2, <3>3, <1>1, <1>4, StillHeld, Zenon
  <2> QED  BY <1>2, <2>1, <2>2, <2>3, Zenon
<1>9. ASSUME NEW u \in Threads, u # t, NEW m \in Mutexes, owner'[m] = u
      PROVE  owner[m] = u
  BY <1>9, <1>2, <1>3, <1>4, LockOrderAssumption, Zenon DEF LockOrderAssumption
<1>10. ASSUME NEW u \in Threads
       PROVE  /\ Disciplined(prog'[u]) /\ pos'[u] \in 1..(Len(prog'[u]) + 1)
              /\ \A m \in Mutexes : owner'[m] = u => HeldAt(prog'[u], pos'[u], m)
  <2>1. CASE u = t
    <3> HIDE DEF k
    <3> QED  BY <2>1, <1>1, <1>3, <1>6, <1>7, <1>8
  <2>2. CASE u # t
    BY <2>2, <1>3, <1>4, <1>6, <1>9, Zenon
  <2> QED  BY <2>1, <2>2, Zenon
<1> QED  BY <1>3, <1>4, <1>5, <1>10, Zenon DEF IInv

-----------------------------------------------------------------------------
\* Whoever waits holds only mutexes of a lower rank, or is in readdir.
LEMMA InvariantOutranks == IInv => WaitersOutrank
<1> SUFFICES ASSUME IInv, NEW t \in Threads, Waiting(t), ~Listing(t),
                    NEW m \in Mutexes, owner[m] = t
             PROVE  Rank[m] < Rank[Op(t).mutex]
  BY Zenon DEF WaitersOutrank
<1>1. /\ Disciplined(prog[t]) /\ pos[t] \in 1..Len(prog[t]) /\ Op(t).do = "lock"
      /\ HeldAt(prog[t], pos[t], m) /\ Op(t) = prog[t][pos[t]]
  BY Zenon DEF IInv, Waiting, Busy, Op
<1>2. Op(t) \in [do : {"lock", "unlock"}, mutex : Mutexes]
  BY <1>1, DisciplinedSteps
<1>3. prog[t][pos[t]] = Lock(Op(t).mutex) /\ Op(t).mutex \in Mutexes
  BY <1>1, <1>2, Zenon DEF Lock
<1>4. CASE WellLocked(prog[t])
  BY <1>4, <1>1, <1>3, Zenon DEF WellLocked
<1>5. CASE prog[t] = Readdir
  <2>1. pos[t] # 6
    <3> SUFFICES ASSUME pos[t] = 6 PROVE FALSE
      BY Zenon
    <3>1. Op(t) = Lock("index")
      BY <1>1, <1>5, ReaddirSteps, Zenon
    <3>2. Op(t).mutex = "index"
      BY <3>1, StepFacts, MutexOrder
    <3>3. m = "tree"
      BY <1>1, <1>5, ReaddirSteps, Zenon
    <3> QED  BY <1>5, <3>2, <3>3, Zenon DEF Listing
  <2> QED  BY <2>1, <1>1, <1>3, <1>5, ReaddirSteps, Zenon
<1> QED  BY <1>1, <1>4, <1>5, Zenon DEF Disciplined

\* In a set of threads that wait for one another, one waits for a mutex of the
\* highest rank, and whoever holds it waits for a higher one still, unless it
\* is in readdir.
LEMMA OutrankedIsAcyclic == IInv => OnlyReaddirDeadlocks
<1> SUFFICES ASSUME IInv, NEW S \in SUBSET Threads, S # {},
                    \A t \in S : \E u \in S : Waits(t, u),
                    \A t \in S : ~Listing(t)
             PROVE  FALSE
  BY Zenon DEF OnlyReaddirDeadlocks, CircularWait
<1>1. WaitersOutrank
  BY InvariantOutranks, Zenon
<1>2. ASSUME NEW t \in S
      PROVE  /\ Waiting(t) /\ Op(t).mutex \in Mutexes
             /\ Rank[Op(t).mutex] \in 1..5
  <2>1. Waiting(t)
    BY Zenon DEF Waits
  <2>2. Disciplined(prog[t]) /\ pos[t] \in 1..Len(prog[t]) /\ Op(t) = prog[t][pos[t]]
    BY <2>1, Zenon DEF IInv, Waiting, Busy, Op
  <2>3. Op(t) \in [do : {"lock", "unlock"}, mutex : Mutexes]
    BY <2>2, DisciplinedSteps
  <2> QED  BY <2>1, <2>3, RankFacts, Zenon
<1> DEFINE R == {6 - Rank[Op(t).mutex] : t \in S}
<1>3. R \subseteq Nat /\ R # {}
  BY <1>2
<1>4. PICK y \in R : \A z \in R : ~(<<z, y>> \in OpToRel(<, Nat))
  <2> HIDE DEF R
  <2> QED  BY <1>3, NatLessThanWellFounded, WFMin, Zenon
<1>5. PICK t \in S : y = 6 - Rank[Op(t).mutex]
  BY Zenon
<1>6. PICK u \in S : Waits(t, u)
  BY Zenon
<1>7. owner[Op(t).mutex] = u
  BY <1>6, Zenon DEF Waits
<1>8. Rank[Op(t).mutex] < Rank[Op(u).mutex]
  BY <1>1, <1>2, <1>7, Zenon DEF WaitersOutrank
<1>9. 6 - Rank[Op(u).mutex] \in R
  BY Zenon
<1>10. /\ 6 - Rank[Op(u).mutex] \in Nat /\ y \in Nat
       /\ 6 - Rank[Op(u).mutex] < y
  BY <1>2, <1>5, <1>8
<1> HIDE DEF R
<1> QED  BY <1>4, <1>9, <1>10, Zenon DEF OpToRel

-----------------------------------------------------------------------------
\* Every step keeps the invariant.
LEMMA NextInvariant ==
  ASSUME Hypothesis, IInv, [Next]_vars
  PROVE  IInv'
<1>1. CASE UNCHANGED vars
  BY <1>1, Zenon DEF IInv, vars
<1>2. ASSUME NEW t \in Threads, Step(t) PROVE IInv'
  BY <1>2, StepInvariant, Zenon
<1>3. ASSUME NEW t \in Threads, NEW p \in Programs[t], Start(t, p) PROVE IInv'
  BY <1>3, StartInvariant, Zenon
<1> QED  BY <1>1, <1>2, <1>3, Zenon DEF Next

\* Operations that take the mutexes of MemDbInner by ascending rank never wait
\* for one another in a circle, whatever their number and their threads.
THEOREM NoDeadlock ==
  ASSUME \A t \in Threads : \A p \in Programs[t] : WellLocked(p)
  PROVE  Spec => []NoCircularWait
<1>1. Hypothesis
  BY Zenon DEF Hypothesis, Disciplined
<1>2. IInv /\ [Next]_vars => IInv'
  BY <1>1, NextInvariant, Zenon
<1>3. IInv => NoCircularWait
  <2> SUFFICES ASSUME IInv PROVE NoCircularWait
    BY Zenon
  <2>1. \A t \in Threads : WellLocked(prog[t])
    <3> SUFFICES ASSUME NEW t \in Threads PROVE WellLocked(prog[t])
      BY Zenon
    <3>1. prog[t] = << >> \/ \E u \in Threads : prog[t] \in Programs[u]
      BY DEF IInv
    <3> QED  BY <3>1, EmptyIsWellLocked, Zenon
  <2>2. \A t \in Threads : ~Listing(t)
    BY <2>1, ReaddirBreaksOrder, Zenon DEF Listing
  <2> QED  BY <2>2, OutrankedIsAcyclic, Zenon DEF NoCircularWait, OnlyReaddirDeadlocks
<1> QED  BY <1>2, <1>3, InitInvariant, PTL DEF Spec

\* The order itself, with readdir among the operations: the place where it asks
\* for the index below the tree is the only one against the order.
THEOREM OrderIsKept ==
  ASSUME Hypothesis
  PROVE  Spec => []WaitersOutrank
<1>1. IInv /\ [Next]_vars => IInv'
  BY NextInvariant
<1> QED  BY <1>1, InitInvariant, InvariantOutranks, PTL DEF Spec
-----------------------------------------------------------------------------
(***************************************************************************)
(* The operations of MemDbInner are well locked.  Two lemmas follow the    *)
(* two ways an operation is put together: one call after another, and a    *)
(* body under a guard.                                                     *)
(***************************************************************************)

\* Every step of p is about a mutex after m in the order.
Above(p, m) == \A k \in 1..Len(p) : Rank[m] < Rank[p[k].mutex]

\* An operation that makes one call after another (delete: lookup_path, the
\* tree, with_mutation, ...) is well locked when each call is.
LEMMA ConcatIsWellLocked ==
  ASSUME NEW p, NEW q, WellLocked(p), WellLocked(q)
  PROVE  WellLocked(p \o q)
<1> DEFINE s == p \o q
<1>1. p \in Seq(LockSteps) /\ q \in Seq(LockSteps)
  BY Zenon DEF WellLocked, LockSteps
<1>2. /\ s \in Seq(LockSteps) /\ Len(s) = Len(p) + Len(q)
      /\ Len(p) \in Nat /\ Len(q) \in Nat
      /\ \A i \in 1..Len(p) : s[i] = p[i]
      /\ \A i \in 1..Len(q) : s[Len(p) + i] = q[i]
  BY <1>1
<1> HIDE DEF s
<1>3. \A n \in Mutexes : ~HeldAt(p, Len(p) + 1, n) /\ ~HeldAt(q, Len(q) + 1, n)
  BY Zenon DEF WellLocked
<1>4. ASSUME NEW k \in 1..Len(p), NEW n \in Mutexes, HeldAt(s, k, n)
      PROVE  HeldAt(p, k, n)
  <2>1. PICK i \in 1..(k - 1) : s[i] = Lock(n) /\ \A j \in (i + 1)..(k - 1) : s[j] # Unlock(n)
    BY <1>4, Zenon DEF HeldAt
  <2>2. i \in 1..Len(p) /\ \A j \in (i + 1)..(k - 1) : j \in 1..Len(p)
    BY <1>2
  <2>3. p[i] = Lock(n) /\ \A j \in (i + 1)..(k - 1) : p[j] # Unlock(n)
    BY <2>1, <2>2, <1>2, Zenon
  <2> QED  BY <2>3, Zenon DEF HeldAt
<1>5. ASSUME NEW k \in 1..(Len(q) + 1), NEW n \in Mutexes, HeldAt(s, Len(p) + k, n)
      PROVE  HeldAt(q, k, n)
  <2>1. PICK i \in 1..(Len(p) + k - 1) :
          s[i] = Lock(n) /\ \A j \in (i + 1)..(Len(p) + k - 1) : s[j] # Unlock(n)
    BY <1>5 DEF HeldAt
  <2>2. i \notin 1..Len(p)
    <3> SUFFICES ASSUME i \in 1..Len(p) PROVE FALSE
      BY Zenon
    <3>1. p[i] = Lock(n)
      BY <2>1, <1>2, Zenon
    <3>2. \A j \in (i + 1)..((Len(p) + 1) - 1) :
            j \in (i + 1)..(Len(p) + k - 1) /\ j \in 1..Len(p)
      BY <1>2
    <3>3. \A j \in (i + 1)..((Len(p) + 1) - 1) : p[j] # Unlock(n)
      BY <3>2, <2>1, <1>2, Zenon
    <3>4. i \in 1..((Len(p) + 1) - 1)
      BY <1>2
    <3>5. HeldAt(p, Len(p) + 1, n)
      BY <3>1, <3>3, <3>4, Zenon DEF HeldAt
    <3> QED  BY <3>5, <1>3, Zenon
  <2>3. PICK a \in 1..(k - 1) : i = Len(p) + a
    <3>1. i - Len(p) \in 1..(k - 1) /\ i = Len(p) + (i - Len(p))
      BY <2>2, <1>2
    <3> QED  BY <3>1, Zenon
  <2>4. q[a] = Lock(n)
    BY <2>1, <2>3, <1>2
  <2>5. ASSUME NEW j \in (a + 1)..(k - 1) PROVE q[j] # Unlock(n)
    <3>1. Len(p) + j \in (i + 1)..(Len(p) + k - 1) /\ j \in 1..Len(q)
      BY <2>3, <1>2
    <3> QED  BY <3>1, <2>1, <1>2, Zenon
  <2> QED  BY <2>4, <2>5, Zenon DEF HeldAt
<1>6. ASSUME NEW k \in 1..Len(s), NEW m \in Mutexes, NEW n \in Mutexes,
             s[k] = Lock(m), HeldAt(s, k, n)
      PROVE  Rank[n] < Rank[m]
  <2>1. CASE k \in 1..Len(p)
    BY <2>1, <1>2, <1>4, <1>6, Zenon DEF WellLocked
  <2>2. CASE k \notin 1..Len(p)
    <3>1. k - Len(p) \in 1..Len(q) /\ k = Len(p) + (k - Len(p))
      BY <2>2, <1>2
    <3>2. PICK a \in 1..Len(q) : k = Len(p) + a
      BY <3>1, Zenon
    <3>3. q[a] = Lock(m) /\ a \in 1..(Len(q) + 1)
      BY <3>2, <1>2, <1>6
    <3>4. HeldAt(q, a, n)
      BY <3>2, <3>3, <1>5, <1>6, Zenon
    <3> QED  BY <3>3, <3>4, Zenon DEF WellLocked
  <2> QED  BY <2>1, <2>2, Zenon
<1>7. ASSUME NEW n \in Mutexes PROVE ~HeldAt(s, Len(s) + 1, n)
  <2>1. Len(s) + 1 = Len(p) + (Len(q) + 1) /\ Len(q) + 1 \in 1..(Len(q) + 1)
    BY <1>2
  <2> QED  BY <2>1, <1>3, <1>5, Zenon
<1> QED  BY <1>2, <1>6, <1>7, Zenon DEF WellLocked, LockSteps, s

\* A body under a guard is well locked when the body is and takes only mutexes
\* that come after the guard's.
LEMMA UnderIsWellLocked ==
  ASSUME NEW m \in Mutexes, NEW b, WellLocked(b), Above(b, m)
  PROVE  WellLocked(Under(m, b))
<1> DEFINE s == Under(m, b)
           L == Len(b)
<1>1. b \in Seq(LockSteps) /\ Lock(m) \in LockSteps /\ Unlock(m) \in LockSteps
  BY StepFacts, Zenon DEF WellLocked, LockSteps
<1>2. /\ s \in Seq(LockSteps) /\ Len(s) = L + 2 /\ L \in Nat
      /\ s[1] = Lock(m) /\ s[L + 2] = Unlock(m)
      /\ \A i \in 1..L : s[i + 1] = b[i]
  BY <1>1 DEF Under
<1> HIDE DEF s
<1>3. ASSUME NEW k \in 2..(L + 2), NEW n \in Mutexes, HeldAt(s, k, n)
      PROVE  n = m \/ HeldAt(b, k - 1, n)
  <2>1. PICK i \in 1..(k - 1) : s[i] = Lock(n) /\ \A j \in (i + 1)..(k - 1) : s[j] # Unlock(n)
    BY <1>3, Zenon DEF HeldAt
  <2>2. CASE i = 1
    BY <2>1, <2>2, <1>2, StepFacts, Zenon
  <2>3. CASE i # 1
    <3>1. (i - 1) \in 1..((k - 1) - 1) /\ (i - 1) \in 1..L /\ (i - 1) + 1 = i
      BY <2>3, <1>2
    <3>2. b[i - 1] = Lock(n)
      BY <3>1, <2>1, <1>2, Zenon
    <3>3. ASSUME NEW j \in ((i - 1) + 1)..((k - 1) - 1) PROVE b[j] # Unlock(n)
      <4>1. j + 1 \in (i + 1)..(k - 1) /\ j \in 1..L
        BY <1>2
      <4> QED  BY <4>1, <2>1, <1>2, Zenon
    <3> QED  BY <3>1, <3>2, <3>3, Zenon DEF HeldAt
  <2> QED  BY <2>2, <2>3, Zenon
<1>4. ASSUME NEW k \in 1..Len(s), NEW a \in Mutexes, NEW n \in Mutexes,
             s[k] = Lock(a), HeldAt(s, k, n)
      PROVE  Rank[n] < Rank[a]
  <2>1. k # 1
    BY <1>4 DEF HeldAt
  <2>2. k # L + 2
    BY <1>2, <1>4, StepFacts
  <2>3. k \in 2..(L + 2) /\ (k - 1) \in 1..L /\ k = (k - 1) + 1
    BY <2>1, <2>2, <1>2
  <2>4. b[k - 1] = Lock(a)
    BY <2>3, <1>2, <1>4, Zenon
  <2>5. CASE n = m
    BY <2>5, <2>3, <2>4, StepFacts DEF Above
  <2>6. CASE HeldAt(b, k - 1, n)
    BY <2>6, <2>3, <2>4, Zenon DEF WellLocked
  <2> QED  BY <2>3, <2>5, <2>6, <1>3, <1>4, Zenon
<1>5. ASSUME NEW n \in Mutexes, HeldAt(s, Len(s) + 1, n) PROVE FALSE
  <2>1. PICK i \in 1..(L + 2) : s[i] = Lock(n) /\ \A j \in (i + 1)..(L + 2) : s[j] # Unlock(n)
    <3>1. (Len(s) + 1) - 1 = L + 2
      BY <1>2
    <3> QED  BY <3>1, <1>5, Zenon DEF HeldAt
  <2>2. i # L + 2
    BY <2>1, <1>2, StepFacts
  <2>3. L + 2 \in (i + 1)..(L + 2)
    BY <2>2, <1>2
  <2>4. n # m
    BY <2>1, <2>3, <1>2, Zenon
  <2>5. i \in 1..((L + 2) - 1) /\ \A j \in (i + 1)..((L + 2) - 1) : j \in (i + 1)..(L + 2)
    BY <2>2, <1>2
  <2>6. HeldAt(s, L + 2, n)
    BY <2>1, <2>5, Zenon DEF HeldAt
  <2>7. L + 2 \in 2..(L + 2) /\ (L + 2) - 1 = L + 1
    BY <1>2
  <2>8. HeldAt(b, L + 1, n)
    BY <2>4, <2>6, <2>7, <1>3, Zenon
  <2> QED  BY <2>8, Zenon DEF WellLocked
<1> QED  BY <1>2, <1>4, <1>5, Zenon DEF WellLocked, LockSteps, s

\* Well locked, and about mutexes after m only.
Nested(p, m) == WellLocked(p) /\ Above(p, m)

\* One call after another, below a guard.
LEMMA ConcatIsNested ==
  ASSUME NEW m \in Mutexes, NEW p, NEW q, Nested(p, m), Nested(q, m)
  PROVE  Nested(p \o q, m)
<1>1. p \in Seq(LockSteps) /\ q \in Seq(LockSteps)
  BY Zenon DEF Nested, WellLocked, LockSteps
<1>2. /\ Len(p \o q) = Len(p) + Len(q) /\ Len(p) \in Nat /\ Len(q) \in Nat
      /\ \A i \in 1..Len(p) : (p \o q)[i] = p[i]
      /\ \A i \in 1..Len(q) : (p \o q)[Len(p) + i] = q[i]
  BY <1>1
<1>3. ASSUME NEW k \in 1..Len(p \o q) PROVE Rank[m] < Rank[(p \o q)[k].mutex]
  <2>1. CASE k \in 1..Len(p)
    BY <2>1, <1>2, Zenon DEF Nested, Above
  <2>2. CASE k \notin 1..Len(p)
    <3>1. k - Len(p) \in 1..Len(q) /\ k = Len(p) + (k - Len(p))
      BY <2>2, <1>2
    <3>2. PICK a \in 1..Len(q) : k = Len(p) + a
      BY <3>1, Zenon
    <3> QED  BY <3>2, <1>2, Zenon DEF Nested, Above
  <2> QED  BY <2>1, <2>2, Zenon
<1> QED  BY <1>3, ConcatIsWellLocked, Zenon DEF Nested, Above

\* A guard and its body, below another guard.
LEMMA UnderIsNested ==
  ASSUME NEW m \in Mutexes, NEW a \in Mutexes, Rank[m] < Rank[a], NEW b, Nested(b, a)
  PROVE  Nested(Under(a, b), m)
<1> DEFINE s == Under(a, b)
<1>1. b \in Seq(LockSteps) /\ Lock(a) \in LockSteps /\ Unlock(a) \in LockSteps
  BY StepFacts, Zenon DEF Nested, WellLocked, LockSteps
<1>2. /\ s \in Seq(LockSteps) /\ Len(s) = Len(b) + 2 /\ Len(b) \in Nat
      /\ s[1] = Lock(a) /\ s[Len(b) + 2] = Unlock(a)
      /\ \A i \in 1..Len(b) : s[i + 1] = b[i]
  BY <1>1 DEF Under
<1>3. \A i \in 1..Len(b) : b[i].mutex \in Mutexes
  <2>1. \A i \in 1..Len(b) : b[i] \in LockSteps
    BY <1>1
  <2> QED  BY <2>1, Zenon DEF LockSteps
<1>4. ASSUME NEW k \in 1..Len(s) PROVE Rank[m] < Rank[s[k].mutex]
  <2> HIDE DEF s
  <2>1. CASE k = 1 \/ k = Len(b) + 2
    BY <2>1, <1>2, StepFacts
  <2>2. CASE k # 1 /\ k # Len(b) + 2
    <3>1. (k - 1) \in 1..Len(b) /\ k = (k - 1) + 1
      BY <2>2, <1>2
    <3>2. Rank[a] < Rank[s[k].mutex] /\ s[k].mutex \in Mutexes
      BY <3>1, <1>2, <1>3, Zenon DEF Nested, Above
    <3> QED  BY <3>2, RankFacts
  <2> QED  BY <2>1, <2>2, Zenon
<1> QED  BY <1>4, UnderIsWellLocked, Zenon DEF Nested, Above

\* A mutex that is taken and dropped at once.
LEMMA BriefIsNested ==
  ASSUME NEW m \in Mutexes, NEW a \in Mutexes, Rank[m] < Rank[a]
  PROVE  Nested(Brief(a), m)
<1>1. Nested(<< >>, a)
  BY EmptyIsWellLocked DEF Nested, Above
<1> QED  BY <1>1, UnderIsNested, Zenon DEF Brief

\* The same with nothing held.
LEMMA BriefIsWellLocked == \A m \in Mutexes : WellLocked(Brief(m))
<1> TAKE m \in Mutexes
<1>1. Nested(<< >>, m)
  BY EmptyIsWellLocked DEF Nested, Above
<1> QED  BY <1>1, UnderIsWellLocked, Zenon DEF Brief, Nested

\* lookup_path takes the tree below the index, with or without the write guard.
LEMMA LookupIsNested == Nested(LookupPath, "guard") /\ WellLocked(LookupPath)
<1>1. Nested(Brief("tree"), "index")
  BY MutexOrder, BriefIsNested, Zenon
<1> QED  BY <1>1, MutexOrder, UnderIsNested, Zenon DEF LookupPath, Nested

\* encode_index drops the connection while it holds the index.
LEMMA EncodeIndexIsWellLocked == WellLocked(EncodeIndex)
<1> DEFINE s == EncodeIndex
<1>1. "conn" \in Mutexes /\ "index" \in Mutexes
  BY MutexOrder, Zenon
<1>2. /\ s \in Seq(LockSteps) /\ Len(s) = 4
      /\ s[1] = Lock("conn") /\ s[2] = Lock("index")
      /\ s[3] = Unlock("conn") /\ s[4] = Unlock("index")
  BY <1>1, StepFacts DEF EncodeIndex
<1> HIDE DEF s
<1>3. \A n \in Mutexes : s[3] # Lock(n) /\ s[4] # Lock(n)
  BY <1>2, StepFacts, Zenon
<1>4. ASSUME NEW k \in 1..Len(s), NEW m \in Mutexes, NEW n \in Mutexes,
             s[k] = Lock(m), HeldAt(s, k, n)
      PROVE  Rank[n] < Rank[m]
  <2>1. k = 2
    BY <1>2, <1>3, <1>4 DEF HeldAt
  <2>2. m = "index"
    BY <2>1, <1>1, <1>2, <1>4, StepFacts, Zenon
  <2>3. PICK i \in 1..1 : s[i] = Lock(n)
    BY <2>1, <1>4 DEF HeldAt
  <2>4. n = "conn"
    BY <2>3, <1>1, <1>2, StepFacts
  <2> QED  BY <2>2, <2>4, MutexOrder, Zenon
<1>5. ASSUME NEW n \in Mutexes, HeldAt(s, Len(s) + 1, n) PROVE FALSE
  <2>1. PICK i \in 1..4 : s[i] = Lock(n) /\ \A j \in (i + 1)..4 : s[j] # Unlock(n)
    BY <1>2, <1>5 DEF HeldAt
  <2>2. i = 1 \/ i = 2
    BY <2>1, <1>3
  <2>3. (i = 1 => n = "conn") /\ (i = 2 => n = "index")
    BY <2>1, <1>1, <1>2, StepFacts
  <2> QED  BY <2>1, <2>2, <2>3, <1>2
<1> QED  BY <1>2, <1>4, <1>5, Zenon DEF WellLocked, LockSteps, s

\* What the threads of the daemon call.
Operations ==
  {LookupPath, ReadIndex, Readdir, CreateRefused, Create, Write, SetMtime, Delete, Rename,
   LockExpired, EncodeIndex, ApplyTreeEntry}

\* Every operation of MemDbInner except readdir takes guard, conn, index, tree and
\* locks in this order and drops all of them, on its refusals as well (create,
\* write, set_mtime, delete, rename, lock_expired, encode_index,
\* apply_tree_entry and the lookups).
LEMMA OperationsKeepOrder == \A p \in Operations \ {Readdir} : WellLocked(p)
<1> USE MutexOrder
<1> DEFINE IndexThenTree == Under("index", Brief("tree"))
<1>1. /\ Nested(Brief("index"), "guard") /\ Nested(Brief("conn"), "guard")
      /\ Nested(Brief("tree"), "index") /\ Nested(LookupPath, "guard")
  BY BriefIsNested, LookupIsNested, Zenon
<1>2. Nested(IndexThenTree, "guard") /\ Nested(IndexThenTree, "conn") /\ WellLocked(IndexThenTree)
  BY <1>1, UnderIsNested, Zenon DEF Nested
<1>3. WellLocked(LookupPath) /\ WellLocked(ReadIndex)
  BY LookupIsNested, BriefIsWellLocked, Zenon DEF ReadIndex
<1>4. WellLocked(CreateRefused)
  BY <1>1, UnderIsWellLocked, Zenon DEF CreateRefused, Nested
<1>5. WellLocked(Create)
  <2>1. Nested(LookupPath \o LookupPath \o Brief("index") \o Brief("conn"), "guard")
    BY <1>1, ConcatIsNested, Zenon
  <2>2. Nested(LookupPath \o LookupPath \o Brief("index") \o Brief("conn")
               \o Brief("index") \o IndexThenTree, "guard")
    BY <2>1, <1>1, <1>2, ConcatIsNested, Zenon
  <2> QED  BY <2>2, UnderIsWellLocked, Zenon DEF Create, Nested
<1>6. WellLocked(Write)
  <2>1. Nested(LookupPath \o Brief("index") \o Brief("conn") \o Brief("index")
               \o Brief("index"), "guard")
    BY <1>1, ConcatIsNested, Zenon
  <2> QED  BY <2>1, UnderIsWellLocked, Zenon DEF Write, Nested
<1>7. WellLocked(WithMutation)
  BY <1>1, ConcatIsNested, UnderIsWellLocked, Zenon DEF WithMutation, Nested
<1>8. WellLocked(SetMtime)
  BY <1>3, <1>7, BriefIsWellLocked, ConcatIsWellLocked, Zenon DEF SetMtime
<1>9. WellLocked(Delete)
  BY <1>2, <1>3, <1>7, BriefIsWellLocked, ConcatIsWellLocked, Zenon DEF Delete
<1>10. WellLocked(Rename)
  BY <1>2, <1>3, <1>7, ConcatIsWellLocked, Zenon DEF Rename
<1>11. WellLocked(LockExpired)
  BY <1>3, BriefIsWellLocked, ConcatIsWellLocked, Zenon DEF LockExpired
<1>12. WellLocked(ApplyTreeEntry)
  BY <1>2, UnderIsWellLocked, Zenon DEF ApplyTreeEntry, Nested
<1> QED  BY <1>3, <1>4, <1>5, <1>6, <1>8, <1>9, <1>10, <1>11, <1>12, EncodeIndexIsWellLocked, Zenon
         DEF Operations

\* Whatever number of threads call the operations of the database, readdir
\* among them, in any order and at the same time: each operation but readdir
\* keeps the order of the mutexes, and threads that wait for one another in a
\* circle have among them one that lists a directory and asks for the index
\* while it holds the tree (database.rs:933).
THEOREM ReaddirIsTheOnlyDeadlock ==
  ASSUME \A t \in Threads : Programs[t] \subseteq Operations
  PROVE  Spec => [](OperationsAreWellLocked /\ OnlyReaddirDeadlocks)
<1>1. Hypothesis
  BY OperationsKeepOrder, Zenon DEF Hypothesis, Disciplined
<1>2. IInv /\ [Next]_vars => IInv'
  BY <1>1, NextInvariant, Zenon
<1>3. IInv => OperationsAreWellLocked
  BY Zenon DEF IInv, OperationsAreWellLocked, Disciplined
<1> QED  BY <1>2, <1>3, InitInvariant, OutrankedIsAcyclic, PTL DEF Spec
=============================================================================
