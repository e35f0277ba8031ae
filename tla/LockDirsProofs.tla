---------------------------- MODULE LockDirsProofs -----------------------------
(***************************************************************************)
(* Safety of the lock directories for any number of nodes and of locks,    *)
(* any timeout and any number of renewals and restarts.                    *)
(*                                                                         *)
(* Expiry: no entry of a lock cache is older than the lock whose checksum  *)
(* it carries.  Agreement: of two nodes, the one that is ahead has the     *)
(* lock that the other one will have once it has delivered the messages    *)
(* the first one has delivered already.                                    *)
(***************************************************************************)
EXTENDS LockDirs, TLAPS

-----------------------------------------------------------------------------
\* Sequences.

\* Length and domain of a queue.
LEMMA SequenceFacts ==
  ASSUME NEW S, NEW s \in Seq(S)
  PROVE  Len(s) \in Nat /\ s \in [1 .. Len(s) -> S] /\ DOMAIN s = 1 .. Len(s)
OBVIOUS

\* A function on an initial segment of the numbers is a sequence.
LEMMA FunctionIsSequence ==
  ASSUME NEW n \in Nat, NEW S, NEW s \in [1 .. n -> S]
  PROVE  s \in Seq(S)
OBVIOUS

\* Sequences are equal if their elements are.
LEMMA SameElements ==
  ASSUME NEW S, NEW s \in Seq(S), NEW t \in Seq(S), Len(s) = Len(t),
         \A i \in 1 .. Len(s) : s[i] = t[i]
  PROVE  s = t
OBVIOUS

\* A sequence over a set is one over every larger set.
LEMMA WiderSequence ==
  ASSUME NEW S, NEW T, NEW s \in Seq(S), S \subseteq T
  PROVE  s \in Seq(T)
OBVIOUS

Made == [age : Ages, by : Nodes]

\* The locks that were ever asked for, and the states of the lock directory.
Ids == 1..Len(made)
Locks == {NoLock} \cup [id : Ids, mtime : Nat, writer : {0} \cup Nodes]

\* An entry of the cache is not older than its lock.
Entries == {e \in [age : Ages, csum : Ids \X Nat] : e.age <= made[e.csum[1]].age}

Caches == UNION {[S -> Entries] : S \in SUBSET Spelling}

\* The messages under way; an Unlock names a lock past its timeout.
Messages ==
  [type : {"mkdir"}, from : Nodes, id : Ids]
    \cup [type : {"delete", "unlockRequest"}, from : Nodes]
    \cup [type : {"mtime"}, from : Nodes, mtime : Nat]
    \cup {u \in [type : {"unlock"}, from : Nodes, csum : Ids \X Nat] :
            made[u.csum[1]].age > LockTimeout}

ExpiryInv ==
  /\ made \in Seq(Made)
  /\ lock \in [Nodes -> Locks]
  /\ cache \in [Nodes -> Caches]
  /\ inbox \in [Nodes -> Seq(Messages)]
  /\ busy \in [Nodes -> BOOLEAN]

-----------------------------------------------------------------------------
\* Locks only grow older, and never past the first tick after the timeout.
LEMMA AgeFacts ==
  /\ 0 \in Ages /\ \A a \in Ages : a \in Int
  /\ \A a \in Ages : Older(a) \in Ages /\ a <= Older(a)
  /\ \A a, b \in Ages : a <= b => Older(a) <= Older(b)
BY LockAssumption DEF LockAssumption, Ages, Older

\* The list of locks that were asked for, as a function.
LEMMA MadeFacts ==
  ASSUME made \in Seq(Made)
  PROVE  /\ Len(made) \in Nat /\ DOMAIN made = Ids /\ made \in [Ids -> Made]
         /\ \A i \in Ids : made[i].age \in Ages
<1>1. Len(made) \in Nat /\ DOMAIN made = 1..Len(made) /\ made \in [1..Len(made) -> Made]
  BY SequenceFacts, Zenon
<1>2. \A i \in 1..Len(made) : made[i] \in Made
  BY <1>1, Zenon
<1>3. \A x \in Made : x.age \in Ages
  BY Zenon DEF Made
<1> QED  BY <1>1, <1>2, <1>3, Zenon DEF Ids

\* made changes by appending a lock and by growing older: what was in the sets
\* above stays in them.
LEMMA SetsGrow ==
  ASSUME made \in Seq(Made), made' \in Seq(Made),
         Len(made) <= Len(made)',
         \A i \in Ids : made[i].age <= made'[i].age
  PROVE  /\ Ids \subseteq Ids' /\ Locks \subseteq Locks'
         /\ Entries \subseteq Entries' /\ Caches \subseteq Caches'
         /\ Messages \subseteq Messages'
         /\ \A q \in Seq(Messages) : q \in Seq(Messages)'
<1>1. Len(made) \in Nat /\ Len(made)' \in Nat
  BY SequenceFacts, Zenon
<1>2. Ids \subseteq Ids'
  BY <1>1 DEF Ids
<1>3. \A i \in Ids : made[i].age \in Ages /\ made'[i].age \in Ages
  <2>1. \A i \in Ids : made[i] \in Made
    BY SequenceFacts, Zenon DEF Ids
  <2>2. \A i \in Ids' : made'[i] \in Made
    BY SequenceFacts, Zenon DEF Ids
  <2>3. \A x \in Made : x.age \in Ages
    BY Zenon DEF Made
  <2> QED  BY <2>1, <2>2, <2>3, <1>2, Zenon
<1>a. ASSUME NEW i \in Ids, NEW a \in Int
      PROVE  (a <= made[i].age => a <= made'[i].age) /\ (made[i].age > a => made'[i].age > a)
  <2>1. made[i].age \in Int /\ made'[i].age \in Int /\ made[i].age <= made'[i].age
    BY <1>3, AgeFacts, Zenon
  <2> QED  BY <2>1
<1>4. Locks \subseteq Locks'
  BY <1>2, Zenon DEF Locks
<1>5. Entries \subseteq Entries'
  <2> SUFFICES ASSUME NEW e \in Entries PROVE e \in Entries'
    BY Zenon
  <2>1. e \in [age : Ages, csum : Ids \X Nat] /\ e.age <= made[e.csum[1]].age
    BY Zenon DEF Entries
  <2>2. e \in [age : Ages, csum : Ids' \X Nat] /\ e.csum[1] \in Ids /\ e.age \in Ages
    BY <2>1, <1>2, Zenon
  <2>3. e.age <= made'[e.csum[1]].age
    BY <2>1, <2>2, <1>a, AgeFacts, Zenon
  <2> QED  BY <2>2, <2>3, Zenon DEF Entries
<1>6. Caches \subseteq Caches'
  <2> SUFFICES ASSUME NEW S \in SUBSET Spelling, NEW c \in [S -> Entries]
               PROVE  c \in [S -> Entries']
    BY DEF Caches
  <2> QED  BY <1>5, Zenon
<1>7. Messages \subseteq Messages'
  <2> SUFFICES ASSUME NEW u \in Messages PROVE u \in Messages'
    OBVIOUS
  <2>1. CASE u \in [type : {"mkdir"}, from : Nodes, id : Ids]
    BY <2>1, <1>2, Zenon DEF Messages
  <2>2. CASE u \in [type : {"delete", "unlockRequest"}, from : Nodes]
    BY <2>2, Zenon DEF Messages
  <2>3. CASE u \in [type : {"mtime"}, from : Nodes, mtime : Nat]
    BY <2>3, Zenon DEF Messages
  <2>4. CASE u \in [type : {"unlock"}, from : Nodes, csum : Ids \X Nat]
             /\ made[u.csum[1]].age > LockTimeout
    <3>1. u \in [type : {"unlock"}, from : Nodes, csum : Ids' \X Nat] /\ u.csum[1] \in Ids
      BY <2>4, <1>2, Zenon
    <3>2. made'[u.csum[1]].age > LockTimeout
      BY <2>4, <3>1, <1>a, LockAssumption DEF LockAssumption
    <3> QED  BY <3>1, <3>2, Zenon DEF Messages
  <2> QED  BY <2>1, <2>2, <2>3, <2>4, Zenon DEF Messages
<1>8. ASSUME NEW q \in Seq(Messages) PROVE q \in Seq(Messages)'
  BY <1>7, WiderSequence, Zenon
<1> QED  BY <1>2, <1>4, <1>5, <1>6, <1>7, <1>8, Zenon

-----------------------------------------------------------------------------
\* The cache after insert, remove and with nothing in it.
LEMMA CacheFacts ==
  /\ Empty \in Caches
  /\ \A c \in Caches, k \in Spelling : Drop(c, k) \in Caches
  /\ \A c \in Caches, k \in Spelling, e \in Entries : Put(c, k, e) \in Caches
  /\ \A c \in Caches : DOMAIN c \subseteq Spelling /\ \A k \in DOMAIN c : c[k] \in Entries
<1>1. Empty \in [{} -> Entries] /\ {} \in SUBSET Spelling
  BY Zenon DEF Empty
<1>2. ASSUME NEW c \in Caches
      PROVE  /\ c \in [DOMAIN c -> Entries] /\ DOMAIN c \in SUBSET Spelling
             /\ \A k \in DOMAIN c : c[k] \in Entries
  BY Zenon DEF Caches
<1>3. ASSUME NEW c \in Caches, NEW k \in Spelling
      PROVE  Drop(c, k) \in [DOMAIN c \ {k} -> Entries] /\ DOMAIN c \ {k} \in SUBSET Spelling
  BY <1>2, Zenon DEF Drop
<1>4. ASSUME NEW c \in Caches, NEW k \in Spelling, NEW e \in Entries
      PROVE  /\ Put(c, k, e) \in [DOMAIN c \cup {k} -> Entries]
             /\ DOMAIN c \cup {k} \in SUBSET Spelling
  BY <1>2, Zenon DEF Put
<1>5. \A S \in SUBSET Spelling : \A c \in [S -> Entries] : c \in Caches
  BY Zenon DEF Caches
<1>6. Empty \in Caches /\ \A c \in Caches, k \in Spelling : Drop(c, k) \in Caches
  BY <1>1, <1>3, <1>5, Zenon
<1>7. \A c \in Caches, k \in Spelling, e \in Entries : Put(c, k, e) \in Caches
  BY <1>4, <1>5, Zenon
<1> QED  BY <1>2, <1>6, <1>7, Zenon

\* A lock that is there has a checksum of a lock that was asked for, and a new
\* entry for it is not older than the lock.
LEMMA ChecksumFacts ==
  ASSUME made \in Seq(Made), NEW l \in Locks, l # NoLock
  PROVE  /\ Checksum(l) \in Ids \X Nat
         /\ [age |-> 0, csum |-> Checksum(l)] \in Entries
<1>1. l \in [id : Ids, mtime : Nat, writer : {0} \cup Nodes]
  BY Zenon DEF Locks
<1>2. Checksum(l) \in Ids \X Nat /\ Checksum(l)[1] \in Ids
  BY <1>1, Zenon DEF Checksum
<1>3. made[Checksum(l)[1]].age \in Ages /\ \A a \in Ages : 0 <= a
  BY <1>2, MadeFacts, LockAssumption DEF Ages, LockAssumption
<1> DEFINE e == [age |-> 0, csum |-> Checksum(l)]
<1>4. e.age = 0 /\ e.csum = Checksum(l) /\ e \in [age : Ages, csum : Ids \X Nat]
  BY <1>2, AgeFacts, Zenon
<1> HIDE DEF e
<1>5. e \in Entries
  BY <1>3, <1>4, Zenon DEF Entries
<1> QED  BY <1>2, <1>5, Zenon DEF e

\* lock_expired finds a lock expired only when it is past its timeout.
LEMMA ExpiredIsOld ==
  ASSUME made \in Seq(Made), NEW c \in Caches, NEW l \in Locks, l # NoLock
  PROVE  /\ LockExpired(c, Checksum(l)).cache \in Caches
         /\ LockExpired(c, Checksum(l)).expired => made[Checksum(l)[1]].age > LockTimeout
<1> DEFINE x == LockExpired(c, Checksum(l))
<1>1. CASE "relative" \in DOMAIN c /\ c["relative"].csum = Checksum(l)
  <2>1. x.cache = c /\ (x.expired <=> c["relative"].age > LockTimeout)
    BY <1>1, Zenon DEF LockExpired
  <2>2. c["relative"] \in Entries
    BY <1>1, CacheFacts, Zenon
  <2>3. /\ c["relative"].age <= made[Checksum(l)[1]].age
        /\ c["relative"].age \in Ages
    BY <2>2, <1>1, Zenon DEF Entries
  <2>4. made[Checksum(l)[1]].age \in Ages
    BY ChecksumFacts, MadeFacts, Zenon
  <2>5. LockTimeout \in Int /\ c["relative"].age \in Int /\ made[Checksum(l)[1]].age \in Int
    BY <2>3, <2>4, AgeFacts, LockAssumption DEF LockAssumption
  <2> HIDE DEF x
  <2>6. x.expired => made[Checksum(l)[1]].age > LockTimeout
    BY <2>1, <2>3, <2>5
  <2> QED  BY <2>1, <2>6, Zenon DEF x
<1>2. CASE ~("relative" \in DOMAIN c /\ c["relative"].csum = Checksum(l))
  <2>1. x.cache = Put(c, "relative", [age |-> 0, csum |-> Checksum(l)]) /\ x.expired = FALSE
    BY <1>2, Zenon DEF LockExpired
  <2> QED  BY <2>1, ChecksumFacts, CacheFacts, Zenon DEF Spelling
<1> QED  BY <1>1, <1>2, Zenon

Outcome(r) == r.lock \in Locks /\ r.cache \in Caches /\ r.out \in Seq(Messages)

\* Every handler leaves a lock and a cache of the right kind, and what it
\* broadcasts is a message.
LEMMA HandlersKeepTypes ==
  ASSUME ExpiryInv, NEW n \in Nodes, NEW msg \in Messages
  PROVE  Outcome(Handle(n, msg))
<1>1. lock[n] \in Locks /\ cache[n] \in Caches /\ NoLock \in Locks /\ made \in Seq(Made)
  BY Zenon DEF ExpiryInv, Locks
<1>2. <<>> \in Seq(Messages)
  OBVIOUS
<1>3. \A l \in Locks, c \in Caches, o \in Seq(Messages) : Outcome(Result(l, c, o))
  BY Zenon DEF Result, Outcome
<1>4. Outcome(Deleted(n))
  <2>1. Drop(cache[n], "absolute") \in Caches
    BY <1>1, CacheFacts, Zenon DEF Spelling
  <2> QED  BY <2>1, <1>1, <1>2, <1>3, Zenon DEF Deleted
<1>5. CASE msg \in [type : {"mkdir"}, from : Nodes, id : Ids]
  <2>1. Handle(n, msg) = HandleMkdir(n, msg)
    BY <1>5, Zenon DEF Handle
  <2>2. [id |-> msg.id, mtime |-> 1, writer |-> 0] \in Locks
    BY <1>5, Zenon DEF Locks
  <2> QED  BY <2>1, <2>2, <1>1, <1>2, <1>3, Zenon DEF HandleMkdir
<1>6. CASE msg \in [type : {"delete", "unlockRequest"}, from : Nodes]
  <2>1. CASE msg.type = "delete"
    <3>1. Handle(n, msg) = Deleted(n)
      BY <2>1, Zenon DEF Handle
    <3> QED  BY <3>1, <1>4, Zenon
  <2>2. CASE msg.type = "unlockRequest"
    <3>1. Handle(n, msg) = HandleUnlockRequest(n, msg)
      BY <2>2, Zenon DEF Handle
    <3>2. CASE ~ IsLeader(n) \/ lock[n] = NoLock
      <4>1. Handle(n, msg) = Result(lock[n], cache[n], <<>>)
        BY <3>1, <3>2, Zenon DEF HandleUnlockRequest
      <4> QED  BY <4>1, <1>1, <1>2, <1>3, Zenon
    <3>3. CASE ~(~ IsLeader(n) \/ lock[n] = NoLock)
      <4> DEFINE x == LockExpired(cache[n], Checksum(lock[n]))
                 u == [type |-> "unlock", from |-> n, csum |-> Checksum(lock[n])]
      <4>1. Handle(n, msg) = Result(lock[n], x.cache, IF x.expired THEN <<u>> ELSE <<>>)
        BY <3>1, <3>3, Zenon DEF HandleUnlockRequest
      <4>2. x.cache \in Caches /\ (x.expired => made[Checksum(lock[n])[1]].age > LockTimeout)
        BY <3>3, <1>1, ExpiredIsOld, Zenon
      <4>3. u.csum = Checksum(lock[n]) /\ u \in [type : {"unlock"}, from : Nodes, csum : Ids \X Nat]
        BY <3>3, <1>1, ChecksumFacts, Zenon
      <4> HIDE DEF u, x
      <4>4. x.expired => u \in Messages
        BY <4>2, <4>3, Zenon DEF Messages
      <4>5. x.expired => <<u>> \in Seq(Messages)
        BY <4>4
      <4> QED  BY <4>1, <4>2, <4>5, <1>1, <1>2, <1>3, Zenon
    <3> QED  BY <3>2, <3>3, Zenon
  <2> QED  BY <1>6, <2>1, <2>2, Zenon
<1>7. CASE msg \in [type : {"mtime"}, from : Nodes, mtime : Nat]
  <2> DEFINE l == [lock[n] EXCEPT !.mtime = msg.mtime, !.writer = msg.from]
             ok == lock[n] # NoLock /\ msg.mtime >= lock[n].mtime /\ msg.from = lock[n].writer
  <2>1. Handle(n, msg) = HandleMtime(n, msg)
    BY <1>7, Zenon DEF Handle
  <2>2. CASE ok
    <3>1. lock[n] \in [id : Ids, mtime : Nat, writer : {0} \cup Nodes]
      BY <2>2, <1>1, Zenon DEF Locks
    <3>2. l \in [id : Ids, mtime : Nat, writer : {0} \cup Nodes] /\ l.id = lock[n].id /\ l.id \in Ids
      BY <3>1, <1>7, Zenon
    <3>3. l \in Locks /\ l # NoLock
      BY <3>2, SequenceFacts, <1>1 DEF Locks, NoLock, Ids
    <3>4. Handle(n, msg) = Result(l, Put(cache[n], "absolute", [age |-> 0, csum |-> Checksum(l)]), <<>>)
      BY <2>1, <2>2, Zenon DEF HandleMtime
    <3> HIDE DEF l
    <3>5. [age |-> 0, csum |-> Checksum(l)] \in Entries
      BY <3>3, <1>1, ChecksumFacts, Zenon
    <3>6. Put(cache[n], "absolute", [age |-> 0, csum |-> Checksum(l)]) \in Caches
      BY <3>5, <1>1, CacheFacts, Zenon DEF Spelling
    <3> QED  BY <3>3, <3>4, <3>6, <1>1, <1>2, <1>3, Zenon
  <2>3. CASE ~ok
    <3>1. Handle(n, msg) = Result(lock[n], cache[n], <<>>)
      BY <2>1, <2>3, Zenon DEF HandleMtime
    <3> QED  BY <3>1, <1>1, <1>2, <1>3, Zenon
  <2> QED  BY <2>2, <2>3, Zenon
<1>8. CASE msg \in [type : {"unlock"}, from : Nodes, csum : Ids \X Nat]
  <2>1. Handle(n, msg) = Deleted(n)
    BY <1>8, Zenon DEF Handle, HandleUnlock
  <2> QED  BY <2>1, <1>4
<1> QED  BY <1>5, <1>6, <1>7, <1>8, Zenon DEF Messages

-----------------------------------------------------------------------------
\* What a multicast appends to every inbox is messages.
LEMMA MulticastKeepsTypes ==
  ASSUME NEW M, NEW boxes \in [Nodes -> Seq(M)], NEW msgs \in Seq(M)
  PROVE  /\ Multicast(boxes, msgs) \in [Nodes -> Seq(M)]
         /\ \A n \in Nodes : Multicast(boxes, msgs)[n] = boxes[n] \o msgs
<1>1. \A n \in Nodes : boxes[n] \o msgs \in Seq(M)
  OBVIOUS
<1> QED  BY <1>1, Zenon DEF Multicast

\* Nothing has happened to a new cluster.
LEMMA InitExpiry == Init => ExpiryInv
<1> SUFFICES ASSUME Init PROVE ExpiryInv
  BY Zenon
<1>1. made \in Seq(Made) /\ \A n \in Nodes : inbox[n] \in Seq(Messages)
  BY DEF Init
<1>2. inbox \in [Nodes -> Seq(Messages)]
  BY <1>1, Zenon DEF Init
<1>3. lock \in [Nodes -> Locks] /\ cache \in [Nodes -> Caches]
  BY CacheFacts, Zenon DEF Init, Locks
<1> QED  BY <1>1, <1>2, <1>3, Zenon DEF ExpiryInv, Init

\* A request of a client: messages the daemon may send, after made has grown.
LEMMA SendExpiry ==
  ASSUME ExpiryInv, NEW n \in Nodes, NEW msgs, Send(n, msgs),
         made' \in Seq(Made), Len(made) <= Len(made)',
         \A i \in Ids : made[i].age <= made'[i].age,
         msgs \in Seq(Messages')
  PROVE  ExpiryInv'
<1>1. /\ Locks \subseteq Locks' /\ Caches \subseteq Caches'
      /\ \A q \in Seq(Messages) : q \in Seq(Messages')
  BY SetsGrow, Zenon DEF ExpiryInv
<1>2. lock' = lock /\ cache' = cache /\ inbox' = Multicast(inbox, msgs)
      /\ busy' = [busy EXCEPT ![n] = TRUE]
  BY Zenon DEF Send
<1>3. lock' \in [Nodes -> Locks'] /\ cache' \in [Nodes -> Caches'] /\ busy' \in [Nodes -> BOOLEAN]
  BY <1>1, <1>2, Zenon DEF ExpiryInv
<1>4. inbox \in [Nodes -> Seq(Messages')]
  BY <1>1, Zenon DEF ExpiryInv
<1>5. inbox' \in [Nodes -> Seq(Messages')]
  BY <1>2, <1>4, MulticastKeepsTypes, Zenon
<1> QED  BY <1>3, <1>5, Zenon DEF ExpiryInv

\* When made does not change, the sets do not.
LEMMA SetsStay ==
  ASSUME made' = made
  PROVE  /\ Ids' = Ids /\ Locks' = Locks /\ Entries' = Entries /\ Caches' = Caches
         /\ Messages' = Messages
<1>1. Ids' = Ids
  BY Zenon DEF Ids
<1>2. Entries' = Entries
  BY <1>1, Zenon DEF Entries
<1> QED  BY <1>1, <1>2, Zenon DEF Locks, Caches, Messages

\* What a mkdir, rmdir, a renewal and a request to unlock send are messages.
LEMMA RequestsSend ==
  ASSUME ExpiryInv, NEW n \in Nodes,
         Mkdir(n) \/ Rmdir(n) \/ Renew(n) \/ RequestUnlock(n)
  PROVE  /\ \E msgs \in Seq(Messages') : Send(n, msgs)
         /\ made' \in Seq(Made) /\ Len(made) <= Len(made)'
         /\ \A i \in Ids : made[i].age <= made'[i].age
<1>0. made \in Seq(Made) /\ lock[n] \in Locks
  BY Zenon DEF ExpiryInv
<1>1. CASE Mkdir(n)
  <2> DEFINE l == [age |-> 0, by |-> n]
             u == [type |-> "mkdir", from |-> n, id |-> Len(made) + 1]
  <2>1. l \in Made /\ made' = Append(made, l) /\ Send(n, <<u>>)
    BY <1>1, AgeFacts, Zenon DEF Mkdir, Made
  <2> HIDE DEF l
  <2>2. made' \in Seq(Made) /\ Len(made') = Len(made) + 1 /\ Len(made) \in Nat
    BY <2>1, <1>0
  <2>3. \A i \in Ids : made'[i] = made[i]
    BY <2>1, <1>0 DEF Ids
  <2>4. \A i \in Ids : made[i].age <= made'[i].age
    <3>1. \A a \in Ages : a <= a
      BY AgeFacts
    <3> QED  BY <2>3, <3>1, <1>0, MadeFacts, Zenon
  <2>5. u \in Messages'
    <3>1. Len(made) + 1 \in Ids'
      BY <2>2 DEF Ids
    <3> QED  BY <3>1, Zenon DEF Messages
  <2> HIDE DEF u
  <2>6. <<u>> \in Seq(Messages')
    BY <2>5
  <2>7. Len(made) <= Len(made)'
    BY <2>2
  <2> QED  BY <2>1, <2>2, <2>4, <2>6, <2>7, Zenon
<1>2. ASSUME made' = made, NEW msgs \in Seq(Messages), Send(n, msgs)
      PROVE  /\ msgs \in Seq(Messages')
             /\ made' \in Seq(Made) /\ Len(made) <= Len(made)'
             /\ \A i \in Ids : made[i].age <= made'[i].age
  <2>1. \A i \in Ids : made[i].age <= made'[i].age
    <3>1. \A a \in Ages : a <= a
      BY AgeFacts
    <3> QED  BY <3>1, <1>2, <1>0, MadeFacts, Zenon
  <2>2. Len(made) <= Len(made)' /\ made' \in Seq(Made)
    BY <1>0, <1>2, MadeFacts
  <2>3. msgs \in Seq(Messages')
    BY <1>2, SetsStay, Zenon
  <2> QED  BY <2>1, <2>2, <2>3, Zenon
<1>3. CASE Rmdir(n)
  <2> DEFINE u == [type |-> "delete", from |-> n]
  <2>1. u \in Messages
    BY Zenon DEF Messages
  <2>2. Send(n, <<u>>) /\ made' = made
    BY <1>3, Zenon DEF Rmdir
  <2> HIDE DEF u
  <2>3. <<u>> \in Seq(Messages)
    BY <2>1
  <2> QED  BY <2>2, <2>3, <1>2, Zenon
<1>4. CASE Renew(n)
  <2> DEFINE u == [type |-> "mtime", from |-> n, mtime |-> lock[n].mtime + 1]
  <2>1. lock[n] \in [id : Ids, mtime : Nat, writer : {0} \cup Nodes]
    BY <1>0, <1>4, Zenon DEF Locks, Renew
  <2>2. u \in Messages
    BY <2>1 DEF Messages
  <2>3. Send(n, <<u>>) /\ made' = made
    BY <1>4, Zenon DEF Renew
  <2> HIDE DEF u
  <2>4. <<u>> \in Seq(Messages)
    BY <2>2
  <2> QED  BY <2>3, <2>4, <1>2, Zenon
<1>5. CASE RequestUnlock(n)
  <2> DEFINE u == [type |-> "unlockRequest", from |-> n]
             v == [type |-> "mtime", from |-> n, mtime |-> 0]
  <2>1. u \in Messages /\ v \in Messages
    BY Zenon DEF Messages
  <2>2. Send(n, <<u, v>>) /\ made' = made
    BY <1>5, Zenon DEF RequestUnlock
  <2> HIDE DEF u, v
  <2>3. <<u, v>> \in Seq(Messages)
    BY <2>1
  <2> QED  BY <2>2, <2>3, <1>2, Zenon
<1> QED  BY <1>1, <1>3, <1>4, <1>5, Zenon

\* mkdir, rmdir, a renewal and a request to unlock keep the invariant.
LEMMA RequestExpiry ==
  ASSUME ExpiryInv, NEW n \in Nodes,
         Mkdir(n) \/ Rmdir(n) \/ Renew(n) \/ RequestUnlock(n)
  PROVE  ExpiryInv'
BY RequestsSend, SendExpiry, Zenon

\* A node delivers its next message.
LEMMA DeliverExpiry ==
  ASSUME ExpiryInv, NEW n \in Nodes, DeliverMessage(n)
  PROVE  ExpiryInv'
<1> DEFINE msg == Head(inbox[n])
           r == Handle(n, msg)
<1>1. /\ inbox[n] \in Seq(Messages) /\ inbox[n] # <<>>
      /\ made' = made /\ UNCHANGED left
      /\ lock' = [lock EXCEPT ![n] = r.lock] /\ cache' = [cache EXCEPT ![n] = r.cache]
      /\ busy' = [busy EXCEPT ![n] = @ /\ ~ Answers(n, msg)]
      /\ inbox' = Multicast([inbox EXCEPT ![n] = Tail(@)], r.out)
  BY Zenon DEF DeliverMessage, ExpiryInv
<1>2. msg \in Messages /\ Tail(inbox[n]) \in Seq(Messages)
  BY <1>1
<1>3. Outcome(r)
  BY <1>2, HandlersKeepTypes, Zenon
<1> HIDE DEF r, msg
<1>4. lock' \in [Nodes -> Locks] /\ cache' \in [Nodes -> Caches]
  BY <1>1, <1>3, Zenon DEF ExpiryInv, Outcome
<1>5. [inbox EXCEPT ![n] = Tail(@)] \in [Nodes -> Seq(Messages)]
  BY <1>2, Zenon DEF ExpiryInv
<1>6. inbox' \in [Nodes -> Seq(Messages)]
  BY <1>1, <1>3, <1>5, MulticastKeepsTypes, Zenon DEF Outcome
<1>7. busy' \in [Nodes -> BOOLEAN]
  BY <1>1, Zenon DEF ExpiryInv
<1> QED  BY <1>1, <1>4, <1>6, <1>7, SetsStay, Zenon DEF ExpiryInv

\* Time passes: the locks grow older no slower than the entries of the caches.
LEMMA TickExpiry ==
  ASSUME ExpiryInv, Tick
  PROVE  ExpiryInv'
<1>1. /\ made \in [Ids -> Made] /\ DOMAIN made = Ids /\ Len(made) \in Nat
      /\ \A i \in Ids : made[i] \in Made /\ made[i].age \in Ages
  BY MadeFacts, Zenon DEF ExpiryInv
<1>2. made' = [i \in Ids |-> [made[i] EXCEPT !.age = Older(@)]]
  BY <1>1, Zenon DEF Tick
<1>3. \A i \in Ids : made'[i] \in Made /\ made'[i].age = Older(made[i].age)
  BY <1>1, <1>2, AgeFacts, Zenon DEF Made
<1>4. made' \in Seq(Made) /\ Len(made') = Len(made)
  <2>1. made' \in [1..Len(made) -> Made]
    BY <1>2, <1>3, Zenon DEF Ids
  <2>2. made' \in Seq(Made)
    BY <2>1, <1>1, FunctionIsSequence, Zenon
  <2> QED  BY <2>1, <2>2, <1>1
<1>5. \A i \in Ids : made[i].age <= made'[i].age
  BY <1>1, <1>3, AgeFacts, Zenon
<1>6. Len(made) <= Len(made)'
  BY <1>1, <1>4
<1>7. /\ Ids \subseteq Ids' /\ Locks \subseteq Locks'
      /\ \A q \in Seq(Messages) : q \in Seq(Messages')
  BY <1>4, <1>5, <1>6, SetsGrow, Zenon DEF ExpiryInv
<1>8. /\ lock' \in [Nodes -> Locks'] /\ inbox' \in [Nodes -> Seq(Messages')]
      /\ busy' \in [Nodes -> BOOLEAN]
  BY <1>7, Zenon DEF ExpiryInv, Tick
<1>9. ASSUME NEW e \in Entries PROVE [e EXCEPT !.age = Older(@)] \in Entries'
  <2> DEFINE d == [e EXCEPT !.age = Older(@)]
  <2>1. e \in [age : Ages, csum : Ids \X Nat] /\ e.age <= made[e.csum[1]].age
    BY Zenon DEF Entries
  <2>2. /\ d \in [age : Ages, csum : Ids' \X Nat] /\ d.age = Older(e.age) /\ d.csum = e.csum
        /\ e.csum[1] \in Ids /\ e.age \in Ages
    BY <2>1, <1>7, AgeFacts, Zenon
  <2> HIDE DEF d
  <2>3. d.age <= made'[d.csum[1]].age
    BY <2>1, <2>2, <1>1, <1>3, AgeFacts, Zenon
  <2>4. d \in Entries'
    BY <2>2, <2>3, Zenon DEF Entries
  <2> QED  BY <2>4, Zenon DEF d
<1>10. ASSUME NEW m \in Nodes PROVE cache'[m] \in Caches'
  <2>1. cache[m] \in Caches
    BY Zenon DEF ExpiryInv
  <2>2. DOMAIN cache[m] \in SUBSET Spelling /\ \A k \in DOMAIN cache[m] : cache[m][k] \in Entries
    BY <2>1, CacheFacts, Zenon
  <2>3. cache'[m] = [k \in DOMAIN cache[m] |-> [cache[m][k] EXCEPT !.age = Older(@)]]
    BY Zenon DEF Tick
  <2>4. cache'[m] \in [DOMAIN cache[m] -> Entries']
    BY <2>2, <2>3, <1>9, Zenon
  <2> QED  BY <2>2, <2>4, Zenon DEF Caches
<1>11. cache' \in [Nodes -> Caches']
  BY <1>10, Zenon DEF Tick
<1> QED  BY <1>4, <1>8, <1>11, Zenon DEF ExpiryInv

\* A restarted daemon takes the lock it finds for a new one.
LEMMA RestartExpiry ==
  ASSUME ExpiryInv, NEW n \in Nodes, Restart(n)
  PROVE  ExpiryInv'
<1>1. UpdateLocks(lock[n]) \in Caches
  <2>1. lock[n] \in Locks /\ made \in Seq(Made)
    BY Zenon DEF ExpiryInv
  <2>2. CASE lock[n] = NoLock
    BY <2>2, CacheFacts, Zenon DEF UpdateLocks
  <2>3. CASE lock[n] # NoLock
    <3>1. [age |-> 0, csum |-> Checksum(lock[n])] \in Entries
      BY <2>1, <2>3, ChecksumFacts, Zenon
    <3>2. Put(Empty, "relative", [age |-> 0, csum |-> Checksum(lock[n])]) \in Caches
      BY <3>1, CacheFacts, Zenon DEF Spelling
    <3> QED  BY <3>2, <2>3, Zenon DEF UpdateLocks
  <2> QED  BY <2>2, <2>3, Zenon
<1>2. made' = made /\ UNCHANGED <<lock, inbox, busy>>
      /\ cache' = [cache EXCEPT ![n] = UpdateLocks(lock[n])]
  BY Zenon DEF Restart
<1>3. cache' \in [Nodes -> Caches]
  BY <1>1, <1>2, Zenon DEF ExpiryInv
<1> QED  BY <1>2, <1>3, SetsStay, Zenon DEF ExpiryInv

\* Every step keeps the invariant.
LEMMA NextExpiry ==
  ASSUME ExpiryInv, [Next]_vars
  PROVE  ExpiryInv'
<1>1. CASE UNCHANGED vars
  <2>1. made' = made /\ UNCHANGED <<lock, cache, inbox, busy>>
    BY <1>1, Zenon DEF vars
  <2> QED  BY <2>1, SetsStay, Zenon DEF ExpiryInv
<1>2. CASE Next
  BY <1>2, RequestExpiry, DeliverExpiry, TickExpiry, RestartExpiry, Zenon DEF Next
<1> QED  BY <1>1, <1>2, Zenon

\* handle_unlock_request broadcasts an Unlock only for a lock that has been there
\* for longer than LOCK_TIMEOUT, however many nodes ask, whatever the caches
\* remember of earlier locks and however often daemons are restarted.
THEOREM UnlocksAreDue == Spec => []OnlyExpiredIsUnlocked
<1>1. ExpiryInv => OnlyExpiredIsUnlocked
  <2> SUFFICES ASSUME ExpiryInv, NEW n \in Nodes, NEW i \in DOMAIN inbox[n],
                      inbox[n][i].type = "unlock"
               PROVE  made[inbox[n][i].csum[1]].age > LockTimeout
    BY Zenon DEF OnlyExpiredIsUnlocked
  <2>1. inbox[n] \in Seq(Messages)
    BY Zenon DEF ExpiryInv
  <2>2. inbox[n][i] \in Messages
    BY <2>1, SequenceFacts, Zenon
  <2> QED  BY <2>2, Zenon DEF Messages
<1>2. ExpiryInv /\ [Next]_vars => ExpiryInv'
  BY NextExpiry, Zenon
<1> QED  BY <1>1, <1>2, InitExpiry, PTL DEF Spec

-----------------------------------------------------------------------------
(***************************************************************************)
(* Agreement.                                                              *)
(***************************************************************************)

AnyLock == [id : Nat, mtime : Nat, writer : Nat]

\* What a message does to the lock directory, on whichever node.
Effect(l, msg) ==
  CASE msg.type = "mkdir" -> IF l = NoLock THEN [id |-> msg.id, mtime |-> 1, writer |-> 0] ELSE l
    [] msg.type \in {"delete", "unlock"} -> NoLock
    [] msg.type = "mtime" -> IF l # NoLock /\ msg.mtime >= l.mtime /\ msg.from = l.writer
                             THEN [l EXCEPT !.mtime = msg.mtime, !.writer = msg.from] ELSE l
    [] OTHER -> l

\* f gives the lock of a node, l to begin with, after each of the first d messages
\* of its inbox q.
IsReplay(f, d, l, q, k) ==
  /\ f \in [0..d -> AnyLock]
  /\ f[0] = l /\ f[d] = k
  /\ \A i \in 1..d : f[i] = Effect(f[i - 1], q[i])

\* A node with lock l and inbox q comes to lock k and inbox r when it has
\* delivered d messages.
ReplaysIn(d, l, q, k, r) ==
  /\ d >= 0
  /\ \A i \in 1..Len(r) : r[i] = q[d + i]
  /\ \E f : IsReplay(f, d, l, q, k)

Replays(l, q, k, r) == ReplaysIn(Len(q) - Len(r), l, q, k, r)

ReplayInv ==
  \A n, m \in Nodes :
    Len(inbox[n]) <= Len(inbox[m]) => Replays(lock[m], inbox[m], lock[n], inbox[n])

\* A node is where it is.
LEMMA ReplayNothing ==
  ASSUME NEW M, NEW q \in Seq(M), NEW l \in AnyLock
  PROVE  Replays(l, q, l, q)
<1>1. Len(q) \in Nat /\ Len(q) - Len(q) = 0
  OBVIOUS
<1> DEFINE f == [i \in 0..0 |-> l]
<1>2. f \in [0..0 -> AnyLock] /\ f[0] = l
  OBVIOUS
<1>3. \A i \in 1..Len(q) : q[i] = q[0 + i]
  BY <1>1
<1> HIDE DEF f
<1>4. \A i \in 1..0 : f[i] = Effect(f[i - 1], q[i])
  OBVIOUS
<1>5. IsReplay(f, 0, l, q, l)
  BY <1>2, <1>4, Zenon DEF IsReplay
<1>6. ReplaysIn(0, l, q, l, q)
  BY <1>3, <1>5 DEF ReplaysIn
<1> QED  BY <1>1, <1>6, Zenon DEF Replays

\* Two nodes with as many messages to deliver have the same ones, and the same lock.
LEMMA ReplaySame ==
  ASSUME NEW M, NEW q \in Seq(M), NEW r \in Seq(M), NEW l, NEW k,
         Len(q) = Len(r), Replays(l, q, k, r)
  PROVE  l = k /\ q = r
<1>1. Len(q) \in Nat /\ Len(q) - Len(r) = 0
  OBVIOUS
<1>2. l = k
  BY <1>1, Zenon DEF Replays, ReplaysIn, IsReplay
<1>3. \A i \in 1..Len(r) : r[i] = q[0 + i]
  BY <1>1, Zenon DEF Replays, ReplaysIn
<1>4. \A i \in 1..Len(q) : q[i] = r[i]
  BY <1>3
<1> QED  BY <1>2, <1>4, SameElements, Zenon

\* Both nodes receive more messages.
LEMMA ReplayGrows ==
  ASSUME NEW M, NEW q \in Seq(M), NEW r \in Seq(M), NEW s \in Seq(M), NEW l, NEW k,
         Replays(l, q, k, r)
  PROVE  Replays(l, q \o s, k, r \o s)
<1> DEFINE d == Len(q) - Len(r)
<1>1. /\ Len(q) \in Nat /\ Len(r) \in Nat /\ Len(s) \in Nat
      /\ Len(q \o s) = Len(q) + Len(s) /\ Len(r \o s) = Len(r) + Len(s)
  OBVIOUS
<1>2. Len(q \o s) - Len(r \o s) = d /\ d >= 0 /\ d \in Nat
  BY <1>1 DEF Replays, ReplaysIn
<1>p. PICK f : IsReplay(f, d, l, q, k)
  BY Zenon DEF Replays, ReplaysIn
<1>3. /\ f \in [0..d -> AnyLock] /\ f[0] = l /\ f[d] = k
      /\ \A i \in 1..d : f[i] = Effect(f[i - 1], q[i])
  BY <1>p, Zenon DEF IsReplay
<1>4. \A i \in 1..d : i \in 1..Len(q)
  BY <1>1
<1>5. \A i \in 1..d : (q \o s)[i] = q[i]
  BY <1>4
<1>6. ASSUME NEW i \in 1..Len(r \o s) PROVE (r \o s)[i] = (q \o s)[d + i]
  <2>1. CASE i \in 1..Len(r)
    <3>1. r[i] = q[d + i] /\ d + i \in 1..Len(q)
      BY <2>1, <1>1, <1>2 DEF Replays, ReplaysIn
    <3> QED  BY <2>1, <3>1
  <2>2. CASE i \notin 1..Len(r)
    <3>1. i - Len(r) \in 1..Len(s) /\ (d + i) - Len(q) = i - Len(r) /\ d + i \in 1..Len(q \o s)
          /\ i > Len(r) /\ d + i > Len(q)
      BY <2>2, <1>1, <1>2
    <3>2. (r \o s)[i] = s[i - Len(r)]
      BY <3>1, <1>1
    <3>3. (q \o s)[d + i] = s[(d + i) - Len(q)]
      BY <3>1, <1>1
    <3> QED  BY <3>1, <3>2, <3>3, Zenon
  <2> QED  BY <2>1, <2>2, Zenon
<1> HIDE DEF d
<1>7. IsReplay(f, d, l, q \o s, k)
  BY <1>3, <1>5, Zenon DEF IsReplay
<1>8. ReplaysIn(d, l, q \o s, k, r \o s)
  BY <1>2, <1>6, <1>7, Zenon DEF ReplaysIn
<1> QED  BY <1>2, <1>8, Zenon DEF Replays

\* The node that is ahead delivers one more.
LEMMA ReplayAhead ==
  ASSUME NEW M, NEW q \in Seq(M), NEW r \in Seq(M), r # <<>>, NEW l, NEW k,
         Replays(l, q, k, r), Effect(k, Head(r)) \in AnyLock
  PROVE  Replays(l, q, Effect(k, Head(r)), Tail(r))
<1> DEFINE d == Len(q) - Len(r)
           e == Effect(k, Head(r))
<1>1. /\ Len(q) \in Nat /\ Len(r) \in Nat \ {0} /\ Len(Tail(r)) = Len(r) - 1
      /\ \A i \in 1..Len(Tail(r)) : Tail(r)[i] = r[i + 1]
  OBVIOUS
<1>2. Len(q) - Len(Tail(r)) = d + 1 /\ d \in Nat
  BY <1>1 DEF Replays, ReplaysIn
<1>p. PICK f : IsReplay(f, d, l, q, k)
  BY Zenon DEF Replays, ReplaysIn
<1>3. /\ f \in [0..d -> AnyLock] /\ f[0] = l /\ f[d] = k
      /\ \A i \in 1..d : f[i] = Effect(f[i - 1], q[i])
  BY <1>p, Zenon DEF IsReplay
<1>4. q[d + 1] = Head(r)
  BY <1>1 DEF Replays, ReplaysIn
<1>5. \A i \in 1..Len(Tail(r)) : Tail(r)[i] = q[(d + 1) + i]
  <2> TAKE i \in 1..Len(Tail(r))
  <2>1. i + 1 \in 1..Len(r) /\ d + (i + 1) = (d + 1) + i
    BY <1>1, <1>2
  <2> QED  BY <2>1, <1>1, Zenon DEF Replays, ReplaysIn
<1> HIDE DEF d, e
<1> DEFINE g == [i \in 0..(d + 1) |-> IF i = d + 1 THEN e ELSE f[i]]
<1>6. g \in [0..(d + 1) -> AnyLock]
  BY <1>2, <1>3 DEF e
<1>7. g[0] = l /\ g[d + 1] = e /\ g[d] = k /\ \A i \in 0..d : g[i] = f[i]
  BY <1>2, <1>3
<1> HIDE DEF g
<1>8. ASSUME NEW i \in 1..(d + 1) PROVE g[i] = Effect(g[i - 1], q[i])
  <2>1. CASE i = d + 1
    <3>1. i - 1 = d
      BY <2>1, <1>2
    <3> QED  BY <2>1, <3>1, <1>4, <1>7, Zenon DEF e
  <2>2. CASE i # d + 1
    <3>1. i \in 1..d /\ i \in 0..d /\ i - 1 \in 0..d
      BY <2>2, <1>2
    <3> QED  BY <3>1, <1>3, <1>7, Zenon
  <2> QED  BY <2>1, <2>2, Zenon
<1>9. Replays(l, q, e, Tail(r))
  <2>1. d + 1 >= 0
    BY <1>2
  <2>2. IsReplay(g, d + 1, l, q, e)
    BY <1>6, <1>7, <1>8, Zenon DEF IsReplay
  <2>3. ReplaysIn(d + 1, l, q, e, Tail(r))
    BY <2>1, <2>2, <1>5, Zenon DEF ReplaysIn
  <2> QED  BY <2>3, <1>2, Zenon DEF Replays
<1> QED  BY <1>9, Zenon DEF e

\* The node that is behind delivers one.
LEMMA ReplayBehind ==
  ASSUME NEW M, NEW q \in Seq(M), NEW r \in Seq(M), Len(r) < Len(q), NEW l, NEW k,
         Replays(l, q, k, r)
  PROVE  Replays(Effect(l, Head(q)), Tail(q), k, r)
<1> DEFINE d == Len(q) - Len(r)
<1>1. /\ Len(q) \in Nat \ {0} /\ Len(r) \in Nat /\ Len(Tail(q)) = Len(q) - 1
      /\ q # <<>> /\ \A i \in 1..Len(Tail(q)) : Tail(q)[i] = q[i + 1]
  OBVIOUS
<1>2. Len(Tail(q)) - Len(r) = d - 1 /\ d \in Nat \ {0}
  BY <1>1
<1>p. PICK f : IsReplay(f, d, l, q, k)
  BY Zenon DEF Replays, ReplaysIn
<1>3. /\ f \in [0..d -> AnyLock] /\ f[0] = l /\ f[d] = k
      /\ \A i \in 1..d : f[i] = Effect(f[i - 1], q[i])
  BY <1>p, Zenon DEF IsReplay
<1>4. \A i \in 1..Len(r) : r[i] = Tail(q)[(d - 1) + i]
  <2> TAKE i \in 1..Len(r)
  <2>1. (d - 1) + i \in 1..Len(Tail(q)) /\ ((d - 1) + i) + 1 = d + i
    BY <1>1, <1>2
  <2> QED  BY <2>1, <1>1, Zenon DEF Replays, ReplaysIn
<1>5. \A i \in 1..(d - 1) : Tail(q)[i] = q[i + 1]
  BY <1>1
<1>6. q[1] = Head(q)
  BY <1>1
<1> HIDE DEF d
<1> DEFINE g == [i \in 0..(d - 1) |-> f[i + 1]]
<1>7. g \in [0..(d - 1) -> AnyLock]
  BY <1>2, <1>3
<1>8. g[0] = f[1] /\ g[d - 1] = k /\ \A i \in 0..(d - 1) : g[i] = f[i + 1]
  BY <1>2, <1>3
<1> HIDE DEF g
<1>9. f[1] = Effect(l, Head(q))
  BY <1>2, <1>3, <1>6
<1>10. ASSUME NEW i \in 1..(d - 1) PROVE g[i] = Effect(g[i - 1], Tail(q)[i])
  <2>1. i \in 0..(d - 1) /\ i - 1 \in 0..(d - 1) /\ (i - 1) + 1 = i /\ i + 1 \in 1..d
        /\ (i + 1) - 1 = i
    BY <1>2
  <2>2. f[i + 1] = Effect(f[i], q[i + 1])
    BY <2>1, <1>3, Zenon
  <2> QED  BY <2>1, <2>2, <1>5, <1>8, Zenon
<1>11. d - 1 >= 0
  BY <1>2
<1>12. IsReplay(g, d - 1, Effect(l, Head(q)), Tail(q), k)
  BY <1>7, <1>8, <1>9, <1>10, Zenon DEF IsReplay
<1>13. ReplaysIn(d - 1, Effect(l, Head(q)), Tail(q), k, r)
  BY <1>4, <1>11, <1>12, Zenon DEF ReplaysIn
<1> QED  BY <1>2, <1>13, Zenon DEF Replays

\* A handler changes the lock as Effect says: no handler looks at anything of the
\* node but its lock, and the leader's answer does not change the lock.
LEMMA HandleEffect ==
  ASSUME NEW n, NEW msg \in Messages
  PROVE  Handle(n, msg).lock = Effect(lock[n], msg)
<1>1. msg.type \in {"mkdir", "delete", "mtime", "unlockRequest", "unlock"}
  BY Zenon DEF Messages
<1>2. CASE msg.type = "mkdir"
  BY <1>2, Zenon DEF Handle, HandleMkdir, Effect, Result
<1>3. CASE msg.type = "delete"
  BY <1>3, Zenon DEF Handle, Deleted, Effect, Result
<1>4. CASE msg.type = "unlock"
  BY <1>4, Zenon DEF Handle, HandleUnlock, Deleted, Effect, Result
<1>5. CASE msg.type = "mtime"
  BY <1>5, Zenon DEF Handle, HandleMtime, Effect, Result
<1>6. CASE msg.type = "unlockRequest"
  BY <1>6, Zenon DEF Handle, HandleUnlockRequest, Effect, Result
<1> QED  BY <1>1, <1>2, <1>3, <1>4, <1>5, <1>6, Zenon

\* The locks of nodes are locks.
LEMMA LocksAreLocks ==
  ASSUME ExpiryInv
  PROVE  Locks \subseteq AnyLock
<1>1. \A i \in Ids : i \in Nat
  BY MadeFacts DEF Ids, ExpiryInv
<1>2. \A n \in Nodes : n \in Nat
  BY LockAssumption, Zenon DEF LockAssumption
<1>3. NoLock \in AnyLock
  BY Zenon DEF AnyLock, NoLock
<1>4. ASSUME NEW l \in [id : Ids, mtime : Nat, writer : {0} \cup Nodes] PROVE l \in AnyLock
  <2>1. l.id \in Nat /\ l.mtime \in Nat /\ l.writer \in Nat
    BY <1>1, <1>2
  <2> QED  BY <2>1, Zenon DEF AnyLock
<1> QED  BY <1>3, <1>4, Zenon DEF Locks

\* Everybody starts with nothing.
LEMMA InitReplay == Init => ReplayInv
<1> SUFFICES ASSUME Init, NEW n \in Nodes, NEW m \in Nodes
             PROVE  Replays(lock[m], inbox[m], lock[n], inbox[n])
  BY Zenon DEF ReplayInv
<1>1. inbox[m] = <<>> /\ inbox[n] = <<>> /\ lock[m] = NoLock /\ lock[n] = NoLock
  BY Zenon DEF Init
<1>2. NoLock \in AnyLock /\ <<>> \in Seq(Nat)
  BY DEF NoLock, AnyLock
<1> QED  BY <1>1, <1>2, ReplayNothing, Zenon

\* Messages that all nodes receive.
LEMMA MulticastReplay ==
  ASSUME NEW M, NEW boxes \in [Nodes -> Seq(M)], NEW msgs \in Seq(M), NEW locks,
         \A n, m \in Nodes :
           Len(boxes[n]) <= Len(boxes[m]) => Replays(locks[m], boxes[m], locks[n], boxes[n]),
         NEW n \in Nodes, NEW m \in Nodes,
         Len(Multicast(boxes, msgs)[n]) <= Len(Multicast(boxes, msgs)[m])
  PROVE  Replays(locks[m], Multicast(boxes, msgs)[m], locks[n], Multicast(boxes, msgs)[n])
<1>1. /\ Multicast(boxes, msgs)[n] = boxes[n] \o msgs
      /\ Multicast(boxes, msgs)[m] = boxes[m] \o msgs
  BY MulticastKeepsTypes, Zenon
<1>2. boxes[n] \in Seq(M) /\ boxes[m] \in Seq(M)
  BY Zenon
<1>3. Len(boxes[n]) <= Len(boxes[m])
  BY <1>1, <1>2
<1> QED  BY <1>1, <1>2, <1>3, ReplayGrows, Zenon

\* A request of a client reaches all nodes.
LEMMA SendReplay ==
  ASSUME ExpiryInv, ReplayInv, ExpiryInv', NEW x \in Nodes, NEW msgs, Send(x, msgs),
         msgs \in Seq(Messages')
  PROVE  ReplayInv'
<1> DEFINE M == Messages \cup Messages'
<1>1. inbox' = Multicast(inbox, msgs) /\ lock' = lock
  BY Zenon DEF Send
<1>2. \A n \in Nodes : inbox[n] \in Seq(M)
  <2>1. ASSUME NEW n \in Nodes PROVE inbox[n] \in Seq(M)
    <3>1. inbox[n] \in Seq(Messages) /\ Messages \subseteq M
      BY Zenon DEF ExpiryInv
    <3> HIDE DEF M
    <3> QED  BY <3>1, WiderSequence, Zenon
  <2> QED  BY <2>1, Zenon
<1>3. msgs \in Seq(M)
  <2>1. Messages' \subseteq M
    BY Zenon
  <2> HIDE DEF M
  <2> QED  BY <2>1, WiderSequence, Zenon
<1> HIDE DEF M
<1>4. inbox \in [Nodes -> Seq(M)]
  BY <1>2, Zenon DEF ExpiryInv
<1> QED  BY <1>1, <1>3, <1>4, MulticastReplay, Zenon DEF ReplayInv

\* A node delivers a message: it moves on in its replay, before its answer, if it
\* has one, reaches all inboxes.
LEMMA DeliverReplay ==
  ASSUME ExpiryInv, ReplayInv, NEW x \in Nodes, DeliverMessage(x)
  PROVE  ReplayInv'
<1> DEFINE msg == Head(inbox[x])
           out == Handle(x, msg).out
           mid == [inbox EXCEPT ![x] = Tail(@)]
           e == Effect(lock[x], msg)
<1>1. /\ inbox \in [Nodes -> Seq(Messages)] /\ lock \in [Nodes -> Locks]
      /\ inbox[x] # <<>> /\ inbox[x] \in Seq(Messages)
  BY Zenon DEF ExpiryInv, DeliverMessage
<1>2. msg \in Messages /\ Tail(inbox[x]) \in Seq(Messages)
  BY <1>1
<1>3. Outcome(Handle(x, msg)) /\ Handle(x, msg).lock = e
  BY <1>2, HandlersKeepTypes, HandleEffect, Zenon
<1>4. inbox' = Multicast(mid, out) /\ lock' = [lock EXCEPT ![x] = e]
  BY <1>3, Zenon DEF DeliverMessage
<1>5. out \in Seq(Messages) /\ e \in AnyLock /\ \A n \in Nodes : lock[n] \in AnyLock
  BY <1>1, <1>3, LocksAreLocks, Zenon DEF Outcome
<1>6. mid \in [Nodes -> Seq(Messages)]
  BY <1>1, <1>2, Zenon
<1>7. mid[x] = Tail(inbox[x]) /\ \A n \in Nodes : n # x => mid[n] = inbox[n]
  BY <1>1, Zenon
<1>8. lock'[x] = e /\ \A n \in Nodes : n # x => lock'[n] = lock[n]
  BY <1>1, <1>4, Zenon
<1>9. Len(inbox[x]) \in Nat \ {0} /\ Len(mid[x]) = Len(inbox[x]) - 1
      /\ \A n \in Nodes : Len(inbox[n]) \in Nat /\ inbox[n] \in Seq(Messages)
  BY <1>1, <1>7
<1> HIDE DEF mid, out, e
<1>10. ASSUME NEW n \in Nodes, NEW m \in Nodes, Len(mid[n]) <= Len(mid[m])
       PROVE  Replays(lock'[m], mid[m], lock'[n], mid[n])
  <2>1. CASE n = m
    <3>1. lock'[n] \in AnyLock /\ mid[n] \in Seq(Messages)
      BY <1>5, <1>6, <1>8, Zenon
    <3> QED  BY <2>1, <3>1, ReplayNothing, Zenon
  <2>2. CASE n # x /\ m # x
    BY <2>2, <1>7, <1>8, <1>10, Zenon DEF ReplayInv
  <2>3. CASE n = x /\ m # x
    <3>1. CASE Len(inbox[x]) <= Len(inbox[m])
      <4>1. Replays(lock[m], inbox[m], lock[x], inbox[x])
        BY <3>1, Zenon DEF ReplayInv
      <4>2. Replays(lock[m], inbox[m], e, Tail(inbox[x]))
        BY <4>1, <1>1, <1>5, <1>9, ReplayAhead, Zenon DEF e
      <4> QED  BY <4>2, <2>3, <1>7, <1>8, Zenon
    <3>2. CASE ~(Len(inbox[x]) <= Len(inbox[m]))
      <4>1. Len(inbox[m]) < Len(inbox[x]) /\ Len(Tail(inbox[x])) = Len(inbox[m])
        BY <3>2, <2>3, <1>7, <1>9, <1>10
      <4>2. Replays(lock[x], inbox[x], lock[m], inbox[m])
        BY <4>1, <1>9 DEF ReplayInv
      <4>3. Replays(e, Tail(inbox[x]), lock[m], inbox[m])
        BY <4>1, <4>2, <1>9, ReplayBehind, Zenon DEF e
      <4>4. e = lock[m] /\ Tail(inbox[x]) = inbox[m]
        BY <4>1, <4>3, <1>2, <1>9, ReplaySame, Zenon
      <4>5. Replays(lock[m], inbox[m], lock[m], inbox[m])
        BY <1>5, <1>9, ReplayNothing, Zenon
      <4> QED  BY <4>4, <4>5, <2>3, <1>7, <1>8, Zenon
    <3> QED  BY <3>1, <3>2, Zenon
  <2>4. CASE n # x /\ m = x
    <3>1. Len(inbox[n]) < Len(inbox[x]) /\ Len(inbox[n]) <= Len(inbox[x])
      BY <2>4, <1>7, <1>9, <1>10
    <3>2. Replays(lock[x], inbox[x], lock[n], inbox[n])
      BY <3>1, Zenon DEF ReplayInv
    <3>3. Replays(e, Tail(inbox[x]), lock[n], inbox[n])
      BY <3>1, <3>2, <1>9, ReplayBehind, Zenon DEF e
    <3> QED  BY <3>3, <2>4, <1>7, <1>8, Zenon
  <2> QED  BY <2>1, <2>2, <2>3, <2>4, Zenon
<1>11. ASSUME NEW n \in Nodes, NEW m \in Nodes, Len(inbox'[n]) <= Len(inbox'[m])
       PROVE  Replays(lock'[m], inbox'[m], lock'[n], inbox'[n])
  BY <1>4, <1>5, <1>6, <1>10, <1>11, MulticastReplay, Zenon
<1> QED  BY <1>11, Zenon DEF ReplayInv

\* Every step keeps the invariant.
LEMMA NextReplay ==
  ASSUME ExpiryInv, ReplayInv, ExpiryInv', [Next]_vars
  PROVE  ReplayInv'
<1>1. ASSUME UNCHANGED <<lock, inbox>> PROVE ReplayInv'
  BY <1>1, Zenon DEF ReplayInv
<1>2. ASSUME NEW n \in Nodes, Mkdir(n) \/ Rmdir(n) \/ Renew(n) \/ RequestUnlock(n)
      PROVE  ReplayInv'
  <2>1. PICK msgs \in Seq(Messages') : Send(n, msgs)
    BY <1>2, RequestsSend, Zenon
  <2> QED  BY <2>1, SendReplay, Zenon
<1>3. ASSUME NEW n \in Nodes, DeliverMessage(n) PROVE ReplayInv'
  BY <1>3, DeliverReplay, Zenon
<1>4. CASE UNCHANGED vars
  BY <1>1, <1>4, Zenon DEF vars
<1>5. CASE Tick
  BY <1>1, <1>5, Zenon DEF Tick
<1>6. ASSUME NEW n \in Nodes, Restart(n) PROVE ReplayInv'
  BY <1>1, <1>6, Zenon DEF Restart
<1> QED  BY <1>2, <1>3, <1>4, <1>5, <1>6, Zenon DEF Next

\* Nodes that have delivered the same messages have the same lock directory,
\* whichever node leads, however far the others are behind, and though every
\* node keeps a lock cache of its own.
THEOREM NodesAgreeOnLocks == Spec => []LocksAgree
<1>1. ExpiryInv /\ ReplayInv => LocksAgree
  <2> SUFFICES ASSUME ExpiryInv, ReplayInv, NEW n \in Nodes, NEW m \in Nodes, inbox[n] = inbox[m]
               PROVE  lock[n] = lock[m]
    BY Zenon DEF LocksAgree
  <2>1. inbox[n] \in Seq(Messages) /\ inbox[m] \in Seq(Messages)
    BY Zenon DEF ExpiryInv
  <2>2. Replays(lock[m], inbox[m], lock[n], inbox[n])
    BY <2>1 DEF ReplayInv
  <2> QED  BY <2>1, <2>2, ReplaySame, Zenon
<1>2. ExpiryInv /\ [Next]_vars => ExpiryInv'
  BY NextExpiry
<1>3. ExpiryInv /\ ReplayInv /\ ExpiryInv' /\ [Next]_vars => ReplayInv'
  BY NextReplay, Zenon
<1> QED  BY <1>1, <1>2, <1>3, InitExpiry, InitReplay, PTL DEF Spec
=============================================================================
