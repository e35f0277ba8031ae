------------------------------- MODULE LockDirs -------------------------------
(***************************************************************************)
(* Lock directories: a client takes a cluster lock by creating a directory *)
(* under priv/lock, renews it by setting its mtime, releases it by         *)
(* removing it, and asks for somebody else's lock by setting the mtime to  *)
(* zero.  The leader answers such a request by broadcasting an Unlock once *)
(* it has seen the same lock for longer than LOCK_TIMEOUT.                 *)
(*                                                                         *)
(* The module follows one lock in a group whose members stay synced:       *)
(* messages reach all nodes in one order, each node at its own pace (how   *)
(* that order comes about is the subject of Dfsm).  The lock cache of      *)
(* locks.rs is kept per node.  Its keys are paths as strings: lock_expired *)
(* and update_locks spell them priv/lock/<name> ("relative"), while        *)
(* set_mtime and delete use the path of the message, which FUSE spells     *)
(* /priv/lock/<name> ("absolute").                                         *)
(*                                                                         *)
(* Times only matter as differences: the cache keeps the age of an entry   *)
(* in ticks, up to the first value past LOCK_TIMEOUT.                      *)
(***************************************************************************)
EXTENDS Integers, Sequences

CONSTANTS Nodes,        \* node identifiers, positive integers; the lowest leads
          LockTimeout,  \* LOCK_TIMEOUT in ticks
          MaxLocks,     \* bounds of the model: locks created,
          MaxRenewals,  \*   renewals,
          MaxRestarts,  \*   restarts of daemons,
          MaxBacklog    \*   messages a node has still to deliver

VARIABLES lock,      \* node -> the lock directory in its database
          cache,     \* node -> (spelling -> what the lock cache says)
          inbox,     \* node -> messages ordered and not yet delivered
          busy,      \* node -> its FUSE client waits for its message
          made,      \* every lock asked for: its age and who asked (auxiliary)
          left       \* renewals and restarts the bounds still allow

vars == <<lock, cache, inbox, busy, made, left>>

ASSUME LockAssumption ==
  /\ Nodes \subseteq Nat \ {0} /\ Nodes # {}
  /\ LockTimeout \in Nat \ {0}
  /\ {MaxLocks, MaxRenewals, MaxRestarts, MaxBacklog} \subseteq Nat

NoLock == [id |-> 0, mtime |-> 0, writer |-> 0]
Ages == 0 .. LockTimeout + 1
Older(a) == IF a > LockTimeout THEN a ELSE a + 1
Spelling == {"relative", "absolute"}

Empty == [x \in {} |-> x]
Put(f, k, v) == [x \in DOMAIN f \cup {k} |-> IF x = k THEN v ELSE f[x]]
Drop(f, k) == [x \in DOMAIN f \ {k} |-> f[x]]

IsLeader(n) == \A m \in Nodes : n <= m

\* compute_checksum covers the inode, which stands for the lock, and the mtime.
Checksum(l) == <<l.id, l.mtime>>

Multicast(boxes, msgs) == [m \in Nodes |-> boxes[m] \o msgs]

Init ==
  /\ lock = [n \in Nodes |-> NoLock]
  /\ cache = [n \in Nodes |-> Empty]
  /\ inbox = [n \in Nodes |-> <<>>]
  /\ busy = [n \in Nodes |-> FALSE]
  /\ made = <<>>
  /\ left = [renew |-> MaxRenewals, restart |-> MaxRestarts]

-----------------------------------------------------------------------------
\* Requests of FUSE clients; a client waits for its message to be delivered.

Send(n, msgs) ==
  /\ ~ busy[n] /\ \A m \in Nodes : Len(inbox[m]) <= MaxBacklog
  /\ busy' = [busy EXCEPT ![n] = TRUE]
  /\ inbox' = Multicast(inbox, msgs)
  /\ UNCHANGED <<lock, cache>>

Mkdir(n) ==
  /\ Len(made) < MaxLocks
  /\ Send(n, <<[type |-> "mkdir", from |-> n, id |-> Len(made) + 1]>>)
  /\ made' = Append(made, [age |-> 0, by |-> n])
  /\ UNCHANGED left

Rmdir(n) == Send(n, <<[type |-> "delete", from |-> n]>>) /\ UNCHANGED <<made, left>>

\* handle_setattr with a new mtime ...
Renew(n) ==
  /\ lock[n] # NoLock /\ left.renew > 0
  /\ Send(n, <<[type |-> "mtime", from |-> n, mtime |-> lock[n].mtime + 1]>>)
  /\ left' = [left EXCEPT !.renew = @ - 1]
  /\ UNCHANGED made

\* ... and with mtime zero: the request, and the mtime as for any other file.
RequestUnlock(n) ==
  /\ lock[n] # NoLock
  /\ Send(n, <<[type |-> "unlockRequest", from |-> n],
               [type |-> "mtime", from |-> n, mtime |-> 0]>>)
  /\ UNCHANGED <<made, left>>

-----------------------------------------------------------------------------
\* Delivery.  Each handler gives the lock and the cache of the node after it,
\* and what it broadcasts.

Result(l, c, out) == [lock |-> l, cache |-> c, out |-> out]

\* handle_mkdir.  The lock belongs to writer 0 whoever sent the message, and the
\* cache gets no entry: create compares the parent /priv/lock with priv/lock.
HandleMkdir(n, msg) ==
  Result(IF lock[n] = NoLock THEN [id |-> msg.id, mtime |-> 1, writer |-> 0] ELSE lock[n],
         cache[n], <<>>)

\* delete, which drops the cache entry under the path of the message.
Deleted(n) ==
  IF lock[n] = NoLock THEN Result(NoLock, cache[n], <<>>)
                      ELSE Result(NoLock, Drop(cache[n], "absolute"), <<>>)

\* set_mtime for a lock directory.
HandleMtime(n, msg) ==
  LET l == [lock[n] EXCEPT !.mtime = msg.mtime, !.writer = msg.from]
  IN  IF lock[n] # NoLock /\ msg.mtime >= lock[n].mtime /\ msg.from = lock[n].writer
      THEN Result(l, Put(cache[n], "absolute", [age |-> 0, csum |-> Checksum(l)]), <<>>)
      ELSE Result(lock[n], cache[n], <<>>)

\* Mutants of LockExpired: the checksum is not compared; every request starts
\* the timeout again.
LockExpired_AnyLock(c, csum) ==
  IF "relative" \in DOMAIN c
  THEN [cache |-> c, expired |-> c["relative"].age > LockTimeout]
  ELSE [cache |-> Put(c, "relative", [age |-> 0, csum |-> csum]), expired |-> FALSE]

LockExpired_Touches(c, csum) ==
  [cache |-> Put(c, "relative", [age |-> 0, csum |-> csum]),
   expired |-> "relative" \in DOMAIN c /\ c["relative"] = [age |-> LockTimeout + 1, csum |-> csum]]

\* lock_expired: the cache after the call, and its answer.
LockExpired(c, csum) ==
  IF "relative" \in DOMAIN c /\ c["relative"].csum = csum
  THEN [cache |-> c, expired |-> c["relative"].age > LockTimeout]
  ELSE [cache |-> Put(c, "relative", [age |-> 0, csum |-> csum]), expired |-> FALSE]

\* handle_unlock_request.  The Unlock names the path only; the checksum in the
\* model's message is auxiliary and records which lock the leader found expired.
HandleUnlockRequest(n, msg) ==
  LET x == LockExpired(cache[n], Checksum(lock[n]))
  IN  IF ~ IsLeader(n) \/ lock[n] = NoLock
      THEN Result(lock[n], cache[n], <<>>)
      ELSE Result(lock[n], x.cache,
                  IF x.expired
                  THEN <<[type |-> "unlock", from |-> n, csum |-> Checksum(lock[n])]>>
                  ELSE <<>>)

\* Mutant: only the leader, which sent the Unlock, deletes.
HandleUnlock_LeaderOnly(n, msg) ==
  IF IsLeader(n) THEN Deleted(n) ELSE Result(lock[n], cache[n], <<>>)

\* handle_unlock.
HandleUnlock(n, msg) == Deleted(n)

Handle(n, msg) ==
  CASE msg.type = "mkdir" -> HandleMkdir(n, msg)
    [] msg.type = "delete" -> Deleted(n)
    [] msg.type = "mtime" -> HandleMtime(n, msg)
    [] msg.type = "unlockRequest" -> HandleUnlockRequest(n, msg)
    [] msg.type = "unlock" -> HandleUnlock(n, msg)

\* The client of the sender has its answer.
Answers(n, msg) == msg.from = n /\ msg.type \in {"mkdir", "delete", "mtime"}

DeliverMessage(n) ==
  /\ inbox[n] # <<>>
  /\ LET msg == Head(inbox[n])
         r == Handle(n, msg)
     IN  /\ lock' = [lock EXCEPT ![n] = r.lock]
         /\ cache' = [cache EXCEPT ![n] = r.cache]
         /\ busy' = [busy EXCEPT ![n] = @ /\ ~ Answers(n, msg)]
         /\ inbox' = Multicast([inbox EXCEPT ![n] = Tail(@)], r.out)
  /\ UNCHANGED <<made, left>>

-----------------------------------------------------------------------------
\* Time and restarts.

Tick ==
  /\ cache' = [n \in Nodes |-> [k \in DOMAIN cache[n] |->
                                  [cache[n][k] EXCEPT !.age = Older(@)]]]
  /\ made' = [i \in DOMAIN made |-> [made[i] EXCEPT !.age = Older(@)]]
  /\ <<cache, made>>' # <<cache, made>>
  /\ UNCHANGED <<lock, inbox, busy, left>>

\* update_locks on an empty cache, when the database is opened.
UpdateLocks(l) ==
  IF l = NoLock THEN Empty ELSE Put(Empty, "relative", [age |-> 0, csum |-> Checksum(l)])

\* A daemon restarts between two requests of its clients.
Restart(n) ==
  /\ left.restart > 0 /\ ~ busy[n]
  /\ left' = [left EXCEPT !.restart = @ - 1]
  /\ cache' = [cache EXCEPT ![n] = UpdateLocks(lock[n])]
  /\ UNCHANGED <<lock, inbox, busy, made>>

Next ==
  \/ \E n \in Nodes : \/ Mkdir(n) \/ Rmdir(n) \/ Renew(n) \/ RequestUnlock(n)
                      \/ DeliverMessage(n) \/ Restart(n)
  \/ Tick

Spec == Init /\ [][Next]_vars

\* Messages are delivered, time passes, and somebody who wants the lock keeps
\* asking, as PVE::Cluster does until it has it.
Fairness ==
  /\ WF_vars(Tick)
  /\ \A n \in Nodes : WF_vars(DeliverMessage(n)) /\ WF_vars(RequestUnlock(n))

FairSpec == Spec /\ Fairness

-----------------------------------------------------------------------------
\* Properties.

\* The leader has a lock removed only when that very lock, with this mtime, has
\* been there for longer than LOCK_TIMEOUT (lock_expired), whatever the cache
\* remembers of earlier locks of the same name and however often the leader was
\* restarted.
OnlyExpiredIsUnlocked ==
  \A n \in Nodes : \A i \in DOMAIN inbox[n] :
    inbox[n][i].type = "unlock" => made[inbox[n][i].csum[1]].age > LockTimeout

\* Nodes that have delivered the same messages agree on who has the lock, though
\* their caches differ and only one of them decides about expiry.
LocksAgree ==
  \A n, m \in Nodes : inbox[n] = inbox[m] => lock[n] = lock[m]

\* A lock whose holder does not release it goes away when somebody keeps asking,
\* across restarts of the leader (handle_unlock_request, update_locks).
AbandonedLockGoes == \A n \in Nodes : lock[n] # NoLock ~> lock[n] = NoLock

\* Node n delivers its next message.
Delivering(n, type) ==
  inbox[n] # <<>> /\ Head(inbox[n]).type = type /\ Len(inbox'[n]) < Len(inbox[n])

\* handle_unlock deletes the lock the leader found expired, not one that took
\* its place while the Unlock was on its way.
UnlockSparesNewLock ==
  [][\A n \in Nodes :
       Delivering(n, "unlock") /\ lock[n] # NoLock /\ lock'[n] = NoLock
         => Checksum(lock[n]) = Head(inbox[n]).csum]_vars

=============================================================================
