------------------------------ MODULE FuseProofs ------------------------------
(***************************************************************************)
(* A handler that waits for the delivery of its message goes on with the   *)
(* result of that message, or of a message of the other node with the same *)
(* count, for any database, plugins, requests and bounds.                  *)
(*                                                                         *)
(* AnswersAreOwn looks at a result that has been given.  The invariant     *)
(* adds what makes it right before: a message of this node under way has a *)
(* count that was drawn, the count that is awaited is the last one drawn,  *)
(* and a message of this node with it is that of the handler that waits.   *)
(* So a message that timed out keeps its old count and answers nobody.     *)
(***************************************************************************)
EXTENDS FuseFs, TLAPS

\* What the wait for a message is about.
waitVars == <<task, counter, awaited, order, peer>>

\* A message on its way, if c is the counter, w the count that is awaited and t
\* the waiting request: a count of this node has been drawn, and the one that is
\* awaited carries the message of the request.
InTransit(m, c, w, t) ==
  /\ m.count \in Nat \ {NoCount}
  /\ \/ m.from = "here" /\ m.count <= c /\ (m.count = w => m.msg = t.msg)
     \/ m.from = "there"

\* A handler without a result waits for the last count that was drawn.
Waiting ==
  /\ awaited \in {NoCount, counter}
  /\ task # Idle => task = [op |-> task.op, node |-> task.node, msg |-> task.msg,
                            result |-> task.result]
  /\ awaited # NoCount => task # Idle /\ task.result = NoResult

WaitInv ==
  /\ counter \in Nat
  /\ peer = [sent |-> peer.sent, first |-> peer.first] /\ peer.sent \in Nat /\ peer.first \in Nat
  /\ \E S : order \in Seq(S)
  /\ \A i \in 1..Len(order) : InTransit(order[i], counter, awaited, task)
  /\ Waiting
  /\ AnswersAreOwn

\* Before the first request nobody waits.
LEMMA InitWait == ASSUME NEW d, NEW k, FuseInit(d, k) PROVE WaitInv
<1>1. order \in Seq({}) /\ Len(order) = 0
  BY DEF FuseInit
<1>2. peer.first \in PeerCounts /\ peer.sent = 0 /\ peer = [sent |-> peer.sent, first |-> peer.first]
  BY Zenon DEF FuseInit
<1> QED
  BY <1>1, <1>2, FuseAssumption DEF FuseInit, WaitInv, Waiting, AnswersAreOwn, NoCount

\* A step that sends and delivers nothing keeps the invariant.
LEMMA QuietWait == ASSUME WaitInv, UNCHANGED waitVars PROVE WaitInv'
BY Zenon DEF WaitInv, InTransit, Waiting, AnswersAreOwn, waitVars

\* A message that is appended to the order.
LEMMA AppendedOrder ==
  ASSUME NEW q, NEW m, \E S : q \in Seq(S)
  PROVE  /\ \E S : Append(q, m) \in Seq(S)
         /\ Len(Append(q, m)) = Len(q) + 1 /\ Len(q) \in Nat
         /\ \A i \in 1..Len(q) : Append(q, m)[i] = q[i]
         /\ Append(q, m)[Len(q) + 1] = m
<1>1. PICK S : q \in Seq(S)  BY Zenon
<1>2. q \in Seq(S \cup {m}) /\ m \in S \cup {m}
  BY <1>1
<1>3. Append(q, m) \in Seq(S \cup {m})
  BY <1>2
<1> QED  BY <1>2, <1>3

\* The order after its first message was delivered.
LEMMA DeliveredOrder ==
  ASSUME NEW q, \E S : q \in Seq(S), q # <<>>
  PROVE  /\ \E S : Tail(q) \in Seq(S)
         /\ Len(Tail(q)) = Len(q) - 1 /\ Len(q) \in Nat /\ Len(q) > 0
         /\ \A i \in 1..Len(Tail(q)) : Tail(q)[i] = q[i + 1]
         /\ Head(q) = q[1]
<1>1. PICK S : q \in Seq(S)  BY Zenon
<1> QED  BY <1>1

\* send_message_sync draws a count that is on no message yet.
LEMMA SendSyncWait ==
  ASSUME NEW d, NEW op, NEW f, NEW msg, WaitInv, task = Idle, op # "idle",
         SendSync(d, [op |-> op, node |-> f, msg |-> msg, result |-> NoResult])
  PROVE  WaitInv'
<1> DEFINE t == [op |-> op, node |-> f, msg |-> msg, result |-> NoResult]
           m == [from |-> "here", count |-> counter + 1, msg |-> msg]
<1>1. counter' = counter + 1 /\ peer' = peer /\ counter \in Nat
  BY DEF SendSync, WaitInv
<1>2. awaited = NoCount
  BY Zenon DEF WaitInv, Waiting
<1>3. CASE awaited' = counter + 1 /\ order' = Append(order, m) /\ task' = t
  <2>1. t.op # Idle.op /\ t.msg = msg /\ t.result = NoResult
    BY Zenon DEF Idle
  <2>2. t # Idle
    BY <2>1
  <2>3. ASSUME NEW i \in 1..Len(order)
        PROVE  InTransit(order'[i], counter', awaited', task')
    <3>1. InTransit(order[i], counter, awaited, task)
      BY Zenon DEF WaitInv
    <3>2. order'[i] = order[i]
      BY <1>3, AppendedOrder DEF WaitInv
    <3> QED  BY <1>1, <1>3, <3>1, <3>2 DEF InTransit
  <2>4. InTransit(m, counter', awaited', task')
    BY <1>1, <1>3, <2>1 DEF InTransit, NoCount
  <2>5. /\ \E S : order' \in Seq(S)
        /\ \A i \in 1..Len(order') : InTransit(order'[i], counter', awaited', task')
    <3>1. order' = Append(order, m) /\ \E S : order \in Seq(S)
      BY <1>3 DEF WaitInv
    <3>2. /\ \E S : order' \in Seq(S)
          /\ Len(order') = Len(order) + 1 /\ Len(order) \in Nat /\ order'[Len(order) + 1] = m
      BY <3>1, AppendedOrder, Zenon
    <3>3. \A i \in 1..Len(order') : i \in 1..Len(order) \/ i = Len(order) + 1
      BY <3>2
    <3> HIDE DEF m
    <3> QED  BY <2>3, <2>4, <3>2, <3>3, Zenon
  <2>6. Waiting'
    BY <1>1, <1>3, <2>1, <2>2 DEF Waiting, NoCount
  <2>7. AnswersAreOwn'
    BY <1>3, <2>1 DEF AnswersAreOwn
  <2> QED  BY <1>1, <2>5, <2>6, <2>7 DEF WaitInv
<1>4. CASE UNCHANGED <<awaited, order, task>>
  BY <1>1, <1>2, <1>4 DEF WaitInv, InTransit, Waiting, AnswersAreOwn
<1> QED  BY <1>3, <1>4 DEF SendSync

\* A delivery gives its result to the handler that waits for this very message.
LEMMA DeliverNextWait == ASSUME WaitInv, DeliverNext PROVE WaitInv'
<1> DEFINE m == Head(order)
           r == DeliverTo(db, m.msg)
           result == [err |-> r.err, from |-> m.from, count |-> m.count, msg |-> m.msg]
<1>1. counter' = counter /\ peer' = peer /\ order # <<>> /\ order' = Tail(order)
  BY Zenon DEF DeliverNext
<1>2. /\ \E S : order' \in Seq(S)
      /\ Len(order') = Len(order) - 1 /\ Len(order) \in Nat /\ Len(order) > 0
      /\ \A i \in 1..Len(order') : order'[i] = order[i + 1]
      /\ m = order[1]
  BY <1>1, DeliveredOrder DEF WaitInv
<1>3. \A i \in 1..Len(order') : InTransit(order'[i], counter, awaited, task)
  BY <1>2 DEF WaitInv
<1>4. InTransit(m, counter, awaited, task)
  BY <1>2 DEF WaitInv
<1>5. CASE m.count = awaited /\ awaited' = NoCount /\ task' = [task EXCEPT !.result = result]
  <2>1. awaited # NoCount /\ awaited = counter /\ task # Idle
    BY <1>4, <1>5, Zenon DEF InTransit, WaitInv, Waiting
  <2>2. /\ task' = [op |-> task.op, node |-> task.node, msg |-> task.msg, result |-> result]
        /\ task'.op = task.op /\ task'.node = task.node /\ task'.msg = task.msg
        /\ task'.result = result
    BY <1>5, <2>1 DEF WaitInv, Waiting
  <2>3. \A i \in 1..Len(order') : InTransit(order'[i], counter', awaited', task')
    BY <1>1, <1>3, <1>5 DEF InTransit
  <2>4. \/ m.from = "here" /\ m.msg = task.msg
        \/ m.from = "there" /\ m.count = counter
    BY <1>4, <1>5, <2>1 DEF InTransit
  <2>5. AnswersAreOwn'
    BY <1>1, <2>2, <2>4 DEF AnswersAreOwn
  <2>6. Waiting'
    <3>1. task' = [op |-> task'.op, node |-> task'.node, msg |-> task'.msg,
                   result |-> task'.result]
      BY <2>2
    <3>2. awaited' = NoCount
      BY <1>5
    <3> QED  BY <3>1, <3>2 DEF Waiting
  <2> QED  BY <1>1, <1>2, <2>3, <2>5, <2>6, Zenon DEF WaitInv
<1>6. CASE UNCHANGED <<awaited, task>>
  BY <1>1, <1>2, <1>3, <1>6 DEF WaitInv, Waiting, AnswersAreOwn
<1> QED  BY <1>5, <1>6 DEF DeliverNext, RecordResult

\* A handler that goes on, with its result or without, waits for nothing.
LEMMA EndOfWait == ASSUME WaitInv, Finish \/ Expire PROVE WaitInv'
<1>1. /\ counter' = counter /\ peer' = peer /\ order' = order /\ task' = Idle
      /\ awaited' = NoCount
  BY Zenon DEF Finish, Expire, WaitInv, Waiting
<1>2. \A i \in 1..Len(order') : InTransit(order'[i], counter', awaited', task')
  BY <1>1, Zenon DEF WaitInv, InTransit
<1> QED  BY <1>1, <1>2 DEF WaitInv, Waiting, AnswersAreOwn, NoCount

\* A message of the other node has whatever count that node has reached.
LEMMA PeerSendsWait == ASSUME NEW x, WaitInv, PeerSends(x) PROVE WaitInv'
<1> DEFINE m == [from |-> "there", count |-> peer.first + peer.sent + 1, msg |-> x]
<1>1. /\ counter' = counter /\ task' = task /\ awaited' = awaited
      /\ order' = Append(order, m) /\ \E S : order \in Seq(S)
  BY Zenon DEF PeerSends, WaitInv
<1>2. /\ peer' = [sent |-> peer'.sent, first |-> peer'.first]
      /\ peer'.first = peer.first /\ peer'.sent = peer.sent + 1
      /\ peer.sent \in Nat /\ peer.first \in Nat
  BY Zenon DEF PeerSends, WaitInv
<1>3. InTransit(m, counter', awaited', task')
  BY <1>2 DEF InTransit, NoCount
<1>4. \A i \in 1..Len(order) : InTransit(order[i], counter', awaited', task')
  BY <1>1, <1>2 DEF WaitInv
<1>5. /\ \E S : order' \in Seq(S)
      /\ \A i \in 1..Len(order') : InTransit(order'[i], counter', awaited', task')
  <2>1. /\ \E S : order' \in Seq(S)
        /\ Len(order') = Len(order) + 1 /\ Len(order) \in Nat /\ order'[Len(order) + 1] = m
        /\ \A i \in 1..Len(order) : order'[i] = order[i]
    <3>1. order' = Append(order, m) /\ \E S : order \in Seq(S)
      BY <1>1
    <3>2. \A i \in 1..Len(order) : order'[i] = order[i]
      BY <3>1, AppendedOrder
    <3>3. /\ \E S : order' \in Seq(S)
          /\ Len(order') = Len(order) + 1 /\ Len(order) \in Nat /\ order'[Len(order) + 1] = m
      BY <3>1, AppendedOrder, Zenon
    <3> QED  BY <3>2, <3>3
  <2>2. \A i \in 1..Len(order') : i \in 1..Len(order) \/ i = Len(order) + 1
    BY <2>1
  <2>3. \A i \in 1..Len(order) : InTransit(order'[i], counter', awaited', task')
    BY <1>4, <2>1
  <2> HIDE DEF m
  <2> QED  BY <1>3, <2>1, <2>2, <2>3
<1> QED  BY <1>1, <1>2, <1>5 DEF WaitInv, Waiting, AnswersAreOwn

\* Every handler that changes the file system sends one message or works alone.
LEMMA MutateWait ==
  ASSUME NEW d, NEW op, NEW f, NEW msg, WaitInv, task = Idle, op # "idle", Mutate(d, op, f, msg)
  PROVE  WaitInv'
<1> DEFINE t == [op |-> op, node |-> f, msg |-> msg, result |-> NoResult]
<1>1. CASE SendSync(d, t)
  BY <1>1, SendSyncWait
<1>2. CASE Locally(d, t)
  <2>1. UNCHANGED waitVars
    BY <1>2 DEF Locally, waitVars
  <2> QED  BY <2>1, QuietWait
<1> QED  BY <1>1, <1>2 DEF Mutate

\* Requests that only look.
LEMMA ObserveWait == ASSUME WaitInv, Observe \/ Return \/ QuorumChanges PROVE WaitInv'
<1>1. UNCHANGED waitVars
  BY Zenon DEF Observe, Getattr, Readlink, Forget, Lookup, Readdir, Read, Statfs, Answer, Return,
         QuorumChanges, waitVars
<1> QED  BY <1>1, QuietWait

\* Requests that change directories.
LEMMA ChangeTreeWait == ASSUME WaitInv, ChangeTree PROVE WaitInv'
<1>1. ASSUME NEW f, NEW n, CreateFile(f, n) \/ MakeDir(f, n) \/ RemoveDir(f, n) PROVE WaitInv'
  BY <1>1, MutateWait DEF CreateFile, MakeDir, RemoveDir, Free
<1>2. ASSUME NEW f, NEW n, Unlink(f, n) PROVE WaitInv'
  <2>1. CASE UNCHANGED waitVars
    BY <2>1, QuietWait
  <2>2. CASE Mutate(db, "unlink", f, [op |-> "delete", path |-> PathIn(f, n)])
    BY <1>2, <2>2, MutateWait DEF Unlink, Free
  <2> QED  BY <1>2, <2>1, <2>2 DEF Unlink, Answer, waitVars
<1>3. ASSUME NEW f, NEW n, NEW g, NEW k, Rename(f, n, g, k) PROVE WaitInv'
  BY <1>3, MutateWait DEF Rename, Free
<1> QED  BY <1>1, <1>2, <1>3 DEF ChangeTree

\* Requests that change a file.
LEMMA ChangeFileWait == ASSUME WaitInv, ChangeFile PROVE WaitInv'
<1>1. ASSUME NEW f, NEW offset, NEW len, WriteFile(f, offset, len) PROVE WaitInv'
  <2> DEFINE msg == [op |-> "write", path |-> PathOf(db, FuseToInode(f)),
                     offset |-> offset, len |-> len]
  <2>1. CASE UNCHANGED waitVars
    BY <2>1, QuietWait
  <2>2. CASE Mutate(db, "write", f, msg)
    BY <1>1, <2>2, MutateWait DEF WriteFile, Free
  <2> QED  BY <1>1, <2>1, <2>2 DEF WriteFile, Answer, waitVars
<1>2. ASSUME NEW f, NEW size, NEW mtime, NEW mode, NEW owner, Setattr(f, size, mtime, mode, owner)
      PROVE  WaitInv'
  <2>1. CASE UNCHANGED waitVars
    BY <2>1, QuietWait
  <2>2. ASSUME NEW d, NEW path, Mutate(d, "setattr", f, [op |-> "mtime", path |-> path])
        PROVE  WaitInv'
    BY <1>2, <2>2, MutateWait DEF Setattr, Free
  <2> QED  BY <1>2, <2>1, <2>2, Zenon DEF Setattr, Answer, Resized, waitVars
<1>3. ASSUME NEW f, NEW write, NEW trunc, Open(f, write, trunc) PROVE WaitInv'
  <2>1. UNCHANGED waitVars
    BY <1>3, Zenon DEF Open, Answer, Resized, waitVars
  <2> QED  BY <2>1, QuietWait
<1> QED  BY <1>1, <1>2, <1>3 DEF ChangeFile

\* Whatever database is opened, whatever the kernel knows and whatever the other node
\* sends, a handler that goes on has the result of its own message, or that of a
\* message of the other node with the very count it drew: a message of this node
\* that timed out and is delivered late answers nobody (send_message_sync,
\* record_message_result).
THEOREM ResultsAreOwn ==
  ASSUME NEW CONSTANT d, NEW CONSTANT k
  PROVE  FuseSpec(d, k) => []AnswersAreOwn
<1>1. FuseInit(d, k) => WaitInv
  BY InitWait
<1>2. WaitInv /\ [FuseNext]_fuseVars => WaitInv'
  <2> SUFFICES ASSUME WaitInv, [FuseNext]_fuseVars PROVE WaitInv'
    BY Zenon
  <2>1. CASE UNCHANGED fuseVars
    <3>1. UNCHANGED waitVars  BY <2>1 DEF fuseVars, waitVars
    <3> QED  BY <3>1, QuietWait
  <2>2. CASE FuseNext
    BY <2>2, ObserveWait, ChangeTreeWait, ChangeFileWait, DeliverNextWait, EndOfWait,
       PeerSendsWait DEF FuseNext, Cluster
  <2> QED  BY <2>1, <2>2
<1>3. WaitInv => AnswersAreOwn
  BY Zenon DEF WaitInv
<1> QED  BY <1>1, <1>2, <1>3, PTL DEF FuseSpec
===============================================================================
