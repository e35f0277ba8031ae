--------------------------------- MODULE Dfsm ----------------------------------
(***************************************************************************)
(* The distributed state machine of pmxcfs-dfsm (state_machine.rs) over    *)
(* the database callbacks of module Replica: every node runs one process   *)
(* that joins a Corosync process group, exchanges states whenever the      *)
(* membership changes, catches up with the member that has the highest     *)
(* index, and then delivers the messages of the group.                     *)
(*                                                                         *)
(* CPG is external and modelled by what the code relies on: multicasts and *)
(* configuration changes reach the members of a ring in one total order    *)
(* (inbox), a multicast the library accepted is ordered some time later    *)
(* (outbox), and a sender receives its own messages.                       *)
(*                                                                         *)
(* dfsm[n] is the struct Dfsm of node n with its database.  One callback   *)
(* of CPG is one step: the service that dispatches runs callbacks one      *)
(* after the other.  A handler maps the struct to a set of outcomes        *)
(* [d, out, fails]: the struct after it, what it has sent, and how many of *)
(* its multicasts the library refused.                                     *)
(***************************************************************************)
EXTENDS Replica

CONSTANTS Node,         \* node identifiers, positive integers
          Requests,     \* [Node -> SUBSET Op]: what FUSE clients ask for
          InitDb,       \* [Node -> database]: what is on disk at the start
          MaxQueueLen,  \* MAX_QUEUE_LEN
          MaxJoin, MaxLoss, MaxSend, MaxVerify, MaxFail
                        \* bounds of the model: joins and merges; crashes,
                        \* disconnections and partitions; requests; verify
                        \* timers; refused multicasts

VARIABLES dfsm, inbox, outbox, ring, left

vars == <<dfsm, inbox, outbox, ring, left>>

ASSUME DfsmAssumption ==
  /\ Node \subseteq Nat \ {0} /\ IsFiniteSet(Node)
  /\ Data \subseteq Nat \ {0}
  /\ Requests \in [Node -> SUBSET Op]
  /\ DOMAIN InitDb = Node /\ \A n \in Node : IsDb(InitDb[n])
  /\ MaxQueueLen \in Nat \ {0}
  /\ {MaxJoin, MaxLoss, MaxSend, MaxVerify, MaxFail} \subseteq Nat

NoState == [version |-> 0]
NotWaiting == 0
NoReply == [from |-> 0, ok |-> FALSE]
NoEpoch == [count |-> 0, node |-> 0, pid |-> 0]
NoChecksum == [root |-> 0]

Modes == {"Start", "StartSync", "Synced", "Update", "Leave", "Error"}
ErrorRank == [Leave |-> 253, Error |-> 255]
IsError(mode) == mode \in DOMAIN ErrorRank

NewDfsm(pid, db) ==
  [pid |-> pid, mode |-> "Start", epoch |-> [NoEpoch EXCEPT !.pid = pid],
   epochCounter |-> 0, syncNodes |-> Empty,
   msgQueue |-> Empty, syncQueue |-> <<>>,
   msgCounter |-> 0, waiting |-> NotWaiting, reply |-> NoReply,
   log |-> <<>>, csum |-> NoChecksum, csumEpoch |-> NoEpoch, csumId |-> 0, csumCounter |-> 0,
   hung |-> FALSE, db |-> db]

-----------------------------------------------------------------------------
\* Helpers of the handlers.

Outcome(d, out, fails) == [d |-> d, out |-> out, fails |-> fails]
Quietly(d) == {Outcome(d, <<>>, 0)}
\* A multicast that may be refused, which ends the handler with an error.
Sending(d, body) == {Outcome(d, <<body>>, 0), Outcome(d, <<>>, 1)}

\* set_mode: an error mode only gives way to a higher one or to a normal mode.
SetMode(d, mode) ==
  IF IsError(mode) /\ IsError(d.mode) /\ ErrorRank[mode] < ErrorRank[d.mode]
  THEN d ELSE [d EXCEPT !.mode = mode]

Members(d) == DOMAIN d.syncNodes
States(d) == [m \in Members(d) |-> d.syncNodes[m].state]
HasAllStates(d) == \A m \in Members(d) : d.syncNodes[m].state # NoState
IsMember(d, from, pid) == from \in Members(d) /\ d.syncNodes[from].pid = pid
IsLeader(n, d) == n \in Members(d) /\ \A m \in Members(d) : n <= m
SenderSynced(d, qm) == IsMember(d, qm.from, qm.pid) /\ d.syncNodes[qm.from].synced

\* A message is known by its sender, the sender's process and its count.
Key(qm) == <<qm.from, qm.pid, qm.count>>

\* deliver_message, then record_message_result: whoever waits for this count
\* gets the result.  x is the part of the struct that changes.
Delivered(x, qm) ==
  LET r == Deliver(x.db, qm.op)
      awaited == x.waiting = qm.count
  IN  [db |-> r.db,
       waiting |-> IF awaited THEN NotWaiting ELSE x.waiting,
       reply |-> IF awaited THEN [from |-> qm.from, ok |-> r.ok] ELSE x.reply]

\* One message after the other.  The log is auxiliary and lists what has been
\* delivered.
DeliverAll(d, qms) ==
  LET after[i \in 0 .. Len(qms)] ==
        IF i = 0 THEN [db |-> d.db, waiting |-> d.waiting, reply |-> d.reply]
                 ELSE Delivered(after[i - 1], qms[i])
      x == after[Len(qms)]
  IN  [d EXCEPT !.db = x.db, !.waiting = x.waiting, !.reply = x.reply,
                !.log = @ \o [i \in DOMAIN qms |-> Key(qms[i])]]

\* The counts of C in ascending order, the order of a BTreeMap.
InOrder(C) ==
  CHOOSE s \in [1 .. Cardinality(C) -> C] : \A i, j \in DOMAIN s : i < j => s[i] < s[j]

\* Mutant: a synced sender's messages go to the sync queue in Synced mode as well.
DeliverMessageQueue_Both(d) ==
  LET due == {c \in DOMAIN d.msgQueue : SenderSynced(d, d.msgQueue[c])}
      qms == [i \in 1 .. Cardinality(due) |-> d.msgQueue[InOrder(due)[i]]]
      rest == [d EXCEPT !.msgQueue = [c \in DOMAIN @ \ due |-> @[c]],
                        !.syncQueue = @ \o qms]
  IN  IF d.mode = "Synced" THEN DeliverAll(rest, qms) ELSE rest

\* deliver_message_queue: messages of departed senders are removed; those of a
\* synced sender are delivered, or wait for UpdateComplete in the sync queue.
DeliverMessageQueue(d) ==
  LET gone == {c \in DOMAIN d.msgQueue : ~ IsMember(d, d.msgQueue[c].from, d.msgQueue[c].pid)}
      due == {c \in DOMAIN d.msgQueue : SenderSynced(d, d.msgQueue[c])}
      taken == IF d.mode \in {"Synced", "Update"} THEN due ELSE {}
      qms == [i \in 1 .. Cardinality(taken) |-> d.msgQueue[InOrder(taken)[i]]]
      rest == [d EXCEPT !.msgQueue = [c \in DOMAIN @ \ (gone \cup taken) |-> @[c]]]
  IN  IF d.mode = "Synced" THEN DeliverAll(rest, qms)
                           ELSE [rest EXCEPT !.syncQueue = @ \o qms]

\* deliver_sync_queue
DeliverSyncQueue(d) == [DeliverAll(d, d.syncQueue) EXCEPT !.syncQueue = <<>>]

\* queue_message: the sync queue drops its oldest message when it is full, the
\* message queue the one with the lowest count.
QueueMessage(d, qm) ==
  IF d.mode = "Update" /\ SenderSynced(d, qm)
  THEN [d EXCEPT !.syncQueue =
          Append(IF Len(@) >= MaxQueueLen THEN Tail(@) ELSE @, qm)]
  ELSE [d EXCEPT !.msgQueue =
          Put(IF Cardinality(DOMAIN @) >= MaxQueueLen
              THEN Drop(@, InOrder(DOMAIN @)[1]) ELSE @,
              qm.count, qm)]

-----------------------------------------------------------------------------
\* Handlers of CPG callbacks.

SyncStart(epoch) == [type |-> "syncStart", epoch |-> epoch]
State(epoch, index) == [type |-> "state", epoch |-> epoch, index |-> index]
Update(epoch, u) == [type |-> "update", epoch |-> epoch, update |-> u]
UpdateComplete(epoch) == [type |-> "updateComplete", epoch |-> epoch]

\* get_state changes the root entry, then send_state multicasts the index.
WithState(d) == [d EXCEPT !.db = Encoded(@)]
OwnState(d) == State(d.epoch, Index(d.db))

\* invalidate_checksum
ChecksumInvalidated(d) == [d EXCEPT !.csumId = d.csumCounter, !.csumEpoch = NoEpoch]

\* Mutant: the states of the previous round are kept.
NewRound_KeepsStates(n, d, members) ==
  [ChecksumInvalidated(d) EXCEPT
     !.epochCounter = @ + 1,
     !.epoch = [count |-> d.epochCounter + 1, node |-> n, pid |-> d.pid],
     !.syncNodes = [m \in DOMAIN members |->
                      [pid |-> members[m], synced |-> FALSE,
                       state |-> IF m \in DOMAIN @ THEN @[m].state ELSE NoState]],
     !.syncQueue = <<>>]

\* The part of handle_membership_change that does not depend on the members'
\* number: a new epoch, the new members with nothing received yet, and an empty
\* sync queue.  The message queue stays.
NewRound(n, d, members) ==
  [ChecksumInvalidated(d) EXCEPT
     !.epochCounter = @ + 1,
     !.epoch = [count |-> d.epochCounter + 1, node |-> n, pid |-> d.pid],
     !.syncNodes = [m \in DOMAIN members |->
                      [pid |-> members[m], state |-> NoState, synced |-> FALSE]],
     !.syncQueue = <<>>]

\* A process alone is synced.  It holds the write lock of sync_nodes when
\* deliver_message_queue takes the read lock, which it does unless the queue is
\* empty: then the callback never returns.
AloneInGroup(n, d) ==
  LET s == [SetMode(d, "Synced") EXCEPT !.syncNodes[n].synced = TRUE]
  IN  [s EXCEPT !.hung = (d.msgQueue # Empty)]

HandleMembershipChange(n, d, members) ==
  LET r == NewRound(n, d, members)
      s == SetMode(r, "StartSync")
      sent == WithState(s)
  IN  IF DOMAIN members = {n} THEN Quietly(AloneInGroup(n, r))
      ELSE IF ~ IsLeader(n, s) THEN Quietly(s)
      ELSE {Outcome(sent, <<SyncStart(s.epoch), OwnState(sent)>>, 0),
            Outcome(sent, <<SyncStart(s.epoch)>>, 1),
            Outcome(s, <<>>, 1)}

HandleNormalMessage(d, qm) ==
  Quietly(IF d.mode = "Synced" THEN DeliverAll(d, <<qm>>) ELSE QueueMessage(d, qm))

\* Mutant: the node answers with the epoch it had before.
HandleSyncStart_KeepsEpoch(n, d, from, epoch) ==
  IF from = n THEN Quietly(d)
  ELSE LET s == WithState(d) IN Sending(s, OwnState(s))

\* Mutant: the count is adopted under the node's own name.
HandleSyncStart_OwnName(n, d, from, epoch) ==
  LET e == [d EXCEPT !.epoch = [epoch EXCEPT !.node = n, !.pid = d.pid]]
  IN  IF from = n THEN Quietly(e)
      ELSE LET s == WithState(e) IN Sending(s, OwnState(s))

\* The epoch is adopted whoever sent it; its sender has sent its own state.
HandleSyncStart(n, d, from, epoch) ==
  LET e == [d EXCEPT !.epoch = epoch]
  IN  IF from = n THEN Quietly(e)
      ELSE LET s == WithState(e) IN Sending(s, OwnState(s))

\* process_state_sync once the callback said the node is synced ...
Synced(n, d) ==
  DeliverMessageQueue(SetMode([d EXCEPT !.syncNodes[n].synced = TRUE], "Synced"))

\* ... and when it is not.
Unsynced(d) == DeliverMessageQueue(SetMode(d, "Update"))

\* Some of the elements of S in some order.
Selections(S) == {s \in UNION {[1 .. k -> S] : k \in 0 .. Cardinality(S)} : IsInjective(s)}

\* send_updates_to_followers: the entries go out in the order of a HashSet, a
\* refused one is skipped, and a refused UpdateComplete is an error.
SendUpdates(n, d, ix) ==
  LET us == Updates(d.db, InodesToUpdate(ix[n], ix))
      bodies(s) == [i \in DOMAIN s |-> Update(d.epoch, s[i])]
  IN  UNION {
        { Outcome(Synced(n, d), Append(bodies(s), UpdateComplete(d.epoch)),
                  Cardinality(us) - Len(s)),
          Outcome(SetMode(d, "Error"), bodies(s), Cardinality(us) - Len(s) + 1) }
        : s \in Selections(us) }

\* Mutant: a node leads whenever no index is higher than its own.
ProcessStateSync_TiesLead(n, d) ==
  LET ix == States(d)
  IN  IF \A m \in DOMAIN ix : ~ Higher(ix[m], ix[n]) THEN SendUpdates(n, d, ix)
      ELSE Quietly(Unsynced(d))

ProcessStateSync(n, d) ==
  LET ix == States(d)
      leader == LeaderOf(ix)
  IN  IF leader = n THEN SendUpdates(n, d, ix)
      ELSE IF SyncedWith(ix[n], ix[leader]) THEN Quietly(Synced(n, d))
      ELSE Quietly(Unsynced(d))

\* process_state
ProcessState(n, d, from, pid, index) ==
  IF ~ IsMember(d, from, pid) \/ d.syncNodes[from].state # NoState
  THEN Quietly(SetMode(d, "Leave"))
  ELSE LET s == [d EXCEPT !.syncNodes[from].state = index]
       IN  IF HasAllStates(s) THEN ProcessStateSync(n, s) ELSE Quietly(s)

HandleUpdate(d, u) == Quietly([d EXCEPT !.db = ApplyUpdate(@, u)])

HandleUpdateComplete(d) == Quietly(SetMode(DeliverSyncQueue(d), "Synced"))

HandleVerifyRequest(d, epoch, id) ==
  LET c == [d EXCEPT !.csum = Checksum(d.db), !.csumEpoch = epoch, !.csumId = id]
  IN  Sending(c, [type |-> "verify", epoch |-> d.epoch, id |-> id, csum |-> c.csum])

HandleVerify(d, epoch, id, csum) ==
  Quietly(IF d.csumId = id /\ d.csumEpoch = epoch /\ d.csum # csum
          THEN SetMode(d, "Leave") ELSE d)

-----------------------------------------------------------------------------
\* CPG callbacks.  A process whose callback has hung dispatches nothing more.

Ready(n) == ~ dfsm[n].hung /\ inbox[n] # <<>>

Complete(n, o) ==
  /\ o.fails <= left.fail
  /\ dfsm' = [dfsm EXCEPT ![n] = o.d]
  /\ inbox' = [inbox EXCEPT ![n] = Tail(@)]
  /\ outbox' = [outbox EXCEPT ![n] = @ \o o.out]
  /\ left' = [left EXCEPT !.fail = @ - o.fails]
  /\ UNCHANGED ring

OnConfchg(n) ==
  /\ Ready(n) /\ Head(inbox[n]).type = "conf"
  /\ \E o \in HandleMembershipChange(n, dfsm[n], Head(inbox[n]).members) : Complete(n, o)

\* handle_dfsm_message drops a message of another epoch.
CurrentEpoch(n, body) ==
  IF body.type \in {"normal", "syncStart"} THEN TRUE ELSE body.epoch = dfsm[n].epoch

\* The outcomes of handle_dfsm_message.
Outcomes(n, from, pid, body) ==
  LET d == dfsm[n]
  IN  CASE body.type = "normal" ->
             HandleNormalMessage(d, [from |-> from, pid |-> pid,
                                     count |-> body.count, op |-> body.op])
        [] body.type = "syncStart" -> HandleSyncStart(n, d, from, body.epoch)
        [] body.type = "state" -> ProcessState(n, d, from, pid, body.index)
        [] body.type = "update" -> HandleUpdate(d, body.update)
        [] body.type = "updateComplete" -> HandleUpdateComplete(d)
        [] body.type = "verifyRequest" -> HandleVerifyRequest(d, body.epoch, body.id)
        [] body.type = "verify" -> HandleVerify(d, body.epoch, body.id, body.csum)

Deliverable(n) == Ready(n) /\ Head(inbox[n]).type = "msg"

OnDeliver(n) ==
  /\ Deliverable(n)
  /\ LET e == Head(inbox[n])
     IN  /\ CurrentEpoch(n, e.body)
         /\ \E o \in Outcomes(n, e.from, e.pid, e.body) : Complete(n, o)

IgnoreWrongEpoch(n) ==
  /\ Deliverable(n)
  /\ ~ CurrentEpoch(n, Head(inbox[n]).body)
  /\ Complete(n, Outcome(dfsm[n], <<>>, 0))

-----------------------------------------------------------------------------
\* Other entry points of the daemon.

\* The struct and the outbox after a call that multicasts, or fails to (which
\* the bound on the calls also bounds).
Multicast(n, ok, failed, body) ==
  \/ /\ ring[n] # {}
     /\ dfsm' = [dfsm EXCEPT ![n] = ok]
     /\ outbox' = [outbox EXCEPT ![n] = Append(@, body)]
     /\ UNCHANGED <<inbox, ring>>
  \/ /\ ring[n] = {} \/ left.fail > 0
     /\ dfsm' = [dfsm EXCEPT ![n] = failed]
     /\ UNCHANGED <<inbox, outbox, ring>>

\* send_message_sync, called by the FUSE task, which waits for the result.
SendMessageSync(n, op) ==
  LET d == dfsm[n]
      c == d.msgCounter + 1
      ok == [d EXCEPT !.msgCounter = c, !.waiting = c, !.reply = NoReply]
      failed == [d EXCEPT !.msgCounter = c, !.reply = NoReply]
  IN  /\ left.send > 0 /\ d.waiting = NotWaiting
      /\ Multicast(n, ok, failed, [type |-> "normal", count |-> c, op |-> op])
      /\ left' = [left EXCEPT !.send = @ - 1]

\* The ten seconds of send_message_sync are over.
SendTimeout(n) ==
  /\ dfsm[n].waiting # NotWaiting
  /\ dfsm' = [dfsm EXCEPT ![n].waiting = NotWaiting]
  /\ UNCHANGED <<inbox, outbox, ring, left>>

\* verify_request, called by the timer of the cluster database service.
VerifyRequest(n) ==
  LET d == dfsm[n]
      v == [d EXCEPT !.csumCounter = @ + 1]
  IN  /\ left.verify > 0 /\ ~ d.hung
      /\ IsLeader(n, d) /\ d.mode = "Synced" /\ d.csumCounter = d.csumId
      /\ Multicast(n, v, v, [type |-> "verifyRequest", epoch |-> d.epoch,
                             id |-> v.csumCounter])
      /\ left' = [left EXCEPT !.verify = @ - 1]

-----------------------------------------------------------------------------
\* CPG and the processes of the nodes.

\* The ring orders the next multicast of n: all members receive it.
Order(n) ==
  /\ ring[n] # {} /\ outbox[n] # <<>>
  /\ inbox' = [m \in Node |->
       IF m \in ring[n]
       THEN Append(inbox[m], [type |-> "msg", from |-> n, pid |-> dfsm[n].pid,
                              body |-> Head(outbox[n])])
       ELSE inbox[m]]
  /\ outbox' = [outbox EXCEPT ![n] = Tail(@)]
  /\ UNCHANGED <<dfsm, ring, left>>

\* The members of each of the rings rs learn that they are its members.
Reconfigured(box, rs) ==
  [m \in Node |->
     IF \E r \in rs : m \in r
     THEN LET r == CHOOSE r \in rs : m \in r
          IN  Append(box[m], [type |-> "conf", members |-> [k \in r |-> dfsm[k].pid]])
     ELSE box[m]]

Rerung(r, rs) ==
  [m \in Node |-> IF \E x \in rs : m \in x THEN CHOOSE x \in rs : m \in x ELSE r[m]]

Rings == {ring[n] : n \in Node} \ {{}}

\* init_cpg: a process that has left or restarted joins, alone or a ring that
\* exists.
Join(n) ==
  /\ left.join > 0 /\ ring[n] = {} /\ ~ dfsm[n].hung
  /\ \E r \in Rings \cup {{}} :
       /\ inbox' = Reconfigured(inbox, {r \cup {n}})
       /\ ring' = Rerung(ring, {r \cup {n}})
  /\ left' = [left EXCEPT !.join = @ - 1]
  /\ UNCHANGED <<dfsm, outbox>>

\* Rings that find each other become one, in one configuration change.
Merge ==
  /\ left.join > 0
  /\ \E rs \in SUBSET Rings :
       /\ Cardinality(rs) > 1
       /\ inbox' = Reconfigured(inbox, {UNION rs})
       /\ ring' = Rerung(ring, {UNION rs})
  /\ left' = [left EXCEPT !.join = @ - 1]
  /\ UNCHANGED <<dfsm, outbox>>

Partition ==
  /\ left.loss > 0
  /\ \E r \in Rings : \E s \in SUBSET r \ {{}, r} :
       /\ inbox' = Reconfigured(inbox, {s, r \ s})
       /\ ring' = Rerung(ring, {s, r \ s})
  /\ left' = [left EXCEPT !.loss = @ - 1]
  /\ UNCHANGED <<dfsm, outbox>>

\* Process n is out of its ring with what CPG held for it.
Depart(n) ==
  LET r == ring[n] \ {n}
  IN  /\ left.loss > 0 /\ ring[n] # {}
      /\ inbox' = [Reconfigured(inbox, {r}) EXCEPT ![n] = <<>>]
      /\ outbox' = [outbox EXCEPT ![n] = <<>>]
      /\ ring' = [Rerung(ring, {r}) EXCEPT ![n] = {}]
      /\ left' = [left EXCEPT !.loss = @ - 1]

\* stop_services: the connection is given up, the struct lives on.
Disconnect(n) == Depart(n) /\ ~ dfsm[n].hung /\ UNCHANGED dfsm

Crash(n) ==
  Depart(n) /\ dfsm' = [dfsm EXCEPT ![n] = NewDfsm(@.pid + 1, Reloaded(@.db))]

\* Every daemon has started on a network that has not formed yet, and has seen
\* the configuration with itself as the only member.
Init ==
  /\ dfsm = [n \in Node |->
               AloneInGroup(n, NewRound(n, NewDfsm(1, InitDb[n]), [k \in {n} |-> 1]))]
  /\ inbox = [n \in Node |-> <<>>]
  /\ outbox = [n \in Node |-> <<>>]
  /\ ring = [n \in Node |-> {n}]
  /\ left = [join |-> MaxJoin, loss |-> MaxLoss, send |-> MaxSend,
             verify |-> MaxVerify, fail |-> MaxFail]

Next ==
  \/ \E n \in Node : \/ OnConfchg(n) \/ OnDeliver(n) \/ IgnoreWrongEpoch(n)
                     \/ SendTimeout(n) \/ VerifyRequest(n) \/ Order(n)
                     \/ Join(n) \/ Disconnect(n) \/ Crash(n)
  \/ \E n \in Node : \E op \in Requests[n] : SendMessageSync(n, op)
  \/ Merge \/ Partition

Spec == Init /\ [][Next]_vars

\* The service loop dispatches as long as callbacks return; Corosync orders
\* what it has accepted.  Every event has an outcome without a failed multicast,
\* so a handler of n is enabled when n is Ready, and only handlers take from the
\* inbox of a member that stays in its ring.
Dispatched(n) ==
  Ready(n) /\ inbox' = [inbox EXCEPT ![n] = Tail(@)] /\ UNCHANGED ring

Fairness ==
  \A n \in Node : WF_<<inbox, ring>>(Dispatched(n)) /\ WF_vars(Order(n))

FairSpec == Spec /\ Fairness

-----------------------------------------------------------------------------
\* Properties.

Epoch == [count : Nat, node : Node \cup {0}, pid : Nat]

InFlight == UNION {{inbox[n][i].body : i \in {k \in DOMAIN inbox[n] : inbox[n][k].type = "msg"}}
                   \cup Range(outbox[n]) : n \in Node}

\* The struct of node e.node has drawn epoch e, in this or an earlier process.
Drawn(e) ==
  \/ e.count = 0
  \/ /\ e.node \in Node
     /\ \/ e.pid < dfsm[e.node].pid
        \/ e.pid = dfsm[e.node].pid /\ e.count <= dfsm[e.node].epochCounter

\* Every epoch that a node uses or a message carries was drawn by the node it
\* names.  So the epoch handle_membership_change takes next is in no message,
\* and the epoch check separates the rounds of state exchange.
EpochsAreDrawn ==
  /\ \A n \in Node : Drawn(dfsm[n].epoch) /\ Drawn(dfsm[n].csumEpoch)
  /\ \A b \in InFlight : b.type # "normal" => Drawn(b.epoch)

\* Nodes that have collected all states of a round decide from the same states,
\* so they elect the same leader (process_state_sync).
SameElection ==
  \A n, m \in Node :
    LET d == dfsm[n]
        e == dfsm[m]
    IN  (/\ n < m /\ d.epoch = e.epoch
         /\ Cardinality(Members(d)) > 1 /\ HasAllStates(d)
         /\ Cardinality(Members(e)) > 1 /\ HasAllStates(e))
        => States(d) = States(e)

IsUpdating(b) == b.type \in {"update", "updateComplete"}

\* The epochs and senders of the updates in flight.
Updating ==
  UNION {   {<<b.epoch, n>> : b \in {c \in Range(outbox[n]) : IsUpdating(c)}}
       \cup {<<inbox[n][i].body.epoch, inbox[n][i].from>> :
               i \in {k \in DOMAIN inbox[n] :
                        inbox[n][k].type = "msg" /\ IsUpdating(inbox[n][k].body)}} : n \in Node}

\* Only one node sends updates in a round (send_updates_to_followers).
OneUpdater == \A x, y \in Updating : x[1] = y[1] => x[2] = y[2]

\* Nothing is in flight to or from the ring r.
Quiet(r) == \A n \in r : inbox[n] = <<>> /\ outbox[n] = <<>>

AllSynced(r) == \A n \in r : dfsm[n].mode = "Synced"

\* When all members of a ring are synced and nothing is in flight, their
\* databases hold the same entries under the same version.
ReplicasAgree ==
  \A r \in Rings : Quiet(r) /\ AllSynced(r) =>
    \A n, m \in r : /\ dfsm[n].db.ents = dfsm[m].db.ents
                    /\ dfsm[n].db.version = dfsm[m].db.version

\* A process delivers a message at most once, whether immediately or from a
\* queue (deliver_message_queue removes what it has delivered).
DeliveredOnce == \A n \in Node : IsInjective(dfsm[n].log)

\* Verification finds no difference (handle_verify), and nobody receives a state
\* it did not expect (process_state).
NobodyLeaves == \A n \in Node : dfsm[n].mode # "Leave"

\* Once the membership stops changing, all members become synced for good.
EventuallySynced ==
  <>[](\A n \in Node : ring[n] # {} => dfsm[n].mode = "Synced")

=============================================================================
