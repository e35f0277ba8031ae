------------------------------ MODULE DfsmProofs ------------------------------
(***************************************************************************)
(* Two invariants of the state machine, for any nodes, databases, requests *)
(* and bounds, through crashes, partitions, refused multicasts and         *)
(* messages that arrive rounds later.                                      *)
(*                                                                         *)
(* Every epoch in use has been drawn by the node it names.  The fact is    *)
(* inductive once epochs are typed and mailboxes are known to be           *)
(* sequences.  Databases stay untyped: no handler lets the content of a    *)
(* database decide about an epoch.                                         *)
(*                                                                         *)
(* No process delivers a request of a client twice.  A request has a key:  *)
(* sender, process of the sender and count.  The invariant follows a key   *)
(* from the sender's counter to a log.  At most one of the places of a     *)
(* node has it: the mailbox, the sync queue, the message queue or the log. *)
(* A mailbox and an outbox have it at most once.  What is still in the     *)
(* outbox of its sender is nowhere else, and no key above the sender's     *)
(* counter exists.                                                         *)
(*                                                                         *)
(* The theorems on finite sets come last: they are needed only to show     *)
(* that the order of a BTreeMap lists every count once.                    *)
(***************************************************************************)
EXTENDS Dfsm, TLAPS

\* The fields the argument is about.
Fields == {"pid", "epoch", "epochCounter", "csumEpoch"}

\* The epochs drawn so far, if f is the function of all structs.
DrawnSet(f) ==
  {e \in Epoch : \/ e.count = 0
                 \/ /\ e.node \in Node
                    /\ \/ e.pid < f[e.node].pid
                       \/ e.pid = f[e.node].pid /\ e.count <= f[e.node].epochCounter}

Sequence(s) == \E S : s \in Seq(S)

\* A struct and messages that use epochs of E only.
StructIn(E, d) ==
  /\ Fields \subseteq DOMAIN d
  /\ d.pid \in Nat /\ d.epochCounter \in Nat
  /\ d.epoch \in E /\ d.csumEpoch \in E

BodyIn(E, b) ==
  /\ b.type \in {"normal", "syncStart", "state", "update", "updateComplete",
                 "verifyRequest", "verify"}
  /\ b.type # "normal" => b.epoch \in E
EventIn(E, e) == e.type = "msg" => BodyIn(E, e.body)

InboxIn(E, s) == Sequence(s) /\ \A e \in Range(s) : EventIn(E, e)
OutboxIn(E, s) == Sequence(s) /\ \A b \in Range(s) : BodyIn(E, b)

\* The structs f, inboxes ins and outboxes outs use drawn epochs only.
UsesDrawn(f, ins, outs) ==
  /\ DOMAIN f = Node /\ DOMAIN ins = Node /\ DOMAIN outs = Node
  /\ \A n \in Node : /\ StructIn(DrawnSet(f), f[n])
                     /\ InboxIn(DrawnSet(f), ins[n])
                     /\ OutboxIn(DrawnSet(f), outs[n])

IInv == UsesDrawn(dfsm, inbox, outbox)

\* A handler changed d into x without drawing an epoch.
Keeps(d, x) ==
  /\ DOMAIN x = DOMAIN d
  /\ x.pid = d.pid /\ x.epochCounter = d.epochCounter
  /\ x.epoch = d.epoch /\ x.csumEpoch = d.csumEpoch

\* An outcome of a handler on d that uses epochs of E only.
OutcomeIn(E, d, o) ==
  /\ StructIn(E, o.d) /\ o.d.pid = d.pid /\ o.d.epochCounter >= d.epochCounter
  /\ OutboxIn(E, o.out)

-----------------------------------------------------------------------------
\* Sequences.

\* The messages a handler sends, one for each of its arguments.
LEMMA FunctionIsSequence ==
  ASSUME NEW k \in Nat, NEW T, NEW s \in [1 .. k -> T]
  PROVE  s \in Seq(T)
OBVIOUS

\* Tail and Head of a mailbox, as when CPG dispatches an event.
LEMMA TailFacts ==
  ASSUME NEW s, Sequence(s), s # <<>>
  PROVE  /\ Sequence(Tail(s)) /\ Head(s) \in Range(s)
         /\ \A x \in Range(Tail(s)) : x \in Range(s)
<1>1. PICK S : s \in Seq(S)
  BY Zenon DEF Sequence
<1>2. Tail(s) \in Seq(S) /\ Len(s) \in Nat \ {0} /\ DOMAIN s = 1 .. Len(s)
  BY <1>1
<1>3. Head(s) = s[1] /\ 1 \in DOMAIN s
  BY <1>1, <1>2
<1>4. ASSUME NEW i \in DOMAIN Tail(s)
      PROVE  Tail(s)[i] \in Range(s)
  <2>1. i \in 1 .. Len(s) - 1 /\ Tail(s)[i] = s[i + 1]
    BY <1>1, <1>2
  <2>2. i + 1 \in DOMAIN s
    BY <2>1, <1>2
  <2> QED  BY <2>1, <2>2, Zenon DEF Range
<1> QED  BY <1>2, <1>3, <1>4, Zenon DEF Sequence, Range

\* A message is appended to a mailbox.
LEMMA AppendFacts ==
  ASSUME NEW s, Sequence(s), NEW x
  PROVE  /\ Sequence(Append(s, x))
         /\ \A y \in Range(Append(s, x)) : y \in Range(s) \/ y = x
<1>1. PICK S : s \in Seq(S)
  BY Zenon DEF Sequence
<1>2. s \in Seq(S \cup {x})
  BY <1>1
<1>3. Append(s, x) \in Seq(S \cup {x}) /\ DOMAIN Append(s, x) = 1 .. Len(s) + 1
      /\ DOMAIN s = 1 .. Len(s) /\ Len(s) \in Nat
  BY <1>2
<1>4. ASSUME NEW i \in DOMAIN Append(s, x)
      PROVE  Append(s, x)[i] \in Range(s) \/ Append(s, x)[i] = x
  <2>1. CASE i = Len(s) + 1
    BY <2>1, <1>2
  <2>2. CASE i \in 1 .. Len(s)
    <3>1. Append(s, x)[i] = s[i]
      BY <2>2, <1>2
    <3> QED  BY <3>1, <2>2, <1>3, Zenon DEF Range
  <2> QED  BY <2>1, <2>2, <1>3
<1> QED  BY <1>3, <1>4, Zenon DEF Sequence, Range

\* The messages of a handler are appended to the outbox.
LEMMA ConcatFacts ==
  ASSUME NEW s, Sequence(s), NEW t, Sequence(t)
  PROVE  /\ Sequence(s \o t)
         /\ \A y \in Range(s \o t) : y \in Range(s) \/ y \in Range(t)
<1>1. PICK S : s \in Seq(S)
  BY Zenon DEF Sequence
<1>2. PICK T : t \in Seq(T)
  BY Zenon DEF Sequence
<1>3. s \in Seq(S \cup T) /\ t \in Seq(S \cup T)
  BY <1>1, <1>2
<1>4. /\ s \o t \in Seq(S \cup T) /\ DOMAIN (s \o t) = 1 .. Len(s) + Len(t)
      /\ DOMAIN s = 1 .. Len(s) /\ DOMAIN t = 1 .. Len(t)
      /\ Len(s) \in Nat /\ Len(t) \in Nat
  BY <1>3
<1>5. ASSUME NEW i \in DOMAIN (s \o t)
      PROVE  (s \o t)[i] \in Range(s) \/ (s \o t)[i] \in Range(t)
  <2>1. CASE i <= Len(s)
    <3>1. (s \o t)[i] = s[i] /\ i \in DOMAIN s
      BY <2>1, <1>3, <1>4
    <3> QED  BY <3>1, Zenon DEF Range
  <2>2. CASE ~(i <= Len(s))
    <3>1. (s \o t)[i] = t[i - Len(s)] /\ i - Len(s) \in DOMAIN t
      BY <2>2, <1>3, <1>4
    <3> QED  BY <3>1, Zenon DEF Range
  <2> QED  BY <2>1, <2>2, Zenon
<1> QED  BY <1>4, <1>5, Zenon DEF Sequence, Range

\* What one or two messages of a handler carry.
LEMMA ShortOutboxes ==
  ASSUME NEW E
  PROVE  /\ OutboxIn(E, <<>>)
         /\ \A a : BodyIn(E, a) => OutboxIn(E, <<a>>)
         /\ \A a, b : BodyIn(E, a) /\ BodyIn(E, b) => OutboxIn(E, <<a, b>>)
<1>1. OutboxIn(E, <<>>)
  <2>1. <<>> \in Seq({}) /\ DOMAIN <<>> = 1 .. 0
    OBVIOUS
  <2> QED  BY <2>1 DEF OutboxIn, Sequence, Range
<1>2. ASSUME NEW a, BodyIn(E, a) PROVE OutboxIn(E, <<a>>)
  <2>1. <<a>> \in Seq({a}) /\ DOMAIN <<a>> = {1} /\ <<a>>[1] = a
    OBVIOUS
  <2> QED  BY <2>1, <1>2, Zenon DEF OutboxIn, Sequence, Range
<1>3. ASSUME NEW a, NEW b, BodyIn(E, a), BodyIn(E, b) PROVE OutboxIn(E, <<a, b>>)
  <2>1. <<a, b>> \in Seq({a, b}) /\ DOMAIN <<a, b>> = {1, 2}
        /\ <<a, b>>[1] = a /\ <<a, b>>[2] = b
    OBVIOUS
  <2> QED  BY <2>1, <1>3, Zenon DEF OutboxIn, Sequence, Range
<1> QED  BY <1>1, <1>2, <1>3, Zenon

-----------------------------------------------------------------------------
\* Helpers of the handlers draw no epoch.

\* Whatever happens to other fields, the four fields keep their values.
LEMMA KeepsFacts ==
  ASSUME NEW d, Fields \subseteq DOMAIN d
  PROVE  /\ Keeps(d, d)
         /\ \A v : Keeps(d, [d EXCEPT !.mode = v])
         /\ \A v : Keeps(d, [d EXCEPT !.db = v])
         /\ \A v : Keeps(d, [d EXCEPT !.syncNodes = v])
         /\ \A v : Keeps(d, [d EXCEPT !.msgQueue = v])
         /\ \A v : Keeps(d, [d EXCEPT !.syncQueue = v])
         /\ \A v : Keeps(d, [d EXCEPT !.hung = v])
         /\ \A v : Keeps(d, [d EXCEPT !.waiting = v])
         /\ \A v : Keeps(d, [d EXCEPT !.csumCounter = v])
BY Zenon DEF Keeps, Fields

\* Keeps composes, as the handlers call one another.
LEMMA KeepsTransitive ==
  ASSUME NEW d, NEW x, NEW y, Keeps(d, x), Keeps(x, y)
  PROVE  Keeps(d, y)
BY Zenon DEF Keeps

\* A struct with the same epochs is as good.
LEMMA KeepsStruct ==
  ASSUME NEW E, NEW d, StructIn(E, d), NEW x, Keeps(d, x)
  PROVE  StructIn(E, x) /\ x.pid = d.pid /\ x.epochCounter >= d.epochCounter
BY DEF Keeps, StructIn

\* set_mode
LEMMA SetModeKeeps ==
  ASSUME NEW d, Fields \subseteq DOMAIN d, NEW mode
  PROVE  Keeps(d, SetMode(d, mode))
BY KeepsFacts, Zenon DEF SetMode

\* The loop that delivers messages.
LEMMA DeliverAllKeeps ==
  ASSUME NEW d, Fields \subseteq DOMAIN d, NEW qms
  PROVE  Keeps(d, DeliverAll(d, qms))
BY Zenon DEF DeliverAll, Keeps, Fields

\* deliver_message_queue
LEMMA DeliverMessageQueueKeeps ==
  ASSUME NEW d, Fields \subseteq DOMAIN d
  PROVE  Keeps(d, DeliverMessageQueue(d))
<1> DEFINE gone == {c \in DOMAIN d.msgQueue : ~ IsMember(d, d.msgQueue[c].from, d.msgQueue[c].pid)}
           due == {c \in DOMAIN d.msgQueue : SenderSynced(d, d.msgQueue[c])}
           taken == IF d.mode \in {"Synced", "Update"} THEN due ELSE {}
           qms == [i \in 1 .. Cardinality(taken) |-> d.msgQueue[InOrder(taken)[i]]]
           q == [c \in DOMAIN d.msgQueue \ (gone \cup taken) |-> d.msgQueue[c]]
           rest == [d EXCEPT !.msgQueue = q]
           later == [rest EXCEPT !.syncQueue = rest.syncQueue \o qms]
<1>1. DeliverMessageQueue(d) = IF d.mode = "Synced" THEN DeliverAll(rest, qms) ELSE later
  BY Zenon DEF DeliverMessageQueue
<1> HIDE DEF qms, q
<1>2. Keeps(d, rest)
  BY KeepsFacts, Zenon
<1>3. Fields \subseteq DOMAIN rest
  BY <1>2, Zenon DEF Keeps
<1> HIDE DEF rest
<1>4. Keeps(rest, DeliverAll(rest, qms)) /\ Keeps(rest, later)
  BY <1>3, DeliverAllKeeps, KeepsFacts, Zenon
<1> HIDE DEF later
<1> QED  BY <1>1, <1>2, <1>4, KeepsTransitive

\* deliver_sync_queue
LEMMA DeliverSyncQueueKeeps ==
  ASSUME NEW d, Fields \subseteq DOMAIN d
  PROVE  Keeps(d, DeliverSyncQueue(d))
<1> DEFINE x == DeliverAll(d, d.syncQueue)
<1>1. Keeps(d, x)
  BY DeliverAllKeeps, Zenon
<1>2. Fields \subseteq DOMAIN x
  BY <1>1, Zenon DEF Keeps
<1> HIDE DEF x
<1>3. Keeps(x, [x EXCEPT !.syncQueue = <<>>])
  BY <1>2, KeepsFacts, Zenon
<1>4. DeliverSyncQueue(d) = [x EXCEPT !.syncQueue = <<>>]
  BY Zenon DEF DeliverSyncQueue, x
<1> QED  BY <1>1, <1>3, <1>4, KeepsTransitive, Zenon

\* queue_message
LEMMA QueueMessageKeeps ==
  ASSUME NEW d, Fields \subseteq DOMAIN d, NEW qm
  PROVE  Keeps(d, QueueMessage(d, qm))
BY KeepsFacts, Zenon DEF QueueMessage

\* process_state_sync at the end of a round, whether the node is synced or not.
LEMMA RoundEndKeeps ==
  ASSUME NEW d, Fields \subseteq DOMAIN d, NEW n
  PROVE  Keeps(d, Synced(n, d)) /\ Keeps(d, Unsynced(d))
<1>1. ASSUME NEW x, Keeps(d, x), NEW mode
      PROVE  Keeps(d, DeliverMessageQueue(SetMode(x, mode)))
  <2>1. Fields \subseteq DOMAIN x
    BY <1>1, Zenon DEF Keeps
  <2>2. Keeps(x, SetMode(x, mode))
    BY <2>1, SetModeKeeps, Zenon
  <2>3. Fields \subseteq DOMAIN SetMode(x, mode)
    BY <2>1, <2>2, Zenon DEF Keeps
  <2>4. Keeps(SetMode(x, mode), DeliverMessageQueue(SetMode(x, mode)))
    BY <2>3, DeliverMessageQueueKeeps, Zenon
  <2> QED  BY <1>1, <2>2, <2>4, KeepsTransitive, Zenon
<1>2. Keeps(d, [d EXCEPT !.syncNodes[n].synced = TRUE])
  BY Zenon DEF Keeps, Fields
<1> QED  BY <1>1, <1>2, KeepsFacts, Zenon DEF Synced, Unsynced

-----------------------------------------------------------------------------
\* Handlers that draw no epoch.

\* A handler that sends nothing, or one message, and keeps the epochs.
LEMMA SimpleOutcomes ==
  ASSUME NEW E, NEW d, StructIn(E, d), NEW x, Keeps(d, x)
  PROVE  /\ \A o \in Quietly(x) : OutcomeIn(E, d, o)
         /\ \A body : BodyIn(E, body) => \A o \in Sending(x, body) : OutcomeIn(E, d, o)
<1>1. StructIn(E, x) /\ x.pid = d.pid /\ x.epochCounter >= d.epochCounter
  BY KeepsStruct, Zenon
<1>2. OutboxIn(E, <<>>)
  BY ShortOutboxes, Zenon
<1>3. ASSUME NEW out, OutboxIn(E, out), NEW fails
      PROVE  OutcomeIn(E, d, Outcome(x, out, fails))
  <2>1. Outcome(x, out, fails).d = x /\ Outcome(x, out, fails).out = out
    BY Zenon DEF Outcome
  <2> QED  BY <1>1, <1>3, <2>1, Zenon DEF OutcomeIn
<1>4. ASSUME NEW body, BodyIn(E, body)
      PROVE  OutboxIn(E, <<body>>)
  BY <1>4, ShortOutboxes, Zenon
<1> QED  BY <1>2, <1>3, <1>4, Zenon DEF Quietly, Sending

\* send_state answers with the epoch of the struct.
LEMMA StateKeeps ==
  ASSUME NEW E, NEW d, StructIn(E, d)
  PROVE  Keeps(d, WithState(d)) /\ BodyIn(E, OwnState(WithState(d)))
<1>1. Keeps(d, WithState(d))
  BY KeepsFacts, Zenon DEF WithState, StructIn
<1> QED  BY <1>1, Zenon DEF Keeps, StructIn, BodyIn, OwnState, State

\* handle_normal_message delivers or queues; no epoch changes.
LEMMA HandleNormalMessageIn ==
  ASSUME NEW E, NEW d, StructIn(E, d), NEW qm
  PROVE  \A o \in HandleNormalMessage(d, qm) : OutcomeIn(E, d, o)
<1>1. Fields \subseteq DOMAIN d
  BY Zenon DEF StructIn
<1>2. Keeps(d, IF d.mode = "Synced" THEN DeliverAll(d, <<qm>>) ELSE QueueMessage(d, qm))
  BY <1>1, DeliverAllKeeps, QueueMessageKeeps, Zenon
<1> QED  BY <1>2, SimpleOutcomes, Zenon DEF HandleNormalMessage

\* handle_sync_start adopts an epoch that somebody has drawn.
LEMMA HandleSyncStartIn ==
  ASSUME NEW E, NEW d, StructIn(E, d), NEW n, NEW from, NEW epoch \in E
  PROVE  \A o \in HandleSyncStart(n, d, from, epoch) : OutcomeIn(E, d, o)
<1> DEFINE e == [d EXCEPT !.epoch = epoch]
<1>1. StructIn(E, e) /\ e.pid = d.pid /\ e.epochCounter = d.epochCounter
  BY Zenon DEF StructIn, Fields
<1>2. HandleSyncStart(n, d, from, epoch)
        = IF from = n THEN Quietly(e) ELSE Sending(WithState(e), OwnState(WithState(e)))
  BY Zenon DEF HandleSyncStart
<1> HIDE DEF e
<1>3. Keeps(e, e) /\ Keeps(e, WithState(e)) /\ BodyIn(E, OwnState(WithState(e)))
  BY <1>1, StateKeeps, Zenon DEF Keeps
<1>4. \A o \in HandleSyncStart(n, d, from, epoch) : OutcomeIn(E, e, o)
  BY <1>1, <1>2, <1>3, SimpleOutcomes, Zenon
<1> QED  BY <1>1, <1>4, Zenon DEF OutcomeIn

\* The leader's updates carry the epoch of the round.
LEMMA SendUpdatesIn ==
  ASSUME NEW E, NEW d, StructIn(E, d), NEW n, NEW ix
  PROVE  \A o \in SendUpdates(n, d, ix) : OutcomeIn(E, d, o)
<1> DEFINE us == Updates(d.db, InodesToUpdate(ix[n], ix))
           bodies(s) == [i \in DOMAIN s |-> Update(d.epoch, s[i])]
           done(s) == Outcome(Synced(n, d), Append(bodies(s), UpdateComplete(d.epoch)),
                              Cardinality(us) - Len(s))
           failed(s) == Outcome(SetMode(d, "Error"), bodies(s),
                                Cardinality(us) - Len(s) + 1)
<1>1. SendUpdates(n, d, ix) = UNION {{done(s), failed(s)} : s \in Selections(us)}
  BY Zenon DEF SendUpdates
<1> SUFFICES ASSUME NEW s \in Selections(us)
             PROVE  OutcomeIn(E, d, done(s)) /\ OutcomeIn(E, d, failed(s))
  BY <1>1, Zenon
<1> DEFINE sent == bodies(s)
<1>2. PICK k \in 0 .. Cardinality(us) : s \in [1 .. k -> us]
  BY Zenon DEF Selections
<1>3. k \in Nat
  BY <1>2, SMT
<1>4. OutboxIn(E, sent)
  <2>1. \A i \in 1 .. k : BodyIn(E, sent[i])
    BY <1>2, Zenon DEF BodyIn, Update, StructIn
  <2>2. DOMAIN sent = 1 .. k
    BY <1>2, Zenon
  <2>3. sent \in [1 .. k -> {sent[i] : i \in 1 .. k}]
    BY <2>2, Zenon
  <2> HIDE DEF sent
  <2>4. sent \in Seq({sent[i] : i \in 1 .. k})
    BY <1>3, <2>3, FunctionIsSequence, Zenon
  <2> QED  BY <2>1, <2>2, <2>4, Zenon DEF OutboxIn, Sequence, Range
<1>5. OutboxIn(E, Append(sent, UpdateComplete(d.epoch)))
  <2>1. BodyIn(E, UpdateComplete(d.epoch))
    BY Zenon DEF BodyIn, UpdateComplete, StructIn
  <2> HIDE DEF sent
  <2> QED  BY <1>4, <2>1, AppendFacts, Zenon DEF OutboxIn
<1>6. Keeps(d, Synced(n, d)) /\ Keeps(d, SetMode(d, "Error"))
  BY RoundEndKeeps, SetModeKeeps, Zenon DEF StructIn
<1>7. done(s).d = Synced(n, d) /\ done(s).out = Append(sent, UpdateComplete(d.epoch))
      /\ failed(s).d = SetMode(d, "Error") /\ failed(s).out = sent
  BY Zenon DEF Outcome
<1> HIDE DEF done, failed, sent
<1> QED  BY <1>4, <1>5, <1>6, <1>7, KeepsStruct, Zenon DEF OutcomeIn

\* The handler of a State message, in every mode.
LEMMA ProcessStateIn ==
  ASSUME NEW E, NEW d, StructIn(E, d), NEW n, NEW from, NEW pid, NEW index
  PROVE  \A o \in ProcessState(n, d, from, pid, index) : OutcomeIn(E, d, o)
<1>1. Fields \subseteq DOMAIN d
  BY DEF StructIn
<1>2. \A o \in Quietly(SetMode(d, "Leave")) : OutcomeIn(E, d, o)
  BY <1>1, SetModeKeeps, SimpleOutcomes, Zenon
<1> DEFINE s == [d EXCEPT !.syncNodes[from].state = index]
<1>3. Keeps(d, s)
  BY <1>1, Zenon DEF Keeps, Fields
<1>4. ProcessState(n, d, from, pid, index) =
        IF ~ IsMember(d, from, pid) \/ d.syncNodes[from].state # NoState
        THEN Quietly(SetMode(d, "Leave"))
        ELSE IF HasAllStates(s) THEN ProcessStateSync(n, s) ELSE Quietly(s)
  BY Zenon DEF ProcessState
<1> HIDE DEF s
<1>5. StructIn(E, s) /\ s.pid = d.pid /\ s.epochCounter = d.epochCounter
  BY <1>3, KeepsStruct, Zenon DEF Keeps
<1>6. \A o \in ProcessStateSync(n, s) : OutcomeIn(E, s, o)
  <2>1. Keeps(s, Synced(n, s)) /\ Keeps(s, Unsynced(s))
    BY <1>5, RoundEndKeeps, Zenon DEF StructIn
  <2>2. /\ \A o \in Quietly(Synced(n, s)) : OutcomeIn(E, s, o)
        /\ \A o \in Quietly(Unsynced(s)) : OutcomeIn(E, s, o)
    BY <2>1, <1>5, SimpleOutcomes, Zenon
  <2>3. \A o \in SendUpdates(n, s, States(s)) : OutcomeIn(E, s, o)
    BY <1>5, SendUpdatesIn, Zenon
  <2> QED  BY <2>2, <2>3, Zenon DEF ProcessStateSync
<1>7. \A o \in Quietly(s) : OutcomeIn(E, d, o)
  BY <1>3, SimpleOutcomes, Zenon
<1>8. \A o \in ProcessStateSync(n, s) : OutcomeIn(E, d, o)
  BY <1>5, <1>6, Zenon DEF OutcomeIn
<1> QED  BY <1>2, <1>4, <1>7, <1>8, Zenon

\* Updates, their end, and verification.
LEMMA OtherHandlersIn ==
  ASSUME NEW E, NEW d, StructIn(E, d)
  PROVE  /\ \A u : \A o \in HandleUpdate(d, u) : OutcomeIn(E, d, o)
         /\ \A o \in HandleUpdateComplete(d) : OutcomeIn(E, d, o)
         /\ \A epoch \in E : \A id : \A o \in HandleVerifyRequest(d, epoch, id) : OutcomeIn(E, d, o)
         /\ \A epoch, id, csum : \A o \in HandleVerify(d, epoch, id, csum) : OutcomeIn(E, d, o)
<1>1. Fields \subseteq DOMAIN d
  BY DEF StructIn
<1>2. \A u : \A o \in HandleUpdate(d, u) : OutcomeIn(E, d, o)
  BY <1>1, KeepsFacts, SimpleOutcomes, Zenon DEF HandleUpdate
<1>3. \A o \in HandleUpdateComplete(d) : OutcomeIn(E, d, o)
  <2>1. Keeps(d, DeliverSyncQueue(d))
    BY <1>1, DeliverSyncQueueKeeps, Zenon
  <2>2. Keeps(DeliverSyncQueue(d), SetMode(DeliverSyncQueue(d), "Synced"))
    BY <1>1, <2>1, SetModeKeeps, Zenon DEF Keeps
  <2>3. Keeps(d, SetMode(DeliverSyncQueue(d), "Synced"))
    BY <2>1, <2>2, KeepsTransitive, Zenon
  <2> QED  BY <2>3, SimpleOutcomes, Zenon DEF HandleUpdateComplete
<1>4. ASSUME NEW epoch \in E, NEW id
      PROVE  \A o \in HandleVerifyRequest(d, epoch, id) : OutcomeIn(E, d, o)
  <2> DEFINE c == [d EXCEPT !.csum = Checksum(d.db), !.csumEpoch = epoch, !.csumId = id]
             body == [type |-> "verify", epoch |-> d.epoch, id |-> id, csum |-> c.csum]
  <2>1. StructIn(E, c) /\ c.pid = d.pid /\ c.epochCounter = d.epochCounter
    BY Zenon DEF StructIn, Fields
  <2>2. BodyIn(E, body)
    BY Zenon DEF BodyIn, StructIn
  <2>3. HandleVerifyRequest(d, epoch, id) = Sending(c, body)
    BY Zenon DEF HandleVerifyRequest
  <2> HIDE DEF c, body
  <2>4. Keeps(c, c)
    BY Zenon DEF Keeps
  <2>5. \A o \in Sending(c, body) : OutcomeIn(E, c, o)
    BY <2>1, <2>2, <2>4, SimpleOutcomes, Zenon
  <2> QED  BY <2>1, <2>3, <2>5, Zenon DEF OutcomeIn
<1>5. ASSUME NEW epoch, NEW id, NEW csum
      PROVE  \A o \in HandleVerify(d, epoch, id, csum) : OutcomeIn(E, d, o)
  <2>1. Keeps(d, SetMode(d, "Leave")) /\ Keeps(d, d)
    BY <1>1, SetModeKeeps, KeepsFacts, Zenon
  <2> QED  BY <2>1, SimpleOutcomes, Zenon DEF HandleVerify
<1> QED  BY <1>2, <1>3, <1>4, <1>5, Zenon

-----------------------------------------------------------------------------
\* A membership change draws an epoch.

\* The epoch handle_membership_change takes.
NextEpoch(n, d) == [count |-> d.epochCounter + 1, node |-> n, pid |-> d.pid]

\* The round that handle_membership_change sets up runs under the new epoch.
LEMMA NewRoundIn ==
  ASSUME NEW E, NEW n, NEW d, StructIn(E, d), NextEpoch(n, d) \in E, NoEpoch \in E,
         NEW members
  PROVE  /\ StructIn(E, NewRound(n, d, members))
         /\ NewRound(n, d, members).pid = d.pid
         /\ NewRound(n, d, members).epochCounter = d.epochCounter + 1
<1> DEFINE c == [d EXCEPT !.csumId = d.csumCounter, !.csumEpoch = NoEpoch]
           r == NewRound(n, d, members)
<1>1. /\ DOMAIN c = DOMAIN d /\ c.pid = d.pid /\ c.epochCounter = d.epochCounter
      /\ c.csumEpoch = NoEpoch
  BY Zenon DEF StructIn, Fields
<1>2. Fields \subseteq DOMAIN c
  BY <1>1, Zenon DEF StructIn
<1>3. /\ DOMAIN r = DOMAIN c /\ r.pid = c.pid /\ r.epochCounter = c.epochCounter + 1
      /\ r.csumEpoch = c.csumEpoch /\ r.epoch = NextEpoch(n, d)
  <2>1. ChecksumInvalidated(d) = c
    BY Zenon DEF ChecksumInvalidated
  <2> HIDE DEF c
  <2> QED  BY <1>2, <2>1, Zenon DEF NewRound, NextEpoch, Fields
<1> HIDE DEF r, c
<1>4. StructIn(E, r)
  BY <1>1, <1>2, <1>3 DEF StructIn
<1>5. r.pid = d.pid /\ r.epochCounter = d.epochCounter + 1
  BY <1>1, <1>3, Zenon
<1> QED  BY <1>4, <1>5, Zenon DEF r

\* An outcome of a callback that draws one epoch.
DrawingOutcomeIn(E, d, o) == OutcomeIn(E, d, o) /\ o.d.epochCounter = d.epochCounter + 1

\* handle_membership_change uses no epoch but the one it draws.
LEMMA HandleMembershipChangeIn ==
  ASSUME NEW E, NEW n, NEW d, StructIn(E, d), NextEpoch(n, d) \in E, NoEpoch \in E,
         NEW members
  PROVE  \A o \in HandleMembershipChange(n, d, members) : DrawingOutcomeIn(E, d, o)
<1> DEFINE r == NewRound(n, d, members)
           s == SetMode(r, "StartSync")
           sent == WithState(s)
<1>1. StructIn(E, r) /\ r.pid = d.pid /\ r.epochCounter = d.epochCounter + 1
  BY NewRoundIn
<1> HIDE DEF r
<1>2. Keeps(r, AloneInGroup(n, r))
  <2> DEFINE a == SetMode(r, "Synced")
             b == [a EXCEPT !.syncNodes[n].synced = TRUE]
             c == [b EXCEPT !.hung = (r.msgQueue # Empty)]
  <2>1. Keeps(r, a)
    BY <1>1, SetModeKeeps, Zenon DEF StructIn
  <2>2. Fields \subseteq DOMAIN a
    BY <1>1, <2>1, Zenon DEF Keeps, StructIn
  <2> HIDE DEF a
  <2>3. Keeps(a, b)
    BY <2>2, Zenon DEF Keeps, Fields
  <2>4. Fields \subseteq DOMAIN b
    BY <2>2, <2>3, Zenon DEF Keeps
  <2> HIDE DEF b
  <2>5. Keeps(b, c)
    BY <2>4, KeepsFacts, Zenon
  <2>6. AloneInGroup(n, r) = c
    BY Zenon DEF AloneInGroup, a, b, c
  <2> HIDE DEF c
  <2> QED  BY <2>1, <2>3, <2>5, <2>6, KeepsTransitive, Zenon
<1>3. Keeps(r, s) /\ StructIn(E, s)
  BY <1>1, SetModeKeeps, KeepsStruct, Zenon DEF StructIn
<1> HIDE DEF s
<1>4. Keeps(s, sent) /\ BodyIn(E, OwnState(sent))
  BY <1>3, StateKeeps, Zenon
<1>5. Keeps(r, sent) /\ BodyIn(E, SyncStart(s.epoch))
  BY <1>3, <1>4, KeepsTransitive, Zenon DEF BodyIn, SyncStart, StructIn
<1>6. ASSUME NEW x, Keeps(r, x), NEW out, OutboxIn(E, out), NEW fails
      PROVE  DrawingOutcomeIn(E, d, Outcome(x, out, fails))
  <2>1. StructIn(E, x) /\ x.pid = d.pid /\ x.epochCounter = d.epochCounter + 1
    BY <1>1, <1>6, KeepsStruct, Zenon DEF Keeps
  <2>2. d.epochCounter \in Nat
    BY Zenon DEF StructIn
  <2>3. Outcome(x, out, fails).d = x /\ Outcome(x, out, fails).out = out
    BY Zenon DEF Outcome
  <2> QED  BY <1>6, <2>1, <2>2, <2>3 DEF OutcomeIn, DrawingOutcomeIn
<1>7. /\ OutboxIn(E, <<>>) /\ OutboxIn(E, <<SyncStart(s.epoch)>>)
      /\ OutboxIn(E, <<SyncStart(s.epoch), OwnState(sent)>>)
  BY <1>4, <1>5, ShortOutboxes, Zenon
<1>8. HandleMembershipChange(n, d, members) \subseteq
        {Outcome(AloneInGroup(n, r), <<>>, 0), Outcome(s, <<>>, 0),
         Outcome(sent, <<SyncStart(s.epoch), OwnState(sent)>>, 0),
         Outcome(sent, <<SyncStart(s.epoch)>>, 1), Outcome(s, <<>>, 1)}
  BY Zenon DEF HandleMembershipChange, Quietly, r, s, sent
<1> HIDE DEF sent
<1> QED  BY <1>2, <1>3, <1>5, <1>6, <1>7, <1>8, Zenon

-----------------------------------------------------------------------------
\* How steps of the group change the sets of epochs.

\* What uses epochs of E uses epochs of any larger set.
LEMMA LargerSet ==
  ASSUME NEW E, NEW F, E \subseteq F
  PROVE  /\ \A d : StructIn(E, d) => StructIn(F, d)
         /\ \A s : InboxIn(E, s) => InboxIn(F, s)
         /\ \A s : OutboxIn(E, s) => OutboxIn(F, s)
BY Zenon DEF StructIn, InboxIn, EventIn, BodyIn, OutboxIn

\* A struct takes over from d: the counter has not gone back, or the process is
\* a later one.
Succeeds(d, x) ==
  /\ x.pid \in Nat /\ x.epochCounter \in Nat
  /\ x.pid > d.pid \/ (x.pid = d.pid /\ x.epochCounter >= d.epochCounter)

\* Drawn epochs stay drawn.
LEMMA DrawnGrows ==
  ASSUME NEW f, DOMAIN f = Node, NEW n \in Node, f[n].pid \in Nat,
         f[n].epochCounter \in Nat, NEW x, Succeeds(f[n], x)
  PROVE  DrawnSet(f) \subseteq DrawnSet([f EXCEPT ![n] = x])
<1> DEFINE g == [f EXCEPT ![n] = x]
<1> SUFFICES ASSUME NEW e \in DrawnSet(f) PROVE e \in DrawnSet(g)
  BY Zenon
<1>1. e \in Epoch /\ e.count \in Nat /\ e.pid \in Nat
  BY Zenon DEF DrawnSet, Epoch
<1>2. CASE e.count = 0
  BY <1>1, <1>2, Zenon DEF DrawnSet
<1>3. CASE e.count # 0
  <2>1. /\ e.node \in Node
        /\ \/ e.pid < f[e.node].pid
           \/ e.pid = f[e.node].pid /\ e.count <= f[e.node].epochCounter
    BY <1>3, Zenon DEF DrawnSet
  <2>2. CASE e.node = n
    <3>1. g[e.node] = x
      BY <2>2, Zenon
    <3>2. \/ e.pid < x.pid
          \/ e.pid = x.pid /\ e.count <= x.epochCounter
      BY <1>1, <2>1, <2>2 DEF Succeeds
    <3> QED  BY <1>1, <2>1, <3>1, <3>2, Zenon DEF DrawnSet
  <2>3. CASE e.node # n
    <3>1. g[e.node] = f[e.node]
      BY <2>1, <2>3, Zenon
    <3> QED  BY <1>1, <2>1, <3>1, Zenon DEF DrawnSet
  <2> QED  BY <2>2, <2>3, Zenon
<1> QED  BY <1>2, <1>3, Zenon

\* One struct changes.
LEMMA StructStep ==
  ASSUME NEW f, NEW ins, NEW outs, UsesDrawn(f, ins, outs),
         NEW n \in Node, NEW x, Succeeds(f[n], x),
         StructIn(DrawnSet([f EXCEPT ![n] = x]), x)
  PROVE  UsesDrawn([f EXCEPT ![n] = x], ins, outs)
<1> DEFINE g == [f EXCEPT ![n] = x]
<1>1. DrawnSet(f) \subseteq DrawnSet(g)
  BY DrawnGrows, Zenon DEF UsesDrawn, StructIn
<1>2. DOMAIN g = Node /\ \A m \in Node : g[m] = IF m = n THEN x ELSE f[m]
  BY Zenon DEF UsesDrawn
<1>3. StructIn(DrawnSet(g), x)
  BY Zenon
<1> HIDE DEF g
<1>4. \A m \in Node : /\ StructIn(DrawnSet(g), g[m])
                      /\ InboxIn(DrawnSet(g), ins[m]) /\ OutboxIn(DrawnSet(g), outs[m])
  BY <1>1, <1>2, <1>3, LargerSet, Zenon DEF UsesDrawn
<1>5. UsesDrawn(g, ins, outs)
  BY <1>2, <1>4, Zenon DEF UsesDrawn
<1> QED  BY <1>5, Zenon DEF g

\* One inbox or one outbox changes.
LEMMA BoxStep ==
  ASSUME NEW f, NEW ins, NEW outs, UsesDrawn(f, ins, outs), NEW n \in Node, NEW s
  PROVE  /\ InboxIn(DrawnSet(f), s) => UsesDrawn(f, [ins EXCEPT ![n] = s], outs)
         /\ OutboxIn(DrawnSet(f), s) => UsesDrawn(f, ins, [outs EXCEPT ![n] = s])
BY Zenon DEF UsesDrawn

-----------------------------------------------------------------------------
\* Actions.

\* The epoch before the first round counts as drawn.
LEMMA NoEpochDrawn == \A f : NoEpoch \in DrawnSet(f)
BY Zenon DEF NoEpoch, DrawnSet, Epoch

\* A callback of CPG ends with an outcome that uses drawn epochs.
LEMMA CompleteStep ==
  ASSUME IInv, NEW n \in Node, Ready(n), NEW o, Complete(n, o),
         OutcomeIn(DrawnSet([dfsm EXCEPT ![n] = o.d]), dfsm[n], o)
  PROVE  IInv'
<1> DEFINE g == [dfsm EXCEPT ![n] = o.d]
           ins == [inbox EXCEPT ![n] = Tail(inbox[n])]
           outs == [outbox EXCEPT ![n] = outbox[n] \o o.out]
<1>1. dfsm' = g /\ inbox' = ins /\ outbox' = outs
  BY Zenon DEF Complete
<1>2. UsesDrawn(g, inbox, outbox)
  <2>1. Succeeds(dfsm[n], o.d)
    BY Zenon DEF OutcomeIn, StructIn, Succeeds
  <2> QED  BY <2>1, StructStep, Zenon DEF IInv, OutcomeIn
<1>3. OutboxIn(DrawnSet(g), o.out)
  BY Zenon DEF OutcomeIn
<1> HIDE DEF g
<1>4. InboxIn(DrawnSet(g), Tail(inbox[n]))
  BY <1>2, TailFacts, Zenon DEF UsesDrawn, InboxIn, Ready
<1>5. OutboxIn(DrawnSet(g), outbox[n] \o o.out)
  BY <1>2, <1>3, ConcatFacts, Zenon DEF UsesDrawn, OutboxIn
<1>6. UsesDrawn(g, ins, outbox)
  BY <1>2, <1>4, BoxStep, Zenon
<1> HIDE DEF ins
<1>7. UsesDrawn(g, ins, outs)
  BY <1>5, <1>6, BoxStep, Zenon
<1> QED  BY <1>1, <1>7, Zenon DEF IInv

\* The same for an outcome that uses epochs drawn before the callback.
LEMMA CompleteQuietStep ==
  ASSUME IInv, NEW n \in Node, Ready(n), NEW o, Complete(n, o),
         OutcomeIn(DrawnSet(dfsm), dfsm[n], o)
  PROVE  IInv'
<1>1. DOMAIN dfsm = Node /\ StructIn(DrawnSet(dfsm), dfsm[n])
  BY Zenon DEF IInv, UsesDrawn
<1>2. Succeeds(dfsm[n], o.d)
  BY Zenon DEF OutcomeIn, StructIn, Succeeds
<1>3. DrawnSet(dfsm) \subseteq DrawnSet([dfsm EXCEPT ![n] = o.d])
  BY <1>1, <1>2, DrawnGrows, Zenon DEF StructIn
<1>4. OutcomeIn(DrawnSet([dfsm EXCEPT ![n] = o.d]), dfsm[n], o)
  BY <1>3, LargerSet, Zenon DEF OutcomeIn
<1> QED  BY <1>4, CompleteStep, Zenon

\* A membership change delivered by CPG keeps the invariant.
LEMMA OnConfchgStep ==
  ASSUME IInv, NEW n \in Node, OnConfchg(n)
  PROVE  IInv'
<1> DEFINE d == dfsm[n]
           e == NextEpoch(n, d)
<1>1. PICK o \in HandleMembershipChange(n, d, Head(inbox[n]).members) : Complete(n, o)
  BY Zenon DEF OnConfchg
<1>2. StructIn(DrawnSet(dfsm), d) /\ DOMAIN dfsm = Node
  BY Zenon DEF IInv, UsesDrawn
<1> DEFINE E == DrawnSet(dfsm) \cup {e}
<1>3. OutcomeIn(E, d, o) /\ o.d.epochCounter = d.epochCounter + 1
  <2>1. StructIn(E, d)
    BY <1>2, LargerSet, Zenon
  <2>2. NextEpoch(n, d) \in E /\ NoEpoch \in E
    BY NoEpochDrawn, Zenon
  <2> HIDE DEF d, E
  <2>3. DrawingOutcomeIn(E, d, o)
    BY <1>1, <2>1, <2>2, HandleMembershipChangeIn, Zenon
  <2> QED  BY <2>3, Zenon DEF DrawingOutcomeIn
<1>4. d.pid \in Nat /\ d.epochCounter \in Nat
  BY <1>2, Zenon DEF StructIn
<1>5. o.d.pid = d.pid /\ o.d.epochCounter >= d.epochCounter
  BY <1>3, Zenon DEF OutcomeIn
<1>6. E \subseteq DrawnSet([dfsm EXCEPT ![n] = o.d])
  <2>1. Succeeds(d, o.d)
    BY <1>3, <1>4, <1>5 DEF Succeeds
  <2>2. DrawnSet(dfsm) \subseteq DrawnSet([dfsm EXCEPT ![n] = o.d])
    BY <1>2, <1>4, <2>1, DrawnGrows, Zenon
  <2>3. e \in Epoch /\ e.node = n /\ e.pid = d.pid /\ e.count = d.epochCounter + 1
    BY <1>4 DEF NextEpoch, Epoch
  <2>4. [dfsm EXCEPT ![n] = o.d][n] = o.d
    BY <1>2, Zenon
  <2>5. e \in DrawnSet([dfsm EXCEPT ![n] = o.d])
    <3> HIDE DEF e
    <3> QED  BY <1>3, <1>4, <1>5, <2>3, <2>4 DEF DrawnSet
  <2> QED  BY <2>2, <2>5, Zenon
<1>7. OutcomeIn(DrawnSet([dfsm EXCEPT ![n] = o.d]), d, o)
  BY <1>3, <1>6, LargerSet, Zenon DEF OutcomeIn
<1> QED  BY <1>1, <1>7, CompleteStep, Zenon DEF OnConfchg

\* A message delivered by CPG keeps the invariant, whatever handler takes it.
LEMMA OnDeliverStep ==
  ASSUME IInv, NEW n \in Node, OnDeliver(n)
  PROVE  IInv'
<1> DEFINE d == dfsm[n]
           e == Head(inbox[n])
           b == e.body
           E == DrawnSet(dfsm)
<1>1. Ready(n) /\ e.type = "msg"
  BY Zenon DEF OnDeliver, Deliverable
<1>2. PICK o \in Outcomes(n, e.from, e.pid, e.body) : Complete(n, o)
  BY Zenon DEF OnDeliver
<1>3. StructIn(E, d) /\ BodyIn(E, b)
  <2>1. StructIn(E, d) /\ InboxIn(E, inbox[n])
    BY Zenon DEF IInv, UsesDrawn
  <2>2. e \in Range(inbox[n])
    BY <1>1, <2>1, TailFacts, Zenon DEF InboxIn, Ready
  <2> QED  BY <1>1, <2>1, <2>2, Zenon DEF InboxIn, EventIn
<1> HIDE DEF E
<1>4. OutcomeIn(E, d, o)
  <2> HIDE DEF e
  <2>1. CASE b.type = "normal"
    <3> DEFINE qm == [from |-> e.from, pid |-> e.pid, count |-> b.count, op |-> b.op]
    <3>1. Outcomes(n, e.from, e.pid, b) = HandleNormalMessage(d, qm)
      BY <2>1, Zenon DEF Outcomes
    <3> HIDE DEF qm, d
    <3> QED  BY <1>2, <1>3, <3>1, HandleNormalMessageIn, Zenon
  <2>2. CASE b.type = "syncStart"
    <3>1. Outcomes(n, e.from, e.pid, b) = HandleSyncStart(n, d, e.from, b.epoch)
      BY <2>2, Zenon DEF Outcomes
    <3>2. b.epoch \in E
      BY <1>3, <2>2, Zenon DEF BodyIn
    <3> HIDE DEF d
    <3> QED  BY <1>2, <1>3, <3>1, <3>2, HandleSyncStartIn, Zenon
  <2>3. CASE b.type = "state"
    <3>1. Outcomes(n, e.from, e.pid, b) = ProcessState(n, d, e.from, e.pid, b.index)
      BY <2>3, Zenon DEF Outcomes
    <3> HIDE DEF d
    <3> QED  BY <1>2, <1>3, <3>1, ProcessStateIn, Zenon
  <2>4. CASE b.type = "update"
    <3>1. Outcomes(n, e.from, e.pid, b) = HandleUpdate(d, b.update)
      BY <2>4, Zenon DEF Outcomes
    <3> HIDE DEF d
    <3> QED  BY <1>2, <1>3, <3>1, OtherHandlersIn, Zenon
  <2>5. CASE b.type = "updateComplete"
    <3>1. Outcomes(n, e.from, e.pid, b) = HandleUpdateComplete(d)
      BY <2>5, Zenon DEF Outcomes
    <3> HIDE DEF d
    <3> QED  BY <1>2, <1>3, <3>1, OtherHandlersIn, Zenon
  <2>6. CASE b.type = "verifyRequest"
    <3>1. Outcomes(n, e.from, e.pid, b) = HandleVerifyRequest(d, b.epoch, b.id)
      BY <2>6, Zenon DEF Outcomes
    <3>2. b.epoch \in E
      BY <1>3, <2>6, Zenon DEF BodyIn
    <3> HIDE DEF d
    <3> QED  BY <1>2, <1>3, <3>1, <3>2, OtherHandlersIn, Zenon
  <2>7. CASE b.type = "verify"
    <3>1. Outcomes(n, e.from, e.pid, b) = HandleVerify(d, b.epoch, b.id, b.csum)
      BY <2>7, Zenon DEF Outcomes
    <3> HIDE DEF d
    <3> QED  BY <1>2, <1>3, <3>1, OtherHandlersIn, Zenon
  <2>8. b.type \in {"normal", "syncStart", "state", "update", "updateComplete",
                    "verifyRequest", "verify"}
    BY <1>3, Zenon DEF BodyIn
  <2> QED  BY <2>1, <2>2, <2>3, <2>4, <2>5, <2>6, <2>7, <2>8, Zenon
<1> QED  BY <1>1, <1>2, <1>4, CompleteQuietStep, Zenon DEF E

\* Calls from outside CPG: the struct keeps its epochs, and one message with an
\* epoch of the struct, or a normal one, goes out.
LEMMA MulticastStep ==
  ASSUME IInv, NEW n \in Node, NEW ok, NEW failed, NEW body, Multicast(n, ok, failed, body),
         Keeps(dfsm[n], ok), Keeps(dfsm[n], failed), BodyIn(DrawnSet(dfsm), body)
  PROVE  IInv'
<1>1. DOMAIN dfsm = Node /\ StructIn(DrawnSet(dfsm), dfsm[n])
  BY Zenon DEF IInv, UsesDrawn
<1>2. ASSUME NEW x, Keeps(dfsm[n], x)
      PROVE  /\ UsesDrawn([dfsm EXCEPT ![n] = x], inbox, outbox)
             /\ DrawnSet(dfsm) \subseteq DrawnSet([dfsm EXCEPT ![n] = x])
  <2>1. StructIn(DrawnSet(dfsm), x) /\ Succeeds(dfsm[n], x)
    BY <1>1, <1>2, KeepsStruct DEF StructIn, Succeeds
  <2>2. DrawnSet(dfsm) \subseteq DrawnSet([dfsm EXCEPT ![n] = x])
    BY <1>1, <2>1, DrawnGrows, Zenon DEF StructIn
  <2>3. StructIn(DrawnSet([dfsm EXCEPT ![n] = x]), x)
    BY <2>1, <2>2, LargerSet, Zenon
  <2> QED  BY <2>1, <2>2, <2>3, StructStep, Zenon DEF IInv
<1>3. CASE dfsm' = [dfsm EXCEPT ![n] = failed] /\ inbox' = inbox /\ outbox' = outbox
  BY <1>2, <1>3, Zenon DEF IInv
<1>4. CASE /\ dfsm' = [dfsm EXCEPT ![n] = ok] /\ inbox' = inbox
           /\ outbox' = [outbox EXCEPT ![n] = Append(outbox[n], body)]
  <2> DEFINE g == [dfsm EXCEPT ![n] = ok]
  <2>1. UsesDrawn(g, inbox, outbox) /\ DrawnSet(dfsm) \subseteq DrawnSet(g)
    BY <1>2, Zenon
  <2> HIDE DEF g
  <2>2. OutboxIn(DrawnSet(g), outbox[n]) /\ BodyIn(DrawnSet(g), body)
    BY <2>1, Zenon DEF UsesDrawn, BodyIn
  <2>3. OutboxIn(DrawnSet(g), Append(outbox[n], body))
    BY <2>2, AppendFacts, Zenon DEF OutboxIn
  <2>4. UsesDrawn(g, inbox, [outbox EXCEPT ![n] = Append(outbox[n], body)])
    BY <2>1, <2>3, BoxStep, Zenon
  <2> QED  BY <1>4, <2>4, Zenon DEF IInv, g
<1> QED  BY <1>3, <1>4, Zenon DEF Multicast

\* send_message_sync keeps the invariant.
LEMMA SendMessageSyncStep ==
  ASSUME IInv, NEW n \in Node, NEW op, SendMessageSync(n, op)
  PROVE  IInv'
<1> DEFINE d == dfsm[n]
           c == d.msgCounter + 1
           ok == [d EXCEPT !.msgCounter = c, !.waiting = c, !.reply = NoReply]
           failed == [d EXCEPT !.msgCounter = c, !.reply = NoReply]
           body == [type |-> "normal", count |-> c, op |-> op]
<1>1. Fields \subseteq DOMAIN d
  BY Zenon DEF IInv, UsesDrawn, StructIn
<1>2. Keeps(d, ok) /\ Keeps(d, failed)
  BY <1>1, Zenon DEF Keeps, Fields
<1>3. BodyIn(DrawnSet(dfsm), body)
  BY Zenon DEF BodyIn
<1>4. Multicast(n, ok, failed, body)
  BY Zenon DEF SendMessageSync
<1> HIDE DEF ok, failed, body
<1> QED  BY <1>2, <1>3, <1>4, MulticastStep, Zenon

\* A verification request of the leader keeps the invariant.
LEMMA VerifyRequestStep ==
  ASSUME IInv, NEW n \in Node, VerifyRequest(n)
  PROVE  IInv'
<1> DEFINE d == dfsm[n]
           v == [d EXCEPT !.csumCounter = d.csumCounter + 1]
           body == [type |-> "verifyRequest", epoch |-> d.epoch, id |-> v.csumCounter]
<1>1. StructIn(DrawnSet(dfsm), d)
  BY Zenon DEF IInv, UsesDrawn
<1>2. Keeps(d, v)
  BY <1>1, KeepsFacts, Zenon DEF StructIn
<1>3. BodyIn(DrawnSet(dfsm), body)
  BY <1>1, Zenon DEF BodyIn, StructIn
<1>4. Multicast(n, v, v, body)
  BY Zenon DEF VerifyRequest
<1> HIDE DEF v, body
<1> QED  BY <1>2, <1>3, <1>4, MulticastStep, Zenon

\* The end of the ten seconds of send_message_sync keeps the invariant.
LEMMA SendTimeoutStep ==
  ASSUME IInv, NEW n \in Node, SendTimeout(n)
  PROVE  IInv'
<1> DEFINE x == [dfsm[n] EXCEPT !.waiting = NotWaiting]
<1>1. DOMAIN dfsm = Node /\ StructIn(DrawnSet(dfsm), dfsm[n])
  BY Zenon DEF IInv, UsesDrawn
<1>2. Keeps(dfsm[n], x)
  BY <1>1, KeepsFacts, Zenon DEF StructIn
<1>3. dfsm' = [dfsm EXCEPT ![n] = x] /\ inbox' = inbox /\ outbox' = outbox
  BY Zenon DEF SendTimeout
<1> HIDE DEF x
<1>4. StructIn(DrawnSet(dfsm), x) /\ Succeeds(dfsm[n], x)
  BY <1>1, <1>2, KeepsStruct DEF StructIn, Succeeds
<1>5. DrawnSet(dfsm) \subseteq DrawnSet([dfsm EXCEPT ![n] = x])
  BY <1>1, <1>4, DrawnGrows, Zenon DEF StructIn
<1>6. StructIn(DrawnSet([dfsm EXCEPT ![n] = x]), x)
  BY <1>4, <1>5, LargerSet, Zenon
<1> QED  BY <1>3, <1>4, <1>6, StructStep, Zenon DEF IInv

\* CPG orders a multicast: the members get what the outbox held.
LEMMA OrderStep ==
  ASSUME IInv, NEW n \in Node, Order(n)
  PROVE  IInv'
<1> DEFINE E == DrawnSet(dfsm)
           e == [type |-> "msg", from |-> n, pid |-> dfsm[n].pid, body |-> Head(outbox[n])]
           ins == [m \in Node |-> IF m \in ring[n] THEN Append(inbox[m], e) ELSE inbox[m]]
           outs == [outbox EXCEPT ![n] = Tail(outbox[n])]
<1>1. dfsm' = dfsm /\ inbox' = ins /\ outbox' = outs /\ outbox[n] # <<>>
  BY Zenon DEF Order
<1>2. OutboxIn(E, outbox[n])
  BY Zenon DEF IInv, UsesDrawn
<1>3. OutboxIn(E, Tail(outbox[n])) /\ BodyIn(E, Head(outbox[n]))
  BY <1>1, <1>2, TailFacts, Zenon DEF OutboxIn
<1>4. EventIn(E, e)
  BY <1>3, Zenon DEF EventIn
<1> HIDE DEF e, E
<1>5. ASSUME NEW m \in Node PROVE InboxIn(E, ins[m])
  <2>1. InboxIn(E, inbox[m])
    BY Zenon DEF IInv, UsesDrawn, E
  <2>2. InboxIn(E, Append(inbox[m], e))
    BY <1>4, <2>1, AppendFacts, Zenon DEF InboxIn
  <2> QED  BY <2>1, <2>2, Zenon
<1>6. DOMAIN ins = Node
  BY Zenon
<1> HIDE DEF ins
<1>7. UsesDrawn(dfsm, ins, outbox)
  BY <1>5, <1>6, Zenon DEF IInv, UsesDrawn, E
<1>8. UsesDrawn(dfsm, ins, outs)
  BY <1>3, <1>7, BoxStep, Zenon DEF E
<1> QED  BY <1>1, <1>8, Zenon DEF IInv

\* A configuration change carries no epoch.
LEMMA ReconfiguredIn ==
  ASSUME IInv, NEW rs
  PROVE  UsesDrawn(dfsm, Reconfigured(inbox, rs), outbox)
<1> DEFINE E == DrawnSet(dfsm)
<1>1. ASSUME NEW m \in Node, NEW members
      PROVE  InboxIn(E, Append(inbox[m], [type |-> "conf", members |-> members]))
  <2> DEFINE e == [type |-> "conf", members |-> members]
  <2>1. InboxIn(E, inbox[m])
    BY Zenon DEF IInv, UsesDrawn
  <2>2. EventIn(E, e)
    BY Zenon DEF EventIn
  <2> HIDE DEF e, E
  <2>3. InboxIn(E, Append(inbox[m], e))
    BY <2>1, <2>2, AppendFacts, Zenon DEF InboxIn
  <2> QED  BY <2>3, Zenon DEF e
<1>2. \A m \in Node : InboxIn(E, inbox[m])
  BY Zenon DEF IInv, UsesDrawn
<1> HIDE DEF E
<1>3. \A m \in Node : InboxIn(E, Reconfigured(inbox, rs)[m])
  BY <1>1, <1>2, Zenon DEF Reconfigured
<1>4. DOMAIN Reconfigured(inbox, rs) = Node
  BY Zenon DEF Reconfigured
<1> QED  BY <1>3, <1>4, Zenon DEF IInv, UsesDrawn, E

\* Joining, merging and partitions are configuration changes.
LEMMA MembershipStep ==
  ASSUME IInv, (\E n \in Node : Join(n)) \/ Merge \/ Partition
  PROVE  IInv'
<1>1. dfsm' = dfsm /\ outbox' = outbox /\ \E rs : inbox' = Reconfigured(inbox, rs)
  BY Zenon DEF Join, Merge, Partition
<1> QED  BY <1>1, ReconfiguredIn, Zenon DEF IInv

\* The mailboxes after process n has gone.
LEMMA DepartIn ==
  ASSUME IInv, NEW n \in Node, Depart(n)
  PROVE  UsesDrawn(dfsm, inbox', outbox')
<1> DEFINE ins == Reconfigured(inbox, {ring[n] \ {n}})
<1>1. inbox' = [ins EXCEPT ![n] = <<>>] /\ outbox' = [outbox EXCEPT ![n] = <<>>]
  BY Zenon DEF Depart
<1>2. UsesDrawn(dfsm, ins, outbox)
  BY ReconfiguredIn, Zenon
<1> HIDE DEF ins
<1>3. OutboxIn(DrawnSet(dfsm), <<>>) /\ InboxIn(DrawnSet(dfsm), <<>>)
  <2>1. OutboxIn(DrawnSet(dfsm), <<>>)
    BY ShortOutboxes, Zenon
  <2>2. DOMAIN <<>> = 1 .. 0
    OBVIOUS
  <2> QED  BY <2>1, <2>2 DEF OutboxIn, InboxIn, Range
<1>4. UsesDrawn(dfsm, [ins EXCEPT ![n] = <<>>], outbox)
  BY <1>2, <1>3, BoxStep, Zenon
<1>5. UsesDrawn(dfsm, [ins EXCEPT ![n] = <<>>], [outbox EXCEPT ![n] = <<>>])
  BY <1>3, <1>4, BoxStep, Zenon
<1> QED  BY <1>1, <1>5, Zenon

\* A restarted process draws under a process id of its own.
LEMMA CrashStep ==
  ASSUME IInv, NEW n \in Node, Crash(n)
  PROVE  IInv'
<1> DEFINE x == NewDfsm(dfsm[n].pid + 1, Reloaded(dfsm[n].db))
<1>1. UsesDrawn(dfsm, inbox', outbox') /\ dfsm' = [dfsm EXCEPT ![n] = x]
  BY DepartIn, Zenon DEF Crash
<1>2. dfsm[n].pid \in Nat /\ dfsm[n].epochCounter \in Nat
  BY Zenon DEF IInv, UsesDrawn, StructIn
<1>3. /\ Fields \subseteq DOMAIN x /\ x.pid = dfsm[n].pid + 1 /\ x.epochCounter = 0
      /\ x.epoch = [count |-> 0, node |-> 0, pid |-> dfsm[n].pid + 1] /\ x.csumEpoch = NoEpoch
  BY Zenon DEF NewDfsm, NoEpoch, Fields
<1> HIDE DEF x
<1>4. Succeeds(dfsm[n], x)
  BY <1>2, <1>3 DEF Succeeds
<1>5. x.epoch \in DrawnSet([dfsm EXCEPT ![n] = x])
  BY <1>2, <1>3 DEF DrawnSet, Epoch
<1>6. StructIn(DrawnSet([dfsm EXCEPT ![n] = x]), x)
  BY <1>2, <1>3, <1>5, NoEpochDrawn DEF StructIn
<1> QED  BY <1>1, <1>4, <1>6, StructStep, Zenon DEF IInv

\* Every node alone in its group, in its first round.
LEMMA InitHolds == Init => IInv
<1> SUFFICES ASSUME Init PROVE IInv
  BY Zenon
<1> DEFINE new(n) == NewDfsm(1, InitDb[n])
           x(n) == AloneInGroup(n, NewRound(n, new(n), [k \in {n} |-> 1]))
<1>1. \A n \in Node : dfsm[n] = x(n) /\ inbox[n] = <<>> /\ outbox[n] = <<>>
  BY Zenon DEF Init
<1>2. DOMAIN dfsm = Node /\ DOMAIN inbox = Node /\ DOMAIN outbox = Node
  BY Zenon DEF Init
<1>3. ASSUME NEW n \in Node PROVE StructIn(DrawnSet(dfsm), dfsm[n])
  <2> DEFINE members == [k \in {n} |-> 1]
             E == {NoEpoch, [count |-> 0, node |-> 0, pid |-> 1], NextEpoch(n, new(n))}
  <2>1. /\ Fields \subseteq DOMAIN new(n) /\ new(n).pid = 1 /\ new(n).epochCounter = 0
        /\ new(n).epoch = [count |-> 0, node |-> 0, pid |-> 1] /\ new(n).csumEpoch = NoEpoch
    BY Zenon DEF NewDfsm, NoEpoch, Fields
  <2> HIDE DEF new
  <2>2. StructIn(E, new(n))
    BY <2>1 DEF StructIn
  <2>3. /\ DOMAIN members = {n}
        /\ HandleMembershipChange(n, new(n), members) = {Outcome(x(n), <<>>, 0)}
    BY Zenon DEF HandleMembershipChange, Quietly
  <2>4. Outcome(x(n), <<>>, 0).d = x(n)
    BY Zenon DEF Outcome
  <2> HIDE DEF members, x, E
  <2>5. NoEpoch \in E /\ NextEpoch(n, new(n)) \in E
    BY Zenon DEF E
  <2>6. DrawingOutcomeIn(E, new(n), Outcome(x(n), <<>>, 0))
    BY <2>2, <2>3, <2>5, HandleMembershipChangeIn, Zenon
  <2>7. StructIn(E, x(n)) /\ x(n).pid = 1 /\ x(n).epochCounter = 1
    BY <2>1, <2>4, <2>6 DEF OutcomeIn, DrawingOutcomeIn
  <2>8. E \subseteq DrawnSet(dfsm)
    <3>1. NextEpoch(n, new(n)) = [count |-> 1, node |-> n, pid |-> 1]
      BY <2>1 DEF NextEpoch
    <3>2. [count |-> 1, node |-> n, pid |-> 1] \in DrawnSet(dfsm)
      BY <1>1, <2>7 DEF DrawnSet, Epoch
    <3>3. [count |-> 0, node |-> 0, pid |-> 1] \in DrawnSet(dfsm)
      BY Zenon DEF DrawnSet, Epoch
    <3> QED  BY <3>1, <3>2, <3>3, NoEpochDrawn, Zenon DEF E
  <2> QED  BY <1>1, <2>7, <2>8, LargerSet, Zenon
<1>4. OutboxIn(DrawnSet(dfsm), <<>>) /\ InboxIn(DrawnSet(dfsm), <<>>)
  <2>1. OutboxIn(DrawnSet(dfsm), <<>>)
    BY ShortOutboxes, Zenon
  <2>2. DOMAIN <<>> = 1 .. 0
    OBVIOUS
  <2> QED  BY <2>1, <2>2 DEF OutboxIn, InboxIn, Range
<1> HIDE DEF x
<1> QED  BY <1>1, <1>2, <1>3, <1>4, Zenon DEF IInv, UsesDrawn

\* Every step keeps the invariant.
LEMMA NextPreserves == IInv /\ [Next]_vars => IInv'
<1> SUFFICES ASSUME IInv, [Next]_vars PROVE IInv'
  BY Zenon
<1>1. ASSUME NEW n \in Node, IgnoreWrongEpoch(n) PROVE IInv'
  <2> DEFINE o == Outcome(dfsm[n], <<>>, 0)
  <2>1. StructIn(DrawnSet(dfsm), dfsm[n])
    BY Zenon DEF IInv, UsesDrawn
  <2>2. Keeps(dfsm[n], dfsm[n])
    BY Zenon DEF Keeps
  <2>3. OutcomeIn(DrawnSet(dfsm), dfsm[n], o)
    BY <2>1, <2>2, SimpleOutcomes, Zenon DEF Quietly
  <2> HIDE DEF o
  <2>4. Ready(n) /\ Complete(n, o)
    BY <1>1, Zenon DEF IgnoreWrongEpoch, Deliverable, o
  <2> QED  BY <2>3, <2>4, CompleteQuietStep, Zenon
<1>2. ASSUME NEW n \in Node, Disconnect(n) PROVE IInv'
  <2>1. Depart(n) /\ dfsm' = dfsm
    BY <1>2, Zenon DEF Disconnect
  <2> QED  BY <2>1, DepartIn, Zenon DEF IInv
<1>3. CASE UNCHANGED vars
  BY <1>3, Zenon DEF IInv, vars
<1> QED  BY Zenon, <1>1, <1>2, <1>3, OnConfchgStep, OnDeliverStep, SendTimeoutStep, VerifyRequestStep,
            OrderStep, MembershipStep, CrashStep, SendMessageSyncStep DEF Next

\* The invariant holds in every state.
LEMMA InvariantHolds == Spec => []IInv
BY InitHolds, NextPreserves, PTL DEF Spec

\* What is in flight uses drawn epochs.
LEMMA InFlightDrawn ==
  ASSUME IInv
  PROVE  \A b \in InFlight : b.type # "normal" => b.epoch \in DrawnSet(dfsm)
<1> SUFFICES ASSUME NEW n \in Node
             PROVE  /\ \A b \in Range(outbox[n]) : b.type # "normal" => b.epoch \in DrawnSet(dfsm)
                    /\ \A i \in DOMAIN inbox[n] :
                         inbox[n][i].type = "msg" /\ inbox[n][i].body.type # "normal"
                           => inbox[n][i].body.epoch \in DrawnSet(dfsm)
  BY Zenon DEF InFlight
<1>1. InboxIn(DrawnSet(dfsm), inbox[n]) /\ OutboxIn(DrawnSet(dfsm), outbox[n])
  BY Zenon DEF IInv, UsesDrawn
<1>2. \A i \in DOMAIN inbox[n] : inbox[n][i] \in Range(inbox[n])
  BY Zenon DEF Range
<1> QED  BY <1>1, <1>2, Zenon DEF InboxIn, OutboxIn, EventIn, BodyIn

\* Every epoch that a node uses or a message carries was drawn by the node it
\* names (handle_membership_change, handle_sync_start), for any number of nodes,
\* crashes, partitions and refused multicasts.
THEOREM EpochsSeparateRounds == Spec => []EpochsAreDrawn
<1>1. IInv => EpochsAreDrawn
  <2> SUFFICES ASSUME IInv PROVE EpochsAreDrawn
    BY Zenon
  <2>1. \A n \in Node : dfsm[n].epoch \in DrawnSet(dfsm) /\ dfsm[n].csumEpoch \in DrawnSet(dfsm)
    BY Zenon DEF IInv, UsesDrawn, StructIn
  <2>2. \A e \in DrawnSet(dfsm) : Drawn(e)
    BY Zenon DEF DrawnSet, Drawn
  <2> QED  BY <2>1, <2>2, InFlightDrawn, Zenon DEF EpochsAreDrawn
<1> QED  BY <1>1, InvariantHolds, PTL

\* The epoch the next membership change at a node takes is used by no node and
\* carried by no message, however old: the epoch check of handle_dfsm_message
\* tells a new round from every earlier one.
NextEpochUnused ==
  \A n \in Node :
    /\ \A m \in Node : dfsm[m].epoch # NextEpoch(n, dfsm[n])
    /\ \A b \in InFlight : b.type # "normal" => b.epoch # NextEpoch(n, dfsm[n])

\* handle_membership_change never takes an epoch that is in use.
THEOREM NextEpochIsUnused == Spec => []NextEpochUnused
<1>1. IInv => NextEpochUnused
  <2> SUFFICES ASSUME IInv PROVE NextEpochUnused
    OBVIOUS
  <2> SUFFICES ASSUME NEW n \in Node
               PROVE  NextEpoch(n, dfsm[n]) \notin DrawnSet(dfsm)
    <3>1. \A m \in Node : dfsm[m].epoch \in DrawnSet(dfsm)
      BY Zenon DEF IInv, UsesDrawn, StructIn
    <3> QED  BY <3>1, InFlightDrawn, Zenon DEF NextEpochUnused
  <2>1. dfsm[n].pid \in Nat /\ dfsm[n].epochCounter \in Nat
    BY Zenon DEF IInv, UsesDrawn, StructIn
  <2> DEFINE e == NextEpoch(n, dfsm[n])
  <2>2. e.count = dfsm[n].epochCounter + 1 /\ e.node = n /\ e.pid = dfsm[n].pid
    BY Zenon DEF NextEpoch
  <2> HIDE DEF e
  <2>3. e \notin DrawnSet(dfsm)
    BY <2>1, <2>2 DEF DrawnSet
  <2> QED  BY <2>3, Zenon DEF e
<1> QED  BY <1>1, InvariantHolds, PTL

-----------------------------------------------------------------------------
\* A request is delivered once.

Distinct(s) == Sequence(s) /\ IsInjective(s)
KeysOf(qms) == [i \in DOMAIN qms |-> Key(qms[i])]

-----------------------------------------------------------------------------
\* Sequences without repetition.

\* The domain of a sequence, and the empty one.
LEMMA SequenceFacts ==
  /\ \A s : Sequence(s) => Len(s) \in Nat /\ DOMAIN s = 1 .. Len(s)
  /\ Distinct(<<>>) /\ Range(<<>>) = {}
<1>1. ASSUME NEW s, Sequence(s) PROVE Len(s) \in Nat /\ DOMAIN s = 1 .. Len(s)
  <2>1. PICK S : s \in Seq(S)
    BY <1>1, Zenon DEF Sequence
  <2> QED  BY <2>1
<1>2. <<>> \in Seq({}) /\ DOMAIN <<>> = {}
  OBVIOUS
<1> QED  BY <1>1, <1>2, Zenon DEF Distinct, Sequence, IsInjective, Range

\* One message alone.
LEMMA SingletonDistinct ==
  ASSUME NEW x
  PROVE  Distinct(<<x>>) /\ Range(<<x>>) = {x}
<1>1. <<x>> \in Seq({x}) /\ DOMAIN <<x>> = {1} /\ <<x>>[1] = x
  OBVIOUS
<1> QED  BY <1>1, Zenon DEF Distinct, Sequence, IsInjective, Range

\* A queue is delivered after what has been delivered before.
LEMMA ConcatDistinct ==
  ASSUME NEW s, Distinct(s), NEW t, Distinct(t), Range(s) \cap Range(t) = {}
  PROVE  Distinct(s \o t) /\ Range(s \o t) \subseteq Range(s) \cup Range(t)
<1>1. Sequence(s \o t) /\ Range(s \o t) \subseteq Range(s) \cup Range(t)
  BY ConcatFacts, Zenon DEF Distinct
<1>2. PICK S : s \in Seq(S)
  BY Zenon DEF Distinct, Sequence
<1>3. PICK T : t \in Seq(T)
  BY Zenon DEF Distinct, Sequence
<1>4. s \in Seq(S \cup T) /\ t \in Seq(S \cup T)
  BY <1>2, <1>3
<1>5. /\ DOMAIN (s \o t) = 1 .. Len(s) + Len(t)
      /\ DOMAIN s = 1 .. Len(s) /\ DOMAIN t = 1 .. Len(t)
      /\ Len(s) \in Nat /\ Len(t) \in Nat
  BY <1>4
<1>6. ASSUME NEW i \in DOMAIN (s \o t)
      PROVE  \/ i \in DOMAIN s /\ (s \o t)[i] = s[i]
             \/ i - Len(s) \in DOMAIN t /\ (s \o t)[i] = t[i - Len(s)]
  <2>1. CASE i <= Len(s)
    BY <2>1, <1>4, <1>5
  <2>2. CASE ~(i <= Len(s))
    BY <2>2, <1>4, <1>5
  <2> QED  BY <2>1, <2>2, Zenon
<1>7. \A i \in DOMAIN s, j \in DOMAIN t : s[i] # t[j]
  BY Zenon DEF Range
<1>8. ASSUME NEW i \in DOMAIN (s \o t), NEW j \in DOMAIN (s \o t),
             (s \o t)[i] = (s \o t)[j]
      PROVE  i = j
  <2>1. CASE /\ i \in DOMAIN s /\ (s \o t)[i] = s[i]
             /\ j \in DOMAIN s /\ (s \o t)[j] = s[j]
    BY <1>8, <2>1, Zenon DEF Distinct, IsInjective
  <2>2. CASE /\ i - Len(s) \in DOMAIN t /\ (s \o t)[i] = t[i - Len(s)]
             /\ j - Len(s) \in DOMAIN t /\ (s \o t)[j] = t[j - Len(s)]
    <3>1. i - Len(s) = j - Len(s)
      BY <1>8, <2>2, Zenon DEF Distinct, IsInjective
    <3> QED  BY <3>1, <1>5
  <2> QED  BY <1>6, <1>7, <1>8, <2>1, <2>2, Zenon
<1> QED  BY <1>1, <1>8, Zenon DEF Distinct, IsInjective

\* A full queue drops its oldest message.
LEMMA TailDistinct ==
  ASSUME NEW s, Distinct(s), s # <<>>
  PROVE  Distinct(Tail(s)) /\ Range(Tail(s)) \subseteq Range(s)
<1>1. Sequence(Tail(s)) /\ Range(Tail(s)) \subseteq Range(s)
  BY TailFacts, Zenon DEF Distinct
<1>2. PICK S : s \in Seq(S)
  BY Zenon DEF Distinct, Sequence
<1>3. Len(s) \in Nat \ {0} /\ DOMAIN s = 1 .. Len(s) /\ DOMAIN Tail(s) = 1 .. Len(s) - 1
  BY <1>2
<1>4. \A i \in DOMAIN Tail(s) : i + 1 \in DOMAIN s /\ Tail(s)[i] = s[i + 1]
  BY <1>2, <1>3
<1>5. ASSUME NEW i \in DOMAIN Tail(s), NEW j \in DOMAIN Tail(s), Tail(s)[i] = Tail(s)[j]
      PROVE  i = j
  <2>1. i + 1 = j + 1
    BY <1>4, <1>5, Zenon DEF Distinct, IsInjective
  <2> QED  BY <2>1, <1>3
<1> QED  BY <1>1, <1>5, Zenon DEF Distinct, IsInjective

\* Sequences are equal if their elements are.
LEMMA SameElements ==
  ASSUME NEW S, NEW s \in Seq(S), NEW t \in Seq(S), Len(s) = Len(t),
         \A i \in 1 .. Len(s) : s[i] = t[i]
  PROVE  s = t
OBVIOUS

\* A message appended to a queue.
LEMMA AppendIsConcatenation ==
  ASSUME NEW S, NEW s \in Seq(S), NEW x \in S
  PROVE  Append(s, x) = s \o <<x>>
<1>1. Append(s, x) \in Seq(S) /\ s \o <<x>> \in Seq(S)
  OBVIOUS
<1>2. Len(Append(s, x)) = Len(s) + 1 /\ Len(s \o <<x>>) = Len(s) + 1
  OBVIOUS
<1>3. \A i \in 1 .. Len(s) + 1 : Append(s, x)[i] = (s \o <<x>>)[i]
  OBVIOUS
<1> QED  BY <1>1, <1>2, <1>3, SameElements, Zenon

\* The keys of the messages of a queue, as the queue changes.
LEMMA KeysOfFacts ==
  /\ KeysOf(<<>>) = <<>>
  /\ \A x : KeysOf(<<x>>) = <<Key(x)>>
  /\ \A s : Sequence(s) => Sequence(KeysOf(s))
  /\ \A s : Sequence(s) /\ s # <<>> => KeysOf(s) # <<>> /\ KeysOf(Tail(s)) = Tail(KeysOf(s))
  /\ \A s, t : Sequence(s) /\ Sequence(t) => KeysOf(s \o t) = KeysOf(s) \o KeysOf(t)
<1>1. KeysOf(<<>>) = <<>>
  BY DEF KeysOf
<1>2. ASSUME NEW x PROVE KeysOf(<<x>>) = <<Key(x)>>
  BY DEF KeysOf
<1>3. ASSUME NEW s, Sequence(s)
      PROVE  /\ KeysOf(s) \in Seq(Range(KeysOf(s))) /\ Len(KeysOf(s)) = Len(s)
             /\ DOMAIN s = 1 .. Len(s) /\ Len(s) \in Nat
             /\ \A i \in 1 .. Len(s) : KeysOf(s)[i] = Key(s[i])
  <2>1. DOMAIN s = 1 .. Len(s) /\ Len(s) \in Nat
    BY <1>3, SequenceFacts, Zenon
  <2>2. DOMAIN KeysOf(s) = 1 .. Len(s) /\ \A i \in 1 .. Len(s) : KeysOf(s)[i] = Key(s[i])
    BY <2>1, Zenon DEF KeysOf
  <2>3. KeysOf(s) \in [1 .. Len(s) -> Range(KeysOf(s))]
    BY <2>2, Zenon DEF Range, KeysOf
  <2> QED  BY <2>1, <2>2, <2>3
<1>4. ASSUME NEW s, Sequence(s), s # <<>>
      PROVE  KeysOf(s) # <<>> /\ KeysOf(Tail(s)) = Tail(KeysOf(s))
  <2>1. PICK S : s \in Seq(S)
    BY <1>4, Zenon DEF Sequence
  <2>2. Len(s) # 0
    BY <2>1, <1>4
  <2>3. Sequence(Tail(s)) /\ Len(Tail(s)) = Len(s) - 1
        /\ \A i \in 1 .. Len(s) - 1 : Tail(s)[i] = s[i + 1]
    BY <2>1, <2>2 DEF Sequence
  <2>4. KeysOf(s) # <<>>
    BY <1>3, <1>4, <2>2, Zenon
  <2>5. /\ Tail(KeysOf(s)) \in Seq(Range(KeysOf(s)))
        /\ Len(Tail(KeysOf(s))) = Len(s) - 1
        /\ \A i \in 1 .. Len(s) - 1 : Tail(KeysOf(s))[i] = KeysOf(s)[i + 1]
    BY <1>3, <1>4, <2>2
  <2>6. ASSUME NEW i \in 1 .. Len(s) - 1
        PROVE  KeysOf(Tail(s))[i] = Tail(KeysOf(s))[i]
    <3>1. KeysOf(Tail(s))[i] = Key(Tail(s)[i])
      BY <1>3, <2>3, Zenon
    <3>2. i + 1 \in 1 .. Len(s)
      BY <1>3, <1>4
    <3>3. KeysOf(s)[i + 1] = Key(s[i + 1])
      BY <1>3, <1>4, <3>2, Zenon
    <3> QED  BY <3>1, <3>3, <2>3, <2>5, Zenon
  <2>7. KeysOf(Tail(s)) \in Seq(Range(KeysOf(Tail(s)))) /\ Len(KeysOf(Tail(s))) = Len(s) - 1
    BY <1>3, <2>3, Zenon
  <2> QED  BY <2>4, <2>5, <2>6, <2>7, SameElements
<1>5. ASSUME NEW s, NEW t, Sequence(s), Sequence(t)
      PROVE  KeysOf(s \o t) = KeysOf(s) \o KeysOf(t)
  <2>1. PICK S : s \in Seq(S)
    BY <1>5, Zenon DEF Sequence
  <2>2. PICK T : t \in Seq(T)
    BY <1>5, Zenon DEF Sequence
  <2>3. s \in Seq(S \cup T) /\ t \in Seq(S \cup T)
    BY <2>1, <2>2
  <2>4. Sequence(s \o t) /\ Len(s \o t) = Len(s) + Len(t)
    BY <2>3 DEF Sequence
  <2> DEFINE U == Range(KeysOf(s)) \cup Range(KeysOf(t))
  <2>5. KeysOf(s) \in Seq(U) /\ KeysOf(t) \in Seq(U)
    BY <1>3, <1>5
  <2> HIDE DEF U
  <2>6. KeysOf(s) \o KeysOf(t) \in Seq(U) /\ Len(KeysOf(s) \o KeysOf(t)) = Len(s) + Len(t)
    BY <1>3, <1>5, <2>5
  <2>7. ASSUME NEW i \in 1 .. Len(s) + Len(t)
        PROVE  KeysOf(s \o t)[i] = (KeysOf(s) \o KeysOf(t))[i]
    <3>1. KeysOf(s \o t)[i] = Key((s \o t)[i])
      BY <1>3, <2>4, Zenon
    <3>2. CASE i <= Len(s)
      <4>1. (s \o t)[i] = s[i]
        BY <2>3, <3>2
      <4>2. (KeysOf(s) \o KeysOf(t))[i] = KeysOf(s)[i]
        BY <2>5, <3>2, <1>3, <1>5
      <4>3. KeysOf(s)[i] = Key(s[i])
        BY <1>3, <1>5, <3>2
      <4> QED  BY <3>1, <4>1, <4>2, <4>3, Zenon
    <3>3. CASE ~(i <= Len(s))
      <4>0. i - Len(s) \in 1 .. Len(t)
        BY <3>3, <1>3, <1>5
      <4>1. (s \o t)[i] = t[i - Len(s)]
        BY <2>3, <3>3
      <4>2. (KeysOf(s) \o KeysOf(t))[i] = KeysOf(t)[i - Len(s)]
        BY <2>5, <3>3, <1>3, <1>5
      <4>3. KeysOf(t)[i - Len(s)] = Key(t[i - Len(s)])
        BY <1>3, <1>5, <4>0, Zenon
      <4> QED  BY <3>1, <4>1, <4>2, <4>3, Zenon
    <3> QED  BY <3>2, <3>3, Zenon
  <2>8. KeysOf(s \o t) \in Seq(Range(KeysOf(s \o t))) /\ Len(KeysOf(s \o t)) = Len(s) + Len(t)
    BY <1>3, <2>4, Zenon
  <2> DEFINE a == KeysOf(s \o t)
             b == KeysOf(s) \o KeysOf(t)
             V == Range(a) \cup U
  <2>9. a \in Seq(Range(a)) /\ b \in Seq(U) /\ Len(a) = Len(b)
        /\ \A i \in 1 .. Len(a) : a[i] = b[i]
    BY <2>6, <2>7, <2>8, Zenon
  <2> HIDE DEF a, b
  <2>10. a \in Seq(V) /\ b \in Seq(V)
    BY <2>9
  <2> HIDE DEF V
  <2>11. a = b
    BY <2>9, <2>10, SameElements, Zenon
  <2> QED  BY <2>11, Zenon DEF a, b
<1> QED  BY <1>1, <1>2, <1>3, <1>4, <1>5, Zenon DEF Sequence

-----------------------------------------------------------------------------
\* The order of a BTreeMap.

\* A finite set of counts stays finite as messages come and go, and InOrder lists
\* each of its members once.  (Shown below, from the theorems on finite sets.)
CountsAreListed ==
  /\ IsFiniteSet({})
  /\ \A C, D : IsFiniteSet(C) /\ D \subseteq C => IsFiniteSet(D)
  /\ \A C, c : IsFiniteSet(C) => IsFiniteSet(C \cup {c})
  /\ \A C : C \subseteq Nat /\ IsFiniteSet(C) =>
         /\ Cardinality(C) \in Nat
         /\ InOrder(C) \in [1 .. Cardinality(C) -> C]
         /\ IsInjective(InOrder(C))

-----------------------------------------------------------------------------
\* What one process holds.

QueueFields == {"pid", "msgCounter", "log", "syncQueue", "msgQueue"}

SyncKeys(d) == Range(KeysOf(d.syncQueue))
QueueKeys(d) == {Key(d.msgQueue[c]) : c \in DOMAIN d.msgQueue}

\* The keys of the messages a process has delivered or queued.
Held(d) == Range(d.log) \cup SyncKeys(d) \cup QueueKeys(d)

\* A BTreeMap from counts to the messages with that count.
IsQueue(q) ==
  IsFiniteSet(DOMAIN q) /\ DOMAIN q \subseteq Nat /\ \A c \in DOMAIN q : q[c].count = c

\* No message is twice in the log and the queues.
Once(d) ==
  /\ QueueFields \subseteq DOMAIN d
  /\ Distinct(d.log)
  /\ Sequence(d.syncQueue) /\ IsInjective(KeysOf(d.syncQueue))
  /\ IsQueue(d.msgQueue)
  /\ Range(d.log) \cap SyncKeys(d) = {}
  /\ Range(d.log) \cap QueueKeys(d) = {}
  /\ SyncKeys(d) \cap QueueKeys(d) = {}

\* x is a struct after a step on d that took in the messages of K.
After(K, d, x) ==
  /\ Once(x) /\ Held(x) \subseteq Held(d) \cup K
  /\ x.pid = d.pid /\ x.msgCounter = d.msgCounter

\* A handler leaves the queues alone.
SameQueues(d, x) ==
  DOMAIN x = DOMAIN d /\ \A f \in QueueFields : x[f] = d[f]

\* Nothing but the listed fields counts.
LEMMA SameQueuesAfter ==
  ASSUME NEW d, Once(d), NEW x, SameQueues(d, x)
  PROVE  After({}, d, x)
<1>1. x.log = d.log /\ x.syncQueue = d.syncQueue /\ x.msgQueue = d.msgQueue
      /\ x.pid = d.pid /\ x.msgCounter = d.msgCounter /\ QueueFields \subseteq DOMAIN x
  BY Zenon DEF SameQueues, QueueFields, Once
<1>2. SyncKeys(x) = SyncKeys(d) /\ QueueKeys(x) = QueueKeys(d)
  BY <1>1, Zenon DEF SyncKeys, QueueKeys
<1> QED  BY <1>1, <1>2, Zenon DEF After, Once, Held

\* Whatever happens to other fields.
LEMMA SameQueuesFacts ==
  ASSUME NEW d, QueueFields \subseteq DOMAIN d
  PROVE  /\ SameQueues(d, d)
         /\ \A v : SameQueues(d, [d EXCEPT !.mode = v])
         /\ \A v : SameQueues(d, [d EXCEPT !.db = v])
         /\ \A v : SameQueues(d, [d EXCEPT !.epoch = v])
         /\ \A v : SameQueues(d, [d EXCEPT !.syncNodes = v])
         /\ \A v : SameQueues(d, [d EXCEPT !.hung = v])
         /\ \A v : SameQueues(d, [d EXCEPT !.waiting = v])
         /\ \A v : SameQueues(d, [d EXCEPT !.csumCounter = v])
         /\ \A v, w, u : SameQueues(d, [d EXCEPT !.csum = v, !.csumEpoch = w, !.csumId = u])
BY Zenon DEF SameQueues, QueueFields

\* set_mode
LEMMA SetModeSame ==
  ASSUME NEW d, QueueFields \subseteq DOMAIN d, NEW mode
  PROVE  SameQueues(d, SetMode(d, mode))
BY SameQueuesFacts, Zenon DEF SetMode

\* The handlers call one another.
LEMMA AfterTransitive ==
  ASSUME NEW K, NEW d, NEW x, NEW y, After({}, d, x), After(K, x, y)
  PROVE  After(K, d, y)
BY Zenon DEF After

\* The messages qms, which are held nowhere, are delivered.
LEMMA DeliverAllAfter ==
  ASSUME NEW d, Once(d), NEW qms, Sequence(qms), IsInjective(KeysOf(qms)),
         Range(KeysOf(qms)) \cap Held(d) = {}
  PROVE  /\ After(Range(KeysOf(qms)), d, DeliverAll(d, qms))
         /\ DOMAIN DeliverAll(d, qms) = DOMAIN d
         /\ DeliverAll(d, qms).syncQueue = d.syncQueue
<1> DEFINE x == DeliverAll(d, qms)
<1>1. /\ DOMAIN x = DOMAIN d
      /\ x.log = d.log \o KeysOf(qms)
      /\ x.syncQueue = d.syncQueue /\ x.msgQueue = d.msgQueue
      /\ x.pid = d.pid /\ x.msgCounter = d.msgCounter
  BY Zenon DEF DeliverAll, Once, QueueFields, KeysOf
<1> HIDE DEF x
<1>2. SyncKeys(x) = SyncKeys(d) /\ QueueKeys(x) = QueueKeys(d)
  BY <1>1, Zenon DEF SyncKeys, QueueKeys
<1>3. Distinct(KeysOf(qms))
  BY KeysOfFacts, Zenon DEF Distinct
<1>4. Distinct(x.log) /\ Range(x.log) \subseteq Range(d.log) \cup Range(KeysOf(qms))
  BY <1>1, <1>3, ConcatDistinct DEF Once, Held
<1>5. Range(KeysOf(qms)) \cap SyncKeys(d) = {} /\ Range(KeysOf(qms)) \cap QueueKeys(d) = {}
  BY Zenon DEF Held
<1>6. Once(x)
  BY <1>1, <1>2, <1>4, <1>5, Zenon DEF Once
<1>7. Held(x) \subseteq Held(d) \cup Range(KeysOf(qms))
  BY <1>2, <1>4, Zenon DEF Held
<1> QED  BY <1>1, <1>6, <1>7, Zenon DEF After, x

\* deliver_sync_queue: the sync queue moves to the log.
LEMMA DeliverSyncQueueAfter ==
  ASSUME NEW d, Once(d)
  PROVE  After({}, d, DeliverSyncQueue(d))
<1> DEFINE x == DeliverSyncQueue(d)
<1>1. /\ DOMAIN x = DOMAIN d
      /\ x.log = d.log \o KeysOf(d.syncQueue)
      /\ x.syncQueue = <<>> /\ x.msgQueue = d.msgQueue
      /\ x.pid = d.pid /\ x.msgCounter = d.msgCounter
  BY Zenon DEF DeliverSyncQueue, DeliverAll, Once, QueueFields, KeysOf
<1> HIDE DEF x
<1>2. SyncKeys(x) = {} /\ QueueKeys(x) = QueueKeys(d)
  BY <1>1, KeysOfFacts, SequenceFacts DEF SyncKeys, QueueKeys
<1>3. Distinct(KeysOf(d.syncQueue))
  BY KeysOfFacts, Zenon DEF Distinct, Once
<1>4. Distinct(x.log) /\ Range(x.log) \subseteq Range(d.log) \cup SyncKeys(d)
  BY <1>1, <1>3, ConcatDistinct DEF Once, SyncKeys
<1>5. Once(x)
  BY <1>1, <1>2, <1>4, SequenceFacts, KeysOfFacts, Zenon DEF Once, Distinct
<1>6. Held(x) \subseteq Held(d)
  BY <1>2, <1>4, Zenon DEF Held
<1> QED  BY <1>1, <1>5, <1>6, Zenon DEF After, x

\* Some messages of a queue in the order of their counts.
LEMMA TakenFacts ==
  ASSUME CountsAreListed, NEW q, IsQueue(q), NEW C \in SUBSET DOMAIN q
  PROVE  LET qms == [i \in 1 .. Cardinality(C) |-> q[InOrder(C)[i]]]
         IN  /\ Sequence(qms) /\ IsInjective(KeysOf(qms))
             /\ Range(KeysOf(qms)) \subseteq {Key(q[c]) : c \in C}
<1>1. C \subseteq Nat /\ IsFiniteSet(C)
  BY Zenon DEF IsQueue, CountsAreListed
<1> DEFINE k == Cardinality(C)
           s == InOrder(C)
           qms == [i \in 1 .. k |-> q[s[i]]]
<1>2. k \in Nat /\ s \in [1 .. k -> C] /\ IsInjective(s)
  BY <1>1, Zenon DEF CountsAreListed
<1> HIDE DEF k, s
<1>3. qms \in [1 .. k -> {q[c] : c \in C}]
  BY <1>2, Zenon
<1>4. Sequence(qms)
  <2> DEFINE T == {q[c] : c \in C}
  <2>1. qms \in [1 .. k -> T]
    BY <1>3, Zenon
  <2> HIDE DEF qms, T
  <2>2. qms \in Seq(T)
    BY <1>2, <2>1
  <2> QED  BY <2>2, Zenon DEF Sequence
<1>5. DOMAIN KeysOf(qms) = 1 .. k /\ \A i \in 1 .. k : KeysOf(qms)[i] = Key(q[s[i]])
  BY <1>3, Zenon DEF KeysOf
<1> HIDE DEF qms
<1>6. ASSUME NEW i \in 1 .. k, NEW j \in 1 .. k, KeysOf(qms)[i] = KeysOf(qms)[j]
      PROVE  i = j
  <2>1. s[i] \in C /\ s[j] \in C
    BY <1>2, Zenon
  <2>2. q[s[i]].count = s[i] /\ q[s[j]].count = s[j]
    BY <2>1, Zenon DEF IsQueue
  <2>3. s[i] = s[j]
    BY <1>5, <1>6, <2>2 DEF Key
  <2> QED  BY <2>3, <1>2, Zenon DEF IsInjective
<1>7. IsInjective(KeysOf(qms))
  BY <1>5, <1>6, Zenon DEF IsInjective
<1>8. Range(KeysOf(qms)) \subseteq {Key(q[c]) : c \in C}
  BY <1>2, <1>5 DEF Range
<1> QED  BY <1>4, <1>7, <1>8, Zenon DEF qms, k, s

\* A part of a queue, and what is not in it.
LEMMA PartFacts ==
  ASSUME CountsAreListed, NEW q, IsQueue(q), NEW C \in SUBSET DOMAIN q,
         NEW p, p = [c \in DOMAIN q \ C |-> q[c]]
  PROVE  /\ IsQueue(p)
         /\ {Key(p[c]) : c \in DOMAIN p} \subseteq {Key(q[c]) : c \in DOMAIN q}
         /\ \A D \in SUBSET C :
              {Key(p[c]) : c \in DOMAIN p} \cap {Key(q[c]) : c \in D} = {}
<1>1. DOMAIN p = DOMAIN q \ C /\ \A c \in DOMAIN p : c \in DOMAIN q /\ p[c] = q[c]
  BY Zenon
<1>2. IsFiniteSet(DOMAIN p)
  BY <1>1, Zenon DEF IsQueue, CountsAreListed
<1>3. IsQueue(p)
  BY <1>1, <1>2, Zenon DEF IsQueue
<1>4. ASSUME NEW D \in SUBSET C, NEW c \in DOMAIN p, NEW e \in D
      PROVE  Key(p[c]) # Key(q[e])
  <2>1. p[c].count = c /\ q[e].count = e /\ c # e
    BY <1>1, Zenon DEF IsQueue
  <2> QED  BY <2>1, Zenon DEF Key
<1> QED  BY <1>1, <1>3, <1>4

\* deliver_message_queue: messages leave the message queue for the log or the
\* sync queue, or are lost.
LEMMA DeliverMessageQueueAfter ==
  ASSUME CountsAreListed, NEW d, Once(d)
  PROVE  After({}, d, DeliverMessageQueue(d))
<1> DEFINE gone == {c \in DOMAIN d.msgQueue : ~ IsMember(d, d.msgQueue[c].from, d.msgQueue[c].pid)}
           due == {c \in DOMAIN d.msgQueue : SenderSynced(d, d.msgQueue[c])}
           taken == IF d.mode \in {"Synced", "Update"} THEN due ELSE {}
           qms == [i \in 1 .. Cardinality(taken) |-> d.msgQueue[InOrder(taken)[i]]]
           out == gone \cup taken
           q == [c \in DOMAIN d.msgQueue \ out |-> d.msgQueue[c]]
           rest == [d EXCEPT !.msgQueue = q]
           later == [rest EXCEPT !.syncQueue = rest.syncQueue \o qms]
<1>1. DeliverMessageQueue(d) = IF d.mode = "Synced" THEN DeliverAll(rest, qms) ELSE later
  BY Zenon DEF DeliverMessageQueue
<1>2. IsQueue(d.msgQueue) /\ taken \in SUBSET out /\ taken \in SUBSET DOMAIN d.msgQueue
      /\ out \in SUBSET DOMAIN d.msgQueue
  BY Zenon DEF Once
<1> DEFINE moved == {Key(d.msgQueue[c]) : c \in taken}
<1> HIDE DEF gone, taken, out
<1>3. /\ Sequence(qms) /\ IsInjective(KeysOf(qms))
      /\ Range(KeysOf(qms)) \subseteq moved
  BY <1>2, TakenFacts, Zenon
<1>4. /\ IsQueue(q)
      /\ {Key(q[c]) : c \in DOMAIN q} \subseteq QueueKeys(d)
      /\ {Key(q[c]) : c \in DOMAIN q} \cap moved = {}
  <2> DEFINE b == d.msgQueue
  <2>1. IsQueue(b) /\ taken \in SUBSET out /\ out \in SUBSET DOMAIN b
    BY <1>2, Zenon
  <2>2. q = [c \in DOMAIN b \ out |-> b[c]]
    BY Zenon
  <2>3. moved = {Key(b[c]) : c \in taken} /\ QueueKeys(d) = {Key(b[c]) : c \in DOMAIN b}
    BY Zenon DEF QueueKeys
  <2>4. IsQueue(b) /\ out \in SUBSET DOMAIN b
    BY <2>1, Zenon
  <2> HIDE DEF b, q, moved
  <2>5. /\ IsQueue(q)
        /\ {Key(q[c]) : c \in DOMAIN q} \subseteq {Key(b[c]) : c \in DOMAIN b}
        /\ \A D \in SUBSET out : {Key(q[c]) : c \in DOMAIN q} \cap {Key(b[c]) : c \in D} = {}
    BY <2>2, <2>4, PartFacts
  <2> QED  BY <2>1, <2>3, <2>5, Zenon
<1>5. moved \subseteq QueueKeys(d)
  BY <1>2, Zenon DEF QueueKeys
<1> HIDE DEF qms, q, moved
<1>6. rest.log = d.log /\ rest.syncQueue = d.syncQueue /\ rest.msgQueue = q
      /\ rest.pid = d.pid /\ rest.msgCounter = d.msgCounter /\ DOMAIN rest = DOMAIN d
  BY Zenon DEF Once, QueueFields
<1> HIDE DEF rest
<1>7. SyncKeys(rest) = SyncKeys(d) /\ QueueKeys(rest) \subseteq QueueKeys(d)
      /\ QueueKeys(rest) \cap moved = {}
  BY <1>4, <1>6, Zenon DEF SyncKeys, QueueKeys
<1>8. Once(rest)
  BY <1>4, <1>6, <1>7, Zenon DEF Once
<1>9. Range(KeysOf(qms)) \cap Held(rest) = {}
  BY <1>3, <1>5, <1>6, <1>7, Zenon DEF Held, Once
<1>10. Held(rest) \cup Range(KeysOf(qms)) \subseteq Held(d)
  BY <1>3, <1>5, <1>6, <1>7, Zenon DEF Held
<1>11. After({}, d, DeliverAll(rest, qms))
  <2>1. After(Range(KeysOf(qms)), rest, DeliverAll(rest, qms))
    BY <1>3, <1>8, <1>9, DeliverAllAfter, Zenon
  <2> QED  BY <2>1, <1>6, <1>10, Zenon DEF After
<1>12. After({}, d, later)
  <2>1. later.log = d.log /\ later.syncQueue = rest.syncQueue \o qms /\ later.msgQueue = q
        /\ later.pid = d.pid /\ later.msgCounter = d.msgCounter /\ DOMAIN later = DOMAIN d
    BY <1>6, Zenon DEF Once, QueueFields
  <2> HIDE DEF later
  <2>2. Sequence(rest.syncQueue) /\ Sequence(later.syncQueue)
    BY <1>3, <1>8, <2>1, ConcatFacts DEF Once
  <2>3. KeysOf(later.syncQueue) = KeysOf(rest.syncQueue) \o KeysOf(qms)
    BY <1>3, <2>1, <2>2, KeysOfFacts, Zenon
  <2>4. Distinct(KeysOf(rest.syncQueue)) /\ Distinct(KeysOf(qms))
        /\ Range(KeysOf(rest.syncQueue)) \cap Range(KeysOf(qms)) = {}
    BY <1>3, <1>8, <1>9, <2>2, KeysOfFacts, Zenon DEF Distinct, Once, Held, SyncKeys
  <2>5. /\ IsInjective(KeysOf(later.syncQueue))
        /\ SyncKeys(later) \subseteq SyncKeys(rest) \cup Range(KeysOf(qms))
    BY <2>3, <2>4, ConcatDistinct DEF Distinct, SyncKeys
  <2>6. QueueKeys(later) = QueueKeys(rest) /\ later.log = rest.log
    BY <1>6, <2>1, Zenon DEF QueueKeys
  <2>7. Once(later)
    BY <1>4, <1>6, <1>8, <1>9, <2>1, <2>2, <2>5, <2>6, Zenon DEF Once, Held
  <2>8. Held(later) \subseteq Held(d)
    BY <1>10, <2>5, <2>6, Zenon DEF Held
  <2> QED  BY <2>1, <2>7, <2>8, Zenon DEF After
<1> QED  BY <1>1, <1>11, <1>12, Zenon

\* queue_message: a message that is held nowhere goes to one of the queues.
LEMMA QueueMessageAfter ==
  ASSUME CountsAreListed, NEW d, Once(d), NEW qm, qm.count \in Nat, Key(qm) \notin Held(d)
  PROVE  After({Key(qm)}, d, QueueMessage(d, qm))
<1>1. CASE d.mode = "Update" /\ SenderSynced(d, qm)
  <2> DEFINE q == d.syncQueue
             t == IF Len(q) >= MaxQueueLen THEN Tail(q) ELSE q
             x == [d EXCEPT !.syncQueue = Append(t, qm)]
  <2>1. QueueMessage(d, qm) = x
    BY <1>1, Zenon DEF QueueMessage
  <2>2. x.log = d.log /\ x.syncQueue = Append(t, qm) /\ x.msgQueue = d.msgQueue
        /\ x.pid = d.pid /\ x.msgCounter = d.msgCounter /\ DOMAIN x = DOMAIN d
    BY Zenon DEF Once, QueueFields
  <2> HIDE DEF x
  <2>3. Sequence(q) /\ Distinct(KeysOf(q))
    BY KeysOfFacts, Zenon DEF Once, Distinct
  <2>4. Sequence(t) /\ Distinct(KeysOf(t)) /\ Range(KeysOf(t)) \subseteq SyncKeys(d)
    <3>1. CASE Len(q) >= MaxQueueLen
      <4>1. q # <<>>
        BY <3>1, DfsmAssumption DEF DfsmAssumption
      <4>2. KeysOf(q) # <<>> /\ KeysOf(Tail(q)) = Tail(KeysOf(q))
        BY <2>3, <4>1, KeysOfFacts, Zenon
      <4> QED  BY <3>1, <2>3, <4>1, <4>2, TailFacts, TailDistinct, Zenon DEF SyncKeys
    <3>2. CASE ~ (Len(q) >= MaxQueueLen)
      BY <3>2, <2>3, Zenon DEF SyncKeys
    <3> QED  BY <3>1, <3>2, Zenon
  <2> HIDE DEF t
  <2>5. x.syncQueue = t \o <<qm>>
    <3>1. PICK S : t \in Seq(S)
      BY <2>4, Zenon DEF Sequence
    <3>2. t \in Seq(S \cup {qm}) /\ qm \in S \cup {qm}
      BY <3>1
    <3> QED  BY <2>2, <3>2, AppendIsConcatenation, Zenon
  <2>6. Sequence(<<qm>>) /\ KeysOf(<<qm>>) = <<Key(qm)>>
    BY SingletonDistinct, KeysOfFacts, Zenon DEF Distinct
  <2>7. Sequence(x.syncQueue) /\ KeysOf(x.syncQueue) = KeysOf(t) \o <<Key(qm)>>
    <3> DEFINE u == <<qm>>
    <3>1. Sequence(u) /\ KeysOf(u) = <<Key(qm)>> /\ x.syncQueue = t \o u
      BY <2>5, <2>6, Zenon
    <3> HIDE DEF u
    <3>2. Sequence(t \o u)
      BY <2>4, <3>1, ConcatFacts, Zenon
    <3>3. KeysOf(t \o u) = KeysOf(t) \o KeysOf(u)
      BY <2>4, <3>1, KeysOfFacts, Zenon
    <3> QED  BY <3>1, <3>2, <3>3, Zenon
  <2>8. Range(KeysOf(t)) \cap {Key(qm)} = {}
    BY <2>4, Zenon DEF Held
  <2>9. Distinct(KeysOf(x.syncQueue)) /\ SyncKeys(x) \subseteq SyncKeys(d) \cup {Key(qm)}
    BY <2>4, <2>7, <2>8, SingletonDistinct, ConcatDistinct DEF SyncKeys
  <2>10. QueueKeys(x) = QueueKeys(d)
    BY <2>2, Zenon DEF QueueKeys
  <2>11. Once(x)
    BY <2>2, <2>7, <2>9, <2>10, Zenon DEF Once, Distinct, Held
  <2>12. Held(x) \subseteq Held(d) \cup {Key(qm)}
    BY <2>2, <2>9, <2>10, Zenon DEF Held
  <2> QED  BY <2>1, <2>2, <2>11, <2>12, Zenon DEF After
<1>2. CASE ~ (d.mode = "Update" /\ SenderSynced(d, qm))
  <2> DEFINE b == d.msgQueue
             q == IF Cardinality(DOMAIN b) >= MaxQueueLen
                  THEN Drop(b, InOrder(DOMAIN b)[1]) ELSE b
             p == Put(q, qm.count, qm)
             x == [d EXCEPT !.msgQueue = p]
  <2>1. QueueMessage(d, qm) = x
    BY <1>2, Zenon DEF QueueMessage
  <2>2. x.log = d.log /\ x.syncQueue = d.syncQueue /\ x.msgQueue = p
        /\ x.pid = d.pid /\ x.msgCounter = d.msgCounter /\ DOMAIN x = DOMAIN d
    BY Zenon DEF Once, QueueFields
  <2> HIDE DEF x
  <2>3. IsQueue(b)
    BY Zenon DEF Once
  <2>4. DOMAIN q \subseteq DOMAIN b /\ \A c \in DOMAIN q : q[c] = b[c]
    BY Zenon DEF Drop
  <2> HIDE DEF q
  <2>5. DOMAIN p = DOMAIN q \cup {qm.count}
        /\ \A c \in DOMAIN p : IF c = qm.count THEN p[c] = qm ELSE c \in DOMAIN q /\ p[c] = q[c]
    <3> DEFINE k == qm.count
    <3>1. p = [c \in DOMAIN q \cup {k} |-> IF c = k THEN qm ELSE q[c]]
      BY Zenon DEF Put
    <3> HIDE DEF p, k
    <3>2. DOMAIN p = DOMAIN q \cup {k}
          /\ \A c \in DOMAIN p : IF c = k THEN p[c] = qm ELSE c \in DOMAIN q /\ p[c] = q[c]
      BY <3>1, Zenon
    <3> QED  BY <3>2, Zenon DEF k
  <2> HIDE DEF p
  <2>6. IsFiniteSet(DOMAIN p)
    <3>1. IsFiniteSet(DOMAIN q)
      BY <2>3, <2>4, Zenon DEF IsQueue, CountsAreListed
    <3> QED  BY <2>5, <3>1, Zenon DEF CountsAreListed
  <2>7. IsQueue(p)
    BY <2>3, <2>4, <2>5, <2>6 DEF IsQueue
  <2>8. QueueKeys(x) \subseteq QueueKeys(d) \cup {Key(qm)}
    BY <2>2, <2>4, <2>5 DEF QueueKeys
  <2>9. SyncKeys(x) = SyncKeys(d)
    BY <2>2, Zenon DEF SyncKeys
  <2>10. Once(x)
    BY <2>2, <2>7, <2>8, <2>9, Zenon DEF Once, Held
  <2>11. Held(x) \subseteq Held(d) \cup {Key(qm)}
    BY <2>2, <2>8, <2>9, Zenon DEF Held
  <2> QED  BY <2>1, <2>2, <2>10, <2>11, Zenon DEF After
<1> QED  BY <1>1, <1>2, Zenon

\* The end of process_state_sync.
LEMMA RoundEndAfter ==
  ASSUME CountsAreListed, NEW d, Once(d), NEW n
  PROVE  After({}, d, Synced(n, d)) /\ After({}, d, Unsynced(d))
<1>1. ASSUME NEW x, SameQueues(d, x), NEW mode
      PROVE  After({}, d, DeliverMessageQueue(SetMode(x, mode)))
  <2>1. After({}, d, x)
    BY <1>1, SameQueuesAfter, Zenon
  <2>2. SameQueues(x, SetMode(x, mode))
    BY <2>1, SetModeSame, Zenon DEF After, Once
  <2>3. After({}, x, SetMode(x, mode))
    BY <2>1, <2>2, SameQueuesAfter, Zenon DEF After
  <2>4. After({}, SetMode(x, mode), DeliverMessageQueue(SetMode(x, mode)))
    BY <2>3, DeliverMessageQueueAfter, Zenon DEF After
  <2> QED  BY <2>1, <2>3, <2>4, AfterTransitive, Zenon
<1>2. SameQueues(d, [d EXCEPT !.syncNodes[n].synced = TRUE]) /\ SameQueues(d, d)
  BY Zenon DEF SameQueues, QueueFields, Once
<1> QED  BY <1>1, <1>2, Zenon DEF Synced, Unsynced

-----------------------------------------------------------------------------
\* Handlers.

\* Messages of the protocol itself, none of which a client asked for.
NoRequests(out) == Sequence(out) /\ \A b \in Range(out) : b.type # "normal"

\* An outcome of a handler on d that took in the messages of K.
OutcomeOnce(K, d, o) == After(K, d, o.d) /\ NoRequests(o.out)

\* What one or two messages of a handler are.
LEMMA ShortNoRequests ==
  /\ NoRequests(<<>>)
  /\ \A a : a.type # "normal" => NoRequests(<<a>>)
  /\ \A a, b : a.type # "normal" /\ b.type # "normal" => NoRequests(<<a, b>>)
<1>1. NoRequests(<<>>)
  BY SequenceFacts, Zenon DEF NoRequests, Distinct
<1>2. ASSUME NEW a, a.type # "normal" PROVE NoRequests(<<a>>)
  BY <1>2, SingletonDistinct DEF NoRequests, Distinct
<1>3. ASSUME NEW a, NEW b, a.type # "normal", b.type # "normal" PROVE NoRequests(<<a, b>>)
  <2>1. <<a, b>> \in Seq({a, b}) /\ DOMAIN <<a, b>> = {1, 2}
        /\ <<a, b>>[1] = a /\ <<a, b>>[2] = b
    OBVIOUS
  <2> QED  BY <2>1, <1>3, Zenon DEF NoRequests, Sequence, Range
<1> QED  BY <1>1, <1>2, <1>3, Zenon

\* A handler that sends nothing, or one message.
LEMMA SimpleOnce ==
  ASSUME NEW K, NEW d, NEW x, After(K, d, x)
  PROVE  /\ \A o \in Quietly(x) : OutcomeOnce(K, d, o)
         /\ \A body : body.type # "normal" => \A o \in Sending(x, body) : OutcomeOnce(K, d, o)
         /\ \A out, fails : NoRequests(out) => OutcomeOnce(K, d, Outcome(x, out, fails))
<1>1. ASSUME NEW out, NoRequests(out), NEW fails
      PROVE  OutcomeOnce(K, d, Outcome(x, out, fails))
  <2>1. Outcome(x, out, fails).d = x /\ Outcome(x, out, fails).out = out
    BY Zenon DEF Outcome
  <2> QED  BY <1>1, <2>1, Zenon DEF OutcomeOnce
<1>2. ASSUME NEW body, body.type # "normal"
      PROVE  NoRequests(<<body>>)
  BY <1>2, ShortNoRequests, Zenon
<1> QED  BY <1>1, <1>2, ShortNoRequests, Zenon DEF Quietly, Sending

\* handle_normal_message takes in one message, which it held nowhere.
LEMMA HandleNormalMessageOnce ==
  ASSUME CountsAreListed, NEW d, Once(d), NEW qm, qm.count \in Nat, Key(qm) \notin Held(d)
  PROVE  \A o \in HandleNormalMessage(d, qm) : OutcomeOnce({Key(qm)}, d, o)
<1>1. After({Key(qm)}, d, DeliverAll(d, <<qm>>))
  <2> DEFINE u == <<qm>>
  <2>1. Sequence(u) /\ KeysOf(u) = <<Key(qm)>>
    BY SingletonDistinct, KeysOfFacts, Zenon DEF Distinct
  <2>2. IsInjective(<<Key(qm)>>) /\ Range(<<Key(qm)>>) = {Key(qm)}
    BY SingletonDistinct, Zenon DEF Distinct
  <2> HIDE DEF u
  <2>3. After(Range(KeysOf(u)), d, DeliverAll(d, u))
    BY <2>1, <2>2, DeliverAllAfter, Zenon
  <2> QED  BY <2>1, <2>2, <2>3, Zenon DEF u
<1>2. After({Key(qm)}, d, QueueMessage(d, qm))
  BY QueueMessageAfter, Zenon
<1> QED  BY <1>1, <1>2, SimpleOnce, Zenon DEF HandleNormalMessage

\* handle_sync_start and send_state leave the queues alone.
LEMMA HandleSyncStartOnce ==
  ASSUME NEW d, Once(d), NEW n, NEW from, NEW epoch
  PROVE  \A o \in HandleSyncStart(n, d, from, epoch) : OutcomeOnce({}, d, o)
<1> DEFINE e == [d EXCEPT !.epoch = epoch]
<1>1. SameQueues(d, e)
  BY SameQueuesFacts, Zenon DEF Once
<1>2. HandleSyncStart(n, d, from, epoch)
        = IF from = n THEN Quietly(e) ELSE Sending(WithState(e), OwnState(WithState(e)))
  BY Zenon DEF HandleSyncStart
<1> HIDE DEF e
<1>3. After({}, d, e)
  BY <1>1, SameQueuesAfter, Zenon
<1>4. SameQueues(e, WithState(e))
  BY <1>3, SameQueuesFacts, Zenon DEF WithState, After, Once
<1>5. After({}, e, WithState(e))
  BY <1>3, <1>4, SameQueuesAfter, Zenon DEF After
<1>6. After({}, d, WithState(e))
  BY <1>3, <1>5, AfterTransitive, Zenon
<1>7. OwnState(WithState(e)).type # "normal"
  BY Zenon DEF OwnState, State
<1> QED  BY <1>2, <1>3, <1>6, <1>7, SimpleOnce, Zenon

\* The leader's updates are no requests; it delivers its queue when it is done.
LEMMA SendUpdatesOnce ==
  ASSUME CountsAreListed, NEW d, Once(d), NEW n, NEW ix
  PROVE  \A o \in SendUpdates(n, d, ix) : OutcomeOnce({}, d, o)
<1> DEFINE us == Updates(d.db, InodesToUpdate(ix[n], ix))
           bodies(s) == [i \in DOMAIN s |-> Update(d.epoch, s[i])]
           done(s) == Outcome(Synced(n, d), Append(bodies(s), UpdateComplete(d.epoch)),
                              Cardinality(us) - Len(s))
           failed(s) == Outcome(SetMode(d, "Error"), bodies(s),
                                Cardinality(us) - Len(s) + 1)
<1>1. SendUpdates(n, d, ix) = UNION {{done(s), failed(s)} : s \in Selections(us)}
  BY Zenon DEF SendUpdates
<1> SUFFICES ASSUME NEW s \in Selections(us)
             PROVE  OutcomeOnce({}, d, done(s)) /\ OutcomeOnce({}, d, failed(s))
  BY <1>1, Zenon
<1> DEFINE sent == bodies(s)
<1>2. PICK k \in 0 .. Cardinality(us) : s \in [1 .. k -> us]
  BY Zenon DEF Selections
<1>3. k \in Nat
  BY <1>2, SMT
<1>4. NoRequests(sent)
  <2>1. \A i \in 1 .. k : sent[i].type # "normal"
    BY <1>2, Zenon DEF Update
  <2>2. DOMAIN sent = 1 .. k
    BY <1>2, Zenon
  <2>3. sent \in [1 .. k -> {sent[i] : i \in 1 .. k}]
    BY <2>2, Zenon
  <2> HIDE DEF sent
  <2>4. sent \in Seq({sent[i] : i \in 1 .. k})
    BY <1>3, <2>3, FunctionIsSequence, Zenon
  <2> QED  BY <2>1, <2>2, <2>4, Zenon DEF NoRequests, Sequence, Range
<1>5. NoRequests(Append(sent, UpdateComplete(d.epoch)))
  <2>1. UpdateComplete(d.epoch).type # "normal"
    BY Zenon DEF UpdateComplete
  <2> HIDE DEF sent
  <2> QED  BY <1>4, <2>1, AppendFacts, Zenon DEF NoRequests
<1>6. After({}, d, Synced(n, d)) /\ After({}, d, SetMode(d, "Error"))
  BY RoundEndAfter, SetModeSame, SameQueuesAfter, Zenon DEF Once
<1> HIDE DEF sent, us
<1> QED  BY <1>4, <1>5, <1>6, SimpleOnce, Zenon DEF sent

\* The handler of a State message.
LEMMA ProcessStateOnce ==
  ASSUME CountsAreListed, NEW d, Once(d), NEW n, NEW from, NEW pid, NEW index
  PROVE  \A o \in ProcessState(n, d, from, pid, index) : OutcomeOnce({}, d, o)
<1>1. \A o \in Quietly(SetMode(d, "Leave")) : OutcomeOnce({}, d, o)
  BY SetModeSame, SameQueuesAfter, SimpleOnce, Zenon DEF Once
<1> DEFINE s == [d EXCEPT !.syncNodes[from].state = index]
<1>2. SameQueues(d, s)
  BY Zenon DEF SameQueues, QueueFields, Once
<1>3. ProcessState(n, d, from, pid, index) =
        IF ~ IsMember(d, from, pid) \/ d.syncNodes[from].state # NoState
        THEN Quietly(SetMode(d, "Leave"))
        ELSE IF HasAllStates(s) THEN ProcessStateSync(n, s) ELSE Quietly(s)
  BY Zenon DEF ProcessState
<1> HIDE DEF s
<1>4. After({}, d, s) /\ Once(s)
  BY <1>2, SameQueuesAfter, Zenon DEF After
<1>5. \A o \in ProcessStateSync(n, s) : OutcomeOnce({}, s, o)
  <2>1. /\ \A o \in Quietly(Synced(n, s)) : OutcomeOnce({}, s, o)
        /\ \A o \in Quietly(Unsynced(s)) : OutcomeOnce({}, s, o)
    BY <1>4, RoundEndAfter, SimpleOnce, Zenon
  <2>2. \A o \in SendUpdates(n, s, States(s)) : OutcomeOnce({}, s, o)
    BY <1>4, SendUpdatesOnce, Zenon
  <2> QED  BY <2>1, <2>2, Zenon DEF ProcessStateSync
<1>6. \A o \in Quietly(s) : OutcomeOnce({}, d, o)
  BY <1>4, SimpleOnce, Zenon
<1>7. \A o \in ProcessStateSync(n, s) : OutcomeOnce({}, d, o)
  BY <1>4, <1>5, AfterTransitive, Zenon DEF OutcomeOnce
<1> QED  BY <1>1, <1>3, <1>6, <1>7, Zenon

\* Updates, their end, and verification.
LEMMA OtherHandlersOnce ==
  ASSUME NEW d, Once(d)
  PROVE  /\ \A u : \A o \in HandleUpdate(d, u) : OutcomeOnce({}, d, o)
         /\ \A o \in HandleUpdateComplete(d) : OutcomeOnce({}, d, o)
         /\ \A epoch, id : \A o \in HandleVerifyRequest(d, epoch, id) : OutcomeOnce({}, d, o)
         /\ \A epoch, id, csum : \A o \in HandleVerify(d, epoch, id, csum) : OutcomeOnce({}, d, o)
<1>1. QueueFields \subseteq DOMAIN d
  BY Zenon DEF Once
<1>2. ASSUME NEW u PROVE \A o \in HandleUpdate(d, u) : OutcomeOnce({}, d, o)
  <2>1. After({}, d, [d EXCEPT !.db = ApplyUpdate(@, u)])
    BY <1>1, SameQueuesFacts, SameQueuesAfter, Zenon
  <2> QED  BY <2>1, SimpleOnce, Zenon DEF HandleUpdate
<1>3. \A o \in HandleUpdateComplete(d) : OutcomeOnce({}, d, o)
  <2> DEFINE x == DeliverSyncQueue(d)
  <2>1. After({}, d, x)
    BY DeliverSyncQueueAfter, Zenon
  <2> HIDE DEF x
  <2>2. After({}, x, SetMode(x, "Synced"))
    BY <2>1, SetModeSame, SameQueuesAfter, Zenon DEF After, Once
  <2>3. After({}, d, SetMode(x, "Synced"))
    BY <2>1, <2>2, AfterTransitive, Zenon
  <2> QED  BY <2>3, SimpleOnce, Zenon DEF HandleUpdateComplete, x
<1>4. ASSUME NEW epoch, NEW id
      PROVE  \A o \in HandleVerifyRequest(d, epoch, id) : OutcomeOnce({}, d, o)
  <2> DEFINE c == [d EXCEPT !.csum = Checksum(d.db), !.csumEpoch = epoch, !.csumId = id]
             body == [type |-> "verify", epoch |-> d.epoch, id |-> id, csum |-> c.csum]
  <2>1. SameQueues(d, c)
    BY <1>1, SameQueuesFacts, Zenon
  <2>2. body.type # "normal"
    BY Zenon
  <2>3. HandleVerifyRequest(d, epoch, id) = Sending(c, body)
    BY Zenon DEF HandleVerifyRequest
  <2> HIDE DEF c, body
  <2> QED  BY <2>1, <2>2, <2>3, SameQueuesAfter, SimpleOnce, Zenon
<1>5. ASSUME NEW epoch, NEW id, NEW csum
      PROVE  \A o \in HandleVerify(d, epoch, id, csum) : OutcomeOnce({}, d, o)
  <2>1. After({}, d, SetMode(d, "Leave")) /\ After({}, d, d)
    BY <1>1, SetModeSame, SameQueuesFacts, SameQueuesAfter, Zenon
  <2> QED  BY <2>1, SimpleOnce, Zenon DEF HandleVerify
<1> QED  BY <1>2, <1>3, <1>4, <1>5, Zenon

\* handle_membership_change empties the sync queue.
LEMMA HandleMembershipChangeOnce ==
  ASSUME NEW d, Once(d), NEW n, NEW members
  PROVE  /\ \A o \in HandleMembershipChange(n, d, members) : OutcomeOnce({}, d, o)
         /\ After({}, d, AloneInGroup(n, NewRound(n, d, members)))
<1> DEFINE r == NewRound(n, d, members)
           s == SetMode(r, "StartSync")
           sent == WithState(s)
<1>1. After({}, d, r)
  <2> DEFINE c == ChecksumInvalidated(d)
  <2>1. c.log = d.log /\ c.msgQueue = d.msgQueue /\ c.pid = d.pid
        /\ c.msgCounter = d.msgCounter /\ DOMAIN c = DOMAIN d
    BY Zenon DEF ChecksumInvalidated, Once, QueueFields
  <2> HIDE DEF c
  <2>2. r.log = d.log /\ r.msgQueue = d.msgQueue /\ r.pid = d.pid /\ r.syncQueue = <<>>
        /\ r.msgCounter = d.msgCounter /\ DOMAIN r = DOMAIN d
    BY <2>1, Zenon DEF NewRound, Once, QueueFields, c
  <2> HIDE DEF r
  <2>3. SyncKeys(r) = {} /\ QueueKeys(r) = QueueKeys(d)
    BY <2>2, KeysOfFacts, SequenceFacts DEF SyncKeys, QueueKeys
  <2>4. Once(r)
    BY <2>2, <2>3, SequenceFacts, KeysOfFacts, Zenon DEF Once, Distinct
  <2> QED  BY <2>2, <2>3, <2>4, Zenon DEF After, Held
<1> HIDE DEF r
<1>2. Once(r)
  BY <1>1, Zenon DEF After
<1>3. After({}, r, AloneInGroup(n, r))
  <2> DEFINE a == SetMode(r, "Synced")
             b == [a EXCEPT !.syncNodes[n].synced = TRUE]
             c == [b EXCEPT !.hung = (r.msgQueue # Empty)]
  <2>1. SameQueues(r, a)
    BY <1>2, SetModeSame, Zenon DEF Once
  <2>2. QueueFields \subseteq DOMAIN a
    BY <1>2, <2>1, Zenon DEF SameQueues, Once
  <2> HIDE DEF a
  <2>3. SameQueues(a, b)
    BY <2>2, Zenon DEF SameQueues, QueueFields
  <2>4. QueueFields \subseteq DOMAIN b
    BY <2>2, <2>3, Zenon DEF SameQueues
  <2> HIDE DEF b
  <2>5. SameQueues(b, c)
    BY <2>4, SameQueuesFacts, Zenon
  <2>6. AloneInGroup(n, r) = c
    BY Zenon DEF AloneInGroup, a, b, c
  <2> HIDE DEF c
  <2>7. SameQueues(r, c)
    BY <2>1, <2>3, <2>5, Zenon DEF SameQueues
  <2> QED  BY <1>2, <2>6, <2>7, SameQueuesAfter, Zenon
<1>4. After({}, r, s)
  BY <1>2, SetModeSame, SameQueuesAfter, Zenon DEF Once
<1> HIDE DEF s
<1>5. After({}, s, sent)
  BY <1>4, SameQueuesFacts, SameQueuesAfter, Zenon DEF WithState, After, Once
<1>6. OwnState(sent).type # "normal" /\ SyncStart(s.epoch).type # "normal"
  BY Zenon DEF OwnState, State, SyncStart
<1>7. HandleMembershipChange(n, d, members) \subseteq
        {Outcome(AloneInGroup(n, r), <<>>, 0), Outcome(s, <<>>, 0),
         Outcome(sent, <<SyncStart(s.epoch), OwnState(sent)>>, 0),
         Outcome(sent, <<SyncStart(s.epoch)>>, 1), Outcome(s, <<>>, 1)}
  BY Zenon DEF HandleMembershipChange, Quietly, r, s, sent
<1> HIDE DEF sent
<1>8. After({}, d, AloneInGroup(n, r)) /\ After({}, d, s) /\ After({}, d, sent)
  BY <1>1, <1>3, <1>4, <1>5, AfterTransitive, Zenon
<1>9. /\ NoRequests(<<>>) /\ NoRequests(<<SyncStart(s.epoch)>>)
      /\ NoRequests(<<SyncStart(s.epoch), OwnState(sent)>>)
  BY <1>6, ShortNoRequests, Zenon
<1> QED  BY <1>7, <1>8, <1>9, SimpleOnce, Zenon DEF r

-----------------------------------------------------------------------------
\* Mailboxes.

IsRequest(e) == e.type = "msg" /\ e.body.type = "normal"
EventKey(e) == <<e.from, e.pid, e.body.count>>

\* The keys of the requests in an inbox, none of which is there twice.
Arriving(s) == {EventKey(s[i]) : i \in {k \in DOMAIN s : IsRequest(s[k])}}
ArrivesOnce(s) ==
  /\ Sequence(s)
  /\ \A i, j \in DOMAIN s :
       IsRequest(s[i]) /\ IsRequest(s[j]) /\ EventKey(s[i]) = EventKey(s[j]) => i = j

\* The key of a request, if e is one.
Brings(e) == IF IsRequest(e) THEN {EventKey(e)} ELSE {}

\* A process has numbered the requests in its outbox in ascending order.
Numbered(c, s) ==
  /\ Sequence(s)
  /\ \A i \in DOMAIN s : s[i].type = "normal" => s[i].count \in Nat /\ s[i].count <= c
  /\ \A i, j \in DOMAIN s :
       i < j /\ s[i].type = "normal" /\ s[j].type = "normal" => s[i].count < s[j].count

\* CPG dispatches an event.
LEMMA ArrivesTail ==
  ASSUME NEW s, ArrivesOnce(s), s # <<>>
  PROVE  /\ ArrivesOnce(Tail(s))
         /\ Arriving(Tail(s)) \cup Brings(Head(s)) \subseteq Arriving(s)
         /\ Arriving(Tail(s)) \cap Brings(Head(s)) = {}
<1>1. PICK S : s \in Seq(S)
  BY Zenon DEF ArrivesOnce, Sequence
<1>2. Len(s) \in Nat \ {0} /\ DOMAIN s = 1 .. Len(s) /\ DOMAIN Tail(s) = 1 .. Len(s) - 1
      /\ Head(s) = s[1] /\ 1 \in DOMAIN s
  BY <1>1
<1>3. \A i \in DOMAIN Tail(s) : i + 1 \in DOMAIN s /\ Tail(s)[i] = s[i + 1] /\ i + 1 # 1
  BY <1>1, <1>2
<1>4. Sequence(Tail(s))
  BY TailFacts, Zenon DEF ArrivesOnce
<1>5. ASSUME NEW i \in DOMAIN Tail(s), NEW j \in DOMAIN Tail(s),
             IsRequest(Tail(s)[i]), IsRequest(Tail(s)[j]),
             EventKey(Tail(s)[i]) = EventKey(Tail(s)[j])
      PROVE  i = j
  <2>1. i + 1 = j + 1
    BY <1>3, <1>5, Zenon DEF ArrivesOnce
  <2> QED  BY <2>1, <1>2
<1>6. ArrivesOnce(Tail(s))
  BY <1>4, <1>5, Zenon DEF ArrivesOnce
<1>7. Arriving(Tail(s)) \cup Brings(Head(s)) \subseteq Arriving(s)
  BY <1>2, <1>3 DEF Arriving, Brings
<1>8. ASSUME NEW i \in DOMAIN Tail(s), IsRequest(Tail(s)[i]), IsRequest(Head(s))
      PROVE  EventKey(Tail(s)[i]) # EventKey(Head(s))
  BY <1>2, <1>3, <1>8, Zenon DEF ArrivesOnce
<1> QED  BY <1>6, <1>7, <1>8, Zenon DEF Arriving, Brings

\* t is s with e at its end.
Extends(t, s, e) ==
  /\ Sequence(t) /\ Len(s) \in Nat /\ DOMAIN s = 1 .. Len(s) /\ DOMAIN t = 1 .. Len(s) + 1
  /\ \A i \in DOMAIN t : \/ i = Len(s) + 1 /\ t[i] = e
                         \/ i \in DOMAIN s /\ t[i] = s[i]

\* Where the messages of a mailbox are after an append.
LEMMA AppendPlaces ==
  ASSUME NEW s, Sequence(s), NEW e
  PROVE  Extends(Append(s, e), s, e)
<1> DEFINE t == Append(s, e)
           k == Len(s)
<1>1. PICK S : s \in Seq(S)
  BY Zenon DEF Sequence
<1>2. s \in Seq(S \cup {e}) /\ e \in S \cup {e}
  BY <1>1
<1>3. /\ Sequence(t) /\ DOMAIN t = 1 .. k + 1 /\ DOMAIN s = 1 .. k /\ k \in Nat
      /\ t[k + 1] = e /\ \A i \in 1 .. k : t[i] = s[i]
  BY <1>2 DEF Sequence
<1> HIDE DEF t, k
<1>4. ASSUME NEW i \in DOMAIN t, i # k + 1
      PROVE  i \in DOMAIN s /\ t[i] = s[i]
  <2>1. i \in 1 .. k
    BY <1>3, <1>4
  <2> QED  BY <1>3, <2>1, Zenon
<1>5. Extends(t, s, e)
  BY <1>3, <1>4, Zenon DEF Extends, k
<1> QED  BY <1>5, Zenon DEF t

\* CPG adds an event that is new to the inbox.
LEMMA ArrivesAppend ==
  ASSUME NEW s, ArrivesOnce(s), NEW e, Arriving(s) \cap Brings(e) = {}
  PROVE  /\ ArrivesOnce(Append(s, e))
         /\ Arriving(Append(s, e)) \subseteq Arriving(s) \cup Brings(e)
<1> DEFINE t == Append(s, e)
<1>2. Extends(t, s, e)
  BY AppendPlaces, Zenon DEF ArrivesOnce
<1> HIDE DEF t
<1>3. Sequence(t) /\ DOMAIN t = 1 .. Len(s) + 1 /\ DOMAIN s = 1 .. Len(s) /\ Len(s) \in Nat
  BY <1>2, Zenon DEF Extends
<1>4. \A i \in DOMAIN t : (i = Len(s) + 1 /\ t[i] = e) \/ (i \in DOMAIN s /\ t[i] = s[i])
  BY <1>2, Zenon DEF Extends
<1>5. \A i \in DOMAIN s : IsRequest(s[i]) /\ IsRequest(e) => EventKey(s[i]) # EventKey(e)
  BY Zenon DEF Arriving, Brings
<1>6. ArrivesOnce(t)
  BY <1>3, <1>4, <1>5, Zenon DEF ArrivesOnce
<1>7. Arriving(t) \subseteq Arriving(s) \cup Brings(e)
  BY <1>4, Zenon DEF Arriving, Brings
<1> QED  BY <1>6, <1>7, Zenon DEF t

\* The ring orders the first multicast of an outbox: the rest comes later.
LEMMA NumberedTail ==
  ASSUME NEW c, NEW s, Numbered(c, s), s # <<>>
  PROVE  /\ Numbered(c, Tail(s)) /\ Range(Tail(s)) \subseteq Range(s)
         /\ Head(s) \in Range(s)
         /\ Head(s).type = "normal" =>
              /\ Head(s).count \in Nat /\ Head(s).count <= c
              /\ \A b \in Range(Tail(s)) : b.type = "normal" => Head(s).count < b.count
<1>1. PICK S : s \in Seq(S)
  BY Zenon DEF Numbered, Sequence
<1>2. Len(s) \in Nat \ {0} /\ DOMAIN s = 1 .. Len(s) /\ DOMAIN Tail(s) = 1 .. Len(s) - 1
      /\ Head(s) = s[1] /\ 1 \in DOMAIN s
  BY <1>1
<1>3. \A i \in DOMAIN Tail(s) : i \in Nat /\ i + 1 \in DOMAIN s /\ Tail(s)[i] = s[i + 1] /\ 1 < i + 1
  BY <1>1, <1>2
<1>4. Sequence(Tail(s)) /\ Range(Tail(s)) \subseteq Range(s) /\ Head(s) \in Range(s)
  BY TailFacts, Zenon DEF Numbered
<1>5. \A i \in DOMAIN Tail(s) : Tail(s)[i].type = "normal" =>
        Tail(s)[i].count \in Nat /\ Tail(s)[i].count <= c
  BY <1>3, Zenon DEF Numbered
<1>6. ASSUME NEW i \in DOMAIN Tail(s), NEW j \in DOMAIN Tail(s), i < j,
             Tail(s)[i].type = "normal", Tail(s)[j].type = "normal"
      PROVE  Tail(s)[i].count < Tail(s)[j].count
  <2>1. i + 1 < j + 1
    BY <1>3, <1>6
  <2> QED  BY <1>3, <1>6, <2>1, Zenon DEF Numbered
<1>7. Numbered(c, Tail(s))
  BY <1>4, <1>5, <1>6, Zenon DEF Numbered
<1>8. ASSUME Head(s).type = "normal"
      PROVE  /\ Head(s).count \in Nat /\ Head(s).count <= c
             /\ \A b \in Range(Tail(s)) : b.type = "normal" => Head(s).count < b.count
  BY <1>2, <1>3, <1>8 DEF Numbered, Range
<1> QED  BY <1>4, <1>7, <1>8, Zenon

\* A handler multicasts messages that are no requests.
LEMMA NumberedConcat ==
  ASSUME NEW c, NEW s, Numbered(c, s), NEW t, NoRequests(t)
  PROVE  /\ Numbered(c, s \o t)
         /\ \A b \in Range(s \o t) : b.type = "normal" => b \in Range(s)
<1>1. PICK S : s \in Seq(S)
  BY Zenon DEF Numbered, Sequence
<1>2. PICK T : t \in Seq(T)
  BY Zenon DEF NoRequests, Sequence
<1>3. s \in Seq(S \cup T) /\ t \in Seq(S \cup T)
  BY <1>1, <1>2
<1>4. /\ Sequence(s \o t) /\ DOMAIN (s \o t) = 1 .. Len(s) + Len(t)
      /\ DOMAIN s = 1 .. Len(s) /\ DOMAIN t = 1 .. Len(t)
      /\ Len(s) \in Nat /\ Len(t) \in Nat
  BY <1>3 DEF Sequence
<1>5. ASSUME NEW i \in DOMAIN (s \o t), (s \o t)[i].type = "normal"
      PROVE  i \in DOMAIN s /\ (s \o t)[i] = s[i]
  <2>1. CASE i <= Len(s)
    BY <2>1, <1>3, <1>4
  <2>2. CASE ~ (i <= Len(s))
    <3>1. (s \o t)[i] = t[i - Len(s)] /\ i - Len(s) \in DOMAIN t
      BY <2>2, <1>3, <1>4
    <3> QED  BY <3>1, <1>5, Zenon DEF NoRequests, Range
  <2> QED  BY <2>1, <2>2, Zenon
<1> QED  BY <1>4, <1>5, Zenon DEF Numbered, Range

\* send_message_sync numbers a request and multicasts it.
LEMMA NumberedAppend ==
  ASSUME NEW c \in Nat, NEW s, Numbered(c, s), NEW b,
         b.type = "normal" => b.count = c + 1
  PROVE  Numbered(c + 1, Append(s, b)) /\ Numbered(c + 1, s)
         /\ (b.type # "normal" => Numbered(c, Append(s, b)))
         /\ \A x \in Range(Append(s, b)) : x \in Range(s) \/ x = b
<1> DEFINE t == Append(s, b)
<1>2. Extends(t, s, b)
  BY AppendPlaces, Zenon DEF Numbered
<1> HIDE DEF t
<1>3. Sequence(t) /\ DOMAIN t = 1 .. Len(s) + 1 /\ DOMAIN s = 1 .. Len(s) /\ Len(s) \in Nat
  BY <1>2, Zenon DEF Extends
<1>4. \A x \in Range(t) : x \in Range(s) \/ x = b
  BY AppendFacts, Zenon DEF Numbered, t
<1>5. \A i \in DOMAIN t : (i = Len(s) + 1 /\ t[i] = b) \/ (i \in DOMAIN s /\ t[i] = s[i])
  BY <1>2, Zenon DEF Extends
<1>6. \A i \in DOMAIN s : s[i].type = "normal" => s[i].count \in Nat /\ s[i].count < c + 1
  BY DEF Numbered
<1>7. \A i \in DOMAIN t : t[i].type = "normal" => t[i].count \in Nat /\ t[i].count <= c + 1
  BY <1>3, <1>5, <1>6
<1>8. ASSUME NEW i \in DOMAIN t, NEW j \in DOMAIN t, i < j, t[i].type = "normal", t[j].type = "normal"
      PROVE  t[i].count < t[j].count
  <2>1. i \in 1 .. Len(s) /\ t[i] = s[i]
    BY <1>3, <1>5, <1>8
  <2>2. CASE j = Len(s) + 1 /\ t[j] = b
    BY <1>3, <1>6, <1>8, <2>1, <2>2, Zenon
  <2>3. CASE j \in 1 .. Len(s) /\ t[j] = s[j]
    BY <1>3, <1>8, <2>1, <2>3, Zenon DEF Numbered
  <2> QED  BY <1>5, <2>2, <2>3
<1>9. Numbered(c + 1, t)
  BY <1>3, <1>7, <1>8, Zenon DEF Numbered
<1>10. Numbered(c + 1, s)
  BY <1>6 DEF Numbered
<1>11. ASSUME b.type # "normal" PROVE Numbered(c, t)
  <2>1. \A i \in DOMAIN t : t[i].type = "normal" => i \in DOMAIN s /\ t[i] = s[i]
    BY <1>3, <1>5, <1>11, Zenon
  <2> QED  BY <1>3, <2>1, Zenon DEF Numbered
<1> QED  BY <1>4, <1>9, <1>10, <1>11, Zenon DEF t

-----------------------------------------------------------------------------
\* The invariant.

\* The keys of requests that CPG has ordered, if f is the function of all
\* structs and outs that of the outboxes: of an earlier process, or before all
\* that the sender still waits for.
Issued(f, outs) ==
  {k \in Node \X Nat \X Nat :
     \/ k[2] < f[k[1]].pid
     \/ /\ k[2] = f[k[1]].pid /\ k[3] <= f[k[1]].msgCounter
        /\ \A b \in Range(outs[k[1]]) : b.type = "normal" => k[3] < b.count}

\* A process and its inbox hold every request at most once, and only those of I.
NodeOnce(I, d, s) ==
  /\ Once(d) /\ ArrivesOnce(s)
  /\ Held(d) \cap Arriving(s) = {}
  /\ Held(d) \subseteq I /\ Arriving(s) \subseteq I

Counted(d, s) == d.pid \in Nat /\ d.msgCounter \in Nat /\ Numbered(d.msgCounter, s)

AllOnce(f, ins, outs) ==
  /\ DOMAIN f = Node /\ DOMAIN ins = Node /\ DOMAIN outs = Node
  /\ \A n \in Node : NodeOnce(Issued(f, outs), f[n], ins[n]) /\ Counted(f[n], outs[n])

OnceInv == AllOnce(dfsm, inbox, outbox)

\* A process with struct e and outbox t after d and s: a new process, or one
\* that numbers new requests higher.
Later(d, s, e, t) ==
  \/ e.pid > d.pid
  \/ /\ e.pid = d.pid /\ e.msgCounter >= d.msgCounter
     /\ \A b \in Range(t) : b.type = "normal" => b \in Range(s) \/ b.count > d.msgCounter

\* What was ordered stays ordered.
LEMMA IssuedGrows ==
  ASSUME NEW f, NEW outs, NEW g, NEW puts,
         \A m \in Node : /\ Counted(f[m], outs[m]) /\ Counted(g[m], puts[m])
                         /\ Later(f[m], outs[m], g[m], puts[m])
  PROVE  Issued(f, outs) \subseteq Issued(g, puts)
<1> SUFFICES ASSUME NEW k \in Issued(f, outs) PROVE k \in Issued(g, puts)
  BY Zenon
<1> DEFINE m == k[1]
<1>1. k \in Node \X Nat \X Nat /\ m \in Node /\ k[2] \in Nat /\ k[3] \in Nat
  BY Zenon DEF Issued
<1>2. f[m].pid \in Nat /\ g[m].pid \in Nat /\ f[m].msgCounter \in Nat /\ g[m].msgCounter \in Nat
  BY <1>1, Zenon DEF Counted
<1>3. \/ k[2] < f[m].pid
      \/ /\ k[2] = f[m].pid /\ k[3] <= f[m].msgCounter
         /\ \A b \in Range(outs[m]) : b.type = "normal" => k[3] < b.count
  BY Zenon DEF Issued
<1>4. \A b \in Range(puts[m]) : b.type = "normal" => b.count \in Nat
  BY <1>1, Zenon DEF Counted, Numbered, Range
<1>5. Later(f[m], outs[m], g[m], puts[m])
  BY <1>1, Zenon
<1>6. \/ k[2] < g[m].pid
      \/ /\ k[2] = g[m].pid /\ k[3] <= g[m].msgCounter
         /\ \A b \in Range(puts[m]) : b.type = "normal" => k[3] < b.count
  <2>1. CASE g[m].pid > f[m].pid
    BY <2>1, <1>1, <1>2, <1>3
  <2>2. CASE ~ (g[m].pid > f[m].pid)
    <3>1. /\ g[m].pid = f[m].pid /\ g[m].msgCounter >= f[m].msgCounter
          /\ \A b \in Range(puts[m]) : b.type = "normal" => b \in Range(outs[m]) \/ b.count > f[m].msgCounter
      BY <1>5, <2>2, Zenon DEF Later
    <3>2. CASE k[2] < f[m].pid
      BY <3>1, <3>2, Zenon
    <3>3. CASE ~ (k[2] < f[m].pid)
      <4>1. /\ k[2] = f[m].pid /\ k[3] <= f[m].msgCounter
            /\ \A b \in Range(outs[m]) : b.type = "normal" => k[3] < b.count
        BY <1>3, <3>3, Zenon
      <4>2. k[2] = g[m].pid /\ k[3] <= g[m].msgCounter
        BY <1>1, <1>2, <3>1, <4>1
      <4>3. ASSUME NEW b \in Range(puts[m]), b.type = "normal" PROVE k[3] < b.count
        <5>1. CASE b \in Range(outs[m])
          BY <4>1, <4>3, <5>1, Zenon
        <5>2. CASE b.count > f[m].msgCounter
          <6>1. b.count \in Nat
            BY <1>4, <4>3, Zenon
          <6> QED  BY <1>1, <1>2, <4>1, <5>2, <6>1
        <5> QED  BY <3>1, <4>3, <5>1, <5>2, Zenon
      <4> QED  BY <4>2, <4>3, Zenon
    <3> QED  BY <3>2, <3>3, Zenon
  <2> QED  BY <2>1, <2>2, Zenon
<1> QED  BY <1>1, <1>6, Zenon DEF Issued

\* g is f but for its value at n.
Changed(f, g, n, x) == DOMAIN g = Node /\ \A m \in Node : g[m] = IF m = n THEN x ELSE f[m]

\* One process takes a step.
LEMMA NodeStep ==
  ASSUME NEW f, NEW ins, NEW outs, AllOnce(f, ins, outs),
         NEW n \in Node, NEW x, NEW box, NEW out,
         Later(f[n], outs[n], x, out), Counted(x, out),
         NodeOnce(Issued(f, outs), x, box),
         NEW g, NEW jns, NEW puts,
         Changed(f, g, n, x), Changed(ins, jns, n, box), Changed(outs, puts, n, out)
  PROVE  AllOnce(g, jns, puts)
<1>1. DOMAIN g = Node /\ \A m \in Node : g[m] = IF m = n THEN x ELSE f[m]
  BY Zenon DEF Changed
<1>2. DOMAIN jns = Node /\ \A m \in Node : jns[m] = IF m = n THEN box ELSE ins[m]
  BY Zenon DEF Changed
<1>3. DOMAIN puts = Node /\ \A m \in Node : puts[m] = IF m = n THEN out ELSE outs[m]
  BY Zenon DEF Changed
<1>4. ASSUME NEW m \in Node PROVE Counted(f[m], outs[m]) /\ Counted(g[m], puts[m])
  BY <1>1, <1>3, Zenon DEF AllOnce
<1>5. ASSUME NEW m \in Node PROVE Later(f[m], outs[m], g[m], puts[m])
  <2>1. CASE m = n
    BY <2>1, <1>1, <1>3, Zenon
  <2>2. CASE m # n
    <3>1. g[m] = f[m] /\ puts[m] = outs[m] /\ f[m].msgCounter \in Nat
      BY <2>2, <1>1, <1>3, <1>4, Zenon DEF Counted
    <3> QED  BY <3>1 DEF Later
  <2> QED  BY <2>1, <2>2, Zenon
<1>6. Issued(f, outs) \subseteq Issued(g, puts)
  BY <1>4, <1>5, IssuedGrows, Zenon
<1>7. ASSUME NEW m \in Node PROVE NodeOnce(Issued(g, puts), g[m], jns[m])
  <2>1. NodeOnce(Issued(f, outs), g[m], jns[m])
    BY <1>1, <1>2, Zenon DEF AllOnce
  <2> QED  BY <1>6, <2>1, Zenon DEF NodeOnce
<1> QED  BY <1>1, <1>2, <1>3, <1>4, <1>7, Zenon DEF AllOnce

\* A callback of CPG: what it takes from the inbox it may hold afterwards.
LEMMA CompleteOnce ==
  ASSUME OnceInv, NEW n \in Node, Ready(n), NEW o, Complete(n, o),
         OutcomeOnce(Brings(Head(inbox[n])), dfsm[n], o)
  PROVE  OnceInv'
<1> DEFINE d == dfsm[n]
           s == inbox[n]
           t == outbox[n]
           I == Issued(dfsm, outbox)
<1>1. /\ Changed(dfsm, dfsm', n, o.d) /\ Changed(inbox, inbox', n, Tail(s))
      /\ Changed(outbox, outbox', n, t \o o.out)
  BY Zenon DEF Complete, OnceInv, AllOnce, Changed
<1>2. NodeOnce(I, d, s) /\ Counted(d, t) /\ s # <<>>
  BY Zenon DEF OnceInv, AllOnce, Ready
<1>3. After(Brings(Head(s)), d, o.d) /\ NoRequests(o.out)
  BY Zenon DEF OutcomeOnce
<1> HIDE DEF d, s, t, I
<1>4. ArrivesOnce(Tail(s)) /\ Arriving(Tail(s)) \cup Brings(Head(s)) \subseteq Arriving(s)
      /\ Arriving(Tail(s)) \cap Brings(Head(s)) = {}
  BY <1>2, ArrivesTail, Zenon DEF NodeOnce
<1>5. NodeOnce(I, o.d, Tail(s))
  BY <1>2, <1>3, <1>4, Zenon DEF NodeOnce, After
<1>6. /\ Numbered(d.msgCounter, t \o o.out)
      /\ \A b \in Range(t \o o.out) : b.type = "normal" => b \in Range(t)
  BY <1>2, <1>3, NumberedConcat, Zenon DEF Counted
<1>7. o.d.pid = d.pid /\ o.d.msgCounter = d.msgCounter
  BY <1>3, Zenon DEF After
<1>8. Counted(o.d, t \o o.out) /\ Later(d, t, o.d, t \o o.out)
  BY <1>2, <1>6, <1>7 DEF Counted, Later
<1>9. AllOnce(dfsm', inbox', outbox')
  BY <1>1, <1>5, <1>8, NodeStep, Zenon DEF OnceInv, d, t, I
<1> QED  BY <1>9, Zenon DEF OnceInv

\* A membership change brings no request.
LEMMA OnConfchgOnce ==
  ASSUME OnceInv, NEW n \in Node, OnConfchg(n)
  PROVE  OnceInv'
<1>1. PICK o \in HandleMembershipChange(n, dfsm[n], Head(inbox[n]).members) : Complete(n, o)
  BY Zenon DEF OnConfchg
<1>2. Once(dfsm[n]) /\ Ready(n) /\ Head(inbox[n]).type = "conf"
  BY Zenon DEF OnceInv, AllOnce, NodeOnce, OnConfchg
<1>3. Brings(Head(inbox[n])) = {}
  BY <1>2, Zenon DEF Brings, IsRequest
<1>4. OutcomeOnce({}, dfsm[n], o)
  BY <1>1, <1>2, HandleMembershipChangeOnce, Zenon
<1> QED  BY <1>1, <1>2, <1>3, <1>4, CompleteOnce, Zenon

\* A message delivered by CPG, whatever handler takes it.
LEMMA OnDeliverOnce ==
  ASSUME CountsAreListed, IInv, OnceInv, NEW n \in Node, OnDeliver(n)
  PROVE  OnceInv'
<1> DEFINE d == dfsm[n]
           e == Head(inbox[n])
           b == e.body
<1>1. Ready(n) /\ e.type = "msg" /\ inbox[n] # <<>>
  BY Zenon DEF OnDeliver, Deliverable, Ready
<1>2. PICK o \in Outcomes(n, e.from, e.pid, e.body) : Complete(n, o)
  BY Zenon DEF OnDeliver
<1>3. b.type \in {"normal", "syncStart", "state", "update", "updateComplete",
                  "verifyRequest", "verify"}
  <2>1. InboxIn(DrawnSet(dfsm), inbox[n])
    BY Zenon DEF IInv, UsesDrawn
  <2>2. e \in Range(inbox[n])
    BY <1>1, <2>1, TailFacts, Zenon DEF InboxIn
  <2> QED  BY <1>1, <2>1, <2>2, Zenon DEF InboxIn, EventIn, BodyIn
<1>4. NodeOnce(Issued(dfsm, outbox), d, inbox[n])
  BY Zenon DEF OnceInv, AllOnce
<1>5. Once(d) /\ Brings(e) \subseteq Arriving(inbox[n])
  BY <1>1, <1>4, ArrivesTail, Zenon DEF NodeOnce
<1>6. Brings(e) \cap Held(d) = {} /\ Brings(e) \subseteq Node \X Nat \X Nat
  BY <1>4, <1>5, Zenon DEF NodeOnce, Issued
<1>7. OutcomeOnce(Brings(e), d, o)
  <2> HIDE DEF e
  <2>1. CASE b.type = "normal"
    <3> DEFINE qm == [from |-> e.from, pid |-> e.pid, count |-> b.count, op |-> b.op]
    <3>1. Outcomes(n, e.from, e.pid, b) = HandleNormalMessage(d, qm)
      BY <2>1, Zenon DEF Outcomes
    <3>2. Key(qm) = EventKey(e) /\ qm.count = EventKey(e)[3]
      BY Zenon DEF Key, EventKey
    <3>3. Brings(e) = {EventKey(e)}
      BY <1>1, <2>1, Zenon DEF Brings, IsRequest
    <3> HIDE DEF qm, d
    <3>4. qm.count \in Nat /\ Key(qm) \notin Held(d)
      BY <1>6, <3>2, <3>3, Zenon
    <3> QED  BY <1>2, <1>5, <3>1, <3>2, <3>3, <3>4, HandleNormalMessageOnce, Zenon
  <2>2. CASE b.type # "normal"
    <3>1. Brings(e) = {}
      BY <2>2, Zenon DEF Brings, IsRequest
    <3>2. CASE b.type = "syncStart"
      <4>1. Outcomes(n, e.from, e.pid, b) = HandleSyncStart(n, d, e.from, b.epoch)
        BY <3>2, Zenon DEF Outcomes
      <4> HIDE DEF d
      <4> QED  BY <1>2, <1>5, <3>1, <4>1, HandleSyncStartOnce, Zenon
    <3>3. CASE b.type = "state"
      <4>1. Outcomes(n, e.from, e.pid, b) = ProcessState(n, d, e.from, e.pid, b.index)
        BY <3>3, Zenon DEF Outcomes
      <4> HIDE DEF d
      <4> QED  BY <1>2, <1>5, <3>1, <4>1, ProcessStateOnce, Zenon
    <3>4. CASE b.type = "update"
      <4>1. Outcomes(n, e.from, e.pid, b) = HandleUpdate(d, b.update)
        BY <3>4, Zenon DEF Outcomes
      <4> HIDE DEF d
      <4> QED  BY <1>2, <1>5, <3>1, <4>1, OtherHandlersOnce, Zenon
    <3>5. CASE b.type = "updateComplete"
      <4>1. Outcomes(n, e.from, e.pid, b) = HandleUpdateComplete(d)
        BY <3>5, Zenon DEF Outcomes
      <4> HIDE DEF d
      <4> QED  BY <1>2, <1>5, <3>1, <4>1, OtherHandlersOnce, Zenon
    <3>6. CASE b.type = "verifyRequest"
      <4>1. Outcomes(n, e.from, e.pid, b) = HandleVerifyRequest(d, b.epoch, b.id)
        BY <3>6, Zenon DEF Outcomes
      <4> HIDE DEF d
      <4> QED  BY <1>2, <1>5, <3>1, <4>1, OtherHandlersOnce, Zenon
    <3>7. CASE b.type = "verify"
      <4>1. Outcomes(n, e.from, e.pid, b) = HandleVerify(d, b.epoch, b.id, b.csum)
        BY <3>7, Zenon DEF Outcomes
      <4> HIDE DEF d
      <4> QED  BY <1>2, <1>5, <3>1, <4>1, OtherHandlersOnce, Zenon
    <3> QED  BY <1>3, <2>2, <3>2, <3>3, <3>4, <3>5, <3>6, <3>7, Zenon
  <2> QED  BY <2>1, <2>2, Zenon
<1> QED  BY <1>1, <1>2, <1>7, CompleteOnce, Zenon

\* A message of another epoch is dropped.
LEMMA IgnoreWrongEpochOnce ==
  ASSUME OnceInv, NEW n \in Node, IgnoreWrongEpoch(n)
  PROVE  OnceInv'
<1> DEFINE o == Outcome(dfsm[n], <<>>, 0)
           K == Brings(Head(inbox[n]))
<1>1. Complete(n, o) /\ Ready(n)
  BY Zenon DEF IgnoreWrongEpoch, Deliverable
<1>2. o.d = dfsm[n] /\ o.out = <<>>
  BY Zenon DEF Outcome
<1>3. After(K, dfsm[n], dfsm[n])
  BY Zenon DEF OnceInv, AllOnce, NodeOnce, After
<1> HIDE DEF o
<1>4. OutcomeOnce(K, dfsm[n], o)
  BY <1>2, <1>3, ShortNoRequests, Zenon DEF OutcomeOnce
<1> QED  BY <1>1, <1>4, CompleteOnce, Zenon

\* send_message_sync: the request has a number of its own.
LEMMA SendMessageSyncOnce ==
  ASSUME OnceInv, NEW n \in Node, NEW op, SendMessageSync(n, op)
  PROVE  OnceInv'
<1> DEFINE d == dfsm[n]
           t == outbox[n]
           c == d.msgCounter
           ok == [d EXCEPT !.msgCounter = c + 1, !.waiting = c + 1, !.reply = NoReply]
           failed == [d EXCEPT !.msgCounter = c + 1, !.reply = NoReply]
           body == [type |-> "normal", count |-> c + 1, op |-> op]
           I == Issued(dfsm, outbox)
<1>1. NodeOnce(I, d, inbox[n]) /\ Counted(d, t)
  BY Zenon DEF OnceInv, AllOnce
<1>2. Multicast(n, ok, failed, body)
  BY Zenon DEF SendMessageSync
<1>3. body.type = "normal" /\ body.count = c + 1
  BY Zenon
<1>4. QueueFields \subseteq DOMAIN d
  BY <1>1, Zenon DEF NodeOnce, Once
<1>5. ASSUME NEW x, x = ok \/ x = failed
      PROVE  NodeOnce(I, x, inbox[n]) /\ x.pid = d.pid /\ x.msgCounter = c + 1
  <2>1. x.log = d.log /\ x.syncQueue = d.syncQueue /\ x.msgQueue = d.msgQueue
        /\ x.pid = d.pid /\ x.msgCounter = c + 1 /\ DOMAIN x = DOMAIN d
    BY <1>4, <1>5, Zenon DEF QueueFields
  <2> HIDE DEF d, c
  <2>2. SyncKeys(x) = SyncKeys(d) /\ QueueKeys(x) = QueueKeys(d)
    BY <2>1, Zenon DEF SyncKeys, QueueKeys
  <2>3. Once(x) /\ Held(x) = Held(d)
    BY <1>1, <2>1, <2>2, Zenon DEF NodeOnce, Once, Held
  <2> QED  BY <1>1, <2>1, <2>3, Zenon DEF NodeOnce
<1> HIDE DEF ok, failed, body, I
<1>6. /\ c \in Nat /\ d.pid \in Nat /\ Numbered(c + 1, Append(t, body)) /\ Numbered(c + 1, t)
      /\ \A b \in Range(Append(t, body)) : b \in Range(t) \/ b = body
  BY <1>1, <1>3, NumberedAppend, Zenon DEF Counted
<1>7. ASSUME NEW x, x = ok \/ x = failed, NEW u, u = t \/ u = Append(t, body)
      PROVE  Counted(x, u) /\ Later(d, t, x, u) /\ NodeOnce(I, x, inbox[n])
  <2>1. NodeOnce(I, x, inbox[n]) /\ x.pid = d.pid /\ x.msgCounter = c + 1
    BY <1>5, <1>7, Zenon
  <2>2. Numbered(c + 1, u) /\ \A b \in Range(u) : b \in Range(t) \/ b = body
    BY <1>6, <1>7, Zenon
  <2> HIDE DEF t, c
  <2>3. Counted(x, u)
    BY <1>6, <2>1, <2>2 DEF Counted
  <2>4. d.msgCounter = c
    BY Zenon DEF c
  <2>5. \A b \in Range(u) : b.type = "normal" => b \in Range(t) \/ b.count > c
    BY <1>3, <1>6, <2>2
  <2> HIDE DEF d
  <2>6. Later(d, t, x, u)
    BY <1>6, <2>1, <2>4, <2>5 DEF Later
  <2> QED  BY <2>1, <2>3, <2>6, Zenon
<1>8. \E x, u : /\ x = ok \/ x = failed
                /\ u = t \/ u = Append(t, body)
                /\ Changed(dfsm, dfsm', n, x) /\ Changed(outbox, outbox', n, u)
  <2>1. CASE dfsm' = [dfsm EXCEPT ![n] = failed] /\ outbox' = outbox
    <3>1. Changed(dfsm, dfsm', n, failed) /\ Changed(outbox, outbox', n, t)
      BY <2>1, Zenon DEF OnceInv, AllOnce, Changed
    <3> QED  BY <3>1, Zenon
  <2>2. CASE dfsm' = [dfsm EXCEPT ![n] = ok] /\ outbox' = [outbox EXCEPT ![n] = Append(t, body)]
    <3>1. Changed(dfsm, dfsm', n, ok) /\ Changed(outbox, outbox', n, Append(t, body))
      BY <2>2, Zenon DEF OnceInv, AllOnce, Changed
    <3> QED  BY <3>1, Zenon
  <2> QED  BY <1>2, <2>1, <2>2, Zenon DEF Multicast
<1>9. Changed(inbox, inbox', n, inbox[n])
  BY <1>2, Zenon DEF Multicast, OnceInv, AllOnce, Changed
<1>10. PICK x, u : /\ x = ok \/ x = failed
                   /\ u = t \/ u = Append(t, body)
                   /\ Changed(dfsm, dfsm', n, x) /\ Changed(outbox, outbox', n, u)
  BY <1>8, Zenon
<1>11. Counted(x, u) /\ Later(dfsm[n], outbox[n], x, u)
       /\ NodeOnce(Issued(dfsm, outbox), x, inbox[n])
  <2>1. x = ok \/ x = failed
    BY <1>10, Zenon
  <2>2. u = t \/ u = Append(t, body)
    BY <1>10, Zenon
  <2>3. Counted(x, u) /\ Later(d, t, x, u) /\ NodeOnce(I, x, inbox[n])
    BY <1>7, <2>1, <2>2, Zenon
  <2> QED  BY <2>3, Zenon DEF I
<1>12. AllOnce(dfsm', inbox', outbox')
  BY <1>9, <1>10, <1>11, NodeStep, Zenon DEF OnceInv
<1> QED  BY <1>12, Zenon DEF OnceInv

\* A struct whose queues and counter stay, with an outbox that gets no request.
LEMMA QuietCallOnce ==
  ASSUME OnceInv, NEW n \in Node, NEW x, SameQueues(dfsm[n], x), NEW u,
         Numbered(dfsm[n].msgCounter, u),
         \A b \in Range(u) : b.type = "normal" => b \in Range(outbox[n]),
         Changed(dfsm, dfsm', n, x), Changed(inbox, inbox', n, inbox[n]),
         Changed(outbox, outbox', n, u)
  PROVE  OnceInv'
<1> DEFINE d == dfsm[n]
           I == Issued(dfsm, outbox)
<1>1. NodeOnce(I, d, inbox[n]) /\ Counted(d, outbox[n])
  BY Zenon DEF OnceInv, AllOnce
<1>2. After({}, d, x)
  BY <1>1, SameQueuesAfter, Zenon DEF NodeOnce
<1>3. NodeOnce(I, x, inbox[n])
  BY <1>1, <1>2, Zenon DEF NodeOnce, After
<1>4. Counted(x, u) /\ Later(d, outbox[n], x, u)
  <2>1. x.pid = d.pid /\ x.msgCounter = d.msgCounter
    BY <1>2, Zenon DEF After
  <2>2. Counted(x, u)
    BY <1>1, <2>1, Zenon DEF Counted
  <2>3. Later(d, outbox[n], x, u)
    BY <1>1, <2>1 DEF Counted, Later
  <2> QED  BY <2>2, <2>3, Zenon
<1> HIDE DEF d, I
<1>5. AllOnce(dfsm', inbox', outbox')
  BY <1>3, <1>4, NodeStep, Zenon DEF OnceInv, d, I
<1> QED  BY <1>5, Zenon DEF OnceInv

\* A verification request of the leader is no request of a client.
LEMMA VerifyRequestOnce ==
  ASSUME OnceInv, NEW n \in Node, VerifyRequest(n)
  PROVE  OnceInv'
<1> DEFINE d == dfsm[n]
           t == outbox[n]
           v == [d EXCEPT !.csumCounter = d.csumCounter + 1]
           body == [type |-> "verifyRequest", epoch |-> d.epoch, id |-> v.csumCounter]
<1>1. Counted(d, t) /\ QueueFields \subseteq DOMAIN d
  BY Zenon DEF OnceInv, AllOnce, NodeOnce, Once
<1>2. SameQueues(d, v) /\ body.type # "normal"
  BY <1>1, SameQueuesFacts, Zenon
<1>3. Multicast(n, v, v, body)
  BY Zenon DEF VerifyRequest
<1> HIDE DEF v, body
<1>4. Changed(dfsm, dfsm', n, v) /\ Changed(inbox, inbox', n, inbox[n])
  BY <1>3, Zenon DEF Multicast, OnceInv, AllOnce, Changed
<1>5. Changed(outbox, outbox', n, t) \/ Changed(outbox, outbox', n, Append(t, body))
  BY <1>3, Zenon DEF Multicast, OnceInv, AllOnce, Changed
<1>6. Numbered(d.msgCounter, t) /\ d.msgCounter \in Nat
  BY <1>1, Zenon DEF Counted
<1>7. /\ Numbered(d.msgCounter, Append(t, body))
      /\ \A b \in Range(Append(t, body)) : b.type = "normal" => b \in Range(t)
  <2> HIDE DEF d, t
  <2> QED  BY <1>2, <1>6, NumberedAppend, Zenon
<1>8. CASE Changed(outbox, outbox', n, t)
  BY <1>2, <1>4, <1>6, <1>8, QuietCallOnce, Zenon
<1>9. CASE Changed(outbox, outbox', n, Append(t, body))
  BY <1>2, <1>4, <1>7, <1>9, QuietCallOnce, Zenon
<1> QED  BY <1>5, <1>8, <1>9, Zenon

\* The end of the ten seconds of send_message_sync.
LEMMA SendTimeoutOnce ==
  ASSUME OnceInv, NEW n \in Node, SendTimeout(n)
  PROVE  OnceInv'
<1> DEFINE x == [dfsm[n] EXCEPT !.waiting = NotWaiting]
<1>1. Counted(dfsm[n], outbox[n]) /\ QueueFields \subseteq DOMAIN dfsm[n]
  BY Zenon DEF OnceInv, AllOnce, NodeOnce, Once
<1>2. SameQueues(dfsm[n], x)
  BY <1>1, SameQueuesFacts, Zenon
<1>3. /\ Changed(dfsm, dfsm', n, x) /\ Changed(inbox, inbox', n, inbox[n])
      /\ Changed(outbox, outbox', n, outbox[n])
  BY Zenon DEF SendTimeout, OnceInv, AllOnce, Changed
<1> HIDE DEF x
<1> QED  BY <1>1, <1>2, <1>3, QuietCallOnce, Zenon DEF Counted

\* The ring orders a multicast: if it is a request, no member has seen it.
LEMMA OrderOnce ==
  ASSUME OnceInv, NEW n \in Node, Order(n)
  PROVE  OnceInv'
<1> DEFINE t == outbox[n]
           d == dfsm[n]
           e == [type |-> "msg", from |-> n, pid |-> d.pid, body |-> Head(t)]
           I == Issued(dfsm, outbox)
           J == Issued(dfsm, outbox')
<1>1. /\ dfsm' = dfsm /\ t # <<>>
      /\ inbox' = [m \in Node |-> IF m \in ring[n] THEN Append(inbox[m], e) ELSE inbox[m]]
      /\ DOMAIN outbox' = Node
      /\ \A m \in Node : outbox'[m] = IF m = n THEN Tail(t) ELSE outbox[m]
  BY Zenon DEF Order, OnceInv, AllOnce
<1>2. DOMAIN inbox' = Node
      /\ \A m \in Node : inbox'[m] = IF m \in ring[n] THEN Append(inbox[m], e) ELSE inbox[m]
  BY <1>1, Zenon
<1>3. e.type = "msg" /\ e.from = n /\ e.pid = d.pid /\ e.body = Head(t)
  BY Zenon
<1>4. \A m \in Node : NodeOnce(I, dfsm[m], inbox[m]) /\ Counted(dfsm[m], outbox[m])
  BY Zenon DEF OnceInv, AllOnce
<1>5. Counted(d, t)
  BY <1>4, Zenon
<1> HIDE DEF e
<1>6. /\ Numbered(d.msgCounter, Tail(t)) /\ Range(Tail(t)) \subseteq Range(t)
      /\ Head(t) \in Range(t)
      /\ Head(t).type = "normal" =>
           /\ Head(t).count \in Nat /\ Head(t).count <= d.msgCounter
           /\ \A b \in Range(Tail(t)) : b.type = "normal" => Head(t).count < b.count
  BY <1>1, <1>5, NumberedTail, Zenon DEF Counted
<1>7. \A m \in Node : Counted(dfsm[m], outbox'[m]) /\ Later(dfsm[m], outbox[m], dfsm[m], outbox'[m])
  <2> TAKE m \in Node
  <2>1. CASE m = n
    <3>1. Counted(d, Tail(t)) /\ Later(d, t, d, Tail(t))
      <4> HIDE DEF d, t
      <4> QED  BY <1>5, <1>6 DEF Counted, Later
    <3>2. outbox'[n] = Tail(t)
      BY <1>1, Zenon
    <3> QED  BY <2>1, <3>1, <3>2, Zenon
  <2>2. CASE m # n
    <3>1. outbox'[m] = outbox[m] /\ Counted(dfsm[m], outbox[m])
      BY <2>2, <1>1, <1>4, Zenon
    <3> QED  BY <3>1 DEF Counted, Later
  <2> QED  BY <2>1, <2>2, Zenon
<1>8. I \subseteq J
  BY <1>4, <1>7, IssuedGrows, Zenon
<1>9. ASSUME Head(t).type = "normal"
      PROVE  EventKey(e) \in J /\ EventKey(e) \notin I
  <2> DEFINE k == EventKey(e)
  <2>1. k = <<n, d.pid, Head(t).count>>
    BY <1>3, Zenon DEF EventKey
  <2>2. k \in Node \X Nat \X Nat /\ k[1] = n /\ k[2] = d.pid /\ k[3] = Head(t).count
    BY <1>5, <1>6, <1>9, <2>1 DEF Counted
  <2> HIDE DEF k
  <2>3. d.pid \in Nat /\ d.msgCounter \in Nat /\ Head(t).count \in Nat /\ outbox'[n] = Tail(t)
    BY <1>1, <1>5, <1>6, <1>9, Zenon DEF Counted
  <2>4. k \in J
    BY <1>6, <1>9, <2>2, <2>3, Zenon DEF Issued
  <2>5. k \notin I
    <3>1. Head(t) \in Range(outbox[k[1]]) /\ ~ (k[3] < Head(t).count)
      BY <1>6, <2>2, <2>3
    <3>2. ~ (k[2] < dfsm[k[1]].pid)
      BY <2>2, <2>3
    <3> QED  BY <1>9, <3>1, <3>2, Zenon DEF Issued
  <2> QED  BY <2>4, <2>5, Zenon DEF k
<1>10. Brings(e) \subseteq J /\ Brings(e) \cap I = {}
  BY <1>3, <1>9, Zenon DEF Brings, IsRequest
<1> HIDE DEF I, J, t, d
<1>11. ASSUME NEW m \in Node PROVE NodeOnce(J, dfsm[m], inbox'[m])
  <2>1. NodeOnce(I, dfsm[m], inbox[m])
    BY <1>4, Zenon
  <2>2. /\ ArrivesOnce(Append(inbox[m], e))
        /\ Arriving(Append(inbox[m], e)) \subseteq Arriving(inbox[m]) \cup Brings(e)
    BY <1>10, <2>1, ArrivesAppend, Zenon DEF NodeOnce
  <2>3. NodeOnce(J, dfsm[m], Append(inbox[m], e))
    BY <1>8, <1>10, <2>1, <2>2, Zenon DEF NodeOnce
  <2>4. NodeOnce(J, dfsm[m], inbox[m])
    BY <1>8, <2>1, Zenon DEF NodeOnce
  <2> QED  BY <1>2, <2>3, <2>4, Zenon
<1>12. AllOnce(dfsm, inbox', outbox')
  BY <1>1, <1>2, <1>7, <1>11, Zenon DEF AllOnce, J, OnceInv
<1> QED  BY <1>1, <1>12, Zenon DEF OnceInv

\* A new process holds nothing.
LEMMA EmptyOnce ==
  ASSUME CountsAreListed, NEW x, QueueFields \subseteq DOMAIN x,
         x.log = <<>>, x.syncQueue = <<>>, x.msgQueue = Empty
  PROVE  Once(x) /\ Held(x) = {}
<1>1. DOMAIN x.msgQueue = {}
  BY Zenon DEF Empty
<1>2. SyncKeys(x) = {} /\ QueueKeys(x) = {} /\ Range(x.log) = {}
  BY <1>1, KeysOfFacts, SequenceFacts, Zenon DEF SyncKeys, QueueKeys
<1>3. IsQueue(x.msgQueue)
  BY <1>1, Zenon DEF IsQueue, CountsAreListed
<1>4. Distinct(x.log) /\ Sequence(x.syncQueue) /\ IsInjective(KeysOf(x.syncQueue))
  BY SequenceFacts, KeysOfFacts, Zenon DEF Distinct
<1> QED  BY <1>2, <1>3, <1>4, Zenon DEF Once, Held

\* A configuration change brings no request.
LEMMA ReconfiguredOnce ==
  ASSUME OnceInv, NEW rs
  PROVE  AllOnce(dfsm, Reconfigured(inbox, rs), outbox)
<1> DEFINE I == Issued(dfsm, outbox)
           ins == Reconfigured(inbox, rs)
<1>1. DOMAIN ins = Node
  BY Zenon DEF Reconfigured
<1>2. ASSUME NEW m \in Node
      PROVE  \/ ins[m] = inbox[m]
             \/ \E members : ins[m] = Append(inbox[m], [type |-> "conf", members |-> members])
  BY Zenon DEF Reconfigured
<1> HIDE DEF ins, I
<1>3. ASSUME NEW m \in Node PROVE NodeOnce(I, dfsm[m], ins[m])
  <2>1. NodeOnce(I, dfsm[m], inbox[m])
    BY Zenon DEF OnceInv, AllOnce, I
  <2>2. ASSUME NEW members
        PROVE  NodeOnce(I, dfsm[m], Append(inbox[m], [type |-> "conf", members |-> members]))
    <3> DEFINE e == [type |-> "conf", members |-> members]
    <3>1. Brings(e) = {}
      BY Zenon DEF Brings, IsRequest
    <3> HIDE DEF e
    <3>2. /\ ArrivesOnce(Append(inbox[m], e))
          /\ Arriving(Append(inbox[m], e)) \subseteq Arriving(inbox[m])
      BY <2>1, <3>1, ArrivesAppend, Zenon DEF NodeOnce
    <3>3. NodeOnce(I, dfsm[m], Append(inbox[m], e))
      BY <2>1, <3>2, Zenon DEF NodeOnce
    <3> QED  BY <3>3, Zenon DEF e
  <2> QED  BY <1>2, <2>1, <2>2, Zenon
<1>4. AllOnce(dfsm, ins, outbox)
  BY <1>1, <1>3, Zenon DEF OnceInv, AllOnce, I
<1> QED  BY <1>4, Zenon DEF ins

\* Joining, merging and partitions are configuration changes.
LEMMA MembershipOnce ==
  ASSUME OnceInv, (\E n \in Node : Join(n)) \/ Merge \/ Partition
  PROVE  OnceInv'
<1>1. dfsm' = dfsm /\ outbox' = outbox /\ \E rs : inbox' = Reconfigured(inbox, rs)
  BY Zenon DEF Join, Merge, Partition
<1> QED  BY <1>1, ReconfiguredOnce, Zenon DEF OnceInv

\* A process leaves or crashes: what CPG held for it is gone, and a new process
\* starts with nothing.
LEMMA DepartOnce ==
  ASSUME CountsAreListed, OnceInv, NEW n \in Node, Disconnect(n) \/ Crash(n)
  PROVE  OnceInv'
<1> DEFINE ins == Reconfigured(inbox, {ring[n] \ {n}})
           I == Issued(dfsm, outbox)
           x == NewDfsm(dfsm[n].pid + 1, Reloaded(dfsm[n].db))
<1>1. inbox' = [ins EXCEPT ![n] = <<>>] /\ outbox' = [outbox EXCEPT ![n] = <<>>]
  BY Zenon DEF Disconnect, Crash, Depart
<1>2. AllOnce(dfsm, ins, outbox)
  BY ReconfiguredOnce, Zenon
<1> HIDE DEF ins
<1>3. Changed(ins, inbox', n, <<>>) /\ Changed(outbox, outbox', n, <<>>)
  BY <1>1, <1>2, Zenon DEF AllOnce, Changed
<1>4. NodeOnce(I, dfsm[n], inbox[n]) /\ Counted(dfsm[n], outbox[n])
  BY Zenon DEF OnceInv, AllOnce
<1>5. ArrivesOnce(<<>>) /\ Arriving(<<>>) = {} /\ Range(<<>>) = {} /\ \A c : Numbered(c, <<>>)
  BY SequenceFacts DEF ArrivesOnce, Arriving, Numbered, Distinct
<1> HIDE DEF I
<1>6. CASE Disconnect(n)
  <2>1. Changed(dfsm, dfsm', n, dfsm[n])
    BY <1>6, Zenon DEF Disconnect, OnceInv, AllOnce, Changed
  <2>2. NodeOnce(I, dfsm[n], <<>>)
    BY <1>4, <1>5, Zenon DEF NodeOnce
  <2>3. Counted(dfsm[n], <<>>) /\ Later(dfsm[n], outbox[n], dfsm[n], <<>>)
    BY <1>4, <1>5 DEF Counted, Later
  <2>4. AllOnce(dfsm', inbox', outbox')
    BY <1>2, <1>3, <2>1, <2>2, <2>3, NodeStep, Zenon DEF I
  <2> QED  BY <2>4, Zenon DEF OnceInv
<1>7. CASE Crash(n)
  <2>1. Changed(dfsm, dfsm', n, x)
    BY <1>7, Zenon DEF Crash, OnceInv, AllOnce, Changed
  <2>2. /\ x.pid = dfsm[n].pid + 1 /\ x.msgCounter = 0 /\ x.log = <<>> /\ x.syncQueue = <<>>
        /\ x.msgQueue = Empty /\ QueueFields \subseteq DOMAIN x
    BY Zenon DEF NewDfsm, QueueFields
  <2> HIDE DEF x
  <2>3. Once(x) /\ Held(x) = {}
    BY <2>2, EmptyOnce, Zenon
  <2>4. NodeOnce(I, x, <<>>)
    BY <1>5, <2>3, Zenon DEF NodeOnce
  <2>5. Counted(x, <<>>) /\ Later(dfsm[n], outbox[n], x, <<>>)
    BY <1>4, <1>5, <2>2 DEF Counted, Later
  <2>6. AllOnce(dfsm', inbox', outbox')
    BY <1>2, <1>3, <2>1, <2>4, <2>5, NodeStep, Zenon DEF I
  <2> QED  BY <2>6 DEF OnceInv
<1> QED  BY <1>6, <1>7, Zenon

\* Processes that have delivered nothing and wait for nothing.
LEMMA InitOnce == CountsAreListed /\ Init => OnceInv
<1> SUFFICES ASSUME CountsAreListed, Init PROVE OnceInv
  BY Zenon
<1>1. DOMAIN dfsm = Node /\ DOMAIN inbox = Node /\ DOMAIN outbox = Node
  BY Zenon DEF Init
<1>2. ASSUME NEW n \in Node
      PROVE  /\ NodeOnce(Issued(dfsm, outbox), dfsm[n], inbox[n])
             /\ Counted(dfsm[n], outbox[n])
  <2> DEFINE x == NewDfsm(1, InitDb[n])
             members == [k \in {n} |-> 1]
  <2>1. /\ dfsm[n] = AloneInGroup(n, NewRound(n, x, members))
        /\ inbox[n] = <<>> /\ outbox[n] = <<>>
    BY Zenon DEF Init
  <2>2. /\ x.pid = 1 /\ x.msgCounter = 0 /\ x.log = <<>> /\ x.syncQueue = <<>>
        /\ x.msgQueue = Empty /\ QueueFields \subseteq DOMAIN x
    BY Zenon DEF NewDfsm, QueueFields
  <2> HIDE DEF x, members
  <2>3. Once(x) /\ Held(x) = {}
    BY <2>2, EmptyOnce, Zenon
  <2>4. After({}, x, dfsm[n])
    BY <2>1, <2>3, HandleMembershipChangeOnce, Zenon
  <2>5. ArrivesOnce(<<>>) /\ Arriving(<<>>) = {} /\ \A c : Numbered(c, <<>>)
    BY SequenceFacts DEF ArrivesOnce, Arriving, Numbered, Distinct
  <2>6. Once(dfsm[n]) /\ Held(dfsm[n]) = {} /\ dfsm[n].pid = 1 /\ dfsm[n].msgCounter = 0
    BY <2>2, <2>3, <2>4, Zenon DEF After
  <2>7. NodeOnce(Issued(dfsm, outbox), dfsm[n], inbox[n])
    BY <2>1, <2>5, <2>6, Zenon DEF NodeOnce
  <2>8. Counted(dfsm[n], outbox[n])
    BY <2>1, <2>5, <2>6 DEF Counted
  <2> QED  BY <2>7, <2>8, Zenon
<1> QED  BY <1>1, <1>2, Zenon DEF OnceInv, AllOnce

\* Every step keeps each request to one place of a node.
LEMMA NextOnce == CountsAreListed /\ IInv /\ OnceInv /\ [Next]_vars => OnceInv'
<1> SUFFICES ASSUME CountsAreListed, IInv, OnceInv, [Next]_vars PROVE OnceInv'
  BY Zenon
<1>1. CASE UNCHANGED vars
  BY <1>1, Zenon DEF vars, OnceInv
<1>2. ASSUME NEW n \in Node,
             \/ OnConfchg(n) \/ OnDeliver(n) \/ IgnoreWrongEpoch(n)
             \/ SendTimeout(n) \/ VerifyRequest(n) \/ Order(n)
             \/ Join(n) \/ Disconnect(n) \/ Crash(n)
      PROVE  OnceInv'
  BY <1>2, OnConfchgOnce, OnDeliverOnce, IgnoreWrongEpochOnce, SendTimeoutOnce,
     VerifyRequestOnce, OrderOnce, MembershipOnce, DepartOnce, Zenon
<1>3. ASSUME NEW n \in Node, NEW op \in Requests[n], SendMessageSync(n, op)
      PROVE  OnceInv'
  BY <1>3, SendMessageSyncOnce, Zenon
<1>4. CASE Merge \/ Partition
  BY <1>4, MembershipOnce, Zenon
<1> QED  BY <1>1, <1>2, <1>3, <1>4, Zenon DEF Next

-----------------------------------------------------------------------------
\* Finite sets of counts.

\* The definitions of modules FiniteSets and Functions, which the theorems on finite sets bring
\* along under the same names.
CanBeListed(C) == \E s \in Seq(C) : \A c \in C : \E k \in 1 .. Len(s) : s[k] = c
Count(C) ==
  LET CS[T \in SUBSET C] == IF T = {} THEN 0 ELSE 1 + CS[T \ {CHOOSE x : x \in T}]
  IN  CS[C]

OneToOne(f) == \A i, j \in DOMAIN f : f[i] = f[j] => i = j

\* What the model means by a finite set and its size.
LEMMA FiniteSetsHere == \A C : (IsFiniteSet(C) <=> CanBeListed(C)) /\ Cardinality(C) = Count(C)
<1>1. \A C : IsFiniteSet(C) <=> CanBeListed(C)
  BY Zenon DEF IsFiniteSet, CanBeListed
<1>2. \A C : Cardinality(C) = Count(C)
  BY Zenon DEF Cardinality, Count
<1> QED  BY <1>1, <1>2, Zenon

ListedByDefinition ==
  /\ CanBeListed({})
  /\ \A C, D : CanBeListed(C) /\ D \subseteq C => CanBeListed(D)
  /\ \A C, c : CanBeListed(C) => CanBeListed(C \cup {c})
  /\ \A C : C \subseteq Nat /\ CanBeListed(C) =>
         /\ Count(C) \in Nat /\ InOrder(C) \in [1 .. Count(C) -> C]
         /\ OneToOne(InOrder(C))

\* The facts about counts, from the definitions.
LEMMA ListedFromDefinitions ==
  ASSUME ListedByDefinition
  PROVE  CountsAreListed
<1>1. IsFiniteSet({})
  BY FiniteSetsHere, Zenon DEF ListedByDefinition
<1>2. \A C, D : IsFiniteSet(C) /\ D \subseteq C => IsFiniteSet(D)
  BY FiniteSetsHere, Zenon DEF ListedByDefinition
<1>3. \A C, c : IsFiniteSet(C) => IsFiniteSet(C \cup {c})
  BY FiniteSetsHere, Zenon DEF ListedByDefinition
<1>4. ASSUME NEW C, C \subseteq Nat, IsFiniteSet(C)
      PROVE  /\ Cardinality(C) \in Nat /\ InOrder(C) \in [1 .. Cardinality(C) -> C]
             /\ IsInjective(InOrder(C))
  <2>1. CanBeListed(C) /\ Cardinality(C) = Count(C)
    BY <1>4, FiniteSetsHere, Zenon
  <2>2. /\ Count(C) \in Nat /\ InOrder(C) \in [1 .. Count(C) -> C]
        /\ OneToOne(InOrder(C))
    BY <1>4, <2>1, Zenon DEF ListedByDefinition
  <2>3. IsInjective(InOrder(C))
    BY <2>2, Zenon DEF OneToOne, IsInjective
  <2> QED  BY <2>1, <2>2, <2>3, Zenon
<1> QED  BY <1>1, <1>2, <1>3, <1>4, Zenon DEF CountsAreListed

IsAscending(s) == \A i, j \in DOMAIN s : i < j => s[i] < s[j]

\* The empty set is listed by the empty list.
LEMMA EmptyAscending == \E s \in [1 .. 0 -> {}] : IsAscending(s)
<1>1. [i \in 1 .. 0 |-> 0] \in [1 .. 0 -> {}]
  OBVIOUS
<1>2. IsAscending([i \in 1 .. 0 |-> 0])
  BY DEF IsAscending
<1> QED  BY <1>1, <1>2, Zenon

\* The least count goes in front of a list of the others.
LEMMA LeastInFront ==
  ASSUME NEW C, C \subseteq Nat, NEW c \in C, \A x \in C : ~ (x < c),
         NEW k \in Nat, NEW t \in [1 .. k - 1 -> C \ {c}], IsAscending(t)
  PROVE  \E s \in [1 .. k -> C] : IsAscending(s)
<1> DEFINE s == [i \in 1 .. k |-> IF i = 1 THEN c ELSE t[i - 1]]
<1>1. \A i \in 1 .. k : i # 1 => i - 1 \in 1 .. k - 1 /\ t[i - 1] \in C /\ c < t[i - 1]
  <2> TAKE i \in 1 .. k
  <2> HAVE i # 1
  <2>1. i - 1 \in 1 .. k - 1
    OBVIOUS
  <2>2. t[i - 1] \in C \ {c}
    BY <2>1, Zenon
  <2>3. t[i - 1] \in C /\ t[i - 1] # c /\ c \in Nat /\ t[i - 1] \in Nat
    BY <2>2, Zenon
  <2>4. ~ (t[i - 1] < c)
    BY <2>3, Zenon
  <2> QED  BY <2>1, <2>3, <2>4
<1>2. s \in [1 .. k -> C]
  BY <1>1
<1>3. IsAscending(s)
  <2> SUFFICES ASSUME NEW i \in 1 .. k, NEW j \in 1 .. k, i < j
               PROVE  s[i] < s[j]
    BY Zenon DEF IsAscending
  <2>1. CASE i = 1
    BY <2>1, <1>1
  <2>2. CASE i # 1
    <3>1. i - 1 \in DOMAIN t /\ j - 1 \in DOMAIN t /\ i - 1 < j - 1
      BY <2>2, <1>1
    <3> QED  BY <2>2, <3>1 DEF IsAscending
  <2> QED  BY <2>1, <2>2, Zenon
<1> QED  BY <1>2, <1>3, Zenon

\* An ascending list has no count twice.
LEMMA AscendingDistinct ==
  ASSUME NEW C, C \subseteq Nat, NEW k \in Nat, NEW s \in [1 .. k -> C], IsAscending(s)
  PROVE  OneToOne(s)
<1> SUFFICES ASSUME NEW i \in DOMAIN s, NEW j \in DOMAIN s, s[i] = s[j], i # j
             PROVE  FALSE
  BY Zenon DEF OneToOne
<1>1. i \in 1 .. k /\ j \in 1 .. k /\ s[i] \in Nat
  BY Zenon
<1>2. i < j \/ j < i
  BY <1>1
<1> QED  BY <1>1, <1>2 DEF IsAscending

\* The order of the naturals, for the proofs by a least counterexample.
LEMMA OneLess == \A k \in Nat : k - 1 < k
OBVIOUS

LOCAL INSTANCE FiniteSetTheorems
LOCAL INSTANCE WellFoundedInduction

\* What the theorems mean by them.
LEMMA FiniteSetsThere == \A C : (IsFiniteSet(C) <=> CanBeListed(C)) /\ Cardinality(C) = Count(C)
<1>1. \A C : IsFiniteSet(C) <=> CanBeListed(C)
  BY Zenon DEF IsFiniteSet, CanBeListed
<1>2. \A C : Cardinality(C) = Count(C)
  BY Zenon DEF Cardinality, Count
<1> QED  BY <1>1, <1>2, Zenon

\* A finite set of counts can be listed in ascending order.
LEMMA AscendingExists ==
  \A C : C \subseteq Nat /\ IsFiniteSet(C) =>
    \E s \in [1 .. Cardinality(C) -> C] : IsAscending(s)
<1> DEFINE Listed(C) == \E s \in [1 .. Cardinality(C) -> C] : IsAscending(s)
           Bad == {k \in Nat : \E C : C \subseteq Nat /\ IsFiniteSet(C) /\ Cardinality(C) = k
                                    /\ ~ Listed(C)}
<1>1. SUFFICES ASSUME Bad # {} PROVE FALSE
  <2>1. ASSUME NEW C, C \subseteq Nat, IsFiniteSet(C), ~ Listed(C)
        PROVE  Bad # {}
    <3>1. Cardinality(C) \in Nat
      BY <2>1, FS_CardinalityType, Zenon
    <3> QED  BY <2>1, <3>1, Zenon
  <2> QED  BY <2>1, Zenon
<1>2. PICK k \in Bad : \A j \in Bad : ~ (j < k)
  <2>1. Bad \subseteq Nat
    BY Zenon
  <2> HIDE DEF Bad
  <2>2. \E k \in Bad : \A j \in Bad : ~ (<<j, k>> \in OpToRel(<, Nat))
    BY <1>1, <2>1, NatLessThanWellFounded, WFMin, Zenon
  <2> QED  BY <2>1, <2>2, Zenon DEF OpToRel
<1>3. PICK C : C \subseteq Nat /\ IsFiniteSet(C) /\ Cardinality(C) = k /\ ~ Listed(C)
  BY <1>2, Zenon
<1>4. C # {}
  <2>1. SUFFICES ASSUME C = {} PROVE FALSE
    BY Zenon
  <2>2. Cardinality(C) = 0
    BY <2>1, FS_EmptySet, Zenon
  <2> QED  BY <1>3, <2>1, <2>2, EmptyAscending, Zenon
<1>5. PICK c \in C : \A x \in C : ~ (x < c)
  <2>1. \E c \in C : \A x \in C : ~ (<<x, c>> \in OpToRel(<, Nat))
    BY <1>3, <1>4, NatLessThanWellFounded, WFMin, Zenon
  <2> QED  BY <1>3, <2>1, Zenon DEF OpToRel
<1> DEFINE D == C \ {c}
<1>6. IsFiniteSet(D) /\ Cardinality(D) = k - 1 /\ D \subseteq Nat
  BY <1>3, <1>5, FS_RemoveElement, Zenon
<1>7. k \in Nat /\ k - 1 \in Nat
  BY <1>2, <1>6, FS_CardinalityType, Zenon
<1>8. Listed(D)
  <2>1. k - 1 \notin Bad
    BY <1>2, <1>7, OneLess, Zenon
  <2> QED  BY <1>6, <1>7, <2>1, Zenon
<1>9. PICK t \in [1 .. k - 1 -> D] : IsAscending(t)
  BY <1>6, <1>8, Zenon
<1>10. \E s \in [1 .. k -> C] : IsAscending(s)
  BY <1>3, <1>5, <1>7, <1>9, LeastInFront, Zenon
<1> QED  BY <1>3, <1>10, Zenon

\* The counts of a queue in the order of the BTreeMap: each of them once.
LEMMA InOrderDistinct ==
  ASSUME NEW C, C \subseteq Nat, IsFiniteSet(C)
  PROVE  InOrder(C) \in [1 .. Cardinality(C) -> C] /\ OneToOne(InOrder(C))
<1> DEFINE k == Cardinality(C)
           s == InOrder(C)
<1>1. \E u \in [1 .. k -> C] : IsAscending(u)
  BY AscendingExists, Zenon
<1>2. s = CHOOSE u \in [1 .. k -> C] : IsAscending(u)
  BY FiniteSetsHere, FiniteSetsThere, Zenon DEF InOrder, IsAscending
<1>3. k \in Nat
  BY FS_CardinalityType, Zenon
<1> HIDE DEF k, s
<1>4. s \in [1 .. k -> C] /\ IsAscending(s)
  BY <1>1, <1>2, Zenon
<1>5. OneToOne(s)
  BY <1>3, <1>4, AscendingDistinct, Zenon
<1> QED  BY <1>4, <1>5, Zenon DEF k, s

\* The facts about finite sets of counts that the queues rest on.
LEMMA QueuesAreListed == CountsAreListed
<1>1. IsFiniteSet({})
  BY FS_EmptySet, Zenon
<1>2. \A C, D : IsFiniteSet(C) /\ D \subseteq C => IsFiniteSet(D)
  BY FS_Subset, Zenon
<1>3. \A C, c : IsFiniteSet(C) => IsFiniteSet(C \cup {c})
  BY FS_AddElement, Zenon
<1>4. \A C : C \subseteq Nat /\ IsFiniteSet(C) => Cardinality(C) \in Nat
  BY FS_CardinalityType, Zenon
<1>5. /\ CanBeListed({})
      /\ \A C, D : CanBeListed(C) /\ D \subseteq C => CanBeListed(D)
      /\ \A C, c : CanBeListed(C) => CanBeListed(C \cup {c})
  BY <1>1, <1>2, <1>3, FiniteSetsThere, Zenon
<1>6. ASSUME NEW C, C \subseteq Nat, CanBeListed(C)
      PROVE  /\ Count(C) \in Nat /\ InOrder(C) \in [1 .. Count(C) -> C]
             /\ OneToOne(InOrder(C))
  BY <1>4, <1>6, FiniteSetsThere, InOrderDistinct, Zenon
<1>7. \A C : C \subseteq Nat /\ CanBeListed(C) =>
        /\ Count(C) \in Nat /\ InOrder(C) \in [1 .. Count(C) -> C]
        /\ OneToOne(InOrder(C))
  BY <1>6, Zenon
<1>8. ListedByDefinition
  BY <1>5, <1>7, Zenon DEF ListedByDefinition
<1> QED  BY <1>8, ListedFromDefinitions, Zenon

-----------------------------------------------------------------------------
\* A process delivers a request of a client at most once, whether at once, from
\* the message queue or from the sync queue, across rounds of state exchange,
\* partitions and restarts of the sender (deliver_message_queue,
\* deliver_sync_queue and queue_message move a message and never copy it).
THEOREM MessagesAreDeliveredOnce == Spec => []DeliveredOnce
<1>1. OnceInv => DeliveredOnce
  BY Zenon DEF OnceInv, AllOnce, NodeOnce, Once, Distinct, DeliveredOnce
<1>2. Init => OnceInv
  BY QueuesAreListed, InitOnce, Zenon
<1>3. IInv /\ OnceInv /\ [Next]_vars => OnceInv'
  BY QueuesAreListed, NextOnce, Zenon
<1> QED  BY <1>1, <1>2, <1>3, InvariantHolds, PTL DEF Spec
=============================================================================
