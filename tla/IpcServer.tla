-------------------------------- MODULE IpcServer --------------------------------
(***************************************************************************)
(* The IPC server (pmxcfs-ipc/src/server.rs) and its connections           *)
(* (connection.rs).  One acceptor task performs the handshakes.  Each      *)
(* connection has a receiver that moves requests from the request ring     *)
(* to a bounded work queue, a worker that handles them in order, and a     *)
(* sender that moves answers from an unbounded queue to the response ring. *)
(* A ring is a bounded channel here; RingBuffer has its words.             *)
(***************************************************************************)
EXTENDS IpcRequests

CONSTANTS
  Clients,        \* the client processes
  Handshakes,     \* the connection requests they may send
  Inputs,         \* the requests they may send: [size, op, data, req]
  MaxRequests,    \* requests of one client (bound of the model)
  MaxPending,     \* MAX_PENDING_REQUESTS, 8 in the code
  Warning,        \* FC_WARNING_THRESHOLD, 6 in the code
  RingSlots,      \* messages that a ring holds
  MinMessage, MaxMessage,  \* bounds of max_msg_size: 128 and 16 MiB
  WwwData,        \* gid of www-data
  InitStore       \* what the handlers find

(* A message from a client is whole, shorter than a header, or longer than the
   ring admits. *)
ASSUME IpcAssumption ==
  /\ MaxPending \in Nat \ {0} /\ Warning \in Nat \ {0}
  /\ \A m \in Inputs : m.size \in {"whole", "short", "long"}

VARIABLES
  client,         \* "away", "backlog", "joined" or "left"
  backlog,        \* clients in the listen queue of the setup socket
  acceptor,       \* [pc, of] of the acceptor task
  server,         \* "running", "cancelled" or "stopped"
  connections,    \* the keys of Server.connections
  stats,          \* ServerStats: active and closed connections
  link,           \* the connection of each client
  store           \* what the handlers read and change

ipcVars == <<client, backlog, acceptor, server, connections, stats, link, store>>

FlowOk == 0
SlowDown == 1
StopSending == 2

(* received is a history of the requests taken from the ring. *)
NoLink ==
  [task |-> "none", readOnly |-> FALSE, ring |-> <<>>, asked |-> 0, received |-> {},
   at |-> "recv", held |-> <<>>, flow |-> FlowOk, skipped |-> FALSE, work |-> <<>>,
   busy |-> <<>>, responses |-> <<>>, answers |-> <<>>, unread |-> 0, stuck |-> FALSE]

IpcInit ==
  /\ client = [c \in Clients |-> "away"]
  /\ backlog = <<>>
  /\ acceptor = [pc |-> "accept", of |-> {}]
  /\ server = "running"
  /\ connections = {}
  /\ stats = [active |-> 0, closed |-> 0]
  /\ link = [c \in Clients |-> NoLink]
  /\ store = InitStore

ServerKeeps == UNCHANGED <<backlog, acceptor, server, connections, stats>>

---------------------------------------------------------------------------------
(* Server *)

Connect(c) ==
  /\ client[c] = "away"
  /\ client' = [client EXCEPT ![c] = "backlog"]
  /\ backlog' = Append(backlog, c)
  /\ UNCHANGED <<acceptor, server, connections, stats, link, store>>

(* select! may take a waiting client although the token is cancelled. *)
Accept ==
  /\ acceptor.pc = "accept" /\ backlog # <<>>
  /\ acceptor' = [pc |-> "read", of |-> {Head(backlog)}]
  /\ backlog' = Tail(backlog)
  /\ UNCHANGED <<client, server, connections, stats, link, store>>

AcceptorCancelled ==
  /\ acceptor.pc = "accept" /\ server # "running"
  /\ acceptor' = [pc |-> "done", of |-> {}]
  /\ UNCHANGED <<client, backlog, server, connections, stats, link, store>>

(* The answer to a connection request: the checks of accept in their order. *)
HandshakeReply(h) ==
  IF ~h.sized \/ h.max < MinMessage \/ h.max > MaxMessage THEN "EINVAL"
  ELSE IF Authenticate(h.uid, h.gid, WwwData) = "refused" THEN "EPERM"
  ELSE "OK"

Refuse(h) ==
  /\ acceptor.pc = "read" /\ HandshakeReply(h) # "OK"
  /\ client' = [c \in Clients |-> IF c \in acceptor.of THEN "left" ELSE client[c]]
  /\ acceptor' = [pc |-> "accept", of |-> {}]
  /\ UNCHANGED <<backlog, server, connections, stats, link, store>>

(* The client closed its socket instead: read_exact fails. *)
HandshakeFails ==
  /\ acceptor.pc = "read"
  /\ client' = [c \in Clients |-> IF c \in acceptor.of THEN "left" ELSE client[c]]
  /\ acceptor' = [pc |-> "accept", of |-> {}]
  /\ UNCHANGED <<backlog, server, connections, stats, link, store>>

(* The rings exist, the client knows their names, and the handler task runs. *)
Establish(h) ==
  /\ acceptor.pc = "read" /\ HandshakeReply(h) = "OK"
  /\ acceptor' = [acceptor EXCEPT !.pc = "insert"]
  /\ \E c \in acceptor.of :
       /\ client' = [client EXCEPT ![c] = "joined"]
       /\ link' = [link EXCEPT ![c] =
            [NoLink EXCEPT !.task = "open",
                           !.readOnly = Authenticate(h.uid, h.gid, WwwData) = "ro"]]
  /\ UNCHANGED <<backlog, server, connections, stats, store>>

InsertConnection ==
  /\ acceptor.pc = "insert"
  /\ connections' = connections \cup acceptor.of
  /\ acceptor' = [acceptor EXCEPT !.pc = "count"]
  /\ UNCHANGED <<client, backlog, server, stats, link, store>>

ConnectionCreated ==
  /\ acceptor.pc = "count"
  /\ stats' = [stats EXCEPT !.active = @ + 1]
  /\ acceptor' = [pc |-> "accept", of |-> {}]
  /\ UNCHANGED <<client, backlog, server, connections, link, store>>

(* stop: first the token is cancelled, then the map is emptied. *)
CancelToken ==
  /\ server = "running"
  /\ server' = "cancelled"
  /\ UNCHANGED <<client, backlog, acceptor, connections, stats, link, store>>

TakeConnections ==
  /\ server = "cancelled"
  /\ server' = "stopped"
  /\ stats' = [active |-> stats.active - Cardinality(connections),
               closed |-> stats.closed + Cardinality(connections)]
  /\ connections' = {}
  /\ UNCHANGED <<client, backlog, acceptor, link, store>>

---------------------------------------------------------------------------------
(* Clients *)

ClientSends(c, m) ==
  /\ client[c] = "joined" /\ link[c].asked < MaxRequests
  /\ Len(link[c].ring) < RingSlots
  /\ link' = [link EXCEPT ![c].asked = @ + 1,
                          ![c].ring = Append(@, [id |-> link[c].asked + 1, msg |-> m])]
  /\ UNCHANGED <<client, store>> /\ ServerKeeps

ClientReads(c) ==
  /\ client[c] = "joined" /\ link[c].unread > 0
  /\ link' = [link EXCEPT ![c].unread = @ - 1]
  /\ UNCHANGED <<client, store>> /\ ServerKeeps

ClientLeaves(c) ==
  /\ client[c] = "joined"
  /\ client' = [client EXCEPT ![c] = "left"]
  /\ UNCHANGED <<link, store>> /\ ServerKeeps

---------------------------------------------------------------------------------
(* The receiver *)

(* Mutant: the receiver does not look at the cancellation token. *)
Break_IgnoresToken(c) ==
  /\ link[c].task = "open" /\ link[c].at = "recv"
  /\ client[c] = "left"
  /\ link' = [link EXCEPT ![c].task = "closing"]
  /\ UNCHANGED <<client, store>> /\ ServerKeeps

(* Cancelled, or the setup socket was closed: no more requests are taken. *)
Break(c) ==
  /\ link[c].task = "open" /\ link[c].at = "recv"
  /\ server # "running" \/ client[c] = "left"
  /\ link' = [link EXCEPT ![c].task = "closing"]
  /\ UNCHANGED <<client, store>> /\ ServerKeeps

(* read_chunk clears the flow control word.  A request without a whole header is
   skipped; one that is longer than the ring admits ends the connection. *)
Receive(c) ==
  /\ link[c].task = "open" /\ link[c].at = "recv" /\ link[c].ring # <<>>
  /\ \E r \in {Head(link[c].ring)} :
       CASE r.msg.size = "whole" ->
              link' = [link EXCEPT ![c].ring = Tail(@), ![c].flow = FlowOk, ![c].at = "queue",
                                   ![c].held = <<r>>, ![c].received = @ \cup {r.id}]
         [] r.msg.size = "short" ->
              link' = [link EXCEPT ![c].ring = Tail(@), ![c].flow = FlowOk,
                                   ![c].skipped = TRUE]
         [] r.msg.size = "long" -> link' = [link EXCEPT ![c].task = "closing"]
  /\ UNCHANGED <<client, store>> /\ ServerKeeps

(* Mutant: a request that finds the queue full is dropped. *)
Queue_Drops(c) ==
  /\ link[c].at = "queue"
  /\ link' = IF Len(link[c].work) < MaxPending
             THEN [link EXCEPT ![c].work = @ \o link[c].held, ![c].held = <<>>,
                               ![c].at = "flow", ![c].skipped = FALSE]
             ELSE [link EXCEPT ![c].flow = StopSending, ![c].held = <<>>,
                               ![c].at = "recv", ![c].skipped = FALSE]
  /\ UNCHANGED <<client, store>> /\ ServerKeeps

(* try_send: on a full queue the request is answered with EAGAIN at once, ahead of
   the answers to the requests that wait.  The queue is never found closed: the worker
   holds its other end until the receiver drops its own, unless a handler panics,
   which the model leaves out. *)
Queue(c) ==
  /\ link[c].at = "queue"
  /\ link' = IF Len(link[c].work) < MaxPending
             THEN [link EXCEPT ![c].work = @ \o link[c].held, ![c].held = <<>>,
                               ![c].at = "flow", ![c].skipped = FALSE]
             ELSE [link EXCEPT ![c].flow = StopSending, ![c].held = <<>>,
                               ![c].at = "recv", ![c].skipped = FALSE,
                               ![c].responses =
                                 Append(@, [id |-> link[c].held[1].id, error |-> "EAGAIN"])]
  /\ UNCHANGED <<client, store>> /\ ServerKeeps

(* Mutant: the warning comes one request late. *)
FlowLevel_Late(n) ==
  IF n >= MaxPending THEN StopSending ELSE IF n > Warning THEN SlowDown ELSE FlowOk

FlowLevel(n) ==
  IF n >= MaxPending THEN StopSending ELSE IF n >= Warning THEN SlowDown ELSE FlowOk

(* The worker may have taken requests since try_send. *)
SetFlow(c) ==
  /\ link[c].at = "flow"
  /\ link' = [link EXCEPT ![c].flow = FlowLevel(Len(link[c].work)), ![c].at = "recv"]
  /\ UNCHANGED <<client, store>> /\ ServerKeeps

---------------------------------------------------------------------------------
(* The worker and the sender *)

TakeWork(c) ==
  /\ link[c].busy = <<>> /\ link[c].work # <<>>
  /\ link' = [link EXCEPT ![c].work = Tail(@),
                          ![c].busy = <<[req |-> Head(link[c].work), vmlist |-> store.vmlist]>>]
  /\ UNCHANGED <<client, store>> /\ ServerKeeps

HandleWork(c) ==
  /\ link[c].busy # <<>>
  /\ \E b \in {link[c].busy[1]} :
     \E r \in {Handle(store, b.req.msg.op, b.req.msg.data, link[c].readOnly, b.vmlist)} :
       /\ link' = [link EXCEPT ![c].busy = <<>>,
                               ![c].responses = Append(@, [id |-> b.req.id, error |-> r.error])]
       /\ store' = r.store
  /\ UNCHANGED client /\ ServerKeeps

(* send_response: without room in the ring, send waits for a notification that only
   a reader in the same process gives, so for ever. *)
SendResponse(c) ==
  /\ link[c].responses # <<>> /\ ~link[c].stuck
  /\ link' = IF link[c].unread < RingSlots
             THEN [link EXCEPT ![c].answers = Append(@, Head(link[c].responses)),
                               ![c].responses = Tail(@), ![c].unread = @ + 1]
             ELSE [link EXCEPT ![c].stuck = TRUE]
  /\ UNCHANGED <<client, store>> /\ ServerKeeps

(* The channels are dropped; the worker and the sender end when they are empty. *)
FinishConnection(c) ==
  /\ link[c].task = "closing"
  /\ link[c].work = <<>> /\ link[c].busy = <<>> /\ link[c].responses = <<>>
  /\ link' = [link EXCEPT ![c].task = "finished"]
  /\ UNCHANGED <<client, store>> /\ ServerKeeps

(* A configuration file goes to another node while requests are handled. *)
GuestMoves(v, n) ==
  /\ v \in DOMAIN store.vmlist
  /\ \E old \in {ConfigPath(v, store.vmlist[v])} :
       /\ Has(store.files, old) /\ ~Has(store.files, ConfigPath(v, n))
       /\ store' = [store EXCEPT !.files =
            [p \in (DOMAIN @ \ {old}) \cup {ConfigPath(v, n)} |->
               IF p = ConfigPath(v, n) THEN store.files[old] ELSE @[p]]]
  /\ UNCHANGED <<client, link>> /\ ServerKeeps

---------------------------------------------------------------------------------
AcceptorStep ==
  \/ Accept \/ AcceptorCancelled \/ HandshakeFails \/ InsertConnection \/ ConnectionCreated
  \/ \E h \in Handshakes : Refuse(h) \/ Establish(h)

StopStep == CancelToken \/ TakeConnections

ReceiverStep(c) == Break(c) \/ Receive(c) \/ Queue(c) \/ SetFlow(c)

WorkerStep(c) == TakeWork(c) \/ HandleWork(c)

ClientStep(c) ==
  \/ Connect(c) \/ ClientReads(c) \/ ClientLeaves(c)
  \/ \E m \in Inputs : ClientSends(c, m)

ConnectionStep(c) ==
  ReceiverStep(c) \/ WorkerStep(c) \/ SendResponse(c) \/ FinishConnection(c)

IpcNext ==
  \/ AcceptorStep \/ StopStep
  \/ \E c \in Clients : ConnectionStep(c) \/ ClientStep(c)
  \/ \E v \in DOMAIN store.vmlist, n \in store.members : GuestMoves(v, n)

(* The tasks of the runtime are scheduled fairly; a client that has connected sends
   its connection request or goes away. *)
IpcFairness ==
  /\ WF_ipcVars(AcceptorStep)
  /\ WF_ipcVars(TakeConnections)
  /\ \A c \in Clients : /\ WF_ipcVars(ReceiverStep(c))
                        /\ WF_ipcVars(WorkerStep(c))
                        /\ WF_ipcVars(SendResponse(c))
                        /\ WF_ipcVars(FinishConnection(c))

IpcSpec == IpcInit /\ [][IpcNext]_ipcVars /\ IpcFairness

---------------------------------------------------------------------------------
(* Properties *)

Ids(s) == {s[i].id : i \in DOMAIN s}

(* Everything that is answered or waits to be sent to the client of a connection. *)
Replies(c) == link[c].answers \o link[c].responses

(* The requests taken from the ring, each in the place where it is: answered, with
   the worker, queued, held by the receiver. *)
Taken(c) ==
  Replies(c) \o [i \in DOMAIN link[c].busy |-> link[c].busy[i].req]
    \o link[c].work \o link[c].held

(* Every request that was taken from the ring is in one place: held, queued, being
   handled, or answered once.  So each gets one answer, also when the client leaves
   or the server stops while it waits (handle_requests drains its channels), and a
   connection is finished only when all are answered.  The answers of the worker
   come in the order of the requests; only EAGAIN may overtake. *)
AnswersAreInOrder ==
  \A c \in Clients :
    LET taken == Taken(c)
        replies == Replies(c)
    IN /\ Ids(taken) = link[c].received
       /\ \A i, j \in DOMAIN taken : taken[i].id = taken[j].id => i = j
       /\ \A i, j \in DOMAIN replies :
            i < j /\ replies[i].error # "EAGAIN" /\ replies[j].error # "EAGAIN"
              => replies[i].id < replies[j].id
       /\ link[c].task = "finished" => Ids(link[c].answers) = link[c].received

(* When the receiver waits for the next request, the client is told to slow down or
   to stop at least as early as the length of the work queue asks for, although the
   worker runs between try_send and the reading of the capacity.  (A request without
   a header clears the word and leaves it cleared; until the next one it is off.) *)
FlowControlCovers ==
  \A c \in Clients :
    link[c].at = "recv" /\ link[c].task = "open" /\ ~link[c].skipped
      => /\ Len(link[c].work) >= Warning => link[c].flow # FlowOk
         /\ Len(link[c].work) = MaxPending => link[c].flow = StopSending

RequestOf(r) ==
  IF r.op = "GetClusterLog" /\ r.max = 0 THEN [r EXCEPT !.max = DefaultEntries] ELSE r

(* The request that a worker handles is the one the client packed, for strings of
   every length that fits; what no client packs is refused (IpcRequest::deserialize
   against the structs of the C header). *)
UnderstoodAsSent ==
  \A c \in Clients : \A i \in DOMAIN link[c].busy :
    \E m \in {link[c].busy[i].req.msg} :
      Deserialize(m.op, m.data) = {RequestOf(r) : r \in m.req}

(* When the server is stopped, or the client leaves, the connection ends after the
   requests it holds are answered; so does one whose handshake is under way when
   stop empties the map.  A sender that waits for room in the ring never ends. *)
ConnectionEnds ==
  \A c \in Clients :
    (link[c].task = "open" /\ (server # "running" \/ client[c] = "left"))
      ~> (link[c].task = "finished" \/ link[c].stuck)
=================================================================================
