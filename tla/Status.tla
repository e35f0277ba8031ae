------------------------------- MODULE Status -------------------------------
(***************************************************************************)
(* The status store of one daemon (pmxcfs-status/status.rs) and the tasks  *)
(* that write it: the cluster configuration service and the quorum         *)
(* service, which copy what Corosync reports; the delivery task of the     *)
(* kvstore group; the delivery task of the database group, which applies   *)
(* file operations and commits synchronised states; the IPC worker; and    *)
(* the start-up scan of the main task.  The tasks run on different threads *)
(* of one runtime, and every field of the store has a lock of its own, so  *)
(* an operation that touches two fields is two steps here.                 *)
(*                                                                         *)
(* Clients (pvestatd, the API daemons) poll the counters of .version and   *)
(* read a content again only when its counter has moved.  A channel is     *)
(* such a pair of counter and content.                                     *)
(***************************************************************************)
EXTENDS Naturals, FiniteSets, Sequences, Functions

CONSTANTS NodeIds,       \* Corosync node identifiers
          Self,          \* the identifier of this node
          Ips,           \* addresses
          Configs,       \* node lists CMAP can hold: sequences of [id, ip]
          Values,        \* values of a status key
          Vms,           \* guest identifiers
          None,          \* absent value, address or owner
          NoIp,          \* the address stored when ring0_addr is unreadable
          Zeros,         \* the content of a file that was truncated or created
          ExpireSeconds, \* age at which RRD data is dropped (300)
          CacheSeconds,  \* time an RRD dump is reused (2)
          MaxTime,       \* bound on the clock
          MaxInputs      \* bound on the inputs from outside the daemon

Channels == {"clinfo", "vmlist", "path"}
Tasks == {"ipc", "kv", "db", "main", "api"}
Readers == {"ipc", "fuse"}

ASSUME StatusAssumption ==
  /\ None \notin Nat \cup Channels
  /\ ExpireSeconds \in Nat /\ CacheSeconds \in Nat \ {0}
  /\ MaxTime \in Nat /\ MaxInputs \in Nat

VARIABLES inputs,       \* inputs so far
          \* ---- Corosync
          cmap,         \* the node list in CMAP
          coroQuorate,  \* what the quorum provider says
          \* ---- the configuration service task
          config,       \* pc, notified, failed, the list being read, and
                        \* what the reactor watches for the service
          \* ---- the quorum service task
          tracking,     \* its connection, and whether the reactor watches it
          notes,        \* notifications waiting on it
          quorate,      \* Status::quorate
          \* ---- the store
          info,         \* cluster_info.nodes_by_id: id -> [ip, online]
          members,      \* the member list
          kvstore,      \* value of the status key per node
          nodeIps,      \* node_ips
          nodeStatus,   \* node_status: this node's own value of the key
          vmlist,       \* guest -> [node, version]
          vminfoVersion,\* vminfo_version_counter
          db,           \* the database: a tracked file and the guest configs;
                        \* local: the daemon runs without a cluster; silent
                        \* (history): a writer that moves no counter changed
                        \* the file since its counter last moved
          version,      \* cluster_version, vmlist_version, a path version
          \* ---- tasks in the middle of an operation
          task,         \* what each task is doing
          owed,         \* counters a task has yet to increment
          \* ---- a polling client
          poll,         \* channel and counter it has just seen change
          cached,       \* counter and content it holds
          \* ---- RRD data
          now, rrd, dumpCache, dump

storeVars == <<info, members, kvstore, nodeIps, nodeStatus>>
configVars == <<cmap, config>>
quorumVars == <<coroQuorate, tracking, notes, quorate>>
guestVars == <<vmlist, vminfoVersion, db>>
clientVars == <<poll, cached>>
rrdVars == <<now, rrd, dumpCache, dump>>
vars == <<inputs, configVars, quorumVars, storeVars, guestVars, version, task,
          owed, clientVars, rrdVars>>

Input == inputs < MaxInputs /\ inputs' = inputs + 1

-----------------------------------------------------------------------------
(* The store. *)

Idle == [op |-> "idle"]
AtRest(t) == task[t] = Idle /\ owed[t] = {}

NodeIdsOf(list) == {list[i].id : i \in DOMAIN list}

\* nodes_by_id after add_node of every member of the list: a later one
\* replaces an earlier one with the same identifier.  A node that was known
\* keeps its online flag.
NodesById(list, old) ==
  [id \in NodeIdsOf(list) |->
     LET at == {i \in DOMAIN list : list[i].id = id}
         last == CHOOSE i \in at : \A j \in at : j <= i
     IN  [ip |-> list[last].ip, online |-> id \in DOMAIN old /\ old[id].online]]

NoPoll == [channel |-> None, version |-> 0, nodes |-> None]
NoGuests == [v \in Vms |-> None]
Scan == [op |-> "scan", todo |-> NodeIds, found |-> NoGuests]

\* The plugin .members lists the nodes of cluster_info, those in the member
\* list online, and counts the members, itself at least.
MembersContent(nodes) ==
  [nodelist |-> [id \in DOMAIN nodes |-> [ip |-> nodes[id].ip,
                                          online |-> id \in members]],
   nodes |-> IF members = {} THEN 1 ELSE Cardinality(members)]

\* The plugin .vmlist lists the guests with their nodes and versions.
VmlistContent == [v \in {w \in Vms : vmlist[w].node # None} |-> vmlist[v]]

\* What a client reads when the counter of the channel has moved: .members
\* from the node list it was given and the address table, .vmlist, a file.
Content(c, nodes) ==
  CASE c = "clinfo" -> <<MembersContent(nodes), nodeIps>>
    [] c = "vmlist" -> VmlistContent
    [] c = "path" -> db.file

\* What Status::new and then init_cluster leave: an empty node list under
\* cluster version 1.  The services and the main task's scan have started.
Init ==
  /\ inputs = 0
  /\ cmap \in Configs
  /\ coroQuorate \in BOOLEAN
  /\ config = [pc |-> "down", notified |-> FALSE, failed |-> FALSE,
               list |-> <<>>, index |-> 1, id |-> None, watch |-> "new"]
  /\ tracking = "new"
  /\ notes = <<>>
  /\ quorate = FALSE
  /\ info = <<>>
  /\ members = {}
  /\ kvstore = [n \in NodeIds |-> None]
  /\ nodeIps = [n \in NodeIds |-> None]
  /\ nodeStatus = None
  /\ vmlist = [v \in Vms |-> [node |-> None, version |-> 0]]
  /\ vminfoVersion = 0
  /\ db \in {[file |-> None, vms |-> NoGuests, local |-> alone,
             silent |-> FALSE] : alone \in BOOLEAN}
  /\ version = [c \in Channels |-> IF c = "clinfo" THEN 1 ELSE 0]
  /\ task = [t \in Tasks |-> IF t = "main" THEN Scan ELSE Idle]
  /\ owed = [t \in Tasks |-> {}]
  /\ poll = NoPoll
  /\ cached = [c \in Channels |-> [version |-> None, content |-> None]]
  /\ now = 0
  /\ rrd = None
  /\ dumpCache = None
  /\ dump = [r \in Readers |-> [pc |-> "idle", start |-> 0, result |-> None]]

-----------------------------------------------------------------------------
(* A service of Corosync and the reactor.  When the manager initialises a  *)
(* service again it registers the new descriptor before it drops the old   *)
(* AsyncFd; if both have the same number, that removes the registration    *)
(* of the new one, and the service is never dispatched again.              *)

WatchAfter(watch) == IF watch = "new" THEN {"live"} ELSE {"live", "dropped"}

-----------------------------------------------------------------------------
(* The cluster configuration service.  read_cluster_config fetches the     *)
(* keys of the node list one by one, so a change of CMAP can fall between  *)
(* two of them.  The name of a node, fetched between its identifier and    *)
(* its address, is left out: the identifier stands for it.                 *)

\* Mutant: the tracks are added only when the configuration has been read.
Tracks_AfterReading == config.pc = "up"

\* initialize adds both tracks before it reads.
Tracks == config.pc # "down"

\* Corosync changes the node list and notifies a tracking connection.
CmapChange(list) ==
  /\ Input
  /\ list # cmap
  /\ cmap' = list
  /\ config' = [config EXCEPT !.notified = @ \/ Tracks]
  /\ UNCHANGED <<quorumVars, storeVars, guestVars, version, task, owed,
                 clientVars, rrdVars>>

StartReading == [config EXCEPT !.pc = "read", !.notified = FALSE,
                               !.failed = FALSE, !.list = <<>>, !.index = 1]

\* initialize: connect, add both tracks, then read for the first time.  An
\* attempt that fails leaves nothing behind and the manager tries again.
ConfigInitialize ==
  /\ config.pc = "down"
  /\ \E w \in WatchAfter(config.watch) :
       config' = [StartReading EXCEPT !.watch = w]
  /\ UNCHANGED <<inputs, cmap, quorumVars, storeVars, guestVars, version,
                 task, owed, clientVars, rrdVars>>

\* dispatch: the callback runs, sets changes_detected, and the flag is
\* cleared before the configuration is read again.
ConfigDispatch ==
  /\ config.pc = "up" /\ config.watch = "live"
  /\ config.notified
  /\ config' = StartReading
  /\ UNCHANGED <<inputs, cmap, quorumVars, storeVars, guestVars, version,
                 task, owed, clientVars, rrdVars>>

\* dispatch finds the connection gone; the manager finalizes the service.
ConfigConnectionLost ==
  /\ Input
  /\ config.pc = "up" /\ config.watch = "live"
  /\ config' = [config EXCEPT !.pc = "down", !.notified = FALSE]
  /\ UNCHANGED <<cmap, quorumVars, storeVars, guestVars, version, task, owed,
                 clientVars, rrdVars>>

\* totem.cluster_name cannot be read: the reading is abandoned and only a
\* warning is logged.
ReadClusterNameFails ==
  /\ Input
  /\ config.pc = "read" /\ config.index = 1 /\ config.id = None
  /\ config' = [config EXCEPT !.pc = "up", !.failed = TRUE]
  /\ UNCHANGED <<cmap, quorumVars, storeVars, guestVars, version, task, owed,
                 clientVars, rrdVars>>

NextNodeIn(list) ==
  config.pc = "read" /\ config.id = None /\ config.index <= Len(list)

\* One turn of the loop of read_cluster_nodes: the identifier ...
ReadNode ==
  /\ NextNodeIn(cmap)
  /\ config' = [config EXCEPT !.id = cmap[config.index].id]
  /\ UNCHANGED <<inputs, cmap, quorumVars, storeVars, guestVars, version,
                 task, owed, clientVars, rrdVars>>

\* ... which is skipped when its key cannot be read, though it is there ...
ReadNodeFails ==
  /\ Input
  /\ NextNodeIn(cmap)
  /\ config' = [config EXCEPT !.index = @ + 1, !.failed = TRUE]
  /\ UNCHANGED <<cmap, quorumVars, storeVars, guestVars, version, task, owed,
                 clientVars, rrdVars>>

PushNode(ip) == [config EXCEPT !.list = Append(@, [id |-> config.id, ip |-> ip]),
                               !.index = @ + 1, !.id = None]

\* ... and the address, empty when the node has left the list since.
ReadAddress ==
  /\ config.id # None
  /\ config' = PushNode(IF config.index <= Len(cmap)
                        THEN cmap[config.index].ip ELSE NoIp)
  /\ UNCHANGED <<inputs, cmap, quorumVars, storeVars, guestVars, version,
                 task, owed, clientVars, rrdVars>>

\* The address cannot be read: it is left empty, which the code does not
\* treat as a failure.
ReadAddressFails ==
  /\ Input
  /\ config.id # None
  /\ config' = [PushNode(NoIp) EXCEPT !.failed = TRUE]
  /\ UNCHANGED <<cmap, quorumVars, storeVars, guestVars, version, task, owed,
                 clientVars, rrdVars>>

\* The loop ends and update_cluster_info takes the lock of cluster_info.
\* It first drops the values of nodes that are no longer listed.
CleanKvstore ==
  /\ config.pc = "read" /\ config.id = None
  /\ config.index > Len(cmap)
  /\ config' = [config EXCEPT !.pc = "update"]
  /\ kvstore' = [n \in NodeIds |->
                   IF n \in NodeIdsOf(config.list) THEN kvstore[n] ELSE None]
  /\ UNCHANGED <<inputs, cmap, quorumVars, info, members, nodeIps,
                 nodeStatus, guestVars, version, task, owed, clientVars, rrdVars>>

\* The new node list is stored and cluster_version incremented, both under
\* the lock that readers of the list need.
UpdateClusterInfo ==
  /\ config.pc = "update"
  /\ config' = [config EXCEPT !.pc = "up"]
  /\ info' = NodesById(config.list, info)
  /\ version' = [version EXCEPT !["clinfo"] = @ + 1]
  /\ UNCHANGED <<inputs, cmap, quorumVars, members, kvstore, nodeIps,
                 nodeStatus, guestVars, task, owed, clientVars, rrdVars>>

\* Another task can read cluster_info.
InfoReadable == config.pc # "update"

ConfigTask ==
  \/ ConfigInitialize \/ ConfigDispatch \/ ReadNode \/ ReadAddress
  \/ CleanKvstore \/ UpdateClusterInfo

-----------------------------------------------------------------------------
(* The quorum service. *)

\* The state of the connection, as the manager and the reactor have it: none
\* so far, lost, watched, or open and watched by nobody.
Connected == tracking \in {"live", "dropped"}

QuorumChange ==
  /\ Input
  /\ coroQuorate' = ~coroQuorate
  /\ notes' = IF Connected THEN Append(notes, coroQuorate') ELSE notes
  /\ UNCHANGED <<configVars, tracking, quorate, storeVars, guestVars, version,
                 task, owed, clientVars, rrdVars>>

\* Mutant: the state that trackstart makes Corosync send is never received.
QuorumInitialize_Unsent ==
  /\ ~Connected
  /\ tracking' \in WatchAfter(tracking)
  /\ notes' = <<>>
  /\ UNCHANGED <<inputs, configVars, coroQuorate, quorate, storeVars, guestVars,
                 version, task, owed, clientVars, rrdVars>>

\* initialize: trackstart makes Corosync send its current state, and one
\* dispatch usually receives it.  When that dispatch fails, or receives the
\* node list notification instead, the state stays on the connection.
QuorumInitialize ==
  /\ ~Connected
  /\ tracking' \in WatchAfter(tracking)
  /\ \/ notes' = <<>> /\ quorate' = coroQuorate
     \/ notes' = <<coroQuorate>> /\ UNCHANGED quorate
  /\ UNCHANGED <<inputs, configVars, coroQuorate, storeVars, guestVars,
                 version, task, owed, clientVars, rrdVars>>

\* dispatch with All: the callback runs for every notification in turn.
QuorumDispatch ==
  /\ tracking = "live"
  /\ notes # <<>>
  /\ quorate' = notes[Len(notes)]
  /\ notes' = <<>>
  /\ UNCHANGED <<inputs, configVars, coroQuorate, tracking, storeVars,
                 guestVars, version, task, owed, clientVars, rrdVars>>

\* The connection is lost; finalize clears the flag first.
QuorumFinalize ==
  /\ Input
  /\ tracking = "live"
  /\ quorate' = FALSE
  /\ tracking' = "down"
  /\ notes' = <<>>
  /\ UNCHANGED <<configVars, coroQuorate, storeVars, guestVars, version, task,
                 owed, clientVars, rrdVars>>

QuorumTask == QuorumInitialize \/ QuorumDispatch

-----------------------------------------------------------------------------
(* Counters.  A task increments the counter of what it has stored in a     *)
(* step of its own, unless it still holds the lock of the content.         *)

Increment(t, c) ==
  /\ c \in owed[t]
  /\ version' = [version EXCEPT ![c] = @ + 1]
  /\ owed' = [owed EXCEPT ![t] = @ \ {c}]
  /\ db' = [db EXCEPT !.silent = @ /\ c # "path"]
  /\ UNCHANGED <<inputs, configVars, quorumVars, storeVars, vmlist,
                 vminfoVersion, task, clientVars, rrdVars>>

-----------------------------------------------------------------------------
(* Messages of the kvstore group (status_callbacks.rs, set_node_kv). *)

\* The sender is looked up in cluster_info; a message of a node that is not
\* there is ignored.  The lock is released before the value is stored.
DeliverKv(n, op, v) ==
  /\ Input
  /\ AtRest("kv") /\ InfoReadable
  /\ n \in DOMAIN info
  /\ task' = [task EXCEPT !["kv"] = [op |-> op, node |-> n, value |-> v]]
  /\ UNCHANGED <<configVars, quorumVars, storeVars, guestVars, version, owed,
                 clientVars, rrdVars>>

\* An ordinary key: an empty value removes it.
StoreKv ==
  /\ task["kv"].op = "key"
  /\ kvstore' = [kvstore EXCEPT ![task["kv"].node] = task["kv"].value]
  /\ task' = [task EXCEPT !["kv"] = Idle]
  /\ UNCHANGED <<inputs, configVars, quorumVars, info, members, nodeIps,
                 nodeStatus, guestVars, version, owed, clientVars, rrdVars>>

\* "nodeip": the node's name is looked up in cluster_info once more.
NameNode ==
  /\ task["kv"].op = "nodeip" /\ InfoReadable
  /\ task' = [task EXCEPT !["kv"] =
                IF task["kv"].node \in DOMAIN info
                THEN [task["kv"] EXCEPT !.op = "ip"] ELSE Idle]
  /\ UNCHANGED <<inputs, configVars, quorumVars, storeVars, guestVars,
                 version, owed, clientVars, rrdVars>>

\* Mutant: only the first address of a node counts as a change.
PutNodeIp_FirstOnly(t, n, ip) ==
  /\ nodeIps' = [nodeIps EXCEPT ![n] = ip]
  /\ owed' = [owed EXCEPT ![t] = IF nodeIps[n] = None THEN {"clinfo"} ELSE {}]

\* The address is stored if it is another one.
PutNodeIp(t, n, ip) ==
  /\ nodeIps' = [nodeIps EXCEPT ![n] = ip]
  /\ owed' = [owed EXCEPT ![t] = IF nodeIps[n] # ip THEN {"clinfo"} ELSE {}]

StoreNodeIp ==
  /\ task["kv"].op = "ip"
  /\ PutNodeIp("kv", task["kv"].node, task["kv"].value)
  /\ task' = [task EXCEPT !["kv"] = Idle]
  /\ UNCHANGED <<inputs, configVars, quorumVars, info, members, kvstore,
                 nodeStatus, guestVars, version, clientVars, rrdVars>>

-----------------------------------------------------------------------------
(* SET_STATUS requests (set_node_status). *)

SetNodeStatus(v) ==
  /\ Input
  /\ AtRest("ipc")
  /\ nodeStatus' = v
  /\ UNCHANGED <<configVars, quorumVars, info, members, kvstore, nodeIps,
                 guestVars, version, task, owed, clientVars, rrdVars>>

SetNodeIp(ip) ==
  /\ Input
  /\ AtRest("ipc")
  /\ PutNodeIp("ipc", Self, ip)
  /\ UNCHANGED <<configVars, quorumVars, info, members, kvstore, nodeStatus,
                 guestVars, version, task, clientVars, rrdVars>>

SetRrdData(v) ==
  /\ Input
  /\ AtRest("ipc")
  /\ rrd' = [data |-> v, time |-> now]
  /\ UNCHANGED <<configVars, quorumVars, storeVars, guestVars, version, task,
                 owed, clientVars, now, dumpCache, dump>>

-----------------------------------------------------------------------------
(* The database group (memdb_callbacks.rs). *)

\* A delivered operation on a tracked file: it is applied, then
\* update_version_counters increments the counter of its path.
DeliverFile(v) ==
  /\ Input
  /\ AtRest("db") /\ ~db.local
  /\ db' = [db EXCEPT !.file = v]
  /\ owed' = [owed EXCEPT !["db"] = {"path"}]
  /\ UNCHANGED <<configVars, quorumVars, storeVars, vmlist, vminfoVersion,
                 version, task, clientVars, rrdVars>>

\* A delivered write to a file that is not there creates it first ...
CreateByWrite(v) ==
  /\ Input
  /\ AtRest("db") /\ ~db.local
  /\ db.file = None
  /\ db' = [db EXCEPT !.file = Zeros, !.silent = TRUE]
  /\ task' = [task EXCEPT !["db"] = [op |-> "write", value |-> v]]
  /\ UNCHANGED <<configVars, quorumVars, storeVars, vmlist, vminfoVersion,
                 version, owed, clientVars, rrdVars>>

\* ... and increments the counter after it has written, ...
WriteCreated ==
  /\ task["db"].op = "write"
  /\ db' = [db EXCEPT !.file = task["db"].value]
  /\ task' = [task EXCEPT !["db"] = Idle]
  /\ owed' = [owed EXCEPT !["db"] = {"path"}]
  /\ UNCHANGED <<inputs, configVars, quorumVars, storeVars, vmlist,
                 vminfoVersion, version, clientVars, rrdVars>>

\* ... but not when there is no data or the write is refused.
WriteNothing ==
  /\ task["db"].op = "write"
  /\ task' = [task EXCEPT !["db"] = Idle]
  /\ UNCHANGED <<inputs, configVars, quorumVars, storeVars, guestVars,
                 version, owed, clientVars, rrdVars>>

\* A FUSE handler that writes the database itself moves no counter: the one
\* of truncate and O_TRUNC always does, the others without a cluster.
FuseWrite(v) ==
  /\ Input
  /\ db.local \/ (v = Zeros /\ db.file # None)
  /\ db' = [db EXCEPT !.file = v, !.silent = TRUE]
  /\ UNCHANGED <<configVars, quorumVars, storeVars, vmlist, vminfoVersion,
                 version, task, owed, clientVars, rrdVars>>

\* A delivered operation on nodes/<node>/qemu-server/<vmid>.conf.  That path
\* has no counter and none of the prefixes that stand for the guest list.
DeliverGuest(v, n) ==
  /\ Input
  /\ AtRest("db") /\ ~db.local
  /\ n # db.vms[v]
  /\ db' = [db EXCEPT !.vms[v] = n]
  /\ UNCHANGED <<configVars, quorumVars, storeVars, vmlist, vminfoVersion,
                 version, task, owed, clientVars, rrdVars>>

\* process_state_update and process_update replace the database ...
ProcessUpdate(v, vms) ==
  /\ Input
  /\ AtRest("db") /\ ~db.local
  /\ db' = [db EXCEPT !.file = v, !.vms = vms]
  /\ task' = [task EXCEPT !["db"] = [op |-> "commit"]]
  /\ owed' = [owed EXCEPT !["db"] = {"path"}]
  /\ UNCHANGED <<configVars, quorumVars, storeVars, vmlist, vminfoVersion,
                 version, clientVars, rrdVars>>

\* ... and commit_state increments every path counter and then scans.
CommitState ==
  /\ task["db"].op = "commit"
  /\ owed["db"] = {}
  /\ task' = [task EXCEPT !["db"] = Scan]
  /\ UNCHANGED <<inputs, configVars, quorumVars, storeVars, guestVars,
                 version, owed, clientVars, rrdVars>>

\* recreate_vmlist reads the directories of one node.  A guest already seen
\* at another node is a duplicate and ignored.
ScanNode(t, n) ==
  /\ task[t].op = "scan"
  /\ n \in task[t].todo
  /\ task' = [task EXCEPT
       ![t].todo = @ \ {n},
       ![t].found = [v \in Vms |-> IF @[v] = None /\ db.vms[v] = n
                                   THEN n ELSE @[v]]]
  /\ UNCHANGED <<inputs, configVars, quorumVars, storeVars, guestVars,
                 version, owed, clientVars, rrdVars>>

\* scan_vmlist stores what was found: a guest that is new or has moved gets
\* the next value of vminfo_version_counter, one that is gone is removed.
StoreVmlist(t) ==
  /\ task[t].op = "scan"
  /\ task[t].todo = {}
  /\ LET found == task[t].found
         changed == {v \in Vms : /\ found[v] # None
                                 /\ found[v] # vmlist[v].node}
         last == vminfoVersion + Cardinality(changed)
     IN \E next \in [changed -> (vminfoVersion + 1)..last] :
          /\ IsInjective(next)
          /\ vmlist' = [v \in Vms |->
                          IF v \in changed
                          THEN [node |-> found[v], version |-> next[v]]
                          ELSE IF found[v] = None
                               THEN [node |-> None, version |-> 0]
                               ELSE vmlist[v]]
          /\ vminfoVersion' = last
  /\ task' = [task EXCEPT ![t] = Idle]
  /\ owed' = [owed EXCEPT ![t] = {"vmlist"}]
  /\ UNCHANGED <<inputs, configVars, quorumVars, storeVars, db, version,
                 clientVars, rrdVars>>

-----------------------------------------------------------------------------
(* The rest of the interface of Status, which the daemon itself does not   *)
(* call at present.  The node list operations increment under its lock.    *)

RegisterVm(v, n) ==
  /\ Input
  /\ AtRest("api")
  /\ vmlist' = [vmlist EXCEPT ![v] = [node |-> n,
                                      version |-> vminfoVersion + 1]]
  /\ vminfoVersion' = vminfoVersion + 1
  /\ owed' = [owed EXCEPT !["api"] = {"vmlist"}]
  /\ UNCHANGED <<configVars, quorumVars, storeVars, db, version, task,
                 clientVars, rrdVars>>

DeleteVm(v) ==
  /\ Input
  /\ AtRest("api")
  /\ vmlist' = [vmlist EXCEPT ![v] = [node |-> None, version |-> 0]]
  /\ owed' = [owed EXCEPT !["api"] = {"vmlist"}]
  /\ UNCHANGED <<configVars, quorumVars, storeVars, vminfoVersion, db,
                 version, task, clientVars, rrdVars>>

ChangeNodes(nodes) ==
  /\ InfoReadable
  /\ info' = nodes
  /\ version' = [version EXCEPT !["clinfo"] = @ + 1]
  /\ UNCHANGED <<configVars, quorumVars, kvstore, nodeIps, nodeStatus,
                 guestVars, task, owed, clientVars, rrdVars>>

SetNodeOnline(n, online) ==
  /\ Input
  /\ n \in DOMAIN info /\ info[n].online # online
  /\ ChangeNodes([info EXCEPT ![n].online = online])
  /\ UNCHANGED members

OnlineIn(nodes, ids) ==
  [m \in DOMAIN nodes |-> [nodes[m] EXCEPT !.online = m \in ids]]

UpdateMembers(ids) ==
  /\ Input
  /\ members' = ids
  /\ ChangeNodes(OnlineIn(info, ids))

UpdateMemberStatus(ids) ==
  /\ Input
  /\ ChangeNodes(OnlineIn(info, ids))
  /\ UNCHANGED members

-----------------------------------------------------------------------------
(* A client that polls the counters and reads what has changed. *)

\* The plugin .version shows the counters.
SeeVersion(c) ==
  /\ poll.channel = None
  /\ cached[c].version # version[c]
  /\ poll' = [NoPoll EXCEPT !.channel = c, !.version = version[c]]
  /\ UNCHANGED <<inputs, configVars, quorumVars, storeVars, guestVars,
                 version, task, owed, cached, rrdVars>>

\* .members copies the node list before it reads the member list.
ReadNodes ==
  /\ poll.channel = "clinfo" /\ poll.nodes = None
  /\ InfoReadable
  /\ poll' = [poll EXCEPT !.nodes = info]
  /\ UNCHANGED <<inputs, configVars, quorumVars, storeVars, guestVars,
                 version, task, owed, cached, rrdVars>>

ReadContent ==
  /\ poll.channel # None
  /\ poll.channel = "clinfo" => poll.nodes # None
  /\ cached' = [cached EXCEPT ![poll.channel] =
                  [version |-> poll.version,
                   content |-> Content(poll.channel, poll.nodes)]]
  /\ poll' = NoPoll
  /\ UNCHANGED <<inputs, configVars, quorumVars, storeVars, guestVars,
                 version, task, owed, rrdVars>>

-----------------------------------------------------------------------------
(* get_rrd_dump, called by the IPC worker and by the .rrd plugin. *)

RrdUnchanged == UNCHANGED <<inputs, configVars, quorumVars, storeVars,
                            guestVars, version, task, owed, clientVars>>

Tick ==
  /\ now < MaxTime
  /\ now' = now + 1
  /\ RrdUnchanged /\ UNCHANGED <<rrd, dumpCache, dump>>

DumpStart(r) ==
  /\ dump[r].pc = "idle"
  /\ dump' = [dump EXCEPT ![r].pc = "check", ![r].start = now]
  /\ RrdUnchanged /\ UNCHANGED <<now, rrd, dumpCache>>

\* now.saturating_sub(cache_time)
Age(time, t) == IF time > t THEN 0 ELSE t - time

DumpCheckCache(r) ==
  /\ dump[r].pc = "check"
  /\ dump' = [dump EXCEPT ![r] =
       IF dumpCache # None /\ Age(dumpCache.time, @.start) < CacheSeconds
       THEN [@ EXCEPT !.pc = "idle", !.result = dumpCache.dump]
       ELSE [@ EXCEPT !.pc = "collect"]]
  /\ RrdUnchanged /\ UNCHANGED <<now, rrd, dumpCache>>

\* remove_old_rrd_data drops what has expired by now; the rest is dumped.
DumpCollect(r) ==
  /\ dump[r].pc = "collect"
  /\ rrd' = IF rrd # None /\ Age(rrd.time, now) < ExpireSeconds THEN rrd
                                                                ELSE None
  /\ dump' = [dump EXCEPT ![r].pc = "store", ![r].result = rrd']
  /\ RrdUnchanged /\ UNCHANGED <<now, dumpCache>>

\* Mutant: the cache is stamped with the time at which it is stored.
DumpStore_LateStamp(r) ==
  /\ dump[r].pc = "store"
  /\ dumpCache' = [time |-> now, dump |-> dump[r].result]
  /\ dump' = [dump EXCEPT ![r].pc = "idle"]
  /\ RrdUnchanged /\ UNCHANGED <<now, rrd>>

\* The cache is stamped with the time read at the start.
DumpStore(r) ==
  /\ dump[r].pc = "store"
  /\ dumpCache' = [time |-> dump[r].start, dump |-> dump[r].result]
  /\ dump' = [dump EXCEPT ![r].pc = "idle"]
  /\ RrdUnchanged /\ UNCHANGED <<now, rrd>>

-----------------------------------------------------------------------------
(* The store in parts that share only the counters: the node list and what *)
(* is kept per node, the quorum flag, the database with the guests, RRD.   *)

Configuration ==
  \/ \E list \in Configs : CmapChange(list)
  \/ ConfigConnectionLost \/ ReadClusterNameFails
  \/ ReadNodeFails \/ ReadAddressFails

NodeData ==
  \/ \E n \in NodeIds : \/ \E v \in Values \cup {None} : DeliverKv(n, "key", v)
                        \/ \E ip \in Ips : DeliverKv(n, "nodeip", ip)
  \/ StoreKv \/ NameNode \/ StoreNodeIp
  \/ \E v \in Values : SetNodeStatus(v)
  \/ \E ip \in Ips : SetNodeIp(ip)
  \/ \E n \in NodeIds, b \in BOOLEAN : SetNodeOnline(n, b)
  \/ \E ids \in SUBSET NodeIds : UpdateMembers(ids) \/ UpdateMemberStatus(ids)

Quorum == QuorumChange \/ QuorumFinalize

Guests ==
  \/ \E v \in Values \cup {None} : DeliverFile(v)
  \/ \E v \in Values : CreateByWrite(v)
  \/ WriteCreated \/ WriteNothing
  \/ \E v \in Values \cup {None, Zeros} : FuseWrite(v)
  \/ \E v \in Vms, n \in NodeIds \cup {None} : DeliverGuest(v, n)
  \/ \E v \in Values, vms \in [Vms -> NodeIds \cup {None}] :
       ProcessUpdate(v, vms)
  \/ CommitState
  \/ \E t \in {"db", "main"} : \/ \E n \in NodeIds : ScanNode(t, n)
                               \/ StoreVmlist(t)
  \/ \E v \in Vms, n \in NodeIds : RegisterVm(v, n)
  \/ \E v \in Vms : DeleteVm(v)

Rrd ==
  \/ \E v \in Values : SetRrdData(v)
  \/ Tick
  \/ \E r \in Readers : DumpStart(r) \/ DumpCheckCache(r)
                        \/ DumpCollect(r) \/ DumpStore(r)

Client(c) == SeeVersion(c) \/ ReadNodes \/ ReadContent

Next ==
  \/ ConfigTask \/ QuorumTask
  \/ Configuration \/ NodeData \/ Quorum \/ Guests \/ Rrd
  \/ \E t \in Tasks, c \in Channels : Increment(t, c)
  \/ \E c \in Channels : Client(c)

Spec == Init /\ [][Next]_vars

\* The service manager dispatches a service whose descriptor is watched and
\* readable and initialises one that is down again after its retry interval,
\* and a runtime thread that runs a handler goes on with it.
FairSpec == Spec /\ WF_vars(ConfigTask) /\ WF_vars(QuorumTask)

-----------------------------------------------------------------------------
(* Properties. *)

\* A client that has seen the current counter of a channel holds its current
\* content, unless a task is between storing and incrementing, or the tracked
\* file was changed since by a writer that increments nothing (truncate,
\* O_TRUNC, a write that creates the file and then fails or has no data, and
\* any change without a cluster).  Every other writer of the node list, the
\* address table, the guest list and a tracked file increments the counter
\* after it stores, and the client reads the counter first; and the next
\* increment makes up for the silent ones before it.
CachedIsFresh ==
  \A c \in Channels :
    /\ cached[c].version = version[c]
    /\ \A t \in Tasks : c \notin owed[t]
    /\ c = "path" => ~db.silent
    => cached[c].content = Content(c, info)

\* The node list follows CMAP: however changes fall between the reads of the
\* configuration service and around its reconnections, once they stop the
\* store holds the list CMAP holds, unless a key could not be read in the
\* last reading, or a reconnection cost the service its registration with
\* the reactor and nothing makes it read again.
ConfigConverges ==
  <>[](\/ config.failed
       \/ config.watch = "dropped"
       \/ /\ DOMAIN info = NodeIdsOf(cmap)
          /\ \A i \in DOMAIN cmap : info[cmap[i].id].ip = cmap[i].ip)

\* The quorum flag follows the quorum provider through changes and lost
\* connections, as long as no reconnection costs the service its
\* registration with the reactor.
QuorumConverges == <>[](tracking = "dropped" \/ quorate = coroQuorate)

\* A dump holds every value set at least CacheSeconds before the call began
\* that is still kept, and none that had expired CacheSeconds before it.
DumpIsRecent ==
  \A r \in Readers : dump[r].pc = "idle" =>
    /\ rrd # None /\ rrd.time + CacheSeconds <= dump[r].start
       => dump[r].result = rrd
    /\ dump[r].result # None
       => dump[r].result.time + ExpireSeconds + CacheSeconds > dump[r].start
====
