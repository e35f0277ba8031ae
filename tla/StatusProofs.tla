---------------------------- MODULE StatusProofs ----------------------------
(***************************************************************************)
(* Safety of the status store for any nodes, addresses, guests, values,    *)
(* node lists and bounds: what a polling client holds and how old an RRD   *)
(* dump may be.                                                            *)
(***************************************************************************)
EXTENDS Status, TLAPS

\* Some task has stored a content of channel c and not yet incremented its
\* counter, or a writer that never does has changed the file.
Pending(c) == (\E t \in Tasks : c \in owed[t]) \/ (c = "path" /\ db.silent)

DbFields(d) == [file |-> d.file, vms |-> d.vms, local |-> d.local, silent |-> d.silent]

Typed ==
  /\ version \in [Channels -> Nat]
  /\ owed \in [Tasks -> SUBSET Channels]
  /\ task = [t \in Tasks |-> task[t]]
  /\ nodeIps = [n \in NodeIds |-> nodeIps[n]]
  /\ db = DbFields(db)

\* A task that is about to store owes no increment, except commit_state, which
\* pays before it scans.
DebtsArePaid ==
  \A t \in Tasks : task[t] = Idle \/ task[t].op = "commit" \/ owed[t] = {}

StoreInv == Typed /\ DebtsArePaid

\* A step hides nothing in channel c: when it leaves the counter alone and no
\* increment is pending afterwards, none was pending before and the content is
\* as it was.
HidesNothing(c) ==
  /\ version'[c] >= version[c]
  /\ version'[c] = version[c] /\ ~Pending(c)'
     => ~Pending(c) /\ Content(c, info)' = Content(c, info)

\* The node list changes only together with its counter.
ListIsCounted == version'["clinfo"] = version["clinfo"] => info' = info

StoreStepOK == StoreInv' /\ ListIsCounted /\ \A c \in Channels : HidesNothing(c)

\* What the contents are made of, and the steps that touch nothing visible.
contents == <<info, members, nodeIps, vmlist, db>>

\* A step that touches neither contents nor counters hides nothing from a client.
LEMMA SilentStep ==
  ASSUME StoreInv, UNCHANGED <<contents, version, owed>>
  PROVE  ListIsCounted /\ \A c \in Channels : HidesNothing(c)
<1>1. ListIsCounted
  BY Zenon DEF ListIsCounted, contents
<1>2. ASSUME NEW c \in Channels PROVE HidesNothing(c)
  <2>1. Content(c, info)' = Content(c, info)
    BY Zenon DEF Content, MembersContent, VmlistContent, contents
  <2>2. version[c] \in Nat
    BY <1>2, Zenon DEF StoreInv, Typed
  <2> QED
    BY <2>1, <2>2 DEF HidesNothing, Pending, contents
<1> QED
  BY <1>1, <1>2, Zenon

\* ... and leaves the store consistent when the tasks stay where they are too.
LEMMA QuietStep ==
  ASSUME StoreInv, UNCHANGED <<contents, version, owed, task>> PROVE StoreStepOK
<1>1. StoreInv'
  BY Zenon DEF StoreInv, Typed, DebtsArePaid, contents
<1> QED
  BY <1>1, SilentStep, Zenon DEF StoreStepOK

\* The services of Corosync touch the contents only in update_cluster_info,
\* and the RRD functions and the client not at all.
LEMMA QuietActions ==
  ASSUME \/ \E list \in Configs : CmapChange(list)
         \/ ConfigInitialize \/ ConfigDispatch \/ ConfigConnectionLost
         \/ ReadClusterNameFails \/ ReadNode \/ ReadNodeFails \/ ReadAddress
         \/ ReadAddressFails \/ CleanKvstore \/ QuorumTask \/ Quorum \/ Rrd
         \/ \E v \in Values : SetNodeStatus(v)
         \/ \E c \in Channels : Client(c)
         \/ UNCHANGED vars
  PROVE  UNCHANGED <<contents, version, owed, task>>
<1> USE DEF contents, configVars, quorumVars, storeVars, guestVars, clientVars, rrdVars
<1>1. CASE \/ \E list \in Configs : CmapChange(list)
           \/ ConfigInitialize \/ ConfigDispatch \/ ConfigConnectionLost
  BY <1>1, Zenon DEF CmapChange, ConfigInitialize, ConfigDispatch, ConfigConnectionLost
<1>2. CASE ReadClusterNameFails \/ ReadNode \/ ReadNodeFails \/ ReadAddress \/ ReadAddressFails \/ CleanKvstore
  BY <1>2, Zenon DEF ReadClusterNameFails, ReadNode, ReadNodeFails, ReadAddress, ReadAddressFails, CleanKvstore
<1>3. CASE QuorumTask \/ Quorum
  BY <1>3, Zenon DEF QuorumTask, Quorum, QuorumInitialize, QuorumDispatch, QuorumChange, QuorumFinalize
<1>4. CASE Rrd
  BY <1>4, Zenon DEF Rrd, SetRrdData, Tick, DumpStart, DumpCheckCache, DumpCollect, DumpStore, RrdUnchanged
<1>5. CASE \E v \in Values : SetNodeStatus(v)
  BY <1>5, Zenon DEF SetNodeStatus
<1>6. CASE \E c \in Channels : Client(c)
  BY <1>6, Zenon DEF Client, SeeVersion, ReadNodes, ReadContent
<1>7. CASE UNCHANGED vars
  BY <1>7, Zenon DEF vars
<1> QED
  BY <1>1, <1>2, <1>3, <1>4, <1>5, <1>6, <1>7, Zenon

\* A task without debts stores a content of channel b and owes its increment.
LEMMA OwingStep ==
  ASSUME StoreInv, NEW t \in Tasks, NEW b \in Channels, owed[t] = {},
         owed' = [owed EXCEPT ![t] = {b}], version' = version, info' = info, db.silent => db'.silent,
         \A c \in Channels \ {b} : Content(c, info)' = Content(c, info)
  PROVE  ListIsCounted /\ \A c \in Channels : HidesNothing(c)
<1>1. ListIsCounted
  BY Zenon DEF ListIsCounted
<1>2. ASSUME NEW c \in Channels PROVE HidesNothing(c)
  <2>1. version[c] \in Nat /\ owed \in [Tasks -> SUBSET Channels]
    BY Zenon DEF StoreInv, Typed
  <2>2. CASE c = b
    BY <2>1, <2>2 DEF HidesNothing, Pending
  <2>3. CASE c # b
    <3>1. Pending(c) => Pending(c)'
      BY <2>1, Zenon DEF Pending
    <3>2. Content(c, info)' = Content(c, info)
      BY <2>3, Zenon
    <3> QED
      BY <2>1, <3>1, <3>2 DEF HidesNothing
  <2> QED
    BY <2>2, <2>3, Zenon
<1> QED
  BY <1>1, <1>2, Zenon

\* The file is changed by a writer that moves no counter.
LEMMA MaskedStep ==
  ASSUME StoreInv, NEW v, db' = [db EXCEPT !.file = v, !.silent = TRUE],
         UNCHANGED <<info, members, nodeIps, vmlist, version, owed>>
  PROVE  ListIsCounted /\ \A c \in Channels : HidesNothing(c)
<1>1. db'.silent
  BY Zenon DEF StoreInv, Typed, DbFields
<1>2. ASSUME NEW c \in Channels PROVE HidesNothing(c)
  <2>1. version[c] \in Nat
    BY <1>2, Zenon DEF StoreInv, Typed
  <2>2. CASE c = "path"
    BY <1>1, <2>1, <2>2 DEF HidesNothing, Pending
  <2>3. CASE c # "path"
    <3>1. Content(c, info)' = Content(c, info)
      BY <2>3, Zenon DEF Content, MembersContent, VmlistContent, Channels
    <3> QED
      BY <2>1, <2>3, <3>1 DEF HidesNothing, Pending
  <2> QED
    BY <2>2, <2>3, Zenon
<1> QED
  BY <1>2, Zenon DEF ListIsCounted

\* The counter of channel b moves; the debts and contents of the others do not.
LEMMA CountingStep ==
  ASSUME StoreInv, NEW b \in Channels, version' = [version EXCEPT ![b] = @ + 1],
         info' = info \/ b = "clinfo",
         \A c \in Channels \ {b} : /\ Content(c, info)' = Content(c, info)
                                   /\ Pending(c) => Pending(c)'
  PROVE  ListIsCounted /\ \A c \in Channels : HidesNothing(c)
<1>0. version \in [Channels -> Nat]
  BY Zenon DEF StoreInv, Typed
<1>1. ListIsCounted
  <2>1. CASE b = "clinfo"
    BY <1>0, <2>1 DEF ListIsCounted
  <2> QED
    BY <2>1, Zenon DEF ListIsCounted
<1>2. ASSUME NEW c \in Channels PROVE HidesNothing(c)
  <2>1. CASE c = b
    BY <1>0, <2>1 DEF HidesNothing
  <2>2. CASE c # b
    <3>1. version'[c] = version[c] /\ version[c] \in Nat
      BY <1>0, <2>2, Zenon
    <3>2. Content(c, info)' = Content(c, info) /\ (Pending(c) => Pending(c)')
      BY <2>2, Zenon
    <3> QED
      BY <3>1, <3>2 DEF HidesNothing
  <2> QED
    BY <2>1, <2>2, Zenon
<1> QED
  BY <1>1, <1>2, Zenon

\* Every writer of the store, the increments included, hides nothing.
LEMMA StoreStep == ASSUME StoreInv, [Next]_vars PROVE StoreStepOK
<1> USE DEF configVars, quorumVars, storeVars, guestVars, clientVars, rrdVars
<1>0. /\ version \in [Channels -> Nat] /\ owed \in [Tasks -> SUBSET Channels]
      /\ DOMAIN task = Tasks /\ task = [t \in Tasks |-> task[t]]
  BY Zenon DEF StoreInv, Typed
<1>a. /\ {"ipc", "kv", "db", "main", "api"} = Tasks
      /\ {"clinfo", "vmlist", "path"} = Channels
  BY Zenon DEF Tasks, Channels
<1>1. CASE UpdateClusterInfo
  <2>1. StoreInv'
    BY <1>1, <1>0, <1>a DEF UpdateClusterInfo, StoreInv, Typed, DebtsArePaid
  <2>2. \A c \in Channels \ {"clinfo"} : /\ Content(c, info)' = Content(c, info)
                                         /\ Pending(c) => Pending(c)'
    BY <1>1, Zenon DEF UpdateClusterInfo, Content, VmlistContent, Pending, Channels
  <2> QED
    BY <2>1, <2>2, <1>1, <1>a, CountingStep, Zenon DEF UpdateClusterInfo, StoreStepOK
<1>2. CASE \E t \in Tasks, b \in Channels : Increment(t, b)
  <2> PICK t \in Tasks, b \in Channels : Increment(t, b)
    BY <1>2, Zenon
  <2>1. StoreInv'
    <3>1. db' = DbFields(db')
      BY Zenon DEF Increment, StoreInv, Typed, DbFields
    <3> QED
      BY <3>1, <1>0 DEF Increment, StoreInv, Typed, DebtsArePaid
  <2>2. \A c \in Channels \ {b} : /\ Content(c, info)' = Content(c, info)
                                  /\ Pending(c) => Pending(c)'
    <3>1. db'.file = db.file /\ (db'.silent <=> db.silent /\ b # "path")
      BY Zenon DEF Increment, StoreInv, Typed, DbFields
    <3>2. UNCHANGED <<info, members, nodeIps, vmlist>>
      BY Zenon DEF Increment
    <3>3. \A c \in Channels : Content(c, info)' = Content(c, info)
      BY <3>1, <3>2, Zenon DEF Content, MembersContent, VmlistContent
    <3>4. \A c \in Channels \ {b} : Pending(c) => Pending(c)'
      BY <3>1, <1>0, Zenon DEF Increment, Pending
    <3> QED
      BY <3>3, <3>4, Zenon
  <2> QED
    BY <2>1, <2>2, CountingStep, Zenon DEF Increment, StoreStepOK
<1>3. CASE \/ \E n \in NodeIds : \/ \E v \in Values \cup {None} : DeliverKv(n, "key", v)
                             \/ \E ip \in Ips : DeliverKv(n, "nodeip", ip)
           \/ StoreKv \/ NameNode \/ CommitState \/ WriteNothing
           \/ \E t \in {"db", "main"} : \E n \in NodeIds : ScanNode(t, n)
  <2>1. UNCHANGED <<contents, version, owed>>
    BY <1>3, Zenon DEF contents, DeliverKv, StoreKv, NameNode, CommitState, WriteNothing, ScanNode
  <2>2. Typed'
    <3>1. task' = [t \in Tasks |-> task'[t]]
      BY <1>3, <1>0, Zenon DEF DeliverKv, StoreKv, NameNode, CommitState, WriteNothing, ScanNode
    <3> QED
      BY <2>1, <3>1, Zenon DEF StoreInv, Typed, contents
  <2>3. ASSUME NEW t \in Tasks PROVE task'[t] = Idle \/ task'[t].op = "commit" \/ owed[t] = {}
    <3>1. task[t] = Idle \/ task[t].op = "commit" \/ owed[t] = {}
      BY Zenon DEF StoreInv, DebtsArePaid
    <3>2. Idle.op = "idle"
      BY Zenon DEF Idle
    <3>3. CASE \/ \E n \in NodeIds : \/ \E v \in Values \cup {None} : DeliverKv(n, "key", v)
                                  \/ \E ip \in Ips : DeliverKv(n, "nodeip", ip)
      BY <3>1, <3>3, <1>0, <1>a, Zenon DEF DeliverKv, AtRest
    <3>4. CASE StoreKv
      BY <3>1, <3>4, <1>0, <1>a, Zenon DEF StoreKv
    <3>5. CASE NameNode
      BY <3>1, <3>2, <3>5, <1>0, <1>a, Zenon DEF NameNode
    <3>6. CASE CommitState
      BY <3>1, <3>6, <1>0, <1>a, Zenon DEF CommitState
    <3>7. CASE \E u \in {"db", "main"} : \E n \in NodeIds : ScanNode(u, n)
      BY <3>1, <3>2, <3>7, <1>0, <1>a DEF ScanNode
    <3>8. CASE WriteNothing
      BY <3>1, <3>8, <1>0, <1>a, Zenon DEF WriteNothing
    <3> QED
      BY <1>3, <3>3, <3>4, <3>5, <3>6, <3>7, <3>8, Zenon
  <2> QED
    BY <2>1, <2>2, <2>3, SilentStep, Zenon DEF StoreStepOK, StoreInv, DebtsArePaid
<1>4. ASSUME NEW t \in Tasks, NEW n, NEW ip, PutNodeIp(t, n, ip), owed[t] = {},
             UNCHANGED <<info, members, vmlist, db, version>>,
             \/ task' = task /\ task[t] = Idle
             \/ task' = [task EXCEPT ![t] = Idle]
      PROVE  StoreStepOK
  <2>1. Typed'
    BY <1>4, <1>0, <1>a, Zenon DEF PutNodeIp, StoreInv, Typed
  <2>2. DebtsArePaid'
    <3>1. ASSUME NEW u \in Tasks PROVE task'[u] = Idle \/ task'[u].op = "commit" \/ owed'[u] = {}
      BY <1>4, <1>0, <1>a, Zenon DEF PutNodeIp, StoreInv, DebtsArePaid
    <3> QED
      BY <3>1, Zenon DEF DebtsArePaid
  <2>3. CASE nodeIps[n] # ip
    <3>1. \A c \in Channels \ {"clinfo"} : Content(c, info)' = Content(c, info)
      BY <1>4, Zenon DEF Content, VmlistContent, Channels
    <3>2. owed' = [owed EXCEPT ![t] = {"clinfo"}]
      BY <1>4, <2>3, Zenon DEF PutNodeIp
    <3> QED
      BY <1>4, <3>1, <3>2, <2>1, <2>2, <1>a, OwingStep, Zenon DEF StoreStepOK, StoreInv
  <2>4. CASE nodeIps[n] = ip
    <3>1. nodeIps' = nodeIps /\ owed' = owed
      BY <1>4, <2>4, <1>0, Zenon DEF PutNodeIp, StoreInv, Typed
    <3> QED
      BY <1>4, <3>1, <2>1, <2>2, SilentStep, Zenon DEF StoreStepOK, StoreInv, contents
  <2> QED
    BY <2>3, <2>4, Zenon
<1>5. CASE StoreNodeIp
  <2>1. owed["kv"] = {}
    <3>1. task["kv"] # Idle
      BY <1>5 DEF StoreNodeIp, Idle
    <3> QED
      BY <1>5, <3>1, <1>a, Zenon DEF StoreNodeIp, StoreInv, DebtsArePaid
  <2> QED
    BY <1>5, <2>1, <1>4, <1>a, Zenon DEF StoreNodeIp
<1>6. ASSUME NEW ip \in Ips, SetNodeIp(ip) PROVE StoreStepOK
  BY <1>6, <1>4, <1>a, Zenon DEF SetNodeIp, AtRest
<1>7. ASSUME NEW t \in Tasks, NEW b \in Channels, owed[t] = {}, owed' = [owed EXCEPT ![t] = {b}],
             UNCHANGED <<info, version, nodeIps>>, db' = DbFields(db'), db.silent => db'.silent,
             \/ task' = task /\ task[t] = Idle
             \/ task' = [task EXCEPT ![t] = Idle]
             \/ task' = [task EXCEPT ![t] = [op |-> "commit"]],
             \A c \in Channels \ {b} : Content(c, info)' = Content(c, info)
      PROVE  StoreStepOK
  <2>1. Typed'
    BY <1>7, <1>0, <1>a, Zenon DEF StoreInv, Typed
  <2>2. DebtsArePaid'
    <3>1. ASSUME NEW u \in Tasks PROVE task'[u] = Idle \/ task'[u].op = "commit" \/ owed'[u] = {}
      BY <1>7, <1>0, <1>a DEF StoreInv, DebtsArePaid
    <3> QED
      BY <3>1, Zenon DEF DebtsArePaid
  <2> QED
    BY <1>7, <2>1, <2>2, OwingStep, Zenon DEF StoreStepOK, StoreInv
<1>8. CASE \/ \E v \in Values \cup {None} : DeliverFile(v)
           \/ WriteCreated
           \/ \E v \in Values, vms \in [Vms -> NodeIds \cup {None}] : ProcessUpdate(v, vms)
  <2>1. \A c \in Channels \ {"path"} : Content(c, info)' = Content(c, info)
    <3>1. UNCHANGED <<info, members, nodeIps, vmlist>>
      BY <1>8, Zenon DEF DeliverFile, WriteCreated, ProcessUpdate
    <3> QED
      BY <3>1, Zenon DEF Content, MembersContent, VmlistContent, Channels
  <2>2. db' = DbFields(db') /\ db'.silent = db.silent
    BY <1>8, Zenon DEF DeliverFile, WriteCreated, ProcessUpdate, StoreInv, Typed, DbFields
  <2>3. /\ owed' = [owed EXCEPT !["db"] = {"path"}]
        /\ UNCHANGED <<info, version, nodeIps>>
        /\ \/ task' = task /\ task["db"] = Idle
           \/ task' = [task EXCEPT !["db"] = Idle]
           \/ task' = [task EXCEPT !["db"] = [op |-> "commit"]]
    BY <1>8, Zenon DEF DeliverFile, WriteCreated, ProcessUpdate, AtRest
  <2>4. owed["db"] = {}
    <3>1. CASE WriteCreated
      <4>1. task["db"] # Idle /\ task["db"].op # "commit"
        BY <3>1 DEF WriteCreated, Idle
      <4> QED
        BY <4>1, <1>a, Zenon DEF StoreInv, DebtsArePaid
    <3> QED
      BY <1>8, <3>1, Zenon DEF DeliverFile, ProcessUpdate, AtRest
  <2> QED
    BY <2>1, <2>2, <2>3, <2>4, <1>7, <1>a, Zenon
<1>9. CASE \/ \E t \in {"db", "main"} : StoreVmlist(t)
           \/ \E v \in Vms, n \in NodeIds : RegisterVm(v, n)
           \/ \E v \in Vms : DeleteVm(v)
  <2>1. \A c \in Channels \ {"vmlist"} : Content(c, info)' = Content(c, info)
    BY <1>9, Zenon DEF StoreVmlist, RegisterVm, DeleteVm, Content, MembersContent, Channels
  <2>2. db' = DbFields(db') /\ db' = db
    BY <1>9, Zenon DEF StoreVmlist, RegisterVm, DeleteVm, StoreInv, Typed
  <2>3. PICK t \in {"db", "main", "api"} :
             /\ owed' = [owed EXCEPT ![t] = {"vmlist"}]
             /\ \/ AtRest(t) /\ task' = task
                \/ task[t].op = "scan" /\ task' = [task EXCEPT ![t] = Idle]
    BY <1>9, Zenon DEF StoreVmlist, RegisterVm, DeleteVm
  <2>4. owed[t] = {}
    <3>1. Idle.op # "scan"
      BY Zenon DEF Idle
    <3> QED
      BY <2>3, <3>1, <1>a, Zenon DEF AtRest, StoreInv, DebtsArePaid
  <2>5. UNCHANGED <<info, version, nodeIps>>
    BY <1>9, Zenon DEF StoreVmlist, RegisterVm, DeleteVm
  <2> QED
    BY <2>1, <2>2, <2>3, <2>4, <2>5, <1>7, <1>a, Zenon DEF AtRest
<1>10. ASSUME NEW v \in Vms, NEW n \in NodeIds \cup {None}, DeliverGuest(v, n) PROVE StoreStepOK
  <2>1. db'.file = db.file /\ db'.silent = db.silent /\ db' = DbFields(db')
    BY <1>10, Zenon DEF DeliverGuest, StoreInv, Typed, DbFields
  <2>2. UNCHANGED <<info, members, nodeIps, vmlist, version, owed, task>>
    BY <1>10, Zenon DEF DeliverGuest
  <2>3. StoreInv'
    BY <2>1, <2>2, Zenon DEF StoreInv, Typed, DebtsArePaid
  <2>4. ASSUME NEW c \in Channels PROVE HidesNothing(c)
    <3>1. Content(c, info)' = Content(c, info)
      BY <2>1, <2>2, Zenon DEF Content, MembersContent, VmlistContent
    <3>2. version[c] \in Nat
      BY <1>0, Zenon
    <3> QED
      BY <2>1, <2>2, <3>1, <3>2 DEF HidesNothing, Pending
  <2> QED
    BY <2>2, <2>3, <2>4, Zenon DEF StoreStepOK, ListIsCounted
<1>11. CASE \/ \E n \in NodeIds, b \in BOOLEAN : SetNodeOnline(n, b)
            \/ \E ids \in SUBSET NodeIds : UpdateMembers(ids) \/ UpdateMemberStatus(ids)
  <2>1. /\ version' = [version EXCEPT !["clinfo"] = @ + 1]
        /\ UNCHANGED <<nodeIps, vmlist, db, task, owed>>
    BY <1>11, Zenon DEF SetNodeOnline, UpdateMembers, UpdateMemberStatus, ChangeNodes
  <2>2. StoreInv'
    BY <2>1, <1>0, <1>a DEF StoreInv, Typed, DebtsArePaid
  <2>3. \A c \in Channels \ {"clinfo"} : /\ Content(c, info)' = Content(c, info)
                                         /\ Pending(c) => Pending(c)'
    BY <2>1, Zenon DEF Content, VmlistContent, Pending, Channels
  <2> QED
    BY <2>1, <2>2, <2>3, <1>a, CountingStep, Zenon DEF StoreStepOK
<1>12. ASSUME UNCHANGED <<contents, version, owed, task>> PROVE StoreStepOK
  BY <1>12, QuietStep, Zenon
<1>13. ASSUME NEW v, db' = [db EXCEPT !.file = v, !.silent = TRUE],
              UNCHANGED <<info, members, nodeIps, vmlist, version, owed>>,
              \/ task' = task
              \/ owed["db"] = {} /\ \E u : task' = [task EXCEPT !["db"] = u]
       PROVE  StoreStepOK
  <2>1. Typed'
    <3>1. db' = DbFields(db')
      BY <1>13, Zenon DEF StoreInv, Typed, DbFields
    <3> QED
      BY <1>13, <3>1, <1>0, <1>a, Zenon DEF StoreInv, Typed
  <2>2. DebtsArePaid'
    BY <1>13, <1>0, <1>a, Zenon DEF StoreInv, DebtsArePaid
  <2> QED
    BY <1>13, <2>1, <2>2, MaskedStep, Zenon DEF StoreStepOK, StoreInv
<1>14. CASE \/ \E v \in Values : CreateByWrite(v)
            \/ \E v \in Values \cup {None, Zeros} : FuseWrite(v)
  BY <1>14, <1>13, Zenon DEF CreateByWrite, FuseWrite, AtRest
<1> QED
  BY <1>1, <1>2, <1>3, <1>5, <1>6, <1>8, <1>9, <1>10, <1>11, <1>12, <1>14, QuietActions, Zenon
     DEF Next, ConfigTask, Configuration, NodeData, Guests

-----------------------------------------------------------------------------
(* What a polling client holds. *)

\* A counter the client has seen.
Seen(v, c) == v \in Nat /\ v <= version[c]

\* The client is never ahead of a counter, and the node list it has copied is
\* the current one as long as its counter has not moved since.
ClientIsBehind ==
  /\ cached = [c \in Channels |-> cached[c]]
  /\ \A c \in Channels : cached[c].version = None \/ Seen(cached[c].version, c)
  /\ poll = [channel |-> poll.channel, version |-> poll.version, nodes |-> poll.nodes]
  /\ poll = NoPoll \/ (poll.channel \in Channels /\ Seen(poll.version, poll.channel))
  /\ poll.channel = "clinfo" /\ poll.nodes # None /\ poll.version = version["clinfo"]
     => poll.nodes = info

CInv == StoreInv /\ ClientIsBehind /\ CachedIsFresh

\* At the start nothing was counted and the client has nothing cached.
LEMMA ClientInit == Init => CInv
<1> SUFFICES ASSUME Init PROVE CInv
  BY Zenon
<1>1. /\ "clinfo" \in Channels /\ version \in [Channels -> Nat]
  BY Zenon DEF Init, Channels
<1>2. StoreInv
  <2>1. db = DbFields(db)
    BY DEF Init, DbFields
  <2> QED
    BY <2>1, <1>1, Zenon DEF Init, StoreInv, Typed, DebtsArePaid
<1>3. \A c \in Channels : cached[c].version = None
  BY Zenon DEF Init
<1>4. ClientIsBehind
  BY <1>3, Zenon DEF Init, ClientIsBehind, NoPoll
<1>5. CachedIsFresh
  BY <1>1, <1>3, StatusAssumption, Zenon DEF StatusAssumption, CachedIsFresh
<1> QED
  BY <1>2, <1>4, <1>5, Zenon DEF CInv

\* A step that is not the client's own.
LEMMA StoreKeepsClient ==
  ASSUME CInv, StoreStepOK, UNCHANGED clientVars PROVE CInv'
<1>0. UNCHANGED <<poll, cached>>
  BY Zenon DEF clientVars
<1>1. /\ \A c \in Channels : version[c] \in Nat /\ version'[c] \in Nat /\ version'[c] >= version[c]
      /\ "clinfo" \in Channels
  BY Zenon DEF CInv, StoreStepOK, StoreInv, Typed, HidesNothing, Channels
<1>2. \A v : \A c \in Channels : Seen(v, c) => Seen(v, c)'
  BY <1>1 DEF Seen
<1>3. ClientIsBehind'
  <2>1. \A c \in Channels : (cached[c].version = None \/ Seen(cached[c].version, c))'
    BY <1>0, <1>2, Zenon DEF CInv, ClientIsBehind
  <2>2. (poll = NoPoll \/ (poll.channel \in Channels /\ Seen(poll.version, poll.channel)))'
    BY <1>0, <1>2, Zenon DEF CInv, ClientIsBehind
  <2>3. ASSUME poll.channel = "clinfo", poll.nodes # None, poll.version = version'["clinfo"]
        PROVE  poll.nodes = info'
    <3>1. CASE poll = NoPoll
      BY <2>3, <3>1, Zenon DEF NoPoll
    <3>2. CASE Seen(poll.version, poll.channel)
      <4>1. version'["clinfo"] = version["clinfo"]
        BY <2>3, <3>2, <1>1 DEF Seen
      <4> QED
        BY <4>1, <2>3, Zenon DEF CInv, ClientIsBehind, StoreStepOK, ListIsCounted
    <3> QED
      BY <3>1, <3>2, Zenon DEF CInv, ClientIsBehind
  <2> QED
    BY <2>1, <2>2, <2>3, <1>0, Zenon DEF CInv, ClientIsBehind
<1>4. ASSUME NEW c \in Channels, cached'[c].version = version'[c], \A t \in Tasks : c \notin owed'[t],
             c = "path" => ~db'.silent
      PROVE  cached'[c].content = Content(c, info)'
  <2>1. version'[c] = version[c]
    <3>1. cached[c].version = None \/ Seen(cached[c].version, c)
      BY Zenon DEF CInv, ClientIsBehind
    <3> QED
      BY <3>1, <1>0, <1>1, <1>4, StatusAssumption DEF Seen, StatusAssumption
  <2>2. ~Pending(c) /\ Content(c, info)' = Content(c, info)
    BY <2>1, <1>4, Zenon DEF StoreStepOK, HidesNothing, Pending
  <2> QED
    BY <2>1, <2>2, <1>0, <1>4, Zenon DEF CInv, CachedIsFresh, Pending
<1> QED
  BY <1>3, <1>4, Zenon DEF CInv, CachedIsFresh, StoreStepOK

\* The client's own steps: it takes a counter, copies the node list and stores
\* what it reads under the counter it has taken.
LEMMA ClientKeepsClient ==
  ASSUME CInv, StoreInv', NEW b \in Channels, Client(b) PROVE CInv'
<1> USE DEF storeVars, guestVars
<1>1. UNCHANGED <<info, members, nodeIps, vmlist, db, version, task, owed>>
  BY Zenon DEF Client, SeeVersion, ReadNodes, ReadContent
<1>2. \A v, c : Seen(v, c)' <=> Seen(v, c)
  BY <1>1, Zenon DEF Seen
<1>3. \A c, nodes : Content(c, nodes)' = Content(c, nodes)
  BY <1>1, Zenon DEF Content, MembersContent, VmlistContent
<1>4. \A c \in Channels : version[c] \in Nat
  BY Zenon DEF CInv, StoreInv, Typed
<1>5. CASE SeeVersion(b)
  <2>1. cached' = cached /\ poll' = [NoPoll EXCEPT !.channel = b, !.version = version[b]]
    BY <1>5, Zenon DEF SeeVersion
  <2>2. poll' = [channel |-> b, version |-> version[b], nodes |-> None]
    BY <2>1, Zenon DEF NoPoll
  <2>3. ClientIsBehind'
    <3>1. poll'.channel = b /\ poll'.version = version[b] /\ poll'.nodes = None
      BY <2>2, Zenon
    <3>2. Seen(version[b], b)
      BY <1>4 DEF Seen
    <3> QED
      BY <2>1, <2>2, <3>1, <3>2, <1>1, <1>2, Zenon DEF CInv, ClientIsBehind
  <2>4. CachedIsFresh'
    BY <2>1, <1>1, <1>3, Zenon DEF CInv, CachedIsFresh
  <2> QED
    BY <2>3, <2>4, Zenon DEF CInv
<1>6. CASE ReadNodes
  <2>1. cached' = cached /\ poll' = [poll EXCEPT !.nodes = info]
    BY <1>6, Zenon DEF ReadNodes
  <2>2. poll' = [channel |-> poll.channel, version |-> poll.version, nodes |-> info]
    BY <2>1, Zenon DEF CInv, ClientIsBehind
  <2>3. poll.channel \in Channels /\ Seen(poll.version, poll.channel)
    <3>1. poll # NoPoll
      BY <1>6, StatusAssumption DEF ReadNodes, NoPoll, StatusAssumption, Channels
    <3> QED
      BY <3>1, Zenon DEF CInv, ClientIsBehind
  <2>4. ClientIsBehind'
    BY <2>1, <2>2, <2>3, <1>1, Zenon DEF CInv, ClientIsBehind, Seen
  <2>5. CachedIsFresh'
    BY <2>1, <1>1, <1>3, Zenon DEF CInv, CachedIsFresh
  <2> QED
    BY <2>4, <2>5 DEF CInv
<1>7. CASE ReadContent
  <2> DEFINE p == poll.channel
             new == [version |-> poll.version, content |-> Content(p, poll.nodes)]
  <2>1. p # None /\ (p = "clinfo" => poll.nodes # None) /\ poll' = NoPoll
        /\ cached' = [cached EXCEPT ![p] = new]
    BY <1>7, Zenon DEF ReadContent
  <2>2. p \in Channels /\ Seen(poll.version, p)
    BY <2>1 DEF CInv, ClientIsBehind, NoPoll
  <2>3. ClientIsBehind'
    BY <2>1, <2>2, <1>1, Zenon DEF CInv, ClientIsBehind, Seen, NoPoll
  <2>4. ASSUME NEW c \in Channels, cached'[c].version = version[c], \A t \in Tasks : c \notin owed[t],
               c = "path" => ~db.silent
        PROVE  cached'[c].content = Content(c, info)
    <3>1. CASE c # p
      BY <2>4, <3>1, <2>1, <2>2, Zenon DEF CInv, CachedIsFresh, ClientIsBehind
    <3>2. CASE c = p
      <4>1. cached'[c] = new
        BY <3>2, <2>1, <2>2, Zenon DEF CInv, ClientIsBehind
      <4>2. CASE p = "clinfo"
        BY <4>1, <4>2, <3>2, <2>1, <2>4, Zenon DEF CInv, ClientIsBehind
      <4>3. CASE p # "clinfo"
        BY <4>1, <4>3, <3>2, <2>2 DEF Content, Channels
      <4> QED
        BY <4>2, <4>3, Zenon
    <3> QED
      BY <3>1, <3>2, Zenon
  <2>5. CachedIsFresh'
    BY <2>4, <1>1, <1>3, Zenon DEF CachedIsFresh
  <2> QED
    BY <2>3, <2>5 DEF CInv
<1> QED
  BY <1>5, <1>6, <1>7, Zenon DEF Client

\* Only the client changes what the client holds.
LEMMA UntouchedClient ==
  [Next]_vars => UNCHANGED clientVars \/ \E c \in Channels : Client(c)
<1> SUFFICES ASSUME [Next]_vars, ~\E c \in Channels : Client(c) PROVE UNCHANGED clientVars
  BY Zenon
<1> USE DEF clientVars
<1>1. CASE ConfigTask \/ Configuration
  BY <1>1, Zenon DEF ConfigTask, Configuration, ConfigInitialize, ConfigDispatch, ReadNode, CleanKvstore,
       UpdateClusterInfo, CmapChange, ConfigConnectionLost, ReadClusterNameFails, ReadNodeFails,
       ReadAddress, ReadAddressFails
<1>2. CASE QuorumTask \/ Quorum
  BY <1>2, Zenon DEF QuorumTask, Quorum, QuorumInitialize, QuorumDispatch, QuorumChange, QuorumFinalize
<1>3. CASE NodeData
  BY <1>3, Zenon DEF NodeData, DeliverKv, StoreKv, NameNode, StoreNodeIp, SetNodeStatus, SetNodeIp,
       SetNodeOnline, UpdateMembers, UpdateMemberStatus, ChangeNodes
<1>4. CASE Guests
  BY <1>4, Zenon DEF Guests, DeliverFile, CreateByWrite, WriteCreated, WriteNothing, FuseWrite, DeliverGuest, ProcessUpdate, CommitState, ScanNode, StoreVmlist,
       RegisterVm, DeleteVm
<1>5. CASE Rrd
  BY <1>5, Zenon DEF Rrd, SetRrdData, Tick, DumpStart, DumpCheckCache, DumpCollect, DumpStore, RrdUnchanged
<1>6. CASE \E t \in Tasks, c \in Channels : Increment(t, c)
  BY <1>6, Zenon DEF Increment
<1> QED
  BY <1>1, <1>2, <1>3, <1>4, <1>5, <1>6, Zenon DEF Next, vars

\* A client that polls .version and reads a content again when its counter has
\* moved never keeps an old one behind a counter it has seen, however the
\* configuration service, the delivery tasks, the IPC worker, the scans of the
\* guest list and the FUSE handlers interleave, except for a file that one of
\* the writers that move no counter has changed since the counter last moved
\* (status.rs, members.rs, version.rs, memdb_callbacks.rs, filesystem.rs).
THEOREM ClientsStayFresh == Spec => []CachedIsFresh
<1>1. CInv /\ [Next]_vars => CInv'
  <2> SUFFICES ASSUME CInv, [Next]_vars PROVE CInv'
    BY Zenon
  <2>1. StoreStepOK
    BY StoreStep, Zenon DEF CInv
  <2>2. UNCHANGED clientVars \/ \E c \in Channels : Client(c)
    BY UntouchedClient, Zenon
  <2> QED
    BY <2>1, <2>2, StoreKeepsClient, ClientKeepsClient, Zenon DEF StoreStepOK
<1>2. CInv => CachedIsFresh
  BY Zenon DEF CInv
<1> QED
  BY <1>1, <1>2, ClientInit, PTL DEF Spec

-----------------------------------------------------------------------------
(* How old an RRD dump may be. *)

\* d was collected at time "at" or later.
CollectedSince(d, at) ==
  /\ rrd # None /\ rrd.time < at => d = rrd
  /\ d # None => d.time \in Nat /\ d.time + ExpireSeconds > at

DumpTyped ==
  /\ now \in Nat
  /\ rrd # None => rrd.time \in Nat /\ rrd.time <= now
  /\ dump = [r \in Readers |-> dump[r]]
  /\ \A r \in Readers :
       /\ dump[r] = [pc |-> dump[r].pc, start |-> dump[r].start, result |-> dump[r].result]
       /\ dump[r].start \in Nat /\ dump[r].start <= now

\* What is cached, and what is about to be, was collected since the time it is
\* stamped with.
StampsAreOld ==
  /\ dumpCache # None => /\ dumpCache.time \in Nat /\ dumpCache.time <= now
                         /\ CollectedSince(dumpCache.dump, dumpCache.time)
  /\ \A r \in Readers : dump[r].pc = "store" => CollectedSince(dump[r].result, dump[r].start)

DInv == DumpTyped /\ StampsAreOld /\ DumpIsRecent

\* At the start there is no dump in the cache and none is being collected.
LEMMA DumpInit == Init => DInv
BY DEF Init, DInv, DumpTyped, StampsAreOld, DumpIsRecent, Readers

\* A value that is set, or one that has expired, makes no collection look old.
LEMMA CollectionsStayValid ==
  ASSUME DumpTyped, NEW d, NEW at \in Nat, at <= now, CollectedSince(d, at),
         rrd' = rrd \/ rrd' = None \/ (rrd'.time = now)
  PROVE  CollectedSince(d, at)'
BY DEF DumpTyped, CollectedSince

\* A step of reader r; the other reader is not disturbed.
LEMMA ReaderStep ==
  ASSUME DInv, NEW r \in Readers,
         DumpStart(r) \/ DumpCheckCache(r) \/ DumpCollect(r) \/ DumpStore(r)
  PROVE  DInv'
<1>0. /\ now \in Nat /\ now' = now
      /\ rrd # None => rrd.time \in Nat /\ rrd.time <= now
      /\ \A q \in Readers : dump[q].start \in Nat /\ dump[q].start <= now
      /\ dump = [q \in Readers |-> dump[q]]
      /\ ExpireSeconds \in Nat /\ CacheSeconds \in Nat \ {0}
  BY StatusAssumption, Zenon DEF DInv, DumpTyped, StatusAssumption, DumpStart, DumpCheckCache, DumpCollect, DumpStore
<1>a. dump[r] = [pc |-> dump[r].pc, start |-> dump[r].start, result |-> dump[r].result]
  BY Zenon DEF DInv, DumpTyped
<1>1. CASE DumpStart(r)
  <2>1. /\ dump' = [dump EXCEPT ![r].pc = "check", ![r].start = now]
        /\ UNCHANGED <<now, rrd, dumpCache>>
    BY <1>1, Zenon DEF DumpStart
  <2>2. dump'[r] = [pc |-> "check", start |-> now, result |-> dump[r].result]
    <3>1. dump'[r] = [dump[r] EXCEPT !.pc = "check", !.start = now]
      BY <2>1, <1>0, Zenon
    <3> QED
      BY <3>1, <1>a, Zenon
  <2>3. \A q \in Readers \ {r} : dump'[q] = dump[q]
    BY <2>1, <1>0, Zenon
  <2>4. dump' = [q \in Readers |-> dump'[q]]
    BY <2>1, <1>0, Zenon
  <2>5. DumpTyped'
    BY <2>1, <2>2, <2>3, <2>4, <1>0 DEF DInv, DumpTyped
  <2>6. \A q \in Readers : dump'[q].pc \in {"idle", "store"} => dump'[q] = dump[q]
    BY <2>2, <2>3
  <2>7. StampsAreOld' /\ DumpIsRecent'
    <3>1. StampsAreOld'
      BY <2>1, <2>6, Zenon DEF DInv, StampsAreOld, CollectedSince
    <3>2. DumpIsRecent'
      BY <2>1, <2>6, Zenon DEF DInv, DumpIsRecent
    <3> QED
      BY <3>1, <3>2, Zenon
  <2> QED
    BY <2>5, <2>7, Zenon DEF DInv
<1>2. CASE DumpCheckCache(r)
  <2>1. UNCHANGED <<now, rrd, dumpCache>>
    BY <1>2, Zenon DEF DumpCheckCache
  <2>2. \/ /\ dumpCache # None /\ Age(dumpCache.time, dump[r].start) < CacheSeconds
           /\ dump'[r] = [pc |-> "idle", start |-> dump[r].start, result |-> dumpCache.dump]
        \/ dump'[r] = [pc |-> "collect", start |-> dump[r].start, result |-> dump[r].result]
    <3>1. dump'[r] = IF dumpCache # None /\ Age(dumpCache.time, dump[r].start) < CacheSeconds
                     THEN [dump[r] EXCEPT !.pc = "idle", !.result = dumpCache.dump]
                     ELSE [dump[r] EXCEPT !.pc = "collect"]
      BY <1>2, <1>0, Zenon DEF DumpCheckCache
    <3> HIDE DEF Age
    <3> QED
      BY <3>1, <1>a, Zenon
  <2>3. \A q \in Readers \ {r} : dump'[q] = dump[q]
    BY <1>2, <1>0, Zenon DEF DumpCheckCache
  <2>4. dump' = [q \in Readers |-> dump'[q]]
    BY <1>2, <1>0, Zenon DEF DumpCheckCache
  <2>5. DumpTyped'
    BY <2>1, <2>2, <2>3, <2>4, <1>0 DEF DInv, DumpTyped
  <2>6. StampsAreOld'
    <3>1. \A q \in Readers : dump'[q].pc = "store" => q # r
      BY <2>2
    <3>2. \A q \in Readers : dump'[q].pc = "store" =>
            CollectedSince(dump'[q].result, dump'[q].start)
      BY <2>3, <3>1, Zenon DEF DInv, StampsAreOld
    <3> QED
      BY <2>1, <3>2, Zenon DEF DInv, StampsAreOld, CollectedSince
  <2>7. DumpIsRecent'
    <3>1. ASSUME dumpCache # None, Age(dumpCache.time, dump[r].start) < CacheSeconds
          PROVE  /\ rrd # None /\ rrd.time + CacheSeconds <= dump[r].start => dumpCache.dump = rrd
                 /\ dumpCache.dump # None
                    => dumpCache.dump.time + ExpireSeconds + CacheSeconds > dump[r].start
      <4>1. dumpCache.time \in Nat /\ CollectedSince(dumpCache.dump, dumpCache.time)
        BY <3>1, Zenon DEF DInv, StampsAreOld
      <4>2. dumpCache.time + CacheSeconds > dump[r].start
        BY <3>1, <4>1, <1>0 DEF Age
      <4> QED
        BY <4>1, <4>2, <1>0 DEF CollectedSince
    <3> QED
      BY <3>1, <2>1, <2>2, <2>3 DEF DInv, DumpIsRecent
  <2> QED
    BY <2>5, <2>6, <2>7, Zenon DEF DInv
<1>3. CASE DumpCollect(r)
  <2>1. /\ UNCHANGED <<now, dumpCache>>
        /\ rrd' = rrd \/ rrd' = None
        /\ rrd' # None => rrd' = rrd /\ Age(rrd.time, now) < ExpireSeconds
    BY <1>3, Zenon DEF DumpCollect
  <2>2. dump'[r] = [pc |-> "store", start |-> dump[r].start, result |-> rrd']
    <3>1. dump'[r] = [dump[r] EXCEPT !.pc = "store", !.result = rrd']
      BY <1>3, <1>0, Zenon DEF DumpCollect
    <3> QED
      BY <3>1, <1>a, Zenon
  <2>3. \A q \in Readers \ {r} : dump'[q] = dump[q]
    BY <1>3, <1>0, Zenon DEF DumpCollect
  <2>4. dump' = [q \in Readers |-> dump'[q]]
    BY <1>3, <1>0, Zenon DEF DumpCollect
  <2>5. DumpTyped'
    BY <2>1, <2>2, <2>3, <2>4, <1>0 DEF DInv, DumpTyped
  <2>6. CollectedSince(dump[r].result, dump[r].start)'
    BY <2>1, <2>2, <1>0 DEF CollectedSince, Age
  <2>7. StampsAreOld'
    BY <2>1, <2>2, <2>3, <2>6, Zenon DEF DInv, StampsAreOld, CollectedSince
  <2>8. DumpIsRecent'
    BY <2>1, <2>2, <2>3 DEF DInv, DumpIsRecent
  <2> QED
    BY <2>5, <2>7, <2>8 DEF DInv
<1>4. CASE DumpStore(r)
  <2>1. /\ UNCHANGED <<now, rrd>>
        /\ dumpCache' = [time |-> dump[r].start, dump |-> dump[r].result]
        /\ CollectedSince(dump[r].result, dump[r].start)
    BY <1>4, Zenon DEF DumpStore, DInv, StampsAreOld
  <2>2. dump'[r] = [pc |-> "idle", start |-> dump[r].start, result |-> dump[r].result]
    BY <1>4, <1>0 DEF DumpStore, DInv, DumpTyped
  <2>3. \A q \in Readers \ {r} : dump'[q] = dump[q]
    BY <1>4, <1>0, Zenon DEF DumpStore
  <2>4. dump' = [q \in Readers |-> dump'[q]]
    BY <1>4, <1>0, Zenon DEF DumpStore
  <2>5. DumpTyped'
    BY <2>1, <2>2, <2>3, <2>4, <1>0 DEF DInv, DumpTyped
  <2>6. StampsAreOld'
    BY <2>1, <2>2, <2>3, <1>0 DEF DInv, StampsAreOld, CollectedSince
  <2>7. DumpIsRecent'
    BY <2>1, <2>2, <2>3, <1>0 DEF DInv, DumpIsRecent, CollectedSince
  <2> QED
    BY <2>5, <2>6, <2>7 DEF DInv
<1> QED
  BY <1>1, <1>2, <1>3, <1>4, Zenon

\* Only Rrd touches the RRD data.
LEMMA UntouchedDumps == [Next]_vars => UNCHANGED rrdVars \/ Rrd
<1> SUFFICES ASSUME [Next]_vars, ~Rrd PROVE UNCHANGED rrdVars
  BY Zenon
<1> USE DEF rrdVars
<1>1. CASE ConfigTask \/ Configuration
  BY <1>1, Zenon DEF ConfigTask, Configuration, ConfigInitialize, ConfigDispatch, ReadNode, CleanKvstore,
       UpdateClusterInfo, CmapChange, ConfigConnectionLost, ReadClusterNameFails, ReadNodeFails,
       ReadAddress, ReadAddressFails
<1>2. CASE QuorumTask \/ Quorum
  BY <1>2, Zenon DEF QuorumTask, Quorum, QuorumInitialize, QuorumDispatch, QuorumChange, QuorumFinalize
<1>3. CASE NodeData
  BY <1>3, Zenon DEF NodeData, DeliverKv, StoreKv, NameNode, StoreNodeIp, SetNodeStatus, SetNodeIp,
       SetNodeOnline, UpdateMembers, UpdateMemberStatus, ChangeNodes
<1>4. CASE Guests
  BY <1>4, Zenon DEF Guests, DeliverFile, CreateByWrite, WriteCreated, WriteNothing, FuseWrite, DeliverGuest, ProcessUpdate, CommitState, ScanNode, StoreVmlist,
       RegisterVm, DeleteVm
<1>5. CASE \/ \E t \in Tasks, c \in Channels : Increment(t, c)
           \/ \E c \in Channels : Client(c)
  BY <1>5, Zenon DEF Increment, Client, SeeVersion, ReadNodes, ReadContent
<1> QED
  BY <1>1, <1>2, <1>3, <1>4, <1>5, Zenon DEF Next, vars

\* Whoever asks for the RRD dump, alone or beside the other reader, gets every
\* value that was set CacheSeconds before the call and is still kept, and none
\* that had expired so long ago (get_rrd_dump, remove_old_rrd_data).
THEOREM DumpsAreRecent == Spec => []DumpIsRecent
<1>1. DInv /\ [Next]_vars => DInv'
  <2> SUFFICES ASSUME DInv, [Next]_vars PROVE DInv'
    OBVIOUS
  <2>0. /\ now \in Nat /\ ExpireSeconds \in Nat /\ CacheSeconds \in Nat \ {0}
        /\ rrd # None => rrd.time \in Nat /\ rrd.time <= now
        /\ \A r \in Readers : dump[r].start \in Nat /\ dump[r].start <= now
    BY StatusAssumption, Zenon DEF DInv, DumpTyped, StatusAssumption
  <2>1. CASE UNCHANGED rrdVars
    BY <2>1, Zenon DEF DInv, DumpTyped, StampsAreOld, DumpIsRecent, CollectedSince, rrdVars
  <2>2. CASE Tick
    <3>1. now' = now + 1 /\ UNCHANGED <<rrd, dumpCache, dump>>
      BY <2>2, Zenon DEF Tick
    <3>2. DumpTyped'
      BY <3>1, <2>0 DEF DInv, DumpTyped
    <3>3. StampsAreOld'
      BY <3>1, <2>0 DEF DInv, StampsAreOld, CollectedSince
    <3>4. DumpIsRecent'
      BY <3>1, Zenon DEF DInv, DumpIsRecent
    <3> QED
      BY <3>2, <3>3, <3>4, Zenon DEF DInv
  <2>3. ASSUME NEW v \in Values, SetRrdData(v) PROVE DInv'
    <3>1. rrd' = [data |-> v, time |-> now] /\ UNCHANGED <<now, dumpCache, dump>>
      BY <2>3, Zenon DEF SetRrdData
    <3>2. DumpTyped'
      BY <3>1, <2>0 DEF DInv, DumpTyped
    <3>3. StampsAreOld'
      BY <3>1, <2>0, CollectionsStayValid, Zenon DEF DInv, StampsAreOld
    <3>4. DumpIsRecent'
      BY <3>1, <2>0 DEF DInv, DumpIsRecent
    <3> QED
      BY <3>2, <3>3, <3>4, Zenon DEF DInv
  <2> QED
    BY <2>1, <2>2, <2>3, UntouchedDumps, ReaderStep, Zenon DEF Rrd
<1>2. DInv => DumpIsRecent
  BY DEF DInv
<1> QED
  BY <1>1, <1>2, DumpInit, PTL DEF Spec
=============================================================================
