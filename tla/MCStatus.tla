------------------------------ MODULE MCStatus ------------------------------
(* Status with a node list of one or two nodes, where the address of the   *)
(* first one changes with the list, and the cluster log of two daemons.    *)
(* The parts of the store share no variable but the counters, so each      *)
(* behaviour gives inputs to one part, its focus, and the services run in  *)
(* all of them; the database, the RRD data and the log, which shares       *)
(* nothing with the rest, wait until they have started.                    *)
EXTENDS Status, ClusterLog

VARIABLE focus

MCNodeIds == {1, 2}
OneNode == <<[id |-> 1, ip |-> "a"]>>
TwoNodes == <<[id |-> 2, ip |-> "b"], [id |-> 1, ip |-> "b"]>>
MCConfigs == {OneNode, TwoNodes}

\* The first message may be short, the others are cut.
MCMessageSizes == <<{1, 3}, {3}, {3}>>

MCInit ==
  /\ Init
  /\ LogInit
  /\ focus \in {"config", "nodes", "quorum", "vmlist", "path", "rrd", "log"}
  /\ focus \notin {"config", "nodes"} => cmap = OneNode
  /\ focus # "quorum" => ~coroQuorate
  /\ db.local => focus = "path"

\* The quorum service, and both services, have started.
Tracked == Connected /\ notes = <<>>
Started == Tracked /\ config.pc = "up"

StoreNext ==
  /\ UNCHANGED <<focus, logVars>>
  /\ \/ QuorumTask
     \/ (focus = "quorum" \/ Tracked) /\ ConfigTask
     \/ /\ focus \in {"config", "nodes"} /\ Tracked
        /\ Configuration \/ Client("clinfo") \/ (focus = "nodes" /\ NodeData)
     \/ focus = "quorum" /\ Quorum
     \/ focus \in {"vmlist", "path"} /\ Started /\ (Guests \/ Client(focus))
     \/ focus = "rrd" /\ Started /\ Rrd
     \/ \E t \in Tasks, c \in Channels : Increment(t, c)
  /\ focus \in {"nodes", "vmlist", "path"} => inputs' <= 2

\* Three entries in one round, or two in two rounds with a restart.
LogStep ==
  /\ focus = "log" /\ Started
  /\ UNCHANGED <<focus, vars>>
  /\ LogNext
  /\ Len(wire') <= 1
  /\ packed'[2]["ipc2"] = NoEntry
  /\ clock' > clock => entries = 1
  /\ entries' = 3 => restarts' = 0 /\ rounds' <= 1

mcvars == <<vars, logVars, focus>>
MCNext == StoreNext \/ LogStep

MCSpec == /\ MCInit /\ [][MCNext]_mcvars
          /\ WF_mcvars(ConfigTask /\ UNCHANGED <<focus, logVars>>)
          /\ WF_mcvars(QuorumTask /\ UNCHANGED <<focus, logVars>>)
====
