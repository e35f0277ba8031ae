------------------------------ MODULE MCFuseFs ------------------------------
(* FuseFs on a database with one directory and a file in it, and the      *)
(* frames of WireFormat, with which it shares no variable.  Each behaviour *)
(* has a focus: requests that change the tree, requests that change a      *)
(* file, requests that look, or frames.                                    *)
EXTENDS FuseFs

VARIABLE focus

MCNames == {"d", "e"}
MCPlugins == <<[name |-> ".rw", link |-> FALSE, mode |-> \o640, writes |-> TRUE, size |-> 2],
               [name |-> ".ro", link |-> FALSE, mode |-> \o440, writes |-> FALSE, size |-> 1],
               [name |-> "local", link |-> TRUE, mode |-> \o777, writes |-> FALSE, size |-> 3]>>

OneDir == DbCreate(EmptyDb, <<"d">>, TRUE).db
OneFile == DbCreate(OneDir, <<"d", "e">>, FALSE).db
\* Some versions later a file has an inode behind those of the plugins.
Late == DbCreate([OneFile EXCEPT !.version = 9], <<"e">>, FALSE).db
Private == DbCreate(DbCreate(OneFile, <<"priv">>, TRUE).db, <<"priv", "e">>, FALSE).db

MCPeerMessages ==
  {[op |-> "mkdir", path |-> <<"e">>], [op |-> "rename", path |-> <<"e">>, to |-> <<"d">>],
   [op |-> "rename", path |-> <<"d">>, to |-> <<"e">>],
   [op |-> "delete", path |-> <<"d", "e">>], [op |-> "delete", path |-> <<"d">>],
   [op |-> "write", path |-> <<"d", "e">>, offset |-> 1, len |-> 1]}

\* Frames of every type, with empty and long fields, with text outside ASCII,
\* with keys cut inside a character and beside one, and a write at 2^32.
FsMessages ==
  {[type |-> t, path |-> p] : t \in {"Mkdir", "Delete", "Create", "UnlockRequest", "Unlock"},
                              p \in {<<>>, <<1>>, <<1, 2>>, <<Lead, Trail>>}}
    \cup {[type |-> "Write", path |-> <<1>>, offset |-> o, data |-> x] :
            o \in {0, Word - 1, Word}, x \in {<<>>, <<0>>, <<3, 0>>}}
    \cup {[type |-> "Rename", path |-> p, to |-> q] : p, q \in {<<>>, <<1>>, <<Lead, Trail>>}}
    \cup {[type |-> "Mtime", path |-> p, mtime |-> t] : p \in {<<1>>}, t \in {0, Word - 1}}

KvMessages ==
  {[type |-> "Update", key |-> k, value |-> v] :
     k \in {<<>>, <<1>>, <<1, 2>>, <<1, 2, 3>>, <<1, 2, 3, 4>>,
            <<Lead, Trail>>, <<1, Lead, Trail>>, <<Lead, Trail, 3>>}, v \in {<<>>, <<0>>, <<5, 0>>}}
    \cup {[type |-> "UpdateComplete"]}
    \cup {[type |-> "Log", time |-> 1, priority |-> 6, node |-> s, ident |-> t, tag |-> u,
           message |-> v] : s, t, u, v \in {<<>>, <<7>>, <<Lead, Trail>>}}

Epochs == {[epoch |-> 1, time |-> 2, nodeid |-> 1, pid |-> 9]}
IndexEntries == {[inode |-> 0, digest |-> 4], [inode |-> 2, digest |-> 5]}
Indexes == {[version |-> 2, lastInode |-> 2, writer |-> 1, mtime |-> 3, entries |-> e] :
              e \in {<<>>} \cup {<<x, y>> : x, y \in IndexEntries}}
Entries == {[parent |-> 0, inode |-> 2, version |-> 2, writer |-> 1, mtime |-> 3,
             size |-> Len(x), type |-> IF x = <<>> THEN t ELSE DtReg, name |-> n, data |-> x] :
              x \in {<<>>, <<0>>, <<1, 0>>}, t \in {DtDir, DtReg}, n \in {<<1>>, <<Lead, Trail>>}}

MCFrames ==
  {[kind |-> "Normal", group |-> "database", protocol |-> ProtocolVersion, time |-> 1,
    count |-> 2, message |-> m] : m \in FsMessages}
    \cup {[kind |-> "Normal", group |-> "status", protocol |-> ProtocolVersion, time |-> 1,
           count |-> 2, message |-> m] : m \in KvMessages}
    \cup {[kind |-> "SyncStart", group |-> "database", epoch |-> e] : e \in Epochs}
    \cup {[kind |-> "State", group |-> "database", epoch |-> e, index |-> x] :
            e \in Epochs, x \in Indexes}
    \cup {[kind |-> "Update", group |-> "database", epoch |-> e, entry |-> x] :
            e \in Epochs, x \in Entries}
    \cup {[kind |-> "UpdateComplete", group |-> "database", epoch |-> e] : e \in Epochs}
    \cup {[kind |-> "VerifyRequest", group |-> "database", epoch |-> e, id |-> 4] : e \in Epochs}
    \cup {[kind |-> "Verify", group |-> "database", epoch |-> e, id |-> 4, checksum |-> 8] :
            e \in Epochs}

Root == (1 :> "dir")
MCInit ==
  /\ focus \in {"tree", "file", "look", "wire"}
  /\ WireInit
  /\ \/ focus = "tree" /\ FuseInit(OneFile, Root @@ (3 :> "dir"))
     \/ focus = "file" /\ FuseInit(Late, Root @@ [f \in {4, 6, 10} |-> "file"])
     \/ focus = "look" /\ FuseInit(Private, Root) /\ clustered
     \/ focus = "wire" /\ FuseInit(EmptyDb, Root) /\ clustered
  /\ (focus \in {"file", "tree"} /\ clustered) \/ peer.first = MaxCount

\* With a message of another node, the second request of this one comes before
\* a delivery changes the database.
Early(version) == peer.sent = 0 \/ counter = 0 \/ db.version < version

\* A reply is taken at once: it concerns nobody but its caller.
FuseStep ==
  /\ UNCHANGED <<focus, wireVars>>
  /\ \/ focus = "tree" /\ ((db.version < 5 /\ Early(4) /\ ChangeTree) \/ Cluster)
     \/ focus = "file" /\ ((Early(11) /\ ChangeFile) \/ Cluster)
     \/ focus = "look" /\ (Observe \/ QuorumChanges \/ Return)
  /\ reply # NoReply => reply' = NoReply
WireStep == focus = "wire" /\ WireNext /\ UNCHANGED <<focus, fuseVars>>

mcvars == <<focus, fuseVars, wireVars>>
MCNext == FuseStep \/ WireStep

MCSpec == /\ MCInit /\ [][MCNext]_mcvars
          /\ WF_fuseVars(Finish) /\ WF_fuseVars(Expire)
=============================================================================
