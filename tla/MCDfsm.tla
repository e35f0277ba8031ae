------------------------------- MODULE MCDfsm ---------------------------------
(***************************************************************************)
(* Instances of Dfsm for TLC: what the nodes have on disk at the start and *)
(* what their clients ask for.                                             *)
(***************************************************************************)
EXTENDS Dfsm, SequencesExt

Create(f) == [kind |-> "create", name |-> f, data |-> NoData]
Write(f, x) == [kind |-> "write", name |-> f, data |-> x]
Delete(f) == [kind |-> "delete", name |-> f, data |-> NoData]

\* The database after the operations of s.
After(s) == FoldLeft(LAMBDA db, op : Deliver(db, op).db, FreshDb, s)

\* A history of which node n has seen the operations before the n-th, and the
\* last node all.
History == <<Create("a"), Create("b"), Write("a", 1)>>
Lagging ==
  [n \in Node |-> IF \A m \in Node : m <= n THEN After(History)
                                            ELSE After(SubSeq(History, 1, n - 1))]
\* All nodes have one file, and clocks that differ.
Equal == [n \in Node |-> [After(<<Create("a")>>) EXCEPT !.clock = n - 1]]

\* A round was interrupted after the update of "b": node 2 has the version and the
\* mtime of the others, and lacks "a".
Tied ==
  LET full == After(<<Create("a"), Create("b")>>)
      half == ApplyUpdate(FreshDb, [inode |-> full.link["b"], file |-> full.ents[full.link["b"]]])
  IN  [n \in Node |-> [(IF n = 2 THEN half ELSE full) EXCEPT !.clock = n - 1]]

NoRequests == [n \in Node |-> {}]
\* Node 1 has a client, which writes or deletes the file.
OneWrites == [n \in Node |-> IF n = 1 THEN {Write("a", 1)} ELSE {}]
OneDeletes == [n \in Node |-> IF n = 1 THEN {Delete("b")} ELSE {}]

\* Either a node is lost or a multicast fails.
OneFault == left'.loss + left'.fail >= 1
=============================================================================
