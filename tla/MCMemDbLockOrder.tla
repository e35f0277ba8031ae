--------------------------- MODULE MCMemDbLockOrder ----------------------------
(* The thread that delivers cluster messages, the FUSE thread and a reader. *)
EXTENDS MemDbLockOrder

Delivering == {Create, CreateRefused, Write, SetMtime, Delete, Rename, LockExpired,
               EncodeIndex, ApplyTreeEntry}
Serving == {LookupPath, ReadIndex, Readdir, Write, LockExpired}
Reading == {LookupPath, ReadIndex}

MCPrograms == [t \in Threads |-> CASE t = "deliver" -> Delivering
                                   [] t = "fuse" -> Serving
                                   [] OTHER -> Reading]
=============================================================================
