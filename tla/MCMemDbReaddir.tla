---------------------------- MODULE MCMemDbReaddir -----------------------------
(* The thread that delivers cluster messages, and a FUSE thread that lists. *)
EXTENDS MemDbLockOrder

MCWithReaddir ==
  [t \in Threads |-> IF t = "deliver" THEN {Create, Delete} ELSE {LookupPath, Readdir}]
=============================================================================
