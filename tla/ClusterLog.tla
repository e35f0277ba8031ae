----------------------------- MODULE ClusterLog -----------------------------
(***************************************************************************)
(* The cluster log (pmxcfs-logger): every daemon keeps the newest entries  *)
(* that fit in a buffer of fixed size, and the table of the newest entry   *)
(* seen from every node that lets it drop duplicates.  An entry is packed  *)
(* outside the lock, where it gets its identifier, and inserted under it.  *)
(* When the kvstore group synchronises, every daemon sends its log as a    *)
(* memory image with linked entries, and merges the images of all.         *)
(*                                                                         *)
(* Sizes count units of 8 bytes, to which the code aligns entries; the     *)
(* image starts with a header of one unit.  A text is a number and a size. *)
(* A log is lost with its process.                                         *)
(***************************************************************************)
EXTENDS Naturals, FiniteSets, Sequences, SequencesExt, FiniteSetsExt, Functions

CONSTANTS LogNodes,      \* daemons, numbered: a number stands for the digest
          Foreign,       \* a node whose LOG messages the daemons receive
          MessageSizes,  \* sizes that each message may have
          MaxEntrySize,  \* CLOG_MAX_ENTRY_SIZE
          UidLimit,      \* the identifiers wrap around here (2^32)
          Capacity,      \* size of the buffer
          NoEntry,       \* nothing packed, no image sent
          MaxLogTime,    \* bound on the clock
          MaxEntries,    \* bound on the entries packed
          MaxRestarts,   \* bound on the restarts
          MaxRounds      \* bound on the synchronisations

Threads == {"ipc1", "ipc2", "deliver"}
Origins == LogNodes \cup {Foreign}

VARIABLES buffer,    \* entries of each daemon, newest first
          dedup,     \* newest time and uid seen per node
          uidCounter,\* UID_COUNTER
          packed,    \* entry a thread has packed and not yet inserted
          clock,     \* seconds
          wire,      \* LOG messages of the foreign node, in the agreed order
          heard,     \* how many of them each daemon was delivered
          image,     \* states sent in this round
          merged,    \* daemons that have merged in this round
          rounds,    \* synchronisations so far
          inserted,  \* something was inserted since the round began
          entries,   \* entries packed so far
          restarts   \* restarts so far

process == <<buffer, dedup, uidCounter, packed>>
logVars == <<process, clock, wire, heard, image, merged, rounds, inserted,
             entries, restarts>>

-----------------------------------------------------------------------------
(* The ring buffer. *)

SizeOf(buf) == FoldLeft(LAMBDA total, e : total + e.size, 0, buf)

\* add_entry: the oldest entries are removed until the new one fits.
AddEntry(buf, e) ==
  LET fits(k) == SizeOf(SubSeq(buf, 1, k)) + e.size <= Capacity
  IN <<e>> \o SubSeq(buf, 1, Cardinality({k \in DOMAIN buf : fits(k)}))

Key(e) == <<e.time, e.node, e.uid>>

\* The order of the sort and of the merge: time, node digest, identifier.
Before(k, l) ==
  \/ k[1] < l[1]
  \/ k[1] = l[1] /\ k[2] < l[2]
  \/ k[1] = l[1] /\ k[2] = l[2] /\ k[3] < l[3]

OldestFirst(es) ==
  [i \in 1..Cardinality(es) |->
     CHOOSE e \in es :
       Cardinality({d \in es : Before(Key(d), Key(e))}) = i - 1]

\* Mutant: the entries are added newest first, so that the old ones stay.
Filled_NewestFirst(es) == FoldLeft(AddEntry, <<>>, Reverse(OldestFirst(es)))

\* Entries added oldest first to an empty buffer.
Filled(es) == FoldLeft(AddEntry, <<>>, OldestFirst(es))

SortBuffer(buf) == Filled(Range(buf))

-----------------------------------------------------------------------------
(* The image (serialize_binary, deserialize_binary): an offset to the      *)
(* newest entry, and every entry with the offset of the next older one.    *)

Offset(buf, i) == 1 + SizeOf(SubSeq(buf, 1, i - 1))
HasRoom(buf) == \A i \in DOMAIN buf : Offset(buf, i) + buf[i].size <= Capacity

\* Mutant: an entry is linked to the next newer one.
Serialize_LinksForward(buf) ==
  [cpos |-> IF buf = <<>> THEN 0 ELSE 1,
   cells |-> [o \in {Offset(buf, i) : i \in DOMAIN buf} |->
     LET i == CHOOSE i \in DOMAIN buf : Offset(buf, i) = o
     IN [entry |-> buf[i],
         prev |-> IF i > 1 THEN Offset(buf, i - 1) ELSE 0]]]

\* The offsets are worked out first, then the entries written with them.
Serialize(buf) ==
  [cpos |-> IF buf = <<>> THEN 0 ELSE 1,
   cells |-> [o \in {Offset(buf, i) : i \in DOMAIN buf} |->
     LET i == CHOOSE i \in DOMAIN buf : Offset(buf, i) = o
     IN [entry |-> buf[i],
         prev |-> IF i < Len(buf) THEN Offset(buf, i + 1) ELSE 0]]]

\* The walk along prev from cpos; it stops at 0, at an offset already
\* visited, and where prev leads forward again up to the start.
Deserialize(img) ==
  LET walk[n \in 0..Capacity] ==
        IF n = 0 THEN <<img.cpos>>
        ELSE LET w == walk[n - 1]
                 at == Last(w)
             IN IF at = 0 THEN w
                ELSE LET prev == img.cells[at].prev
                     IN IF (at < prev /\ prev <= img.cpos) \/ prev \in Range(w)
                        THEN Append(w, 0) ELSE Append(w, prev)
      offsets == SelectSeq(walk[Capacity], LAMBDA o : o # 0)
  IN [i \in DOMAIN offsets |-> img.cells[offsets[i]].entry]

-----------------------------------------------------------------------------
(* The log of a daemon. *)

\* Mutant: an entry of the second last seen is never a duplicate.
IsNotDuplicate_SameSecond(seen, e) == e.time >= seen[e.node].time

\* is_not_duplicate: newer than everything seen from the entry's node.
IsNotDuplicate(seen, e) ==
  \/ e.time > seen[e.node].time
  \/ e.time = seen[e.node].time /\ e.uid > seen[e.node].uid

See(seen, e) ==
  IF IsNotDuplicate(seen, e)
  THEN [seen EXCEPT ![e.node] = [time |-> e.time, uid |-> e.uid]]
  ELSE seen

NothingSeen == [o \in Origins |-> [time |-> 0, uid |-> 0]]

LogInit ==
  /\ buffer = [n \in LogNodes |-> <<>>]
  /\ dedup = [n \in LogNodes |-> NothingSeen]
  /\ uidCounter = [n \in LogNodes |-> 0]
  /\ packed = [n \in LogNodes |-> [t \in Threads |-> NoEntry]]
  /\ clock = 1
  /\ wire = <<>>
  /\ heard = [n \in LogNodes |-> 0]
  /\ image = [n \in LogNodes |-> NoEntry]
  /\ merged = {}
  /\ rounds = 0
  /\ inserted = FALSE
  /\ entries = 0
  /\ restarts = 0

\* pack: the message is cut to the greatest entry, the identifier is drawn.
Pack(n, t, m) ==
  LET uid == (uidCounter[n] + 1) % UidLimit
  IN /\ packed[n][t] = NoEntry
     /\ uidCounter' = [uidCounter EXCEPT ![n] = uid]
     /\ packed' = [packed EXCEPT ![n][t] =
          [time |-> m.time, node |-> m.node, uid |-> uid, text |-> m.text,
           size |-> IF m.size > MaxEntrySize THEN MaxEntrySize ELSE m.size]]

Message(node, size) ==
  [time |-> clock, node |-> node, text |-> entries, size |-> size]

\* A LOG request over IPC (add_cluster_log), on any idle thread ...
LogLocally(n, t, size) ==
  /\ t = IF packed[n]["ipc1"] = NoEntry THEN "ipc1" ELSE "ipc2"
  /\ Pack(n, t, Message(n, size))
  /\ entries' = entries + 1
  /\ UNCHANGED <<buffer, dedup, clock, wire, heard, image, merged, rounds,
                 inserted, restarts>>

\* ... and a LOG message of the group: time, node and text, no identifier.
ForeignLog(size) ==
  /\ wire' = Append(wire, Message(Foreign, size))
  /\ entries' = entries + 1
  /\ UNCHANGED <<process, clock, heard, image, merged, rounds, inserted,
                 restarts>>

Synchronising(n) == image[n] # NoEntry /\ n \notin merged

\* deliver_message; deliveries wait while the daemon synchronises.
DeliverLog(n) ==
  /\ ~Synchronising(n)
  /\ heard[n] < Len(wire)
  /\ Pack(n, "deliver", wire[heard[n] + 1])
  /\ heard' = [heard EXCEPT ![n] = @ + 1]
  /\ UNCHANGED <<buffer, dedup, clock, wire, image, merged, rounds, inserted,
                 entries, restarts>>

\* insert, under the lock.
Insert(n, t) ==
  LET e == packed[n][t]
  IN /\ e # NoEntry
     /\ packed' = [packed EXCEPT ![n][t] = NoEntry]
     /\ dedup' = [dedup EXCEPT ![n] = See(@, e)]
     /\ buffer' = [buffer EXCEPT ![n] =
          IF IsNotDuplicate(dedup[n], e) THEN AddEntry(@, e) ELSE @]
     /\ inserted' = TRUE
     /\ UNCHANGED <<uidCounter, clock, wire, heard, image, merged, rounds,
                    entries, restarts>>

LogTick ==
  /\ clock < MaxLogTime
  /\ clock' = clock + 1
  /\ UNCHANGED <<process, wire, heard, image, merged, rounds, inserted,
                 entries, restarts>>

-----------------------------------------------------------------------------
(* Synchronisation. *)

\* A change of the group starts a round over.
BeginRound ==
  /\ rounds < MaxRounds
  /\ rounds' = rounds + 1
  /\ image' = [n \in LogNodes |-> NoEntry]
  /\ merged' = {}
  /\ inserted' = FALSE

ConfigurationChange ==
  /\ BeginRound
  /\ UNCHANGED <<process, clock, wire, heard, entries, restarts>>

\* The process ends and a new one joins the group.
Restart(n) ==
  /\ restarts < MaxRestarts
  /\ restarts' = restarts + 1
  /\ BeginRound
  /\ buffer' = [buffer EXCEPT ![n] = <<>>]
  /\ dedup' = [dedup EXCEPT ![n] = NothingSeen]
  /\ uidCounter' = [uidCounter EXCEPT ![n] = 0]
  /\ packed' = [packed EXCEPT ![n] = [t \in Threads |-> NoEntry]]
  /\ heard' = [heard EXCEPT ![n] = Len(wire)]
  /\ UNCHANGED <<clock, wire, entries>>

CanSend(n) ==
  /\ rounds > 0
  /\ image[n] = NoEntry
  /\ packed[n]["deliver"] = NoEntry

\* get_state
GetState(n) ==
  LET sorted == SortBuffer(buffer[n])
  IN /\ CanSend(n)
     /\ HasRoom(sorted)
     /\ image' = [image EXCEPT ![n] = Serialize(sorted)]
     /\ UNCHANGED <<process, clock, wire, heard, merged, rounds, inserted,
                    entries, restarts>>

\* get_state of a buffer too full for its image: offsets[i] is out of range,
\* and a panic below a callback of the C library aborts the process.
GetStatePanics(n) ==
  /\ CanSend(n)
  /\ ~HasRoom(SortBuffer(buffer[n]))
  /\ Restart(n)

\* merge: the first entry of a key is kept.
KeepFirst(es, e) ==
  IF \E d \in es : Key(d) = Key(e) THEN es ELSE es \cup {e}

\* The logs a daemon merges, its own first.
LogsOf(n) ==
  LET peers == SetToSortSeq(LogNodes, <)
  IN buffer[n] \o FlattenSeq([i \in DOMAIN peers |-> Deserialize(image[peers[i]])])

\* process_state_update, merge_cluster_log_states
Merge(n) ==
  /\ \A m \in LogNodes : image[m] # NoEntry
  /\ n \notin merged
  /\ buffer' = [buffer EXCEPT ![n] = Filled(FoldLeft(KeepFirst, {}, LogsOf(n)))]
  /\ dedup' = [dedup EXCEPT ![n] = FoldLeft(See, NothingSeen, LogsOf(n))]
  /\ merged' = merged \cup {n}
  /\ UNCHANGED <<uidCounter, packed, clock, wire, heard, image, rounds,
                 inserted, entries, restarts>>

LogNext ==
  \/ /\ entries < MaxEntries
     /\ \E size \in MessageSizes[entries + 1] :
          \/ ForeignLog(size)
          \/ \E n \in LogNodes, t \in Threads : LogLocally(n, t, size)
  \/ \E n \in LogNodes : DeliverLog(n) \/ GetState(n) \/ GetStatePanics(n)
                        \/ Merge(n) \/ Restart(n)
  \/ \E n \in LogNodes, t \in Threads : Insert(n, t)
  \/ LogTick
  \/ ConfigurationChange

LogSpec == LogInit /\ [][LogNext]_logVars

-----------------------------------------------------------------------------
(* Properties. *)

\* The entries of one node are strictly ordered in every log, so that none
\* is there twice, and the duplicate table (is_not_duplicate) is at least as
\* new as every entry: through threads that insert in another order than
\* they packed, merges, restarts and an identifier that wraps around.
LogIsOrdered ==
  \A n \in LogNodes :
    LET buf == buffer[n]
    IN /\ \A i, j \in DOMAIN buf :
            i < j /\ buf[i].node = buf[j].node => Before(Key(buf[j]), Key(buf[i]))
       /\ \A i \in DOMAIN buf : ~IsNotDuplicate(dedup[n], buf[i])

\* A key names one entry.  Not every reachable state has this: a LOG message
\* carries no identifier, so every receiver draws its own for it, and after a
\* restart the identifiers start over.
KeysAreUnambiguous ==
  LET sent == UNION {Range(Deserialize(image[n])) : n \in LogNodes}
  IN \A d, e \in sent : Key(d) = Key(e) => d = e

\* What merge is for: of all entries in the logs that it is given, the newest
\* that fit are kept, and no older one in place of a newer one; the daemons
\* that merged have the same log and drop the same duplicates.
MergeKeepsNewest ==
  merged # {} /\ ~inserted /\ KeysAreUnambiguous =>
    LET sent == UNION {Range(Deserialize(image[n])) : n \in LogNodes}
        newer(e) == {d \in sent : ~Before(Key(d), Key(e))}
        fits(e) == MapThenSumSet(LAMBDA d : d.size, newer(e)) <= Capacity
    IN \A m, n \in merged :
         /\ Range(buffer[n]) = {e \in sent : fits(e)}
         /\ buffer[m] = buffer[n]
         /\ dedup[m] = dedup[n]

\* deserialize_binary reads the whole of what serialize_binary wrote: a log
\* sent during a synchronisation loses no entry on the way.
ImageReadsBack ==
  \A n \in LogNodes :
    image[n] # NoEntry /\ merged = {} /\ ~inserted
      => /\ Deserialize(image[n]) = SortBuffer(buffer[n])
         /\ Range(Deserialize(image[n])) = Range(buffer[n])
=============================================================================
