------------------------------- MODULE RingBuffer -------------------------------
(***************************************************************************)
(* The shared-memory ring buffer of the IPC layer (pmxcfs-ipc/src/         *)
(* ringbuffer.rs): one writer process and one reader process, chunks of    *)
(* [size][magic][data] in a circle of 32-bit words, and a semaphore that   *)
(* counts announced chunks.  Every load and store of shared memory is a    *)
(* step of its own; stores become visible in program order, as on the      *)
(* platforms the daemon is built for.                                      *)
(***************************************************************************)
EXTENDS Naturals, Sequences

CONSTANTS
  WordSize,    \* size of the ring in words, at least a page in the code
  Messages,    \* the messages that are sent
  Length,      \* length of each message in bytes
  Reserve      \* bytes of the ring that read_chunk leaves out, 64 in the code

CHUNK_HEADER_WORDS == 2
CHUNK_MARGIN == 4 * (CHUNK_HEADER_WORDS + 1)

ASSUME RingBufferAssumption ==
  /\ WordSize \in Nat /\ WordSize > CHUNK_HEADER_WORDS + 1
  /\ Length \in [Messages -> Nat \ {0}]
  /\ Reserve \in Nat

VARIABLES
  write_pt, read_pt,   \* word indices in the shared header
  data,                \* the words of the ring
  sem,                 \* value of posix_sem
  ref_count,           \* processes attached to the ring
  fc,                  \* flow control word
  wpc, wmsg, wlen,     \* writer: program counter, message, data words copied
  blocking,            \* writer: called send() rather than try_send()
  start,               \* writer: the value of write_pt it works with
  rpc, rsize, rmagic,  \* reader: program counter, size and magic it loaded
  buf,                 \* reader: the data words copied so far
  got,                 \* reader: what recv() returned last
  queue                \* history: the chunks between read_pt and write_pt

shared == <<write_pt, read_pt, data, sem, ref_count, fc>>
writer == <<wpc, wmsg, wlen, blocking, start>>
reader == <<rpc, rsize, rmagic, buf, got>>
vars == <<shared, writer, reader, queue>>

Indices == 0 .. WordSize - 1

(* The words of the ring, tagged by what was stored there. *)
SizeWord(n) == <<"size", n, 0>>
MagicWord(s) == <<"magic", s, 0>>
DataWord(m, k) == <<"data", m, k>>

CHUNK_MAGIC == MagicWord("chunk")
CHUNK_MAGIC_DEAD == MagicWord("dead")
CHUNK_MAGIC_ALLOC == MagicWord("alloc")

Words ==
  ({"size"} \X Nat \X {0})
    \cup ({"magic"} \X {"chunk", "dead", "alloc"} \X {0})
    \cup ({"data"} \X Messages \X Nat)

(* Words taken by n bytes, rounded up to the word boundary. *)
DataWords(n) == (n + 3) \div 4

ChunkWords(m) == CHUNK_HEADER_WORDS + DataWords(Length[m])

Data(m) == [k \in 1 .. DataWords(Length[m]) |-> DataWord(m, k)]

Wrap(i) == i % WordSize

chunk_step(pt, bytes) == Wrap(pt + CHUNK_HEADER_WORDS + DataWords(bytes))

space_free_words ==
  IF write_pt >= read_pt
  THEN IF write_pt = read_pt THEN WordSize ELSE (read_pt + WordSize - write_pt) - 1
  ELSE (read_pt - write_pt) - 1

chunk_fits(m) == 4 * space_free_words >= Length[m] + CHUNK_MARGIN

MaxChunkSize ==
  LET overhead == 4 * CHUNK_HEADER_WORDS + Reserve
  IN  IF 4 * WordSize >= overhead THEN 4 * WordSize - overhead ELSE 0

(* init_in_place(): the shared header. *)
InitHeader == write_pt = 0 /\ read_pt = 0 /\ ref_count = 1 /\ sem = 0

(* new(): a zeroed ring with a sentinel at its first word, which is the word after
   the last one in the double mapping.  The other process has yet to attach. *)
Init ==
  /\ InitHeader
  /\ data = [i \in Indices |-> SizeWord(IF i = 0 THEN 5 ELSE 0)]
  /\ fc = 0
  /\ wpc = "detached" /\ wmsg \in Messages /\ wlen = 0 /\ blocking = FALSE /\ start = 0
  /\ rpc = "wait" /\ rsize = 0 /\ rmagic = CHUNK_MAGIC_DEAD /\ buf = <<>> /\ got = <<>>
  /\ queue = <<>>

---------------------------------------------------------------------------------
(* The writer. *)

WriterGoes(from, to) == wpc = from /\ wpc' = to

(* The client opens the ring it was told of and counts itself in. *)
Attach ==
  /\ WriterGoes("detached", "idle")
  /\ ref_count' = ref_count + 1
  /\ UNCHANGED <<write_pt, read_pt, data, sem, fc, wmsg, wlen, blocking, start, reader, queue>>

(* A libqb client checks the flow control word and calls try_send's counterpart;
   the response sender of the daemon calls send. *)
BeginTrySend(m) ==
  /\ WriterGoes("idle", "check") /\ fc = 0
  /\ wmsg' = m /\ blocking' = FALSE
  /\ UNCHANGED <<shared, wlen, start, reader, queue>>

BeginSend(m) ==
  /\ WriterGoes("idle", "check")
  /\ wmsg' = m /\ blocking' = TRUE
  /\ UNCHANGED <<shared, wlen, start, reader, queue>>

(* chunk_fits loads both pointers and write_chunk takes write_pt, which only the
   writer stores. *)
CheckSpace ==
  /\ chunk_fits(wmsg)
  /\ WriterGoes("check", "clear")
  /\ start' = write_pt
  /\ UNCHANGED <<shared, wmsg, wlen, blocking, reader, queue>>

(* try_send gives up; send waits for space_available, which only recv on the same
   handle notifies, so nothing in the other process wakes it. *)
InsufficientSpace ==
  /\ ~chunk_fits(wmsg)
  /\ WriterGoes("check", IF blocking THEN "notified" ELSE "idle")
  /\ UNCHANGED <<shared, wmsg, wlen, blocking, start, reader, queue>>

Store(i, w) == data' = [data EXCEPT ![i] = w]

WriteZeroSize ==
  /\ WriterGoes("clear", "alloc")
  /\ Store(start, SizeWord(0))
  /\ UNCHANGED <<write_pt, read_pt, sem, ref_count, fc, wmsg, wlen, blocking, start, reader, queue>>

WriteAllocMagic ==
  /\ WriterGoes("alloc", "copy")
  /\ Store(Wrap(start + 1), CHUNK_MAGIC_ALLOC)
  /\ wlen' = 0
  /\ UNCHANGED <<write_pt, read_pt, sem, ref_count, fc, wmsg, blocking, start, reader, queue>>

WriteData_RestartsAtWrap ==
  LET at == Wrap(start + CHUNK_HEADER_WORDS) + wlen
      k  == IF at >= WordSize THEN at - WordSize + 1 ELSE wlen + 1
  IN  /\ wpc = "copy" /\ wlen < DataWords(Length[wmsg])
      /\ Store(Wrap(at), Data(wmsg)[k])
      /\ wlen' = wlen + 1
      /\ UNCHANGED <<write_pt, read_pt, sem, ref_count, fc, wpc, wmsg, blocking, start, reader, queue>>

(* copy_nonoverlapping, in one or two runs, word by word. *)
WriteData ==
  /\ wpc = "copy" /\ wlen < DataWords(Length[wmsg])
  /\ Store(Wrap(start + CHUNK_HEADER_WORDS + wlen), Data(wmsg)[wlen + 1])
  /\ wlen' = wlen + 1
  /\ UNCHANGED <<write_pt, read_pt, sem, ref_count, fc, wpc, wmsg, blocking, start, reader, queue>>

WriteSize ==
  /\ wlen = DataWords(Length[wmsg])
  /\ WriterGoes("copy", "advance")
  /\ Store(start, SizeWord(Length[wmsg]))
  /\ UNCHANGED <<write_pt, read_pt, sem, ref_count, fc, wmsg, wlen, blocking, start, reader, queue>>

StoreWritePt_Announces ==
  /\ WriterGoes("advance", "magic")
  /\ write_pt' = chunk_step(start, Length[wmsg])
  /\ queue' = Append(queue, [at |-> start, msg |-> wmsg])
  /\ sem' = sem + 1
  /\ UNCHANGED <<read_pt, data, ref_count, fc, wmsg, wlen, blocking, start, reader>>

StoreWritePt ==
  /\ WriterGoes("advance", "magic")
  /\ write_pt' = chunk_step(start, Length[wmsg])
  /\ queue' = Append(queue, [at |-> start, msg |-> wmsg])
  /\ UNCHANGED <<read_pt, data, sem, ref_count, fc, wmsg, wlen, blocking, start, reader>>

WriteMagic ==
  /\ WriterGoes("magic", "post")
  /\ Store(Wrap(start + 1), CHUNK_MAGIC)
  /\ UNCHANGED <<write_pt, read_pt, sem, ref_count, fc, wmsg, wlen, blocking, start, reader, queue>>

Post ==
  /\ WriterGoes("post", "idle")
  /\ sem' = sem + 1
  /\ wlen' = 0 /\ start' = 0 /\ blocking' = FALSE
  /\ UNCHANGED <<write_pt, read_pt, data, ref_count, fc, wmsg, reader, queue>>

(* The writing process closes the ring between two messages. *)
Detach ==
  /\ WriterGoes("idle", "gone")
  /\ ref_count' = ref_count - 1
  /\ UNCHANGED <<write_pt, read_pt, data, sem, fc, wmsg, wlen, blocking, start, reader, queue>>

---------------------------------------------------------------------------------
(* The reader. *)

ReaderGoes(from, to) == rpc = from /\ rpc' = to

(* The variables of read_chunk before they are assigned. *)
ReaderLocals == rsize' = 0 /\ rmagic' = CHUNK_MAGIC_DEAD /\ buf' = <<>>

(* PosixSem::wait, on a thread of the blocking pool.  A wait cut short by a signal
   would make recv return an error, which ends the connection; the handlers of the
   daemon are tokio's and let the kernel resume the wait, so that path is left out. *)
SemWait ==
  /\ sem > 0
  /\ ReaderGoes("wait", "load")
  /\ sem' = sem - 1
  /\ UNCHANGED <<write_pt, read_pt, data, ref_count, fc, rsize, rmagic, buf, got, writer, queue>>

LoadPointers_IgnoresWrap ==
  /\ ReaderGoes("load", IF read_pt >= write_pt THEN "wait" ELSE "magic")
  /\ UNCHANGED <<shared, rsize, rmagic, buf, got, writer, queue>>

(* An empty ring is a spurious wakeup: recv warns and waits again. *)
LoadPointers ==
  /\ ReaderGoes("load", IF read_pt = write_pt THEN "wait" ELSE "magic")
  /\ UNCHANGED <<shared, rsize, rmagic, buf, got, writer, queue>>

LoadMagic ==
  /\ ReaderGoes("magic", "size")
  /\ rmagic' = data[Wrap(read_pt + 1)]
  /\ UNCHANGED <<shared, rsize, buf, got, writer, queue>>

ChunkIsValid(word) ==
  /\ word[1] = "size" /\ word[2] # 0 /\ word[2] <= MaxChunkSize
  /\ rmagic = CHUNK_MAGIC

LoadSize ==
  LET word == data[read_pt]
  IN  /\ ReaderGoes("size", IF ChunkIsValid(word) THEN "copy" ELSE "error")
      /\ rsize' = IF word[1] = "size" THEN word[2] ELSE 0
      /\ UNCHANGED <<shared, rmagic, buf, got, writer, queue>>

ReadData ==
  /\ rpc = "copy" /\ Len(buf) < DataWords(rsize)
  /\ buf' = Append(buf, data[Wrap(read_pt + CHUNK_HEADER_WORDS + Len(buf))])
  /\ UNCHANGED <<shared, rpc, rsize, rmagic, got, writer, queue>>

ClearSize ==
  /\ Len(buf) = DataWords(rsize)
  /\ ReaderGoes("copy", "dead")
  /\ Store(read_pt, SizeWord(0))
  /\ UNCHANGED <<write_pt, read_pt, sem, ref_count, fc, rsize, rmagic, buf, got, writer, queue>>

WriteDeadMagic ==
  /\ ReaderGoes("dead", "advance")
  /\ Store(Wrap(read_pt + 1), CHUNK_MAGIC_DEAD)
  /\ UNCHANGED <<write_pt, read_pt, sem, ref_count, fc, rsize, rmagic, buf, got, writer, queue>>

StoreReadPt ==
  /\ ReaderGoes("advance", "signal")
  /\ read_pt' = chunk_step(read_pt, rsize)
  /\ queue' = Tail(queue)
  /\ UNCHANGED <<write_pt, data, sem, ref_count, fc, rsize, rmagic, buf, got, writer>>

(* The flow control word is cleared only while both sides are attached. *)
SignalFlowControl ==
  /\ ReaderGoes("signal", "return")
  /\ fc' = IF ref_count = 2 THEN 0 ELSE fc
  /\ UNCHANGED <<write_pt, read_pt, data, sem, ref_count, rsize, rmagic, buf, got, writer, queue>>

(* recv returns, and its caller sets the flow control word from the depth of the
   work queue: OK, SLOW_DOWN or STOP. *)
Return(depth) ==
  /\ ReaderGoes("return", "wait")
  /\ got' = buf
  /\ fc' = depth
  /\ ReaderLocals
  /\ UNCHANGED <<write_pt, read_pt, data, sem, ref_count, writer, queue>>

---------------------------------------------------------------------------------
WriterStep ==
  \/ \E m \in Messages : BeginTrySend(m) \/ BeginSend(m)
  \/ Attach \/ CheckSpace \/ InsufficientSpace \/ WriteZeroSize \/ WriteAllocMagic \/ WriteData
  \/ WriteSize \/ StoreWritePt \/ WriteMagic \/ Post \/ Detach

ReaderStep ==
  \/ SemWait \/ LoadPointers \/ LoadMagic \/ LoadSize \/ ReadData \/ ClearSize
  \/ WriteDeadMagic \/ StoreReadPt \/ SignalFlowControl
  \/ \E depth \in 0 .. 2 : Return(depth)

Next == WriterStep \/ ReaderStep

Spec == Init /\ [][Next]_vars

(* The daemon's runtime keeps polling the task that reads; nothing is assumed of
   the writer, which may stop (or be killed) between any two steps. *)
FairSpec == Spec /\ WF_vars(ReaderStep)

---------------------------------------------------------------------------------
Chunks == [at : Indices, msg : Messages]

TypeOK ==
  /\ write_pt \in Indices /\ read_pt \in Indices
  /\ data \in [Indices -> Words]
  /\ sem \in Nat /\ ref_count \in 1 .. 2 /\ fc \in 0 .. 2
  /\ wpc \in {"detached", "idle", "check", "clear", "alloc", "copy", "advance", "magic", "post", "notified", "gone"}
  /\ wmsg \in Messages /\ wlen \in Nat /\ blocking \in BOOLEAN /\ start \in Indices
  /\ rpc \in {"wait", "load", "magic", "size", "copy", "dead", "advance", "signal", "return", "error"}
  /\ rsize \in Nat /\ rmagic \in Words /\ buf \in Seq(Words) /\ got \in Seq(Words)
  /\ queue \in Seq(Chunks)

(* The reader is between sem_wait and the store of read_pt. *)
HoldsChunk == rpc \in {"load", "magic", "size", "copy", "dead", "advance", "error"}

(* The words the reader may load or store, and those the writer may store. *)
ChunkAt(at, m) == {Wrap(at + k) : k \in 0 .. ChunkWords(m) - 1}

WriterOwns ==
  IF wpc \in {"clear", "alloc", "copy", "advance"} THEN ChunkAt(start, wmsg) ELSE {}

\* What the writer fills never overlaps a chunk that is published and not yet
\* reclaimed: the arithmetic of space_free_words, CHUNK_MARGIN and chunk_step
\* (ringbuffer.rs:418-448) keeps a full ring apart from an empty one.
UnreadIsNotOverwritten ==
  \A i \in 1 .. Len(queue) : WriterOwns \cap ChunkAt(queue[i].at, queue[i].msg) = {}

\* The reader takes an error only from a chunk that is longer than read_chunk
\* admits: it never sees an empty ring, a half-written header or a stale magic
\* (ringbuffer.rs:558-609).
ReaderFailsOnlyOnLong ==
  /\ rpc = "load" => read_pt # write_pt
  /\ rpc = "error" => Length[queue[1].msg] > MaxChunkSize

\* The semaphore counts exactly the chunks that are complete and that the reader
\* has not claimed (ringbuffer.rs:519 and 1032).
SemaphoreCountsChunks ==
  sem + (IF HoldsChunk THEN 1 ELSE 0) + (IF wpc \in {"magic", "post"} THEN 1 ELSE 0)
    = Len(queue)

---------------------------------------------------------------------------------
(* The ring as a channel: published chunks are on the way; a message is received
   when its chunk is reclaimed, with the words the reader has copied. *)
Channel == INSTANCE Fifo WITH
  Values <- {Data(m) : m \in Messages},
  Capacity <- (WordSize - 1) \div (CHUNK_HEADER_WORDS + 1),
  Nothing <- <<>>,
  chan <- [i \in 1 .. Len(queue) |-> Data(queue[i].msg)],
  out <- IF rpc \in {"signal", "return"} THEN buf ELSE got

\* The ring implements a bounded first-in first-out channel: every message that
\* recv returns is, word for word, the oldest one that write_chunk published
\* (ringbuffer.rs:463-660).
ImplementsFifo == Channel!Spec

\* A message that is announced by sem_post is returned by recv, unless it is too
\* long for the reader (ringbuffer.rs:1026-1052).
AnnouncedIsReceived == sem > 0 ~> rpc \in {"return", "error"}
=================================================================================
