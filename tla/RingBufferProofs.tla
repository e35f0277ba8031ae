---------------------------- MODULE RingBufferProofs ----------------------------
(***************************************************************************)
(* The ring buffer is a bounded FIFO channel, for a ring of any size and   *)
(* messages of any number and length.  The argument measures positions by  *)
(* their distance from read_pt: the chunks of the history variable queue   *)
(* follow one another from distance 0, the writer's chunk lies beyond the  *)
(* last of them, and all of it is less than once around the ring.          *)
(***************************************************************************)
EXTENDS RingBuffer, TLAPS

\* Words from r to a, going up and around.
Dist(r, a) == IF a >= r THEN a - r ELSE a + WordSize - r

DataHolds(at, m, n) == \A k \in 1 .. n : data[Wrap(at + 1 + k)] = DataWord(m, k)

\* The chunks of queue lie one after the other between read_pt and write_pt.
Layout ==
  /\ queue = <<>> => read_pt = write_pt
  /\ queue # <<>> => queue[1].at = read_pt
  /\ \A i \in 1 .. Len(queue) :
       /\ chunk_step(queue[i].at, Length[queue[i].msg])
            = IF i = Len(queue) THEN write_pt ELSE queue[i + 1].at
       /\ Dist(read_pt, queue[i].at) + ChunkWords(queue[i].msg) <= Dist(read_pt, write_pt)
       /\ Dist(read_pt, queue[i].at) + 3 * (Len(queue) - i + 1) <= Dist(read_pt, write_pt)
  /\ \A i, j \in 1 .. Len(queue) :
       i < j => Dist(read_pt, queue[i].at) + ChunkWords(queue[i].msg) <= Dist(read_pt, queue[j].at)

\* The header counts the writer while it is attached.
RefCount == ref_count = IF wpc \in {"detached", "gone"} THEN 1 ELSE 2

Fills == {"clear", "alloc", "copy", "advance"}

\* The writer's chunk starts at write_pt and ends before read_pt comes round.
WriterFits ==
  wpc \in Fills =>
    start = write_pt /\ Dist(read_pt, write_pt) + ChunkWords(wmsg) < WordSize

\* How far the writer's chunk is filled.
WriterData ==
  /\ wpc = "copy" => wlen <= DataWords(Length[wmsg]) /\ DataHolds(start, wmsg, wlen)
  /\ wpc = "advance" =>
       DataHolds(start, wmsg, DataWords(Length[wmsg])) /\ data[start] = SizeWord(Length[wmsg])
  /\ wpc = "magic" => queue # <<>> /\ start = queue[Len(queue)].at

\* A published chunk holds its message; the writer has yet to set the magic of the
\* last one, and the reader may have cleared the header of the first one.
Contents ==
  \A i \in 1 .. Len(queue) :
    /\ (i = 1 /\ rpc \in {"dead", "advance"}) \/ data[queue[i].at] = SizeWord(Length[queue[i].msg])
    /\ \/ i = 1 /\ rpc = "advance"
       \/ i = Len(queue) /\ wpc = "magic"
       \/ data[Wrap(queue[i].at + 1)] = CHUNK_MAGIC
    /\ DataHolds(queue[i].at, queue[i].msg, DataWords(Length[queue[i].msg]))

\* What the reader has loaded comes from the first chunk.
ReaderData ==
  /\ rpc = "size" => rmagic = CHUNK_MAGIC
  /\ rpc \in {"copy", "dead", "advance"} => rsize = Length[queue[1].msg]
  /\ rpc \in {"wait", "load", "magic", "size"} => buf = <<>>
  /\ rpc = "copy" =>
       /\ Len(buf) <= DataWords(rsize)
       /\ \A k \in 1 .. Len(buf) : buf[k] = DataWord(queue[1].msg, k)
  /\ rpc \in {"dead", "advance"} => buf = Data(queue[1].msg)
  /\ rpc = "error" => Length[queue[1].msg] > MaxChunkSize

IInv ==
  TypeOK /\ RefCount /\ SemaphoreCountsChunks /\ Layout /\ WriterFits /\ WriterData /\ Contents /\ ReaderData

---------------------------------------------------------------------------------
\* A distance is less than one round and tells indices apart.
LEMMA DistRange ==
  ASSUME NEW r \in Indices, NEW a \in Indices
  PROVE  Dist(r, a) \in Nat /\ Dist(r, a) < WordSize
  BY RingBufferAssumption DEF RingBufferAssumption, Indices, Dist

\* Going n words on adds n to the distance, within the round.
LEMMA DistAdd ==
  ASSUME NEW r \in Indices, NEW a \in Indices, NEW n \in Nat, Dist(r, a) + n < WordSize
  PROVE  Wrap(a + n) \in Indices /\ Dist(r, Wrap(a + n)) = Dist(r, a) + n
<1>1. a + n < 2 * WordSize /\ a + n \in Nat
  BY RingBufferAssumption DEF RingBufferAssumption, Indices, Dist
<1>2. Wrap(a + n) = IF a + n < WordSize THEN a + n ELSE a + n - WordSize
  BY <1>1, RingBufferAssumption DEF RingBufferAssumption, CHUNK_HEADER_WORDS, Indices, Wrap
<1> QED
  BY <1>1, <1>2, RingBufferAssumption DEF RingBufferAssumption, Indices, Dist

\* Moving the origin n words on takes n off the distance of what lies beyond.
LEMMA DistShift ==
  ASSUME NEW r \in Indices, NEW a \in Indices, NEW n \in Nat, n <= Dist(r, a)
  PROVE  Wrap(r + n) \in Indices /\ Dist(Wrap(r + n), a) = Dist(r, a) - n
<1>1. r + n < 2 * WordSize /\ r + n \in Nat
  BY RingBufferAssumption DEF RingBufferAssumption, Indices, Dist
<1>2. Wrap(r + n) = IF r + n < WordSize THEN r + n ELSE r + n - WordSize
  BY <1>1, RingBufferAssumption DEF RingBufferAssumption, CHUNK_HEADER_WORDS, Indices, Wrap
<1> QED
  BY <1>1, <1>2, RingBufferAssumption DEF RingBufferAssumption, Indices, Dist

\* Bytes are rounded up to words.
LEMMA DataWordsValue ==
  ASSUME NEW n \in Nat \ {0}
  PROVE  DataWords(n) \in Nat \ {0} /\ 4 * DataWords(n) <= n + 3
  BY DEF DataWords

\* A chunk has its header and at least one word of data.
LEMMA ChunkWordsValue ==
  ASSUME NEW m \in Messages
  PROVE  /\ Length[m] \in Nat \ {0} /\ DataWords(Length[m]) \in Nat \ {0}
         /\ ChunkWords(m) = DataWords(Length[m]) + 2
         /\ ChunkWords(m) \in Nat /\ ChunkWords(m) >= 3
         /\ 4 * ChunkWords(m) <= Length[m] + 11
<1>1. Length[m] \in Nat \ {0}
  BY RingBufferAssumption, Zenon DEF RingBufferAssumption
<1> QED
  BY <1>1, DataWordsValue DEF ChunkWords, CHUNK_HEADER_WORDS

\* A message that passes chunk_fits leaves at least one word free.
LEMMA FitsMeansSpace ==
  ASSUME TypeOK, chunk_fits(wmsg)
  PROVE  Dist(read_pt, write_pt) + ChunkWords(wmsg) < WordSize
<1>1. /\ read_pt \in Indices /\ write_pt \in Indices /\ wmsg \in Messages
  BY Zenon DEF TypeOK
<1>2. /\ ChunkWords(wmsg) \in Nat /\ Length[wmsg] \in Nat
      /\ 4 * ChunkWords(wmsg) <= Length[wmsg] + 11
  BY <1>1, ChunkWordsValue, Zenon
<1>3. 4 * space_free_words >= Length[wmsg] + 12
  BY <1>1 DEF chunk_fits, CHUNK_MARGIN, CHUNK_HEADER_WORDS
<1> QED
  BY <1>1, <1>2, <1>3, RingBufferAssumption
     DEF RingBufferAssumption, Indices, Dist, space_free_words

\* The components of a chunk.
LEMMA ChunkType ==
  ASSUME TypeOK, NEW i \in 1 .. Len(queue)
  PROVE  queue[i] \in Chunks /\ queue[i].at \in Indices /\ queue[i].msg \in Messages
<1>1. queue \in Seq(Chunks)
  BY Zenon DEF TypeOK
<1>2. queue[i] \in Chunks
  BY <1>1
<1> QED
  BY <1>2, Zenon DEF Chunks

\* Word k of chunk i lies k words beyond its start and before write_pt.
LEMMA ChunkPosition ==
  ASSUME TypeOK, Layout, NEW i \in 1 .. Len(queue), NEW k \in Nat, k < ChunkWords(queue[i].msg)
  PROVE  /\ queue[i].at \in Indices /\ queue[i].msg \in Messages
         /\ Wrap(queue[i].at + k) \in Indices
         /\ Dist(read_pt, Wrap(queue[i].at + k)) = Dist(read_pt, queue[i].at) + k
         /\ Dist(read_pt, Wrap(queue[i].at + k)) < Dist(read_pt, write_pt)
<1>1. queue[i].at \in Indices /\ queue[i].msg \in Messages
  BY ChunkType, Zenon
<1>2. read_pt \in Indices /\ write_pt \in Indices
  BY Zenon DEF TypeOK
<1>3. ChunkWords(queue[i].msg) \in Nat
  BY <1>1, ChunkWordsValue, Zenon
<1>4. Dist(read_pt, queue[i].at) \in Nat
  BY <1>1, <1>2, DistRange, Zenon
<1>5. Dist(read_pt, write_pt) \in Nat /\ Dist(read_pt, write_pt) < WordSize
  BY <1>2, DistRange, Zenon
<1>6. Dist(read_pt, queue[i].at) + ChunkWords(queue[i].msg) <= Dist(read_pt, write_pt)
  BY Zenon DEF Layout
<1>7. Dist(read_pt, queue[i].at) + k < Dist(read_pt, write_pt)
  BY <1>3, <1>4, <1>5, <1>6
<1>8. Dist(read_pt, queue[i].at) + k < WordSize
  BY <1>4, <1>5, <1>7, RingBufferAssumption DEF RingBufferAssumption
<1> QED
  BY <1>1, <1>2, <1>7, <1>8, DistAdd, Zenon

\* An index is in the ring after wrapping.
LEMMA WrapIndex ==
  ASSUME NEW x \in Nat
  PROVE  Wrap(x) \in Indices
  BY RingBufferAssumption DEF RingBufferAssumption, CHUNK_HEADER_WORDS, Wrap, Indices

\* What is stored in the ring are words.
LEMMA WordType ==
  /\ \A n \in Nat : SizeWord(n) \in Words
  /\ CHUNK_MAGIC \in Words /\ CHUNK_MAGIC_DEAD \in Words /\ CHUNK_MAGIC_ALLOC \in Words
  /\ \A m \in Messages, k \in Nat : DataWord(m, k) \in Words
  BY Zenon DEF SizeWord, MagicWord, DataWord, CHUNK_MAGIC, CHUNK_MAGIC_DEAD, CHUNK_MAGIC_ALLOC, Words

\* A store puts a word into the ring.
LEMMA StoreType ==
  ASSUME TypeOK, NEW p \in Indices, NEW w \in Words, Store(p, w)
  PROVE  data' \in [Indices -> Words]
  BY Zenon DEF TypeOK, Store

\* A store changes no word at another distance.
LEMMA StoreElsewhere ==
  ASSUME TypeOK, NEW p \in Indices, NEW q \in Indices, NEW w, Store(p, w),
         Dist(read_pt, p) # Dist(read_pt, q)
  PROVE  data'[q] = data[q]
  BY Zenon DEF TypeOK, Store

\* Every step keeps the types.
LEMMA TypeStep == TypeOK /\ RefCount /\ SemaphoreCountsChunks /\ [Next]_vars => TypeOK' /\ RefCount'
<1> SUFFICES ASSUME TypeOK, RefCount, SemaphoreCountsChunks, [Next]_vars PROVE TypeOK' /\ RefCount'
  BY Zenon
<1>a. /\ write_pt \in Indices /\ read_pt \in Indices /\ start \in Indices
      /\ wmsg \in Messages /\ wlen \in Nat /\ rsize \in Nat
      /\ buf \in Seq(Words) /\ data \in [Indices -> Words] /\ queue \in Seq(Chunks)
  BY Zenon DEF TypeOK
<1>b. Indices \subseteq Nat
  BY RingBufferAssumption DEF RingBufferAssumption, Indices
<1>c. 0 \in Indices
  BY RingBufferAssumption DEF RingBufferAssumption, CHUNK_HEADER_WORDS, Indices
<1>d. Length[wmsg] \in Nat /\ DataWords(Length[wmsg]) \in Nat
  BY <1>a, ChunkWordsValue, Zenon
<1>e. DataWords(rsize) \in Nat
  BY <1>a DEF DataWords
<1>f. /\ Wrap(start + 1) \in Indices /\ Wrap(start + CHUNK_HEADER_WORDS + wlen) \in Indices
      /\ Wrap(start + CHUNK_HEADER_WORDS + DataWords(Length[wmsg])) \in Indices
  <2>1. start + 1 \in Nat /\ start + CHUNK_HEADER_WORDS + wlen \in Nat
        /\ start + CHUNK_HEADER_WORDS + DataWords(Length[wmsg]) \in Nat
    BY <1>a, <1>b, <1>d DEF CHUNK_HEADER_WORDS
  <2> QED
    BY <2>1, WrapIndex, Zenon
<1>g. /\ Wrap(read_pt + 1) \in Indices /\ Wrap(read_pt + CHUNK_HEADER_WORDS + Len(buf)) \in Indices
      /\ Wrap(read_pt + CHUNK_HEADER_WORDS + DataWords(rsize)) \in Indices
  <2>1. read_pt + 1 \in Nat /\ read_pt + CHUNK_HEADER_WORDS + Len(buf) \in Nat
        /\ read_pt + CHUNK_HEADER_WORDS + DataWords(rsize) \in Nat
    BY <1>a, <1>b, <1>e DEF CHUNK_HEADER_WORDS
  <2> QED
    BY <2>1, WrapIndex, Zenon
<1>1. ASSUME NEW m \in Messages, BeginTrySend(m) \/ BeginSend(m) PROVE TypeOK' /\ RefCount'
  BY ZenonT(40), <1>1 DEF BeginTrySend, BeginSend, WriterGoes, shared, reader, TypeOK, RefCount
<1>2. CASE CheckSpace \/ InsufficientSpace
  BY <1>2, Zenon DEF CheckSpace, InsufficientSpace, WriterGoes, shared, reader, TypeOK, RefCount
<1>3. CASE WriteZeroSize
  <2>1. data' \in [Indices -> Words]
    BY <1>3, <1>a, WordType, StoreType, Zenon DEF WriteZeroSize
  <2> QED
    BY <1>3, <2>1, Zenon DEF WriteZeroSize, WriterGoes, reader, TypeOK, RefCount
<1>4. CASE WriteAllocMagic
  <2>1. data' \in [Indices -> Words]
    BY <1>4, <1>f, WordType, StoreType, Zenon DEF WriteAllocMagic
  <2> QED
    BY <1>4, <2>1, Zenon DEF WriteAllocMagic, WriterGoes, reader, TypeOK, RefCount
<1>5. CASE WriteData
  <2>1. Data(wmsg)[wlen + 1] \in Words
    BY <1>5, <1>a, <1>d, WordType DEF WriteData, Data
  <2>2. data' \in [Indices -> Words]
    BY <1>5, <2>1, <1>f, StoreType, Zenon DEF WriteData
  <2> QED
    BY <1>5, <2>2 DEF WriteData, reader, TypeOK, RefCount
<1>6. CASE WriteSize
  <2>1. data' \in [Indices -> Words]
    BY <1>6, <1>a, <1>d, WordType, StoreType, Zenon DEF WriteSize
  <2> QED
    BY <1>6, <2>1, Zenon DEF WriteSize, WriterGoes, reader, TypeOK, RefCount
<1>7. CASE StoreWritePt
  <2>1. write_pt' \in Indices
    BY <1>7, <1>f, Zenon DEF StoreWritePt, chunk_step
  <2>2. [at |-> start, msg |-> wmsg] \in Chunks
    BY <1>a, Zenon DEF Chunks
  <2>3. queue' \in Seq(Chunks)
    BY <1>7, <1>a, <2>2 DEF StoreWritePt
  <2> QED
    BY <1>7, <2>1, <2>3, Zenon DEF StoreWritePt, WriterGoes, reader, TypeOK, RefCount
<1>8. CASE WriteMagic
  <2>1. data' \in [Indices -> Words]
    BY <1>8, <1>f, WordType, StoreType, Zenon DEF WriteMagic
  <2> QED
    BY <1>8, <2>1, Zenon DEF WriteMagic, WriterGoes, reader, TypeOK, RefCount
<1>9. CASE Post
  <2>1. blocking' \in BOOLEAN
    BY <1>9, Zenon DEF Post
  <2>2. start' \in Indices /\ sem' \in Nat /\ wlen' \in Nat
    BY <1>9, <1>c DEF Post, TypeOK
  <2> QED
    BY <1>9, <2>1, <2>2, Zenon DEF Post, WriterGoes, reader, TypeOK, RefCount
<1>10. CASE Attach \/ Detach
  BY <1>10 DEF Attach, Detach, WriterGoes, reader, TypeOK, RefCount
<1>11. CASE SemWait
  BY <1>11 DEF SemWait, ReaderGoes, writer, TypeOK, RefCount
<1>12. CASE LoadPointers
  BY <1>12, Zenon DEF LoadPointers, ReaderGoes, shared, writer, TypeOK, RefCount
<1>13. CASE LoadMagic
  <2>1. rmagic' \in Words
    BY <1>13, <1>a, <1>g, Zenon DEF LoadMagic
  <2> QED
    BY <1>13, <2>1, Zenon DEF LoadMagic, ReaderGoes, shared, writer, TypeOK, RefCount
<1>14. CASE LoadSize
  <2>1. data[read_pt] \in Words
    BY <1>a, Zenon
  <2>2. data[read_pt][1] = "size" => data[read_pt][2] \in Nat
    BY <2>1, Zenon DEF Words
  <2>3. rsize' \in Nat
    BY <1>14, <2>2, Zenon DEF LoadSize
  <2>4. rpc' \in {"copy", "error"}
    BY <1>14, Zenon DEF LoadSize, ReaderGoes
  <2> QED
    BY <1>14, <2>3, <2>4, Zenon DEF LoadSize, shared, writer, TypeOK, RefCount
<1>15. CASE ReadData
  <2>1. buf' \in Seq(Words)
    BY <1>15, <1>a, <1>g DEF ReadData
  <2> QED
    BY <1>15, <2>1, Zenon DEF ReadData, shared, writer, TypeOK, RefCount
<1>16. CASE ClearSize
  <2>1. data' \in [Indices -> Words]
    BY <1>16, <1>a, WordType, StoreType, Zenon DEF ClearSize
  <2> QED
    BY <1>16, <2>1, Zenon DEF ClearSize, ReaderGoes, writer, TypeOK, RefCount
<1>17. CASE WriteDeadMagic
  <2>1. data' \in [Indices -> Words]
    BY <1>17, <1>g, WordType, StoreType, Zenon DEF WriteDeadMagic
  <2> QED
    BY <1>17, <2>1, Zenon DEF WriteDeadMagic, ReaderGoes, writer, TypeOK, RefCount
<1>18. CASE StoreReadPt
  <2>0. queue # <<>>
    BY <1>18, <1>a DEF StoreReadPt, ReaderGoes, SemaphoreCountsChunks, HoldsChunk, TypeOK
  <2>1. read_pt' \in Indices
    BY <1>18, <1>g, Zenon DEF StoreReadPt, chunk_step
  <2>2. queue' \in Seq(Chunks)
    BY <1>18, <1>a, <2>0 DEF StoreReadPt
  <2> QED
    BY <1>18, <2>1, <2>2, Zenon DEF StoreReadPt, ReaderGoes, writer, TypeOK, RefCount
<1>19. CASE SignalFlowControl
  BY <1>19 DEF SignalFlowControl, ReaderGoes, writer, TypeOK, RefCount
<1>20. ASSUME NEW depth \in 0 .. 2, Return(depth) PROVE TypeOK' /\ RefCount'
  BY <1>20, WordType DEF Return, ReaderGoes, ReaderLocals, writer, TypeOK, RefCount
<1>21. CASE UNCHANGED vars
  BY <1>21, Zenon DEF vars, shared, writer, reader, TypeOK, RefCount
<1> QED
  BY Zenon, <1>1, <1>2, <1>3, <1>4, <1>5, <1>6, <1>7, <1>8, <1>9, <1>10, <1>11, <1>12, <1>13,
     <1>14, <1>15, <1>16, <1>17, <1>18, <1>19, <1>20, <1>21
     DEF Next, WriterStep, ReaderStep

\* A ring with a chunk does not look empty.
LEMMA NotEmpty ==
  ASSUME TypeOK, Layout, queue # <<>>
  PROVE  /\ Len(queue) \in Nat /\ Len(queue) >= 1 /\ 1 \in 1 .. Len(queue)
         /\ Dist(read_pt, queue[1].at) = 0
         /\ ChunkWords(queue[1].msg) <= Dist(read_pt, write_pt)
         /\ 3 * Len(queue) <= Dist(read_pt, write_pt)
         /\ read_pt # write_pt
<1>1. Len(queue) \in Nat /\ Len(queue) >= 1 /\ 1 \in 1 .. Len(queue)
  <2>1. queue \in Seq(Chunks)
    BY Zenon DEF TypeOK
  <2> QED
    BY <2>1
<1>2. read_pt \in Nat /\ write_pt \in Nat /\ WordSize \in Nat
  BY RingBufferAssumption DEF RingBufferAssumption, TypeOK, Indices
<1>3. queue[1].at = read_pt
  BY Zenon DEF Layout
<1>4. Dist(read_pt, queue[1].at) = 0
  BY <1>2, <1>3 DEF Dist
<1>5. /\ Dist(read_pt, queue[1].at) + ChunkWords(queue[1].msg) <= Dist(read_pt, write_pt)
      /\ Dist(read_pt, queue[1].at) + 3 * (Len(queue) - 1 + 1) <= Dist(read_pt, write_pt)
  BY <1>1, Zenon DEF Layout
<1>6. ChunkWords(queue[1].msg) \in Nat
  BY <1>1, ChunkType, ChunkWordsValue, Zenon
<1>7. /\ ChunkWords(queue[1].msg) <= Dist(read_pt, write_pt)
      /\ 3 * Len(queue) <= Dist(read_pt, write_pt)
  BY <1>1, <1>4, <1>5, <1>6
<1>8. read_pt # write_pt
  BY <1>1, <1>2, <1>7 DEF Dist
<1> QED
  BY <1>1, <1>4, <1>7, <1>8, Zenon

\* A reader that has passed the semaphore has a chunk, and not the one that the
\* writer is still announcing.
LEMMA ReaderHasChunk ==
  ASSUME TypeOK, SemaphoreCountsChunks, HoldsChunk
  PROVE  queue # <<>> /\ (wpc \in {"magic", "post"} => Len(queue) >= 2)
<1>1. queue \in Seq(Chunks) /\ sem \in Nat /\ Len(queue) \in Nat
  BY DEF TypeOK
<1>2. Len(queue) >= 1 /\ (wpc \in {"magic", "post"} => Len(queue) >= 2)
  BY <1>1 DEF SemaphoreCountsChunks
<1> QED
  BY <1>1, <1>2

\* The semaphore keeps counting the complete chunks.
LEMMA SemaphoreStep ==
  TypeOK /\ SemaphoreCountsChunks /\ Layout /\ [Next]_vars => SemaphoreCountsChunks'
<1> SUFFICES ASSUME TypeOK, SemaphoreCountsChunks, Layout, [Next]_vars
             PROVE  SemaphoreCountsChunks'
  BY Zenon
<1>a. queue \in Seq(Chunks) /\ sem \in Nat /\ Len(queue) \in Nat
  BY DEF TypeOK
<1> USE <1>a DEF SemaphoreCountsChunks, HoldsChunk, WriterGoes, ReaderGoes
<1>1. ASSUME NEW m \in Messages, BeginTrySend(m) \/ BeginSend(m) PROVE SemaphoreCountsChunks'
  BY <1>1, Zenon DEF BeginTrySend, BeginSend, shared, reader
<1>2. CASE CheckSpace \/ InsufficientSpace \/ WriteZeroSize \/ WriteAllocMagic \/ WriteData \/ WriteSize
  BY <1>2, Zenon DEF CheckSpace, InsufficientSpace, WriteZeroSize, WriteAllocMagic, WriteData, WriteSize, shared, reader
<1>3. CASE StoreWritePt
  <2>1. Len(queue') = Len(queue) + 1
    BY <1>3 DEF StoreWritePt
  <2> QED
    BY <1>3, <2>1 DEF StoreWritePt, reader
<1>4. CASE WriteMagic \/ Post \/ Attach \/ Detach
  BY <1>4 DEF WriteMagic, Post, Attach, Detach, reader
<1>5. CASE SemWait
  BY <1>5 DEF SemWait, writer
<1>6. CASE LoadPointers
  <2>1. queue # <<>>
    BY <1>6, ReaderHasChunk, Zenon DEF LoadPointers
  <2>2. read_pt # write_pt
    BY <2>1, NotEmpty, Zenon
  <2> QED
    BY <1>6, <2>2, Zenon DEF LoadPointers, shared, writer
<1>7. CASE LoadMagic \/ ReadData \/ ClearSize \/ WriteDeadMagic \/ SignalFlowControl
  BY <1>7, Zenon DEF LoadMagic, ReadData, ClearSize, WriteDeadMagic, SignalFlowControl, shared, writer
<1>8. CASE LoadSize
  <2>1. rpc' \in {"copy", "error"}
    BY <1>8, Zenon DEF LoadSize
  <2> QED
    BY <1>8, <2>1, Zenon DEF LoadSize, shared, writer
<1>9. CASE StoreReadPt
  <2>1. queue # <<>>
    BY <1>9, ReaderHasChunk, Zenon DEF StoreReadPt
  <2>2. Len(queue') = Len(queue) - 1
    BY <1>9, <2>1 DEF StoreReadPt
  <2> QED
    BY <1>9, <2>2 DEF StoreReadPt, writer
<1>10. ASSUME NEW depth \in 0 .. 2, Return(depth) PROVE SemaphoreCountsChunks'
  BY <1>10, Zenon DEF Return, writer
<1>11. CASE UNCHANGED vars
  BY <1>11, Zenon DEF vars, shared, writer, reader
<1> QED
  BY <1>1, <1>2, <1>3, <1>4, <1>5, <1>6, <1>7, <1>8, <1>9, <1>10, <1>11, Zenon
     DEF Next, WriterStep, ReaderStep

\* Only two steps move a pointer, and they are the ones that move the history.
LEMMA PointerSteps ==
  ASSUME [Next]_vars
  PROVE  StoreWritePt \/ StoreReadPt \/ UNCHANGED <<queue, read_pt, write_pt>>
  BY ZenonT(40) DEF Next, WriterStep, ReaderStep, vars, shared, writer, reader, BeginTrySend, BeginSend,
         CheckSpace, InsufficientSpace, WriteZeroSize, WriteAllocMagic, WriteData, WriteSize,
         WriteMagic, Post, Attach, Detach, SemWait, LoadPointers, LoadMagic, LoadSize, ReadData,
         ClearSize, WriteDeadMagic, SignalFlowControl, Return

\* The pointer arithmetic moves a pointer by the words of the chunk.
LEMMA ChunkStepValue ==
  ASSUME NEW at \in Indices, NEW m \in Messages
  PROVE  chunk_step(at, Length[m]) = Wrap(at + ChunkWords(m))
<1>1. at \in Nat /\ DataWords(Length[m]) \in Nat
  BY ChunkWordsValue DEF Indices
<1>2. at + CHUNK_HEADER_WORDS + DataWords(Length[m]) = at + ChunkWords(m)
  BY <1>1 DEF ChunkWords, CHUNK_HEADER_WORDS
<1> QED
  BY <1>2, Zenon DEF chunk_step

\* Publishing a chunk puts write_pt behind it.
LEMMA PublishMoves ==
  ASSUME TypeOK, WriterFits, StoreWritePt
  PROVE  /\ start = write_pt /\ start \in Indices /\ wmsg \in Messages
         /\ write_pt' = chunk_step(start, Length[wmsg])
         /\ write_pt' \in Indices
         /\ Dist(read_pt, write_pt') = Dist(read_pt, write_pt) + ChunkWords(wmsg)
<1>1. wpc \in Fills
  BY Zenon DEF StoreWritePt, WriterGoes, Fills
<1>2. start = write_pt /\ Dist(read_pt, write_pt) + ChunkWords(wmsg) < WordSize
  BY <1>1, Zenon DEF WriterFits
<1>3. read_pt \in Indices /\ write_pt \in Indices /\ wmsg \in Messages
  BY Zenon DEF TypeOK
<1>4. ChunkWords(wmsg) \in Nat
  BY <1>3, ChunkWordsValue, Zenon
<1>5. write_pt' = Wrap(write_pt + ChunkWords(wmsg))
  BY <1>2, <1>3, ChunkStepValue, Zenon DEF StoreWritePt
<1>6. /\ Wrap(write_pt + ChunkWords(wmsg)) \in Indices
      /\ Dist(read_pt, Wrap(write_pt + ChunkWords(wmsg))) = Dist(read_pt, write_pt) + ChunkWords(wmsg)
  BY <1>2, <1>3, <1>4, DistAdd, Zenon
<1> QED
  BY <1>2, <1>3, <1>5, <1>6, Zenon DEF StoreWritePt

\* Reclaiming a chunk brings everything behind it nearer by its words.
LEMMA ReclaimMoves ==
  ASSUME TypeOK, SemaphoreCountsChunks, Layout, ReaderData, StoreReadPt
  PROVE  /\ queue # <<>>
         /\ read_pt' = chunk_step(queue[1].at, Length[queue[1].msg])
         /\ read_pt' \in Indices
         /\ \A a \in Indices : ChunkWords(queue[1].msg) <= Dist(read_pt, a) =>
              Dist(read_pt', a) = Dist(read_pt, a) - ChunkWords(queue[1].msg)
<1>1. queue # <<>>
  BY ReaderHasChunk, Zenon DEF StoreReadPt, ReaderGoes, HoldsChunk
<1>2. queue[1].at = read_pt /\ read_pt \in Indices
  BY <1>1, Zenon DEF Layout, TypeOK
<1>3. rsize = Length[queue[1].msg]
  BY Zenon DEF ReaderData, StoreReadPt, ReaderGoes
<1>4. queue[1].msg \in Messages
  BY <1>1, NotEmpty, ChunkType, Zenon
<1>5. ChunkWords(queue[1].msg) \in Nat
  BY <1>4, ChunkWordsValue, Zenon
<1>6. read_pt' = Wrap(read_pt + ChunkWords(queue[1].msg))
  BY <1>2, <1>3, <1>4, ChunkStepValue, Zenon DEF StoreReadPt
<1>7. ASSUME NEW a \in Indices, ChunkWords(queue[1].msg) <= Dist(read_pt, a)
      PROVE  Dist(read_pt', a) = Dist(read_pt, a) - ChunkWords(queue[1].msg)
  BY <1>2, <1>5, <1>6, <1>7, DistShift, Zenon
<1>8. read_pt' \in Indices
  BY <1>1, <1>2, <1>5, <1>6, NotEmpty, DistShift, Zenon DEF TypeOK
<1> QED
  BY <1>1, <1>2, <1>3, <1>7, <1>8, Zenon DEF StoreReadPt

\* Publishing adds the chunk behind the others.
LEMMA AppendChunk ==
  ASSUME TypeOK, StoreWritePt
  PROVE  /\ Len(queue) \in Nat /\ Len(queue') = Len(queue) + 1
         /\ \A i \in 1 .. Len(queue) : queue'[i] = queue[i]
         /\ queue'[Len(queue) + 1] = [at |-> start, msg |-> wmsg]
<1>1. queue \in Seq(Chunks)
  BY Zenon DEF TypeOK
<1> QED
  BY <1>1 DEF StoreWritePt

\* Removing the first chunk moves every other one up by one.
LEMMA RemoveChunk ==
  ASSUME TypeOK, StoreReadPt, queue # <<>>
  PROVE  /\ Len(queue) \in Nat /\ Len(queue) >= 1 /\ Len(queue') = Len(queue) - 1
         /\ \A i \in 1 .. Len(queue') : queue'[i] = queue[i + 1]
<1>1. queue \in Seq(Chunks)
  BY Zenon DEF TypeOK
<1> QED
  BY <1>1 DEF StoreReadPt

\* The chunks keep their order and their places.
LEMMA LayoutStep ==
  TypeOK /\ SemaphoreCountsChunks /\ Layout /\ WriterFits /\ ReaderData /\ [Next]_vars => Layout'
<1> SUFFICES ASSUME TypeOK, SemaphoreCountsChunks, Layout, WriterFits, ReaderData, [Next]_vars
             PROVE  Layout'
  BY Zenon
<1>1. CASE StoreWritePt
  <2> DEFINE D(a) == Dist(read_pt, a)
             C(i) == ChunkWords(queue[i].msg)
             n == Len(queue)
             w == ChunkWords(wmsg)
  <2>1. /\ read_pt' = read_pt /\ start = write_pt
        /\ write_pt' = chunk_step(start, Length[wmsg])
        /\ D(write_pt') = D(write_pt) + w
    BY <1>1, PublishMoves, Zenon DEF StoreWritePt
  <2>2. /\ n \in Nat /\ Len(queue') = n + 1
        /\ \A i \in 1 .. n : queue'[i] = queue[i]
        /\ queue'[n + 1].at = start /\ queue'[n + 1].msg = wmsg
    BY <1>1, AppendChunk
  <2>3. w \in Nat /\ w >= 3 /\ D(write_pt) \in Nat
    BY ChunkWordsValue, DistRange, Zenon DEF TypeOK
  <2>4. \A i \in 1 .. n : D(queue[i].at) \in Nat /\ C(i) \in Nat /\ C(i) >= 3
    BY ZenonT(40), ChunkType, ChunkWordsValue, DistRange DEF TypeOK
  <2>5. /\ \A i \in 1 .. n :
             /\ chunk_step(queue[i].at, Length[queue[i].msg]) = IF i = n THEN write_pt ELSE queue[i + 1].at
             /\ D(queue[i].at) + C(i) <= D(write_pt)
             /\ D(queue[i].at) + 3 * (n - i + 1) <= D(write_pt)
        /\ \A i, j \in 1 .. n : i < j => D(queue[i].at) + C(i) <= D(queue[j].at)
    BY ZenonT(40) DEF Layout
  <2>6. queue' # <<>> /\ queue'[1].at = read_pt'
    <3>0. queue \in Seq(Chunks)
      BY Zenon DEF TypeOK
    <3>1. CASE n = 0
      <4>1. queue = <<>>
        BY <3>0, <3>1
      <4>2. queue'[1].at = start
        BY <3>1, <2>2
      <4>3. queue' # <<>>
        BY <3>0, <1>1 DEF StoreWritePt
      <4> QED
        BY <4>1, <4>2, <4>3, <2>1, Zenon DEF Layout
    <3>2. CASE n # 0
      <4>1. queue # <<>> /\ queue'[1] = queue[1]
        BY <3>0, <3>2, <2>2
      <4>2. queue' # <<>>
        BY <3>0, <1>1 DEF StoreWritePt
      <4> QED
        BY <4>1, <4>2, <2>1, Zenon DEF Layout
    <3> QED
      BY <3>1, <3>2, Zenon
  <2> HIDE DEF D, C, n, w
  <2>7. ASSUME NEW i \in 1 .. n + 1
        PROVE  chunk_step(queue'[i].at, Length[queue'[i].msg])
                 = IF i = n + 1 THEN write_pt' ELSE queue'[i + 1].at
    <3>1. CASE i = n + 1
      BY <3>1, <2>1, <2>2, Zenon
    <3>2. CASE i = n
      BY <3>2, <2>1, <2>2, <2>5
    <3>3. CASE i < n
      BY <3>3, <2>2, <2>5
    <3> QED
      BY <3>1, <3>2, <3>3, <2>2
  <2>8. ASSUME NEW i \in 1 .. n + 1
        PROVE  /\ D(queue'[i].at) + ChunkWords(queue'[i].msg) <= D(write_pt')
               /\ D(queue'[i].at) + 3 * (n + 1 - i + 1) <= D(write_pt')
    <3>1. CASE i = n + 1
      BY <3>1, <2>1, <2>2, <2>3 DEF w
    <3>2. CASE i # n + 1
      <4>1. i \in 1 .. n /\ queue'[i] = queue[i]
        BY <3>2, <2>2
      <4>2. /\ D(queue[i].at) + C(i) <= D(write_pt)
            /\ D(queue[i].at) + 3 * (n - i + 1) <= D(write_pt)
            /\ D(queue[i].at) \in Nat /\ C(i) \in Nat
        BY <4>1, <2>4, <2>5, Zenon
      <4>3. D(queue[i].at) + C(i) <= D(write_pt')
        BY <4>2, <2>1, <2>3
      <4>4. D(queue[i].at) + 3 * (n + 1 - i + 1) <= D(write_pt')
        BY <4>1, <4>2, <2>1, <2>2, <2>3
      <4> QED
        BY <4>1, <4>3, <4>4, Zenon DEF C
    <3> QED
      BY <3>1, <3>2, Zenon
  <2>9. ASSUME NEW i \in 1 .. n + 1, NEW j \in 1 .. n + 1, i < j
        PROVE  D(queue'[i].at) + ChunkWords(queue'[i].msg) <= D(queue'[j].at)
    <3>1. i \in 1 .. n /\ queue'[i] = queue[i]
      BY <2>2, <2>9
    <3>2. CASE j = n + 1
      <4>1. D(queue[i].at) + C(i) <= D(write_pt)
        BY <3>1, <2>5, Zenon
      <4>2. queue'[j].at = write_pt
        BY <3>2, <2>1, <2>2, Zenon
      <4> QED
        BY <4>1, <4>2, <3>1, Zenon DEF C
    <3>3. CASE j # n + 1
      <4>1. j \in 1 .. n /\ queue'[j] = queue[j]
        BY <3>3, <2>2
      <4>2. D(queue[i].at) + C(i) <= D(queue[j].at)
        BY <3>1, <4>1, <2>5, <2>9, Zenon
      <4> QED
        BY <3>1, <4>1, <4>2, Zenon DEF C
    <3> QED
      BY <3>2, <3>3, Zenon
  <2> QED
    BY SMTT(30), <2>1, <2>2, <2>6, <2>7, <2>8, <2>9 DEF Layout, D, n
<1>2. CASE StoreReadPt
  <2> DEFINE D(a) == Dist(read_pt, a)
             C(i) == ChunkWords(queue[i].msg)
             n == Len(queue)
  <2>1. /\ queue # <<>> /\ write_pt' = write_pt
        /\ read_pt' = chunk_step(queue[1].at, Length[queue[1].msg])
        /\ \A a \in Indices : C(1) <= D(a) => Dist(read_pt', a) = D(a) - C(1)
    BY <1>2, ReclaimMoves, Zenon DEF StoreReadPt
  <2>2. /\ n \in Nat /\ n >= 1 /\ Len(queue') = n - 1
        /\ \A i \in 1 .. n - 1 : queue'[i] = queue[i + 1]
    BY <1>2, <2>1, RemoveChunk, Zenon
  <2>3. write_pt \in Indices /\ D(write_pt) \in Nat
    BY DistRange, Zenon DEF TypeOK
  <2>4. \A i \in 1 .. n : queue[i].at \in Indices /\ D(queue[i].at) \in Nat /\ C(i) \in Nat
    BY ZenonT(40), ChunkType, ChunkWordsValue, DistRange DEF TypeOK
  <2>5. /\ \A i \in 1 .. n :
             /\ chunk_step(queue[i].at, Length[queue[i].msg]) = IF i = n THEN write_pt ELSE queue[i + 1].at
             /\ D(queue[i].at) + C(i) <= D(write_pt)
             /\ D(queue[i].at) + 3 * (n - i + 1) <= D(write_pt)
        /\ \A i, j \in 1 .. n : i < j => D(queue[i].at) + C(i) <= D(queue[j].at)
    BY DEF Layout
  <2>6. D(queue[1].at) = 0
    BY <2>1, NotEmpty, Zenon
  <2> HIDE DEF D, C, n
  <2>7. Dist(read_pt', write_pt') = D(write_pt) - C(1)
    BY <2>1, <2>2, <2>3, <2>4, <2>5, <2>6
  <2>8. ASSUME NEW i \in 2 .. n PROVE Dist(read_pt', queue[i].at) = D(queue[i].at) - C(1)
    <3>1. 1 \in 1 .. n /\ i \in 1 .. n /\ 1 < i
      BY <2>2
    <3>2. D(queue[1].at) + C(1) <= D(queue[i].at)
      BY <3>1, <2>5, Zenon
    <3>3. C(1) <= D(queue[i].at)
      BY <3>1, <3>2, <2>4, <2>6
    <3> QED
      BY <3>1, <3>3, <2>1, <2>4, Zenon
  <2>9. /\ queue' = <<>> => read_pt' = write_pt'
        /\ queue' # <<>> => queue'[1].at = read_pt'
    <3>0. queue \in Seq(Chunks)
      BY DEF TypeOK
    <3>1. CASE n = 1
      <4>1. queue' = <<>>
        BY <3>0, <3>1, <1>2 DEF StoreReadPt, n
      <4>2. read_pt' = write_pt'
        BY <3>1, <2>1, <2>2, <2>5
      <4> QED
        BY <4>1, <4>2, Zenon
    <3>2. CASE n > 1
      BY <3>2, <2>1, <2>2, <2>5
    <3> QED
      BY <3>1, <3>2, <2>2
  <2>10. ASSUME NEW i \in 1 .. n - 1
         PROVE  /\ chunk_step(queue'[i].at, Length[queue'[i].msg])
                     = IF i = n - 1 THEN write_pt' ELSE queue'[i + 1].at
                /\ Dist(read_pt', queue'[i].at) + ChunkWords(queue'[i].msg) <= Dist(read_pt', write_pt')
                /\ Dist(read_pt', queue'[i].at) + 3 * (n - 1 - i + 1) <= Dist(read_pt', write_pt')
    <3>1. i + 1 \in 2 .. n /\ i + 1 \in 1 .. n /\ 1 \in 1 .. n /\ queue'[i] = queue[i + 1]
      BY <2>2
    <3>2. i # n - 1 => queue'[i + 1] = queue[i + 2]
      BY <2>2
    <3>3. chunk_step(queue[i + 1].at, Length[queue[i + 1].msg])
            = IF i + 1 = n THEN write_pt ELSE queue[i + 2].at
      <4>1. chunk_step(queue[i + 1].at, Length[queue[i + 1].msg])
              = IF i + 1 = n THEN write_pt ELSE queue[(i + 1) + 1].at
        BY <3>1, <2>5, Zenon
      <4>2. (i + 1) + 1 = i + 2
        OBVIOUS
      <4> QED
        BY <4>1, <4>2, Zenon
    <3>4. /\ D(queue[i + 1].at) + C(i + 1) <= D(write_pt)
          /\ D(queue[i + 1].at) + 3 * (n - (i + 1) + 1) <= D(write_pt)
          /\ D(queue[i + 1].at) \in Nat /\ C(i + 1) \in Nat /\ C(1) \in Nat
      BY <3>1, <2>4, <2>5, Zenon
    <3>5. Dist(read_pt', queue[i + 1].at) = D(queue[i + 1].at) - C(1)
      BY <3>1, <2>8, Zenon
    <3>6. /\ Dist(read_pt', queue[i + 1].at) + C(i + 1) <= Dist(read_pt', write_pt')
          /\ Dist(read_pt', queue[i + 1].at) + 3 * (n - 1 - i + 1) <= Dist(read_pt', write_pt')
      BY <3>4, <3>5, <2>2, <2>3, <2>7
    <3> QED
      BY <3>1, <3>2, <3>3, <3>6, <2>1, <2>2 DEF C
  <2>11. ASSUME NEW i \in 1 .. n - 1, NEW j \in 1 .. n - 1, i < j
         PROVE  Dist(read_pt', queue'[i].at) + ChunkWords(queue'[i].msg) <= Dist(read_pt', queue'[j].at)
    <3>1. i + 1 \in 2 .. n /\ j + 1 \in 2 .. n /\ 1 \in 1 .. n
      BY <2>2
    <3>2. /\ queue'[i] = queue[i + 1] /\ queue'[j] = queue[j + 1]
          /\ i + 1 \in 1 .. n /\ j + 1 \in 1 .. n /\ i + 1 < j + 1
      BY <2>2, <2>11
    <3>3. D(queue[i + 1].at) + C(i + 1) <= D(queue[j + 1].at)
      BY <3>2, <2>5, Zenon
    <3>4. /\ Dist(read_pt', queue[i + 1].at) = D(queue[i + 1].at) - C(1)
          /\ Dist(read_pt', queue[j + 1].at) = D(queue[j + 1].at) - C(1)
      BY <3>1, <2>8, Zenon
    <3>5. /\ D(queue[i + 1].at) \in Nat /\ D(queue[j + 1].at) \in Nat
          /\ C(i + 1) \in Nat /\ C(1) \in Nat
      BY <3>1, <3>2, <2>4, Zenon
    <3>6. Dist(read_pt', queue[i + 1].at) + C(i + 1) <= Dist(read_pt', queue[j + 1].at)
      BY <3>3, <3>4, <3>5
    <3> QED
      BY <3>2, <3>6, Zenon DEF C
  <2> QED
    BY <2>2, <2>9, <2>10, <2>11, Zenon DEF Layout, n
<1>3. CASE UNCHANGED <<queue, read_pt, write_pt>>
  BY <1>3, Zenon DEF Layout
<1> QED
  BY <1>1, <1>2, <1>3, PointerSteps, Zenon

\* The writer keeps to the room it was given: the reader only adds to it.
LEMMA WriterFitsStep ==
  TypeOK /\ SemaphoreCountsChunks /\ Layout /\ WriterFits /\ ReaderData /\ [Next]_vars => WriterFits'
<1> SUFFICES ASSUME TypeOK, SemaphoreCountsChunks, Layout, WriterFits, ReaderData, [Next]_vars,
                    wpc' \in Fills
             PROVE  start' = write_pt' /\ Dist(read_pt', write_pt') + ChunkWords(wmsg') < WordSize
  BY Zenon DEF WriterFits
<1>1. CASE CheckSpace
  BY <1>1, FitsMeansSpace, Zenon DEF CheckSpace, shared
<1>2. CASE StoreReadPt
  <2>1. /\ wpc \in Fills /\ start' = start /\ write_pt' = write_pt /\ wmsg' = wmsg
    BY <1>2, Zenon DEF StoreReadPt, writer
  <2>2. start = write_pt /\ Dist(read_pt, write_pt) + ChunkWords(wmsg) < WordSize
    BY <2>1, Zenon DEF WriterFits
  <2>3. write_pt \in Indices /\ read_pt \in Indices /\ wmsg \in Messages
    BY Zenon DEF TypeOK
  <2>4. queue # <<>>
    BY <1>2, ReclaimMoves, Zenon
  <2>5. queue[1].msg \in Messages
    BY <2>4, NotEmpty, ChunkType, Zenon
  <2>6. Dist(read_pt', write_pt) = Dist(read_pt, write_pt) - ChunkWords(queue[1].msg)
    BY <1>2, <2>3, <2>4, NotEmpty, ReclaimMoves, Zenon
  <2>7. ChunkWords(queue[1].msg) \in Nat /\ ChunkWords(wmsg) \in Nat /\ Dist(read_pt, write_pt) \in Nat
    BY <2>3, <2>5, ChunkWordsValue, DistRange, Zenon
  <2> QED
    BY <2>1, <2>2, <2>6, <2>7, RingBufferAssumption DEF RingBufferAssumption
<1>3. CASE wpc \in Fills /\ UNCHANGED <<start, write_pt, read_pt, wmsg>>
  BY <1>3, Zenon DEF WriterFits
<1> QED
  BY ZenonT(40), <1>1, <1>2, <1>3
     DEF Next, WriterStep, ReaderStep, vars, shared, writer, reader, Fills, WriterGoes, BeginTrySend,
         BeginSend, InsufficientSpace, WriteZeroSize, WriteAllocMagic, WriteData, WriteSize, StoreWritePt,
         WriteMagic, Post, Attach, Detach, SemWait, LoadPointers, LoadMagic, LoadSize, ReadData,
         ClearSize, WriteDeadMagic, SignalFlowControl, Return

\* Word k of the chunk that is being written lies k words beyond write_pt.
LEMMA WriterPosition ==
  ASSUME TypeOK, WriterFits, wpc \in Fills, NEW k \in Nat, k < ChunkWords(wmsg)
  PROVE  /\ Wrap(start + k) \in Indices
         /\ Dist(read_pt, Wrap(start + k)) = Dist(read_pt, write_pt) + k
<1>1. read_pt \in Indices /\ write_pt \in Indices /\ wmsg \in Messages
  BY Zenon DEF TypeOK
<1>2. start = write_pt /\ Dist(read_pt, write_pt) + ChunkWords(wmsg) < WordSize
  BY Zenon DEF WriterFits
<1>3. ChunkWords(wmsg) \in Nat /\ Dist(read_pt, write_pt) \in Nat
  BY <1>1, ChunkWordsValue, DistRange, Zenon
<1>4. Dist(read_pt, write_pt) + k < WordSize
  BY <1>2, <1>3, RingBufferAssumption DEF RingBufferAssumption
<1> QED
  BY <1>1, <1>2, <1>4, DistAdd, Zenon

\* An index in the ring needs no wrapping.
LEMMA WrapSame ==
  ASSUME NEW a \in Indices
  PROVE  Wrap(a + 0) = a /\ Wrap(a) = a
  BY RingBufferAssumption DEF RingBufferAssumption, CHUNK_HEADER_WORDS, Wrap, Indices

\* A store into the chunk being written changes no published chunk.
LEMMA WriterSparesChunks ==
  ASSUME TypeOK, Layout, WriterFits, wpc \in Fills,
         NEW j \in Nat, j < ChunkWords(wmsg), NEW w, Store(Wrap(start + j), w),
         NEW i \in 1 .. Len(queue), NEW k \in Nat, k < ChunkWords(queue[i].msg)
  PROVE  data'[Wrap(queue[i].at + k)] = data[Wrap(queue[i].at + k)]
<1>1. /\ Wrap(start + j) \in Indices
      /\ Dist(read_pt, Wrap(start + j)) = Dist(read_pt, write_pt) + j
  BY WriterPosition, Zenon
<1>2. /\ Wrap(queue[i].at + k) \in Indices
      /\ Dist(read_pt, Wrap(queue[i].at + k)) < Dist(read_pt, write_pt)
  BY ChunkPosition, Zenon
<1>3. Dist(read_pt, write_pt) \in Nat /\ Dist(read_pt, Wrap(queue[i].at + k)) \in Nat
  BY <1>2, DistRange, Zenon DEF TypeOK
<1>4. Dist(read_pt, Wrap(start + j)) # Dist(read_pt, Wrap(queue[i].at + k))
  BY <1>1, <1>2, <1>3
<1> QED
  BY <1>1, <1>2, <1>4, StoreElsewhere, Zenon

\* A store changes no other word.
LEMMA StoreOther ==
  ASSUME TypeOK, NEW p \in Indices, NEW q \in Indices, NEW w, Store(p, w), p # q
  PROVE  data'[q] = data[q]
  BY Zenon DEF TypeOK, Store

\* The words of published chunks are all different places of the ring.
LEMMA ChunkWordsDistinct ==
  ASSUME TypeOK, Layout,
         NEW i \in 1 .. Len(queue), NEW j \in Nat, j < ChunkWords(queue[i].msg),
         NEW l \in 1 .. Len(queue), NEW k \in Nat, k < ChunkWords(queue[l].msg)
  PROVE  /\ Wrap(queue[i].at + j) \in Indices /\ Wrap(queue[l].at + k) \in Indices
         /\ i # l \/ j # k => Wrap(queue[i].at + j) # Wrap(queue[l].at + k)
<1> DEFINE D(a) == Dist(read_pt, a)
<1>1. /\ Wrap(queue[i].at + j) \in Indices /\ D(Wrap(queue[i].at + j)) = D(queue[i].at) + j
      /\ queue[i].at \in Indices /\ queue[i].msg \in Messages
  BY ChunkPosition, Zenon
<1>2. /\ Wrap(queue[l].at + k) \in Indices /\ D(Wrap(queue[l].at + k)) = D(queue[l].at) + k
      /\ queue[l].at \in Indices /\ queue[l].msg \in Messages
  BY ChunkPosition, Zenon
<1>3. D(queue[i].at) \in Nat /\ D(queue[l].at) \in Nat
  BY ZenonT(40), <1>1, <1>2, DistRange DEF TypeOK
<1>4. ChunkWords(queue[i].msg) \in Nat /\ ChunkWords(queue[l].msg) \in Nat
  BY ZenonT(40), <1>1, <1>2, ChunkWordsValue
<1>5. i < l => D(queue[i].at) + ChunkWords(queue[i].msg) <= D(queue[l].at)
  BY Zenon DEF Layout
<1>6. l < i => D(queue[l].at) + ChunkWords(queue[l].msg) <= D(queue[i].at)
  BY Zenon DEF Layout
<1>7. i \in Nat /\ l \in Nat
  OBVIOUS
<1> HIDE DEF D
<1>8. i # l \/ j # k => D(queue[i].at) + j # D(queue[l].at) + k
  <2>1. CASE i = l
    BY <2>1, <1>3
  <2>2. CASE i < l
    BY <2>2, <1>3, <1>4, <1>5
  <2>3. CASE l < i
    BY <2>3, <1>3, <1>4, <1>6
  <2> QED
    BY <2>1, <2>2, <2>3, <1>7
<1> QED
  BY <1>1, <1>2, <1>8, Zenon

\* The reader's stores into the first chunk do not touch the chunk being written.
LEMMA ReaderSparesWriter ==
  ASSUME TypeOK, Layout, WriterFits, wpc \in Fills, queue # <<>>,
         NEW j \in 0 .. 1, NEW w, Store(Wrap(read_pt + j), w),
         NEW k \in Nat, k < ChunkWords(wmsg)
  PROVE  data'[Wrap(start + k)] = data[Wrap(start + k)]
<1>1. /\ 1 \in 1 .. Len(queue) /\ queue[1].at = read_pt /\ queue[1].msg \in Messages
  BY NotEmpty, ChunkType, Zenon DEF Layout
<1>2. j \in Nat /\ j < ChunkWords(queue[1].msg)
  BY <1>1, ChunkWordsValue
<1>3. /\ Wrap(read_pt + j) \in Indices
      /\ Dist(read_pt, Wrap(read_pt + j)) < Dist(read_pt, write_pt)
  BY <1>1, <1>2, ChunkPosition, Zenon
<1>4. /\ Wrap(start + k) \in Indices
      /\ Dist(read_pt, Wrap(start + k)) = Dist(read_pt, write_pt) + k
  BY WriterPosition, Zenon
<1>5. Dist(read_pt, write_pt) \in Nat /\ Dist(read_pt, Wrap(read_pt + j)) \in Nat
  BY <1>3, DistRange, Zenon DEF TypeOK
<1>6. Dist(read_pt, Wrap(read_pt + j)) # Dist(read_pt, Wrap(start + k))
  BY <1>3, <1>4, <1>5
<1> QED
  BY <1>3, <1>4, <1>6, StoreElsewhere, Zenon

\* A chunk's words by the way they are addressed: size, magic and data.
LEMMA ChunkAddresses ==
  ASSUME NEW a \in Indices, NEW m \in Messages
  PROVE  /\ a = Wrap(a + 0) /\ 0 < ChunkWords(m) /\ 1 < ChunkWords(m)
         /\ \A k \in 1 .. DataWords(Length[m]) :
              Wrap(a + 1 + k) = Wrap(a + (1 + k)) /\ 1 + k \in Nat /\ 1 + k < ChunkWords(m)
<1>1. /\ ChunkWords(m) = DataWords(Length[m]) + 2 /\ DataWords(Length[m]) \in Nat \ {0}
  BY ChunkWordsValue, Zenon
<1>2. a \in Nat
  BY DEF Indices
<1>3. ASSUME NEW k \in 1 .. DataWords(Length[m])
      PROVE  a + 1 + k = a + (1 + k) /\ 1 + k \in Nat /\ 1 + k < ChunkWords(m)
  BY <1>1, <1>2
<1>4. a = Wrap(a + 0)
  BY WrapSame, Zenon
<1> QED
  BY <1>1, <1>3, <1>4

\* A store into the chunk being written changes no other word of it.
LEMMA WriterSparesOthers ==
  ASSUME TypeOK, WriterFits, wpc \in Fills,
         NEW j \in Nat, j < ChunkWords(wmsg), NEW w, Store(Wrap(start + j), w),
         NEW k \in Nat, k < ChunkWords(wmsg), j # k
  PROVE  data'[Wrap(start + k)] = data[Wrap(start + k)]
<1>1. /\ Wrap(start + j) \in Indices
      /\ Dist(read_pt, Wrap(start + j)) = Dist(read_pt, write_pt) + j
  BY WriterPosition, Zenon
<1>2. /\ Wrap(start + k) \in Indices
      /\ Dist(read_pt, Wrap(start + k)) = Dist(read_pt, write_pt) + k
  BY WriterPosition, Zenon
<1>3. Dist(read_pt, write_pt) \in Nat
  BY DistRange, Zenon DEF TypeOK
<1>4. Dist(read_pt, Wrap(start + j)) # Dist(read_pt, Wrap(start + k))
  BY <1>1, <1>2, <1>3
<1> QED
  BY <1>1, <1>2, <1>4, StoreElsewhere, Zenon

\* A stored word is there.
LEMMA StoreHere ==
  ASSUME TypeOK, NEW p \in Indices, NEW w, Store(p, w)
  PROVE  data'[p] = w
  BY Zenon DEF TypeOK, Store

\* The writer fills its chunk word by word, and nobody disturbs it.
LEMMA WriterDataStep ==
  TypeOK /\ SemaphoreCountsChunks /\ Layout /\ WriterFits /\ WriterData /\ [Next]_vars => WriterData'
<1> SUFFICES ASSUME TypeOK, SemaphoreCountsChunks, Layout, WriterFits, WriterData, [Next]_vars
             PROVE  WriterData'
  BY Zenon
<1>a. /\ start \in Indices /\ wmsg \in Messages /\ wlen \in Nat /\ read_pt \in Indices
      /\ DataWords(Length[wmsg]) \in Nat \ {0}
      /\ ChunkWords(wmsg) = DataWords(Length[wmsg]) + 2
  BY ChunkWordsValue, Zenon DEF TypeOK
<1>b. /\ start = Wrap(start + 0) /\ 0 < ChunkWords(wmsg) /\ 1 < ChunkWords(wmsg)
      /\ \A k \in 1 .. DataWords(Length[wmsg]) :
            Wrap(start + 1 + k) = Wrap(start + (1 + k)) /\ 1 + k \in Nat /\ 1 + k < ChunkWords(wmsg)
  BY <1>a, ChunkAddresses, Zenon
<1>1. CASE WriteAllocMagic
  BY <1>1, <1>a DEF WriteAllocMagic, WriterGoes, WriterData, DataHolds
<1>2. CASE WriteData
  <2>1. /\ wpc = "copy" /\ wpc' = "copy" /\ wpc \in Fills /\ wlen' = wlen + 1
        /\ start' = start /\ wmsg' = wmsg /\ wlen < DataWords(Length[wmsg])
    BY <1>2, Zenon DEF WriteData, Fills
  <2>2. \A k \in 1 .. wlen : data[Wrap(start + 1 + k)] = DataWord(wmsg, k)
    BY <2>1, Zenon DEF WriterData, DataHolds
  <2>3. Store(Wrap(start + (1 + (wlen + 1))), DataWord(wmsg, wlen + 1))
    <3>1. start \in Nat
      BY <1>a DEF Indices
    <3>2. start + CHUNK_HEADER_WORDS + wlen = start + (1 + (wlen + 1))
      BY <1>a, <3>1 DEF CHUNK_HEADER_WORDS
    <3>3. Data(wmsg)[wlen + 1] = DataWord(wmsg, wlen + 1)
      BY <1>a, <2>1 DEF Data
    <3> QED
      BY <1>2, <3>2, <3>3, Zenon DEF WriteData
  <2>4. ASSUME NEW k \in 1 .. wlen + 1 PROVE data'[Wrap(start + 1 + k)] = DataWord(wmsg, k)
    <3>1. k \in 1 .. DataWords(Length[wmsg]) /\ wlen + 1 \in 1 .. DataWords(Length[wmsg])
      BY <1>a, <2>1
    <3>2. CASE k = wlen + 1
      <4>1. Wrap(start + (1 + (wlen + 1))) \in Indices
        BY <1>b, <2>1, <3>1, WriterPosition, Zenon
      <4>2. data'[Wrap(start + (1 + (wlen + 1)))] = DataWord(wmsg, wlen + 1)
        BY <4>1, <2>3, StoreHere, Zenon
      <4> QED
        BY <3>1, <3>2, <4>2, <1>b, Zenon
    <3>3. CASE k # wlen + 1
      <4>1. k \in 1 .. wlen /\ 1 + k # 1 + (wlen + 1)
        BY <3>3, <1>a
      <4>2. data'[Wrap(start + (1 + k))] = data[Wrap(start + (1 + k))]
        BY <4>1, <3>1, <2>1, <2>3, <1>b, WriterSparesOthers, Zenon
      <4> QED
        BY <3>1, <4>1, <4>2, <2>2, <1>b, Zenon
    <3> QED
      BY <3>2, <3>3, Zenon
  <2> QED
    BY <2>1, <2>4, <1>a DEF WriterData, DataHolds
<1>3. CASE WriteSize
  <2>1. /\ wpc = "copy" /\ wpc' = "advance" /\ wpc \in Fills
        /\ start' = start /\ wmsg' = wmsg /\ wlen = DataWords(Length[wmsg])
        /\ Store(Wrap(start + 0), SizeWord(Length[wmsg]))
    BY <1>3, <1>b, Zenon DEF WriteSize, WriterGoes, Fills
  <2>2. \A k \in 1 .. DataWords(Length[wmsg]) : data[Wrap(start + 1 + k)] = DataWord(wmsg, k)
    BY <2>1, Zenon DEF WriterData, DataHolds
  <2>3. data'[start] = SizeWord(Length[wmsg])
    BY <2>1, <1>a, <1>b, StoreHere, Zenon
  <2>4. ASSUME NEW k \in 1 .. DataWords(Length[wmsg])
        PROVE  data'[Wrap(start + 1 + k)] = DataWord(wmsg, k)
    <3>1. data'[Wrap(start + (1 + k))] = data[Wrap(start + (1 + k))]
      BY <2>1, <1>b, WriterSparesOthers
    <3> QED
      BY <3>1, <2>2, <1>b, Zenon
  <2> QED
    BY <2>1, <2>3, <2>4, Zenon DEF WriterData, DataHolds
<1>4. CASE StoreWritePt
  <2>1. wpc' = "magic" /\ start' = start
    BY <1>4, Zenon DEF StoreWritePt, WriterGoes
  <2>2. queue' # <<>> /\ queue'[Len(queue')].at = start
    <3>1. queue \in Seq(Chunks)
      BY DEF TypeOK
    <3>2. queue' # <<>>
      BY <1>4, <3>1 DEF StoreWritePt
    <3> QED
      BY <1>4, <3>2, AppendChunk
  <2> QED
    BY <2>1, <2>2, Zenon DEF WriterData
<1>5. CASE ClearSize \/ WriteDeadMagic
  <2>1. /\ wpc' = wpc /\ wlen' = wlen /\ start' = start /\ wmsg' = wmsg /\ queue' = queue
    BY <1>5, Zenon DEF ClearSize, WriteDeadMagic, writer
  <2>2. queue # <<>>
    BY <1>5, ReaderHasChunk, Zenon DEF ClearSize, WriteDeadMagic, ReaderGoes, HoldsChunk
  <2>3. \E j \in 0 .. 1, w \in Words : Store(Wrap(read_pt + j), w)
    <3>1. CASE ClearSize
      <4>1. Store(Wrap(read_pt + 0), SizeWord(0))
        BY <3>1, <1>a, WrapSame, Zenon DEF ClearSize
      <4> QED
        BY <4>1, WordType
    <3>2. CASE WriteDeadMagic
      BY <3>2, WordType DEF WriteDeadMagic
    <3> QED
      BY <1>5, <3>1, <3>2, Zenon
  <2>4. PICK j \in 0 .. 1, w \in Words : Store(Wrap(read_pt + j), w)
    BY <2>3, Zenon
  <2>5. ASSUME wpc \in Fills, NEW k \in Nat, k < ChunkWords(wmsg)
        PROVE  data'[Wrap(start + k)] = data[Wrap(start + k)]
    BY <2>2, <2>4, <2>5, ReaderSparesWriter, Zenon
  <2>6. wpc \in Fills => data'[start] = data[start]
    BY <2>5, <1>b, Zenon
  <2>7. wpc \in Fills => \A k \in 1 .. DataWords(Length[wmsg]) :
                            data'[Wrap(start + 1 + k)] = data[Wrap(start + 1 + k)]
    BY <2>5, <1>b, Zenon
  <2>8. wpc = "copy" => wlen <= DataWords(Length[wmsg]) /\ DataHolds(start, wmsg, wlen)'
    BY <2>1, <2>7, <1>a DEF WriterData, DataHolds, Fills
  <2>9. wpc = "advance" => /\ data'[start] = SizeWord(Length[wmsg])
                           /\ DataHolds(start, wmsg, DataWords(Length[wmsg]))'
    BY <2>1, <2>6, <2>7, <1>a, Zenon DEF WriterData, DataHolds, Fills
  <2> QED
    BY <2>1, <2>8, <2>9, Zenon DEF WriterData
<1>6. CASE StoreReadPt
  <2>1. /\ wpc' = wpc /\ wlen' = wlen /\ start' = start /\ wmsg' = wmsg /\ data' = data
    BY <1>6, Zenon DEF StoreReadPt, writer
  <2>2. queue # <<>> /\ (wpc = "magic" => Len(queue) >= 2)
    BY <1>6, ReaderHasChunk, Zenon DEF StoreReadPt, ReaderGoes, HoldsChunk
  <2>3. ASSUME wpc = "magic" PROVE queue' # <<>> /\ start = queue'[Len(queue')].at
    <3>1. /\ Len(queue) \in Nat /\ Len(queue) >= 2 /\ Len(queue') = Len(queue) - 1
          /\ \A i \in 1 .. Len(queue') : queue'[i] = queue[i + 1]
      BY <1>6, <2>2, <2>3, RemoveChunk, Zenon
    <3>2. queue'[Len(queue')] = queue[Len(queue)] /\ Len(queue') # 0
      BY <3>1
    <3> QED
      BY <3>2, <2>3 DEF WriterData
  <2> QED
    BY <2>1, <2>3, Zenon DEF WriterData, DataHolds
<1>7. CASE UNCHANGED <<data, queue, wpc, wlen, start, wmsg>>
  BY <1>7, Zenon DEF WriterData, DataHolds
<1>8. CASE wpc' \notin {"copy", "advance", "magic"}
  BY <1>8, Zenon DEF WriterData
<1> QED
  BY ZenonT(40), <1>1, <1>2, <1>3, <1>4, <1>5, <1>6, <1>7, <1>8
     DEF Next, WriterStep, ReaderStep, vars, shared, writer, reader, WriterGoes, BeginTrySend,
         BeginSend, CheckSpace, InsufficientSpace, WriteZeroSize, WriteMagic, Post, Attach, Detach,
         SemWait, LoadPointers, LoadMagic, LoadSize, ReadData, SignalFlowControl, Return

\* Published chunks keep their contents until they are reclaimed.
LEMMA ContentsStep ==
  TypeOK /\ SemaphoreCountsChunks /\ Layout /\ WriterFits /\ WriterData /\ Contents /\ [Next]_vars
    => Contents'
<1> SUFFICES ASSUME TypeOK, SemaphoreCountsChunks, Layout, WriterFits, WriterData, Contents, [Next]_vars
             PROVE  Contents'
  BY Zenon
<1> DEFINE n == Len(queue)
           W(i) == DataWords(Length[queue[i].msg])
<1>a. /\ start \in Indices /\ wmsg \in Messages /\ wlen \in Nat /\ read_pt \in Indices
      /\ DataWords(Length[wmsg]) \in Nat \ {0}
      /\ ChunkWords(wmsg) = DataWords(Length[wmsg]) + 2
  BY ChunkWordsValue, Zenon DEF TypeOK
<1>b. \A i \in 1 .. n : queue[i].at \in Indices /\ queue[i].msg \in Messages
  BY ChunkType, Zenon
<1>c. \A i \in 1 .. n :
        /\ queue[i].at = Wrap(queue[i].at + 0)
        /\ 0 < ChunkWords(queue[i].msg) /\ 1 < ChunkWords(queue[i].msg)
        /\ \A k \in 1 .. W(i) : /\ Wrap(queue[i].at + 1 + k) = Wrap(queue[i].at + (1 + k))
                               /\ 1 + k \in Nat /\ 1 + k < ChunkWords(queue[i].msg)
  BY <1>b, ChunkAddresses, Zenon
<1>d. \A i \in 1 .. n :
        /\ (i = 1 /\ rpc \in {"dead", "advance"}) \/ data[queue[i].at] = SizeWord(Length[queue[i].msg])
        /\ \/ i = 1 /\ rpc = "advance"
           \/ i = n /\ wpc = "magic"
           \/ data[Wrap(queue[i].at + 1)] = CHUNK_MAGIC
        /\ \A k \in 1 .. W(i) : data[Wrap(queue[i].at + 1 + k)] = DataWord(queue[i].msg, k)
  BY Zenon DEF Contents, DataHolds
<1>e. start = Wrap(start + 0) /\ 0 < ChunkWords(wmsg) /\ 1 < ChunkWords(wmsg)
  BY <1>a, ChunkAddresses, Zenon
<1>1. CASE WriteZeroSize \/ WriteAllocMagic \/ WriteData \/ WriteSize
  <2>1. /\ wpc \in Fills /\ wpc # "magic" /\ wpc' # "magic" /\ rpc' = rpc /\ queue' = queue
    BY <1>1, Zenon DEF WriteZeroSize, WriteAllocMagic, WriteData, WriteSize, WriterGoes, Fills, reader
  <2>2. \E j \in Nat, w \in Words : j < ChunkWords(wmsg) /\ Store(Wrap(start + j), w)
    <3>1. CASE WriteZeroSize \/ WriteSize
      <4>1. Length[wmsg] \in Nat
        BY <1>a, ChunkWordsValue, Zenon
      <4>2. \E w \in Words : Store(Wrap(start + 0), w)
        BY <3>1, <4>1, <1>e, WordType, Zenon DEF WriteZeroSize, WriteSize
      <4> QED
        BY <4>2, <1>e, Zenon
    <3>2. CASE WriteAllocMagic
      BY <3>2, <1>e, WordType, Zenon DEF WriteAllocMagic
    <3>3. CASE WriteData
      <4>1. start \in Nat
        BY <1>a DEF Indices
      <4>2. /\ start + CHUNK_HEADER_WORDS + wlen = start + (2 + wlen)
            /\ 2 + wlen \in Nat /\ 2 + wlen < ChunkWords(wmsg)
        BY <3>3, <4>1, <1>a DEF CHUNK_HEADER_WORDS, WriteData
      <4>3. Data(wmsg)[wlen + 1] \in Words
        BY <3>3, <1>a, WordType DEF WriteData, Data
      <4> QED
        BY <3>3, <4>2, <4>3, Zenon DEF WriteData
    <3> QED
      BY <1>1, <3>1, <3>2, <3>3, Zenon
  <2>3. PICK j \in Nat, w \in Words : j < ChunkWords(wmsg) /\ Store(Wrap(start + j), w)
    BY <2>2, Zenon
  <2>4. ASSUME NEW i \in 1 .. n, NEW k \in Nat, k < ChunkWords(queue[i].msg)
        PROVE  data'[Wrap(queue[i].at + k)] = data[Wrap(queue[i].at + k)]
    BY ZenonT(40), <2>1, <2>3, <2>4, WriterSparesChunks
  <2>5. ASSUME NEW i \in 1 .. n
        PROVE  /\ data'[queue[i].at] = data[queue[i].at]
               /\ data'[Wrap(queue[i].at + 1)] = data[Wrap(queue[i].at + 1)]
               /\ \A k \in 1 .. W(i) : data'[Wrap(queue[i].at + 1 + k)] = data[Wrap(queue[i].at + 1 + k)]
    <3>1. data'[Wrap(queue[i].at + 0)] = data[Wrap(queue[i].at + 0)]
      BY <2>4, <1>c, Zenon
    <3> QED
      BY <3>1, <2>4, <1>c, Zenon
  <2> QED
    BY ZenonT(40), <2>1, <2>5, <1>d DEF Contents, DataHolds
<1>2. CASE StoreWritePt
  <2>1. /\ wpc = "advance" /\ wpc' = "magic" /\ rpc' = rpc /\ data' = data
    BY <1>2, Zenon DEF StoreWritePt, WriterGoes, reader
  <2>2. /\ n \in Nat /\ Len(queue') = n + 1
        /\ \A i \in 1 .. n : queue'[i] = queue[i]
        /\ queue'[n + 1].at = start /\ queue'[n + 1].msg = wmsg
    BY <1>2, AppendChunk
  <2>3. /\ data[start] = SizeWord(Length[wmsg])
        /\ \A k \in 1 .. DataWords(Length[wmsg]) : data[Wrap(start + 1 + k)] = DataWord(wmsg, k)
    BY <2>1, Zenon DEF WriterData, DataHolds
  <2> HIDE DEF n
  <2>4. ASSUME NEW i \in 1 .. n + 1
        PROVE  /\ (i = 1 /\ rpc \in {"dead", "advance"}) \/ data[queue'[i].at] = SizeWord(Length[queue'[i].msg])
               /\ \/ i = 1 /\ rpc = "advance"
                  \/ i = n + 1
                  \/ data[Wrap(queue'[i].at + 1)] = CHUNK_MAGIC
               /\ \A k \in 1 .. DataWords(Length[queue'[i].msg]) :
                    data[Wrap(queue'[i].at + 1 + k)] = DataWord(queue'[i].msg, k)
    <3>1. CASE i = n + 1
      BY <3>1, <2>2, <2>3, Zenon
    <3>2. CASE i # n + 1
      <4>1. i \in 1 .. n /\ queue'[i] = queue[i]
        BY <3>2, <2>2
      <4> QED
        BY <4>1, <2>1, <1>d, Zenon
    <3> QED
      BY <3>1, <3>2, Zenon
  <2> QED
    BY ZenonT(40), <2>1, <2>2, <2>4 DEF Contents, DataHolds
<1>3. CASE WriteMagic
  <2>1. /\ wpc = "magic" /\ wpc' = "post" /\ rpc' = rpc /\ queue' = queue
        /\ Store(Wrap(start + 1), CHUNK_MAGIC)
    BY <1>3, Zenon DEF WriteMagic, WriterGoes, reader
  <2>2. queue # <<>> /\ start = queue[n].at
    BY ZenonT(40), <2>1 DEF WriterData
  <2>3. n \in 1 .. n /\ n \in Nat
    BY <2>2, NotEmpty
  <2>4. data'[Wrap(start + 1)] = CHUNK_MAGIC
    <3>1. start + 1 \in Nat
      BY <1>a DEF Indices
    <3> QED
      BY <3>1, <2>1, WrapIndex, StoreHere, Zenon
  <2>5. ASSUME NEW i \in 1 .. n, NEW k \in Nat, k < ChunkWords(queue[i].msg), i # n \/ k # 1
        PROVE  data'[Wrap(queue[i].at + k)] = data[Wrap(queue[i].at + k)]
    <3>1. /\ 1 < ChunkWords(queue[n].msg) /\ Store(Wrap(queue[n].at + 1), CHUNK_MAGIC)
          /\ n # i \/ 1 # k
      BY <2>1, <2>2, <2>3, <2>5, <1>c, Zenon
    <3>2. /\ Wrap(queue[n].at + 1) \in Indices /\ Wrap(queue[i].at + k) \in Indices
          /\ n # i \/ 1 # k => Wrap(queue[n].at + 1) # Wrap(queue[i].at + k)
      BY <3>1, <2>3, <2>5, ChunkWordsDistinct, Zenon
    <3> QED
      BY <3>1, <3>2, StoreOther, Zenon
  <2>6. ASSUME NEW i \in 1 .. n
        PROVE  /\ data'[queue[i].at] = data[queue[i].at]
               /\ i # n => data'[Wrap(queue[i].at + 1)] = data[Wrap(queue[i].at + 1)]
               /\ \A k \in 1 .. W(i) : data'[Wrap(queue[i].at + 1 + k)] = data[Wrap(queue[i].at + 1 + k)]
    <3>1. data'[Wrap(queue[i].at + 0)] = data[Wrap(queue[i].at + 0)]
      BY <2>5, <1>c
    <3>2. ASSUME NEW k \in 1 .. W(i) PROVE data'[Wrap(queue[i].at + 1 + k)] = data[Wrap(queue[i].at + 1 + k)]
      <4>1. 1 + k # 1
        OBVIOUS
      <4> QED
        BY <4>1, <2>5, <1>c, Zenon
    <3> QED
      BY ZenonT(40), <3>1, <3>2, <2>5, <1>c
  <2> QED
    BY ZenonT(40), <2>1, <2>2, <2>4, <2>6, <1>d DEF Contents, DataHolds
<1>4. CASE ClearSize \/ WriteDeadMagic
  <2>1. /\ wpc' = wpc /\ queue' = queue
        /\ ClearSize => rpc = "copy" /\ rpc' = "dead"
        /\ WriteDeadMagic => rpc = "dead" /\ rpc' = "advance"
    BY <1>4, Zenon DEF ClearSize, WriteDeadMagic, ReaderGoes, writer
  <2>2. queue # <<>>
    BY <1>4, ReaderHasChunk, Zenon DEF ClearSize, WriteDeadMagic, ReaderGoes, HoldsChunk
  <2>3. 1 \in 1 .. n /\ queue[1].at = read_pt
    BY ZenonT(40), <2>2, NotEmpty DEF Layout
  <2>4. /\ ClearSize => Store(Wrap(queue[1].at + 0), SizeWord(0))
        /\ WriteDeadMagic => Store(Wrap(queue[1].at + 1), CHUNK_MAGIC_DEAD)
    BY <2>3, <1>c, Zenon DEF ClearSize, WriteDeadMagic
  <2>5. ASSUME NEW i \in 1 .. n, NEW k \in Nat, k < ChunkWords(queue[i].msg),
               i # 1 \/ k # (IF ClearSize THEN 0 ELSE 1)
        PROVE  data'[Wrap(queue[i].at + k)] = data[Wrap(queue[i].at + k)]
    <3>1. CASE ClearSize
      <4>1. /\ 0 < ChunkWords(queue[1].msg) /\ Store(Wrap(queue[1].at + 0), SizeWord(0))
            /\ 1 # i \/ 0 # k
        BY <3>1, <2>3, <2>4, <2>5, <1>c, Zenon
      <4>2. /\ Wrap(queue[1].at + 0) \in Indices /\ Wrap(queue[i].at + k) \in Indices
            /\ 1 # i \/ 0 # k => Wrap(queue[1].at + 0) # Wrap(queue[i].at + k)
        BY <4>1, <2>3, <2>5, ChunkWordsDistinct, Zenon
      <4> QED
        BY <4>1, <4>2, StoreOther, Zenon
    <3>2. CASE ~ClearSize
      <4>1. /\ 1 < ChunkWords(queue[1].msg) /\ Store(Wrap(queue[1].at + 1), CHUNK_MAGIC_DEAD)
            /\ 1 # i \/ 1 # k
        BY <3>2, <1>4, <2>3, <2>4, <2>5, <1>c, Zenon
      <4>2. /\ Wrap(queue[1].at + 1) \in Indices /\ Wrap(queue[i].at + k) \in Indices
            /\ 1 # i \/ 1 # k => Wrap(queue[1].at + 1) # Wrap(queue[i].at + k)
        BY <4>1, <2>3, <2>5, ChunkWordsDistinct, Zenon
      <4> QED
        BY <4>1, <4>2, StoreOther, Zenon
    <3> QED
      BY <3>1, <3>2, Zenon
  <2>6. ASSUME NEW i \in 1 .. n
        PROVE  /\ i # 1 \/ ~ClearSize => data'[queue[i].at] = data[queue[i].at]
               /\ i # 1 \/ ClearSize => data'[Wrap(queue[i].at + 1)] = data[Wrap(queue[i].at + 1)]
               /\ \A k \in 1 .. W(i) : data'[Wrap(queue[i].at + 1 + k)] = data[Wrap(queue[i].at + 1 + k)]
    <3>1. i # 1 \/ ~ClearSize => data'[Wrap(queue[i].at + 0)] = data[Wrap(queue[i].at + 0)]
      BY <2>5, <1>c
    <3>2. i # 1 \/ ClearSize => data'[Wrap(queue[i].at + 1)] = data[Wrap(queue[i].at + 1)]
      BY <2>5, <1>c
    <3>3. ASSUME NEW k \in 1 .. W(i) PROVE data'[Wrap(queue[i].at + 1 + k)] = data[Wrap(queue[i].at + 1 + k)]
      <4>1. 1 + k # 1 /\ 1 + k # 0
        OBVIOUS
      <4> QED
        BY <4>1, <2>5, <1>c, Zenon
    <3> QED
      BY <3>1, <3>2, <3>3, <1>c, Zenon
  <2>7. CASE ClearSize
    BY ZenonT(40), <2>7, <2>1, <2>6, <1>d DEF Contents, DataHolds
  <2>8. CASE ~ClearSize
    BY ZenonT(40), <2>8, <1>4, <2>1, <2>6, <1>d DEF Contents, DataHolds
  <2> QED
    BY <2>7, <2>8, Zenon
<1>5. CASE StoreReadPt
  <2>1. /\ wpc' = wpc /\ data' = data /\ rpc' = "signal"
    BY <1>5, Zenon DEF StoreReadPt, ReaderGoes, writer
  <2>2. queue # <<>>
    BY <1>5, ReaderHasChunk, Zenon DEF StoreReadPt, ReaderGoes, HoldsChunk
  <2>3. /\ n \in Nat /\ n >= 1 /\ Len(queue') = n - 1
        /\ \A i \in 1 .. n - 1 : queue'[i] = queue[i + 1]
    BY <1>5, <2>2, RemoveChunk, Zenon
  <2> HIDE DEF n
  <2>4. ASSUME NEW i \in 1 .. n - 1
        PROVE  /\ data[queue'[i].at] = SizeWord(Length[queue'[i].msg])
               /\ \/ i = n - 1 /\ wpc = "magic"
                  \/ data[Wrap(queue'[i].at + 1)] = CHUNK_MAGIC
               /\ \A k \in 1 .. DataWords(Length[queue'[i].msg]) :
                    data[Wrap(queue'[i].at + 1 + k)] = DataWord(queue'[i].msg, k)
    <3>1. i + 1 \in 1 .. n /\ i + 1 # 1 /\ queue'[i] = queue[i + 1] /\ (i + 1 = n => i = n - 1)
      BY SMTT(30), <2>3
    <3> QED
      BY ZenonT(40), <3>1, <1>d
  <2> QED
    BY ZenonT(40), <2>1, <2>3, <2>4 DEF Contents, DataHolds
<1>6. CASE /\ UNCHANGED <<data, queue>>
           /\ rpc \in {"dead", "advance"} => rpc' = rpc
           /\ wpc = "magic" => wpc' = "magic"
  BY ZenonT(40), <1>6, <1>d DEF Contents, DataHolds
<1> QED
  BY ZenonT(40), <1>1, <1>2, <1>3, <1>4, <1>5, <1>6
     DEF Next, WriterStep, ReaderStep, vars, shared, writer, reader, WriterGoes, ReaderGoes, BeginTrySend,
         BeginSend, CheckSpace, InsufficientSpace, Post, Attach, Detach,
         SemWait, LoadPointers, LoadMagic, LoadSize, ReadData, SignalFlowControl, Return

\* What the reader finds in the chunk it has claimed.
LEMMA ReaderFinds ==
  ASSUME TypeOK, SemaphoreCountsChunks, Layout, Contents, HoldsChunk
  PROVE  /\ queue # <<>> /\ 1 \in 1 .. Len(queue) /\ queue[1].at = read_pt /\ queue[1].msg \in Messages
         /\ rpc \notin {"dead", "advance"} => data[read_pt] = SizeWord(Length[queue[1].msg])
         /\ rpc # "advance" => data[Wrap(read_pt + 1)] = CHUNK_MAGIC
         /\ \A k \in 1 .. DataWords(Length[queue[1].msg]) :
              data[Wrap(read_pt + 1 + k)] = DataWord(queue[1].msg, k)
<1>1. queue # <<>> /\ (wpc \in {"magic", "post"} => Len(queue) >= 2)
  BY ReaderHasChunk, Zenon
<1>2. 1 \in 1 .. Len(queue) /\ queue[1].at = read_pt /\ queue[1].msg \in Messages /\ Len(queue) \in Nat
  BY <1>1, NotEmpty, ChunkType, Zenon DEF Layout
<1>3. ~(1 = Len(queue) /\ wpc = "magic")
  <2>1. ~(1 >= 2)
    OBVIOUS
  <2> QED
    BY <2>1, <1>1, Zenon
<1> QED
  BY <1>1, <1>2, <1>3, Zenon DEF Contents, DataHolds

\* The reader copies the message of the first chunk.
LEMMA ReaderDataStep ==
  TypeOK /\ SemaphoreCountsChunks /\ Layout /\ Contents /\ ReaderData /\ [Next]_vars => ReaderData'
<1> SUFFICES ASSUME TypeOK, SemaphoreCountsChunks, Layout, Contents, ReaderData, [Next]_vars
             PROVE  ReaderData'
  OBVIOUS
<1>a. buf \in Seq(Words) /\ Len(buf) \in Nat /\ rsize \in Nat /\ read_pt \in Nat
  BY SMTT(30) DEF TypeOK, Indices
<1>1. CASE LoadMagic
  <2>1. rpc = "magic" /\ rpc' = "size" /\ buf' = buf /\ rmagic' = data[Wrap(read_pt + 1)]
    BY <1>1, Zenon DEF LoadMagic, ReaderGoes
  <2>2. rmagic' = CHUNK_MAGIC
    BY <2>1, ReaderFinds, Zenon DEF HoldsChunk
  <2> QED
    BY ZenonT(40), <2>1, <2>2 DEF ReaderData
<1>2. CASE LoadSize
  <2>1. /\ rpc = "size" /\ rpc' = IF ChunkIsValid(data[read_pt]) THEN "copy" ELSE "error"
        /\ rsize' = IF data[read_pt][1] = "size" THEN data[read_pt][2] ELSE 0
        /\ buf' = buf /\ queue' = queue
    BY <1>2, Zenon DEF LoadSize, ReaderGoes
  <2>2. data[read_pt] = SizeWord(Length[queue[1].msg]) /\ queue[1].msg \in Messages
    BY <2>1, ReaderFinds, Zenon DEF HoldsChunk
  <2>3. Length[queue[1].msg] \in Nat \ {0} /\ DataWords(Length[queue[1].msg]) \in Nat
    BY <2>2, ChunkWordsValue, Zenon
  <2>4. data[read_pt][1] = "size" /\ data[read_pt][2] = Length[queue[1].msg]
    BY <2>2 DEF SizeWord
  <2>5. MaxChunkSize \in Nat
    BY SMTT(30), RingBufferAssumption DEF RingBufferAssumption, MaxChunkSize, CHUNK_HEADER_WORDS
  <2>6. ChunkIsValid(data[read_pt]) \/ Length[queue[1].msg] > MaxChunkSize
    BY <2>1, <2>3, <2>4, <2>5 DEF ChunkIsValid, ReaderData
  <2>7. buf = <<>> /\ Len(buf) = 0
    BY <2>1, Zenon DEF ReaderData
  <2> QED
    BY <2>1, <2>3, <2>4, <2>6, <2>7 DEF ReaderData
<1>3. CASE ReadData
  <2> DEFINE m == queue[1].msg
  <2>1. /\ rpc = "copy" /\ rpc' = "copy" /\ Len(buf) < DataWords(rsize)
        /\ buf' = Append(buf, data[Wrap(read_pt + CHUNK_HEADER_WORDS + Len(buf))])
        /\ rsize' = rsize /\ queue' = queue
    BY <1>3, Zenon DEF ReadData
  <2>2. /\ rsize = Length[m]
        /\ \A k \in 1 .. Len(buf) : buf[k] = DataWord(m, k)
    BY ZenonT(40), <2>1 DEF ReaderData
  <2>3. m \in Messages /\ \A k \in 1 .. DataWords(Length[m]) : data[Wrap(read_pt + 1 + k)] = DataWord(m, k)
    BY <2>1, ReaderFinds, Zenon DEF HoldsChunk
  <2>4. DataWords(rsize) \in Nat
    BY ZenonT(40), <2>2, <2>3, ChunkWordsValue
  <2>5. read_pt + CHUNK_HEADER_WORDS + Len(buf) = read_pt + 1 + (Len(buf) + 1)
    BY <1>a DEF CHUNK_HEADER_WORDS
  <2> HIDE DEF m
  <2>6. data[Wrap(read_pt + 1 + (Len(buf) + 1))] = DataWord(m, Len(buf) + 1)
    <3>1. Len(buf) + 1 \in 1 .. DataWords(Length[m])
      BY <1>a, <2>1, <2>2, <2>4
    <3> QED
      BY <3>1, <2>3, Zenon
  <2>7. buf' = Append(buf, DataWord(m, Len(buf) + 1))
    BY <2>1, <2>5, <2>6, Zenon
  <2>8. /\ Len(buf') = Len(buf) + 1
        /\ \A k \in 1 .. Len(buf) + 1 : buf'[k] = DataWord(m, k)
    <3>1. Len(buf') = Len(buf) + 1 /\ buf'[Len(buf) + 1] = DataWord(m, Len(buf) + 1)
      BY <1>a, <2>7
    <3>2. \A k \in 1 .. Len(buf) : buf'[k] = buf[k]
      BY <1>a, <2>7
    <3> QED
      BY <1>a, <2>2, <3>1, <3>2
  <2> QED
    <3>1. Len(buf') <= DataWords(rsize')
      BY <2>1, <2>4, <2>8, <1>a
    <3>2. queue'[1].msg = m /\ rsize' = Length[m]
      BY <2>1, <2>2, Zenon DEF m
    <3>3. \A k \in 1 .. Len(buf') : buf'[k] = DataWord(queue'[1].msg, k)
      BY <2>8, <3>2, Zenon
    <3> QED
      BY <2>1, <3>1, <3>2, <3>3, Zenon DEF ReaderData
<1>4. CASE ClearSize
  <2> DEFINE m == queue[1].msg
  <2>1. /\ rpc = "copy" /\ rpc' = "dead" /\ Len(buf) = DataWords(rsize)
        /\ buf' = buf /\ rsize' = rsize /\ queue' = queue
    BY <1>4, Zenon DEF ClearSize, ReaderGoes
  <2>2. /\ rsize = Length[m]
        /\ \A k \in 1 .. Len(buf) : buf[k] = DataWord(m, k)
    BY <2>1, Zenon DEF ReaderData
  <2> HIDE DEF m
  <2>3. buf = Data(m)
    BY <2>1, <2>2, <1>a DEF Data
  <2> QED
    BY <2>1, <2>2, <2>3, Zenon DEF ReaderData, m
<1>5. CASE StoreWritePt
  <2>1. rpc' = rpc /\ rsize' = rsize /\ rmagic' = rmagic /\ buf' = buf
    BY <1>5, Zenon DEF StoreWritePt, reader
  <2>2. HoldsChunk => queue'[1] = queue[1]
    <3>1. HoldsChunk => 1 \in 1 .. Len(queue)
      BY ReaderFinds, Zenon
    <3> QED
      BY <1>5, <3>1, AppendChunk, Zenon
  <2> QED
    BY <2>1, <2>2, Zenon DEF ReaderData, HoldsChunk
<1>6. CASE UNCHANGED <<rpc, rsize, rmagic, buf, queue>>
  BY <1>6, Zenon DEF ReaderData
<1>7. CASE SemWait \/ LoadPointers
  BY ZenonT(40), <1>7 DEF SemWait, LoadPointers, ReaderGoes, ReaderData
<1>8. CASE WriteDeadMagic
  BY <1>8, Zenon DEF WriteDeadMagic, ReaderGoes, ReaderData
<1>9. CASE StoreReadPt \/ SignalFlowControl
  BY <1>9, Zenon DEF StoreReadPt, SignalFlowControl, ReaderGoes, ReaderData
<1>10. ASSUME NEW depth \in 0 .. 2, Return(depth) PROVE ReaderData'
  BY <1>10, Zenon DEF Return, ReaderGoes, ReaderLocals, ReaderData
<1> QED
  BY ZenonT(40), <1>1, <1>2, <1>3, <1>4, <1>5, <1>6, <1>7, <1>8, <1>9, <1>10
     DEF Next, WriterStep, ReaderStep, vars, reader, BeginTrySend, BeginSend, CheckSpace,
         InsufficientSpace, WriteZeroSize, WriteAllocMagic, WriteData, WriteSize, WriteMagic, Post,
         Attach, Detach

\* The initial ring satisfies the invariant.
LEMMA InitIInv == Init => IInv
<1> SUFFICES ASSUME Init PROVE IInv
  BY Zenon
<1>1. 0 \in Indices /\ 0 \in Nat /\ 5 \in Nat
  BY RingBufferAssumption DEF RingBufferAssumption, CHUNK_HEADER_WORDS, Indices
<1>2. data \in [Indices -> Words]
  <2>1. \A i \in Indices : SizeWord(IF i = 0 THEN 5 ELSE 0) \in Words
    BY <1>1, WordType, Zenon
  <2> QED
    BY <2>1, Zenon DEF Init
<1>3. blocking \in BOOLEAN
  BY Zenon DEF Init
<1>4. TypeOK
  BY <1>1, <1>2, <1>3, WordType DEF Init, InitHeader, TypeOK
<1>5. /\ queue = <<>> /\ Len(queue) = 0 /\ sem = 0 /\ rpc = "wait" /\ wpc = "detached"
      /\ buf = <<>> /\ read_pt = write_pt
  BY Zenon DEF Init, InitHeader
<1>6. RefCount /\ SemaphoreCountsChunks
  BY <1>5 DEF Init, InitHeader, RefCount, SemaphoreCountsChunks, HoldsChunk
<1>7. Layout
  BY <1>4, <1>5 DEF Layout, Init, InitHeader
<1>8. WriterFits /\ WriterData
  BY <1>5, Zenon DEF WriterFits, WriterData, Fills
<1>9. Contents /\ ReaderData
  BY SMTT(30), <1>5 DEF Contents, ReaderData
<1> QED
  BY <1>4, <1>6, <1>7, <1>8, <1>9, Zenon DEF IInv

\* Every step of the writer and of the reader keeps the invariant.
THEOREM Inductive == Spec => []IInv
<1>1. Init => IInv
  BY InitIInv, Zenon
<1>2. IInv /\ [Next]_vars => IInv'
  <2> SUFFICES ASSUME IInv, [Next]_vars PROVE IInv'
    BY Zenon
  <2>1. TypeOK /\ RefCount /\ SemaphoreCountsChunks /\ Layout /\ WriterFits /\ WriterData /\ Contents /\ ReaderData
    BY Zenon DEF IInv
  <2>2. TypeOK' /\ RefCount'
    BY <2>1, TypeStep, Zenon
  <2>3. SemaphoreCountsChunks'
    BY <2>1, SemaphoreStep, Zenon
  <2>4. Layout'
    BY <2>1, LayoutStep, Zenon
  <2>5. WriterFits'
    BY <2>1, WriterFitsStep, Zenon
  <2>6. WriterData'
    BY <2>1, WriterDataStep, Zenon
  <2>7. Contents'
    BY <2>1, ContentsStep, Zenon
  <2>8. ReaderData'
    BY <2>1, ReaderDataStep, Zenon
  <2> QED
    BY <2>2, <2>3, <2>4, <2>5, <2>6, <2>7, <2>8, Zenon DEF IInv
<1> QED
  BY <1>1, <1>2, PTL DEF Spec

\* The words the writer fills and those of an unread chunk are apart
\* (ringbuffer.rs:418-448), for every ring size and every message length.
THEOREM UnreadSafe == Spec => []UnreadIsNotOverwritten
<1>1. IInv => UnreadIsNotOverwritten
  <2> SUFFICES ASSUME TypeOK, Layout, WriterFits,
                      NEW i \in 1 .. Len(queue), wpc \in Fills,
                      NEW j \in 0 .. ChunkWords(wmsg) - 1,
                      NEW k \in 0 .. ChunkWords(queue[i].msg) - 1
               PROVE  Wrap(start + j) # Wrap(queue[i].at + k)
    BY Zenon DEF IInv, UnreadIsNotOverwritten, WriterOwns, ChunkAt, Fills
  <2>1. wmsg \in Messages /\ queue[i].msg \in Messages
    BY ChunkType, Zenon DEF TypeOK
  <2>2. j \in Nat /\ j < ChunkWords(wmsg) /\ k \in Nat /\ k < ChunkWords(queue[i].msg)
    <3>1. ChunkWords(wmsg) \in Nat /\ ChunkWords(queue[i].msg) \in Nat
      BY <2>1, ChunkWordsValue, Zenon
    <3> QED
      BY <3>1
  <2>3. Dist(read_pt, Wrap(start + j)) = Dist(read_pt, write_pt) + j
    BY <2>2, WriterPosition, Zenon
  <2>4. /\ Wrap(queue[i].at + k) \in Indices
        /\ Dist(read_pt, Wrap(queue[i].at + k)) < Dist(read_pt, write_pt)
    BY <2>2, ChunkPosition, Zenon
  <2>5. Dist(read_pt, write_pt) \in Nat /\ Dist(read_pt, Wrap(queue[i].at + k)) \in Nat
    BY <2>4, DistRange, Zenon DEF TypeOK
  <2> QED
    BY SMTT(30), <2>2, <2>3, <2>4, <2>5
<1> QED
  BY <1>1, Inductive, PTL

\* The semaphore is exact, and the reader fails only on a chunk that is longer than
\* it admits (ringbuffer.rs:519, 558-609 and 1032).
THEOREM ReaderSafe == Spec => []SemaphoreCountsChunks /\ []ReaderFailsOnlyOnLong
<1>1. IInv => SemaphoreCountsChunks
  BY Zenon DEF IInv
<1>2. IInv => ReaderFailsOnlyOnLong
  <2> SUFFICES ASSUME TypeOK, SemaphoreCountsChunks, Layout, ReaderData PROVE ReaderFailsOnlyOnLong
    BY Zenon DEF IInv
  <2>1. rpc = "load" => read_pt # write_pt
    BY ReaderHasChunk, NotEmpty, Zenon DEF HoldsChunk
  <2> QED
    BY <2>1, Zenon DEF ReaderFailsOnlyOnLong, ReaderData
<1> QED
  BY <1>1, <1>2, Inductive, PTL

---------------------------------------------------------------------------------
\* The channel's state under the refinement mapping.
Chan == [i \in 1 .. Len(queue) |-> Data(queue[i].msg)]

Out == IF rpc \in {"signal", "return"} THEN buf ELSE got

\* Storing write_pt puts the message into the channel, which has room for it.
LEMMA StoreWritePtPuts ==
  ASSUME TypeOK, SemaphoreCountsChunks, Layout, WriterFits, ReaderData, [Next]_vars, StoreWritePt
  PROVE  /\ Len(Chan) < (WordSize - 1) \div (CHUNK_HEADER_WORDS + 1)
         /\ Chan' = Append(Chan, Data(wmsg)) /\ wmsg \in Messages /\ Out' = Out
<1>1. /\ Len(queue) \in Nat /\ Len(queue') = Len(queue) + 1
      /\ \A i \in 1 .. Len(queue) : queue'[i] = queue[i]
      /\ queue'[Len(queue) + 1].msg = wmsg
  BY AppendChunk
<1>2. Chan' = Append(Chan, Data(wmsg))
  <2>1. Chan' = [i \in 1 .. Len(queue) + 1 |-> Data(queue'[i].msg)]
    BY <1>1, Zenon DEF Chan
  <2>2. Append(Chan, Data(wmsg))
          = [i \in 1 .. Len(queue) + 1 |-> IF i = Len(queue) + 1 THEN Data(wmsg) ELSE Data(queue[i].msg)]
    BY <1>1 DEF Chan
  <2> QED
    BY <2>1, <2>2, <1>1
<1>3. Len(Chan) = Len(queue)
  BY <1>1 DEF Chan
<1>4. 3 * (Len(queue) + 1) < WordSize
  <2>1. Dist(read_pt, write_pt) + ChunkWords(wmsg) < WordSize /\ wmsg \in Messages
    BY Zenon DEF WriterFits, StoreWritePt, WriterGoes, Fills, TypeOK
  <2>2. 3 * Len(queue) <= Dist(read_pt, write_pt)
    <3>1. CASE queue = <<>>
      BY <3>1, DistRange DEF TypeOK
    <3>2. CASE queue # <<>>
      BY <3>2, NotEmpty, Zenon
    <3> QED
      BY <3>1, <3>2, Zenon
  <2>3. ChunkWords(wmsg) \in Nat /\ ChunkWords(wmsg) >= 3 /\ Dist(read_pt, write_pt) \in Nat
    BY <2>1, ChunkWordsValue, DistRange, Zenon DEF TypeOK
  <2> QED
    BY <2>1, <2>2, <2>3, <1>1, RingBufferAssumption DEF RingBufferAssumption
<1>5. Len(queue) < (WordSize - 1) \div (CHUNK_HEADER_WORDS + 1)
  BY <1>1, <1>4, RingBufferAssumption DEF RingBufferAssumption, CHUNK_HEADER_WORDS
<1> QED
  BY <1>2, <1>3, <1>5, Zenon DEF StoreWritePt, reader, Out, TypeOK

\* Storing read_pt takes the oldest message out of the channel.
LEMMA StoreReadPtGets ==
  ASSUME TypeOK, SemaphoreCountsChunks, Layout, ReaderData, StoreReadPt
  PROVE  Chan # <<>> /\ Out' = Head(Chan) /\ Chan' = Tail(Chan)
<1>1. queue # <<>>
  BY ReaderHasChunk DEF StoreReadPt, ReaderGoes, HoldsChunk
<1>2. /\ Len(queue) \in Nat /\ Len(queue) >= 1 /\ Len(queue') = Len(queue) - 1
      /\ \A i \in 1 .. Len(queue') : queue'[i] = queue[i + 1]
  BY <1>1, RemoveChunk, Zenon
<1>3. Out' = Data(queue[1].msg)
  BY Zenon DEF Out, StoreReadPt, ReaderGoes, ReaderData
<1>4. Chan[1] = Data(queue[1].msg) /\ Len(Chan) = Len(queue)
  BY <1>2 DEF Chan
<1>5. Chan' = [i \in 1 .. Len(queue) - 1 |-> Data(queue[i + 1].msg)]
  BY <1>2, Zenon DEF Chan
<1>6. Tail(Chan) = [i \in 1 .. Len(queue) - 1 |-> Data(queue[i + 1].msg)]
  BY <1>2 DEF Chan
<1> QED
  BY <1>2, <1>3, <1>4, <1>5, <1>6

\* The ring buffer implements a bounded first-in first-out channel
\* (ringbuffer.rs:463-660), for every ring size and every set of messages.
THEOREM RingBufferIsFifo == Spec => ImplementsFifo
<1>1. Init => Channel!Init
  BY SMTT(30) DEF Init, Channel!Init
<1>2. IInv /\ [Next]_vars => [Channel!Next]_Channel!vars
  <2> SUFFICES ASSUME IInv, [Next]_vars PROVE [Channel!Next]_Channel!vars
    BY Zenon
  <2>0. TypeOK /\ SemaphoreCountsChunks /\ Layout /\ WriterFits /\ ReaderData
    BY Zenon DEF IInv
  <2>1. CASE StoreWritePt
    <3>1. Channel!Put(Data(wmsg)) /\ wmsg \in Messages
      BY ZenonT(40), <2>0, <2>1, StoreWritePtPuts DEF Channel!Put, Chan, Out
    <3> QED
      BY <3>1, Zenon DEF Channel!Next
  <2>2. CASE StoreReadPt
    <3>1. Channel!Get
      BY ZenonT(40), <2>0, <2>2, StoreReadPtGets DEF Channel!Get, Chan, Out
    <3> QED
      BY <3>1, Zenon DEF Channel!Next
  <2>3. CASE queue' = queue /\ Out' = Out
    BY <2>3, Zenon DEF Channel!vars, Out
  <2> QED
    BY ZenonT(40), <2>1, <2>2, <2>3
       DEF Next, WriterStep, ReaderStep, vars, reader, Out, ReaderGoes, BeginTrySend, BeginSend,
           CheckSpace, InsufficientSpace, WriteZeroSize, WriteAllocMagic, WriteData, WriteSize,
           WriteMagic, Post, Attach, Detach, SemWait, LoadPointers, LoadMagic, LoadSize, ReadData,
           ClearSize, WriteDeadMagic, SignalFlowControl, Return
<1> QED
  BY <1>1, <1>2, Inductive, PTL DEF Spec, ImplementsFifo, Channel!Spec
=================================================================================
