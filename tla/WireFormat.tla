------------------------------ MODULE WireFormat ------------------------------
(***************************************************************************)
(* The frames of the two cluster groups: the header of DfsmMessage, and    *)
(* behind it a file system message (wire_format.rs), a status message      *)
(* (kv_store_message.rs), an encoded index (index.rs) or a tree entry      *)
(* (types.rs).                                                             *)
(*                                                                         *)
(* A frame is a sequence of cells.  An integer field is one cell, whatever *)
(* its width, and a 32-bit field keeps its value modulo Word; a byte of     *)
(* text or of data is one cell; zero ends a C string.  Lead and Trail are  *)
(* the two bytes of a character outside ASCII.  A digest is one cell.  The *)
(* timestamps of state messages are not kept by the receiver and are zero  *)
(* here.                                                                   *)
(***************************************************************************)
EXTENDS Integers, Sequences, FiniteSetsExt

CONSTANTS Word,            \* 2^32
          KeyField,        \* 256, the key field of a status update
          MaxMessageSize,  \* MAX_MESSAGE_SIZE of CFuseMessage::parse
          Frames           \* the messages of the model

VARIABLES sent,   \* the message a node has sent
          wire,   \* its frame
          got     \* what the receiver has made of it

wireVars == <<sent, wire, got>>

Nothing == [ok |-> FALSE, msg |-> "nothing"]
Refused == [ok |-> FALSE, msg |-> "refused"]
Panics == [ok |-> FALSE, msg |-> "panics"]
Parsed(m) == [ok |-> TRUE, msg |-> m]

U32(n) == n % Word
Nul == 0
From(cells, i) == SubSeq(cells, i, Len(cells))

\* The cells before the first Nul; a field without one is refused.
HasNul(s) == \E i \in DOMAIN s : s[i] = Nul
UntilNul(s) == SubSeq(s, 1, Min({i \in DOMAIN s : s[i] = Nul}) - 1)

\* str::from_utf8 accepts the cells: no half of a character is on its own.
Lead == 195
Trail == 169
IsUtf8(s) ==
  /\ \A i \in DOMAIN s : s[i] = Lead => i < Len(s) /\ s[i + 1] = Trail
  /\ \A i \in DOMAIN s : s[i] = Trail => i > 1 /\ s[i - 1] = Lead

-----------------------------------------------------------------------------
\* File system messages.

CMessageType == [Write |-> 1, Mkdir |-> 2, Delete |-> 3, Rename |-> 4, Create |-> 5,
                 Mtime |-> 6, UnlockRequest |-> 7, Unlock |-> 8]

\* FuseMessage::serialize: the mtime travels in the offset field.
CFuseMessage(m) ==
  [size   |-> IF m.type = "Write" THEN U32(Len(m.data)) ELSE 0,
   offset |-> CASE m.type = "Write" -> U32(m.offset)
                [] m.type = "Mtime" -> U32(m.mtime)
                [] OTHER            -> 0,
   path   |-> m.path,
   to     |-> IF m.type = "Rename" THEN m.to ELSE <<>>,
   data   |-> IF m.type = "Write" THEN m.data ELSE <<>>]

\* CFuseMessage::serialize: an empty string has no terminator.
Terminated(s) == IF s = <<>> THEN <<>> ELSE Append(s, Nul)

\* Mutant: the terminator is not counted in the length of the first path.
SerializeFuse_ShortPath(m) ==
  LET c == CFuseMessage(m)
  IN  <<c.size, c.offset, Len(c.path), Len(Terminated(c.to)), 0>>
        \o Terminated(c.path) \o Terminated(c.to) \o c.data

SerializeFuse(m) ==
  LET c == CFuseMessage(m)
  IN  <<c.size, c.offset, Len(Terminated(c.path)), Len(Terminated(c.to)), 0>>
        \o Terminated(c.path) \o Terminated(c.to) \o c.data

\* CFuseMessage::parse.  The five cells of the header say where the fields are.
ParseC(cells) ==
  LET size == cells[1]
      pathEnd == 5 + cells[3]
      toEnd == pathEnd + cells[4]
      path == SubSeq(cells, 6, pathEnd)
      to == SubSeq(cells, pathEnd + 1, toEnd)
  IN  IF \/ Len(cells) < 5
         \/ size + cells[3] + cells[4] > MaxMessageSize
         \/ toEnd + size > Len(cells)
         \/ path # <<>> /\ (~ HasNul(path) \/ ~ IsUtf8(UntilNul(path)))
         \/ to # <<>> /\ (~ HasNul(to) \/ ~ IsUtf8(UntilNul(to)))
      THEN Refused
      ELSE Parsed([offset |-> cells[2],
                   path |-> IF path = <<>> THEN <<>> ELSE UntilNul(path),
                   to |-> IF to = <<>> THEN <<>> ELSE UntilNul(to),
                   data |-> SubSeq(cells, toEnd + 1, toEnd + size)])

\* FuseMessage::deserialize
DeserializeFuse(code, cells) ==
  LET types == {t \in DOMAIN CMessageType : CMessageType[t] = code}
      type == CHOOSE t \in types : TRUE
      c == ParseC(cells)
  IN  IF ~ c.ok \/ types = {} THEN Refused ELSE Parsed(
        CASE type = "Write" -> [type |-> type, path |-> c.msg.path,
                                offset |-> c.msg.offset, data |-> c.msg.data]
          [] type = "Rename" -> [type |-> type, path |-> c.msg.path, to |-> c.msg.to]
          [] type = "Mtime" -> [type |-> type, path |-> c.msg.path, mtime |-> c.msg.offset]
          [] OTHER -> [type |-> type, path |-> c.msg.path])

-----------------------------------------------------------------------------
\* Status messages.

KvStoreMessageType == [Update |-> 1, UpdateComplete |-> 2, Log |-> 3]

\* Mutant: the key may fill its field.
KeyCells_Full(key) ==
  LET n == IF Len(key) > KeyField THEN KeyField ELSE Len(key)
  IN  [i \in 1 .. KeyField |-> IF i <= n THEN key[i] ELSE Nul]

\* The key field: a longer key is cut so that a Nul follows it.
KeyCells(key) ==
  LET n == IF Len(key) >= KeyField THEN KeyField - 1 ELSE Len(key)
  IN  [i \in 1 .. KeyField |-> IF i <= n THEN key[i] ELSE Nul]

\* KvStoreMessage::serialize; the priority and its padding are one cell.
SerializeKv(m) ==
  CASE m.type = "Update" -> KeyCells(m.key) \o m.value
    [] m.type = "UpdateComplete" -> <<>>
    [] m.type = "Log" ->
         <<U32(m.time), m.priority, Len(m.node) + 1, Len(m.ident) + 1, Len(m.tag) + 1,
           Len(m.message) + 1>>
           \o Append(m.node, Nul) \o Append(m.ident, Nul) \o Append(m.tag, Nul)
           \o Append(m.message, Nul)

\* The part of KvStoreMessage::deserialize for a log entry.  The header has six
\* cells, its length check asks for five; a string without its Nul underflows.
DeserializeLog(cells) ==
  LET node == 6 + cells[3]
      ident == node + cells[4]
      tag == ident + cells[5]
      message == tag + cells[6]
      texts == <<SubSeq(cells, 7, node - 1), SubSeq(cells, node + 1, ident - 1),
                 SubSeq(cells, ident + 1, tag - 1), SubSeq(cells, tag + 1, message - 1)>>
  IN  IF Len(cells) < 5 THEN Refused
      ELSE IF Len(cells) < 6 THEN Panics
      ELSE IF Len(cells) # message THEN Refused
      ELSE IF 0 \in {cells[3], cells[4], cells[5], cells[6]} THEN Panics
      ELSE IF \E i \in DOMAIN texts : ~ IsUtf8(texts[i]) THEN Refused
      ELSE Parsed([type |-> "Log", time |-> cells[1], priority |-> cells[2],
                   node |-> texts[1], ident |-> texts[2], tag |-> texts[3],
                   message |-> texts[4]])

\* KvStoreMessage::deserialize
DeserializeKv(code, cells) ==
  LET field == SubSeq(cells, 1, KeyField)
  IN  CASE code = KvStoreMessageType.Update ->
             IF Len(cells) < KeyField \/ ~ HasNul(field) THEN Refused
             ELSE IF ~ IsUtf8(UntilNul(field)) THEN Refused
             ELSE Parsed([type |-> "Update", key |-> UntilNul(field),
                          value |-> From(cells, KeyField + 1)])
        [] code = KvStoreMessageType.UpdateComplete -> Parsed([type |-> "UpdateComplete"])
        [] code = KvStoreMessageType.Log -> DeserializeLog(cells)
        [] OTHER -> Refused

-----------------------------------------------------------------------------
\* Tree entries and indexes.

DtDir == 4
DtReg == 8

\* TreeEntry::serialize_for_update
SerializeEntry(e) ==
  <<e.parent, e.inode, e.version, e.writer, e.mtime, U32(e.size), Len(e.name) + 1, e.type>>
    \o Append(e.name, Nul) \o (IF e.type = DtReg THEN e.data ELSE <<>>)

\* Mutant: the size is not looked at.
DeserializeEntry_AllData(cells) ==
  LET nameEnd == 8 + cells[7]
  IN  Parsed([parent |-> cells[1], inode |-> cells[2], version |-> cells[3],
              writer |-> cells[4], mtime |-> cells[5], size |-> cells[6],
              type |-> cells[8], name |-> SubSeq(cells, 9, nameEnd),
              data |-> From(cells, nameEnd + 1)])

\* TreeEntry::deserialize_from_update
DeserializeEntry(cells) ==
  LET nameEnd == 8 + cells[7]
  IN  IF \/ Len(cells) < 8 \/ cells[8] \notin {DtDir, DtReg}
         \/ Len(cells) < nameEnd + cells[6]
         \/ cells[7] = 0 \/ cells[nameEnd] # Nul
         \/ ~ IsUtf8(SubSeq(cells, 9, nameEnd - 1))
      THEN Refused
      ELSE Parsed([parent |-> cells[1], inode |-> cells[2], version |-> cells[3],
                   writer |-> cells[4], mtime |-> cells[5], size |-> cells[6],
                   type |-> cells[8], name |-> SubSeq(cells, 9, nameEnd - 1),
                   data |-> IF cells[8] = DtReg
                            THEN SubSeq(cells, nameEnd + 1, nameEnd + cells[6]) ELSE <<>>])

\* IndexEntry::serialize and deserialize
SerializeIndexEntry(e) == <<e.inode, e.digest>>
DeserializeIndexEntry(cells) == [inode |-> cells[1], digest |-> cells[2]]

\* MemDbIndex::serialize; new has sorted the entries and counted the bytes.
IndexHeader == 6
SerializeIndex(ix) ==
  <<ix.version, ix.lastInode, ix.writer, ix.mtime, Len(ix.entries),
    IndexHeader + 2 * Len(ix.entries)>>
    \o [c \in 1 .. 2 * Len(ix.entries) |->
          SerializeIndexEntry(ix.entries[(c + 1) \div 2])[2 - (c % 2)]]

\* MemDbIndex::deserialize
DeserializeIndex(cells) ==
  IF \/ Len(cells) < IndexHeader \/ cells[6] # IndexHeader + 2 * cells[5]
     \/ Len(cells) < cells[6]
  THEN Refused
  ELSE Parsed([version |-> cells[1], lastInode |-> cells[2], writer |-> cells[3],
               mtime |-> cells[4],
               entries |-> [i \in 1 .. cells[5] |->
                              DeserializeIndexEntry(SubSeq(cells, 5 + 2 * i, 6 + 2 * i))]])

-----------------------------------------------------------------------------
\* The frames of DfsmMessage.

DfsmMessageType == [Normal |-> 0, SyncStart |-> 1, State |-> 2, Update |-> 3,
                    UpdateComplete |-> 4, VerifyRequest |-> 5, Verify |-> 6]

ProtocolVersion == 1

\* SyncEpoch::serialize and deserialize
SerializeEpoch(ep) == <<U32(ep.epoch), U32(ep.time), ep.nodeid, ep.pid>>
DeserializeEpoch(cells) ==
  [epoch |-> cells[1], time |-> cells[2], nodeid |-> cells[3], pid |-> cells[4]]

\* The message of a group: the database group carries file system messages, the
\* status group carries status messages.
MessageCode(group, m) ==
  IF group = "database" THEN CMessageType[m.type] ELSE KvStoreMessageType[m.type]
SerializeMessage(group, m) == IF group = "database" THEN SerializeFuse(m) ELSE SerializeKv(m)
DeserializeMessage(group, code, cells) ==
  IF group = "database" THEN DeserializeFuse(code, cells) ELSE DeserializeKv(code, cells)

\* serialize_normal_message
SerializeNormal(f) ==
  <<DfsmMessageType.Normal, MessageCode(f.group, f.message), f.protocol, U32(f.time), 0,
    f.count>> \o SerializeMessage(f.group, f.message)

\* extract_epoch_and_payload; the payload of State is the encoded index.
Payload(f) ==
  CASE f.kind = "State" -> SerializeIndex(f.index)
    [] f.kind = "Update" -> SerializeEntry(f.entry)
    [] f.kind = "VerifyRequest" -> <<f.id>>
    [] f.kind = "Verify" -> <<f.id, f.checksum>>
    [] OTHER -> <<>>

\* serialize_state_message
SerializeState(f) ==
  <<DfsmMessageType[f.kind], 0, ProtocolVersion, 0, 0>> \o SerializeEpoch(f.epoch) \o Payload(f)

Serialize(f) == IF f.kind = "Normal" THEN SerializeNormal(f) ELSE SerializeState(f)

\* deserialize_normal_message
DeserializeNormal(group, cells) ==
  LET m == DeserializeMessage(group, cells[2], From(cells, 7))
  IN  IF Len(cells) < 6 \/ ~ m.ok THEN Refused
      ELSE Parsed([kind |-> "Normal", group |-> group, protocol |-> cells[3],
                   time |-> cells[4], count |-> cells[6], message |-> m.msg])

\* deserialize_state_message; process_state reads the index back.
DeserializeState(group, kind, epoch, payload) ==
  LET head == [kind |-> kind, group |-> group, epoch |-> epoch]
      add(r, field) == IF r.ok THEN Parsed([x \in DOMAIN head \cup {field} |->
                                              IF x = field THEN r.msg ELSE head[x]])
                               ELSE Refused
  IN  CASE kind = "Update" -> add(DeserializeEntry(payload), "entry")
        [] kind = "State" -> add(DeserializeIndex(payload), "index")
        [] kind = "VerifyRequest" ->
             IF Len(payload) < 1 THEN Refused ELSE add(Parsed(payload[1]), "id")
        [] kind = "Verify" ->
             IF Len(payload) < 2 THEN Refused
             ELSE Parsed([kind |-> kind, group |-> group, epoch |-> epoch,
                          id |-> payload[1], checksum |-> payload[2]])
        [] OTHER -> Parsed(head)

\* DfsmMessage::deserialize, by a node of the group.
Deserialize(group, cells) ==
  LET kinds == {k \in DOMAIN DfsmMessageType : DfsmMessageType[k] = cells[1]}
      kind == CHOOSE k \in kinds : TRUE
  IN  IF Len(cells) < 5 \/ kinds = {} THEN Refused
      ELSE IF kind = "Normal" THEN DeserializeNormal(group, cells)
      ELSE IF Len(cells) < 9 THEN Refused
      ELSE DeserializeState(group, kind, DeserializeEpoch(SubSeq(cells, 6, 9)),
                            From(cells, 10))

-----------------------------------------------------------------------------
WireInit == sent = Nothing /\ wire = <<>> /\ got = Nothing

\* send_dfsm_message
Transmit(f) ==
  /\ sent = Nothing
  /\ sent' = Parsed(f) /\ wire' = Serialize(f) /\ got' = Nothing

\* handle_message of a node of the same group.
Receive ==
  /\ sent # Nothing /\ got = Nothing
  /\ got' = Deserialize(sent.msg.group, wire)
  /\ UNCHANGED <<sent, wire>>

WireNext == (\E f \in Frames : Transmit(f)) \/ Receive

-----------------------------------------------------------------------------
\* What a frame carries of a message: a key of 256 bytes or more only its first
\* 255, and nothing readable if the cut is inside a character; the offset of a
\* write its lower 32 bits; all the rest in full.
Carried(f) ==
  LET long == f.kind = "Normal" /\ f.message.type = "Update" /\ Len(f.message.key) >= KeyField
      write == f.kind = "Normal" /\ f.message.type = "Write"
  IN  CASE long /\ f.message.key[KeyField - 1] = Lead -> Refused
        [] long /\ f.message.key[KeyField - 1] # Lead ->
             Parsed([f EXCEPT !.message.key = SubSeq(@, 1, KeyField - 1)])
        [] write -> Parsed([f EXCEPT !.message.offset = U32(@)])
        [] OTHER -> Parsed(f)

\* What a node reads from a frame is what the frame carries, and so what was sent
\* unless a key or an offset is too large for its field: for every kind of message,
\* with empty names, values and files, text outside ASCII, and the counts, epochs
\* and digests of the header (serialize and deserialize of dfsm_message.rs,
\* wire_format.rs, kv_store_message.rs, types.rs and index.rs).  No frame of one
\* node makes another panic, and a status update is lost as a whole only when the
\* end of the key field splits a character.
FramesReadBack == got # Nothing => got = Carried(sent.msg)

=============================================================================
