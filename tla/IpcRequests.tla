------------------------------- MODULE IpcRequests -------------------------------
(***************************************************************************)
(* The requests of the IPC service (pmxcfs/src/ipc): how a request is      *)
(* parsed from the cells a client wrote, and what the handler answers.     *)
(* A message body is a sequence of cells; a cell is a character of a       *)
(* string, a length byte or a 32-bit number.  A parser yields the set of   *)
(* its results: empty when the code gives up, one element otherwise.       *)
(***************************************************************************)
EXTENDS Integers, Sequences, FiniteSets, FiniteSetsExt, TLC

CONSTANTS
  NameField,      \* cells of a fixed-width name, 256 in the code
  MaxStatusSize,  \* CFS_MAX_STATUS_SIZE
  MinVmid,        \* the lowest guest number, 100 in the code
  DefaultEntries  \* log entries when the client asks for 0, 50 in the code

(* The characters that the parsers and handlers tell apart. *)
Nul == 0
Newline == 10
Upper == 65
Lower == 97
NotUtf8 == 255
PrivPrefix == 112    \* stands for "priv/"
RrdPrefix == 114     \* stands for "rrd/"
NodeIp == <<105>>    \* the name "nodeip"
LocalNode == <<108>> \* the name of this node
TokenFile == <<PrivPrefix, 116>>

IsLower(c) == c \in Lower .. 122

IsText(s) == \A i \in DOMAIN s : s[i] # NotUtf8

Rest(s, n) == SubSeq(s, n + 1, Len(s))

(* CStr::from_bytes_until_nul and to_str. *)
CStr(s) ==
  {t \in {SubSeq(s, 1, i - 1) : i \in {j \in DOMAIN s : s[j] = Nul}} :
     IsText(t) /\ Nul \notin {t[i] : i \in DOMAIN t}}

(* CStr::from_bytes_with_nul: the only NUL is the last byte. *)
CStrWithNul(s) == {t \in CStr(s) : Len(t) = Len(s) - 1}

BareOps == {"GetFsVersion", "GetClusterInfo", "GetGuestList", "GetRrdDump"}

ParseSetStatus(d) ==
  IF Len(d) < NameField THEN {}
  ELSE {[op |-> "SetStatus", name |-> n, data |-> Rest(d, NameField)] :
          n \in CStr(SubSeq(d, 1, NameField))}

ParseGetStatus(d) ==
  IF Len(d) < 2 * NameField THEN {}
  ELSE {[op |-> "GetStatus", name |-> n, node |-> w] :
          n \in CStr(SubSeq(d, 1, NameField)),
          w \in CStr(SubSeq(d, NameField + 1, 2 * NameField))}

(* Mutant: the length of the ident is read without its NUL. *)
ParseLog_ShortIdent(d) ==
  IF Len(d) < 3 THEN {}
  ELSE LET start == 3 + d[2] + d[3] IN
       IF d[2] < 1 \/ d[3] < 1 \/ Len(d) < start + 1 THEN {}
       ELSE {[op |-> "LogClusterMsg", ident |-> i, tag |-> t, message |-> m] :
               i \in {SubSeq(d, 4, 2 + d[2] - 1)},
               t \in CStrWithNul(SubSeq(d, 4 + d[2], start)),
               m \in CStr(Rest(d, start))}

ParseLog(d) ==
  IF Len(d) < 3 THEN {}
  ELSE LET start == 3 + d[2] + d[3] IN
       IF d[2] < 1 \/ d[3] < 1 \/ Len(d) < start + 1 THEN {}
       ELSE {[op |-> "LogClusterMsg", ident |-> i, tag |-> t, message |-> m] :
               i \in CStrWithNul(SubSeq(d, 4, 3 + d[2])),
               t \in CStrWithNul(SubSeq(d, 4 + d[2], start)),
               m \in CStr(Rest(d, start))}

(* max_entries and three reserved words precede the user. *)
ParseGetLog(d) ==
  IF Len(d) <= 4 THEN {}
  ELSE {[op |-> "GetClusterLog", max |-> IF d[1] = 0 THEN DefaultEntries ELSE d[1],
         user |-> u] : u \in CStr(Rest(d, 4))}

ParseProperty(d) ==
  IF d = <<>> THEN {}
  ELSE {[op |-> "GetGuestConfigProperty", vmid |-> d[1], props |-> <<p>>] :
          p \in CStr(Rest(d, 1))}

(* The loop over the num_props properties, with nothing left over. *)
PropertyList(n, rest) ==
  LET next(s) == {[props |-> Append(s.props, p), rest |-> Rest(s.rest, Len(p) + 1)] :
                    p \in {q \in CStr(s.rest) : q # <<>> /\ IsLower(q[1])}}
      parsed[k \in 0 .. n] ==
        IF k = 0 THEN {[props |-> <<>>, rest |-> rest]}
        ELSE UNION {next(s) : s \in parsed[k - 1]}
  IN {s.props : s \in {t \in parsed[n] : t.rest = <<>>}}

ParseProperties(d) ==
  IF Len(d) < 2 \/ (Len(d) >= 2 /\ d[2] = 0) THEN {}
  ELSE {[op |-> "GetGuestConfigProperties", vmid |-> d[1], props |-> p] :
          p \in PropertyList(d[2], Rest(d, 2))}

(* IpcRequest::deserialize; an operation code that is not listed fails. *)
Deserialize(op, d) ==
  CASE op \in BareOps -> {[op |-> op]}
    [] op = "SetStatus" -> ParseSetStatus(d)
    [] op = "GetStatus" -> ParseGetStatus(d)
    [] op = "GetConfig" -> {[op |-> op, path |-> p] : p \in CStr(d)}
    [] op = "LogClusterMsg" -> ParseLog(d)
    [] op = "GetClusterLog" -> ParseGetLog(d)
    [] op = "GetGuestConfigProperty" -> ParseProperty(d)
    [] op = "VerifyToken" -> {[op |-> op, token |-> t] : t \in CStr(d)}
    [] op = "GetGuestConfigProperties" -> ParseProperties(d)
    [] OTHER -> {}

---------------------------------------------------------------------------------
(* What PVE::Cluster packs for a request: a name is cut to leave room for its NUL,
   a string ends in one.  The data of SetStatus are the cells after
   the name, with the NUL that ipcc_update_status adds; ipcc_remove_status sends none. *)
Packed(name) ==
  [i \in 1 .. NameField |-> IF i <= Len(name) /\ i < NameField THEN name[i] ELSE Nul]

Terminated(s) == Append(s, Nul)

Concatenated(ss) ==
  LET joined[k \in 0 .. Len(ss)] == IF k = 0 THEN <<>> ELSE joined[k - 1] \o Terminated(ss[k])
  IN joined[Len(ss)]

Encode(r) ==
  CASE r.op \in BareOps -> <<>>
    [] r.op = "SetStatus" -> Packed(r.name) \o r.data
    [] r.op = "GetStatus" -> Packed(r.name) \o Packed(r.node)
    [] r.op = "GetConfig" -> Terminated(r.path)
    [] r.op = "LogClusterMsg" ->
         <<6, Len(r.ident) + 1, Len(r.tag) + 1>>
           \o Terminated(r.ident) \o Terminated(r.tag) \o Terminated(r.message)
    [] r.op = "GetClusterLog" -> <<r.max, 0, 0, 0>> \o Terminated(r.user)
    [] r.op = "GetGuestConfigProperty" -> <<r.vmid>> \o Concatenated(r.props)
    [] r.op = "VerifyToken" -> Terminated(r.token)
    [] r.op = "GetGuestConfigProperties" ->
         <<r.vmid, Len(r.props)>> \o Concatenated(r.props)

---------------------------------------------------------------------------------
(* The handlers.  A store holds what they read and change: the lines of the
   files, the guests, the status of this node and of others, the log. *)
Ok(data, store) == [error |-> "OK", data |-> data, store |-> store]
Err(errno, store) == [error |-> errno, data |-> <<>>, store |-> store]

Space == <<32>>   \* what the writing requests answer

Has(f, x) == x \in DOMAIN f

GetConfig(store, r, readOnly) ==
  IF readOnly /\ r.path # <<>> /\ r.path[1] = PrivPrefix THEN Err("EPERM", store)
  ELSE IF Has(store.files, r.path) THEN Ok(store.files[r.path], store)
  ELSE Err("ENOENT", store)

GetStatus(store, r) ==
  LET local == r.node \in {<<>>, LocalNode}
      found == IF local THEN Has(store.status, r.name)
               ELSE Has(store.kv, r.node) /\ Has(store.kv[r.node], r.name)
  IN IF r.name = <<>> \/ ~found THEN Err("ENOENT", store)
     ELSE Ok(IF local THEN store.status[r.name] ELSE store.kv[r.node][r.name], store)

WithoutNul(s) == IF s # <<>> /\ s[Len(s)] = Nul THEN SubSeq(s, 1, Len(s) - 1) ELSE s

(* set_node_status: RRD data, the address of the node, or a status value. *)
SetStatus(store, r) ==
  LET rrd == r.name # <<>> /\ r.name[1] = RrdPrefix
      text == rrd \/ r.name = NodeIp
  IN IF Len(r.data) > MaxStatusSize \/ (text /\ ~IsText(r.data)) THEN Err("EIO", store)
     ELSE Ok(Space,
             IF rrd THEN [store EXCEPT !.rrd = (Tail(r.name) :> WithoutNul(r.data)) @@ @]
             ELSE IF r.name = NodeIp THEN [store EXCEPT !.ip = WithoutNul(r.data)]
             ELSE [store EXCEPT !.status = (r.name :> r.data) @@ @])

LogMessage(store, r) ==
  Ok(Space, [store EXCEPT !.log = <<[ident |-> r.ident, tag |-> r.tag,
                                     message |-> r.message]>> \o @])

GetLog(store, r) ==
  LET mine == SelectSeq(store.log, LAMBDA e : r.user = <<>> \/ e.ident = r.user)
  IN Ok(SubSeq(mine, 1, IF Len(mine) < r.max THEN Len(mine) ELSE r.max), store)

VerifyToken(store, r) ==
  IF r.token = <<>> \/ \E i \in DOMAIN r.token : r.token[i] = Newline THEN Err("EINVAL", store)
  ELSE IF /\ Has(store.files, TokenFile)
          /\ \E i \in DOMAIN store.files[TokenFile] : store.files[TokenFile][i] = r.token
       THEN Ok(<<>>, store)
       ELSE Err("ENOENT", store)

(* extract_properties: lines up to the first section, the last line of a key. *)
ExtractProperties(lines, props) ==
  LET sections == {i \in DOMAIN lines : lines[i].kind = "section"}
      useful == {i \in DOMAIN lines :
                   /\ \A s \in sections : i < s
                   /\ lines[i].kind = "property"
                   /\ lines[i].key # <<>> /\ IsLower(lines[i].key[1])
                   /\ lines[i].value # <<>>
                   /\ \E p \in DOMAIN props : props[p] = lines[i].key}
  IN [k \in {lines[i].key : i \in useful} |->
        lines[Max({i \in useful : lines[i].key = k})].value]

ConfigPath(vmid, node) == <<node, vmid>>

(* vmlist is the copy taken when the handler starts: the guest may have moved by
   the time its configuration is read. *)
GetProperties(store, r, vmlist) ==
  LET readable(v) == Has(store.files, ConfigPath(v, vmlist[v]))
      values(v) == ExtractProperties(store.files[ConfigPath(v, vmlist[v])], r.props)
      answer(vs) == [v \in {w \in vs : readable(w) /\ DOMAIN values(w) # {}} |-> values(v)]
  IN IF 0 < r.vmid /\ r.vmid < MinVmid THEN Err("EINVAL", store)
     ELSE IF r.vmid = 0 THEN Ok(answer(DOMAIN vmlist), store)
     ELSE IF ~Has(vmlist, r.vmid) THEN Err("ENOENT", store)
     ELSE IF ~readable(r.vmid) THEN Err("EIO", store)
     ELSE Ok(answer({r.vmid}), store)

(* handle_request. *)
HandleRequest(store, r, readOnly, vmlist) ==
  CASE r.op = "GetFsVersion" -> Ok(store.quorate, store)
    [] r.op = "GetClusterInfo" -> Ok(<<store.members, store.quorate>>, store)
    [] r.op = "GetGuestList" -> Ok(vmlist, store)
    [] r.op = "GetConfig" -> GetConfig(store, r, readOnly)
    [] r.op = "GetStatus" -> GetStatus(store, r)
    [] r.op = "SetStatus" -> IF readOnly THEN Err("EPERM", store) ELSE SetStatus(store, r)
    [] r.op = "LogClusterMsg" ->
         IF readOnly THEN Err("EPERM", store) ELSE LogMessage(store, r)
    [] r.op = "GetClusterLog" -> GetLog(store, r)
    [] r.op = "GetRrdDump" -> Ok(store.rrd, store)
    [] r.op = "VerifyToken" -> VerifyToken(store, r)
    [] OTHER -> GetProperties(store, r, vmlist)

(* handle: a request that does not parse is answered with EINVAL. *)
Handle(store, op, d, readOnly, vmlist) ==
  IF Deserialize(op, d) = {} THEN Err("EINVAL", store)
  ELSE HandleRequest(store, CHOOSE r \in Deserialize(op, d) : TRUE, readOnly, vmlist)

(* authenticate: root with group root, or the group of the web server. *)
Authenticate(uid, gid, www) ==
  IF uid = 0 /\ gid = 0 THEN "rw" ELSE IF gid = www THEN "ro" ELSE "refused"
=================================================================================
