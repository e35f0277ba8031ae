--------------------------------- MODULE MCDaemon --------------------------------
(* The tasks of the daemon process.  Each behaviour looks at one part: "tasks" is two
   cluster services, one with a timer, over two descriptor numbers, so that numbers
   are reused by the same service and by the other one; "conn" is one IPC connection
   whose client does not wait for its answers; "accept" is two clients and a server
   that stops; "ask" is one client that waits for the answer before it sends again,
   with every request. *)
EXTENDS ServiceManager, IpcServer

CONSTANTS s1, s2

VARIABLE focus

MCTimerPeriod == (s1 :> 2) @@ (s2 :> 0)

Hello(sized, max, uid, gid) == [sized |-> sized, max |-> max, uid |-> uid, gid |-> gid]

MCHandshakes ==
  {Hello(TRUE, 5, 0, 0), Hello(TRUE, 2, 7, 3), Hello(TRUE, 6, 0, 0), Hello(TRUE, 5, 0, 1),
   Hello(TRUE, 1, 0, 0), Hello(FALSE, 5, 0, 0)}

Line(kind, key, value) == [kind |-> kind, key |-> key, value |-> value]

GuestConfig ==
  <<Line("noise", <<>>, <<>>), Line("property", <<97>>, <<49>>),
    Line("property", <<98>>, <<>>), Line("property", <<Upper>>, <<49>>),
    Line("property", <<97>>, <<50>>), Line("section", <<>>, <<>>),
    Line("property", <<98>>, <<49>>)>>

(* Guest 3 has a configuration, guest 4 is listed and has none. *)
MCStore ==
  [files |-> (TokenFile :> <<<<116>>>>) @@ (<<99>> :> <<<<49>>>>)
               @@ (ConfigPath(3, 1) :> GuestConfig),
   vmlist |-> (3 :> 1) @@ (4 :> 1), members |-> {1, 2}, quorate |-> TRUE,
   status |-> <<>>, kv |-> (<<110>> :> (<<97>> :> <<51>>)), ip |-> <<>>, rrd |-> <<>>,
   log |-> <<>>]

Writes ==
  {[op |-> "SetStatus", name |-> n, data |-> d] :
     n \in {<<97>>, NodeIp, <<RrdPrefix, 107>>}, d \in {<<49, 0>>, <<NotUtf8>>, <<1, 2, 3, 4>>}}
  \cup {[op |-> "LogClusterMsg", ident |-> i, tag |-> <<116>>, message |-> m] :
          i \in {<<>>, <<97, 98>>}, m \in {<<>>, <<109>>}}

Reads ==
  {[op |-> o] : o \in BareOps}
  \cup {[op |-> "GetStatus", name |-> n, node |-> w] :
          n \in {<<>>, <<97>>}, w \in {<<>>, LocalNode, <<110>>, <<111>>}}
  \cup {[op |-> "GetConfig", path |-> p] : p \in {<<99>>, TokenFile, <<100>>}}
  \cup {[op |-> "GetClusterLog", max |-> n, user |-> u] : n \in {0, 1}, u \in {<<>>, <<97, 98>>}}
  \cup {[op |-> "VerifyToken", token |-> t] : t \in {<<>>, <<116>>, <<117>>, <<116, Newline>>}}
  \cup {[op |-> "GetGuestConfigProperty", vmid |-> v, props |-> <<<<97>>>>] : v \in {0, 2, 3}}
  \cup {[op |-> "GetGuestConfigProperties", vmid |-> v, props |-> p] :
          v \in {0, 4, 5}, p \in {<<<<97>>>>, <<<<98>>, <<97, 97>>>>}}

Input(r) == [size |-> "whole", op |-> r.op, data |-> Encode(r), req |-> {r}]

(* Message bodies that no client packs. *)
Garbled ==
  {[size |-> "whole", op |-> o[1], data |-> o[2], req |-> {}] : o \in
     {<<"Unknown", <<>>>>, <<"SetStatus", <<97, 0>>>>, <<"SetStatus", <<97, 97, 97>>>>,
      <<"SetStatus", <<NotUtf8, 0, 0>>>>, <<"GetStatus", <<97, 0, 0, 0>>>>,
      <<"GetConfig", <<97>>>>, <<"LogClusterMsg", <<6, 1>>>>,
      <<"LogClusterMsg", <<6, 0, 1, 0, 0>>>>, <<"LogClusterMsg", <<6, 1, 1, 0, 0>>>>,
      <<"LogClusterMsg", <<6, 2, 1, 97, 97, 0, 0>>>>,
      <<"LogClusterMsg", <<6, 2, 1, 0, 0, 0, 0>>>>, <<"LogClusterMsg", <<6, 1, 1, 0, 0, 109>>>>,
      <<"GetClusterLog", <<1, 0, 0, 0>>>>, <<"GetGuestConfigProperty", <<>>>>,
      <<"GetGuestConfigProperties", <<3, 0>>>>, <<"GetGuestConfigProperties", <<3, 1>>>>,
      <<"GetGuestConfigProperties", <<3, 1, 0>>>>,
      <<"GetGuestConfigProperties", <<3, 1, Upper, 0>>>>,
      <<"GetGuestConfigProperties", <<3, 1, 97, 0, 97>>>>,
      <<"GetGuestConfigProperties", <<3, 2, 97, 0>>>>}}

Simple == Input([op |-> "GetFsVersion"])

Status97 == [op |-> "SetStatus", name |-> <<97>>, data |-> <<49, 0>>]

Broken == {[Simple EXCEPT !.size = s] : s \in {"short", "long"}}

MCInputs == {Input(r) : r \in Reads \cup Writes} \cup Garbled \cup Broken

First == {Input(r) : r \in Reads \cup Writes} \cup Garbled
Second == {Input(r) : r \in Reads}
Few == Broken \cup {Input(Status97)}

(* What each behaviour asks.  A second request of "ask" reads what the first
   has written. *)
Asks(c) ==
  CASE focus = "conn" /\ link[c].ring = <<>> -> {Simple}
    [] focus = "accept" /\ c = 1 /\ link[c].asked = 0 -> Few
    [] focus = "ask" /\ link[c].asked = 0 -> First
    [] focus = "ask" /\ link[c].asked = 1 /\ Len(link[c].answers) = 1
         /\ link[c].unread = 0 /\ store # MCStore -> Second
    [] OTHER -> {}

MCClient(c) ==
  /\ focus = "accept" \/ c = 1
  /\ \/ Connect(c)
     \/ focus # "accept" /\ ClientReads(c)
     \/ focus # "ask" /\ ClientLeaves(c)
     \/ client[c] = "joined" /\ \E m \in Asks(c) : ClientSends(c, m)

(* Only "accept" looks at the acceptor: it is done with a connection, or has refused
   it, before anything else happens in the other behaviours. *)
MCIpc ==
  \/ AcceptorStep /\ (focus = "accept" => \A c \in Clients : ~link'[c].readOnly)
  \/ /\ focus = "accept" \/ acceptor.pc = "accept"
     /\ \/ focus = "accept" /\ StopStep
        \/ focus = "ask" /\ link[1].busy # <<>> /\ GuestMoves(3, 2)
        \/ \E c \in Clients : ConnectionStep(c) \/ MCClient(c)

(* The tasks after a shutdown, where a behaviour is not about them. *)
InitStopped ==
  /\ running = [s \in Services |-> FALSE]
  /\ asyncFd = [s \in Services |-> NoFd]
  /\ serviceFd = [s \in Services |-> NoFd]
  /\ registered = {}
  /\ pending = [s \in Services |-> FALSE]
  /\ sinceInit = [s \in Services |-> 0]
  /\ sinceTimer = [s \in Services |-> 0]
  /\ stopped = [s \in Services |-> TRUE]
  /\ cancelled = TRUE

MCInit ==
  /\ IpcInit
  /\ \/ focus = "tasks" /\ Init
     \/ focus \in {"conn", "accept", "ask"} /\ InitStopped

MCNext ==
  /\ \/ focus = "tasks" /\ Next /\ UNCHANGED ipcVars
     \/ focus # "tasks" /\ MCIpc /\ UNCHANGED vars
  /\ UNCHANGED focus

mcVars == <<vars, ipcVars, focus>>

(* The fairness of ServiceManager, in the behaviours that run its tasks. *)
TasksFairness ==
  /\ WF_vars(focus = "tasks" /\ Tick)
  /\ \A s \in Services :
       /\ WF_vars(focus = "tasks" /\ Initialize(s))
       /\ WF_vars(focus = "tasks" /\ TimerCallback(s))
       /\ SF_vars(focus = "tasks" /\ Dispatch(s))
       /\ WF_vars(focus = "tasks" /\ Shutdown(s))

MCSpec == MCInit /\ [][MCNext]_mcVars /\ TasksFairness /\ IpcFairness
=================================================================================
