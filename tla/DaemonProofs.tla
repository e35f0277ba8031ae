------------------------------ MODULE DaemonProofs ------------------------------
(***************************************************************************)
(* Safety of the tasks of the daemon process.                              *)
(*                                                                         *)
(* The service manager, for any number of services, descriptor numbers,    *)
(* retry interval and timer periods.                                       *)
(*                                                                         *)
(* The IPC server, for any clients, requests, contents of the files and    *)
(* limits: a request moves from the ring to the receiver, the work queue,  *)
(* the worker and the answers, and every step moves one request by one     *)
(* place or leaves all of them where they are.  LinkInv says so of one     *)
(* connection; one lemma for each kind of step shows that the step keeps   *)
(* it, and the last ones put the steps of all tasks together.              *)
(***************************************************************************)
EXTENDS ServiceManager, IpcServer, TLAPS

-----------------------------------------------------------------------------
\* Sequences.

\* Length and domain of a queue.
LEMMA SequenceFacts ==
  ASSUME NEW S, NEW s \in Seq(S)
  PROVE  Len(s) \in Nat /\ s \in [1 .. Len(s) -> S] /\ DOMAIN s = 1 .. Len(s)
OBVIOUS

\* A function on an initial segment of the numbers is a sequence.
LEMMA FunctionIsSequence ==
  ASSUME NEW n \in Nat, NEW S, NEW s \in [1 .. n -> S]
  PROVE  s \in Seq(S)
OBVIOUS

\* Sequences are equal if their elements are.
LEMMA SameElements ==
  ASSUME NEW S, NEW s \in Seq(S), NEW t \in Seq(S), Len(s) = Len(t),
         \A i \in 1 .. Len(s) : s[i] = t[i]
  PROVE  s = t
OBVIOUS

\* A sequence over a set is one over every larger set.
LEMMA WiderSequence ==
  ASSUME NEW S, NEW T, NEW s \in Seq(S), S \subseteq T
  PROVE  s \in Seq(T)
OBVIOUS

\* Append is concatenation.
LEMMA AppendIsConcatenation ==
  ASSUME NEW S, NEW s \in Seq(S), NEW x \in S
  PROVE  Append(s, x) = s \o <<x>>
<1>1. Append(s, x) \in Seq(S) /\ s \o <<x>> \in Seq(S)
  OBVIOUS
<1>2. Len(Append(s, x)) = Len(s) + 1 /\ Len(s \o <<x>>) = Len(s) + 1
  OBVIOUS
<1>3. \A i \in 1 .. Len(s) + 1 : Append(s, x)[i] = (s \o <<x>>)[i]
  OBVIOUS
<1> QED  BY <1>1, <1>2, <1>3, SameElements, Zenon

-----------------------------------------------------------------------------
(* The service manager (pmxcfs-services/src/manager.rs). *)


\* Connections of running services are distinct: the operating system never
\* hands out a number that is open (needed for NoStaleRegistration, because a
\* task that closes its descriptor must not take another task's registration).
DistinctConnections ==
  \A s, t \in Services :
    s # t /\ serviceFd[s] # NoFd => serviceFd[s] # serviceFd[t]

IInv == TypeOK /\ ConnectionMatchesFlag /\ NoStaleRegistration /\ DistinctConnections

\* The state variables always have their types (manager.rs:92-97).
THEOREM TypeCorrect == Spec => []TypeOK
<1>1. Init => TypeOK
  <2> SUFFICES ASSUME Init PROVE TypeOK
    BY Zenon
  <2>1. \A s \in Services : TimerPeriod[s] <= TimerPeriod[s]
    BY ServiceManagerAssumption DEF ServiceManagerAssumption
  <2>2. RetryInterval \in 0..RetryInterval
    BY ServiceManagerAssumption DEF ServiceManagerAssumption
  <2>3. sinceInit \in [Services -> 0..RetryInterval]
    BY <2>2, Zenon DEF Init
  <2>4. sinceTimer \in [Services -> Nat] /\ \A s \in Services : sinceTimer[s] <= TimerPeriod[s]
    BY <2>1, ServiceManagerAssumption, Zenon DEF ServiceManagerAssumption, Init
  <2> QED
    BY <2>3, <2>4, Zenon DEF Init, TypeOK
<1>2. TypeOK /\ [Next]_vars => TypeOK'
  <2> SUFFICES ASSUME TypeOK, [Next]_vars PROVE TypeOK'
    BY Zenon
  <2> USE ServiceManagerAssumption DEF ServiceManagerAssumption, TypeOK
  <2>1. ASSUME NEW s \in Services, InitializeFails(s) PROVE TypeOK'
    BY <2>1 DEF InitializeFails
  <2>2. ASSUME NEW s \in Services, NEW fd \in Fds, InitializeSucceeds(s, fd) PROVE TypeOK'
    BY <2>2 DEF InitializeSucceeds, RegisteredAfterReplace
  <2>3. ASSUME NEW s \in Services, TimerCallback(s) PROVE TypeOK'
    BY <2>3 DEF TimerCallback
  <2>4. ASSUME NEW s \in Services, DispatchContinues(s) PROVE TypeOK'
    BY <2>4, Zenon DEF DispatchContinues
  <2>5. ASSUME NEW s \in Services, Reinitialize(s) PROVE TypeOK'
    BY <2>5, Zenon DEF Reinitialize
  <2>6. ASSUME NEW s \in Services, Shutdown(s) PROVE TypeOK'
    BY <2>6, Zenon DEF Shutdown
  <2>7. ASSUME NEW s \in Services, EventArrives(s) PROVE TypeOK'
    BY <2>7, Zenon DEF EventArrives
  <2>8. CASE Cancel
    BY <2>8, Zenon DEF Cancel
  <2>9. CASE Tick
    BY <2>9 DEF Tick
  <2>10. CASE UNCHANGED vars
    BY <2>10, Zenon DEF vars
  <2> QED
    BY <2>1, <2>2, <2>3, <2>4, <2>5, <2>6, <2>7, <2>8, <2>9, <2>10, Zenon
       DEF Next, DispatchReinitializes, ReadableFails
<1> QED
  BY <1>1, <1>2, PTL DEF Spec

\* The connection, the AsyncFd object and the running flag of every service agree,
\* and the reactor watches only connections of running services, through any
\* sequence of failed and successful initialisations, dispatches,
\* reinitialisations and the shutdown (manager.rs:99-244).
THEOREM ConnectionsAreConsistent ==
  Spec => [](ConnectionMatchesFlag /\ NoStaleRegistration)
<1>1. Init => ConnectionMatchesFlag /\ NoStaleRegistration /\ DistinctConnections
  BY DEF Init, ConnectionMatchesFlag, NoStaleRegistration, DistinctConnections
<1>2. IInv /\ TypeOK' /\ [Next]_vars => IInv'
  <2> SUFFICES ASSUME IInv, TypeOK', [Next]_vars PROVE IInv'
    BY Zenon
  <2> USE ServiceManagerAssumption
      DEF ServiceManagerAssumption, IInv, TypeOK, ConnectionMatchesFlag, NoStaleRegistration, DistinctConnections
  <2>1. ASSUME NEW s \in Services, InitializeFails(s) PROVE IInv'
    BY <2>1, Zenon DEF InitializeFails
  <2>2. ASSUME NEW s \in Services, NEW fd \in Fds, InitializeSucceeds(s, fd) PROVE IInv'
    BY <2>2 DEF InitializeSucceeds, MayInitialize, RegisteredAfterReplace, FreeFds
  <2>3. ASSUME NEW s \in Services, TimerCallback(s) PROVE IInv'
    BY <2>3, Zenon DEF TimerCallback
  <2>4. ASSUME NEW s \in Services, DispatchContinues(s) PROVE IInv'
    BY <2>4, Zenon DEF DispatchContinues
  <2>5. ASSUME NEW s \in Services, Reinitialize(s) PROVE IInv'
    BY <2>5 DEF Reinitialize
  <2>6. ASSUME NEW s \in Services, Shutdown(s) PROVE IInv'
    BY <2>6 DEF Shutdown
  <2>7. ASSUME NEW s \in Services, EventArrives(s) PROVE IInv'
    BY <2>7, Zenon DEF EventArrives
  <2>8. CASE Cancel
    BY <2>8, Zenon DEF Cancel
  <2>9. CASE Tick
    BY <2>9, Zenon DEF Tick
  <2>10. CASE UNCHANGED vars
    BY <2>10, Zenon DEF vars
  <2> QED
    BY <2>1, <2>2, <2>3, <2>4, <2>5, <2>6, <2>7, <2>8, <2>9, <2>10, Zenon
       DEF Next, DispatchReinitializes, ReadableFails
<1> QED
  BY <1>1, <1>2, TypeCorrect, PTL DEF Spec, IInv

\* The reactor watches no descriptor but the open connection of a running
\* service: what reinitialize and shutdown close is deregistered with it
\* (manager.rs:236-244), also when the number is handed out again at once.
THEOREM RegistrationsAreLive == Spec => []NoStaleRegistration
BY ConnectionsAreConsistent, PTL

-----------------------------------------------------------------------------
(* The IPC server (pmxcfs-ipc/src/connection.rs). *)


Request == [id : Nat, msg : Inputs]
Errors == {"OK", "EAGAIN", "EINVAL", "EPERM", "ENOENT", "EIO"}
Reply == [id : Nat, error : Errors]

LinkFields ==
  {"task", "readOnly", "ring", "asked", "received", "at", "held", "flow", "skipped",
   "work", "busy", "responses", "answers", "unread", "stuck"}

\* The request that the worker of connection l has in its hands.
InHand(l) == [i \in DOMAIN l.busy |-> l.busy[i].req]

\* Answers that were sent or wait for the sender.
Given(l) == l.answers \o l.responses

\* The form of the fields of a connection.
Shape(l) ==
  /\ DOMAIN l = LinkFields
  /\ l.asked \in Nat
  /\ l.ring \in Seq(Request) /\ l.held \in Seq(Request) /\ l.work \in Seq(Request)
  /\ l.busy = <<>> \/ (l.busy = <<l.busy[1]>> /\ l.busy[1].req \in Request)
  /\ l.responses \in Seq(Reply) /\ l.answers \in Seq(Reply)
  /\ l.received \subseteq Nat

\* What the receiver, and the tasks that drain the channels, leave behind.
Stages(l) ==
  /\ l.at \in {"recv", "queue", "flow"}
  /\ l.task \in {"none", "open", "closing", "finished"}
  /\ l.at # "recv" => l.task = "open"
  /\ l.at = "queue" => Len(l.held) = 1
  /\ l.at # "queue" => l.held = <<>>
  /\ l.task = "finished" => l.work = <<>> /\ l.busy = <<>> /\ l.responses = <<>>
  /\ Len(l.work) <= MaxPending

Increasing(s) == \A i, j \in DOMAIN s : i < j => s[i].id < s[j].id
Distinct(s) == \A i, j \in DOMAIN s : s[i].id = s[j].id => i = j
Below(S, T) == \A x \in S : \A y \in T : x < y

\* The answers of the worker.
Handled(s) == {s[i].id : i \in {j \in DOMAIN s : s[j].error # "EAGAIN"}}

Ordered(s) ==
  \A i, j \in DOMAIN s :
    i < j /\ s[i].error # "EAGAIN" /\ s[j].error # "EAGAIN" => s[i].id < s[j].id

\* A request moves along the ring, the receiver, the queue and the worker in the
\* order in which it was sent; what has been answered has left them.
Line(l) ==
  /\ Increasing(l.ring) /\ Increasing(l.work)
  /\ Below(l.received, Ids(l.ring)) /\ \A x \in Ids(l.ring) : x <= l.asked
  /\ \A x \in l.received : x <= l.asked
  /\ Below(Ids(l.work), Ids(l.held)) /\ Below(Ids(InHand(l)), Ids(l.held))
  /\ Below(Ids(InHand(l)), Ids(l.work))
  /\ Below(Handled(Given(l)), Ids(InHand(l)) \cup Ids(l.work) \cup Ids(l.held))

\* Answers do not repeat, keep the order of the worker, and with what is under way
\* make up the requests that were received.
Accounts(l) ==
  /\ Distinct(Given(l)) /\ Ordered(Given(l))
  /\ Ids(Given(l)) \cap (Ids(InHand(l)) \cup Ids(l.work) \cup Ids(l.held)) = {}
  /\ l.received = Ids(Given(l)) \cup Ids(InHand(l)) \cup Ids(l.work) \cup Ids(l.held)

LinkInv(l) == Shape(l) /\ Stages(l) /\ Line(l) /\ Accounts(l)

IpcInv == DOMAIN link = Clients /\ \A c \in Clients : LinkInv(link[c])

-----------------------------------------------------------------------------
\* The requests of a channel after one more was put in.
LEMMA IdsAppend ==
  ASSUME NEW S, NEW s \in Seq(S), NEW x \in S
  PROVE  Ids(Append(s, x)) = Ids(s) \cup {x.id}
<1>1. DOMAIN Append(s, x) = 1 .. Len(s) + 1 /\ DOMAIN s = 1 .. Len(s) /\ Len(s) \in Nat
  OBVIOUS
<1>2. \A i \in 1 .. Len(s) : Append(s, x)[i] = s[i]
  OBVIOUS
<1>3. Append(s, x)[Len(s) + 1] = x
  OBVIOUS
<1> QED
  BY <1>1, <1>2, <1>3 DEF Ids

\* The requests of a channel are its first one and those behind it.
LEMMA IdsTail ==
  ASSUME NEW S, NEW s \in Seq(S), s # <<>>
  PROVE  Ids(s) = {Head(s).id} \cup Ids(Tail(s))
<1>1. DOMAIN Tail(s) = 1 .. Len(s) - 1 /\ DOMAIN s = 1 .. Len(s) /\ Len(s) \in Nat \ {0}
  OBVIOUS
<1>2. \A i \in 1 .. Len(s) - 1 : Tail(s)[i] = s[i + 1]
  OBVIOUS
<1>3. Head(s) = s[1]
  OBVIOUS
<1>4. \A i \in 1 .. Len(s) : i = 1 \/ (i - 1 \in 1 .. Len(s) - 1 /\ Tail(s)[i - 1] = s[i])
  BY <1>1, <1>2
<1>5. Ids(s) \subseteq {Head(s).id} \cup Ids(Tail(s))
  <2>1. \A j \in 1 .. Len(s) - 1 : Tail(s)[j].id \in Ids(Tail(s))
    BY <1>1, Zenon DEF Ids
  <2>2. \A i \in 1 .. Len(s) : s[i].id \in {Head(s).id} \cup Ids(Tail(s))
    BY <2>1, <1>3, <1>4, Zenon
  <2> QED
    BY <2>2, <1>1, Zenon DEF Ids
<1>6. \A i \in 1 .. Len(s) - 1 : i + 1 \in 1 .. Len(s) /\ Tail(s)[i].id = s[i + 1].id
  BY <1>1, <1>2
<1>7. Ids(Tail(s)) \subseteq Ids(s)
  BY <1>1, <1>6, Zenon DEF Ids
<1>8. 1 \in DOMAIN s
  BY <1>1
<1> QED
  BY <1>3, <1>5, <1>7, <1>8, Zenon DEF Ids

\* The requests of two channels behind one another; none is there twice if the
\* channels have none in common.
LEMMA IdsConcat ==
  ASSUME NEW S, NEW s \in Seq(S), NEW t \in Seq(S)
  PROVE  /\ Ids(s \o t) = Ids(s) \cup Ids(t)
         /\ Distinct(s) /\ Distinct(t) /\ Ids(s) \cap Ids(t) = {} => Distinct(s \o t)
<1>1. DOMAIN (s \o t) = 1 .. Len(s) + Len(t) /\ DOMAIN s = 1 .. Len(s) /\ DOMAIN t = 1 .. Len(t)
      /\ Len(s) \in Nat /\ Len(t) \in Nat
  OBVIOUS
<1>2. \A i \in 1 .. Len(s) : (s \o t)[i] = s[i]
  OBVIOUS
<1>3. \A i \in 1 .. Len(t) : (s \o t)[Len(s) + i] = t[i] /\ Len(s) + i \in 1 .. Len(s) + Len(t)
  OBVIOUS
<1>4. \A i \in 1 .. Len(s) + Len(t) :
        i \in 1 .. Len(s) \/ (i - Len(s) \in 1 .. Len(t) /\ (s \o t)[i] = t[i - Len(s)])
  BY <1>1, <1>3
<1>5. Ids(s \o t) \subseteq Ids(s) \cup Ids(t)
  BY <1>1, <1>2, <1>4, Zenon DEF Ids
<1>6. Ids(s) \cup Ids(t) \subseteq Ids(s \o t)
  <2>1. \A i \in 1 .. Len(s) : i \in 1 .. Len(s) + Len(t) /\ s[i].id = (s \o t)[i].id
    BY <1>1, <1>2
  <2>2. Ids(s) \subseteq Ids(s \o t)
    BY <2>1, <1>1, Zenon DEF Ids
  <2>3. \A i \in 1 .. Len(t) : Len(s) + i \in 1 .. Len(s) + Len(t)
                              /\ t[i].id = (s \o t)[Len(s) + i].id
    BY <1>1, <1>3, Zenon
  <2>4. Ids(t) \subseteq Ids(s \o t)
    BY <2>3, <1>1, Zenon DEF Ids
  <2> QED
    BY <2>2, <2>4, Zenon
<1>7. ASSUME Distinct(s), Distinct(t), Ids(s) \cap Ids(t) = {} PROVE Distinct(s \o t)
  <2> SUFFICES ASSUME NEW i \in 1 .. Len(s) + Len(t), NEW j \in 1 .. Len(s) + Len(t),
                      (s \o t)[i].id = (s \o t)[j].id
               PROVE  i = j
    BY <1>1, Zenon DEF Distinct
  <2>1. CASE i \in 1 .. Len(s) /\ j \in 1 .. Len(s)
    BY <2>1, <1>1, <1>2, <1>7, Zenon DEF Distinct
  <2>2. CASE i \notin 1 .. Len(s) /\ j \notin 1 .. Len(s)
    BY <2>2, <1>1, <1>4, <1>7 DEF Distinct
  <2>3. CASE i \in 1 .. Len(s) /\ j \notin 1 .. Len(s)
    BY <2>3, <1>1, <1>2, <1>4, <1>7, Zenon DEF Ids
  <2>4. CASE i \notin 1 .. Len(s) /\ j \in 1 .. Len(s)
    BY <2>4, <1>1, <1>2, <1>4, <1>7, Zenon DEF Ids
  <2> QED
    BY <2>1, <2>2, <2>3, <2>4, Zenon
<1> QED
  BY <1>5, <1>6, <1>7, Zenon

\* Taking the first request of a channel in order leaves later ones, in order.
LEMMA IncreasingTail ==
  ASSUME NEW S, NEW s \in Seq(S), s # <<>>, Increasing(s)
  PROVE  Increasing(Tail(s)) /\ Below({Head(s).id}, Ids(Tail(s)))
<1>1. DOMAIN Tail(s) = 1 .. Len(s) - 1 /\ DOMAIN s = 1 .. Len(s) /\ Len(s) \in Nat \ {0}
  OBVIOUS
<1>2. \A i \in 1 .. Len(s) - 1 : Tail(s)[i] = s[i + 1] /\ i + 1 \in 1 .. Len(s) /\ 1 < i + 1
  OBVIOUS
<1>3. Head(s) = s[1] /\ 1 \in 1 .. Len(s)
  OBVIOUS
<1>4. \A i, j \in 1 .. Len(s) - 1 : i < j => i + 1 < j + 1
  OBVIOUS
<1>5. Increasing(Tail(s))
  BY <1>1, <1>2, <1>4, Zenon DEF Increasing
<1>6. \A i \in 1 .. Len(s) - 1 : s[1].id < Tail(s)[i].id
  BY <1>1, <1>2, <1>3, Zenon DEF Increasing
<1> QED
  BY <1>1, <1>3, <1>5, <1>6, Zenon DEF Below, Ids

\* A channel in order stays so when a later request is put in.
LEMMA IncreasingAppend ==
  ASSUME NEW S, NEW s \in Seq(S), NEW x \in S, Increasing(s), \A y \in Ids(s) : y < x.id
  PROVE  Increasing(Append(s, x))
<1>1. DOMAIN Append(s, x) = 1 .. Len(s) + 1 /\ DOMAIN s = 1 .. Len(s) /\ Len(s) \in Nat
  OBVIOUS
<1>2. \A i \in 1 .. Len(s) : Append(s, x)[i] = s[i] /\ s[i].id < x.id
  BY <1>1 DEF Ids
<1>3. Append(s, x)[Len(s) + 1] = x
  OBVIOUS
<1>4. \A i, j \in 1 .. Len(s) + 1 : i < j => i \in 1 .. Len(s)
  BY <1>1
<1> QED
  BY <1>1, <1>2, <1>3, <1>4 DEF Increasing

\* Every handler answers with one of the errors of the protocol.
LEMMA HandleAnswers ==
  ASSUME NEW st, NEW op, NEW d, NEW ro, NEW vs
  PROVE  Handle(st, op, d, ro, vs).error \in Errors
<1>1. \A data, s : Ok(data, s).error \in Errors
  BY Zenon DEF Ok, Errors
<1>2. \A s : Err("EINVAL", s).error \in Errors /\ Err("EPERM", s).error \in Errors
             /\ Err("ENOENT", s).error \in Errors /\ Err("EIO", s).error \in Errors
  BY Zenon DEF Err, Errors
<1>3. ASSUME NEW r PROVE HandleRequest(st, r, ro, vs).error \in Errors
  <2>1. GetConfig(st, r, ro).error \in Errors
    BY <1>1, <1>2, Zenon DEF GetConfig
  <2>2. GetStatus(st, r).error \in Errors
    BY <1>1, <1>2, Zenon DEF GetStatus
  <2>3. SetStatus(st, r).error \in Errors
    BY <1>1, <1>2, Zenon DEF SetStatus
  <2>4. LogMessage(st, r).error \in Errors
    BY <1>1, <1>2, Zenon DEF LogMessage
  <2>5. GetLog(st, r).error \in Errors
    BY <1>1, <1>2, Zenon DEF GetLog
  <2>6. VerifyToken(st, r).error \in Errors
    BY <1>1, <1>2, Zenon DEF VerifyToken
  <2>7. GetProperties(st, r, vs).error \in Errors
    BY <1>1, <1>2, Zenon DEF GetProperties
  <2> QED
    BY <1>1, <1>2, <2>1, <2>2, <2>3, <2>4, <2>5, <2>6, <2>7, Zenon DEF HandleRequest
<1> QED
  BY <1>2, <1>3, Zenon DEF Handle

\* The answers stay distinct, and those of the worker in order, when the answer
\* to a request is added that has none, and which is EAGAIN or to a later request.
LEMMA NewAnswer ==
  ASSUME NEW g \in Seq(Reply), NEW x \in Reply, Distinct(g), Ordered(g), x.id \notin Ids(g),
         x.error # "EAGAIN" => \A y \in Handled(g) : y < x.id
  PROVE  /\ Distinct(Append(g, x)) /\ Ordered(Append(g, x))
         /\ Handled(Append(g, x)) \subseteq Handled(g) \cup {x.id}
         /\ x.error = "EAGAIN" => Handled(Append(g, x)) \subseteq Handled(g)
<1>1. DOMAIN Append(g, x) = 1 .. Len(g) + 1 /\ DOMAIN g = 1 .. Len(g) /\ Len(g) \in Nat
  OBVIOUS
<1>2. \A i \in 1 .. Len(g) : Append(g, x)[i] = g[i] /\ g[i].id # x.id
  BY <1>1 DEF Ids
<1>3. Append(g, x)[Len(g) + 1] = x
  OBVIOUS
<1>4. \A i \in 1 .. Len(g) + 1 : i \in 1 .. Len(g) \/ i = Len(g) + 1
  BY <1>1
<1>5. Distinct(Append(g, x))
  BY <1>1, <1>2, <1>3, <1>4, Zenon DEF Distinct
<1>6. \A i \in 1 .. Len(g) : g[i].error # "EAGAIN" => g[i].id \in Handled(g)
  BY <1>1, Zenon DEF Handled
<1>7. \A i, j \in 1 .. Len(g) + 1 : i < j => i \in 1 .. Len(g)
  BY <1>1
<1>8. Ordered(Append(g, x))
  BY <1>1, <1>2, <1>3, <1>4, <1>6, <1>7, Zenon DEF Ordered
<1>9. \A i \in 1 .. Len(g) + 1 : Append(g, x)[i].error # "EAGAIN" =>
        Append(g, x)[i].id \in Handled(g) \/ (x.error # "EAGAIN" /\ Append(g, x)[i].id = x.id)
  BY <1>2, <1>3, <1>4, <1>6, Zenon
<1>10. \A y \in Handled(Append(g, x)) : y \in Handled(g) \/ (x.error # "EAGAIN" /\ y = x.id)
  BY <1>9, <1>1, Zenon DEF Handled
<1> QED
  BY <1>5, <1>8, <1>10, Zenon

\* What is below a set of numbers is not in it.
LEMMA BelowDisjoint ==
  ASSUME NEW S, NEW T, Below(S, T), \A x \in S : x \in Nat
  PROVE  S \cap T = {}
<1>1. \A x \in S : \A y \in T : x < y
  BY Zenon DEF Below
<1>2. \A x \in S : ~(x < x)
  OBVIOUS
<1> QED
  BY <1>1, <1>2, Zenon

\* The receiver holds one request or none.
LEMMA SingleId ==
  ASSUME NEW x PROVE Ids(<<x>>) = {x.id} /\ Ids(<<>>) = {}
<1>1. DOMAIN <<x>> = {1} /\ <<x>>[1] = x /\ DOMAIN <<>> = {}
  OBVIOUS
<1> QED
  BY <1>1, Zenon DEF Ids

\* recv of a whole request: the receiver holds it (connection.rs:363-425).
LEMMA ReceiveWhole ==
  ASSUME NEW l, LinkInv(l), l.task = "open", l.at = "recv", l.ring # <<>>
  PROVE  LinkInv([l EXCEPT !.ring = Tail(l.ring), !.flow = FlowOk, !.at = "queue",
                           !.held = <<Head(l.ring)>>,
                           !.received = l.received \cup {Head(l.ring).id}])
<1> DEFINE k == [l EXCEPT !.ring = Tail(l.ring), !.flow = FlowOk, !.at = "queue",
                          !.held = <<Head(l.ring)>>,
                          !.received = l.received \cup {Head(l.ring).id}]
<1>1. /\ DOMAIN k = LinkFields /\ k.ring = Tail(l.ring) /\ k.at = "queue" /\ k.held = <<Head(l.ring)>>
      /\ k.received = l.received \cup {Head(l.ring).id} /\ k.task = l.task /\ k.asked = l.asked
      /\ k.work = l.work /\ k.busy = l.busy /\ k.responses = l.responses /\ k.answers = l.answers
  BY Zenon DEF LinkInv, Shape, LinkFields
<1> HIDE DEF k
<1>a. Head(l.ring) \in Request /\ Tail(l.ring) \in Seq(Request)
  BY DEF LinkInv, Shape
<1>2. Head(l.ring) \in Request /\ Tail(l.ring) \in Seq(Request) /\ Head(l.ring).id \in Nat
  BY <1>a, Zenon DEF Request
<1>3. Shape(k)
  BY <1>1, <1>2 DEF LinkInv, Shape
<1>4. Stages(k)
  BY <1>1, Zenon DEF LinkInv, Stages
<1>5. Ids(l.ring) = {Head(l.ring).id} \cup Ids(k.ring)
  BY <1>1, IdsTail DEF LinkInv, Shape
<1>6. Increasing(k.ring) /\ Below({Head(l.ring).id}, Ids(k.ring))
  BY <1>1, IncreasingTail, Zenon DEF LinkInv, Shape, Line
<1>7. Ids(k.held) = {Head(l.ring).id} /\ Ids(l.held) = {}
  BY <1>1, SingleId, Zenon DEF LinkInv, Stages
<1>8. InHand(k) = InHand(l) /\ Given(k) = Given(l)
  BY <1>1, Zenon DEF InHand, Given
<1>9. Ids(InHand(l)) \cup Ids(l.work) \cup Ids(Given(l)) \subseteq l.received
  BY Zenon DEF LinkInv, Accounts
<1>10. Handled(Given(l)) \subseteq Ids(Given(l))
  BY Zenon DEF Handled, Ids
<1>11. \A x \in l.received : x < Head(l.ring).id
  BY <1>5, Zenon DEF LinkInv, Line, Below
<1>12. Line(k)
  BY <1>1, <1>5, <1>6, <1>7, <1>8, <1>9, <1>10, <1>11, Zenon DEF LinkInv, Line, Below
<1>13. Head(l.ring).id \notin l.received
  BY <1>11, <1>2
<1>14. Accounts(k)
  BY <1>1, <1>7, <1>8, <1>9, <1>13 DEF LinkInv, Accounts
<1> QED
  BY <1>3, <1>4, <1>12, <1>14, Zenon DEF LinkInv, k

\* Steps that leave the requests where they are.
SameRequests(k, l) ==
  /\ k.ring = l.ring /\ k.asked = l.asked /\ k.received = l.received /\ k.held = l.held
  /\ k.work = l.work /\ k.busy = l.busy /\ k.responses = l.responses /\ k.answers = l.answers

\* A step that moves no request keeps LinkInv if the task and the receiver go on
\* as they may.
LEMMA QuietLink ==
  ASSUME NEW l, NEW k, LinkInv(l), DOMAIN k = LinkFields, SameRequests(k, l), Stages(k)
  PROVE  LinkInv(k)
<1>1. Shape(k)
  BY Zenon DEF LinkInv, SameRequests, Shape
<1>2. InHand(k) = InHand(l) /\ Given(k) = Given(l)
  BY Zenon DEF SameRequests, InHand, Given
<1>3. Line(k)
  BY <1>2, Zenon DEF LinkInv, SameRequests, Line
<1>4. Accounts(k)
  BY <1>2, Zenon DEF LinkInv, SameRequests, Accounts
<1> QED
  BY <1>1, <1>3, <1>4, Zenon DEF LinkInv

\* recv of a request without a whole header, which is skipped.
LEMMA ReceiveShort ==
  ASSUME NEW l, LinkInv(l), l.task = "open", l.at = "recv", l.ring # <<>>
  PROVE  LinkInv([l EXCEPT !.ring = Tail(l.ring), !.flow = FlowOk, !.skipped = TRUE])
<1> DEFINE k == [l EXCEPT !.ring = Tail(l.ring), !.flow = FlowOk, !.skipped = TRUE]
<1>1. /\ DOMAIN k = LinkFields /\ k.ring = Tail(l.ring) /\ k.at = l.at /\ k.held = l.held
      /\ k.received = l.received /\ k.task = l.task /\ k.asked = l.asked
      /\ k.work = l.work /\ k.busy = l.busy /\ k.responses = l.responses /\ k.answers = l.answers
  BY Zenon DEF LinkInv, Shape, LinkFields
<1> HIDE DEF k
<1>2. Tail(l.ring) \in Seq(Request)
  BY DEF LinkInv, Shape
<1>3. Shape(k) /\ Stages(k)
  BY <1>1, <1>2, Zenon DEF LinkInv, Shape, Stages
<1>4. Ids(k.ring) \subseteq Ids(l.ring)
  BY <1>1, IdsTail, Zenon DEF LinkInv, Shape
<1>5. Increasing(k.ring)
  BY <1>1, IncreasingTail, Zenon DEF LinkInv, Shape, Line
<1>6. InHand(k) = InHand(l) /\ Given(k) = Given(l)
  BY <1>1, Zenon DEF InHand, Given
<1>7. Line(k)
  BY <1>1, <1>4, <1>5, <1>6, Zenon DEF LinkInv, Line, Below
<1>8. Accounts(k)
  BY <1>1, <1>6, Zenon DEF LinkInv, Accounts
<1> QED
  BY <1>3, <1>7, <1>8, Zenon DEF LinkInv, k

\* try_send with room in the work queue (connection.rs:427-450).
LEMMA Queued ==
  ASSUME NEW l, LinkInv(l), l.at = "queue", Len(l.work) < MaxPending
  PROVE  LinkInv([l EXCEPT !.work = l.work \o l.held, !.held = <<>>, !.at = "flow",
                           !.skipped = FALSE])
<1> DEFINE k == [l EXCEPT !.work = l.work \o l.held, !.held = <<>>, !.at = "flow",
                          !.skipped = FALSE]
<1>1. /\ DOMAIN k = LinkFields /\ k.work = l.work \o l.held /\ k.held = <<>> /\ k.at = "flow"
      /\ k.received = l.received /\ k.task = l.task /\ k.asked = l.asked /\ k.ring = l.ring
      /\ k.busy = l.busy /\ k.responses = l.responses /\ k.answers = l.answers
  BY Zenon DEF LinkInv, Shape, LinkFields
<1> HIDE DEF k
<1>2. l.work \in Seq(Request) /\ l.held \in Seq(Request) /\ Len(l.held) = 1
  BY Zenon DEF LinkInv, Shape, Stages
<1>3. l.held = <<l.held[1]>> /\ l.held[1] \in Request
  BY <1>2
<1>4. k.work = Append(l.work, l.held[1])
  <2>1. Append(l.work, l.held[1]) = l.work \o <<l.held[1]>>
    BY <1>2, <1>3, AppendIsConcatenation, Zenon
  <2> QED
    BY <2>1, <1>1, <1>3, Zenon
<1>5. Ids(k.work) = Ids(l.work) \cup {l.held[1].id} /\ Ids(l.held) = {l.held[1].id} /\ Ids(k.held) = {}
  BY <1>1, <1>2, <1>3, <1>4, IdsAppend, SingleId
<1>6. Increasing(k.work)
  BY <1>2, <1>3, <1>4, <1>5, IncreasingAppend DEF LinkInv, Line, Below
<1>7. InHand(k) = InHand(l) /\ Given(k) = Given(l)
  BY <1>1, Zenon DEF InHand, Given
<1>8. Shape(k)
  BY <1>1, <1>2, <1>3, <1>4 DEF LinkInv, Shape
<1>9. Len(k.work) <= MaxPending
  BY <1>2, <1>3, <1>4, IpcAssumption DEF IpcAssumption
<1>10. Stages(k)
  BY <1>1, <1>9, Zenon DEF LinkInv, Stages
<1>11. Line(k)
  BY <1>1, <1>5, <1>6, <1>7, Zenon DEF LinkInv, Line, Below
<1>12. Accounts(k)
  BY <1>1, <1>5, <1>7, Zenon DEF LinkInv, Accounts
<1> QED
  BY <1>8, <1>10, <1>11, <1>12, Zenon DEF LinkInv, k

\* An answer put into the sender's channel is the last one given.
LEMMA GivenAppend ==
  ASSUME NEW a \in Seq(Reply), NEW r \in Seq(Reply), NEW x \in Reply
  PROVE  a \o Append(r, x) = Append(a \o r, x) /\ a \o r \in Seq(Reply)
<1>1. a \o r \in Seq(Reply) /\ Append(r, x) \in Seq(Reply)
  OBVIOUS
<1>2. a \o Append(r, x) \in Seq(Reply) /\ Append(a \o r, x) \in Seq(Reply)
  BY <1>1
<1>3. Len(a \o Append(r, x)) = Len(Append(a \o r, x))
  BY <1>1
<1>4. \A i \in 1 .. Len(a \o Append(r, x)) : (a \o Append(r, x))[i] = Append(a \o r, x)[i]
  BY <1>1
<1> QED
  BY <1>1, <1>2, <1>3, <1>4, SameElements, Zenon

\* The sender moves an answer to the response ring: the line of answers is the
\* same (send_response).
LEMMA GivenMove ==
  ASSUME NEW a \in Seq(Reply), NEW r \in Seq(Reply), r # <<>>
  PROVE  Append(a, Head(r)) \o Tail(r) = a \o r
<1>1. Head(r) \in Reply /\ Tail(r) \in Seq(Reply) /\ Append(a, Head(r)) \in Seq(Reply)
  OBVIOUS
<1>2. Append(a, Head(r)) \o Tail(r) \in Seq(Reply) /\ a \o r \in Seq(Reply)
  BY <1>1
<1>3. Len(Append(a, Head(r)) \o Tail(r)) = Len(a \o r)
  BY <1>1
<1>4. \A i \in 1 .. Len(a \o r) : (Append(a, Head(r)) \o Tail(r))[i] = (a \o r)[i]
  BY <1>1
<1> QED
  BY <1>2, <1>3, <1>4, SameElements, Zenon

\* try_send on a full queue: the request is answered with EAGAIN at once
\* (connection.rs:451-468).
LEMMA RefusedAgain ==
  ASSUME NEW l, LinkInv(l), l.at = "queue"
  PROVE  LinkInv([l EXCEPT !.flow = StopSending, !.held = <<>>, !.at = "recv", !.skipped = FALSE,
                           !.responses = Append(l.responses,
                                                [id |-> l.held[1].id, error |-> "EAGAIN"])])
<1> DEFINE x == [id |-> l.held[1].id, error |-> "EAGAIN"]
           k == [l EXCEPT !.flow = StopSending, !.held = <<>>, !.at = "recv", !.skipped = FALSE,
                          !.responses = Append(l.responses, x)]
<1>1. /\ DOMAIN k = LinkFields /\ k.work = l.work /\ k.held = <<>> /\ k.at = "recv"
      /\ k.received = l.received /\ k.task = l.task /\ k.asked = l.asked /\ k.ring = l.ring
      /\ k.busy = l.busy /\ k.responses = Append(l.responses, x) /\ k.answers = l.answers
  BY Zenon DEF LinkInv, Shape, LinkFields
<1>2. l.held \in Seq(Request) /\ Len(l.held) = 1 /\ l.task = "open"
  BY Zenon DEF LinkInv, Shape, Stages
<1>3. l.held = <<l.held[1]>> /\ l.held[1] \in Request
  BY <1>2
<1>4. l.held[1].id \in Nat
  BY <1>3, Zenon DEF Request
<1>5. x \in Reply /\ x.id = l.held[1].id /\ x.error = "EAGAIN"
  BY <1>4, Zenon DEF Reply, Errors
<1> HIDE DEF x, k
<1>6. l.answers \in Seq(Reply) /\ l.responses \in Seq(Reply)
  BY Zenon DEF LinkInv, Shape
<1>7. Given(k) = Append(Given(l), x) /\ Given(l) \in Seq(Reply)
  BY <1>1, <1>5, <1>6, GivenAppend, Zenon DEF Given
<1>8. Ids(l.held) = {x.id} /\ Ids(k.held) = {}
  BY <1>1, <1>3, <1>5, SingleId, Zenon
<1>9. x.id \notin Ids(Given(l)) /\ Distinct(Given(l)) /\ Ordered(Given(l))
  BY <1>8, Zenon DEF LinkInv, Accounts
<1>10. Distinct(Given(k)) /\ Ordered(Given(k)) /\ Handled(Given(k)) \subseteq Handled(Given(l))
  BY <1>5, <1>7, <1>9, NewAnswer, Zenon
<1>11. Ids(Given(k)) = Ids(Given(l)) \cup {x.id}
  BY <1>5, <1>7, IdsAppend
<1>12. InHand(k) = InHand(l)
  BY <1>1, Zenon DEF InHand
<1>13. Append(l.responses, x) \in Seq(Reply)
  BY <1>5, <1>6
<1>14. Shape(k)
  BY <1>1, <1>13 DEF LinkInv, Shape
<1>15. Stages(k)
  BY <1>1, <1>2, Zenon DEF LinkInv, Stages
<1>16. Line(k)
  BY <1>1, <1>8, <1>10, <1>12, Zenon DEF LinkInv, Line, Below
<1>17. x.id \notin Ids(InHand(l)) /\ x.id \notin Ids(l.work)
  <2>1. Below(Ids(InHand(l)), {x.id}) /\ Below(Ids(l.work), {x.id})
    BY <1>8, Zenon DEF LinkInv, Line
  <2>2. \A y \in Ids(InHand(l)) \cup Ids(l.work) : y \in Nat
    BY Zenon DEF LinkInv, Accounts, Shape
  <2>3. Ids(InHand(l)) \cap {x.id} = {} /\ Ids(l.work) \cap {x.id} = {}
    BY <2>1, <2>2, BelowDisjoint, Zenon
  <2> QED
    BY <2>3, Zenon
<1>18. Accounts(k)
  BY <1>1, <1>8, <1>10, <1>11, <1>12, <1>17 DEF LinkInv, Accounts
<1> QED
  BY <1>14, <1>15, <1>16, <1>18, Zenon DEF LinkInv, k, x

\* The worker takes the first request of the queue (connection.rs:346-350).
LEMMA WorkTaken ==
  ASSUME NEW l, NEW vs, LinkInv(l), l.busy = <<>>, l.work # <<>>
  PROVE  LinkInv([l EXCEPT !.work = Tail(l.work),
                           !.busy = <<[req |-> Head(l.work), vmlist |-> vs]>>])
<1> DEFINE b == [req |-> Head(l.work), vmlist |-> vs]
           k == [l EXCEPT !.work = Tail(l.work), !.busy = <<b>>]
<1>1. /\ DOMAIN k = LinkFields /\ k.work = Tail(l.work) /\ k.held = l.held /\ k.at = l.at
      /\ k.received = l.received /\ k.task = l.task /\ k.asked = l.asked /\ k.ring = l.ring
      /\ k.busy = <<b>> /\ k.responses = l.responses /\ k.answers = l.answers
  BY Zenon DEF LinkInv, Shape, LinkFields
<1>2. b.req = Head(l.work)
  BY Zenon
<1> HIDE DEF b, k
<1>3. l.work \in Seq(Request) /\ Len(l.work) <= MaxPending /\ l.task # "finished"
  BY Zenon DEF LinkInv, Shape, Stages
<1>4. Tail(l.work) \in Seq(Request) /\ Head(l.work) \in Request /\ Len(Tail(l.work)) <= MaxPending
  BY <1>3, IpcAssumption DEF IpcAssumption
<1>5. k.busy[1] = b /\ DOMAIN k.busy = {1}
  BY <1>1
<1>6. InHand(k)[1] = Head(l.work) /\ DOMAIN InHand(k) = {1} /\ DOMAIN InHand(l) = {}
  BY <1>2, <1>5 DEF InHand
<1>7. Ids(InHand(k)) = {Head(l.work).id} /\ Ids(InHand(l)) = {}
  BY <1>6, Zenon DEF Ids
<1>8. Ids(l.work) = {Head(l.work).id} \cup Ids(k.work)
  BY <1>1, <1>3, IdsTail
<1>9. Increasing(k.work) /\ Below({Head(l.work).id}, Ids(k.work))
  BY <1>1, <1>3, IncreasingTail, Zenon DEF LinkInv, Line
<1>10. Given(k) = Given(l)
  BY <1>1, Zenon DEF Given
<1>11. Shape(k)
  BY <1>1, <1>2, <1>4, <1>5, Zenon DEF LinkInv, Shape
<1>12. Stages(k)
  BY <1>1, <1>3, <1>4, Zenon DEF LinkInv, Stages
<1>13. Line(k)
  BY <1>1, <1>7, <1>8, <1>9, <1>10, Zenon DEF LinkInv, Line, Below
<1>14. Accounts(k)
  BY <1>1, <1>7, <1>8, <1>10, Zenon DEF LinkInv, Accounts
<1> QED
  BY <1>11, <1>12, <1>13, <1>14, Zenon DEF LinkInv, k, b

\* The worker is done and passes its answer to the sender (connection.rs:350-354).
LEMMA WorkHandled ==
  ASSUME NEW l, NEW e \in Errors, LinkInv(l), l.busy # <<>>
  PROVE  LinkInv([l EXCEPT !.busy = <<>>,
                           !.responses = Append(l.responses,
                                                [id |-> l.busy[1].req.id, error |-> e])])
<1> DEFINE x == [id |-> l.busy[1].req.id, error |-> e]
           k == [l EXCEPT !.busy = <<>>, !.responses = Append(l.responses, x)]
<1>1. /\ DOMAIN k = LinkFields /\ k.work = l.work /\ k.held = l.held /\ k.at = l.at
      /\ k.received = l.received /\ k.task = l.task /\ k.asked = l.asked /\ k.ring = l.ring
      /\ k.busy = <<>> /\ k.responses = Append(l.responses, x) /\ k.answers = l.answers
  BY Zenon DEF LinkInv, Shape, LinkFields
<1>2. l.busy = <<l.busy[1]>> /\ l.busy[1].req \in Request /\ l.task # "finished"
  BY Zenon DEF LinkInv, Shape, Stages
<1>3. l.busy[1].req.id \in Nat
  BY <1>2, Zenon DEF Request
<1>4. x \in Reply /\ x.id = l.busy[1].req.id
  BY <1>3, Zenon DEF Reply
<1> HIDE DEF x, k
<1>5. DOMAIN l.busy = {1}
  BY <1>2
<1>6. InHand(l)[1] = l.busy[1].req /\ DOMAIN InHand(l) = {1} /\ DOMAIN InHand(k) = {}
  BY <1>1, <1>5 DEF InHand
<1>7. Ids(InHand(l)) = {x.id} /\ Ids(InHand(k)) = {}
  BY <1>4, <1>6, Zenon DEF Ids
<1>8. l.answers \in Seq(Reply) /\ l.responses \in Seq(Reply)
  BY Zenon DEF LinkInv, Shape
<1>9. Given(k) = Append(Given(l), x) /\ Given(l) \in Seq(Reply)
  BY <1>1, <1>4, <1>8, GivenAppend, Zenon DEF Given
<1>10. /\ x.id \notin Ids(Given(l)) /\ Distinct(Given(l)) /\ Ordered(Given(l))
       /\ \A y \in Handled(Given(l)) : y < x.id
  BY <1>7, Zenon DEF LinkInv, Accounts, Line, Below
<1>11. Distinct(Given(k)) /\ Ordered(Given(k)) /\ Handled(Given(k)) \subseteq Handled(Given(l)) \cup {x.id}
  BY <1>4, <1>9, <1>10, NewAnswer, Zenon
<1>12. Ids(Given(k)) = Ids(Given(l)) \cup {x.id}
  BY <1>4, <1>9, IdsAppend
<1>13. Append(l.responses, x) \in Seq(Reply)
  BY <1>4, <1>8
<1>14. Shape(k)
  BY <1>1, <1>13, Zenon DEF LinkInv, Shape
<1>15. Stages(k)
  BY <1>1, <1>2, Zenon DEF LinkInv, Stages
<1>16. Line(k)
  BY <1>1, <1>7, <1>11, Zenon DEF LinkInv, Line, Below
<1>17. x.id \notin Ids(l.held) /\ x.id \notin Ids(l.work)
  <2>1. Below({x.id}, Ids(l.held)) /\ Below({x.id}, Ids(l.work)) /\ x.id \in Nat
    BY <1>3, <1>4, <1>7, Zenon DEF LinkInv, Line
  <2>2. {x.id} \cap Ids(l.held) = {} /\ {x.id} \cap Ids(l.work) = {}
    BY <2>1, BelowDisjoint
  <2> QED
    BY <2>2, Zenon
<1>18. Accounts(k)
  BY <1>1, <1>7, <1>11, <1>12, <1>17 DEF LinkInv, Accounts
<1> QED
  BY <1>14, <1>15, <1>16, <1>18, Zenon DEF LinkInv, k, x

\* send_response with room in the response ring.
LEMMA ResponseSent ==
  ASSUME NEW l, NEW u, LinkInv(l), l.responses # <<>>
  PROVE  LinkInv([l EXCEPT !.answers = Append(l.answers, Head(l.responses)),
                           !.responses = Tail(l.responses), !.unread = u])
<1> DEFINE k == [l EXCEPT !.answers = Append(l.answers, Head(l.responses)),
                          !.responses = Tail(l.responses), !.unread = u]
<1>1. /\ DOMAIN k = LinkFields /\ k.work = l.work /\ k.held = l.held /\ k.at = l.at
      /\ k.received = l.received /\ k.task = l.task /\ k.asked = l.asked /\ k.ring = l.ring
      /\ k.busy = l.busy /\ k.responses = Tail(l.responses)
      /\ k.answers = Append(l.answers, Head(l.responses))
  BY Zenon DEF LinkInv, Shape, LinkFields
<1> HIDE DEF k
<1>2. l.answers \in Seq(Reply) /\ l.responses \in Seq(Reply) /\ l.task # "finished"
  BY Zenon DEF LinkInv, Shape, Stages
<1>3. k.answers \in Seq(Reply) /\ k.responses \in Seq(Reply)
  BY <1>1, <1>2
<1>4. Given(k) = Given(l)
  BY <1>1, <1>2, GivenMove, Zenon DEF Given
<1>5. InHand(k) = InHand(l)
  BY <1>1, Zenon DEF InHand
<1>6. Shape(k)
  BY <1>1, <1>3, Zenon DEF LinkInv, Shape
<1>7. Stages(k)
  BY <1>1, <1>2, Zenon DEF LinkInv, Stages
<1>8. Line(k)
  BY <1>1, <1>4, <1>5, Zenon DEF LinkInv, Line
<1>9. Accounts(k)
  BY <1>1, <1>4, <1>5, Zenon DEF LinkInv, Accounts
<1> QED
  BY <1>6, <1>7, <1>8, <1>9, Zenon DEF LinkInv, k

\* The client sends one more request.
LEMMA RequestSent ==
  ASSUME NEW l, NEW m \in Inputs, LinkInv(l)
  PROVE  LinkInv([l EXCEPT !.asked = l.asked + 1,
                           !.ring = Append(l.ring, [id |-> l.asked + 1, msg |-> m])])
<1> DEFINE r == [id |-> l.asked + 1, msg |-> m]
           k == [l EXCEPT !.asked = l.asked + 1, !.ring = Append(l.ring, r)]
<1>1. /\ DOMAIN k = LinkFields /\ k.work = l.work /\ k.held = l.held /\ k.at = l.at
      /\ k.received = l.received /\ k.task = l.task /\ k.asked = l.asked + 1
      /\ k.ring = Append(l.ring, r)
      /\ k.busy = l.busy /\ k.responses = l.responses /\ k.answers = l.answers
  BY Zenon DEF LinkInv, Shape, LinkFields
<1>2. l.asked \in Nat /\ l.ring \in Seq(Request)
  BY Zenon DEF LinkInv, Shape
<1>3. r \in Request /\ r.id = l.asked + 1
  BY <1>2 DEF Request
<1> HIDE DEF r, k
<1>4. Append(l.ring, r) \in Seq(Request)
  BY <1>2, <1>3
<1>5. Ids(k.ring) = Ids(l.ring) \cup {r.id}
  BY <1>1, <1>2, <1>3, IdsAppend
<1>6. \A x \in Ids(l.ring) : x \in Nat
  <2>1. \A i \in DOMAIN l.ring : l.ring[i] \in Request
    BY <1>2
  <2>2. \A i \in DOMAIN l.ring : l.ring[i].id \in Nat
    BY <2>1, Zenon DEF Request
  <2> QED
    BY <2>2, Zenon DEF Ids
<1>7. /\ \A x \in Ids(l.ring) : x <= l.asked
      /\ \A x \in l.received : x <= l.asked
      /\ l.received \subseteq Nat
  BY Zenon DEF LinkInv, Line, Shape
<1>8. /\ \A x \in Ids(l.ring) : x < r.id /\ x <= k.asked
      /\ \A x \in l.received : x < r.id /\ x <= k.asked
  BY <1>1, <1>2, <1>3, <1>6, <1>7
<1>9. Increasing(k.ring)
  BY <1>1, <1>2, <1>3, <1>8, IncreasingAppend, Zenon DEF LinkInv, Line
<1>10. InHand(k) = InHand(l) /\ Given(k) = Given(l)
  BY <1>1, Zenon DEF InHand, Given
<1>11. Shape(k)
  BY <1>1, <1>2, <1>4 DEF LinkInv, Shape
<1>12. Stages(k)
  BY <1>1, Zenon DEF LinkInv, Stages
<1>13. r.id <= k.asked
  BY <1>1, <1>2, <1>3
<1>14. Line(k)
  BY <1>1, <1>5, <1>8, <1>9, <1>10, <1>13, Zenon DEF LinkInv, Line, Below
<1>15. Accounts(k)
  BY <1>1, <1>10, Zenon DEF LinkInv, Accounts
<1> QED
  BY <1>11, <1>12, <1>14, <1>15, Zenon DEF LinkInv, k, r

\* A connection is as it should be before and right after its handshake.
LEMMA FreshLink ==
  /\ LinkInv(NoLink)
  /\ \A b : LinkInv([NoLink EXCEPT !.task = "open", !.readOnly = b])
<1> SUFFICES ASSUME NEW l, DOMAIN l = LinkFields, l.task \in {"none", "open"}, l.ring = <<>>,
                    l.asked = 0, l.received = {}, l.at = "recv", l.held = <<>>, l.work = <<>>,
                    l.busy = <<>>, l.responses = <<>>, l.answers = <<>>
             PROVE  LinkInv(l)
  BY Zenon DEF NoLink, LinkFields
<1>1. Shape(l)
  BY DEF Shape
<1>2. Stages(l)
  BY IpcAssumption DEF IpcAssumption, Stages
<1>3. InHand(l) = <<>> /\ Given(l) = <<>>
  BY DEF InHand, Given
<1>4. Ids(<<>>) = {} /\ Handled(<<>>) = {}
  BY DEF Ids, Handled
<1>5. Line(l)
  BY <1>3, <1>4 DEF Line, Below, Increasing
<1>6. Accounts(l)
  BY <1>3, <1>4 DEF Accounts, Distinct, Ordered
<1> QED
  BY <1>1, <1>2, <1>5, <1>6, Zenon DEF LinkInv

\* One connection changes as the record lemmas say, the others do not.
LEMMA OneLink ==
  ASSUME IpcInv, NEW c \in Clients, NEW k, LinkInv(k), link' = [link EXCEPT ![c] = k]
  PROVE  IpcInv'
BY Zenon DEF IpcInv

\* The steps of the receiver keep the invariant (handle_requests).
LEMMA ReceiverKeeps ==
  ASSUME IpcInv, NEW c \in Clients, ReceiverStep(c)
  PROVE  IpcInv'
<1> DEFINE l == link[c]
<1>1. DOMAIN link = Clients /\ LinkInv(l)
  BY Zenon DEF IpcInv
<1>2. CASE Break(c)
  <2> DEFINE k == [l EXCEPT !.task = "closing"]
  <2>1. link' = [link EXCEPT ![c] = k]
    BY <1>2, Zenon DEF Break
  <2>2. DOMAIN k = LinkFields /\ SameRequests(k, l) /\ k.at = l.at /\ k.task = "closing" /\ l.at = "recv"
    BY <1>1, <1>2, Zenon DEF LinkInv, Shape, LinkFields, SameRequests, Break
  <2> HIDE DEF k, l
  <2>3. Stages(k)
    BY <2>2, <1>1, Zenon DEF LinkInv, Stages, SameRequests
  <2> QED
    BY <1>1, <2>1, <2>2, <2>3, QuietLink, OneLink, Zenon
<1>3. CASE Receive(c)
  <2> DEFINE r == Head(l.ring)
  <2>1. l.task = "open" /\ l.at = "recv" /\ l.ring # <<>>
    BY <1>3, Zenon DEF Receive
  <2>2. r \in Request
    BY <1>1, <2>1 DEF LinkInv, Shape
  <2>3. r.msg.size \in {"whole", "short", "long"}
    BY <2>2, IpcAssumption, Zenon DEF IpcAssumption, Request
  <2>4. CASE r.msg.size = "whole"
    <3>1. link' = [link EXCEPT ![c] =
            [l EXCEPT !.ring = Tail(l.ring), !.flow = FlowOk, !.at = "queue",
                      !.held = <<Head(l.ring)>>, !.received = l.received \cup {Head(l.ring).id}]]
      BY <1>3, <2>4, Zenon DEF Receive
    <3> HIDE DEF l
    <3> QED
      BY <1>1, <2>1, <3>1, ReceiveWhole, OneLink, Zenon
  <2>5. CASE r.msg.size = "short"
    <3>1. link' = [link EXCEPT ![c] =
            [l EXCEPT !.ring = Tail(l.ring), !.flow = FlowOk, !.skipped = TRUE]]
      BY <1>3, <2>5, Zenon DEF Receive
    <3> HIDE DEF l
    <3> QED
      BY <1>1, <2>1, <3>1, ReceiveShort, OneLink, Zenon
  <2>6. CASE r.msg.size = "long"
    <3> DEFINE k == [l EXCEPT !.task = "closing"]
    <3>1. link' = [link EXCEPT ![c] = k]
      BY <1>3, <2>6, Zenon DEF Receive
    <3>2. DOMAIN k = LinkFields /\ SameRequests(k, l) /\ k.at = l.at /\ k.task = "closing"
      BY <1>1, Zenon DEF LinkInv, Shape, LinkFields, SameRequests
    <3> HIDE DEF k, l
    <3>3. Stages(k)
      BY <3>2, <2>1, <1>1, Zenon DEF LinkInv, Stages, SameRequests
    <3> QED
      BY <1>1, <3>1, <3>2, <3>3, QuietLink, OneLink, Zenon
  <2> QED
    BY <2>3, <2>4, <2>5, <2>6, Zenon
<1>4. CASE Queue(c)
  <2>1. l.at = "queue"
    BY <1>4, Zenon DEF Queue
  <2>2. CASE Len(l.work) < MaxPending
    <3>1. link' = [link EXCEPT ![c] =
            [l EXCEPT !.work = l.work \o l.held, !.held = <<>>, !.at = "flow", !.skipped = FALSE]]
      BY <1>4, <2>2, Zenon DEF Queue
    <3> HIDE DEF l
    <3> QED
      BY <1>1, <2>1, <2>2, <3>1, Queued, OneLink, Zenon
  <2>3. CASE ~(Len(l.work) < MaxPending)
    <3>1. link' = [link EXCEPT ![c] =
            [l EXCEPT !.flow = StopSending, !.held = <<>>, !.at = "recv", !.skipped = FALSE,
                      !.responses = Append(l.responses,
                                           [id |-> l.held[1].id, error |-> "EAGAIN"])]]
      BY <1>4, <2>3, Zenon DEF Queue
    <3> HIDE DEF l
    <3> QED
      BY <1>1, <2>1, <3>1, RefusedAgain, OneLink, Zenon
  <2> QED
    BY <2>2, <2>3, Zenon
<1>5. CASE SetFlow(c)
  <2> DEFINE k == [l EXCEPT !.flow = FlowLevel(Len(l.work)), !.at = "recv"]
  <2>1. link' = [link EXCEPT ![c] = k]
    BY <1>5, Zenon DEF SetFlow
  <2>2. DOMAIN k = LinkFields /\ SameRequests(k, l) /\ k.at = "recv" /\ k.task = l.task /\ l.at = "flow"
    BY <1>1, <1>5, Zenon DEF LinkInv, Shape, LinkFields, SameRequests, SetFlow
  <2> HIDE DEF k, l
  <2>3. Stages(k)
    BY <2>2, <1>1, Zenon DEF LinkInv, Stages, SameRequests
  <2> QED
    BY <1>1, <2>1, <2>2, <2>3, QuietLink, OneLink, Zenon
<1> QED
  BY <1>2, <1>3, <1>4, <1>5, Zenon DEF ReceiverStep

\* The steps of the worker and of the sender, and the end of a connection.
LEMMA ServingKeeps ==
  ASSUME IpcInv, NEW c \in Clients, WorkerStep(c) \/ SendResponse(c) \/ FinishConnection(c)
  PROVE  IpcInv'
<1> DEFINE l == link[c]
<1>1. DOMAIN link = Clients /\ LinkInv(l)
  BY Zenon DEF IpcInv
<1>2. CASE TakeWork(c)
  <2>1. link' = [link EXCEPT ![c] =
          [l EXCEPT !.work = Tail(l.work),
                    !.busy = <<[req |-> Head(l.work), vmlist |-> store.vmlist]>>]]
    BY <1>2, Zenon DEF TakeWork
  <2>2. l.busy = <<>> /\ l.work # <<>>
    BY <1>2, Zenon DEF TakeWork
  <2> HIDE DEF l
  <2> QED
    BY <1>1, <2>1, <2>2, WorkTaken, OneLink, Zenon
<1>3. CASE HandleWork(c)
  <2> DEFINE e == Handle(store, l.busy[1].req.msg.op, l.busy[1].req.msg.data, l.readOnly,
                         l.busy[1].vmlist).error
  <2>1. l.busy # <<>>
    BY <1>3, Zenon DEF HandleWork
  <2>2. link' = [link EXCEPT ![c] =
          [l EXCEPT !.busy = <<>>,
                    !.responses = Append(l.responses, [id |-> l.busy[1].req.id, error |-> e])]]
    BY <1>3, Zenon DEF HandleWork
  <2>3. e \in Errors
    BY HandleAnswers, Zenon
  <2> HIDE DEF l, e
  <2> QED
    BY <1>1, <2>1, <2>2, <2>3, WorkHandled, OneLink, Zenon
<1>4. CASE SendResponse(c)
  <2>1. l.responses # <<>>
    BY <1>4, Zenon DEF SendResponse
  <2>2. CASE l.unread < RingSlots
    <3>1. link' = [link EXCEPT ![c] =
            [l EXCEPT !.answers = Append(l.answers, Head(l.responses)),
                      !.responses = Tail(l.responses), !.unread = l.unread + 1]]
      BY <1>4, <2>2, Zenon DEF SendResponse
    <3> HIDE DEF l
    <3> QED
      BY <1>1, <2>1, <3>1, ResponseSent, OneLink, Zenon
  <2>3. CASE ~(l.unread < RingSlots)
    <3> DEFINE k == [l EXCEPT !.stuck = TRUE]
    <3>1. link' = [link EXCEPT ![c] = k]
      BY <1>4, <2>3, Zenon DEF SendResponse
    <3>2. DOMAIN k = LinkFields /\ SameRequests(k, l) /\ k.at = l.at /\ k.task = l.task
      BY <1>1, Zenon DEF LinkInv, Shape, LinkFields, SameRequests
    <3> HIDE DEF k, l
    <3>3. Stages(k)
      BY <3>2, <1>1, Zenon DEF LinkInv, Stages, SameRequests
    <3> QED
      BY <1>1, <3>1, <3>2, <3>3, QuietLink, OneLink, Zenon
  <2> QED
    BY <2>2, <2>3, Zenon
<1>5. CASE FinishConnection(c)
  <2> DEFINE k == [l EXCEPT !.task = "finished"]
  <2>1. link' = [link EXCEPT ![c] = k]
    BY <1>5, Zenon DEF FinishConnection
  <2>2. /\ DOMAIN k = LinkFields /\ SameRequests(k, l) /\ k.at = l.at /\ k.task = "finished"
        /\ l.task = "closing" /\ l.work = <<>> /\ l.busy = <<>> /\ l.responses = <<>>
    BY <1>1, <1>5, Zenon DEF LinkInv, Shape, LinkFields, SameRequests, FinishConnection
  <2> HIDE DEF k, l
  <2>3. Stages(k)
    BY <2>2, <1>1, Zenon DEF LinkInv, Stages, SameRequests
  <2> QED
    BY <1>1, <2>1, <2>2, <2>3, QuietLink, OneLink, Zenon
<1> QED
  BY <1>2, <1>3, <1>4, <1>5, Zenon DEF WorkerStep

\* The acceptor, stop, the clients, and files that change under the handlers.
LEMMA OutsideKeeps ==
  ASSUME IpcInv,
         \/ AcceptorStep \/ StopStep \/ UNCHANGED ipcVars
         \/ \E c \in Clients : ClientStep(c)
         \/ \E v \in DOMAIN store.vmlist, n \in store.members : GuestMoves(v, n)
  PROVE  IpcInv'
<1>1. CASE UNCHANGED link
  BY <1>1, Zenon DEF IpcInv
<1>2. ASSUME NEW h \in Handshakes, Establish(h) PROVE IpcInv'
  <2>1. PICK c \in acceptor.of :
          link' = [link EXCEPT ![c] =
            [NoLink EXCEPT !.task = "open",
                           !.readOnly = Authenticate(h.uid, h.gid, WwwData) = "ro"]]
    BY <1>2, Zenon DEF Establish
  <2>2. CASE c \in Clients
    BY <2>1, <2>2, FreshLink, OneLink, Zenon
  <2>3. CASE c \notin Clients
    BY <2>1, <2>3, Zenon DEF IpcInv
  <2> QED
    BY <2>2, <2>3, Zenon
<1>3. ASSUME NEW c \in Clients, NEW m \in Inputs, ClientSends(c, m) PROVE IpcInv'
  <2> DEFINE l == link[c]
  <2>1. DOMAIN link = Clients /\ LinkInv(l)
    BY Zenon DEF IpcInv
  <2>2. link' = [link EXCEPT ![c] =
          [l EXCEPT !.asked = l.asked + 1,
                    !.ring = Append(l.ring, [id |-> l.asked + 1, msg |-> m])]]
    BY <1>3, Zenon DEF ClientSends
  <2> HIDE DEF l
  <2> QED
    BY <2>1, <2>2, RequestSent, OneLink, Zenon
<1>4. ASSUME NEW c \in Clients, ClientReads(c) PROVE IpcInv'
  <2> DEFINE l == link[c]
             k == [l EXCEPT !.unread = l.unread - 1]
  <2>1. DOMAIN link = Clients /\ LinkInv(l)
    BY Zenon DEF IpcInv
  <2>2. link' = [link EXCEPT ![c] = k]
    BY <1>4, Zenon DEF ClientReads
  <2>3. DOMAIN k = LinkFields /\ SameRequests(k, l) /\ k.at = l.at /\ k.task = l.task
    BY <2>1, Zenon DEF LinkInv, Shape, LinkFields, SameRequests
  <2> HIDE DEF k, l
  <2>4. Stages(k)
    BY <2>3, <2>1, Zenon DEF LinkInv, Stages, SameRequests
  <2> QED
    BY <2>1, <2>2, <2>3, <2>4, QuietLink, OneLink, Zenon
<1>5. ASSUME NEW c \in Clients, Connect(c) \/ ClientLeaves(c) PROVE UNCHANGED link
  BY <1>5, Zenon DEF Connect, ClientLeaves
<1>6. ASSUME NEW v, NEW n, GuestMoves(v, n) PROVE UNCHANGED link
  BY <1>6, Zenon DEF GuestMoves
<1>7. ASSUME NEW h \in Handshakes, Refuse(h) PROVE UNCHANGED link
  BY <1>7, Zenon DEF Refuse
<1>8. Accept \/ AcceptorCancelled \/ HandshakeFails \/ InsertConnection \/ ConnectionCreated
        \/ StopStep \/ UNCHANGED ipcVars => UNCHANGED link
  BY Zenon DEF Accept, AcceptorCancelled, HandshakeFails, InsertConnection, ConnectionCreated, StopStep,
         CancelToken, TakeConnections, ipcVars
<1> QED
  BY <1>1, <1>2, <1>3, <1>4, <1>5, <1>6, <1>7, <1>8, Zenon DEF AcceptorStep, ClientStep

\* Every connection is as LinkInv says in every state of the IPC server.
LEMMA IpcInvariant == IpcSpec => []IpcInv
<1>1. IpcInit => IpcInv
  BY FreshLink, Zenon DEF IpcInit, IpcInv
<1>2. IpcInv /\ [IpcNext]_ipcVars => IpcInv'
  BY ReceiverKeeps, ServingKeeps, OutsideKeeps, Zenon DEF IpcNext, ConnectionStep
<1> QED
  BY <1>1, <1>2, PTL DEF IpcSpec

\* What LinkInv says of the places of the requests is what AnswersAreInOrder says
\* of all of them in one line.
LEMMA InvAnswers == IpcInv => AnswersAreInOrder
<1> SUFFICES ASSUME IpcInv, NEW c \in Clients
             PROVE  /\ Ids(Taken(c)) = link[c].received
                    /\ \A i, j \in DOMAIN Taken(c) : Taken(c)[i].id = Taken(c)[j].id => i = j
                    /\ \A i, j \in DOMAIN Replies(c) :
                         i < j /\ Replies(c)[i].error # "EAGAIN" /\ Replies(c)[j].error # "EAGAIN"
                           => Replies(c)[i].id < Replies(c)[j].id
                    /\ link[c].task = "finished" => Ids(link[c].answers) = link[c].received
  BY Zenon DEF AnswersAreInOrder
<1> DEFINE l == link[c]
           S == Reply \cup Request
<1>1. LinkInv(l) /\ Replies(c) = Given(l) /\ Taken(c) = ((Given(l) \o InHand(l)) \o l.work) \o l.held
  BY Zenon DEF IpcInv, Taken, Replies, Given, InHand
<1> HIDE DEF l
<1>2. l.answers \in Seq(Reply) /\ l.responses \in Seq(Reply) /\ l.work \in Seq(Request)
      /\ l.held \in Seq(Request)
  BY <1>1, Zenon DEF LinkInv, Shape
<1>3. InHand(l) \in Seq(Request) /\ Len(InHand(l)) <= 1
  <2>1. CASE l.busy = <<>>
    BY <2>1 DEF InHand
  <2>2. CASE l.busy # <<>>
    <3>1. l.busy = <<l.busy[1]>> /\ l.busy[1].req \in Request
      BY <2>2, <1>1, Zenon DEF LinkInv, Shape
    <3>2. DOMAIN l.busy = 1 .. 1
      BY <3>1
    <3>3. InHand(l) \in [1 .. 1 -> Request]
      BY <3>1, <3>2 DEF InHand
    <3>4. InHand(l) \in Seq(Request)
      BY <3>3, FunctionIsSequence, Zenon
    <3>5. Len(InHand(l)) \in Nat /\ DOMAIN InHand(l) = 1 .. Len(InHand(l))
      BY <3>4, SequenceFacts, Zenon
    <3>6. DOMAIN InHand(l) = 1 .. 1
      BY <3>3, Zenon
    <3>7. \A n \in Nat : 1 .. n = 1 .. 1 => n \in 1 .. 1
      <4> SUFFICES ASSUME NEW n \in Nat, 1 .. n = 1 .. 1 PROVE n \in 1 .. n
        BY Zenon
      <4>1. 1 \in 1 .. n
        OBVIOUS
      <4> QED
        BY <4>1
    <3>8. 1 .. Len(InHand(l)) = 1 .. 1
      BY <3>5, <3>6, Zenon
    <3>9. Len(InHand(l)) \in 1 .. 1
      BY <3>5, <3>7, <3>8, Zenon
    <3>10. \A n \in 1 .. 1 : n <= 1
      OBVIOUS
    <3>11. Len(InHand(l)) <= 1
      BY <3>9, <3>10, Zenon
    <3> QED
      BY <3>4, <3>11, Zenon
  <2> QED
    BY <2>1, <2>2, Zenon
<1>4. Given(l) \in Seq(Reply)
  BY <1>2 DEF Given
<1>5. Given(l) \in Seq(S) /\ InHand(l) \in Seq(S) /\ l.work \in Seq(S) /\ l.held \in Seq(S)
  BY <1>2, <1>3, <1>4, WiderSequence, Zenon
<1> DEFINE u == Given(l) \o InHand(l)
<1> DEFINE v == u \o l.work
<1> HIDE DEF S
<1>6. u \in Seq(S) /\ v \in Seq(S)
  BY <1>5
<1>7. Distinct(l.work)
  <2>1. \A i, j \in DOMAIN l.work : i < j => l.work[i].id < l.work[j].id
    BY <1>1, Zenon DEF LinkInv, Line, Increasing
  <2>2. \A i \in DOMAIN l.work : l.work[i] \in Request /\ i \in Nat
    BY <1>2
  <2>3. \A i \in DOMAIN l.work : l.work[i].id \in Nat
    BY <2>2, Zenon DEF Request
  <2> QED
    BY <2>1, <2>2, <2>3 DEF Distinct
<1>8. Distinct(InHand(l)) /\ Distinct(l.held)
  <2>1. Len(l.held) = 1 \/ l.held = <<>>
    BY <1>1, Zenon DEF LinkInv, Stages
  <2> QED
    BY <1>2, <1>3, <2>1 DEF Distinct
<1>9. /\ \A x \in Ids(l.work) : x \in Nat
      /\ \A x \in Ids(l.held) : x \in Nat
      /\ \A x \in Ids(InHand(l)) : x \in Nat
  BY <1>1, Zenon DEF LinkInv, Accounts, Shape
<1>10. Ids(u) = Ids(Given(l)) \cup Ids(InHand(l)) /\ Distinct(u)
  <2>1. Distinct(Given(l)) /\ Ids(Given(l)) \cap Ids(InHand(l)) = {}
    BY <1>1, Zenon DEF LinkInv, Accounts
  <2> QED
    BY <2>1, <1>5, <1>8, IdsConcat
<1>11. /\ Ids(InHand(l)) \cap Ids(l.work) = {}
       /\ Ids(InHand(l)) \cap Ids(l.held) = {}
       /\ Ids(l.work) \cap Ids(l.held) = {}
  <2>1. /\ Below(Ids(InHand(l)), Ids(l.work)) /\ Below(Ids(InHand(l)), Ids(l.held))
        /\ Below(Ids(l.work), Ids(l.held))
    BY <1>1, Zenon DEF LinkInv, Line
  <2> QED
    BY <2>1, <1>9, BelowDisjoint, Zenon
<1>12. Ids(v) = Ids(u) \cup Ids(l.work) /\ Distinct(v)
  <2>1. Ids(u) \cap Ids(l.work) = {}
    BY <1>1, <1>10, <1>11, Zenon DEF LinkInv, Accounts
  <2> HIDE DEF u
  <2> QED
    BY <1>5, <1>6, <1>7, <1>10, <2>1, IdsConcat
<1> HIDE DEF v
<1>13. Ids(v) \cap Ids(l.held) = {}
  <2>1. Ids(Given(l)) \cap Ids(l.held) = {}
    BY <1>1, Zenon DEF LinkInv, Accounts
  <2> QED
    BY <2>1, <1>10, <1>11, <1>12, Zenon
<1>14. Ids(v \o l.held) = Ids(v) \cup Ids(l.held) /\ Distinct(v \o l.held)
  BY <1>5, <1>6, <1>8, <1>12, <1>13, IdsConcat
<1>15. Ids(Taken(c)) = l.received
  BY <1>1, <1>10, <1>12, <1>14, Zenon DEF LinkInv, Accounts, v
<1>16. ASSUME l.task = "finished" PROVE Ids(l.answers) = l.received
  <2>1. l.work = <<>> /\ l.busy = <<>> /\ l.responses = <<>> /\ l.held = <<>>
    BY <1>1, <1>16, Zenon DEF LinkInv, Stages
  <2>2. InHand(l) = <<>> /\ Ids(<<>>) = {} /\ Given(l) = l.answers
    BY <2>1, <1>2 DEF InHand, Ids, Given
  <2> QED
    BY <1>1, <2>1, <2>2, Zenon DEF LinkInv, Accounts
<1>17. Ordered(Given(l))
  BY <1>1, Zenon DEF LinkInv, Accounts
<1> QED
  BY <1>1, <1>14, <1>15, <1>16, <1>17, Zenon DEF l, v, Distinct, Ordered

\* Every request that the receiver took from the ring is held, queued, being
\* handled or answered, in one of these places only; the worker's answers come in
\* the order of the requests, and a connection ends when all are answered
\* (handle_requests), for any clients, requests and limits.
THEOREM EachRequestIsAnsweredOnce == IpcSpec => []AnswersAreInOrder
BY IpcInvariant, InvAnswers, PTL

\* What the client of connection l may rely on.
Told(l) ==
  l.at = "recv" /\ l.task = "open" /\ ~l.skipped
    => /\ Len(l.work) >= Warning => l.flow # FlowOk
       /\ Len(l.work) = MaxPending => l.flow = StopSending

\* Steps after which the work queue is no longer than before and the word is kept.
LEMMA StillTold ==
  ASSUME NEW l, NEW k, Told(l), k.at = l.at, k.task = "open" => l.task = "open",
         k.skipped = l.skipped, k.flow = l.flow,
         Len(k.work) = Len(l.work) \/ (Len(k.work) \in Nat /\ Len(l.work) = Len(k.work) + 1),
         Len(l.work) \in Nat, Len(l.work) <= MaxPending
  PROVE  Told(k)
BY IpcAssumption DEF IpcAssumption, Told

\* No step of the server makes the flow control word too weak for the queue.
LEMMA FlowStep ==
  ASSUME IpcInv, FlowControlCovers, [IpcNext]_ipcVars
  PROVE  FlowControlCovers'
<1> SUFFICES ASSUME NEW d \in Clients PROVE Told(link'[d])
  BY Zenon DEF FlowControlCovers, Told
<1>1. DOMAIN link = Clients /\ \A c \in Clients : LinkInv(link[c]) /\ Told(link[c])
  BY Zenon DEF IpcInv, FlowControlCovers, Told
<1>2. CASE link'[d] = link[d]
  BY <1>1, <1>2, Zenon
<1>3. \A c \in Clients :
        DOMAIN link[c] = LinkFields /\ link[c].work \in Seq(Request) /\ Len(link[c].work) <= MaxPending
  BY <1>1, Zenon DEF LinkInv, Shape, Stages
<1>4. \A c \in Clients : Len(link[c].work) \in Nat
  BY <1>3
<1>5. ASSUME NEW c \in Clients, ConnectionStep(c), link'[d] # link[d] PROVE Told(link'[d])
  <2> DEFINE l == link[c]
  <2>1. DOMAIN l = LinkFields /\ l.work \in Seq(Request) /\ Len(l.work) \in Nat
        /\ Len(l.work) <= MaxPending /\ Told(l)
    BY <1>1, <1>3, <1>4, Zenon
  <2>2. CASE Break(c)
    <3>1. d = c /\ link'[d] = [l EXCEPT !.task = "closing"]
      BY <1>1, <1>5, <2>2, Zenon DEF Break
    <3> QED
      BY <3>1, <2>1, Zenon DEF Told, LinkFields
  <2>3. CASE Receive(c)
    <3>1. l.task = "open" /\ l.at = "recv" /\ l.ring # <<>>
      BY <2>3, Zenon DEF Receive
    <3>2. Head(l.ring) \in Request
      BY <1>1, <3>1 DEF LinkInv, Shape
    <3>3. Head(l.ring).msg.size \in {"whole", "short", "long"}
      BY <3>2, IpcAssumption, Zenon DEF IpcAssumption, Request
    <3>4. d = c
      BY <1>1, <1>5, <2>3, <3>3, Zenon DEF Receive
    <3>5. CASE Head(l.ring).msg.size = "whole"
      <4>1. link' = [link EXCEPT ![c] =
              [l EXCEPT !.ring = Tail(l.ring), !.flow = FlowOk, !.at = "queue",
                        !.held = <<Head(l.ring)>>, !.received = l.received \cup {Head(l.ring).id}]]
        BY <2>3, <3>5, Zenon DEF Receive
      <4>2. link'[d].at = "queue"
        BY <1>1, <3>4, <4>1, <2>1, Zenon DEF LinkFields
      <4> QED
        BY <4>2, Zenon DEF Told
    <3>6. CASE Head(l.ring).msg.size = "short"
      <4>1. link'[d] = [l EXCEPT !.ring = Tail(l.ring), !.flow = FlowOk, !.skipped = TRUE]
        BY <1>1, <2>3, <3>4, <3>6, Zenon DEF Receive
      <4> QED
        BY <4>1, <2>1, Zenon DEF Told, LinkFields
    <3>7. CASE Head(l.ring).msg.size = "long"
      <4>1. link'[d] = [l EXCEPT !.task = "closing"]
        BY <1>1, <2>3, <3>4, <3>7, Zenon DEF Receive
      <4> QED
        BY <4>1, <2>1, Zenon DEF Told, LinkFields
    <3> QED
      BY <3>3, <3>5, <3>6, <3>7, Zenon
  <2>4. CASE Queue(c)
    <3>1. /\ d = c
          /\ \/ link'[d] = [l EXCEPT !.work = l.work \o l.held, !.held = <<>>, !.at = "flow",
                                     !.skipped = FALSE]
             \/ link'[d] = [l EXCEPT !.flow = StopSending, !.held = <<>>, !.at = "recv",
                                     !.skipped = FALSE,
                                     !.responses = Append(l.responses,
                                        [id |-> l.held[1].id, error |-> "EAGAIN"])]
      BY <1>1, <1>5, <2>4, Zenon DEF Queue
    <3>2. link'[d].at = "flow" \/ link'[d].flow = StopSending
      BY <3>1, <2>1, Zenon DEF LinkFields
    <3> QED
      BY <3>2 DEF Told, StopSending, FlowOk
  <2>5. CASE SetFlow(c)
    <3>1. d = c /\ link'[d] = [l EXCEPT !.flow = FlowLevel(Len(l.work)), !.at = "recv"]
      BY <1>1, <1>5, <2>5, Zenon DEF SetFlow
    <3>2. link'[d].flow = FlowLevel(Len(l.work)) /\ link'[d].work = l.work
      BY <3>1, <2>1, Zenon DEF LinkFields
    <3>3. /\ Len(l.work) >= Warning => FlowLevel(Len(l.work)) # FlowOk
          /\ Len(l.work) = MaxPending => FlowLevel(Len(l.work)) = StopSending
      BY <2>1, IpcAssumption DEF IpcAssumption, FlowLevel, FlowOk, SlowDown, StopSending
    <3> QED
      BY <3>2, <3>3, Zenon DEF Told
  <2>6. CASE TakeWork(c)
    <3>1. /\ d = c /\ l.work # <<>>
          /\ link'[d] = [l EXCEPT !.work = Tail(l.work),
                           !.busy = <<[req |-> Head(l.work), vmlist |-> store.vmlist]>>]
      BY <1>1, <1>5, <2>6, Zenon DEF TakeWork
    <3>2. Len(Tail(l.work)) \in Nat /\ Len(l.work) = Len(Tail(l.work)) + 1
      BY <2>1, <3>1
    <3>3. /\ link'[d].work = Tail(l.work) /\ link'[d].at = l.at /\ link'[d].task = l.task
          /\ link'[d].skipped = l.skipped /\ link'[d].flow = l.flow
      BY <3>1, <2>1, Zenon DEF LinkFields
    <3> HIDE DEF l
    <3> QED
      BY <2>1, <3>2, <3>3, StillTold, Zenon
  <2>7. CASE HandleWork(c) \/ SendResponse(c) \/ FinishConnection(c)
    <3>1. d = c
      BY <1>1, <1>5, <2>7, Zenon DEF HandleWork, SendResponse, FinishConnection
    <3>2. /\ link'[d].work = l.work /\ link'[d].at = l.at /\ link'[d].skipped = l.skipped
          /\ link'[d].flow = l.flow /\ (link'[d].task = "open" => l.task = "open")
      <4>1. CASE HandleWork(c)
        BY <1>1, <2>1, <4>1, <3>1 DEF HandleWork, LinkFields
      <4>2. CASE SendResponse(c)
        BY <1>1, <2>1, <4>2, <3>1, Zenon DEF SendResponse, LinkFields
      <4>3. CASE FinishConnection(c)
        BY <1>1, <2>1, <4>3, <3>1, Zenon DEF FinishConnection, LinkFields
      <4> QED
        BY <2>7, <4>1, <4>2, <4>3, Zenon
    <3> HIDE DEF l
    <3> QED
      BY <2>1, <3>2, StillTold, Zenon
  <2> QED
    BY <1>5, <2>2, <2>3, <2>4, <2>5, <2>6, <2>7, Zenon DEF ConnectionStep, ReceiverStep, WorkerStep
<1>6. ASSUME NEW c \in Clients, NEW m \in Inputs, ClientSends(c, m) PROVE Told(link'[d])
  <2>1. /\ link'[d].work = link[d].work /\ link'[d].at = link[d].at /\ link'[d].flow = link[d].flow
        /\ link'[d].skipped = link[d].skipped /\ link'[d].task = link[d].task
    BY <1>1, <1>3, <1>6, Zenon DEF ClientSends, LinkFields
  <2> QED
    BY <2>1, <1>1, <1>3, <1>4, StillTold, Zenon
<1>7. ASSUME NEW c \in Clients, ClientReads(c) PROVE Told(link'[d])
  <2>1. /\ link'[d].work = link[d].work /\ link'[d].at = link[d].at /\ link'[d].flow = link[d].flow
        /\ link'[d].skipped = link[d].skipped /\ link'[d].task = link[d].task
    BY <1>1, <1>3, <1>7, Zenon DEF ClientReads, LinkFields
  <2> QED
    BY <2>1, <1>1, <1>3, <1>4, StillTold, Zenon
<1>8. ASSUME NEW h \in Handshakes, Establish(h), link'[d] # link[d] PROVE Told(link'[d])
  <2>1. link'[d].work = <<>>
    BY <1>1, <1>8 DEF Establish, NoLink
  <2> QED
    BY <2>1, IpcAssumption DEF IpcAssumption, Told
<1>9. UNCHANGED link \/ (\E h \in Handshakes : Establish(h))
      \/ (\E c \in Clients : ConnectionStep(c) \/ ClientReads(c) \/ \E m \in Inputs : ClientSends(c, m))
  BY Zenon DEF IpcNext, AcceptorStep, StopStep, ClientStep, Accept, AcceptorCancelled, HandshakeFails,
         InsertConnection, ConnectionCreated, Refuse, CancelToken, TakeConnections, Connect,
         ClientLeaves, GuestMoves, ipcVars
<1> QED
  BY <1>2, <1>5, <1>6, <1>7, <1>8, <1>9, Zenon

\* When the receiver waits for the next request, the client has been told to slow
\* down or to stop if the work queue is that long (connection.rs:331-338, 432-468),
\* for any limits above zero.
THEOREM FlowControlIsInTime == IpcSpec => []FlowControlCovers
<1>1. IpcInit => FlowControlCovers
  BY IpcAssumption DEF IpcAssumption, IpcInit, NoLink, FlowControlCovers
<1> QED
  BY <1>1, IpcInvariant, FlowStep, PTL DEF IpcSpec
=============================================================================
