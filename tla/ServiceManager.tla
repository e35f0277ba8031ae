---------------------------- MODULE ServiceManager ----------------------------
(***************************************************************************)
(* The service manager (pmxcfs-services/manager.rs): one task per service  *)
(* that initialises it with a fixed retry interval, dispatches when its    *)
(* file descriptor is readable, runs its timer callback, reinitialises it  *)
(* when dispatch fails and finalises it on shutdown.                       *)
(*                                                                         *)
(* The tasks share the cancellation token and the reactor.  A descriptor   *)
(* is a small number the operating system hands out again once it is       *)
(* closed.  The reactor keeps its registrations by number: closing a       *)
(* descriptor drops its registration, and dropping an AsyncFd removes      *)
(* whatever registration its number has at that moment.                    *)
(*                                                                         *)
(* initialize, dispatch, timer_callback and finalize of the daemon's       *)
(* services never suspend, so a task runs from one wait to the next        *)
(* without the cancelled branch of its select being taken in between.      *)
(***************************************************************************)
EXTENDS Naturals

CONSTANTS Services,       \* the registered services
          Fds,            \* descriptor numbers the operating system hands out
          NoFd,           \* no descriptor
          RetryInterval,  \* pause between two initialisations (5 s)
          TimerPeriod     \* timer_period() of each service; 0 stands for None

ASSUME ServiceManagerAssumption ==
  /\ NoFd \notin Fds
  /\ RetryInterval \in Nat \ {0}
  /\ TimerPeriod \in [Services -> Nat]

VARIABLES running,     \* the task's running flag
          asyncFd,     \* number held by the task's AsyncFd object, NoFd for None
          serviceFd,   \* descriptor the service itself holds open
          registered,  \* numbers the reactor watches
          pending,     \* an event waits on the service's descriptor
          sinceInit,   \* time since last_init_attempt, capped at RetryInterval
          sinceTimer,  \* time since last_timer, capped at TimerPeriod
          stopped,     \* the task's run_service has returned
          cancelled    \* the shutdown token

vars == <<running, asyncFd, serviceFd, registered, pending,
          sinceInit, sinceTimer, stopped, cancelled>>

\* One type invariant for the module.
TypeOK ==
  /\ running \in [Services -> BOOLEAN]
  /\ asyncFd \in [Services -> Fds \cup {NoFd}]
  /\ serviceFd \in [Services -> Fds \cup {NoFd}]
  /\ registered \subseteq Fds
  /\ pending \in [Services -> BOOLEAN]
  /\ sinceInit \in [Services -> 0..RetryInterval]
  /\ sinceTimer \in [Services -> Nat]
  /\ \A s \in Services : sinceTimer[s] <= TimerPeriod[s]
  /\ stopped \in [Services -> BOOLEAN]
  /\ cancelled \in BOOLEAN

\* last_init_attempt and last_timer are None at first, which the code treats
\* like an interval that has already elapsed.
Init ==
  /\ running = [s \in Services |-> FALSE]
  /\ asyncFd = [s \in Services |-> NoFd]
  /\ serviceFd = [s \in Services |-> NoFd]
  /\ registered = {}
  /\ pending = [s \in Services |-> FALSE]
  /\ sinceInit = [s \in Services |-> RetryInterval]
  /\ sinceTimer = [s \in Services |-> TimerPeriod[s]]
  /\ stopped = [s \in Services |-> FALSE]
  /\ cancelled = FALSE

FreeFds == Fds \ {serviceFd[s] : s \in Services}

-----------------------------------------------------------------------------
\* Mutant: initialises only while no AsyncFd object is left over.
MayInitialize_Once(s) ==
  ~running[s] /\ ~stopped[s] /\ sinceInit[s] = RetryInterval /\ asyncFd[s] = NoFd

MayInitialize(s) == ~running[s] /\ ~stopped[s] /\ sinceInit[s] = RetryInterval

\* initialize() fails: nothing is kept, the next attempt is RetryInterval away.
\* The same holds when AsyncFd::new refuses the descriptor, because finalize()
\* closes it at once.
InitializeFails(s) ==
  /\ MayInitialize(s)
  /\ sinceInit' = [sinceInit EXCEPT ![s] = 0]
  /\ UNCHANGED <<running, asyncFd, serviceFd, registered, pending,
                 sinceTimer, stopped, cancelled>>

\* What the reactor watches once AsyncFd::new(fd) has succeeded and the AsyncFd
\* it replaces is dropped: fd is added first, the old number removed after.
RegisteredAfterReplace(s, fd) == (registered \cup {fd}) \ {asyncFd[s]}

InitializeSucceeds(s, fd) ==
  /\ MayInitialize(s)
  /\ fd \in FreeFds
  /\ sinceInit' = [sinceInit EXCEPT ![s] = 0]
  /\ serviceFd' = [serviceFd EXCEPT ![s] = fd]
  /\ registered' = RegisteredAfterReplace(s, fd)
  /\ asyncFd' = [asyncFd EXCEPT ![s] = fd]
  /\ running' = [running EXCEPT ![s] = TRUE]
  /\ UNCHANGED <<pending, sinceTimer, stopped, cancelled>>

TimerDue(s) == TimerPeriod[s] > 0 /\ sinceTimer[s] = TimerPeriod[s]

\* The timer branch of the biased select; an error of the callback is logged.
TimerCallback(s) ==
  /\ running[s] /\ TimerDue(s)
  /\ sinceTimer' = [sinceTimer EXCEPT ![s] = 0]
  /\ UNCHANGED <<running, asyncFd, serviceFd, registered, pending,
                 sinceInit, stopped, cancelled>>

\* The reactor reports the descriptor: it is watched and an event waits on it.
Readable(s) == pending[s] /\ asyncFd[s] \in registered

\* The fd branch of the biased select, dispatch() returning Ok(true).
DispatchContinues(s) ==
  /\ running[s] /\ ~TimerDue(s) /\ Readable(s)
  /\ pending' = [pending EXCEPT ![s] = FALSE]
  /\ UNCHANGED <<running, asyncFd, serviceFd, registered,
                 sinceInit, sinceTimer, stopped, cancelled>>

\* Mutant: the flag is cleared but finalize() is not called.
Reinitialize_NoFinalize(s) ==
  /\ running' = [running EXCEPT ![s] = FALSE]
  /\ UNCHANGED <<serviceFd, registered, pending,
                 asyncFd, sinceInit, sinceTimer, stopped, cancelled>>

\* reinitialize(): the flag is cleared and finalize() closes the descriptor; the
\* AsyncFd object stays where it is until the next successful initialisation.
Reinitialize(s) ==
  /\ running' = [running EXCEPT ![s] = FALSE]
  /\ serviceFd' = [serviceFd EXCEPT ![s] = NoFd]
  /\ registered' = registered \ {serviceFd[s]}
  /\ pending' = [pending EXCEPT ![s] = FALSE]
  /\ UNCHANGED <<asyncFd, sinceInit, sinceTimer, stopped, cancelled>>

\* dispatch() returns Ok(false) or an error.
DispatchReinitializes(s) ==
  /\ running[s] /\ ~TimerDue(s) /\ Readable(s)
  /\ Reinitialize(s)

\* readable() itself fails.
ReadableFails(s) ==
  /\ running[s] /\ ~TimerDue(s)
  /\ Reinitialize(s)

\* Mutant: the task returns without finalising the service.
Shutdown_NoFinalize(s) ==
  /\ cancelled /\ ~stopped[s]
  /\ stopped' = [stopped EXCEPT ![s] = TRUE]
  /\ running' = [running EXCEPT ![s] = FALSE]
  /\ asyncFd' = [asyncFd EXCEPT ![s] = NoFd]
  /\ registered' = registered \ {asyncFd[s]}
  /\ UNCHANGED <<serviceFd, pending, sinceInit, sinceTimer, cancelled>>

\* The cancelled branch of run_service's select: the task drops its AsyncFd,
\* finalises the service and returns.
Shutdown(s) ==
  /\ cancelled /\ ~stopped[s]
  /\ stopped' = [stopped EXCEPT ![s] = TRUE]
  /\ running' = [running EXCEPT ![s] = FALSE]
  /\ asyncFd' = [asyncFd EXCEPT ![s] = NoFd]
  /\ serviceFd' = [serviceFd EXCEPT ![s] = NoFd]
  /\ registered' = registered \ {asyncFd[s], serviceFd[s]}
  /\ pending' = [pending EXCEPT ![s] = FALSE]
  /\ UNCHANGED <<sinceInit, sinceTimer, cancelled>>

\* The daemon cancels the token.
Cancel ==
  /\ ~cancelled
  /\ cancelled' = TRUE
  /\ UNCHANGED <<running, asyncFd, serviceFd, registered, pending,
                 sinceInit, sinceTimer, stopped>>

-----------------------------------------------------------------------------
\* Corosync makes an open descriptor readable.
EventArrives(s) ==
  /\ serviceFd[s] # NoFd /\ ~pending[s]
  /\ pending' = [pending EXCEPT ![s] = TRUE]
  /\ UNCHANGED <<running, asyncFd, serviceFd, registered,
                 sinceInit, sinceTimer, stopped, cancelled>>

\* Time passes for every task.
Tick ==
  /\ sinceInit' = [s \in Services |->
       IF sinceInit[s] < RetryInterval THEN sinceInit[s] + 1 ELSE sinceInit[s]]
  /\ sinceTimer' = [s \in Services |->
       IF sinceTimer[s] < TimerPeriod[s] THEN sinceTimer[s] + 1 ELSE sinceTimer[s]]
  /\ <<sinceInit, sinceTimer>>' # <<sinceInit, sinceTimer>>
  /\ UNCHANGED <<running, asyncFd, serviceFd, registered, pending, stopped, cancelled>>

Initialize(s) == InitializeFails(s) \/ \E fd \in Fds : InitializeSucceeds(s, fd)

Dispatch(s) == DispatchContinues(s) \/ DispatchReinitializes(s)

Next ==
  \/ \E s \in Services :
       \/ InitializeFails(s)
       \/ \E fd \in Fds : InitializeSucceeds(s, fd)
       \/ TimerCallback(s)
       \/ DispatchContinues(s)
       \/ DispatchReinitializes(s)
       \/ ReadableFails(s)
       \/ Shutdown(s)
       \/ EventArrives(s)
  \/ Cancel
  \/ Tick

Spec == Init /\ [][Next]_vars

\* A task that is not waiting is polled again by the runtime, and time passes.
\* dispatch needs strong fairness: the biased select polls the timer first, so a
\* readable descriptor is served at the first poll that finds no timer due.
Fairness ==
  /\ WF_vars(Tick)
  /\ \A s \in Services :
       /\ WF_vars(Initialize(s))
       /\ WF_vars(TimerCallback(s))
       /\ SF_vars(Dispatch(s))
       /\ WF_vars(Shutdown(s))

FairSpec == Spec /\ Fairness

-----------------------------------------------------------------------------
(***************************************************************************)
(* Properties                                                              *)
(***************************************************************************)

\* Dispatch and timer callbacks only ever reach a service whose connection is
\* open, through the AsyncFd of that very connection, and a task that is not
\* running holds no connection: initialize is never called on top of an open
\* connection, so reinitialisation leaks none (manager.rs:138-148, 211-243).
ConnectionMatchesFlag ==
  \A s \in Services :
    IF running[s] THEN serviceFd[s] # NoFd /\ asyncFd[s] = serviceFd[s]
                  ELSE serviceFd[s] = NoFd

\* A registration in the reactor always belongs to a running service: no
\* wake-ups for a closed descriptor (manager.rs:140-148, 236-243).
NoStaleRegistration ==
  \A fd \in registered : \E s \in Services : running[s] /\ serviceFd[s] = fd

\* A service that is down is initialised again and again until it runs or the
\* daemon shuts down (service.rs:27 "will be automatically retried after 5 seconds").
DownServiceIsRetried ==
  \A s \in Services :
    (~running[s] /\ ~stopped[s])
      ~> (running[s] \/ sinceInit[s] = 0 \/ stopped[s])

\* Once the token is cancelled every task finalises its service and returns, and
\* no descriptor stays open or registered (README "Wait for all services to finalize").
ShutdownCompletes ==
  cancelled ~> (registered = {} /\ \A s \in Services : stopped[s] /\ serviceFd[s] = NoFd)
=============================================================================
