------------------------------ MODULE Executor ------------------------------
(***************************************************************************)
(* The ironspdk executor of one SPDK thread (ironspdk/src/lib.rs): the     *)
(* thread control block with its run queue and its SPDK poller, the task   *)
(* state machine driven by Task::poll and Task::wake, the one-shot         *)
(* IoFuture that keeps a task's waker, and the exit of the thread.         *)
(*                                                                         *)
(* Everything here runs on one SPDK thread, so an action is what happens   *)
(* between two points where other code of that thread can run: a message,  *)
(* a completion callback, one step of the body of a future.                *)
(*                                                                         *)
(* The thread is alone on its reactor, so Tcb::current() always finds the  *)
(* block it cached (lib.rs:1979-1986) once the block exists.               *)
(***************************************************************************)
EXTENDS Naturals, Sequences, Functions

CONSTANTS
  Tasks,          \* the futures that may be spawned on the thread
  Futs,           \* the IoFutures those futures await, each used once
  Awaiter,        \* Awaiter[f]: the one task that polls f (future() is &mut)
  NoTask,         \* stands for waker = None
  Join,           \* may a task ask two parties to wake it in one poll?
  MaxYields       \* bound: how many times tasks wake themselves

Exit == "exit"   \* the message of request_exit

ASSUME ExecutorAssumption ==
  /\ Awaiter \in [Futs -> Tasks]
  /\ NoTask \notin Tasks /\ Exit \notin Tasks
  /\ Join \in BOOLEAN
  /\ MaxYields \in Nat

VARIABLES
  thread,   \* SPDK's view of the thread: running, exiting or exited
  late,     \* history: tasks that may be woken after the exit began
  inbox,    \* messages sent to the thread, oldest first
  tcb,      \* none, live (in TCB_REGISTRY, poller registered) or dead
  tls,      \* does a TLS slot of the TCB hold a value (an I/O channel)?
  runq,     \* Tcb.runq
  inPoll,   \* inside the loop of Tcb::poll
  stack,    \* tasks being polled, innermost first (spawn_local nests)
  state,    \* Task.state, with Unborn and Sent before Task::new
  fut,      \* new, pending (submitted) or done
  waker,    \* IoFuture.waker
  asked,    \* tasks that asked to be woken since their last poll began
  yields,   \* self-wakes so far
  panic     \* none, or why the process aborted

vars == <<thread, late, inbox, tcb, tls, runq, inPoll, stack, state, fut,
          waker, asked, yields, panic>>

taskVars == <<runq, inPoll, stack, state>>
futVars  == <<fut, waker, asked, yields>>

TaskState == {"Unborn", "Sent", "Idle", "Running", "Notified", "Ready"}

TypeOK ==
  /\ thread \in {"running", "exiting", "exited"}
  /\ late \in SUBSET Tasks
  /\ inbox \in Seq(Tasks \cup {Exit})
  /\ tcb \in {"none", "live", "dead"}
  /\ tls \in BOOLEAN
  /\ runq \in Seq(Tasks)
  /\ inPoll \in BOOLEAN
  /\ stack \in Seq(Tasks)
  /\ state \in [Tasks -> TaskState]
  /\ fut \in [Futs -> {"new", "pending", "done"}]
  /\ waker \in [Futs -> Tasks \cup {NoTask}]
  /\ asked \in SUBSET Tasks
  /\ yields \in 0..MaxYields
  /\ panic \in {"none", "resumed after completion", "TCB not found"}

Init ==
  /\ thread = "running"
  /\ late = {}
  /\ inbox = <<>>
  /\ tcb = "none"
  /\ tls = FALSE
  /\ runq = <<>>
  /\ inPoll = FALSE
  /\ stack = <<>>
  /\ state = [t \in Tasks |-> "Unborn"]
  /\ fut = [f \in Futs |-> "new"]
  /\ waker = [f \in Futs |-> NoTask]
  /\ asked = {}
  /\ yields = 0
  /\ panic = "none"

-----------------------------------------------------------------------------
Queued(t)  == t \in Range(runq)
OnStack(t) == t \in Range(stack)
Wakers(t)  == {f \in Futs : waker[f] = t}

\* The reactor is between two callbacks of this thread.
AtReactor == stack = <<>> /\ ~inPoll /\ panic = "none"

\* t is the future whose body is executing.
IsRunning(t) == stack # <<>> /\ Head(stack) = t /\ panic = "none"

\* The block returned by Tcb::current(): created on first use, and still the
\* cached one after shutdown has removed it from the registry.
CurrentTcb == IF tcb = "none" THEN "live" ELSE tcb

\* Mutant: shutdown forgets the TLS slots.
Shutdown_KeepTls ==
  /\ runq' = <<>>
  /\ UNCHANGED tls
  /\ IF CurrentTcb = "live"
       THEN tcb' = "dead" /\ UNCHANGED panic
       ELSE panic' = "TCB not found" /\ UNCHANGED tcb

\* Tcb::shutdown: empty the TLS slots and the run queue, unregister the poller
\* and remove the block from the registry, where it must be.
Shutdown ==
  /\ tls' = FALSE
  /\ runq' = <<>>
  /\ IF CurrentTcb = "live"
       THEN tcb' = "dead" /\ UNCHANGED panic
       ELSE panic' = "TCB not found" /\ UNCHANGED tcb

\* Mutant: a task woken while it runs is not marked, its wake-up is dropped.
Wake_LoseWhileRunning(t) ==
  IF thread # "running"
    THEN Shutdown /\ UNCHANGED state
    ELSE /\ tcb' = CurrentTcb
         /\ IF state[t] = "Idle"
              THEN /\ state' = [state EXCEPT ![t] = "Notified"]
                   /\ runq' = Append(runq, t)
              ELSE UNCHANGED <<state, runq>>
         /\ UNCHANGED <<tls, panic>>

\* Mutant: every wake-up queues the task, whatever its state.
Wake_AlwaysQueue(t) ==
  IF thread # "running"
    THEN Shutdown /\ UNCHANGED state
    ELSE /\ tcb' = CurrentTcb
         /\ state' = [state EXCEPT ![t] = "Notified"]
         /\ runq' = Append(runq, t)
         /\ UNCHANGED <<tls, panic>>

\* Task::wake(t): what it does to the block, the queue and the task's state.
Wake(t) ==
  IF thread # "running"
    THEN Shutdown /\ UNCHANGED state
    ELSE /\ tcb' = CurrentTcb
         /\ CASE state[t] = "Running" ->
                   /\ state' = [state EXCEPT ![t] = "Notified"]
                   /\ UNCHANGED runq
              [] state[t] = "Idle" ->
                   /\ state' = [state EXCEPT ![t] = "Notified"]
                   /\ runq' = Append(runq, t)
              [] OTHER -> UNCHANGED <<state, runq>>
         /\ UNCHANGED <<tls, panic>>

\* IoFuture::complete: mark it done and wake the task that left a waker.
CompleteFut(f) ==
  /\ fut' = [fut EXCEPT ![f] = "done"]
  /\ waker' = [waker EXCEPT ![f] = NoTask]
  /\ IF waker[f] = NoTask
       THEN UNCHANGED <<tcb, tls, runq, state, panic>>
       ELSE Wake(waker[f])

-----------------------------------------------------------------------------
(* Messages: other threads spawn futures here and ask the thread to exit.  *)

ExitRequested == thread # "running" \/ Exit \in Range(inbox)

\* SpdkThread::spawn called on any thread: a message carries the future here.
Spawn(t) ==
  /\ panic = "none"
  /\ thread # "exited"
  /\ state[t] = "Unborn"
  /\ state' = [state EXCEPT ![t] = "Sent"]
  /\ inbox' = Append(inbox, t)
  /\ UNCHANGED <<thread, late, tcb, tls, runq, inPoll, stack, futVars, panic>>

\* SpdkThread::request_exit, at any time: the caller knows nothing of the tasks.
RequestExit ==
  /\ panic = "none"
  /\ ~ExitRequested
  /\ inbox' = Append(inbox, Exit)
  /\ UNCHANGED <<thread, late, tcb, tls, taskVars, futVars, panic>>

\* The trampoline of spawn: make the task and put it on the run queue.
HandleSpawn ==
  /\ AtReactor
  /\ inbox # <<>> /\ Head(inbox) \in Tasks
  /\ inbox' = Tail(inbox)
  /\ tcb' = CurrentTcb
  /\ state' = [state EXCEPT ![Head(inbox)] = "Idle"]
  /\ runq' = Append(runq, Head(inbox))
  /\ UNCHANGED <<thread, late, tls, inPoll, stack, futVars, panic>>

\* The trampoline of request_exit: spdk_thread_exit. Tasks that wait for an
\* answer at that moment will be woken on a thread that is exiting.
HandleExit ==
  /\ AtReactor
  /\ inbox # <<>> /\ Head(inbox) = Exit
  /\ inbox' = Tail(inbox)
  /\ thread' = "exiting"
  /\ late' = late \cup {t \in Tasks : Wakers(t) # {}}
  /\ UNCHANGED <<tcb, tls, taskVars, futVars, panic>>

-----------------------------------------------------------------------------
(* The poller: Tcb::poll runs tasks until the run queue is empty.          *)

\* Tcb::poll on a running thread enters its loop.
PollBegin ==
  /\ AtReactor /\ tcb = "live" /\ thread = "running"
  /\ runq # <<>>
  /\ inPoll' = TRUE
  /\ UNCHANGED <<thread, late, inbox, tcb, tls, runq, stack, state, futVars,
                 panic>>

\* Mutant: Task::poll returns early for a task that is already notified.
PollNext_SkipNotified ==
  /\ inPoll /\ stack = <<>> /\ runq # <<>> /\ panic = "none"
  /\ LET t == Head(runq) IN
       /\ runq' = Tail(runq)
       /\ IF state[t] = "Notified"
            THEN UNCHANGED <<stack, state, asked>>
            ELSE /\ stack' = <<t>>
                 /\ state' = [state EXCEPT ![t] = "Running"]
                 /\ asked' = asked \ {t}
  /\ UNCHANGED <<thread, late, inbox, tcb, tls, inPoll, fut, waker, yields,
                 panic>>

\* Tcb::poll pops a task and Task::poll starts it, unless it is running. A
\* future that has already returned Ready panics when it is polled again.
PollNext ==
  /\ inPoll /\ stack = <<>> /\ runq # <<>> /\ panic = "none"
  /\ LET t == Head(runq) IN
       /\ runq' = Tail(runq)
       /\ CASE state[t] = "Running" -> UNCHANGED <<stack, state, asked, panic>>
            [] state[t] = "Ready" ->
                 /\ panic' = "resumed after completion"
                 /\ UNCHANGED <<stack, state, asked>>
            [] OTHER ->
                 /\ stack' = <<t>>
                 /\ state' = [state EXCEPT ![t] = "Running"]
                 /\ asked' = asked \ {t}
                 /\ UNCHANGED panic
  /\ UNCHANGED <<thread, late, inbox, tcb, tls, inPoll, fut, waker, yields>>

PollEnd ==
  /\ inPoll /\ stack = <<>> /\ runq = <<>> /\ panic = "none"
  /\ inPoll' = FALSE
  /\ UNCHANGED <<thread, late, inbox, tcb, tls, runq, stack, state, futVars,
                 panic>>

\* Mutant: shutdown leaves the poller registered, which runs it again.
PollShutdown_KeepPoller ==
  /\ AtReactor /\ tcb # "none" /\ thread = "exiting"
  /\ Shutdown
  /\ UNCHANGED <<thread, late, inbox, inPoll, stack, state, futVars>>

\* Tcb::poll on a thread that is exiting.
PollShutdown ==
  /\ AtReactor /\ tcb = "live" /\ thread = "exiting"
  /\ Shutdown
  /\ UNCHANGED <<thread, late, inbox, inPoll, stack, state, futVars>>

\* SPDK lets an exiting thread go once nothing holds it: no message, no poller,
\* no I/O channel (the TLS value is one), no I/O in flight.
ThreadExit ==
  /\ AtReactor /\ thread = "exiting"
  /\ tcb # "live" /\ ~tls /\ inbox = <<>>
  /\ \A f \in Futs : fut[f] # "pending"
  /\ thread' = "exited"
  /\ UNCHANGED <<late, inbox, tcb, tls, taskVars, futVars, panic>>

-----------------------------------------------------------------------------
(* The body of a future, one call into the runtime at a time.              *)

\* SpdkThread::spawn_local polls the new task at once, inside its caller: an
\* SPDK callback such as submit_io, or the body of another future. It does not
\* ask whether the thread is exiting.
SpawnLocal(u) ==
  /\ thread # "exited" /\ panic = "none"
  /\ stack # <<>> \/ ~inPoll
  /\ state[u] = "Unborn"
  /\ state' = [state EXCEPT ![u] = "Running"]
  /\ stack' = <<u>> \o stack
  /\ asked' = asked \ {u}
  /\ late' = IF thread = "running" THEN late ELSE late \cup {u}
  /\ UNCHANGED <<thread, inbox, tcb, tls, runq, inPoll, fut, waker, yields,
                 panic>>

\* TlsKey::set: keep a channel in the thread's TLS. The tasks that do so are
\* sent by spawn (raid5.rs:131-136), so the poller runs them and the thread is
\* not exiting; TcbRegistry has values stored later.
SetTls(t) ==
  /\ IsRunning(t) /\ thread = "running" /\ ~tls
  /\ tls' = TRUE
  /\ tcb' = CurrentTcb
  /\ UNCHANGED <<thread, late, inbox, taskVars, futVars, panic>>

\* Lbdev::read or write: submitted (rc = 0), or refused at once (rc # 0), when
\* the future is completed before anybody has polled it.
Submit(t, f) ==
  /\ IsRunning(t) /\ Awaiter[f] = t /\ fut[f] = "new"
  /\ \E s \in {"pending", "done"} : fut' = [fut EXCEPT ![f] = s]
  /\ UNCHANGED <<thread, late, inbox, tcb, tls, taskVars, waker, asked, yields,
                 panic>>

\* Mutant: the future keeps a pointer to itself instead of the task's waker.
Await_WrongWaker(t, f) ==
  /\ IsRunning(t) /\ Awaiter[f] = t /\ fut[f] = "pending"
  /\ Join \/ t \notin asked
  /\ waker' = [waker EXCEPT ![f] = f]
  /\ asked' = asked \cup {t}
  /\ UNCHANGED <<thread, late, inbox, tcb, tls, taskVars, fut, yields, panic>>

\* IoFuture::poll of a future that is not done leaves the task's waker in it.
\* A task that awaits one thing at a time then has to return.
Await(t, f) ==
  /\ IsRunning(t) /\ Awaiter[f] = t /\ fut[f] = "pending"
  /\ Join \/ t \notin asked
  /\ waker' = [waker EXCEPT ![f] = t]
  /\ asked' = asked \cup {t}
  /\ UNCHANGED <<thread, late, inbox, tcb, tls, taskVars, fut, yields, panic>>

\* A future that wakes itself and returns Pending (wake_by_ref).
Yield(t) ==
  /\ IsRunning(t) /\ yields < MaxYields
  /\ Join \/ t \notin asked
  /\ yields' = yields + 1
  /\ asked' = asked \cup {t}
  /\ Wake(t)
  /\ UNCHANGED <<thread, late, inbox, inPoll, stack, fut, waker>>

\* The running body completes a future itself (BdevIo::complete).
CompleteInBody(t, f) ==
  /\ IsRunning(t) /\ fut[f] = "pending"
  /\ CompleteFut(f)
  /\ UNCHANGED <<thread, late, inbox, inPoll, stack, asked, yields>>

\* Task::poll gets Ready. Whoever awaits properly has no I/O left (lib.rs:2350).
ReturnReady(t) ==
  /\ IsRunning(t)
  /\ \A f \in Futs : Awaiter[f] = t => fut[f] # "pending"
  /\ Join \/ t \notin asked
  /\ state' = [state EXCEPT ![t] = "Ready"]
  /\ stack' = Tail(stack)
  /\ UNCHANGED <<thread, late, inbox, tcb, tls, runq, inPoll, futVars, panic>>

\* Mutant: every pending task goes back on the queue.
ReturnPending_AlwaysQueue(t) ==
  /\ IsRunning(t) /\ t \in asked
  /\ runq' = Append(runq, t)
  /\ state' = [state EXCEPT ![t] = "Idle"]
  /\ stack' = Tail(stack)
  /\ UNCHANGED <<thread, late, inbox, tcb, tls, inPoll, futVars, panic>>

\* Task::poll gets Pending: a task notified meanwhile goes back on the queue.
\* A future returns Pending only after it has asked somebody to wake it: a
\* future it awaits, which kept its waker, or itself.
ReturnPending(t) ==
  /\ IsRunning(t) /\ t \in asked
  /\ runq' = IF state[t] = "Notified" THEN Append(runq, t) ELSE runq
  /\ state' = [state EXCEPT ![t] = "Idle"]
  /\ stack' = Tail(stack)
  /\ UNCHANGED <<thread, late, inbox, tcb, tls, inPoll, futVars, panic>>

\* The lower bdev answers: spdk_rwio_complete_cb, called by another poller.
Complete(f) ==
  /\ AtReactor /\ fut[f] = "pending"
  /\ CompleteFut(f)
  /\ UNCHANGED <<thread, late, inbox, inPoll, stack, asked, yields>>

-----------------------------------------------------------------------------
Poller == PollBegin \/ PollNext \/ PollEnd \/ PollShutdown

Handle == HandleSpawn \/ HandleExit

Return == \E t \in Tasks : ReturnReady(t) \/ ReturnPending(t)

Body ==
  \/ \E t \in Tasks : SetTls(t) \/ Yield(t)
  \/ \E t \in Tasks, f \in Futs :
        Submit(t, f) \/ Await(t, f) \/ CompleteInBody(t, f)
  \/ Return

Answer == \E f \in Futs : Complete(f)

Next ==
  \/ \E t \in Tasks : Spawn(t) \/ SpawnLocal(t)
  \/ RequestExit \/ Handle \/ Poller \/ ThreadExit \/ Body \/ Answer

Spec == Init /\ [][Next]_vars

\* The reactor keeps handling messages and running the poller, a poll of a
\* future never blocks, and the lower bdev answers what was submitted to it.
Fairness ==
  /\ WF_vars(Handle)
  /\ WF_vars(Poller)
  /\ WF_vars(ThreadExit)
  /\ WF_vars(Body)
  /\ \A f \in Futs : WF_vars(Complete(f))

FairSpec == Spec /\ Fairness

-----------------------------------------------------------------------------
(* A suspended task can always be woken: while the thread runs, a task     *)
(* that returned Pending is on the run queue or has left its waker in a    *)
(* future that is still to complete (wake and requeue, lib.rs:2161-2193).  *)
NoLostWakeup ==
  thread = "running" /\ panic = "none" =>
    \A t \in Tasks :
      state[t] \in {"Idle", "Notified"} /\ ~OnStack(t) =>
        Queued(t) \/ \E f \in Wakers(t) : fut[f] = "pending"

(* A future that returned Ready is never polled again: spawn_local says it *)
(* is polled again when woken if it returned Pending (lib.rs:1725-1727).   *)
NeverResumed == panic # "resumed after completion"

(* A task is on the run queue at most once, and not while it is polled, so *)
(* one poll answers one wake-up.                                           *)
QueuedOnce ==
  /\ IsInjective(runq)
  /\ \A t \in Tasks : ~(Queued(t) /\ OnStack(t))

(* shutdown finds the block it removes, whether the poller or a wake-up    *)
(* notices the exit first: the expect at lib.rs:2084 can fail only if some *)
(* task was still waiting for an answer when the exit began, or was        *)
(* spawned locally after that.                                             *)
ShutdownOnce == panic = "TCB not found" => late # {}

(* A woken task is polled, unless the thread is told to exit first         *)
(* (Tcb::poll runs the queue down, lib.rs:2050-2063).                      *)
WokenIsPolled ==
  \A t \in Tasks :
    (Queued(t) /\ thread = "running") ~> (OnStack(t) \/ thread # "running")

(* A thread asked to exit does exit, or its second shutdown aborts: no TLS *)
(* value and no poller holds it back (lib.rs:2067-2085).                   *)
ExitCompletes ==
  ExitRequested ~> (thread = "exited" \/ panic = "TCB not found")

(* The assertion of shutdown, "TCB not found in registry" (lib.rs:2084):   *)
(* the block is in the registry, whenever exit is requested.               *)
ShutdownFinds == panic # "TCB not found"
=============================================================================
