--------------------------- MODULE ExecutorProofs ---------------------------
(***************************************************************************)
(* Proofs about Executor, for any tasks, futures and bounds.               *)
(***************************************************************************)
EXTENDS Executor, CommonFacts

\* Everything an action may have to expand to be type-correct.
LEMMA ShutdownType ==
  ASSUME TypeOK, Shutdown
  PROVE  (tls \in BOOLEAN /\ runq \in Seq(Tasks) /\ tcb \in {"none", "live", "dead"}
           /\ panic \in {"none", "resumed after completion", "TCB not found"})'
BY EmptySeq DEF TypeOK, Shutdown, CurrentTcb

LEMMA WakeType ==
  ASSUME TypeOK, NEW t \in Tasks, Wake(t)
  PROVE  (tls \in BOOLEAN /\ runq \in Seq(Tasks) /\ tcb \in {"none", "live", "dead"}
           /\ state \in [Tasks -> TaskState]
           /\ panic \in {"none", "resumed after completion", "TCB not found"})'
<1>1. CASE thread # "running"
  BY <1>1, ShutdownType DEF Wake, TypeOK
<1>2. CASE thread = "running"
  <2>1. Append(runq, t) \in Seq(Tasks)  BY AppendFacts DEF TypeOK
  <2>2. tcb' \in {"none", "live", "dead"} /\ UNCHANGED <<tls, panic>>
    BY <1>2 DEF Wake, TypeOK, CurrentTcb
  <2>3. CASE state[t] = "Running"
    BY <1>2, <2>2, <2>3 DEF Wake, TypeOK, TaskState
  <2>4. CASE state[t] = "Idle"
    BY <1>2, <2>1, <2>2, <2>4 DEF Wake, TypeOK, TaskState
  <2>5. CASE state[t] \notin {"Running", "Idle"}
    BY <1>2, <2>2, <2>5 DEF Wake, TypeOK, TaskState
  <2> QED  BY <2>3, <2>4, <2>5
<1> QED  BY <1>1, <1>2

LEMMA CompleteFutType ==
  ASSUME TypeOK, NEW f \in Futs, CompleteFut(f)
  PROVE  (tls \in BOOLEAN /\ runq \in Seq(Tasks) /\ tcb \in {"none", "live", "dead"}
           /\ state \in [Tasks -> TaskState]
           /\ fut \in [Futs -> {"new", "pending", "done"}]
           /\ waker \in [Futs -> Tasks \cup {NoTask}]
           /\ panic \in {"none", "resumed after completion", "TCB not found"})'
<1>1. fut' \in [Futs -> {"new", "pending", "done"}]
      /\ waker' \in [Futs -> Tasks \cup {NoTask}]
  BY DEF CompleteFut, TypeOK
<1>2. CASE waker[f] = NoTask  BY <1>1, <1>2 DEF CompleteFut, TypeOK
<1>3. CASE waker[f] # NoTask
  <2>1. waker[f] \in Tasks /\ Wake(waker[f])  BY <1>3 DEF CompleteFut, TypeOK
  <2> QED  BY <1>1, <2>1, WakeType
<1> QED  BY <1>2, <1>3

LEMMA InitType == Init => TypeOK
<1>1. <<>> \in Seq(Tasks) /\ <<>> \in Seq(Tasks \cup {Exit})  OBVIOUS
<1>2. 0 \in 0..MaxYields  BY ExecutorAssumption
<1> QED  BY <1>1, <1>2 DEF Init, TypeOK, TaskState

LEMMA NextType == TypeOK /\ [Next]_vars => TypeOK'
<1> SUFFICES ASSUME TypeOK, [Next]_vars PROVE TypeOK'
  OBVIOUS
<1> USE ExecutorAssumption
<1>1. ASSUME NEW t \in Tasks, Spawn(t) PROVE TypeOK'
  BY <1>1, AppendFacts DEF TypeOK, Spawn, TaskState, futVars
<1>2. ASSUME NEW t \in Tasks, SpawnLocal(t) PROVE TypeOK'
  BY <1>2, PushFacts DEF TypeOK, SpawnLocal, TaskState, futVars
<1>3. CASE RequestExit
  BY <1>3, AppendFacts DEF TypeOK, RequestExit, taskVars, futVars
<1>4. CASE HandleSpawn
  <2>1. Tail(inbox) \in Seq(Tasks \cup {Exit})
        /\ Append(runq, Head(inbox)) \in Seq(Tasks)
    BY <1>4, AppendFacts, TailFacts DEF TypeOK, HandleSpawn
  <2> QED
    BY <1>4, <2>1 DEF TypeOK, HandleSpawn, CurrentTcb, TaskState, futVars
<1>5. CASE HandleExit
  BY <1>5, TailFacts DEF TypeOK, HandleExit, taskVars, futVars
<1>6. CASE PollBegin
  BY <1>6 DEF TypeOK, PollBegin, futVars
<1>7. CASE PollNext
  <2>1. Head(runq) \in Tasks /\ Tail(runq) \in Seq(Tasks)
    BY <1>7, TailFacts DEF TypeOK, PollNext
  <2>2. <<Head(runq)>> \in Seq(Tasks)  BY <2>1
  <2> QED  BY <1>7, <2>1, <2>2 DEF TypeOK, PollNext, TaskState, futVars
<1>8. CASE PollEnd
  BY <1>8 DEF TypeOK, PollEnd, futVars
<1>9. CASE PollShutdown
  BY <1>9, ShutdownType DEF TypeOK, PollShutdown, futVars
<1>10. CASE ThreadExit
  BY <1>10 DEF TypeOK, ThreadExit, taskVars, futVars
<1>11. ASSUME NEW t \in Tasks, SetTls(t) PROVE TypeOK'
  BY <1>11 DEF TypeOK, SetTls, CurrentTcb, taskVars, futVars
<1>12. ASSUME NEW t \in Tasks, Yield(t) PROVE TypeOK'
  <2>1. yields \in 0..MaxYields  BY DEF TypeOK
  <2>2. Wake(t) /\ yields < MaxYields /\ yields' = yields + 1
    BY <1>12 DEF Yield
  <2>3. yields' \in 0..MaxYields  BY <2>1, <2>2
  <2> QED  BY <1>12, <2>2, <2>3, WakeType DEF TypeOK, Yield
<1>13. ASSUME NEW t \in Tasks, NEW f \in Futs, Submit(t, f) PROVE TypeOK'
  BY <1>13 DEF TypeOK, Submit, taskVars
<1>14. ASSUME NEW t \in Tasks, NEW f \in Futs, Await(t, f) PROVE TypeOK'
  BY <1>14 DEF TypeOK, Await, taskVars
<1>15. ASSUME NEW t \in Tasks, NEW f \in Futs, CompleteInBody(t, f)
       PROVE TypeOK'
  BY <1>15, CompleteFutType DEF TypeOK, CompleteInBody
<1>16. ASSUME NEW t \in Tasks, ReturnReady(t) PROVE TypeOK'
  BY <1>16, TailFacts DEF TypeOK, ReturnReady, IsRunning, TaskState, futVars
<1>17. ASSUME NEW t \in Tasks, ReturnPending(t) PROVE TypeOK'
  BY <1>17, TailFacts, AppendFacts
  DEF TypeOK, ReturnPending, IsRunning, TaskState, futVars
<1>18. ASSUME NEW f \in Futs, Complete(f) PROVE TypeOK'
  BY <1>18, CompleteFutType DEF TypeOK, Complete
<1>19. CASE UNCHANGED vars
  BY <1>19 DEF TypeOK, vars
<1> QED
  BY <1>1, <1>2, <1>3, <1>4, <1>5, <1>6, <1>7, <1>8, <1>9, <1>10, <1>11,
     <1>12, <1>13, <1>14, <1>15, <1>16, <1>17, <1>18, <1>19
  DEF Next, Handle, Poller, Body, Return, Answer

(* Every variable keeps its type, whatever is spawned, woken or completed. *)
THEOREM TypeCorrect == Spec => []TypeOK
BY InitType, NextType, PTL DEF Spec

-----------------------------------------------------------------------------
(* No wake-up is lost. Between two polls a suspended task is on the run    *)
(* queue or waits for a future; what makes this inductive is that a task   *)
(* marked Running is on the stack, so that only a task that is being       *)
(* polled, and will look at its state when it returns, is woken without    *)
(* being queued; and that a waker is kept only for a future that is still  *)
(* to complete, by the only task that awaits it.                           *)

StackInv ==
  /\ IsInjective(stack)
  /\ \A t \in Tasks : OnStack(t) => state[t] \in {"Running", "Notified"}
  /\ \A t \in Tasks : state[t] = "Running" => OnStack(t)

WakerInv ==
  \A f \in Futs :
    waker[f] # NoTask => waker[f] = Awaiter[f] /\ fut[f] = "pending"

\* Someone will poll t.
Expected(t) == Queued(t) \/ \E f \in Futs : waker[f] = t

Suspended(t) == state[t] \in {"Idle", "Notified"} /\ ~OnStack(t)

ExpectInv ==
  thread = "running" /\ panic = "none" =>
    \A t \in Tasks :
      Suspended(t) => /\ Expected(t)
                      /\ state[t] = "Notified" => Queued(t)

\* A task that has asked to be woken will be: it is marked, or its waker is
\* in a future.
AskInv ==
  thread = "running" /\ panic = "none" =>
    \A t \in Tasks :
      OnStack(t) /\ t \in asked =>
        state[t] = "Notified" \/ \E f \in Futs : waker[f] = t

WakeupInv == TypeOK /\ StackInv /\ WakerInv /\ ExpectInv /\ AskInv

LEMMA WakeupInvImplies == WakeupInv => NoLostWakeup
<1> SUFFICES ASSUME WakeupInv, thread = "running" /\ panic = "none",
                    NEW t \in Tasks, Suspended(t)
             PROVE  Queued(t) \/ \E f \in Wakers(t) : fut[f] = "pending"
  BY DEF NoLostWakeup, Suspended
<1>1. CASE Queued(t)  BY <1>1
<1>2. ASSUME NEW f \in Futs, waker[f] = t
      PROVE  f \in Wakers(t) /\ fut[f] = "pending"
  BY <1>2, ExecutorAssumption DEF WakeupInv, WakerInv, Wakers
<1> QED  BY <1>1, <1>2 DEF WakeupInv, ExpectInv, Expected

\* What Task::wake(t) does to the tasks and the queue.
LEMMA WakeStep ==
  ASSUME WakeupInv, NEW t \in Tasks, Wake(t), stack' = stack
  PROVE  /\ StackInv'
         /\ \A u \in Tasks \ {t} : state'[u] = state[u]
         /\ thread = "running" =>
              /\ Range(runq) \subseteq Range(runq')
              /\ Suspended(t)' /\ panic = "none" => Queued(t)'
              /\ OnStack(t) => state'[t] = "Notified"
<1> USE DEF WakeupInv
<1>1. CASE thread # "running"
  BY <1>1 DEF Wake, StackInv, OnStack
<1>2. CASE thread = "running"
  <2>1. CASE state[t] = "Running"
    <3>1. state' = [state EXCEPT ![t] = "Notified"] /\ runq' = runq
      BY <1>2, <2>1 DEF Wake
    <3>2. OnStack(t) /\ OnStack(t)'  BY <2>1 DEF StackInv, OnStack
    <3>3. \A u \in Tasks :
            state'[u] = IF u = t THEN "Notified" ELSE state[u]
      BY <3>1 DEF TypeOK
    <3>4. StackInv'  BY <3>2, <3>3 DEF StackInv, OnStack
    <3> QED  BY <3>1, <3>2, <3>3, <3>4 DEF Suspended
  <2>2. CASE state[t] = "Idle"
    <3>1. state' = [state EXCEPT ![t] = "Notified"] /\ runq' = Append(runq, t)
      BY <1>2, <2>2 DEF Wake
    <3>2. Range(runq') = Range(runq) \cup {t}
      <4>1. runq \in Seq(Tasks)  BY DEF TypeOK
      <4> QED  BY <3>1, <4>1, AppendFacts
    <3>3. Queued(t)'  BY <3>2 DEF Queued
    <3> QED  BY <2>2, <3>1, <3>2, <3>3 DEF StackInv, OnStack, TypeOK, Suspended
  <2>3. CASE state[t] \notin {"Running", "Idle"}
    <3>1. state' = state /\ runq' = runq
      BY <1>2, <2>3 DEF Wake
    <3> QED
      BY <1>2, <2>3, <3>1
      DEF StackInv, OnStack, ExpectInv, Suspended, Queued
  <2> QED  BY <2>1, <2>2, <2>3
<1> QED  BY <1>1, <1>2

\* A future that completes leaves nobody behind.
LEMMA CompleteStep ==
  ASSUME WakeupInv, NEW f \in Futs, CompleteFut(f),
         stack' = stack, thread' = thread, asked' = asked, TypeOK'
  PROVE  WakeupInv'
<1> USE DEF WakeupInv
<1>1. WakerInv'
  BY DEF CompleteFut, WakerInv, TypeOK
<1>2. CASE waker[f] = NoTask
  <2>1. UNCHANGED <<runq, state, panic, stack, thread>>
    BY <1>2 DEF CompleteFut
  <2>2. waker' = waker  BY <1>2 DEF CompleteFut, TypeOK
  <2>3. StackInv'  BY <2>1 DEF StackInv, OnStack
  <2>4. \A u \in Tasks : /\ Suspended(u)' <=> Suspended(u)
                         /\ Expected(u)' <=> Expected(u)
                         /\ Queued(u)' <=> Queued(u)
    BY <2>1, <2>2 DEF Suspended, OnStack, Expected, Queued
  <2>5. ExpectInv'  BY <2>1, <2>4 DEF ExpectInv
  <2>6. AskInv'  BY <2>1, <2>2 DEF AskInv, OnStack
  <2> QED  BY <1>1, <2>3, <2>5, <2>6
<1>3. CASE waker[f] # NoTask
  <2>0. PICK t \in Tasks : t = waker[f]  BY <1>3 DEF TypeOK
  <2>1. Wake(t)  BY <1>3, <2>0 DEF CompleteFut
  <2>2. /\ StackInv'
        /\ \A u \in Tasks \ {t} : state'[u] = state[u]
        /\ thread = "running" =>
             /\ Range(runq) \subseteq Range(runq')
             /\ Suspended(t)' /\ panic = "none" => Queued(t)'
             /\ OnStack(t) => state'[t] = "Notified"
    BY <2>1, WakeStep
  <2>4. AskInv'
    <3> SUFFICES ASSUME thread = "running", panic' = "none",
                        NEW u \in Tasks, OnStack(u), u \in asked
                 PROVE  state'[u] = "Notified" \/ \E g \in Futs : waker'[g] = u
      BY DEF AskInv, OnStack
    <3>1. panic = "none"  BY <2>1 DEF Wake
    <3>2. CASE u = t  BY <2>2, <3>2
    <3>3. CASE u # t
      <4>1. state'[u] = state[u]  BY <2>2, <3>3
      <4>2. ASSUME NEW g \in Futs, waker[g] = u PROVE waker'[g] = u
        BY <2>0, <3>3, <4>2 DEF CompleteFut, TypeOK
      <4> QED  BY <3>1, <4>1, <4>2 DEF AskInv
    <3> QED  BY <3>2, <3>3
  <2>3. ExpectInv'
    <3> SUFFICES ASSUME thread = "running", panic' = "none",
                        NEW u \in Tasks, Suspended(u)'
                 PROVE  Expected(u)' /\ (state'[u] = "Notified" => Queued(u)')
      BY DEF ExpectInv
    <3>1. panic = "none"
      BY <2>1 DEF Wake
    <3>2. CASE u = t
      BY <2>2, <3>1, <3>2 DEF Expected
    <3>3. CASE u # t
      <4>1. Suspended(u) /\ state'[u] = state[u]
        BY <2>2, <3>3 DEF Suspended, OnStack
      <4>2. Expected(u) /\ (state[u] = "Notified" => Queued(u))
        BY <3>1, <4>1 DEF ExpectInv
      <4>3. Queued(u) => Queued(u)'  BY <2>2 DEF Queued
      <4>4. ASSUME NEW g \in Futs, waker[g] = u PROVE waker'[g] = u
        BY <2>0, <3>3, <4>4 DEF CompleteFut, TypeOK
      <4> QED  BY <4>1, <4>2, <4>3, <4>4 DEF Expected
    <3> QED  BY <3>2, <3>3
  <2> QED  BY <1>1, <2>2, <2>3, <2>4
<1> QED  BY <1>2, <1>3

LEMMA WakeupInit == Init => WakeupInv
<1>1. Range(<<>>) = {} /\ IsInjective(<<>>)  BY EmptyFacts
<1> SUFFICES ASSUME Init PROVE WakeupInv
  OBVIOUS
<1>2. StackInv  BY <1>1 DEF Init, StackInv, OnStack
<1>3. WakerInv  BY DEF Init, WakerInv
<1>4. ExpectInv  BY DEF Init, ExpectInv, Suspended
<1>5. AskInv  BY DEF Init, AskInv
<1> QED  BY <1>2, <1>3, <1>4, <1>5, InitType DEF WakeupInv

\* Steps that move no task and complete no future.
LEMMA CalmStep ==
  ASSUME WakeupInv, TypeOK',
         UNCHANGED <<runq, stack, state, fut, waker, asked>>,
         thread' = "running" /\ panic' = "none"
           => thread = "running" /\ panic = "none"
  PROVE  WakeupInv'
<1>1. StackInv'  BY DEF WakeupInv, StackInv, OnStack
<1>2. WakerInv'  BY DEF WakeupInv, WakerInv
<1>3. \A u \in Tasks : /\ Suspended(u)' <=> Suspended(u)
                       /\ Expected(u)' <=> Expected(u)
                       /\ Queued(u)' <=> Queued(u)
  BY DEF Suspended, OnStack, Expected, Queued
<1>4. ExpectInv'  BY <1>3 DEF WakeupInv, ExpectInv
<1>5. AskInv'  BY DEF WakeupInv, AskInv, OnStack
<1> QED  BY <1>1, <1>2, <1>4, <1>5 DEF WakeupInv

\* Steps of the task t that leave the other tasks and all wakers as they are.
LEMMA TaskStep ==
  ASSUME WakeupInv, TypeOK', NEW t \in Tasks,
         UNCHANGED <<waker, fut>>, thread' = thread, panic' = panic,
         \A u \in Tasks \ {t} : state'[u] = state[u],
         \A u \in Tasks \ {t} : OnStack(u)' <=> OnStack(u),
         \A u \in Tasks \ {t} : Queued(u) => Queued(u)',
         IsInjective(stack'),
         OnStack(t)' => state'[t] \in {"Running", "Notified"},
         state'[t] = "Running" => OnStack(t)',
         thread = "running" /\ panic = "none" /\ Suspended(t)' =>
           Queued(t)' \/ (state'[t] = "Idle" /\ \E f \in Futs : waker[f] = t),
         asked' \subseteq asked,
         OnStack(t)' => t \notin asked'
  PROVE  WakeupInv'
<1> USE DEF WakeupInv
<1>1. StackInv'
  <2>1. \A u \in Tasks : OnStack(u)' => state'[u] \in {"Running", "Notified"}
    BY DEF StackInv
  <2>2. \A u \in Tasks : state'[u] = "Running" => OnStack(u)'
    BY DEF StackInv
  <2> QED  BY <2>1, <2>2 DEF StackInv
<1>2. WakerInv'  BY DEF WakerInv
<1>3. ExpectInv'
  <2> SUFFICES ASSUME thread = "running", panic = "none",
                      NEW u \in Tasks, Suspended(u)'
               PROVE  Expected(u)' /\ (state'[u] = "Notified" => Queued(u)')
    BY DEF ExpectInv
  <2>1. CASE u = t  BY <2>1 DEF Expected
  <2>2. CASE u # t
    <3>1. Suspended(u) /\ state'[u] = state[u] /\ (Queued(u) => Queued(u)')
      BY <2>2 DEF Suspended
    <3>2. Expected(u) /\ (state[u] = "Notified" => Queued(u))
      BY <3>1 DEF ExpectInv
    <3> QED  BY <3>1, <3>2 DEF Expected
  <2> QED  BY <2>1, <2>2
<1>4. AskInv'
  <2> SUFFICES ASSUME thread = "running", panic = "none",
                      NEW u \in Tasks, OnStack(u)', u \in asked'
               PROVE  state'[u] = "Notified" \/ \E f \in Futs : waker[f] = u
    BY DEF AskInv
  <2>1. u # t /\ OnStack(u) /\ u \in asked /\ state'[u] = state[u]  OBVIOUS
  <2> QED  BY <2>1 DEF AskInv
<1> QED  BY <1>1, <1>2, <1>3, <1>4

LEMMA WakeupNext == WakeupInv /\ [Next]_vars => WakeupInv'
<1> SUFFICES ASSUME WakeupInv, [Next]_vars PROVE WakeupInv'
  OBVIOUS
<1> USE DEF WakeupInv
<1>0. TypeOK /\ TypeOK'  BY NextType
<1>1. ASSUME NEW t \in Tasks, Spawn(t) PROVE WakeupInv'
  <2>1. state[t] = "Unborn" /\ state' = [state EXCEPT ![t] = "Sent"]
        /\ UNCHANGED <<waker, asked, fut, thread, panic, stack, runq>>
    BY <1>1 DEF Spawn, futVars
  <2>2. /\ state'[t] = "Sent"
        /\ \A u \in Tasks \ {t} : state'[u] = state[u]
    BY <1>0, <2>1 DEF TypeOK
  <2>3. ~OnStack(t) /\ ~OnStack(t)'  BY <2>1 DEF StackInv, OnStack
  <2> QED
    BY <1>0, <2>1, <2>2, <2>3, TaskStep
    DEF OnStack, Queued, Suspended, StackInv
<1>2. ASSUME NEW t \in Tasks, SpawnLocal(t) PROVE WakeupInv'
  <2>1. state[t] = "Unborn" /\ state' = [state EXCEPT ![t] = "Running"]
        /\ UNCHANGED <<waker, fut, thread, panic, runq>> /\ stack' = <<t>> \o stack
        /\ asked' = asked \ {t}
    BY <1>2 DEF SpawnLocal, futVars
  <2>2. /\ state'[t] = "Running"
        /\ \A u \in Tasks \ {t} : state'[u] = state[u]
    BY <1>0, <2>1 DEF TypeOK
  <2>3. t \notin Range(stack)  BY <2>1 DEF StackInv, OnStack
  <2>4. stack \in Seq(Tasks)  BY <1>0 DEF TypeOK
  <2>5. IsInjective(stack') /\ Range(stack') = {t} \cup Range(stack)
    BY <2>1, <2>3, <2>4, PushFacts DEF StackInv
  <2> QED
    BY <1>0, <2>1, <2>2, <2>5, TaskStep DEF OnStack, Queued, Suspended
<1>3. CASE RequestExit
  BY <1>0, <1>3, CalmStep DEF RequestExit, taskVars, futVars
<1>4. CASE HandleSpawn
  <2>1. PICK t \in Tasks : t = Head(inbox)  BY <1>4 DEF HandleSpawn
  <2>2. state' = [state EXCEPT ![t] = "Idle"] /\ stack = <<>>
        /\ UNCHANGED <<waker, asked, fut, thread, panic, stack>>
        /\ runq' = Append(runq, t)
    BY <1>4, <2>1 DEF HandleSpawn, AtReactor, futVars
  <2>3. /\ state'[t] = "Idle"
        /\ \A u \in Tasks \ {t} : state'[u] = state[u]
    BY <1>0, <2>2 DEF TypeOK
  <2>4. runq \in Seq(Tasks)  BY <1>0 DEF TypeOK
  <2>5. Range(runq') = Range(runq) \cup {t}  BY <2>2, <2>4, AppendFacts
  <2>6. ~OnStack(t)'  BY <2>2, EmptyFacts DEF OnStack
  <2> QED
    BY <1>0, <2>2, <2>3, <2>5, <2>6, TaskStep
    DEF OnStack, Queued, Suspended, StackInv
<1>5. CASE HandleExit
  BY <1>0, <1>5, CalmStep DEF HandleExit, taskVars, futVars
<1>6. CASE PollBegin
  BY <1>0, <1>6, CalmStep DEF PollBegin, futVars
<1>7. CASE PollNext
  <2>1. PICK t \in Tasks : t = Head(runq)
    BY <1>0, <1>7, TailFacts DEF PollNext, TypeOK
  <2>2. runq # <<>> /\ stack = <<>> /\ runq' = Tail(runq) /\ panic = "none"
        /\ UNCHANGED <<waker, fut, thread>>
    BY <1>7 DEF PollNext, futVars
  <2>3. CASE state[t] = "Ready"
    <3>1. panic' # "none" /\ UNCHANGED <<stack, state>>
      BY <1>7, <2>1, <2>3 DEF PollNext
    <3>2. StackInv'  BY <3>1 DEF StackInv, OnStack
    <3>3. WakerInv'  BY <2>2 DEF WakerInv
    <3> QED  BY <1>0, <3>1, <3>2, <3>3 DEF ExpectInv, AskInv
  <2>4. CASE state[t] # "Ready"
    <3>0. state[t] # "Running"
      BY <2>2, EmptyFacts DEF StackInv, OnStack
    <3>1. stack' = <<t>> /\ state' = [state EXCEPT ![t] = "Running"]
          /\ panic' = panic /\ asked' = asked \ {t}
      BY <1>7, <2>1, <2>4, <3>0 DEF PollNext
    <3>2. /\ state'[t] = "Running"
          /\ \A u \in Tasks \ {t} : state'[u] = state[u]
      BY <1>0, <3>1 DEF TypeOK
    <3>3. Range(stack') = {t} /\ IsInjective(stack') /\ Range(stack) = {}
      BY <2>2, <3>1, EmptyFacts DEF Range, IsInjective
    <3>4. runq \in Seq(Tasks)  BY <1>0 DEF TypeOK
    <3>5. Range(runq) = {t} \cup Range(runq')
      BY <2>1, <2>2, <3>4, TailFacts
    <3> QED
      BY <1>0, <2>2, <3>1, <3>2, <3>3, <3>5, TaskStep
      DEF OnStack, Queued, Suspended
  <2> QED  BY <2>3, <2>4
<1>8. CASE PollEnd
  BY <1>0, <1>8, CalmStep DEF PollEnd, futVars
<1>9. CASE PollShutdown
  <2>1. thread' = "exiting" /\ UNCHANGED <<stack, state, fut, waker>>
    BY <1>9 DEF PollShutdown, futVars
  <2>2. StackInv'  BY <2>1 DEF StackInv, OnStack
  <2>3. WakerInv'  BY <2>1 DEF WakerInv
  <2> QED  BY <1>0, <2>1, <2>2, <2>3 DEF ExpectInv, AskInv
<1>10. CASE ThreadExit
  BY <1>0, <1>10, CalmStep DEF ThreadExit, taskVars, futVars
<1>11. ASSUME NEW t \in Tasks, SetTls(t) PROVE WakeupInv'
  BY <1>0, <1>11, CalmStep DEF SetTls, taskVars, futVars
<1>12. ASSUME NEW t \in Tasks, Yield(t) PROVE WakeupInv'
  <2>1. /\ Wake(t) /\ OnStack(t) /\ panic = "none"
        /\ UNCHANGED <<thread, stack, fut, waker>>
        /\ asked' = asked \cup {t}
    <3>1. stack # <<>> /\ Head(stack) = t /\ stack \in Seq(Tasks)
      BY <1>0, <1>12 DEF Yield, IsRunning, TypeOK
    <3>2. t \in Range(stack)  BY <3>1, TailFacts
    <3> QED  BY <1>12, <3>2 DEF Yield, OnStack, IsRunning
  <2>2. /\ StackInv'
        /\ \A u \in Tasks \ {t} : state'[u] = state[u]
        /\ thread = "running" => /\ Range(runq) \subseteq Range(runq')
                                 /\ OnStack(t) => state'[t] = "Notified"
    BY <2>1, WakeStep
  <2>3. WakerInv'  BY <2>1 DEF WakerInv
  <2>4. CASE thread # "running"
    BY <1>0, <2>1, <2>2, <2>3, <2>4 DEF ExpectInv, AskInv
  <2>5. CASE thread = "running"
    <3>1. OnStack(t)' /\ state'[t] = "Notified"
      BY <2>1, <2>2, <2>5 DEF OnStack
    <3>2. \A u \in Tasks : Queued(u) => Queued(u)'
      BY <2>2, <2>5 DEF Queued
    <3>3. ASSUME NEW u \in Tasks, Suspended(u)'
          PROVE  Expected(u)' /\ (state'[u] = "Notified" => Queued(u)')
      <4>1. u # t  BY <3>1, <3>3 DEF Suspended
      <4>2. Suspended(u) /\ state'[u] = state[u]
        BY <2>1, <2>2, <3>3, <4>1 DEF Suspended, OnStack
      <4>3. Expected(u) /\ (state[u] = "Notified" => Queued(u))
        BY <2>1, <2>5, <4>2 DEF ExpectInv
      <4> QED  BY <2>1, <3>2, <4>2, <4>3 DEF Expected
    <3>4. ExpectInv'  BY <3>3 DEF ExpectInv
    <3>5. ASSUME NEW u \in Tasks, OnStack(u), u \in asked'
          PROVE  state'[u] = "Notified" \/ \E f \in Futs : waker[f] = u
      <4>1. CASE u = t  BY <3>1, <4>1
      <4>2. CASE u # t
        BY <2>1, <2>2, <2>5, <3>5, <4>2 DEF AskInv
      <4> QED  BY <4>1, <4>2
    <3>6. AskInv'  BY <2>1, <3>5 DEF AskInv, OnStack
    <3> QED  BY <1>0, <2>2, <2>3, <3>4, <3>6
  <2> QED  BY <2>4, <2>5
<1>13. ASSUME NEW t \in Tasks, NEW f \in Futs, Submit(t, f) PROVE WakeupInv'
  <2>1. fut[f] = "new"
        /\ UNCHANGED <<runq, stack, state, waker, asked, thread, panic>>
        /\ \A g \in Futs \ {f} : fut'[g] = fut[g]
    BY <1>0, <1>13 DEF Submit, taskVars, TypeOK
  <2>2. WakerInv'  BY <2>1 DEF WakerInv
  <2>3. StackInv'  BY <2>1 DEF StackInv, OnStack
  <2>4. \A u \in Tasks : /\ Suspended(u)' <=> Suspended(u)
                         /\ Expected(u)' <=> Expected(u)
                         /\ Queued(u)' <=> Queued(u)
    BY <2>1 DEF Suspended, OnStack, Expected, Queued
  <2>5. ExpectInv'  BY <2>1, <2>4 DEF ExpectInv
  <2>6. AskInv'  BY <2>1 DEF AskInv, OnStack
  <2> QED  BY <1>0, <2>2, <2>3, <2>5, <2>6
<1>14. ASSUME NEW t \in Tasks, NEW f \in Futs, Await(t, f) PROVE WakeupInv'
  <2>1. Awaiter[f] = t /\ fut[f] = "pending"
        /\ waker' = [waker EXCEPT ![f] = t] /\ asked' = asked \cup {t}
        /\ UNCHANGED <<runq, stack, state, fut, thread, panic>>
    BY <1>14 DEF Await, taskVars
  <2>2. \A g \in Futs : waker'[g] = IF g = f THEN t ELSE waker[g]
    BY <1>0, <2>1 DEF TypeOK
  <2>3. WakerInv'  BY <2>1, <2>2 DEF WakerInv
  <2>4. StackInv'  BY <2>1 DEF StackInv, OnStack
  <2>5. \A u \in Tasks : /\ Suspended(u)' <=> Suspended(u)
                         /\ Queued(u)' <=> Queued(u)
    BY <2>1 DEF Suspended, OnStack, Queued
  <2>6. ASSUME NEW u \in Tasks, Expected(u) PROVE Expected(u)'
    <3>1. CASE Queued(u)  BY <2>5, <3>1 DEF Expected
    <3>2. ASSUME NEW g \in Futs, waker[g] = u PROVE Expected(u)'
      <4>1. u # NoTask  BY ExecutorAssumption
      <4>2. waker'[g] = u  BY <2>1, <2>2, <3>2, <4>1 DEF WakerInv
      <4> QED  BY <4>2 DEF Expected
    <3> QED  BY <2>6, <3>1, <3>2 DEF Expected
  <2>7. ExpectInv'  BY <2>1, <2>5, <2>6 DEF ExpectInv
  <2>8. ASSUME NEW u \in Tasks, NEW g \in Futs, waker[g] = u
        PROVE  waker'[g] = u
    <3>1. u # NoTask  BY ExecutorAssumption
    <3> QED  BY <2>1, <2>2, <2>8, <3>1 DEF WakerInv
  <2>9. waker'[f] = t  BY <2>2
  <2>10. AskInv'  BY <2>1, <2>8, <2>9 DEF AskInv, OnStack
  <2> QED  BY <1>0, <2>3, <2>4, <2>7, <2>10
<1>15. ASSUME NEW t \in Tasks, NEW f \in Futs, CompleteInBody(t, f)
       PROVE  WakeupInv'
  BY <1>0, <1>15, CompleteStep DEF CompleteInBody
<1>16. ASSUME NEW t \in Tasks, ReturnReady(t) PROVE WakeupInv'
  <2>1. stack # <<>> /\ Head(stack) = t /\ stack' = Tail(stack)
        /\ state' = [state EXCEPT ![t] = "Ready"]
        /\ UNCHANGED <<waker, asked, fut, thread, panic, runq>>
    BY <1>16 DEF ReturnReady, IsRunning, futVars
  <2>2. /\ state'[t] = "Ready"
        /\ \A u \in Tasks \ {t} : state'[u] = state[u]
    BY <1>0, <2>1 DEF TypeOK
  <2>3. stack \in Seq(Tasks)  BY <1>0 DEF TypeOK
  <2>4. /\ IsInjective(stack') /\ t \notin Range(stack')
        /\ Range(stack) = {t} \cup Range(stack')
    BY <2>1, <2>3, TailFacts DEF StackInv
  <2> QED
    BY <1>0, <2>1, <2>2, <2>4, TaskStep DEF OnStack, Queued, Suspended
<1>17. ASSUME NEW t \in Tasks, ReturnPending(t) PROVE WakeupInv'
  <2>1. /\ stack # <<>> /\ Head(stack) = t /\ stack' = Tail(stack)
        /\ state' = [state EXCEPT ![t] = "Idle"]
        /\ UNCHANGED <<waker, asked, fut, thread, panic>>
        /\ runq' = IF state[t] = "Notified" THEN Append(runq, t) ELSE runq
        /\ t \in asked
    BY <1>17 DEF ReturnPending, IsRunning, futVars
  <2>2. /\ state'[t] = "Idle"
        /\ \A u \in Tasks \ {t} : state'[u] = state[u]
    BY <1>0, <2>1 DEF TypeOK
  <2>3. stack \in Seq(Tasks) /\ runq \in Seq(Tasks)  BY <1>0 DEF TypeOK
  <2>4. /\ IsInjective(stack') /\ t \notin Range(stack')
        /\ Range(stack) = {t} \cup Range(stack')
    BY <2>1, <2>3, TailFacts DEF StackInv
  <2>5. Range(Append(runq, t)) = Range(runq) \cup {t}  BY <2>3, AppendFacts
  <2>6. CASE state[t] = "Notified"
    <3>1. Range(runq') = Range(runq) \cup {t}  BY <2>1, <2>5, <2>6
    <3> QED
      BY <1>0, <2>1, <2>2, <2>4, <3>1, TaskStep DEF OnStack, Queued, Suspended
  <2>7. CASE state[t] # "Notified"
    <3>1. OnStack(t) /\ runq' = runq  BY <2>1, <2>4, <2>7 DEF OnStack
    <3>2. thread = "running" /\ panic = "none"
            => \E f \in Futs : waker[f] = t
      BY <2>1, <2>7, <3>1 DEF AskInv
    <3> QED
      BY <1>0, <2>1, <2>2, <2>4, <3>1, <3>2, TaskStep
      DEF OnStack, Queued, Suspended
  <2> QED  BY <2>6, <2>7
<1>18. ASSUME NEW f \in Futs, Complete(f) PROVE WakeupInv'
  BY <1>0, <1>18, CompleteStep DEF Complete
<1>19. CASE UNCHANGED vars
  BY <1>0, <1>19, CalmStep DEF vars
<1> QED
  BY <1>1, <1>2, <1>3, <1>4, <1>5, <1>6, <1>7, <1>8, <1>9, <1>10, <1>11,
     <1>12, <1>13, <1>14, <1>15, <1>16, <1>17, <1>18, <1>19
  DEF Next, Handle, Poller, Body, Return, Answer

(* While the thread runs, every suspended task is on the run queue or its  *)
(* waker is in a future that is still to complete (lib.rs:2161-2193).      *)
THEOREM WakeupsAreKept == Spec => []NoLostWakeup
<1>1. Spec => []WakeupInv  BY WakeupInit, WakeupNext, PTL DEF Spec
<1> QED  BY <1>1, WakeupInvImplies, PTL

-----------------------------------------------------------------------------
(* One wake-up, one poll, for tasks that leave a single wake source behind *)
(* when they give way. The queue holds a task once, because a task that is *)
(* queued is neither being polled nor waited for by any future.            *)

OnceInv ==
  /\ panic # "resumed after completion"
  /\ IsInjective(runq)
  /\ IsInjective(inbox)
  /\ \A t \in Tasks : t \in Range(inbox) => state[t] = "Sent"
  /\ \A t \in Tasks :
       Queued(t) => ~OnStack(t) /\ state[t] \in {"Idle", "Notified"}
  /\ \A f, g \in Futs : waker[f] = waker[g] /\ waker[f] # NoTask => f = g
  /\ \A t \in Tasks : OnStack(t) /\ state[t] = "Notified" => t \in asked
  /\ \A t \in Tasks, f \in Futs :
       waker[f] = t => /\ ~Queued(t) /\ state[t] \in {"Running", "Idle"}
                       /\ OnStack(t) => t \in asked

LEMMA OnceInvImplies == OnceInv => NeverResumed /\ QueuedOnce
BY DEF OnceInv, NeverResumed, QueuedOnce

LEMMA OnceInit == Init => OnceInv
BY EmptyFacts, ExecutorAssumption DEF Init, OnceInv, Queued

\* Steps that touch neither the tasks nor the wakers nor the inbox.
LEMMA CalmOnce ==
  ASSUME OnceInv, UNCHANGED <<inbox, runq, stack, state, waker, asked>>,
         panic' = panic
  PROVE  OnceInv'
BY DEF OnceInv, Queued, OnStack

\* Waking a task that is not queued.
LEMMA WakeOnce ==
  ASSUME TypeOK, StackInv, OnceInv, NEW t \in Tasks, Wake(t), ~Queued(t),
         UNCHANGED <<inbox, stack>>
  PROVE  /\ panic' # "resumed after completion"
         /\ IsInjective(runq')
         /\ \A u \in Tasks \ {t} : state'[u] = state[u]
         /\ \A u \in Tasks : Queued(u)' => Queued(u) \/ u = t
         /\ Queued(t)' => ~OnStack(t) /\ state'[t] = "Notified"
<1>1. CASE thread # "running"
  <2>1. runq' = <<>> /\ state' = state
        /\ panic' \in {panic, "TCB not found"}
    BY <1>1 DEF Wake, Shutdown
  <2>2. Range(runq') = {} /\ IsInjective(runq')  BY <2>1, EmptyFacts
  <2> QED  BY <2>1, <2>2 DEF OnceInv, Queued
<1>2. CASE thread = "running"
  <2>1. panic' = panic  BY <1>2 DEF Wake
  <2>2. CASE state[t] = "Running"
    <3>1. state' = [state EXCEPT ![t] = "Notified"] /\ runq' = runq
      BY <1>2, <2>2 DEF Wake
    <3>2. \A u \in Tasks : state'[u] = IF u = t THEN "Notified" ELSE state[u]
      BY <3>1 DEF TypeOK
    <3>3. \A u \in Tasks : Queued(u)' <=> Queued(u)  BY <3>1 DEF Queued
    <3> QED  BY <2>1, <3>1, <3>2, <3>3 DEF OnceInv
  <2>3. CASE state[t] = "Idle"
    <3>1. state' = [state EXCEPT ![t] = "Notified"] /\ runq' = Append(runq, t)
      BY <1>2, <2>3 DEF Wake
    <3>2. \A u \in Tasks : state'[u] = IF u = t THEN "Notified" ELSE state[u]
      BY <3>1 DEF TypeOK
    <3>3. runq \in Seq(Tasks)  BY DEF TypeOK
    <3>4. Range(runq') = Range(runq) \cup {t} /\ IsInjective(runq')
      <4>1. IsInjective(runq) /\ t \notin Range(runq)  BY DEF OnceInv, Queued
      <4>2. /\ Range(Append(runq, t)) = Range(runq) \cup {t}
            /\ IsInjective(Append(runq, t))
        BY <3>3, <4>1, AppendFacts
      <4> QED  BY <3>1, <4>2
    <3>5. ~OnStack(t)  BY <2>3 DEF StackInv
    <3>6. \A u \in Tasks : Queued(u)' => Queued(u) \/ u = t
      BY <3>4 DEF Queued
    <3> QED  BY <2>1, <3>2, <3>4, <3>5, <3>6 DEF OnceInv
  <2>4. CASE state[t] \notin {"Running", "Idle"}
    <3>1. state' = state /\ runq' = runq  BY <1>2, <2>4 DEF Wake
    <3> QED  BY <2>1, <3>1 DEF OnceInv, Queued
  <2> QED  BY <2>2, <2>3, <2>4
<1> QED  BY <1>1, <1>2

LEMMA CompleteOnce ==
  ASSUME WakeupInv, OnceInv, NEW f \in Futs, CompleteFut(f),
         UNCHANGED <<inbox, stack, asked>>
  PROVE  OnceInv'
<1>1. \A g \in Futs : waker'[g] = IF g = f THEN NoTask ELSE waker[g]
  BY DEF CompleteFut, WakeupInv, TypeOK
<1>2. CASE waker[f] = NoTask
  <2>1. UNCHANGED <<runq, state, panic>>  BY <1>2 DEF CompleteFut
  <2> QED
    BY <1>1, <2>1, ExecutorAssumption DEF OnceInv, Queued, OnStack
<1>3. CASE waker[f] # NoTask
  <2>1. PICK t \in Tasks : t = waker[f]
    BY <1>3 DEF WakeupInv, TypeOK
  <2>2. Wake(t)  BY <1>3, <2>1 DEF CompleteFut
  <2>3. ~Queued(t) /\ state[t] \in {"Running", "Idle"}
    BY <2>1 DEF OnceInv
  <2>4. /\ panic' # "resumed after completion"
        /\ IsInjective(runq')
        /\ \A u \in Tasks \ {t} : state'[u] = state[u]
        /\ \A u \in Tasks : Queued(u)' => Queued(u) \/ u = t
        /\ Queued(t)' => ~OnStack(t) /\ state'[t] = "Notified"
    BY <2>2, <2>3, WakeOnce DEF WakeupInv
  <2>5. IsInjective(inbox')  BY DEF OnceInv
  <2>6. \A u \in Tasks : u \in Range(inbox') => state'[u] = "Sent"
    BY <2>3, <2>4 DEF OnceInv
  <2>7. \A u \in Tasks :
          Queued(u)' => ~OnStack(u)' /\ state'[u] \in {"Idle", "Notified"}
    BY <2>4 DEF OnceInv, OnStack
  <2>8. \A g, h \in Futs :
          waker'[g] = waker'[h] /\ waker'[g] # NoTask => g = h
    BY <1>1 DEF OnceInv
  <2>9. \A u \in Tasks, g \in Futs :
          waker'[g] = u => /\ ~Queued(u)' /\ state'[u] \in {"Running", "Idle"}
                           /\ OnStack(u)' => u \in asked'
    <3> SUFFICES ASSUME NEW u \in Tasks, NEW g \in Futs, waker'[g] = u
                 PROVE  /\ ~Queued(u)' /\ state'[u] \in {"Running", "Idle"}
                        /\ OnStack(u)' => u \in asked'
      OBVIOUS
    <3>1. g # f /\ waker[g] = u  BY <1>1, ExecutorAssumption
    <3>2. u # t  BY <1>3, <2>1, <3>1 DEF OnceInv
    <3>3. /\ ~Queued(u) /\ state[u] \in {"Running", "Idle"}
          /\ OnStack(u) => u \in asked
      BY <3>1 DEF OnceInv
    <3> QED  BY <2>4, <3>2, <3>3 DEF OnStack
  <2>10. \A u \in Tasks : OnStack(u)' /\ state'[u] = "Notified" => u \in asked'
    BY <2>1, <2>4 DEF OnceInv, OnStack
  <2> QED  BY <2>4, <2>5, <2>6, <2>7, <2>8, <2>9, <2>10 DEF OnceInv
<1> QED  BY <1>2, <1>3

\* Steps of the task t that leave the other tasks and all wakers as they are.
LEMMA OnceStep ==
  ASSUME OnceInv, NEW t \in Tasks, UNCHANGED <<waker, panic>>,
         IsInjective(runq'), IsInjective(inbox'),
         \A u \in Tasks \ {t} : /\ state'[u] = state[u]
                                /\ u \in Range(inbox') => u \in Range(inbox)
                                /\ Queued(u)' <=> Queued(u)
                                /\ OnStack(u)' => OnStack(u)
                                /\ u \in asked' <=> u \in asked,
         t \in Range(inbox') => state'[t] = "Sent",
         Queued(t)' => ~OnStack(t)' /\ state'[t] \in {"Idle", "Notified"},
         OnStack(t)' => state'[t] # "Notified" /\ \A f \in Futs : waker[f] # t,
         \A f \in Futs : waker[f] = t => ~Queued(t)' /\ state'[t] = "Idle"
  PROVE  OnceInv'
<1>1. \A u \in Tasks : u \in Range(inbox') => state'[u] = "Sent"
  BY DEF OnceInv
<1>2. \A u \in Tasks :
        Queued(u)' => ~OnStack(u)' /\ state'[u] \in {"Idle", "Notified"}
  BY DEF OnceInv
<1>3. \A u \in Tasks : OnStack(u)' /\ state'[u] = "Notified" => u \in asked'
  BY DEF OnceInv
<1>4. \A f, g \in Futs : waker'[f] = waker'[g] /\ waker'[f] # NoTask => f = g
  BY DEF OnceInv
<1>5. \A u \in Tasks, f \in Futs :
        waker'[f] = u => /\ ~Queued(u)' /\ state'[u] \in {"Running", "Idle"}
                         /\ OnStack(u)' => u \in asked'
  <2> SUFFICES ASSUME NEW u \in Tasks, NEW f \in Futs, waker[f] = u
               PROVE  /\ ~Queued(u)' /\ state'[u] \in {"Running", "Idle"}
                      /\ OnStack(u)' => u \in asked'
    OBVIOUS
  <2>1. CASE u = t  BY <2>1
  <2>2. CASE u # t  BY <2>2 DEF OnceInv
  <2> QED  BY <2>1, <2>2
<1>6. panic' # "resumed after completion"  BY DEF OnceInv
<1> QED  BY <1>1, <1>2, <1>3, <1>4, <1>5, <1>6 DEF OnceInv

LEMMA OnceNext ==
  Join = FALSE => (WakeupInv /\ OnceInv /\ [Next]_vars => OnceInv')
<1> SUFFICES ASSUME Join = FALSE, WakeupInv, OnceInv, [Next]_vars
             PROVE  OnceInv'
  OBVIOUS
<1>0. TypeOK /\ TypeOK' /\ StackInv /\ WakerInv
  BY NextType DEF WakeupInv
<1>a. inbox \in Seq(Tasks \cup {Exit}) /\ runq \in Seq(Tasks) /\ stack \in Seq(Tasks)
  BY <1>0 DEF TypeOK
<1>b. \A t \in Tasks : IsRunning(t) => OnStack(t) /\ ~Queued(t)
  <2>1. ASSUME NEW t \in Tasks, IsRunning(t) PROVE OnStack(t)
    <3>1. stack # <<>> /\ Head(stack) = t  BY <2>1 DEF IsRunning
    <3> QED  BY <1>a, <3>1, TailFacts DEF OnStack
  <2> QED  BY <2>1 DEF OnceInv
<1>1. ASSUME NEW t \in Tasks, Spawn(t) PROVE OnceInv'
  <2>1. state[t] = "Unborn" /\ state' = [state EXCEPT ![t] = "Sent"]
        /\ inbox' = Append(inbox, t) /\ UNCHANGED <<waker, asked, panic, stack, runq>>
    BY <1>1 DEF Spawn, futVars
  <2>2. \A u \in Tasks : state'[u] = IF u = t THEN "Sent" ELSE state[u]
    BY <1>0, <2>1 DEF TypeOK
  <2>3. t \notin Range(inbox)  BY <2>1 DEF OnceInv
  <2>4. IsInjective(inbox') /\ Range(inbox') = Range(inbox) \cup {t}
    <3>1. IsInjective(inbox) /\ t \in Tasks \cup {Exit}  BY DEF OnceInv
    <3>2. /\ Range(Append(inbox, t)) = Range(inbox) \cup {t}
          /\ IsInjective(Append(inbox, t))
      BY <1>a, <2>3, <3>1, AppendFacts
    <3> QED  BY <2>1, <3>2
  <2>5. ~OnStack(t) /\ ~Queued(t) /\ \A f \in Futs : waker[f] # t
    BY <1>0, <2>1 DEF OnceInv, StackInv
  <2>6. IsInjective(runq')  BY <2>1 DEF OnceInv
  <2> QED
    BY <2>1, <2>2, <2>4, <2>5, <2>6, OnceStep DEF Queued, OnStack
<1>2. ASSUME NEW t \in Tasks, SpawnLocal(t) PROVE OnceInv'
  <2>1. state[t] = "Unborn" /\ state' = [state EXCEPT ![t] = "Running"]
        /\ UNCHANGED <<waker, inbox, panic, runq>> /\ stack' = <<t>> \o stack
        /\ asked' = asked \ {t}
    BY <1>2 DEF SpawnLocal, futVars
  <2>2. \A u \in Tasks : state'[u] = IF u = t THEN "Running" ELSE state[u]
    BY <1>0, <2>1 DEF TypeOK
  <2>3. Range(stack') = {t} \cup Range(stack)  BY <1>a, <2>1, PushFacts
  <2>4. /\ ~Queued(t) /\ t \notin Range(inbox)
        /\ \A f \in Futs : waker[f] # t
        /\ IsInjective(runq') /\ IsInjective(inbox')
    BY <2>1 DEF OnceInv
  <2> QED
    BY <2>1, <2>2, <2>3, <2>4, OnceStep DEF Queued, OnStack
<1>3. CASE RequestExit
  <2>1. inbox' = Append(inbox, Exit) /\ Exit \notin Range(inbox)
        /\ UNCHANGED <<waker, asked, panic, stack, runq, state>>
    BY <1>3 DEF RequestExit, ExitRequested, taskVars, futVars
  <2>2. IsInjective(inbox') /\ Range(inbox') = Range(inbox) \cup {Exit}
    <3>1. IsInjective(inbox) /\ Exit \in Tasks \cup {Exit}  BY DEF OnceInv
    <3>2. /\ Range(Append(inbox, Exit)) = Range(inbox) \cup {Exit}
          /\ IsInjective(Append(inbox, Exit))
      BY <1>a, <2>1, <3>1, AppendFacts
    <3> QED  BY <2>1, <3>2
  <2> QED  BY <2>1, <2>2, ExecutorAssumption DEF OnceInv, Queued, OnStack
<1>4. CASE HandleSpawn
  <2>1. PICK t \in Tasks : t = Head(inbox)  BY <1>4 DEF HandleSpawn
  <2>2. state' = [state EXCEPT ![t] = "Idle"] /\ stack = <<>> /\ inbox # <<>>
        /\ UNCHANGED <<waker, asked, panic, stack>> /\ inbox' = Tail(inbox)
        /\ runq' = Append(runq, t)
    BY <1>4, <2>1 DEF HandleSpawn, AtReactor, futVars
  <2>3. \A u \in Tasks : state'[u] = IF u = t THEN "Idle" ELSE state[u]
    BY <1>0, <2>2 DEF TypeOK
  <2>4. /\ Range(inbox) = {t} \cup Range(inbox')
        /\ IsInjective(inbox') /\ t \notin Range(inbox')
    BY <1>a, <2>1, <2>2, TailFacts DEF OnceInv
  <2>5. state[t] = "Sent"  BY <2>4 DEF OnceInv
  <2>6. IsInjective(runq') /\ Range(runq') = Range(runq) \cup {t}
    <3>1. IsInjective(runq) /\ t \notin Range(runq)
      BY <2>5 DEF OnceInv, Queued
    <3>2. /\ Range(Append(runq, t)) = Range(runq) \cup {t}
          /\ IsInjective(Append(runq, t))
      BY <1>a, <3>1, AppendFacts
    <3> QED  BY <2>2, <3>2
  <2>7. ~OnStack(t)'  BY <2>2, EmptyFacts DEF OnStack
  <2> QED
    BY <2>2, <2>3, <2>4, <2>5, <2>6, <2>7 DEF OnceInv, Queued, OnStack
<1>5. CASE HandleExit
  <2>1. inbox # <<>> /\ inbox' = Tail(inbox)
        /\ UNCHANGED <<waker, asked, panic, stack, runq, state>>
    BY <1>5 DEF HandleExit, taskVars, futVars
  <2>2. IsInjective(inbox') /\ Range(inbox') \subseteq Range(inbox)
    <3>1. IsInjective(inbox)  BY DEF OnceInv
    <3>2. /\ Range(inbox) = {Head(inbox)} \cup Range(Tail(inbox))
          /\ IsInjective(Tail(inbox))
      BY <1>a, <2>1, <3>1, TailFacts
    <3> QED  BY <2>1, <3>2
  <2> QED  BY <2>1, <2>2 DEF OnceInv, Queued, OnStack
<1>6. CASE PollBegin
  BY <1>6, CalmOnce DEF PollBegin, futVars
<1>7. CASE PollNext
  <2>1. PICK t \in Tasks : t = Head(runq)
    BY <1>a, <1>7, TailFacts DEF PollNext
  <2>2. runq # <<>> /\ runq' = Tail(runq) /\ UNCHANGED <<waker, inbox>>
    BY <1>7 DEF PollNext, futVars
  <2>3. /\ Range(runq) = {t} \cup Range(runq')
        /\ IsInjective(runq') /\ t \notin Range(runq')
    BY <1>a, <2>1, <2>2, TailFacts DEF OnceInv
  <2>4. Queued(t) /\ state[t] \in {"Idle", "Notified"}
    BY <2>3 DEF OnceInv, Queued
  <2>5. stack' = <<t>> /\ state' = [state EXCEPT ![t] = "Running"]
        /\ panic' = panic /\ asked' = asked \ {t}
    BY <1>7, <2>1, <2>4 DEF PollNext
  <2>6. \A u \in Tasks : state'[u] = IF u = t THEN "Running" ELSE state[u]
    BY <1>0, <2>5 DEF TypeOK
  <2>7. Range(stack') = {t}  BY <2>5 DEF Range
  <2>8. /\ t \notin Range(inbox) /\ IsInjective(inbox')
        /\ \A f \in Futs : waker[f] # t
    BY <2>2, <2>4 DEF OnceInv
  <2>9. \A u \in Tasks : ~OnStack(u)
    BY <1>7, EmptyFacts DEF PollNext, OnStack
  <2> QED
    BY <2>2, <2>3, <2>5, <2>6, <2>7, <2>8, <2>9, OnceStep
    DEF Queued, OnStack
<1>8. CASE PollEnd
  BY <1>8, CalmOnce DEF PollEnd, futVars
<1>9. CASE PollShutdown
  <2>1. runq' = <<>> /\ panic' \in {panic, "TCB not found"}
        /\ UNCHANGED <<inbox, stack, state, waker, asked>>
    BY <1>9 DEF PollShutdown, Shutdown, futVars
  <2>2. Range(runq') = {} /\ IsInjective(runq')  BY <2>1, EmptyFacts
  <2> QED  BY <2>1, <2>2 DEF OnceInv, Queued, OnStack
<1>10. CASE ThreadExit
  BY <1>10, CalmOnce DEF ThreadExit, taskVars, futVars
<1>11. ASSUME NEW t \in Tasks, SetTls(t) PROVE OnceInv'
  BY <1>11, CalmOnce DEF SetTls, taskVars, futVars
<1>12. ASSUME NEW t \in Tasks, Yield(t) PROVE OnceInv'
  <2>1. /\ Wake(t) /\ UNCHANGED <<inbox, stack, waker>> /\ IsRunning(t)
        /\ t \notin asked /\ asked' = asked \cup {t}
    BY <1>12 DEF Yield
  <2>2. OnStack(t) /\ ~Queued(t) /\ \A f \in Futs : waker[f] # t
    BY <1>b, <2>1 DEF OnceInv
  <2>3. /\ panic' # "resumed after completion"
        /\ IsInjective(runq')
        /\ \A u \in Tasks \ {t} : state'[u] = state[u]
        /\ \A u \in Tasks : Queued(u)' => Queued(u) \/ u = t
        /\ Queued(t)' => ~OnStack(t) /\ state'[t] = "Notified"
    BY <1>0, <2>1, <2>2, WakeOnce
  <2>4. t \notin Range(inbox)  BY <1>0, <2>2 DEF OnceInv, StackInv
  <2>5. \A u \in Tasks :
          Queued(u)' => ~OnStack(u)' /\ state'[u] \in {"Idle", "Notified"}
    BY <2>1, <2>2, <2>3 DEF OnceInv, OnStack
  <2>6. \A u \in Tasks, f \in Futs :
          waker'[f] = u => /\ ~Queued(u)' /\ state'[u] \in {"Running", "Idle"}
                           /\ OnStack(u)' => u \in asked'
    BY <2>1, <2>2, <2>3 DEF OnceInv, OnStack
  <2>7. \A u \in Tasks : u \in Range(inbox') => state'[u] = "Sent"
    BY <2>1, <2>3, <2>4 DEF OnceInv
  <2>8. /\ IsInjective(inbox')
        /\ \A f, g \in Futs : waker'[f] = waker'[g] /\ waker'[f] # NoTask => f = g
    BY <2>1 DEF OnceInv
  <2>9. \A u \in Tasks : OnStack(u)' /\ state'[u] = "Notified" => u \in asked'
    BY <2>1, <2>3 DEF OnceInv, OnStack
  <2> QED  BY <2>3, <2>5, <2>6, <2>7, <2>8, <2>9 DEF OnceInv
<1>13. ASSUME NEW t \in Tasks, NEW f \in Futs, Submit(t, f) PROVE OnceInv'
  BY <1>13, CalmOnce DEF Submit, taskVars
<1>14. ASSUME NEW t \in Tasks, NEW f \in Futs, Await(t, f) PROVE OnceInv'
  <2>1. IsRunning(t) /\ t \notin asked /\ asked' = asked \cup {t}
        /\ waker' = [waker EXCEPT ![f] = t] /\ Awaiter[f] = t
        /\ UNCHANGED <<inbox, runq, stack, state, panic>>
    BY <1>14 DEF Await, taskVars
  <2>2. \A g \in Futs : waker'[g] = IF g = f THEN t ELSE waker[g]
    BY <1>0, <2>1 DEF TypeOK
  <2>3. OnStack(t) /\ ~Queued(t)  BY <1>b, <2>1
  <2>4. state[t] = "Running" /\ \A g \in Futs : waker[g] # t
    BY <1>0, <2>1, <2>3 DEF OnceInv, StackInv
  <2>5. \A g, h \in Futs :
          waker'[g] = waker'[h] /\ waker'[g] # NoTask => g = h
    <3>1. \A g, h \in Futs : waker[g] = waker[h] /\ waker[g] # NoTask => g = h
      BY DEF OnceInv
    <3> QED  BY <2>2, <2>4, <3>1
  <2>6. \A u \in Tasks, g \in Futs :
          waker'[g] = u => /\ ~Queued(u)' /\ state'[u] \in {"Running", "Idle"}
                           /\ OnStack(u)' => u \in asked'
    <3> SUFFICES ASSUME NEW u \in Tasks, NEW g \in Futs, waker'[g] = u
                 PROVE  /\ ~Queued(u) /\ state[u] \in {"Running", "Idle"}
                        /\ OnStack(u) => u \in asked'
      BY <2>1 DEF Queued, OnStack
    <3>1. CASE g = f  BY <2>1, <2>2, <2>3, <2>4, <3>1
    <3>2. CASE g # f
      <4>1. waker[g] = u  BY <2>2, <3>2
      <4> QED  BY <2>1, <4>1 DEF OnceInv
    <3> QED  BY <3>1, <3>2
  <2> QED  BY <2>1, <2>5, <2>6 DEF OnceInv, Queued, OnStack
<1>15. ASSUME NEW t \in Tasks, NEW f \in Futs, CompleteInBody(t, f)
       PROVE  OnceInv'
  BY <1>15, CompleteOnce DEF CompleteInBody
<1>16. ASSUME NEW t \in Tasks, ReturnReady(t) PROVE OnceInv'
  <2>1. IsRunning(t) /\ stack' = Tail(stack)
        /\ state' = [state EXCEPT ![t] = "Ready"]
        /\ UNCHANGED <<inbox, waker, asked, panic, runq>>
        /\ \A f \in Futs : Awaiter[f] = t => fut[f] # "pending"
    BY <1>16 DEF ReturnReady, futVars
  <2>2. \A u \in Tasks : state'[u] = IF u = t THEN "Ready" ELSE state[u]
    BY <1>0, <2>1 DEF TypeOK
  <2>3. ~Queued(t)  BY <1>b, <2>1
  <2>4. \A f \in Futs : waker[f] # t
    BY <1>0, <2>1, ExecutorAssumption DEF WakerInv
  <2>5. Range(stack') \subseteq Range(stack)
    BY <1>a, <2>1, TailFacts DEF IsRunning
  <2>6. state[t] # "Sent"  BY <1>0, <1>b, <2>1 DEF StackInv
  <2>7. ~OnStack(t)'
    BY <1>0, <1>a, <2>1, TailFacts DEF StackInv, IsRunning, OnStack
  <2>8. /\ t \notin Range(inbox)
        /\ IsInjective(inbox') /\ IsInjective(runq')
    BY <2>1, <2>6 DEF OnceInv
  <2> QED
    BY <2>1, <2>2, <2>3, <2>4, <2>5, <2>7, <2>8, OnceStep
    DEF Queued, OnStack
<1>17. ASSUME NEW t \in Tasks, ReturnPending(t) PROVE OnceInv'
  <2>1. /\ IsRunning(t) /\ stack # <<>> /\ Head(stack) = t
        /\ stack' = Tail(stack)
        /\ state' = [state EXCEPT ![t] = "Idle"]
        /\ UNCHANGED <<inbox, waker, asked, panic>>
        /\ runq' = IF state[t] = "Notified" THEN Append(runq, t) ELSE runq
    BY <1>17 DEF ReturnPending, IsRunning, futVars
  <2>2. \A u \in Tasks : state'[u] = IF u = t THEN "Idle" ELSE state[u]
    BY <1>0, <2>1 DEF TypeOK
  <2>3. OnStack(t) /\ ~Queued(t)  BY <1>b, <2>1
  <2>4. t \notin Range(stack') /\ Range(stack) = {t} \cup Range(stack')
    BY <1>0, <1>a, <2>1, TailFacts DEF StackInv
  <2>5. state[t] # "Sent"  BY <1>0, <2>3 DEF StackInv
  <2>6. CASE state[t] = "Notified"
    <3>1. Range(runq') = Range(runq) \cup {t} /\ IsInjective(runq')
      <4>1. IsInjective(runq) /\ t \notin Range(runq)
        BY <2>3 DEF OnceInv, Queued
      <4>2. /\ Range(Append(runq, t)) = Range(runq) \cup {t}
            /\ IsInjective(Append(runq, t))
        BY <1>a, <4>1, AppendFacts
      <4> QED  BY <2>1, <2>6, <4>2
    <3>2. \A f \in Futs : waker[f] # t  BY <2>6 DEF OnceInv
    <3> QED
      BY <2>1, <2>2, <2>4, <2>5, <3>1, <3>2 DEF OnceInv, Queued, OnStack
  <2>7. CASE state[t] # "Notified"
    <3>1. runq' = runq  BY <2>1, <2>7
    <3> QED
      BY <2>1, <2>2, <2>3, <2>4, <2>5, <3>1 DEF OnceInv, Queued, OnStack
  <2> QED  BY <2>6, <2>7
<1>18. ASSUME NEW f \in Futs, Complete(f) PROVE OnceInv'
  BY <1>18, CompleteOnce DEF Complete
<1>19. CASE UNCHANGED vars
  BY <1>19, CalmOnce DEF vars
<1> QED
  BY <1>1, <1>2, <1>3, <1>4, <1>5, <1>6, <1>7, <1>8, <1>9, <1>10, <1>11,
     <1>12, <1>13, <1>14, <1>15, <1>16, <1>17, <1>18, <1>19
  DEF Next, Handle, Poller, Body, Return, Answer

LEMMA OnceAlways == ASSUME Join = FALSE PROVE Spec => []OnceInv
<1>1. WakeupInv /\ OnceInv /\ [Next]_vars => (WakeupInv /\ OnceInv)'
  BY WakeupNext, OnceNext
<1> QED  BY <1>1, WakeupInit, OnceInit, PTL DEF Spec

(* A task that leaves one wake source behind is queued at most once, and   *)
(* never while it is being polled (lib.rs:2176-2193).                      *)
THEOREM QueuedAtMostOnce == ASSUME Join = FALSE PROVE Spec => []QueuedOnce
BY OnceAlways, OnceInvImplies, PTL

(* Such a task is never polled after it has returned Ready.                *)
THEOREM NeverPolledAgain == ASSUME Join = FALSE PROVE Spec => []NeverResumed
BY OnceAlways, OnceInvImplies, PTL

-----------------------------------------------------------------------------
(* Shutdown runs once for a thread that nobody waits on when its exit      *)
(* begins: from then on no task runs on it and no future holds a waker.    *)

ExitInv ==
  /\ thread # "running" => ~inPoll
  /\ late = {} =>
       /\ panic # "TCB not found"
       /\ thread # "running" => stack = <<>> /\ \A f \in Futs : waker[f] = NoTask

LEMMA ExitInit == Init => ExitInv
BY DEF Init, ExitInv

\* Steps that begin no exit and wake nobody on a thread that is exiting.
LEMMA ExitStep ==
  ASSUME TypeOK, ExitInv, late \subseteq late', thread' = thread,
         thread # "running" => UNCHANGED inPoll,
         late' = {} /\ thread # "running" => UNCHANGED <<stack, waker, panic>>,
         late' = {} /\ thread = "running" => panic' # "TCB not found"
  PROVE  ExitInv'
<1>1. thread' # "running" => ~inPoll'  BY DEF ExitInv
<1>2. ASSUME late' = {}
      PROVE  /\ panic' # "TCB not found"
             /\ thread' # "running" =>
                  stack' = <<>> /\ \A f \in Futs : waker'[f] = NoTask
  <2>1. late = {}  BY <1>2
  <2>2. CASE thread = "running"  BY <1>2, <2>2
  <2>3. CASE thread # "running"  BY <1>2, <2>1, <2>3 DEF ExitInv
  <2> QED  BY <2>2, <2>3
<1> QED  BY <1>1, <1>2 DEF ExitInv

\* While the thread runs, or in a future that nobody waits for, completion does
\* no shutdown.
LEMMA CompleteRunning ==
  ASSUME TypeOK, ExitInv, NEW f \in Futs, CompleteFut(f), late = {}
  PROVE  panic' = panic /\ (thread # "running" => UNCHANGED waker)
<1>1. CASE thread = "running"
  <2>1. CASE waker[f] = NoTask  BY <1>1, <2>1 DEF CompleteFut
  <2>2. CASE waker[f] # NoTask
    <3>1. Wake(waker[f])  BY <2>2 DEF CompleteFut
    <3> QED  BY <1>1, <3>1 DEF Wake
  <2> QED  BY <1>1, <2>1, <2>2
<1>2. CASE thread # "running"
  BY <1>2 DEF ExitInv, CompleteFut, TypeOK
<1> QED  BY <1>1, <1>2

LEMMA ExitNext == TypeOK /\ ExitInv /\ [Next]_vars => ExitInv'
<1> SUFFICES ASSUME TypeOK, ExitInv, [Next]_vars PROVE ExitInv'
  OBVIOUS
<1>a. late = {} => panic # "TCB not found"  BY DEF ExitInv
<1>b. \A t \in Tasks : IsRunning(t) /\ late = {} => thread = "running"
  BY DEF IsRunning, ExitInv
<1>1. ASSUME NEW t \in Tasks, Spawn(t) PROVE ExitInv'
  BY <1>a, <1>1, ExitStep DEF Spawn, futVars
<1>2. ASSUME NEW t \in Tasks, SpawnLocal(t) PROVE ExitInv'
  BY <1>a, <1>2, ExitStep DEF SpawnLocal
<1>3. CASE RequestExit
  BY <1>a, <1>3, ExitStep DEF RequestExit, taskVars, futVars
<1>4. CASE HandleSpawn
  BY <1>a, <1>4, ExitStep DEF HandleSpawn, futVars
<1>5. CASE HandleExit
  <2>1. /\ late' = late \cup {t \in Tasks : Wakers(t) # {}}
        /\ stack = <<>> /\ ~inPoll
        /\ UNCHANGED <<stack, inPoll, waker, panic>>
    BY <1>5 DEF HandleExit, AtReactor, taskVars, futVars
  <2>2. ASSUME late' = {}, NEW f \in Futs PROVE waker[f] = NoTask
    BY <2>1, <2>2 DEF Wakers, TypeOK
  <2> QED  BY <1>a, <2>1, <2>2 DEF ExitInv
<1>6. CASE PollBegin
  BY <1>a, <1>6, ExitStep DEF PollBegin, futVars
<1>7. CASE PollNext
  <2>1. thread = "running" /\ thread' = thread /\ late' = late
    BY <1>7 DEF PollNext, ExitInv
  <2>2. panic' \in {panic, "resumed after completion"}
    BY <1>7 DEF PollNext
  <2> QED  BY <1>a, <2>1, <2>2, ExitStep
<1>8. CASE PollEnd
  <2>1. thread = "running"  BY <1>8 DEF PollEnd, ExitInv
  <2> QED  BY <1>a, <1>8, <2>1, ExitStep DEF PollEnd, futVars
<1>9. CASE PollShutdown
  BY <1>a, <1>9, ExitStep DEF PollShutdown, Shutdown, CurrentTcb, futVars
<1>10. CASE ThreadExit
  BY <1>10 DEF ThreadExit, AtReactor, taskVars, futVars, ExitInv
<1>11. ASSUME NEW t \in Tasks, SetTls(t) PROVE ExitInv'
  BY <1>a, <1>11, ExitStep DEF SetTls, taskVars, futVars
<1>12. ASSUME NEW t \in Tasks, Yield(t) PROVE ExitInv'
  <2>1. IsRunning(t) /\ Wake(t) /\ UNCHANGED <<thread, late, inPoll, stack, waker>>
    BY <1>12 DEF Yield
  <2>2. late = {} => thread = "running" /\ panic' = panic
    BY <1>b, <2>1 DEF Wake
  <2> QED  BY <1>a, <2>1, <2>2, ExitStep
<1>13. ASSUME NEW t \in Tasks, NEW f \in Futs, Submit(t, f) PROVE ExitInv'
  BY <1>a, <1>13, ExitStep DEF Submit, taskVars
<1>14. ASSUME NEW t \in Tasks, NEW f \in Futs, Await(t, f) PROVE ExitInv'
  <2>1. late = {} => thread = "running"  BY <1>b, <1>14 DEF Await
  <2> QED  BY <1>a, <1>14, <2>1, ExitStep DEF Await, taskVars
<1>15. ASSUME NEW f \in Futs, CompleteFut(f),
              UNCHANGED <<thread, late, inPoll, stack>>
       PROVE  ExitInv'
  BY <1>a, <1>15, CompleteRunning, ExitStep
<1>16. ASSUME NEW t \in Tasks, NEW f \in Futs, CompleteInBody(t, f)
       PROVE  ExitInv'
  BY <1>15, <1>16 DEF CompleteInBody
<1>17. ASSUME NEW t \in Tasks, ReturnReady(t) \/ ReturnPending(t) PROVE ExitInv'
  <2>1. /\ IsRunning(t) /\ UNCHANGED <<thread, late, inPoll, panic>>
    BY <1>17 DEF ReturnReady, ReturnPending, futVars
  <2>2. late = {} => thread = "running"  BY <1>b, <2>1
  <2> QED  BY <1>a, <2>1, <2>2, ExitStep
<1>18. ASSUME NEW f \in Futs, Complete(f) PROVE ExitInv'
  BY <1>15, <1>18 DEF Complete
<1>19. CASE UNCHANGED vars
  BY <1>19 DEF vars, ExitInv
<1> QED
  BY <1>1, <1>2, <1>3, <1>4, <1>5, <1>6, <1>7, <1>8, <1>9, <1>10, <1>11,
     <1>12, <1>13, <1>14, <1>16, <1>17, <1>18, <1>19
  DEF Next, Handle, Poller, Body, Return, Answer

(* Whenever exit is requested, and whatever tasks are spawned, suspended   *)
(* or woken meanwhile, shutdown finds its block in the registry            *)
(* (lib.rs:2084) unless some task waited for an answer when the exit began *)
(* or was spawned locally after that.                                      *)
THEOREM ShutDownOnce == Spec => []ShutdownOnce
<1>1. TypeOK /\ ExitInv /\ [Next]_vars => (TypeOK /\ ExitInv)'
  BY NextType, ExitNext
<1>2. TypeOK /\ ExitInv => ShutdownOnce  BY DEF ExitInv, ShutdownOnce
<1> QED  BY <1>1, <1>2, InitType, ExitInit, PTL DEF Spec
=============================================================================
