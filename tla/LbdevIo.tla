------------------------------ MODULE LbdevIo -------------------------------
(***************************************************************************)
(* A task that gives lower bdevs a batch of I/Os and awaits their futures  *)
(* in order, as the RAID bdevs do (raid5.rs:276-290, 397-425, 539-567 and  *)
(* raid1.rs:132-150), over Lbdev::read and write, LbdevIoCtx,              *)
(* LbdevIoFuture and IoFuture of ironspdk/src/lib.rs.                      *)
(*                                                                         *)
(* The task and the completion callbacks share a thread: a callback runs   *)
(* only while the task is suspended or waits on the run queue.             *)
(***************************************************************************)
EXTENDS Naturals

CONSTANTS
  N,        \* I/Os of a batch, each with its own LbdevIoCtx
  Rounds,   \* bound: batches the task sends, one after the other
  Reuse     \* may a task keep the contexts of a batch for the next one?

ASSUME BatchAssumption ==
  N \in Nat \ {0} /\ Rounds \in Nat \ {0} /\ Reuse \in BOOLEAN

Ios == 1..N

VARIABLES
  round,    \* the batch the task is at
  sent,     \* I/Os of this batch given to Lbdev::read or write
  at,       \* the I/O whose future the task awaits, N + 1 after the last
  done,     \* IoFuture.done of each context
  success,  \* LbdevIoCtx.success
  waker,    \* is there a waker in IoFuture.waker?
  dev,      \* what became of each I/O: none, flight, ok or bad
  seen,     \* what the future of each I/O returned: none, ok or bad
  before,   \* history: the outcome of the I/O a context served before
  task      \* running, suspended, queued (to be polled) or over

ctxVars == <<done, success, waker>>
vars == <<round, sent, at, ctxVars, dev, seen, before, task>>

TypeOK ==
  /\ round \in 1..Rounds
  /\ sent \in 0..N
  /\ at \in 1..(N + 1)
  /\ done \in [Ios -> BOOLEAN]
  /\ success \in [Ios -> BOOLEAN]
  /\ waker \in [Ios -> BOOLEAN]
  /\ dev \in [Ios -> {"none", "flight", "ok", "bad"}]
  /\ seen \in [Ios -> {"none", "ok", "bad"}]
  /\ before \in [Ios -> {"none", "ok", "bad"}]
  /\ task \in {"running", "suspended", "queued", "over"}

Fresh == [i \in Ios |-> FALSE]
None  == [i \in Ios |-> "none"]

Init ==
  /\ round = 1 /\ sent = 0 /\ at = 1
  /\ done = Fresh /\ success = Fresh /\ waker = Fresh
  /\ dev = None /\ seen = None /\ before = None
  /\ task = "running"

-----------------------------------------------------------------------------
\* IoFuture::complete, and the wake-up of the task when it left its waker.
Finish(i) ==
  /\ done' = [done EXCEPT ![i] = TRUE]
  /\ waker' = [waker EXCEPT ![i] = FALSE]
  /\ task' = IF waker[i] /\ task = "suspended" THEN "queued" ELSE task

\* Mutant: one I/O more than there are contexts.
Accepted_OneMore ==
  /\ task = "running" /\ sent <= N
  /\ sent' = sent + 1
  /\ dev' = [i \in Ios |-> IF i = sent + 1 THEN "flight" ELSE dev[i]]
  /\ UNCHANGED <<round, at, ctxVars, seen, task, before>>

\* Lbdev::read and write: the lower bdev accepts the I/O (rc = 0).
Accepted ==
  /\ task = "running" /\ sent < N
  /\ sent' = sent + 1
  /\ dev' = [dev EXCEPT ![sent + 1] = "flight"]
  /\ UNCHANGED <<round, at, ctxVars, seen, task, before>>

\* Lbdev::read and write: the I/O is refused at once (rc # 0) and there will
\* be no callback, so the future is completed here.
Refused ==
  /\ task = "running" /\ sent < N
  /\ sent' = sent + 1
  /\ dev' = [dev EXCEPT ![sent + 1] = "bad"]
  /\ success' = [success EXCEPT ![sent + 1] = FALSE]
  /\ Finish(sent + 1)
  /\ UNCHANGED <<round, at, seen, before>>

\* Mutant: the loop stays at an I/O that failed.
PollReady_StayAtFailed ==
  /\ task = "running" /\ sent = N /\ at <= N
  /\ done[at]
  /\ seen' = [seen EXCEPT ![at] = IF success[at] THEN "ok" ELSE "bad"]
  /\ at' = IF success[at] THEN at + 1 ELSE at
  /\ UNCHANGED <<round, sent, ctxVars, dev, task, before>>

\* The task polls the next future of the batch, LbdevIoFuture::poll.
PollReady ==
  /\ task = "running" /\ sent = N /\ at <= N
  /\ done[at]
  /\ seen' = [seen EXCEPT ![at] = IF success[at] THEN "ok" ELSE "bad"]
  /\ at' = at + 1
  /\ UNCHANGED <<round, sent, ctxVars, dev, task, before>>

PollPending ==
  /\ task = "running" /\ sent = N /\ at <= N
  /\ ~done[at]
  /\ waker' = [waker EXCEPT ![at] = TRUE]
  /\ task' = "suspended"
  /\ UNCHANGED <<round, sent, at, done, success, dev, seen, before>>

\* Mutant: the task is woken before the outcome of the I/O is stored.
Callback_LateStatus(i) ==
  /\ task # "running" /\ dev[i] = "flight"
  /\ dev' \in {[dev EXCEPT ![i] = "ok"], [dev EXCEPT ![i] = "bad"]}
  /\ Finish(i)
  /\ UNCHANGED <<round, sent, at, success, seen, before>>

\* Mutant: the callback takes the waker but forgets to call it.
Callback_NoWake(i) ==
  /\ task # "running" /\ dev[i] = "flight"
  /\ \E ok \in BOOLEAN :
       /\ dev' = [dev EXCEPT ![i] = IF ok THEN "ok" ELSE "bad"]
       /\ success' = [success EXCEPT ![i] = ok]
  /\ done' = [done EXCEPT ![i] = TRUE]
  /\ waker' = [waker EXCEPT ![i] = FALSE]
  /\ UNCHANGED <<round, sent, at, seen, task, before>>

\* spdk_rwio_complete_cb: store the outcome, complete the future.
Callback(i) ==
  /\ task # "running" /\ dev[i] = "flight"
  /\ \E ok \in BOOLEAN :
       /\ dev' = [dev EXCEPT ![i] = IF ok THEN "ok" ELSE "bad"]
       /\ success' = [success EXCEPT ![i] = ok]
  /\ Finish(i)
  /\ UNCHANGED <<round, sent, at, seen, before>>

\* The executor polls the task again.
Resume ==
  /\ task = "queued"
  /\ task' = "running"
  /\ UNCHANGED <<round, sent, at, ctxVars, dev, seen, before>>

\* Every future of the batch has returned, and every I/O has been answered. A
\* task that goes on with an I/O in flight has its contexts written to later on,
\* and of that nothing is said: the model stops there.
Left      == {i \in Ios : dev[i] = "flight"}
BatchOver == at = N + 1 /\ Left = {}

\* The next batch gets new contexts, or keeps those of this one, in which the
\* futures are done.
NextRound ==
  /\ task = "running" /\ BatchOver
  /\ round < Rounds
  /\ round' = round + 1
  /\ sent' = 0 /\ at' = 1
  /\ dev' = None /\ seen' = None
  /\ \/ Reuse /\ before' = dev /\ UNCHANGED ctxVars
     \/ /\ before' = None
        /\ done' = Fresh /\ success' = Fresh /\ waker' = Fresh
  /\ UNCHANGED task

End ==
  /\ task = "running" /\ BatchOver /\ round = Rounds
  /\ task' = "over"
  /\ UNCHANGED <<round, sent, at, ctxVars, dev, seen, before>>

-----------------------------------------------------------------------------
Step == Accepted \/ Refused \/ PollReady \/ PollPending
          \/ Resume \/ NextRound \/ End

Next == Step \/ \E i \in Ios : Callback(i)

Spec == Init /\ [][Next]_vars

\* The task runs on while it can, and a lower bdev answers what it accepted.
Fairness == WF_vars(Step) /\ \A i \in Ios : WF_vars(Callback(i))

FairSpec == Spec /\ Fairness

-----------------------------------------------------------------------------
(* A future returns once its own I/O is over, with the outcome of that     *)
(* I/O, so that its context may be dropped (lib.rs:2349-2350). Only the    *)
(* future of a context that is used again, which lib.rs:2324-2325 allows   *)
(* ("reuse them for multiple I/O operations"), may return the outcome of   *)
(* the I/O before, at once: nobody clears IoFuture.done.                   *)
OwnResults ==
  \A i \in Ios : seen[i] # "none" => seen[i] \in {dev[i], before[i]}

(* A suspended task has left its waker in the future it awaits, and the    *)
(* I/O of that future is still to be answered: somebody will call it,      *)
(* although other I/Os of the batch complete before it, in any order.      *)
WillBeWoken ==
  task = "suspended" => at <= N /\ waker[at] /\ dev[at] = "flight"

(* Every batch ends, whichever of its I/Os are refused, fail or come out   *)
(* of order: the lower bdev answers what it accepted, and what it refused  *)
(* is answered where it was submitted (lib.rs:2446-2451). A batch that     *)
(* keeps contexts may instead go on with an I/O in flight.                 *)
BatchesEnd == <>(task = "over" \/ (at = N + 1 /\ Left # {}))
=============================================================================
