---------------------------- MODULE Application -----------------------------
(***************************************************************************)
(* An application of ironspdk from main to the end of run: SpdkApp and its *)
(* two callbacks (ironspdk/src/app.rs), the table of RPC commands          *)
(* (rpc.rs), and what happens to the bdevs of BdevLifecycle and to the     *)
(* lower bdevs they stand on when the application stops.                   *)
(*                                                                         *)
(* Every I/O channel of a RAID bdev holds a descriptor of each of its      *)
(* lower bdevs (create_io_channel of raid5.rs and raid1.rs), on which      *)
(* SPDK waits before it lets a lower bdev go.                              *)
(***************************************************************************)
EXTENDS BdevLifecycle, SequencesExt

CONSTANTS
  OnShutdown,  \* does main call on_shutdown?
  LowerList,   \* the lower bdevs, in the order of their registration
  Removable,   \* lower bdevs that may go and come back while SPDK runs
  MaxRemovals  \* bound: how often

ASSUME ApplicationAssumption ==
  /\ OnShutdown \in BOOLEAN
  /\ Removable \subseteq Disks /\ MaxRemovals \in Nat
  /\ LowerList \in Seq(Disks) /\ IsInjective(LowerList)
  /\ Bdevs \cap Disks = {}

VARIABLES
  app,         \* how far the application is
  result,      \* what run has returned
  startCb,     \* the callback of on_start: none, set, called
  shutdownCb,  \* the one of on_shutdown, kept in SHUTDOWN_CX
  table,       \* DISPATCH_TABLE: the commands with a handler
  list,        \* SPDK's list of bdevs, RAID or lower, the last one last
  removals     \* how often a lower bdev has gone

appVars == <<app, result, startCb, shutdownCb, table>>
allVars == <<vars, appVars, list, removals>>

Commands == {"rs_bdev_delete", "rs_raid1_create", "rs_raid5_create"}
CommandOf(r) == IF r.kind = "raid5" THEN "rs_raid5_create" ELSE "rs_raid1_create"

Phases  == {"main", "starting", "running", "stopping", "reactors", "returned"}
Results == {"none", "Ok", "ParseArgv", "NoStartCbDefined", "Start"}

AppTypes ==
  /\ app \in Phases /\ result \in Results
  /\ startCb \in {"none", "set", "called"}
  /\ shutdownCb \in {"none", "set", "called"}
  /\ table \subseteq Commands
  /\ list \in Seq(Bdevs \cup Disks)
  /\ removals \in 0..MaxRemovals

\* Types, of the bdevs and their messages too (TypeOK).
AppTypeOK == TypeOK /\ AppTypes

\* main may have forgotten on_start.
AppInit ==
  /\ Init
  /\ app = "main" /\ result = "none"
  /\ startCb \in {"none", "set"}
  /\ shutdownCb = IF OnShutdown THEN "set" ELSE "none"
  /\ table = {}
  /\ list = LowerList
  /\ removals = 0

-----------------------------------------------------------------------------
(* Start.                                                                  *)

\* The constructors of rpc_register! run before main.
RegisterCmd(cmd) ==
  /\ app = "main" /\ cmd \notin table
  /\ table' = table \cup {cmd}
  /\ UNCHANGED <<vars, app, result, startCb, shutdownCb, list, removals>>

Return(res) ==
  /\ app' = "returned" /\ result' = res
  /\ UNCHANGED <<vars, startCb, shutdownCb, table, list, removals>>

\* run_spdk_app: SPDK parses the arguments, and with --help that is all.
Run ==
  /\ app = "main" /\ table = Commands
  /\ \/ Return("Ok")
     \/ Return("ParseArgv")
     \/ startCb = "none" /\ Return("NoStartCbDefined")
     \/ /\ startCb = "set"
        /\ app' = "starting"
        /\ UNCHANGED <<vars, result, startCb, shutdownCb, table, list, removals>>

\* spdk_app_start fails, or calls u_spdk_app_start on the first thread.
StartFails == app = "starting" /\ Return("Start")

Started ==
  /\ app = "starting"
  /\ app' = "running"
  /\ startCb' = "called"
  /\ UNCHANGED <<vars, result, shutdownCb, table, list, removals>>

-----------------------------------------------------------------------------
(* RPCs, bdevs and lower bdevs while the application runs.                 *)

\* The lower bdevs of a request can be opened.
Present(r) == r # NoRequest => Range(r.children) \subseteq Range(list)

\* Who has a descriptor of lower bdev d: the channels of workers and users.
Holders(d) ==
  {b \in Bdevs : /\ req[b] # NoRequest /\ d \in Range(req[b].children)
                 /\ user[b] \/ \E w \in Workers : chan[b][w] = "open"}

Same == UNCHANGED <<appVars, list, removals>>

\* A bdev leaves SPDK's list.
Unlist(x) ==
  \E i \in 1..Len(list) : list[i] = x /\ list' = RemoveAt(list, i)

\* handle_rpc_cmd looks the handler up and runs it.
RpcCreate(b, r) ==
  /\ app = "running" /\ CommandOf(r) \in table
  /\ Present(r)
  /\ Create(b, r)
  /\ Same

RpcDelete(n) ==
  /\ app = "running" /\ "rs_bdev_delete" \in table
  /\ Delete(n)
  /\ Same

\* Steps of the bdevs that change SPDK's list, and those that do not.
Listed(b) ==
  /\ app # "returned"
  /\ \/ Create_Done(b) /\ list' = Append(list, b)
     \/ Unlink(b) /\ Unlist(b)
     \/ /\ Create_Failed(b) \/ Create_Return(b) \/ Destruct(b) \/ CtxDrop(b)
        /\ UNCHANGED list
  /\ UNCHANGED <<appVars, removals>>

Worker(b, w) ==
  /\ app # "returned"
  /\ \/ IF Present(req[b])
        THEN InitTask(b, w)
        ELSE InitTask_Fault(b, w) /\ fault' = "no_child"
     \/ InitTask_Fault(b, w) /\ fault' # "no_child"
     \/ IoTask(b, w) \/ IoDone(b, w) \/ WorkerExit(b, w)
  /\ Same

\* The subsystems and users of the bdevs end before the bdevs do.
User(b) ==
  /\ \/ /\ app = "running"
        /\ IF Present(req[b]) THEN Open(b) ELSE Open_Fault(b)
     \/ Close(b)
     \/ app = "running" /\ \E w \in Workers : Submit(b, w)
  /\ Same

Foreigner(n) ==
  /\ \/ app = "running" /\ ForeignAdd(n)
     \/ app # "returned" /\ ForeignRemove(n)
  /\ Same

\* A lower bdev that nobody holds is deleted, and made again, perhaps after
\* the RAID bdevs that stand on it. One that is held stays: rs_bdev_event_cb
\* does nothing about the event of removal.
LowerGone(d) ==
  /\ app = "running" /\ ~Busy
  /\ removals < MaxRemovals /\ removals' = removals + 1
  /\ Holders(d) = {}
  /\ Unlist(d)
  /\ UNCHANGED <<vars, appVars>>

LowerBack(d) ==
  /\ app = "running" /\ ~Busy
  /\ d \notin Range(list)
  /\ list' = Append(list, d)
  /\ UNCHANGED <<vars, appVars, removals>>

-----------------------------------------------------------------------------
(* Stop.                                                                   *)

\* A signal: u_spdk_app_shutdown calls the callback, if there is one, and
\* spdk_app_stop. SPDK calls it once, and takes no RPC any more.
Shutdown ==
  /\ app = "running" /\ ~Busy
  /\ app' = "stopping"
  /\ shutdownCb' = IF shutdownCb = "set" THEN "called" ELSE shutdownCb
  /\ UNCHANGED <<vars, result, startCb, table, list, removals>>

Leaving(b) == stage[b] \in {"removing", "unlinked", "destructing"}

\* SPDK unregisters the bdevs one after the other, the last first, when their
\* users are gone. For a lower bdev it waits for the last descriptor.
Finish ==
  /\ app = "stopping" /\ list # <<>>
  /\ \A b \in Bdevs : ~user[b] /\ ~Leaving(b)
  /\ LET x == Last(list) IN
     \/ /\ \E n \in Names : spdk[n] = x /\ Delete(n)
        /\ UNCHANGED list
     \/ /\ x \in Disks /\ Holders(x) = {}
        /\ list' = Front(list)
        /\ UNCHANGED vars
  /\ UNCHANGED <<appVars, removals>>

FinishEnd ==
  /\ app = "stopping" /\ list = <<>> /\ Foreign \notin Range(spdk)
  /\ \A b \in Bdevs : ~Leaving(b)
  /\ app' = "reactors"
  /\ UNCHANGED <<vars, result, startCb, shutdownCb, table, list, removals>>

\* The reactors make the threads exit that still run, ...
StopThreads(b, w) ==
  /\ app = "reactors"
  /\ ReactorExit(b, w)
  /\ Same

\* ... and when all have, spdk_app_start returns, and so does run.
Stop ==
  /\ app = "reactors"
  /\ \A b \in Bdevs, w \in Workers : worker[b][w] # "running"
  /\ Return("Ok")

-----------------------------------------------------------------------------
\* What the application's thread and the reactors do by themselves.
AppProceed == FinishEnd \/ Finish \/ Stop

AppNext ==
  /\ fault = "none"
  /\ \/ \E cmd \in Commands : RegisterCmd(cmd)
     \/ Run \/ StartFails \/ Started \/ Shutdown \/ AppProceed
     \/ \E b \in Bdevs, r \in Requests : RpcCreate(b, r)
     \/ \E b \in Bdevs : Listed(b) \/ User(b)
     \/ \E b \in Bdevs, w \in Workers : Worker(b, w) \/ StopThreads(b, w)
     \/ \E n \in Names : RpcDelete(n) \/ Foreigner(n)
     \/ \E d \in Removable : LowerGone(d) \/ LowerBack(d)

\* Threads are polled for ever, and when the application stops its users go.
AppFairness ==
  /\ WF_allVars(fault = "none" /\ AppProceed)
  /\ \A b \in Bdevs :
       /\ WF_allVars(fault = "none" /\ Listed(b))
       /\ WF_allVars(fault = "none" /\ app = "stopping" /\ Close(b) /\ Same)
       /\ \A w \in Workers :
            WF_allVars(fault = "none" /\ (Worker(b, w) \/ StopThreads(b, w)))
  /\ \A n \in Names :
       WF_allVars(fault = "none" /\ app = "stopping" /\ Foreigner(n))

AppSpec     == AppInit /\ [][AppNext]_allVars
FairAppSpec == AppSpec /\ AppFairness

-----------------------------------------------------------------------------
(* Properties.                                                             *)

\* The children of a RAID5 bdev were registered before it. They are, unless one
\* went and came back before the workers had opened it.
Ordered ==
  \A b \in Bdevs :
    stage[b] = "live" /\ req[b].kind = "raid5" =>
      \A i, j \in 1..Len(list) :
        list[i] \in Range(req[b].children) /\ list[j] = b => i < j

\* An application that is told to stop ends: SPDK deletes the arrays before what
\* they stand on, every worker exits and its channel is put, so that every
\* descriptor of a lower bdev is closed and the bdev can go (raid5.rs:116-124:
\* "Need to stop all workers. This is mandatory.").
StopEnds ==
  app = "stopping" /\ Ordered ~> app = "returned" \/ fault # "none"

\* When run returns after a start, nothing is left: no thread runs, no channel
\* is open, no request is lost, and the registry has forgotten every bdev but
\* those whose creation leaked (lib.rs:1384-1405, bdev.c:38-52).
NothingLeft ==
  app = "returned" /\ startCb = "called" =>
    /\ \A b \in Bdevs : stage[b] \in {"unused", "gone", "leaked"}
    /\ \A b \in Bdevs, w \in Workers :
         worker[b][w] # "running" /\ chan[b][w] # "open" /\ io[b][w] # "lost"
    /\ \A n \in Names : registry[n] # NoBdev => stage[registry[n]] = "leaked"

=============================================================================
