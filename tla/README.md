# ironspdk in TLA+

A verification project kept beside ironspdk: TLA+ modules that model the
runtime and its two example block devices, TLC configurations that check them
on small instances, and TLAPS proofs of what can be proved for every instance.
References to the code are `file:line` in the repository; `lib.rs` is
`ironspdk/src/lib.rs`, `app.rs` and `rpc.rs` are beside it, `raid5.rs` and
`raid1.rs` are the files of that name under `examples/`, `bdev.c` is
`ironspdk-sys/c_src/bdev.c`. `README.md:n` is the repository's own.

## 1. The system

ironspdk lets SPDK block devices (bdevs) be written in Rust with `async`. SPDK
runs one *reactor* per core; a reactor runs *SPDK threads*, and a thread runs
messages sent to it, pollers and completion callbacks, one at a time, never
pre-empted. Everything hard in the system is an interleaving of such callbacks,
or of several threads that talk by messages.

| Component | State | Operations | Talks to |
|---|---|---|---|
| Executor of a thread (`Tcb`, `Task`, wakers, `IoFuture`; lib.rs:1600-1760, 1960-2260) | run queue, poller, task states, `done` and `waker` of each future | spawn, spawn_local, request_exit, poll, wake, shutdown, complete | SPDK messages and pollers; every async function |
| TCB registry and cache (lib.rs:1945-2019) | `TCB_REGISTRY`, `CACHED_TCB` of each reactor | current, removal by shutdown | executor |
| Thread-local storage (lib.rs:1780-1942) | key counter, slots of each TCB | alloc, get, set, clear_all | executor shutdown; RAID5 workers keep their channel there |
| I/O futures of lower bdevs (lib.rs:2262-2495) | `LbdevIoCtx`: future and `success` | read, write, completion callback, poll | SPDK bdev layer; RAID bdevs |
| Scatter-gather views (lib.rs:290-670) | `IoRef`, cursor of the splitter | split, take, slice_iovs | RAID5 strips |
| RAID5 bdev (raid5.rs) | queues of the stripes, channel of each worker, the disks | init, submit_io, read, partial and full-stripe write, reconstruct | executor of each worker, lower bdevs |
| RAID1 bdev (raid1.rs) | `next_read` of each channel, the children | submit_io, read, write | executor, lower bdevs |
| Bdev registry and life cycle (lib.rs:1340-1482, bdev.c, `raid*.c`, RPC handlers) | `BDEV_REGISTRY`, `BdevCtx`, SPDK's bdev and io_device | create, register, delete, destruct, channel create and destroy | SPDK bdev layer, workers |
| Application (app.rs) | the two callbacks, `SHUTDOWN_CX` | on_start, on_shutdown, run | SPDK's start and stop; all bdevs |
| RPC commands (rpc.rs) | `DISPATCH_TABLE` | register before main, look up, handle | creation and deletion of bdevs |
| DMA buffers (lib.rs:220-290) | memory of an `IoBuf` | allocate, slice, xor, free | RAID5 parity and recovery |
| CPU sets, bindings, build scripts, benchmarks | little | | SPDK |

What is hard, and what makes each part correct:

- **Executor.** A completion may wake a task that is being polled, one that is
  queued, or one whose thread is exiting. Correct: a suspended task always has
  somebody to wake it; a task is queued once; a finished future is not polled
  again; shutdown finds its block and lets the thread go.
- **Lower I/O.** Callbacks come in any order and not at all for an I/O refused at
  submission. Correct: a future returns the outcome of its own I/O, and nothing
  is in flight when its context goes away.
- **RAID5.** Tasks of one worker interleave at each await, several threads submit,
  disks fail between the phases of a read-modify-write. Correct: one request of a
  stripe at a time, in order; parity stays the XOR of its row; one lost disk
  costs no data; every request is answered.
- **RAID1.** Reads share `next_read`, writes succeed partly. Correct: a read
  returns a value it may return, mirrors agree, a request fails only if all
  children fail it.
- **Life cycle.** Delete is asynchronous, workers hold channels of the bdev they
  belong to, registration fails half-way. Correct: the two tables of names agree,
  a worker has its channel before its first request, a removal ends.
- **Registry and thread-local storage.** Threads move between reactors, are freed,
  and their addresses are used again. Correct: a thread finds its own block and
  nobody else's, reads what it stored, and its values are dropped once.
- **Application.** It is told to stop at any moment. Correct: it ends, and
  nothing is left: no thread, channel or request, and no registry entry but those
  of creations that leaked.

`PROJECT.json` lists the hazards one by one, each at its line, with the
properties that catch it or the reason why none does yet.

## 2. Modules

| Module | Models | Checked by |
|---|---|---|
| `Executor` | the executor of one SPDK thread | `MCExecutor` |
| `CommonFacts` | lemmas on sequences, induction, division and XOR | tlapm |
| `ExecutorProofs` | theorems about `Executor` | tlapm |
| `LbdevIo` | a task that awaits batches of lower I/Os | itself |
| `LbdevIoProofs` | theorems about `LbdevIo` | tlapm |
| `Raid5Layout` | where a logical block lives | with `Raid5`, `IoSplit` |
| `BlockXor` | the XOR of blocks or of bytes | with `Raid5`, `StripIo` |
| `IoSplit` | the loop that cuts a request into strips | with `StripIo` |
| `StripIo` | the bytes of a request: sums, copies, full and partial writes | itself |
| `StripIoProofs` | theorems about `IoSplit` and `StripIo`, for any layout and request | tlapm |
| `StripeStore` | what the RAID5 bdev promises (abstract) | implemented by `Raid5` |
| `Raid5` | the RAID5 bdev: queues, recovery, parity | `MCRaid5` |
| `Raid5Proofs` | theorems about `Raid5`: types, queues, redundancy; that it implements `StripeStore` | tlapm |
| `Raid1` | the RAID1 bdev | `MCRaid1` |
| `Raid1Proofs` | theorems about `Raid1` | tlapm |
| `BdevLifecycle` | creation and deletion of the bdevs, registry, workers and channels | with `Application` |
| `Application` | main to the end of run, RPC commands, lower bdevs; extends `BdevLifecycle` | `MCApplication` |
| `ApplicationProofs` | theorems about `BdevLifecycle` and `Application` | tlapm |
| `TcbRegistry` | registry of blocks, cache of each reactor, thread-local storage | `MCTcbRegistry` |
| `TcbRegistryProofs` | theorems about `TcbRegistry`, its refinement among them | tlapm |
| `ThreadLocal` | what thread-local storage promises (abstract) | implemented by `TcbRegistry` |

### Executor

One action is what happens on the thread between two points where other code of
the thread can run. `inbox` is SPDK's message queue, `runq` and `tcb` the thread
control block, `stack` the tasks being polled (spawn_local polls the new task
inside its caller, so polls nest), `state` the task states of lib.rs:2120-2126.
`Wake`, `Shutdown` and `CompleteFut` are operators because the code calls them
from several places; each action makes the whole call. The body of a future is
abstract: it submits I/O, awaits it, wakes itself, completes a future, stores a
TLS value, and returns Ready or Pending.

Assumptions. The thread is alone on its reactor, so `Tcb::current()` returns the
block it created (`TcbRegistry` has several of both). A body returns Ready only when the I/O it submitted is over,
which `LbdevIoFuture` demands (lib.rs:2350). With `Join = FALSE` a body asks one party at a time
to wake it, as every async function of the repository does; `asked` records it. With
`Join = TRUE` TLC finds `NeverResumed` violated: a notified task goes back on the queue as
Idle (lib.rs:2165-2168), where a second waker queues it again.

Exit is requested at any moment, by a caller that knows nothing of the tasks.
`late` is a history variable, the tasks that may be woken when it is too late: those
that wait for an answer when the exit begins, and those spawned locally after that.
The run `executor_exit` shows what they do. An exit also drops what is on the run queue
(lib.rs:2074): a future spawned just before `request_exit`, as in README.md:260-264, may
never be polled, and nothing is promised of it here.

### LbdevIo

`done`, `success` and `waker` are the fields of `LbdevIoCtx` and its `IoFuture`,
`dev` is what the lower bdev did. Callbacks run only while the task does not
(same thread; SPDK defers a completion that would come during submission).

lib.rs:2324-2325 says that a context may be used again after its I/O, and a batch may keep
the contexts of the one before (`Reuse = TRUE` in `lbdev_io`; the theorems have both). Then
`done` is still set, and the future of the second I/O returns the first one's outcome at
once (lib.rs:2328), with its own I/O in flight. `before` is a history variable, the outcome
of the I/O a context served before: `OwnResults` says that a future returns its own outcome
or that one, so that a new context is enough for the right outcome. With the second I/O
still in flight the task may end the batch; what the late callback then writes to is not
modelled (`Left`). The repository's code makes new contexts for each batch
(raid5.rs:534-537 says why).

### TcbRegistry and ThreadLocal

A reactor runs the code of one thread at a time; what several reactors share is
the registry, and so one action goes from one lock of the registry to the next.
`Call` is a get, set or clear of a key up to the look-up in the reactor's cache,
`ReadRegistry` and `WriteRegistry` are current_slow under the two locks (with
Tcb::new under the second), and `Get`, `Set` and `ClearKey` the rest. The poller
of a block that finds its thread exiting runs `PollExit`, one `Clear` and
`Cleared` for each slot, during which drop code may read another key and so look
the block up again, and `Remove`. `Create`, `Move`, `RequestExit` and `Destroy`
are SPDK's: ids are never used again, addresses are, and any idle thread may be
moved at any moment.

`ThreadLocal` is the comment of lib.rs:1762-1766 as a specification: a value is
its thread's own, and stays until that thread replaces it, clears it, or has
been asked to exit. In the refinement a thread's value is what the registry's
block of it holds and has not been dropped; `ReadsStored` adds that what a
reactor has found is that block, though it came from a cache.

`LateSets = FALSE`: an exiting thread stores nothing. The code allows it and then
loses the value: a key set after clear_all has passed its slot, or after
shutdown, when `current` makes a new block without anybody to shut it down. With
TRUE TLC finds `DroppedOnce` violated; the values of this repository are stored by
running threads only. A key of `TlsKey::new` shares the slot of the first keys of
`alloc` (lib.rs:1829), which needs no interleaving; keys come from `alloc` here.

### Raid5Layout, IoSplit and StripIo

`Raid5Layout` is the closed form: stripe, disk, offset, parity disk. `IoSplit` is
the loop of split_strips with the splitter, one iteration a step; `Placed`
compares each strip with the closed form. `StripIo` goes on when the loop is
done: it reads the strips, one of them perhaps from a lost disk, or writes them, in
full or in part (one of the reads of a partial write may be lost as well), and works
on every byte of buffers and disks. A byte is the set of the bytes it is the sum of. `Restored` and `Written` say what a user sees
of all this arithmetic, and need every offset in it to be right: those of the
splitter, of `xor` on a part of a buffer, of `copy_from_slice`, of the parity's rows.
The loops over the strips and over the pieces of a view are recursive functions of how far
they are (`XorInto`, `XorAll`, `CopyFromSlice`, `ReadAll`, `NewParity`), with one operator for
the body of each (`XorPiece`, `CopyPiece`, `ReadInto`, `AddStrip`).
`SizesMatch` is what `xor` and `copy_from_slice` assert of the sizes they are given.
`Raid5` then uses the closed form, block by block, for what may interleave and fail.

### Raid5 and StripeStore

A request is `sent` in the inbox of the worker that owns its stripe, `queued` in the stripe's
queue, in one of the phases of its I/O, or `done`. `turn[w]` is the stripe whose
queue the worker is draining at the moment, between two awaits; `draining[s]` is
the existence of the stripe's entry with its flag. `io[r][d]` is the one lower I/O of
the request on disk `d` in this phase. A block holds a set of tags and XOR is
symmetric difference, which is exact: an old value left in the parity shows up
as a tag too many. `store` is a history variable, what the blocks hold for the
users: it is set when a write is answered.

Abstractions, each a simplification of the data and not of the control:

- The worker's message queue and its run queue are one FIFO (`inbox`): both are
  FIFO and the task of a message is appended to the run queue in message order.
- The answer is counted when the worker sends it (`complete_on`); the message back to
  the submitter only delays it.
- A refused lower I/O is a failed one: `LbdevIo` shows that the future cannot tell.
- A lower write that fails leaves its blocks as they were, here and in `Raid1`.
- A write with one failed data disk is answered with Failure, as the code does and
  not as its comment says ("1 failed data disk -> Success (degraded stripe)",
  raid5.rs:703). `StripeStore` has the code's answer, so that `Implements` can speak of
  what the blocks hold; `WritePolicy` is the comment, and `raid5_policy` refutes it.
- Once an I/O has outlived its buffers (`orphan`) the model stops: nothing can be
  said of memory that has been freed.
- SPDK refuses the types that io_type_supported denies before submit_io, so only
  reads and writes arrive, and the answers of process_req to other types
  (raid5.rs:252-253) are out of reach. It splits I/O at stripe boundaries when the bdev asks
  it to; the branch that refuses an I/O across stripes is modelled all the same.
- The order of the tasks of one worker that are ready at the same time is free:
  a superset of the executor's FIFO.

Faults. A disk may die for good (`Die`); a disk that works may fail a read or a
write; the process may crash at any moment (`Crash`), which takes all requests
away (`gone`) and leaves on the disks what has arrived there: the array is then
made again on the same children. The code keeps no record of any of these and
README.md:185 promises neither crash consistency nor failure tracking. `torn` is
our record: the stripes whose parity may be out of step with the data, because
only some disks of a write were written, or because nobody ever wrote the
parity (`Unsynced`: the code does not initialise a new array, raid5.rs:843). It
lets the properties say how far the damage goes: no other stripe, and in
this one no block but those being written, until a disk is lost as well. A write of the
whole stripe mends it.

`StripeStore` is the promise: blocks with values, one queue for each stripe, the head
of a queue answered in one step. A read returns the store; a failed write leaves
old or new in each of its blocks; a read fails after two disk faults, a write
after one. A write that a disk missed, or that a crash cut short, makes its
stripe `weak`, and there a disk fault costs the blocks of one disk. The refinement
mapping takes `queue` from the request in service, the stripe's queue and the
inbox, `result` from the buffers and `weak` from `torn`.

### Raid1

Any number of reads and writes are under way, on any channels. A child may die for good,
fail a read, or fail or refuse a write and go on working (`Fail`). The bdev keeps no record
of any of it: a write succeeds if one child took it (raid1.rs:144), and later reads go
round-robin to all of them.

`last` and `window` are history variables: the last write of a block to succeed,
and the values a read may return (the last one when it starts, or one written
while it lasts: a regular register). Writes of a block do not overlap, as users
of a disk see to. Three more history variables say how far the damage goes:

- `stale`: which child has missed the last successful write of which block. A child that
  takes a later write of the block is up to date again. What has missed nothing is a mirror
  (`Mirrored`), and one such child is always left.
- `misled`: the reads that a stale child answered. Such a read may return an old value, but one
  that was acknowledged, and never that of a write which failed everywhere
  (`ReadsFresh`). Stale reads do happen: one child of two fails a write and serves the next read.
- `crowded`: the reads which another read of their channel has overtaken in next_read
  while they were under way. All other requests fail only if every child
  failed them (`FailsOnlyIfAllFail`); for these `raid1_shared` refutes it (`AllDisksFailed`).

### BdevLifecycle

`registry` is `BDEV_REGISTRY`, `spdk` SPDK's own table of bdevs, `stage` how far
each bdev has come:

    unused -> registering -> live -> removing -> unlinked -> destructing -> gone
    unused -> registering -> failed -> gone    (spdk_bdev_register refuses)
    unused -> gone                             (name known, or no memory)
    unused -> leaked                           (an option is refused late)

RPCs and what SPDK does after an unregistration run on the application's thread.
An RPC is one action up to its answer, except where something outside can be
seen in between: `Create_Register`, then `Create_Done` or `Create_Failed`, then
`Create_Return`, because the workers run as soon as init has sent them their
task; `Unlink`, `Destruct` and `CtxDrop` for the same reason. `Busy` keeps the
other RPCs out meanwhile. `DropBdev` is `Drop` for `Raid5Bdev`, which runs when
the last Arc goes and asks each worker to exit. Each worker of each RAID5 bdev
has its messages (`inbox`), its channel (`chan`, the slot `IOCH_TLS`), and one
request in service (`io`). A worker that finds the message of exit in its inbox
drops the tasks it has, as `Executor` shows for one thread.

`fault` stops the model: `no_channel` is the `expect` of raid5.rs:176, `null_bdev`
the one of lib.rs:1120, `no_child` the one of raid5.rs:153 (a lower bdev is
gone), `freed_context` a callback that goes through a BdevCtx already freed. What such a callback reads is not determined, so `InitTask` may
also go on as if the memory still held the context. The first cannot happen
(`IoFindsChannel`, also a theorem). The others can:

- `null_bdev`: a bdev may be deleted before a worker has run the task of init; its
  `spdk_get_io_channel` finds no I/O device in the window between bdev.c:46 and the
  message of exit.
- `freed_context`: when `spdk_bdev_register` fails (bdev.c:120), the I/O device
  stays registered, and the context it points to is dropped.
- `no_child`: a lower bdev that no channel holds may be removed between the
  creation of an array and the moment a worker or a user opens its channel.

Another one is not a fault: when an option is refused after the registry took
the bdev (raid5.rs:874), its entry stays, and a later deletion of that name
deletes the bdev of another module that has it (`Delete`), where lib.rs:1409
says that only Rust bdevs are deleted. No property excludes it. Its workers run until the application ends,
when SPDK's reactors make the threads exit that still run (`ReactorExit`).

Abstractions:

- A build without debug assertions, in which a BdevCtx with a null `spdk_bdev`
  is dropped quietly.
- A user is a descriptor and a channel of a bdev; one is enough to hold a
  deletion up. The users' I/O goes to one worker and comes back; what it does on
  the way is `Raid5`.
- An RPC that fails its first checks changes nothing and is no step.
- Here a lower bdev may be missing at any time (`no_child`); `Application` says when
  it is.
- A foreign bdev is deleted in one step: nothing of ours hangs on it.

### Application

`Application` extends `BdevLifecycle` with what surrounds it. `app` is how far the
program is:

    main -> starting -> running -> stopping -> reactors -> returned

`RegisterCmd` is the constructor that rpc_register! runs before main, `Run` is
run_spdk_app with each of its early returns, `Started` and `Shutdown` are the two
callbacks of app.rs, `RpcCreate` and `RpcDelete` the look-up of a command and its
handler. `list` is SPDK's list of bdevs, ours and the lower ones, which decides
in which order they go. `Holders(d)` are the arrays that keep a descriptor of
lower bdev `d`: each channel of an array opens one (raid5.rs:153).

What SPDK does is modelled from its use, and is external: RPCs are served between
start and stop; the shutdown callback is called once; when the application
stops, the users of the bdevs end first; then the bdevs are unregistered one
after the other, the last registered first, and a lower bdev goes when its last
descriptor is closed (`Finish`); then the reactors make the threads exit that
still run (`StopThreads`), and `spdk_app_start` returns. After five seconds SPDK
gives up on a thread that was asked to exit and still holds a channel or a poller; this
is left out, here and in `Executor` and `TcbRegistry`.

`StopEnds` has a precondition. rs_bdev_event_cb ignores the removal of a lower
bdev (bdev.c:158). If one goes and comes back after an array was made and
before its workers opened it, it is behind the array in SPDK's list; at the end
SPDK then waits for the descriptors that the array's workers hold, before it
comes to the array whose removal would close them, and the application
never ends: TLC finds it when `Ordered`, which says that no array that lives is in this
position, is taken out of `StopEnds`.

## 3. Runs

Seven runs pass, five show a disagreement between the code and what it says.

| Run | Question | Bounds and why they are enough |
|---|---|---|
| `executor` | Are wake-ups kept, tasks queued once, does an exit end, and what must have happened for shutdown to miss its block? | two tasks, three futures (two on one task: one may complete while the other is awaited), two self-wakes: every pair of task states meets every kind of wake, and exit comes in each of them |
| `lbdev_io` | Does every future return its own outcome and every batch end? | two batches of four I/Os, each refused, failed or completed in any order, with new contexts or kept ones: a kept context is met before, at and after the end of its second I/O |
| `strip_io` | Does the splitting loop compute the layout, and do reads, recovery, sums of parity and writes move exactly the bytes of the request? | every range of a stripe of four disks with strips of two blocks of two bytes, every parity disk, all scatter-gather lists of up to three buffers, empty ones included; deterministic after that but for the disk that is lost |
| `raid5` | Is parity consistent and the promise kept with concurrent requests, faults and crashes, and is everything answered? | two requests, to one stripe or to two stripes of two workers, with rotated parity: reads of a whole stripe, reads across the stripes, writes of a part of one strip, of two strips and of a whole stripe; any two of a dead disk, a read error, a write error and a crash (`MaxFaults`), each once at most, for two faults defeat the code; the first stripe may start torn. The second request meets the first in service, in the queue, on its way and on another worker; the order of three or more in one queue is proved, not run |
| `raid1` | Are reads fresh, mirrors equal, failures justified, whatever the children miss, and is everything answered? | two children that may both die, one channel, three requests, one read error, one write error: a child may miss a write, be the only one left and take a later one, and reads overtake each other; channels share only the children, and more children only make the loop longer: the theorems have any number of both |
| `application` | Do the two tables agree, do requests find their channel, is no request lost, does every removal end, and does an application that is told to stop end with nothing left? | two creations of one name (the second meets the first at every stage of its life), valid and refused arguments of both kinds, two workers, one foreign bdev, one user for each bdev, one lower bdev that goes and comes back once; a kilobyte is 4 bytes and u32 wraps at 32, so that a strip size can wrap |
| `tcb_registry` | Does a thread find its own block and its own values on every reactor, are values dropped once, does a thread asked to exit go? | two reactors, two threads of which the second may have the address of the first, two keys and two values, three blocks: a stale cache and a reused address both occur |
| `executor_exit` | Does shutdown find its block, as lib.rs:2084 asserts, whenever exit comes? | violated: one task that waits for one future |
| `raid5_orphan` | Are all futures awaited before their contexts go, as lib.rs:2350 demands? | violated by reconstruct, after two faults |
| `raid5_dma` | Does the full-stripe write keep its buffers until the write is over? | violated: with `LateDma` the lower bdev reads a freed buffer |
| `raid5_policy` | Is a write answered as the comment of raid5.rs:700-705 says? | violated: one dead data disk |
| `raid1_shared` | Does a read fail only if all disks fail, as raid1.rs:116 says, when reads share a channel? | violated: two reads, one dead child |

Each of the five uses the smallest instance that shows its case. The passing run of the
same module says what holds all the same, and which history is needed for what does not.

Deadlock checking is off: in every module a behaviour may end, when every request
has been answered, the thread has exited, the application has returned, or all that
was to be spawned is done.

**Bounds.** `MaxYields`, `Rounds`, `MaxIovs`, `MaxDead`, `MaxReadErrors`,
`MaxWriteErrors`, `MaxCrashes`, `MaxFaults`, `MaxRemovals`, `MaxThreads`,
`MaxBlocks` and `MaxValues` bound counters that have no bound in the code.
Requests, futures, values and each of `Bdevs` are used once. In the proofs they are any numbers
and sets.

No run uses symmetry, which would not be sound for liveness.

**Fairness.** A reactor keeps handling messages and running pollers and a poll of
a future does not block: weak fairness of `Handle`, `Poller`, `Body`, of each
worker and of each task that may go on. A lower bdev answers what it accepted, with
success or failure: weak fairness of each completion. The application's
thread runs to the end of its RPC or destructor (`Proceed`) and the workers of a
bdev are polled (`Work`); weak fairness is enough for `Unlink` and `Destruct` too,
which wait while another RPC is `Busy`: an RPC ends, and there are as many
creations as `Bdevs`. In `Application` SPDK also goes on stopping (`AppProceed`), and users
and foreign bdevs go once the application stops, for SPDK's subsystems end
before the bdevs do. Otherwise nothing is assumed about new requests, exits,
faults, users or deletions. Weak is enough because nothing but its own
execution disables a completion, a message or a ready task. The exception is
`Poll` of `TcbRegistry`: a thread is not polled while a reactor runs other code of it, and SPDK
may move it at any moment, so the poll is disabled again and again; a reactor
polls each of its threads in turn, and strong fairness says that SPDK's moves do
not for ever keep a thread from its turn.

## 4. Proofs

`tlapm` proves, for every value of the constants:

| Theorem | States | Rests on |
|---|---|---|
| `TypeCorrect` | `Spec => []TypeOK` of `Executor` | nothing else |
| `WakeupsAreKept` | `[]NoLostWakeup` | `WakeupInv` |
| `QueuedAtMostOnce` | `[]QueuedOnce` | `OnceInv`, `Join = FALSE` |
| `NeverPolledAgain` | `[]NeverResumed` | `OnceInv`, `Join = FALSE` |
| `ShutDownOnce` | `[]ShutdownOnce` | `ExitInv` |
| `BatchTypeCorrect` | `[]TypeOK` of `LbdevIo` | nothing else |
| `ResultsAreOwn` | `[]OwnResults` | `CtxInv` |
| `SuspendedIsWoken` | `[]WillBeWoken` | `CtxInv` |
| `LifecycleTypeCorrect` | `[]TypeOK` of `BdevLifecycle` | `MsgInv` |
| `TablesAlwaysAgree` | `[]TablesAgree` | `TablesInv` |
| `RequestsFindChannel` | `[]IoFindsChannel` | `UseInv`, `MsgInv`, `ChanInv` |
| `NoRequestLost` | `[]NoneLost` | `UseInv`, `MsgInv` |
| `ArraysOnChildren` | `[]OnChildren` | `ValidInv`, arithmetic of the strips |
| `ApplicationImplementsLifecycle` | `AppSpec => Spec` | step refinement |
| `ApplicationTypeCorrect` | `AppSpec => []AppTypeOK` | `LifecycleTypeCorrect` |
| `ApplicationTablesAgree` | `AppSpec => []TablesAgree` | `TablesAlwaysAgree` |
| `ApplicationFindsChannel` | `AppSpec => []IoFindsChannel` | `RequestsFindChannel` |
| `ApplicationLosesNone` | `AppSpec => []NoneLost` | `NoRequestLost` |
| `ApplicationOnChildren` | `AppSpec => []OnChildren` | `ArraysOnChildren` |
| `ApplicationLeavesNothing` | `AppSpec => []NothingLeft` | `StopInv`, `MadeInv` |
| `RegistryTypeCorrect` | `[]TypeOK` of `TcbRegistry` | `Safe` |
| `EntriesMatch` | `[]RegistryMatches` | `Safe` |
| `ValuesDroppedOnce` | `[]DroppedOnce` | `Full`, `LateSets = FALSE` |
| `ReadsOwnValues` | `[]ReadsStored` | `Full`, `LateSets = FALSE` |
| `StorageKeepsPromise` | `TcbRegistry` implements `ThreadLocal` | `Full`, `LateSets = FALSE` |
| `Raid1TypeCorrect` | `[]TypeOK` of `Raid1` | nothing else |
| `ChildrenMirror` | `[]Mirrored` | `Inv` |
| `ReadsAreFresh` | `[]ReadsFresh` | `Inv` |
| `FailsAfterAll` | `[]FailsOnlyIfAllFail` | `Inv`, `TriedInv` |
| `Raid5TypeCorrect` | `[]TypeOK` of `Raid5` | `QueueInv` |
| `LayoutIsExact` | the layout of `Raid5Layout` is one to one and leaves parity its disk | division with remainder |
| `StripesServedInTurn` | `[]OneDrainer` | `QueueInv` |
| `StripesRedundant` | `[]Redundant` | `RowInv`, `LateDma = FALSE` |
| `StripesKeepPromise` | `Raid5` implements `StripeStore` | `StoreInv`, `LateDma = FALSE` |
| `StripsPlaced` | `StripSpec => []Placed` of `IoSplit` | `SplitInv` |
| `SplitTypeCorrect` | `StripSpec => []TypeOK` of `IoSplit` | `SplitInv` |
| `StripTypeCorrect` | `StripSpec => []StripTypeOK` | `BytesInv` |
| `ReadsRestore` | `StripSpec => []Restored` | `BytesInv` |
| `WritesKeepParity` | `StripSpec => []Written` | `BytesInv` |

`NoLostWakeup` is not inductive: a body that returns Pending could have asked
nobody. `WakeupInv` adds that a task on the stack is Running or Notified, that a waker
is only left in a pending future of its own task, and that whoever asked to be woken is notified or has
left its waker in a future still to complete. `OnceInv` adds that a
queued task is Notified or has just been spawned and asked nobody, so a second wake-up finds
nobody to queue. `ExitInv` says that as long as nobody may be woken too late (`late` is empty)
a thread that is exiting polls no task and no future holds a waker, so only the poller
can notice the exit, and it is unregistered when it has. `CtxInv` says that
a future is done exactly if its I/O is over or its context served one before, with the
outcome of the last that is over in `success`.

The theorems about `BdevLifecycle` rest on one invariant of four parts.
`TablesInv` ties both tables to the stages: a bdev in use has the registry's entry of
its name, so two of them never share a name and removing an entry by name, as
CtxDrop and the failed creation do, removes no other's; SPDK's entries are the
bdevs that live or are being removed. `UseInv` says that only a bdev
that lives, or is being removed, has users, and that requests are at
workers only while there is a user. `MsgInv` gives the order of a worker's messages: the task
that opens the channel is first, the message of exit last, and a request is there exactly when
`io` says so. `ChanInv` says that until the bdev is
unlinked each worker has its channel open or the task that opens it at the
head of its inbox (`Ready`), unless a fault has ended the process. `NoRequestLost`
and `RequestsFindChannel` then hold because exit is sent only by the last Arc, when the
users are gone, and requests queue behind the task of init.

`Application` takes each step of its bdevs as a conjunction of an action of
`BdevLifecycle` with what SPDK's list and the phase of the application allow, so
`ApplicationImplementsLifecycle` shows, action by action, that every step of the application is a step of
`BdevLifecycle` or leaves its variables alone. The invariants carry over; only
the types of the application's own variables are proved anew.

`MadeInv` adds what the tables mean for what is left behind: an entry of the
registry is of a bdev in use or of one that leaked, under its own name
(`NameInv`); an open channel has a running worker (`ThreadInv`); a bdev was made
from arguments that passed the checks (`ValidInv`), from which `OnChildren` follows
by arithmetic alone, whatever the sizes and even if the strip size wrapped.
`StopInv` follows an application to its end: SPDK's list has every bdev that is
not unregistered, so the list is empty only when none lives; no creation is under
way once the application stops, because the shutdown waits for the RPC; no bdev is
left when the reactors stop and no thread when run returns.

**TcbRegistry.** `Safe` ties what is spread over threads, reactors and the registry:
an address in use has one thread (`ThreadInv`), a reactor's code belongs to a thread
that is not idle (`CodeInv`), an entry of the registry is the block of the thread
that has its address now (`IndexInv`, `BlockInv`). `Full` adds the caches:
a cache may be stale, but what it holds under the id of a thread that is still
there serves that thread (`CacheInv`), because ids are not used again; `ClearInv` and `ValueInv` say that a value is in one slot, or
taken out of it and on its way to be dropped, or dropped, and that a block that was
removed is empty. `LateSets = FALSE` is needed: a value stored while
the thread exits is lost.

**Raid1.** Between requests a block is the same on all children that have not missed its
last write; while a write is under way such a child has the value before or the one
written, and has the new one as soon as it has taken it (`MirrorInv`). A write that
succeeds makes those children stale which have failed it, and clears those which
have not, so one is always left. `KnownInv` is for the stale ones: what they hold was
acknowledged once, or is a write under way, because a write that failed everywhere was taken
by none. `WindowInv` says that every value a running read can meet is in its window, unless a
stale child has answered it. `TriedInv` says which children a read has failed on:
as long as no other read of its channel moves `next_read` it goes round, so after as
many failures as children it has tried each. None of these theorems assumes
anything about who fails or how many reads a channel carries.

**Raid5.** `QueueInv` is what keeps a stripe to one request: a request is in one
place only (`InboxInv`, `PendingInv`), a worker drains at most one stripe between two
awaits (`TurnInv`), and `OneDrainer`. `RowInv` says what is known of the data at each
phase of a request: what it has read is what its disk holds (`GotInv`), the
buffer of reconstruct is the XOR of the disks that have answered so far
(`RebuildInv`), and during the writes each disk holds the new block if its I/O is over
and the old one if it is not, while the parity buffer holds the XOR of the row as it will be
(`WriteInv`). A stripe at rest satisfies `IdleInv`, of which `Redundant` is the
consequence for readers; whether a finished write settles its stripe as new or old, disk
by disk, is the content of the lemmas `SettledNew`, `SettledOld` and `SettledIdle`. That
the parity is right rests on three lemmas about symmetric differences of any number of
sets: one of them is the XOR of the others and of the sum (`XorRecover`), replacing some
changes the sum by old and new (`XorUpdate`), and so the new parity of a partial write (`NewParity`). `LateDma = FALSE` is
needed: `raid5_dma` shows it.

**Raid5 implements StripeStore.** Each step of the bdev is a step of the promise or one it
does not see: `Submit` of a user is its `Submit`, a death or a failed read its `Fault`,
a failed write on a disk that works its `LostWrite`, and an answer its `Answer`; messages,
the start of a task, awaits and completions that succeed are stutters (`MapNext`). The
proof has two sides.

- The order. The promise's queue of a stripe is the request in service, then the stripe's
  `pending`, then what of the worker's inbox is for this stripe (`Select`). A request
  that is received moves from the last part to the middle one, and from there into
  service, and its place does not change (`QueueRunSubmitted`); a worker takes the head
  (`QueueInv` says that nobody is in service then); only an answer and a crash take a
  request out. This is where a bdev that served its requests out of order would fail.
- What an answer says. `StoreInv` adds to `RowInv`, for each request: it has a shape
  once it is submitted and a disk is only lost after a failed I/O (`NoteInv`); every disk that it
  could not read or write is dead or has been counted as a fault (`BlameInv`), so
  that a request which fails does so for the reason that the promise asks for; and a read that
  rebuilds a block of a stripe that is not torn holds the XOR of what the disks hold
  (`FreshInv`), where `RebuildInv` of `RowInv` only speaks of a sound stripe. In a torn
  one the blocks of the lost disk may be wrong, and of that one only, which is what
  `ReadDone` of the promise allows.

**IoSplit.** `SplitInv` says how far the loop is (`Progress`: what the strips carry is
what is cut of the request, in blocks, in bytes and as an offset in the stripe) and
where each strip is (`StripAt`: it begins where the strips before it end, and stays in one
strip of the stripe). `Placed` follows by division with remainder. That no take runs short
is `SliceComplete`: along the list, what is left to skip and to take depends only on the
bytes behind (`CutAt`), so a cut that the list has the bytes for ends with nothing left
to take, however the list is divided and even with empty buffers.

**StripIo.** `BytesInv` adds to `SplitInv` that the disks hold `Stored` until the request
is done, that the memory is the request's, and that buffers keep their sizes; then
`Restored` and `Written`. The work is in the one step that reads or writes, and has three parts:

- The places. When the loop is done each byte of the request is in one strip, at one
  place of its view, and each place of a view is one byte of the request (the views of the
  strips, one after the other, are the list of the request's bytes, and no byte of memory
  is in that list twice). With `StripAt` the place in the disk's strip follows by division with
  remainder.
- The loops. Each recursive function is shown to have a solution, and an induction over
  its steps says what it computes: `xor` adds to each byte of the buffer the byte of the
  view at the same place, whatever the pieces; on a part of a buffer it leaves the rest alone;
  `copy_from_slice` brings byte `n` of the data to byte `n` of the view; and the
  reads of the strips do not undo each other.
- The sums. `XorRecover` gives the recovered bytes of a read, and of the old data or the old
  parity of a partial write. A full write adds up one byte of
  each strip, which is the XOR over the data disks. A partial write adds to
  the old parity the old and the new byte of each strip that has this place, and `XorChange`
  says, strip by strip, that this is the XOR of the disks as they are afterwards.

**Induction.** What a recursive function returns is proved by induction, and the induction
theorems of the library take an operator, which cannot be used here. `CommonFacts` proves induction over
the natural numbers as a statement about sets (`SetInduction`), from the library's
theorem on minimal elements of a well-founded relation. `Raid5Proofs`
derives from it that `Select` exists and what it does at both ends of a queue
(`SelectAppend`, `SelectTail`), `StripIoProofs` what sums, cuts and the loops over bytes
compute. The proofs are laid out with one step per action.

Every invariant of the runs that pass is proved, and so are both refinements, as far as safety goes.
Only model-checked: liveness (`WokenIsPolled`, `ExitCompletes`, `BatchesEnd`, `Answered`,
`RemovalEnds`, `StopEnds`, `ExitEnds`), which is outside what TLAPS proves here, as is ENABLED.

## 5. Not modelled

- Bindings (`ffi_docsrs.rs`, generated, 1959 lines; `c.rs`, declarations), build
  scripts and benchmarks: no state of their own.
- Formatting, logging, and the parsing of JSON and options: an RPC's
  arguments arrive as a record, with a flag for an option that does not parse.
- The cores a `CpuSet` allows: `Create` and `Move` of `TcbRegistry` leave the choice to
  SPDK. `TlsKey::alloc` past the last slot, which panics.
- Allocation failures, which are an `expect` in the code; DIF and metadata.
- `IoRef::to_buf`, which nothing calls; clones of a channel, which only count
  references.
- Removal of a lower bdev while a channel holds it, other than waiting: SPDK does
  not take it away before its last descriptor is closed.

## 6. Plan

1. Done: all modules of section 2; proofs of every safety property that a passing run
   checks, and the refinements of `ThreadLocal` and `StripeStore`.
2. Not begun: the bytes of a write whose disks fail while it writes, which `Raid5` has block
   by block; drop code that stores values of its own thread.
