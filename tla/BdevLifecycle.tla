---------------------------- MODULE BdevLifecycle ---------------------------
(***************************************************************************)
(* Creation and deletion of the RAID bdevs: the registry of names and      *)
(* BdevCtx of ironspdk/src/lib.rs, the callbacks of c_src/bdev.c, the RPC  *)
(* rs_raid5_create and rs_raid1_create, and the workers of a RAID5 bdev    *)
(* with their I/O channels.                                                *)
(*                                                                         *)
(* RPCs, and what SPDK does after an unregistration, run on one thread,    *)
(* the application's; the workers and the users of the bdevs run beside    *)
(* it. A build without debug assertions is modelled (see Create_NoMem).    *)
(***************************************************************************)
EXTENDS Naturals, Sequences, Functions

CONSTANTS
  Names,     \* names of bdevs
  Bdevs,     \* bound: one per RPC of creation that passes its first checks
  Workers,   \* the cores, each with a worker of every RAID5 bdev
  NoBdev,    \* no bdev has the name
  Foreign,   \* a bdev not made here has the name
  Disks,     \* lower bdevs
  BlockLen,  \* bytes of a block of each lower bdev
  Blocks,    \* blocks of each lower bdev
  Requests,  \* arguments of RPCs of creation
  NoRequest, \* a bdev not created yet has none
  KB,        \* 1024
  U32        \* 2^32

ASSUME LifecycleAssumption ==
  /\ Bdevs # {} /\ NoBdev \notin Bdevs /\ Foreign \notin Bdevs
  /\ NoBdev # Foreign
  /\ BlockLen \in [Disks -> Nat] /\ Blocks \in [Disks -> Nat]
  /\ KB \in Nat \ {0} /\ U32 \in Nat \ {0}
  /\ Requests \subseteq [name : Names, kind : {"raid1", "raid5"},
                         children : Seq(Disks), strip_size_kb : Nat,
                         opts_ok : BOOLEAN]
  /\ NoRequest \notin Requests

VARIABLES
  registry,  \* BDEV_REGISTRY
  spdk,      \* SPDK's table of bdevs
  stage,     \* how far each bdev is
  req,       \* the arguments it was created with
  device,    \* is it registered as an I/O device?
  user,      \* does somebody hold a descriptor and a channel of it?
  worker,    \* the threads of a bdev: none, running or exited
  inbox,     \* their messages
  chan,      \* IOCH_TLS of each worker: none, open or closed
  io,        \* the request at each worker: idle, sent, active or lost
  fault      \* the panic, or the use of freed memory, that ended the process

bdevVars   == <<registry, spdk, stage, req, device>>
workerVars == <<worker, inbox, chan, io>>
vars == <<bdevVars, user, workerVars, fault>>

Stages == {"unused", "registering", "failed", "live", "removing", "unlinked",
           "destructing", "gone", "leaked"}
Messages == {"init", "io", "exit"}
Faults == {"none", "no_channel", "null_bdev", "freed_context", "no_child"}

Types ==
  /\ registry \in [Names -> Bdevs \cup {NoBdev}]
  /\ spdk \in [Names -> Bdevs \cup {NoBdev, Foreign}]
  /\ stage \in [Bdevs -> Stages]
  /\ req \in [Bdevs -> Requests \cup {NoRequest}]
  /\ device \in [Bdevs -> BOOLEAN]
  /\ user \in [Bdevs -> BOOLEAN]
  /\ worker \in [Bdevs -> [Workers -> {"none", "running", "exited"}]]
  /\ inbox \in [Bdevs -> [Workers -> Seq(Messages)]]
  /\ chan \in [Bdevs -> [Workers -> {"none", "open", "closed"}]]
  /\ io \in [Bdevs -> [Workers -> {"idle", "sent", "active", "lost"}]]
  /\ fault \in Faults

\* Types, and never more than two messages for a worker: it is asked once to
\* open its channel and once to exit (raid5.rs:116-138).
TypeOK == Types /\ \A b \in Bdevs, w \in Workers : Len(inbox[b][w]) <= 2

All(x) == [b \in Bdevs |-> [w \in Workers |-> x]]

Init ==
  /\ registry = [n \in Names |-> NoBdev]
  /\ spdk = [n \in Names |-> NoBdev]
  /\ stage = [b \in Bdevs |-> "unused"]
  /\ req = [b \in Bdevs |-> NoRequest]
  /\ device = [b \in Bdevs |-> FALSE]
  /\ user = [b \in Bdevs |-> FALSE]
  /\ worker = All("none") /\ inbox = All(<<>>)
  /\ chan = All("none") /\ io = All("idle")
  /\ fault = "none"

-----------------------------------------------------------------------------
(* What an RPC of creation asks for                                        *)

\* parse_children: lower bdevs of one block length and one size.
ChildrenAgree(r) ==
  /\ r.children # <<>>
  /\ \A d, e \in Range(r.children) :
       BlockLen[d] = BlockLen[e] /\ Blocks[d] = Blocks[e]

ChildBlockLen(r) == BlockLen[Head(r.children)]
ChildBlocks(r)   == Blocks[Head(r.children)]

\* parse_strip_size: the bytes wrap around in 32 bits.
StripSize(r)   == (r.strip_size_kb * KB) % U32
StripBlocks(r) == StripSize(r) \div ChildBlockLen(r)

Valid5(r) ==
  /\ Len(r.children) >= 3
  /\ ChildrenAgree(r)
  /\ ChildBlockLen(r) # 0
  /\ StripSize(r) # 0 /\ StripSize(r) % ChildBlockLen(r) = 0

Valid(r) == IF r.kind = "raid5" THEN Valid5(r) ELSE ChildrenAgree(r)

\* Mutant: the last part of a strip counts.
BlockCnt_Unrounded(r) ==
  IF r.kind = "raid1" THEN ChildBlocks(r)
  ELSE (Len(r.children) - 1) * ChildBlocks(r)

\* opts.blockcnt: whole strips only, and none for parity.
BlockCnt(r) ==
  IF r.kind = "raid1" THEN ChildBlocks(r)
  ELSE (Len(r.children) - 1)
         * ((ChildBlocks(r) \div StripBlocks(r)) * StripBlocks(r))

-----------------------------------------------------------------------------
(* The workers                                                             *)

WorkersOf(r) == IF r.kind = "raid5" THEN Workers ELSE {}

\* Mutant: the loop of init starts at the second worker.
Start_SkipsFirst(b, r, msgs) ==
  LET first == CHOOSE w \in Workers : TRUE
  IN /\ worker' = [worker EXCEPT ![b] =
          [w \in Workers |-> IF w \in WorkersOf(r) THEN "running" ELSE "none"]]
     /\ inbox' = [inbox EXCEPT ![b] = [w \in Workers |->
          IF w \in WorkersOf(r) \ {first} THEN msgs ELSE <<>>]]
     /\ UNCHANGED <<chan, io>>

\* Raid5Bdev::new starts the workers. Init and Drop of the bdev, when they
\* follow in the same RPC, have sent them msgs.
Start(b, r, msgs) ==
  /\ worker' = [worker EXCEPT ![b] =
       [w \in Workers |-> IF w \in WorkersOf(r) THEN "running" ELSE "none"]]
  /\ inbox' = [inbox EXCEPT ![b] =
       [w \in Workers |-> IF w \in WorkersOf(r) THEN msgs ELSE <<>>]]
  /\ UNCHANGED <<chan, io>>

\* Send each worker of b a message.
Post(b, msg) ==
  [inbox EXCEPT ![b] = [w \in Workers |->
     IF w \in WorkersOf(req[b]) THEN Append(@[w], msg) ELSE @[w]]]

\* Mutants: every Arc that goes asks the workers to exit; none does.
DropBdev_EachArc(b) ==
  inbox' = [inbox EXCEPT ![b] = [w \in Workers |->
    IF w \in WorkersOf(req[b]) THEN @[w] \o <<"exit", "exit">> ELSE @[w]]]
DropBdev_NoExit(b) == UNCHANGED inbox

\* Drop for Raid5Bdev, when the last Arc goes.
DropBdev(b) == inbox' = Post(b, "exit")

-----------------------------------------------------------------------------
(* rs_raid5_create and rs_raid1_create. A request that fails its first     *)
(* checks changes nothing.                                                 *)

Name(b) == req[b].name

\* Is the application's thread inside an RPC or a destructor?
Busy == \E b \in Bdevs : stage[b] \in {"registering", "failed", "destructing"}

Begin(b, r, s) ==
  /\ ~Busy
  /\ stage[b] = "unused"
  /\ Valid(r)
  /\ stage' = [stage EXCEPT ![b] = s]
  /\ req' = [req EXCEPT ![b] = r]

\* bdev_registry_add refuses a name it has: the new bdev is dropped.
Create_Exists(b, r) ==
  /\ registry[r.name] # NoBdev
  /\ Begin(b, r, "gone")
  /\ Start(b, r, <<"exit">>)
  /\ UNCHANGED <<registry, spdk, device, user, fault>>

\* Mutant: the entry of the name is overwritten.
Add_Overwrites(b, r) == registry' = [registry EXCEPT ![r.name] = b]

\* bdev_registry_add takes a name it does not have.
Add(b, r) ==
  /\ registry[r.name] = NoBdev
  /\ registry' = [registry EXCEPT ![r.name] = b]

\* An option that does not parse, or a size that overflows, returns early: the
\* context is dropped, and the registry keeps the bdev and so its workers.
Create_BadOpts(b, r) ==
  /\ ~r.opts_ok
  /\ Begin(b, r, "leaked")
  /\ Add(b, r)
  /\ Start(b, r, <<>>)
  /\ UNCHANGED <<spdk, device, user, fault>>

\* u_bdev_alloc has no memory: the context is dropped with a null spdk_bdev
\* (a panic with debug assertions), and the registry forgets the name.
Create_NoMem(b, r) ==
  /\ r.opts_ok
  /\ registry[r.name] = NoBdev
  /\ Begin(b, r, "gone")
  /\ Start(b, r, <<"exit">>)
  /\ UNCHANGED <<registry, spdk, device, user, fault>>

\* u_bdev_register, up to spdk_bdev_register: the I/O device is there, and
\* Raid5Bdev::init has sent each worker the task that opens its channel.
Create_Register(b, r) ==
  /\ r.opts_ok
  /\ Begin(b, r, "registering")
  /\ Add(b, r)
  /\ device' = [device EXCEPT ![b] = TRUE]
  /\ Start(b, r, <<"init">>)
  /\ UNCHANGED <<spdk, user, fault>>

\* spdk_bdev_register succeeds.
Create_Done(b) ==
  /\ stage[b] = "registering"
  /\ spdk[Name(b)] = NoBdev
  /\ spdk' = [spdk EXCEPT ![Name(b)] = b]
  /\ stage' = [stage EXCEPT ![b] = "live"]
  /\ UNCHANGED <<registry, req, device, user, workerVars, fault>>

\* spdk_bdev_register fails, the name being taken: the context is dropped and
\* the registry forgets the name; the I/O device stays, with a pointer to the
\* context.
Create_Failed(b) ==
  /\ stage[b] = "registering"
  /\ spdk[Name(b)] # NoBdev
  /\ registry' = [registry EXCEPT ![Name(b)] = NoBdev]
  /\ stage' = [stage EXCEPT ![b] = "failed"]
  /\ UNCHANGED <<spdk, req, device, user, workerVars, fault>>

\* The RPC returns its error and drops its bdevh, the last Arc.
Create_Return(b) ==
  /\ stage[b] = "failed"
  /\ stage' = [stage EXCEPT ![b] = "gone"]
  /\ DropBdev(b)
  /\ UNCHANGED <<registry, spdk, req, device, user, worker, chan, io, fault>>

-----------------------------------------------------------------------------
(* rs_bdev_delete and what follows it                                      *)

\* Mutant: the workers are asked to exit when the deletion begins.
Delete_ExitNow(n) ==
  /\ ~Busy
  /\ registry[n] # NoBdev
  /\ spdk[n] \in Bdevs /\ stage[spdk[n]] = "live"
  /\ stage' = [stage EXCEPT ![spdk[n]] = "removing"]
  /\ DropBdev(spdk[n])
  /\ UNCHANGED <<registry, spdk, req, device, user, worker, chan, io, fault>>

\* The registry knows the name and SPDK opens the bdev of that name, whoever
\* made it: it is unregistered (a foreign one at once, for short).
Delete(n) ==
  /\ ~Busy
  /\ registry[n] # NoBdev
  /\ \/ /\ spdk[n] = Foreign
        /\ spdk' = [spdk EXCEPT ![n] = NoBdev]
        /\ UNCHANGED stage
     \/ /\ spdk[n] \in Bdevs /\ stage[spdk[n]] = "live"
        /\ stage' = [stage EXCEPT ![spdk[n]] = "removing"]
        /\ UNCHANGED spdk
  /\ UNCHANGED <<registry, req, device, user, workerVars, fault>>

\* The last descriptor is closed: SPDK takes the bdev out of its table.
Unlink(b) ==
  /\ ~Busy
  /\ stage[b] = "removing" /\ ~user[b]
  /\ spdk' = [spdk EXCEPT ![Name(b)] = NoBdev]
  /\ stage' = [stage EXCEPT ![b] = "unlinked"]
  /\ UNCHANGED <<registry, req, device, user, workerVars, fault>>

\* u_bdev_destruct: the I/O device goes,
Destruct(b) ==
  /\ ~Busy
  /\ stage[b] = "unlinked"
  /\ device' = [device EXCEPT ![b] = FALSE]
  /\ stage' = [stage EXCEPT ![b] = "destructing"]
  /\ UNCHANGED <<registry, spdk, req, user, workerVars, fault>>

\* Mutant: the drop of the context leaves its name in the registry.
CtxDrop_KeepName(b) ==
  /\ stage[b] = "destructing"
  /\ stage' = [stage EXCEPT ![b] = "gone"]
  /\ DropBdev(b)
  /\ UNCHANGED <<registry, spdk, req, device, user, worker, chan, io, fault>>

\* then the context, the registry's entry of its name, and the bdev.
CtxDrop(b) ==
  /\ stage[b] = "destructing"
  /\ registry' = [registry EXCEPT ![Name(b)] = NoBdev]
  /\ stage' = [stage EXCEPT ![b] = "gone"]
  /\ DropBdev(b)
  /\ UNCHANGED <<spdk, req, device, user, worker, chan, io, fault>>

-----------------------------------------------------------------------------
(* Users of the bdevs, and the bdevs of others                             *)

\* A descriptor by name, and a channel of the bdev on the user's thread.
Open(b) ==
  /\ stage[b] = "live" /\ ~user[b]
  /\ user' = [user EXCEPT ![b] = TRUE]
  /\ UNCHANGED <<bdevVars, workerVars, fault>>

\* create_io_channel cannot open a lower bdev, which has gone meanwhile.
Open_Fault(b) ==
  /\ stage[b] = "live" /\ ~user[b]
  /\ fault' = "no_child"
  /\ UNCHANGED <<bdevVars, user, workerVars>>

\* Channels are put and descriptors closed only when no I/O is outstanding.
Close(b) ==
  /\ user[b]
  /\ \A w \in Workers : io[b][w] = "idle"
  /\ user' = [user EXCEPT ![b] = FALSE]
  /\ UNCHANGED <<bdevVars, workerVars, fault>>

\* submit_io of a RAID5 bdev spawns a task on the worker of the stripe.
Submit(b, w) ==
  /\ user[b]
  /\ w \in WorkersOf(req[b])
  /\ io[b][w] = "idle"
  /\ io' = [io EXCEPT ![b][w] = "sent"]
  /\ inbox' = [inbox EXCEPT ![b][w] = Append(@, "io")]
  /\ UNCHANGED <<bdevVars, user, worker, chan, fault>>

ForeignAdd(n) ==
  /\ ~Busy
  /\ spdk[n] = NoBdev
  /\ spdk' = [spdk EXCEPT ![n] = Foreign]
  /\ UNCHANGED <<registry, stage, req, device, user, workerVars, fault>>

ForeignRemove(n) ==
  /\ ~Busy
  /\ spdk[n] = Foreign
  /\ spdk' = [spdk EXCEPT ![n] = NoBdev]
  /\ UNCHANGED <<registry, stage, req, device, user, workerVars, fault>>

-----------------------------------------------------------------------------
(* A worker handles its messages. One that finds the message of exit among *)
(* them drops the tasks the others spawned.                                *)

Takes(b, w, msg) ==
  /\ worker[b][w] = "running"
  /\ inbox[b][w] # <<>> /\ Head(inbox[b][w]) = msg
  /\ "exit" \notin Range(inbox[b][w])
  /\ inbox' = [inbox EXCEPT ![b][w] = Tail(@)]

\* The task of Raid5Bdev::init gets a channel of the I/O device, whose callback
\* of creation goes through the context, and keeps it.
InitTask(b, w) ==
  /\ device[b]
  /\ Takes(b, w, "init")
  /\ chan' = [chan EXCEPT ![b][w] = "open"]
  /\ UNCHANGED <<bdevVars, user, worker, io, fault>>

\* There is no I/O device; or its context was freed (in that case the callback
\* may also find the memory as it was: InitTask); or a lower bdev has gone.
InitTask_Fault(b, w) ==
  /\ Takes(b, w, "init")
  /\ \/ ~device[b] /\ fault' = "null_bdev"
     \/ device[b] /\ stage[b] = "failed" /\ fault' = "freed_context"
     \/ device[b] /\ fault' = "no_child"
  /\ UNCHANGED <<bdevVars, user, worker, chan, io>>

\* The task of submit_io gets the channel from its slot.
IoTask(b, w) ==
  /\ Takes(b, w, "io")
  /\ IF chan[b][w] = "open"
     THEN io' = [io EXCEPT ![b][w] = "active"] /\ UNCHANGED fault
     ELSE fault' = "no_channel" /\ UNCHANGED io
  /\ UNCHANGED <<bdevVars, user, worker, chan>>

\* The request is completed at its sender.
IoDone(b, w) ==
  /\ io[b][w] = "active"
  /\ io' = [io EXCEPT ![b][w] = "idle"]
  /\ UNCHANGED <<bdevVars, user, worker, inbox, chan, fault>>

\* The application ends, and its reactors tell the threads that still run to
\* exit: those of a leaked bdev.
ReactorExit(b, w) ==
  /\ stage[b] = "leaked"
  /\ worker[b][w] = "running" /\ inbox[b][w] = <<>>
  /\ inbox' = [inbox EXCEPT ![b][w] = <<"exit">>]
  /\ UNCHANGED <<bdevVars, user, worker, chan, io, fault>>

\* Tcb::shutdown drops the tasks and then the slots: the channel is put.
WorkerExit(b, w) ==
  /\ worker[b][w] = "running"
  /\ "exit" \in Range(inbox[b][w])
  /\ worker' = [worker EXCEPT ![b][w] = "exited"]
  /\ inbox' = [inbox EXCEPT ![b][w] = <<>>]
  /\ chan' = [chan EXCEPT ![b][w] = IF @ = "open" THEN "closed" ELSE @]
  /\ io' = [io EXCEPT ![b][w] = IF @ = "idle" THEN @ ELSE "lost"]
  /\ UNCHANGED <<bdevVars, user, fault>>

-----------------------------------------------------------------------------

Work(b, w) ==
  InitTask(b, w) \/ InitTask_Fault(b, w) \/ IoTask(b, w) \/ IoDone(b, w)
    \/ WorkerExit(b, w)

Create(b, r) ==
  \/ Create_Exists(b, r) \/ Create_BadOpts(b, r)
  \/ Create_NoMem(b, r) \/ Create_Register(b, r)

\* What the application's thread goes on with by itself.
Proceed(b) ==
  \/ Create_Done(b) \/ Create_Failed(b) \/ Create_Return(b)
  \/ Unlink(b) \/ Destruct(b) \/ CtxDrop(b)

Next ==
  /\ fault = "none"
  /\ \/ \E b \in Bdevs, r \in Requests : Create(b, r)
     \/ \E b \in Bdevs : Proceed(b) \/ Open(b) \/ Open_Fault(b) \/ Close(b)
     \/ \E b \in Bdevs, w \in Workers :
          Submit(b, w) \/ Work(b, w) \/ ReactorExit(b, w)
     \/ \E n \in Names : Delete(n) \/ ForeignAdd(n) \/ ForeignRemove(n)

\* The application's thread and the workers are polled for ever, a lower bdev
\* answers. Nobody has to open, close, create or delete.
Fairness ==
  /\ \A b \in Bdevs : WF_vars(fault = "none" /\ Proceed(b))
  /\ \A b \in Bdevs, w \in Workers : WF_vars(fault = "none" /\ Work(b, w))

Spec == Init /\ [][Next]_vars
FairSpec == Spec /\ Fairness

-----------------------------------------------------------------------------
(* Properties                                                              *)

InUse(b) ==
  stage[b] \in {"registering", "live", "removing", "unlinked", "destructing"}

\* The registry and SPDK's table agree: a bdev under construction, in use or on
\* its way out holds its name in the registry, so that no other takes it
\* (lib.rs:1392-1405), and it is SPDK's bdev of that name for as long as it
\* lives. A failed creation or a deletion never removes another's entry.
TablesAgree ==
  \A b \in Bdevs :
    /\ InUse(b) => registry[Name(b)] = b
    /\ stage[b] \in {"live", "removing"} <=> \E n \in Names : spdk[n] = b

\* A worker never gets a request before it has its channel: the expect of
\* raid5.rs:176 ("I/O channel not found") holds, through creations that fail
\* and deletions that race with users.
IoFindsChannel == fault # "no_channel"

\* No request is lost with its worker: workers are asked to exit by the last
\* Arc of the bdev (raid5.rs:116-124), which the destructor drops only after
\* the last user has gone (bdev.c:38-52).
NoneLost == \A b \in Bdevs, w \in Workers : io[b][w] # "lost"

\* Every block of a live array lies in a strip that is whole on its children
\* (raid5.rs:876-880 against the layout of raid5.rs:225-240), even when the
\* strip size wrapped around.
OnChildren ==
  \A b \in Bdevs :
    stage[b] = "live" /\ req[b].kind = "raid5" =>
      LET strip  == StripBlocks(req[b])
          stripe == strip * (Len(req[b].children) - 1)
      IN \A block \in 0..(BlockCnt(req[b]) - 1) :
           (block \div stripe + 1) * strip <= ChildBlocks(req[b])

Ended(b) ==
  stage[b] = "gone" /\ \A w \in Workers : worker[b][w] \in {"none", "exited"}

\* A deletion ends once the users are gone, and a creation that fails ends too:
\* the context is dropped and every worker exits with its channel put.
RemovalEnds ==
  \A b \in Bdevs :
    (stage[b] \in {"failed", "gone"} \/ (stage[b] = "removing" /\ ~user[b]))
      ~> (Ended(b) \/ fault # "none")
=============================================================================
