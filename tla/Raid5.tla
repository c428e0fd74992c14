------------------------------- MODULE Raid5 --------------------------------
(***************************************************************************)
(* The RAID5 bdev (examples/raid5/src/raid5.rs): requests travel to the    *)
(* worker thread that owns their stripe, which serves them one at a time:  *)
(* reads with the recovery of one failed disk, full-stripe writes, and     *)
(* partial writes that read, modify and write data and parity.             *)
(*                                                                         *)
(* A worker runs one task at a time and a task gives way only where it     *)
(* awaits the I/O of the lower bdevs: an action is what a task does        *)
(* between two awaits, or the answer of one lower bdev.                    *)
(*                                                                         *)
(* After an orphaned I/O, which writes into buffers and contexts that have *)
(* been freed, nothing is said: the model stops there.                     *)
(*                                                                         *)
(* Disks fail for good, reads and writes fail on disks that go on working, *)
(* and the process may crash: the array is then made again on the same     *)
(* children, which keep what they hold. Neither failure leaves a record,   *)
(* so a stripe may be torn, its parity out of step with its data.          *)
(*                                                                         *)
(* A block holds a set of tags, written by a request or there from the     *)
(* start, and the XOR of blocks is the symmetric difference of the sets.   *)
(***************************************************************************)
EXTENDS Raid5Layout, BlockXor, Sequences

CONSTANTS
  NWorkers,      \* worker threads, one per core (raid5.rs:196-202)
  Reqs,          \* the requests, each submitted at most once
  Shapes,        \* what may be asked: [op, first, len]
  NoShape,       \* the shape of a request nobody has submitted
  NoReq,         \* tags the values that no request wrote
  MaxDead,       \* bound: disks that stop answering for good
  MaxReadErrors, \* bound: reads that fail on a disk that works
  MaxWriteErrors, \* bound: writes that fail on a disk that works
  MaxCrashes,    \* bound: crashes of the process
  MaxFaults,     \* bound: all of these together
  Unsynced,      \* stripes whose parity may be noise on the first day
  LateDma        \* may a lower bdev use a buffer after submission?

Start    == "init"       \* the message of Bdev::init

ASSUME Raid5Assumption ==
  /\ NWorkers \in Nat \ {0}
  /\ NoReq \notin Reqs /\ Start \notin Reqs /\ NoShape \notin Shapes
  /\ \A x \in Shapes :
       /\ x.op \in {"read", "write"}
       /\ x.first \in Blocks /\ x.len \in Nat \ {0}
       /\ x.first + x.len - 1 \in Blocks
  /\ MaxDead \in Nat /\ MaxReadErrors \in Nat
  /\ MaxWriteErrors \in Nat /\ MaxCrashes \in Nat /\ MaxFaults \in Nat
  /\ Unsynced \subseteq Stripes
  /\ LateDma \in BOOLEAN

Workers  == 0..(NWorkers - 1)
NoStripe == -1
NoDisk   == -1

VARIABLES
  chan,       \* chan[w]: IOCH_TLS of the worker is set
  inbox,      \* inbox[w]: spawned tasks on their way, oldest first
  pending,    \* StripeQueue.pending of each stripe
  draining,   \* StripeQueue.draining: the entry of the stripe exists
  turn,       \* turn[w]: the stripe whose queue the worker is draining now
  req,        \* the shape of each request
  phase,      \* where the request is
  io,         \* io[r][d]: the lower I/O of the request on each disk
  lost,       \* the disk that reconstruct leaves out
  got,        \* got[r][d][o]: what the request has read of each disk
  acc,        \* acc[r][o]: the buffer of XORs
  status,     \* none, Success or Failure
  disk,       \* disk[d][row]: the blocks of the lower bdevs
  dead,       \* disks that fail every I/O from now on
  readErrors, \* read errors so far
  writeErrors, \* write errors so far, of disks that work
  crashes,    \* crashes so far
  torn,       \* stripes whose parity may be out of step with the data
  orphan,     \* an I/O outlived the buffers and contexts of its request
  store       \* what the blocks hold for the users of the bdev

queueVars == <<chan, inbox, pending, draining, turn>>
reqVars   == <<req, phase, io, lost, got, acc, status>>
diskVars  == <<disk, dead, readErrors, writeErrors, crashes, torn>>
vars      == <<queueVars, reqVars, diskVars, orphan, store>>

Waiting == {"unsent", "sent", "queued"}
Reading == {"read", "readrec", "old", "oldrec"}
Writing == {"new", "full"}
Active  == Reading \cup Writing

-----------------------------------------------------------------------------
(* Values and places.                                                      *)

Initial(b)  == {<<NoReq, b>>}
Data(r, b)  == {<<r, b>>}
Garbage     == {<<NoReq, NoDisk>>}

Owner(s)    == s % NWorkers
Stripe(r)   == StripeIdx(req[r].first)
OwnerOf(r)  == Owner(Stripe(r))
Parity(r)   == ParityDisk(Stripe(r))
ReqBlocks(r) == req[r].first .. (req[r].first + req[r].len - 1)

\* process_req refuses what reaches beyond the stripe of its first block.
Crosses(r)  == StripeOffset(req[r].first) + req[r].len > StripeBlocks
FullStripe(r) ==
  StripeOffset(req[r].first) = 0 /\ req[r].len = StripeBlocks

\* split_strips: the offsets of disk d that hold data of the request.
Segment(r, d) == {OffsetIn(b) : b \in {c \in ReqBlocks(r) : DiskOf(c) = d}}

\* The block of data disk d at offset o of the request's stripe.
BlockAt(s, d, o) ==
  LET strip == IF d < ParityDisk(s) THEN d ELSE d - 1
  IN  s * StripeBlocks + strip * StripBlocks + o

\* What the lower I/O of a phase covers of disk d; l is the disk left out.
Extent(r, ph, l, d) ==
  CASE ph = "read" -> Segment(r, d)
    [] ph \in {"old", "new"} ->
         IF d = Parity(r) THEN Offsets ELSE Segment(r, d)
    [] ph \in {"readrec", "oldrec"} ->
         IF d = l THEN {} ELSE IF l = Parity(r) THEN Offsets ELSE Segment(r, l)
    [] ph = "full" -> Offsets

Nothing  == [d \in Disks |-> "none"]
Zeroed   == [o \in Offsets |-> {}]
Unread   == [d \in Disks |-> Zeroed]

Bad(r)     == {d \in Disks : io[r][d] = "bad"}
Busy(r)    == {d \in Disks : io[r][d] = "busy"}
OnDisk(d, s, o) == disk[d][Row(s, o)]

\* What block b reads as: its disk, or the XOR of all the others.
Readable(b) == LET d == DiskOf(b) IN d \notin dead \/ dead = {d}
Rebuilt(b) ==
  LET d == DiskOf(b)
      row == Row(StripeIdx(b), OffsetIn(b)) IN
  Xor([e \in Disks |-> disk[e][row]], Disks \ {d})
Recovered(b) ==
  LET d == DiskOf(b) IN
  IF d \notin dead THEN OnDisk(d, StripeIdx(b), OffsetIn(b)) ELSE Rebuilt(b)

-----------------------------------------------------------------------------
(* Nothing computes the parity of a new array (raid5.rs:843-905): that of  *)
(* a torn stripe is noise, that of the others is the XOR of its row.       *)

FirstData(s, d, o) == Initial(BlockAt(s, d, o))

FirstDisk(d, T) ==
  [row \in Rows |->
     LET s == row \div StripBlocks
         o == row % StripBlocks
         p == ParityDisk(s) IN
     CASE d # p -> FirstData(s, d, o)
       [] d = p /\ s \in T -> Garbage
       [] d = p /\ s \notin T ->
            Xor([e \in Disks \ {p} |-> FirstData(s, e, o)], Disks \ {p})]

\* Bdev::init has sent its message to every worker by the time the bdev is
\* registered and can be asked for anything.
Init ==
  /\ chan = [w \in Workers |-> FALSE]
  /\ inbox = [w \in Workers |-> <<Start>>]
  /\ pending = [s \in Stripes |-> <<>>]
  /\ draining = [s \in Stripes |-> FALSE]
  /\ turn = [w \in Workers |-> NoStripe]
  /\ req = [r \in Reqs |-> NoShape]
  /\ phase = [r \in Reqs |-> "unsent"]
  /\ io = [r \in Reqs |-> Nothing]
  /\ lost = [r \in Reqs |-> NoDisk]
  /\ got = [r \in Reqs |-> Unread]
  /\ acc = [r \in Reqs |-> Zeroed]
  /\ status = [r \in Reqs |-> "none"]
  /\ torn \in SUBSET Unsynced
  /\ disk = [d \in Disks |-> FirstDisk(d, torn)]
  /\ dead = {}
  /\ readErrors = 0
  /\ writeErrors = 0
  /\ crashes = 0
  /\ orphan = FALSE
  /\ store = [b \in Blocks |-> Initial(b)]

-----------------------------------------------------------------------------
(* The way to the worker and its queue.                                    *)

\* submit_io: spawn a task on the owner of the stripe of the first block.
Submit(r) ==
  /\ ~orphan /\ phase[r] = "unsent"
  /\ \E x \in Shapes :
       /\ req' = [req EXCEPT ![r] = x]
       /\ inbox' = [inbox EXCEPT ![Owner(StripeIdx(x.first))] = Append(@, r)]
  /\ phase' = [phase EXCEPT ![r] = "sent"]
  /\ UNCHANGED <<chan, pending, draining, turn, io, lost, got, acc, status,
                 diskVars, orphan, store>>

\* The task of Bdev::init puts the I/O channel in the worker's TLS.
RunInit(w) ==
  /\ ~orphan /\ turn[w] = NoStripe
  /\ inbox[w] # <<>> /\ Head(inbox[w]) = Start
  /\ inbox' = [inbox EXCEPT ![w] = Tail(@)]
  /\ chan' = [chan EXCEPT ![w] = TRUE]
  /\ UNCHANGED <<pending, draining, turn, reqVars, diskVars, orphan, store>>

\* Mutant: enqueue does not say that the stripe is being drained.
RunSubmit_DrainAgain(w) ==
  /\ ~orphan /\ turn[w] = NoStripe
  /\ inbox[w] # <<>> /\ Head(inbox[w]) # Start
  /\ chan[w]
  /\ LET r == Head(inbox[w])
         s == Stripe(r) IN
       /\ pending' = [pending EXCEPT ![s] = Append(@, r)]
       /\ draining' = [draining EXCEPT ![s] = TRUE]
       /\ turn' = [turn EXCEPT ![w] = s]
       /\ phase' = [phase EXCEPT ![r] = "queued"]
  /\ inbox' = [inbox EXCEPT ![w] = Tail(@)]
  /\ UNCHANGED <<chan, req, io, lost, got, acc, status, diskVars, orphan,
                 store>>

\* The task of submit_io: enqueue, and drain the queue unless another task
\* is draining it already.
RunSubmit(w) ==
  /\ ~orphan /\ turn[w] = NoStripe
  /\ inbox[w] # <<>> /\ Head(inbox[w]) # Start
  /\ chan[w]
  /\ LET r == Head(inbox[w])
         s == Stripe(r) IN
       /\ pending' = [pending EXCEPT ![s] = Append(@, r)]
       /\ draining' = [draining EXCEPT ![s] = TRUE]
       /\ turn' = [turn EXCEPT ![w] = IF draining[s] THEN NoStripe ELSE s]
       /\ phase' = [phase EXCEPT ![r] = "queued"]
  /\ inbox' = [inbox EXCEPT ![w] = Tail(@)]
  /\ UNCHANGED <<chan, req, io, lost, got, acc, status, diskVars, orphan,
                 store>>

\* Submit the lower I/O of a phase and give way; l is the disk left out.
Await(r, ph, l) ==
  /\ phase' = [phase EXCEPT ![r] = ph]
  /\ lost' = [lost EXCEPT ![r] = l]
  /\ io' = [io EXCEPT ![r] =
       [d \in Disks |-> IF Extent(r, ph, l, d) = {} THEN "none" ELSE "busy"]]

\* Does block b now read as what request r wrote to it?
Landed(r, b) ==
  /\ phase[r] \in Writing /\ b \in ReqBlocks(r)
  /\ Readable(b) /\ Recovered(b) = Data(r, b)

\* What the blocks of a finished write hold from now on.
Settle(r, st) ==
  store' = [b \in Blocks |->
    IF Landed(r, b) \/ (st = "Success" /\ b \in ReqBlocks(r))
      THEN Data(r, b) ELSE store[b]]

\* Mutant: a failure is passed on as the status NoMem.
Reply_NoMem(r, st) ==
  /\ phase' = [phase EXCEPT ![r] = "done"]
  /\ status' = [status EXCEPT ![r] = IF st = "Failure" THEN "NoMem" ELSE st]
  /\ io' = [io EXCEPT ![r] = Nothing]
  /\ lost' = [lost EXCEPT ![r] = NoDisk]
  /\ acc' = [acc EXCEPT ![r] = Zeroed]
  /\ turn' = [turn EXCEPT ![OwnerOf(r)] = Stripe(r)]

\* io.complete_on(sender, st), and back to the loop of submit_io.
Reply(r, st) ==
  /\ phase' = [phase EXCEPT ![r] = "done"]
  /\ status' = [status EXCEPT ![r] = st]
  /\ io' = [io EXCEPT ![r] = Nothing]
  /\ lost' = [lost EXCEPT ![r] = NoDisk]
  /\ acc' = [acc EXCEPT ![r] = Zeroed]
  /\ turn' = [turn EXCEPT ![OwnerOf(r)] = Stripe(r)]

Release(r) == got' = [got EXCEPT ![r] = Unread]

\* Mutant: dequeue leaves the empty entry of the stripe in the map.
DrainEnd_KeepEntry(w) ==
  /\ ~orphan /\ turn[w] # NoStripe
  /\ pending[turn[w]] = <<>>
  /\ turn' = [turn EXCEPT ![w] = NoStripe]
  /\ UNCHANGED <<chan, inbox, pending, draining, reqVars, diskVars, orphan,
                 store>>

\* dequeue finds nothing: the stripe's entry is removed, the task ends.
DrainEnd(w) ==
  /\ ~orphan /\ turn[w] # NoStripe
  /\ pending[turn[w]] = <<>>
  /\ draining' = [draining EXCEPT ![turn[w]] = FALSE]
  /\ turn' = [turn EXCEPT ![w] = NoStripe]
  /\ UNCHANGED <<chan, inbox, pending, reqVars, diskVars, orphan, store>>

\* process_req, read and write up to their first await. Its answers to a flush
\* and to other types (raid5.rs:252-253) are left out: io_type_supported lets
\* only reads and writes through.
Process(r) ==
  IF Crosses(r)
    THEN Reply(r, "Failure") /\ UNCHANGED got
    ELSE /\ \/ /\ req[r].op = "read"
               /\ Await(r, "read", NoDisk)
               /\ UNCHANGED acc
            \/ /\ req[r].op = "write" /\ ~FullStripe(r)
               /\ Await(r, "old", NoDisk)
               /\ UNCHANGED acc
            \/ /\ req[r].op = "write" /\ FullStripe(r)
               /\ Await(r, "full", NoDisk)
               /\ acc' = [acc EXCEPT ![r] = [o \in Offsets |->
                    LET p == Parity(r) IN
                    Xor([d \in Disks \ {p} |->
                           Data(r, BlockAt(Stripe(r), d, o))], Disks \ {p})]]
         /\ turn' = [turn EXCEPT ![OwnerOf(r)] = NoStripe]
         /\ UNCHANGED <<got, status>>

\* dequeue finds the next request of the stripe.
DrainNext(w) ==
  /\ ~orphan /\ turn[w] # NoStripe
  /\ pending[turn[w]] # <<>>
  /\ pending' = [pending EXCEPT ![turn[w]] = Tail(@)]
  /\ Process(Head(pending[turn[w]]))
  /\ UNCHANGED <<chan, inbox, draining, req, diskVars, orphan, store>>

-----------------------------------------------------------------------------
(* The lower bdevs.                                                        *)

MoreFaults ==
  Cardinality(dead) + readErrors + writeErrors + crashes < MaxFaults

\* A disk stops answering, whatever it had in flight.
Die(d) ==
  /\ ~orphan /\ d \notin dead /\ Cardinality(dead) < MaxDead /\ MoreFaults
  /\ dead' = dead \cup {d}
  /\ UNCHANGED <<queueVars, reqVars, disk, readErrors, writeErrors, crashes,
                 torn, orphan, store>>

\* The block that a write puts at offset o of disk d.
Output(r, d, o) ==
  IF d = Parity(r) THEN acc[r][o] ELSE Data(r, BlockAt(Stripe(r), d, o))

\* An I/O succeeds: it moves its blocks. write_full_stripe has dropped the
\* parity buffer and the I/O vectors by then (raid5.rs:673-676).
Succeed(r, d) ==
  LET s == Stripe(r)
      ext == Extent(r, phase[r], lost[r], d) IN
  /\ d \notin dead
  /\ io' = [io EXCEPT ![r][d] = "ok"]
  /\ \/ /\ phase[r] \in {"read", "old"}
        /\ got' = [got EXCEPT ![r][d] = [o \in Offsets |->
             IF o \in ext THEN OnDisk(d, s, o) ELSE @[o]]]
        /\ UNCHANGED <<acc, disk>>
     \/ /\ phase[r] \in {"readrec", "oldrec"}
        /\ acc' = [acc EXCEPT ![r] = [o \in Offsets |->
             IF o \in ext THEN Xor(<<@[o], OnDisk(d, s, o)>>, 1..2) ELSE @[o]]]
        /\ UNCHANGED <<got, disk>>
     \/ /\ phase[r] \in Writing
        /\ \E stale \in {FALSE, LateDma /\ phase[r] = "full"} :
             disk' = [disk EXCEPT ![d] = [row \in Rows |->
               IF \E o \in ext : row = Row(s, o)
                 THEN IF stale THEN Garbage ELSE Output(r, d, row % StripBlocks)
                 ELSE @[row]]]
        /\ UNCHANGED <<got, acc>>
  /\ UNCHANGED <<readErrors, writeErrors, torn>>

\* An I/O fails: the disk is dead, or works and meets an error. A disk that
\* misses a write and goes on working leaves the stripe torn.
Fail(r, d) ==
  /\ io' = [io EXCEPT ![r][d] = "bad"]
  /\ \/ d \in dead /\ UNCHANGED <<readErrors, writeErrors, torn>>
     \/ /\ d \notin dead /\ phase[r] \in Reading
        /\ readErrors < MaxReadErrors /\ MoreFaults
        /\ readErrors' = readErrors + 1
        /\ UNCHANGED <<writeErrors, torn>>
     \/ /\ d \notin dead /\ phase[r] \in Writing
        /\ writeErrors < MaxWriteErrors /\ MoreFaults
        /\ writeErrors' = writeErrors + 1
        /\ torn' = torn \cup {Stripe(r)}
        /\ UNCHANGED readErrors
  /\ UNCHANGED <<got, acc, disk>>

\* The callback of a lower I/O, spdk_rwio_complete_cb.
Complete(r, d) ==
  /\ ~orphan /\ io[r][d] = "busy"
  /\ Succeed(r, d) \/ Fail(r, d)
  /\ UNCHANGED <<queueVars, req, phase, lost, status, dead, crashes, orphan,
                 store>>

\* Stripes with a write that is done on some of the disks that work and not on
\* others.
HalfWritten ==
  {Stripe(r) : r \in {q \in Reqs :
     /\ phase[q] \in Writing
     /\ \E d, e \in Disks \ dead : io[q][d] = "ok" /\ io[q][e] = "busy"}}

\* The process dies and is started again, and the array made again on the same
\* children: all that the workers had is gone, nothing is repaired.
Crash ==
  /\ ~orphan /\ crashes < MaxCrashes /\ MoreFaults
  /\ crashes' = crashes + 1
  /\ torn' = torn \cup HalfWritten
  /\ store' = [b \in Blocks |->
       IF \E r \in Reqs : Landed(r, b)
         THEN Data(CHOOSE r \in Reqs : Landed(r, b), b) ELSE store[b]]
  /\ chan' = [w \in Workers |-> FALSE]
  /\ inbox' = [w \in Workers |-> <<Start>>]
  /\ pending' = [s \in Stripes |-> <<>>]
  /\ draining' = [s \in Stripes |-> FALSE]
  /\ turn' = [w \in Workers |-> NoStripe]
  /\ phase' = [r \in Reqs |->
       IF phase[r] \in {"unsent", "done"} THEN phase[r] ELSE "gone"]
  /\ io' = [r \in Reqs |-> Nothing]
  /\ lost' = [r \in Reqs |-> NoDisk]
  /\ acc' = [r \in Reqs |-> Zeroed]
  /\ got' = [r \in Reqs |-> IF phase[r] = "done" THEN got[r] ELSE Unread]
  /\ UNCHANGED <<req, status, disk, dead, readErrors, writeErrors, orphan>>

-----------------------------------------------------------------------------
(* A task resumes once the I/O it awaits has been answered.                *)

MayRun(r) == ~orphan /\ phase[r] \in Active /\ turn[OwnerOf(r)] = NoStripe

\* read: every segment has been read, or tried.
ReadDone(r) ==
  /\ MayRun(r) /\ phase[r] = "read" /\ Busy(r) = {}
  /\ CASE Bad(r) = {} -> Reply(r, "Success") /\ UNCHANGED got
       [] Cardinality(Bad(r)) = 1 ->
            /\ Await(r, "readrec", CHOOSE d \in Bad(r) : TRUE)
            /\ UNCHANGED <<got, acc, status, turn>>
       [] OTHER -> Reply(r, "Failure") /\ Release(r)
  /\ UNCHANGED <<orphan, store>>

\* Mutant: the segment that was rebuilt is not copied into the request.
ReadRecovered_NoCopy(r) ==
  /\ MayRun(r) /\ phase[r] = "readrec" /\ Busy(r) = {} /\ Bad(r) = {}
  /\ Reply(r, "Success")
  /\ UNCHANGED <<got, orphan, store>>

\* read: reconstruct has returned the segment that could not be read.
ReadRecovered(r) ==
  /\ MayRun(r) /\ phase[r] = "readrec" /\ Busy(r) = {} /\ Bad(r) = {}
  /\ got' = [got EXCEPT ![r][lost[r]] = acc[r]]
  /\ Reply(r, "Success")
  /\ UNCHANGED <<orphan, store>>

\* reconstruct returns None at the first failed read in the order of the
\* disks, without waiting for the reads after it (raid5.rs:610-614).
GiveUp(r) ==
  /\ MayRun(r) /\ phase[r] \in {"readrec", "oldrec"}
  /\ \E d \in Bad(r) : \A e \in Disks : e < d => io[r][e] \in {"ok", "none"}
  /\ orphan' = (Busy(r) # {})
  /\ Reply(r, "Failure") /\ Release(r)
  /\ UNCHANGED store

\* Mutant: the old data is not taken out of the parity.
WriteNew_KeepOld(r, old) ==
  /\ acc' = [acc EXCEPT ![r] = [o \in Offsets |->
       LET touched == {d \in Disks \ {Parity(r)} : o \in Segment(r, d)}
           new == Xor([d \in touched |-> Data(r, BlockAt(Stripe(r), d, o))],
                      touched)
       IN Xor(<<old[Parity(r)][o], new>>, 1..2)]]
  /\ Await(r, "new", NoDisk)
  /\ Release(r)
  /\ UNCHANGED <<turn, status>>

\* write_partial_stripe, phases 2 and 3: the new parity, from the old parity,
\* the old data and the new data, and the writes. old is what was read.
WriteNew(r, old) ==
  /\ acc' = [acc EXCEPT ![r] = [o \in Offsets |->
       LET touched == {d \in Disks \ {Parity(r)} : o \in Segment(r, d)}
           new == Xor([d \in touched |-> Data(r, BlockAt(Stripe(r), d, o))],
                      touched)
           was == Xor([d \in Disks |-> old[d][o]], touched \cup {Parity(r)})
       IN Xor(<<was, new>>, 1..2)]]
  /\ Await(r, "new", NoDisk)
  /\ Release(r)
  /\ UNCHANGED <<turn, status>>

\* write_partial_stripe, phase 1: the old data and the old parity are read.
OldRead(r) ==
  /\ MayRun(r) /\ phase[r] = "old" /\ Busy(r) = {}
  /\ CASE Bad(r) = {} -> WriteNew(r, got[r]) /\ UNCHANGED store
       [] Cardinality(Bad(r)) = 1 ->
            /\ Await(r, "oldrec", CHOOSE d \in Bad(r) : TRUE)
            /\ UNCHANGED <<got, acc, status, turn, store>>
       [] OTHER -> Reply(r, "Failure") /\ Release(r) /\ Settle(r, "Failure")
  /\ UNCHANGED orphan

OldRecovered(r) ==
  /\ MayRun(r) /\ phase[r] = "oldrec" /\ Busy(r) = {} /\ Bad(r) = {}
  /\ WriteNew(r, [got[r] EXCEPT ![lost[r]] = acc[r]])
  /\ UNCHANGED <<orphan, store>>

\* complete_write: any failed write fails the request, one of a data disk too
\* (WritePolicy has what the comment above it says). A stripe written in full
\* on every disk that works has its parity again.
WriteDone(r) ==
  /\ MayRun(r) /\ phase[r] \in Writing /\ Busy(r) = {}
  /\ LET st == IF Bad(r) = {} THEN "Success" ELSE "Failure" IN
       Reply(r, st) /\ Settle(r, st)
  /\ torn' = IF phase[r] = "full" /\ Bad(r) \subseteq dead
               THEN torn \ {Stripe(r)} ELSE torn
  /\ UNCHANGED <<got, orphan>>

Resume(r) ==
  /\ \/ WriteDone(r)
     \/ /\ ReadDone(r) \/ ReadRecovered(r) \/ GiveUp(r)
          \/ OldRead(r) \/ OldRecovered(r)
        /\ UNCHANGED torn
  /\ UNCHANGED <<chan, inbox, pending, draining, req, disk, dead, readErrors,
                 writeErrors, crashes>>

-----------------------------------------------------------------------------
Work(w) == RunInit(w) \/ RunSubmit(w) \/ DrainNext(w) \/ DrainEnd(w)

Next ==
  \/ \E r \in Reqs : Submit(r) \/ Resume(r)
  \/ \E w \in Workers : Work(w)
  \/ \E d \in Disks : Die(d)
  \/ Crash
  \/ \E r \in Reqs, d \in Disks : Complete(r, d)

Spec == Init /\ [][Next]_vars

\* Workers keep running, and a lower bdev answers what it was given.
Fairness ==
  /\ \A w \in Workers : WF_vars(Work(w))
  /\ \A r \in Reqs : WF_vars(Resume(r))
  /\ \A r \in Reqs, d \in Disks : WF_vars(Complete(r, d))

FairSpec == Spec /\ Fairness

-----------------------------------------------------------------------------
(* What the bdev promises.                                                 *)

IoState == {"none", "busy", "ok", "bad"}
Tag     == (Reqs \cup {NoReq}) \X Int
Value   == SUBSET Tag

TypeOK ==
  /\ chan \in [Workers -> BOOLEAN]
  /\ inbox \in [Workers -> Seq(Reqs \cup {Start})]
  /\ pending \in [Stripes -> Seq(Reqs)]
  /\ draining \in [Stripes -> BOOLEAN]
  /\ turn \in [Workers -> Stripes \cup {NoStripe}]
  /\ req \in [Reqs -> Shapes \cup {NoShape}]
  /\ phase \in [Reqs -> Waiting \cup Active \cup {"done", "gone"}]
  /\ io \in [Reqs -> [Disks -> IoState]]
  /\ lost \in [Reqs -> Disks \cup {NoDisk}]
  /\ got \in [Reqs -> [Disks -> [Offsets -> Value]]]
  /\ acc \in [Reqs -> [Offsets -> Value]]
  /\ status \in [Reqs -> {"none", "Success", "Failure"}]
  /\ disk \in [Disks -> [Rows -> Value]]
  /\ dead \in SUBSET Disks
  /\ readErrors \in 0..MaxReadErrors
  /\ writeErrors \in 0..MaxWriteErrors
  /\ crashes \in 0..MaxCrashes
  /\ torn \in SUBSET Stripes
  /\ orphan \in BOOLEAN
  /\ store \in [Blocks -> Value]

\* Requests of stripe s whose I/O the worker's task is awaiting.
InService(s) == {r \in Reqs : phase[r] \in Active /\ Stripe(r) = s}

(* One task serves a stripe, and no request waits in a queue that nobody   *)
(* drains: the entry of a stripe exists exactly while one task drains it,  *)
(* awaiting the I/O of one request or about to take the next one (enqueue  *)
(* and dequeue, raid5.rs:84-105, and the loop of submit_io, 180-187).      *)
OneDrainer ==
  \A s \in Stripes :
    /\ \A q, r \in InService(s) : q = r
    /\ turn[Owner(s)] = s => InService(s) = {}
    /\ draining[s] <=> (InService(s) # {} \/ turn[Owner(s)] = s)
    /\ pending[s] # <<>> => draining[s]

(* While nobody serves a stripe each of its blocks is on its disk, if that *)
(* disk works, whatever faults and crashes there were, and unless the      *)
(* stripe is torn any one disk may be lost: its block is the XOR of the    *)
(* others. A stripe is torn by a crash or a write error between the writes *)
(* of its disks, or has never been written in full, and a full-stripe      *)
(* write mends it (complete_write, raid5.rs:700-746). Concurrent           *)
(* read-modify-writes, which the queue of the stripe prevents, would break *)
(* it.                                                                     *)
Redundant ==
  \A b \in Blocks :
    LET d == DiskOf(b)
        s == StripeIdx(b) IN
    InService(s) = {} =>
      /\ d \notin dead => OnDisk(d, s, OffsetIn(b)) = store[b]
      /\ dead \subseteq {d} /\ s \notin torn => Rebuilt(b) = store[b]

\* The members of S among the messages q, in their order.
Select(q, S) ==
  LET f[i \in 0..Len(q)] ==
        IF i = 0 THEN <<>>
        ELSE IF q[i] \in S THEN Append(f[i - 1], q[i]) ELSE f[i - 1]
  IN f[Len(q)]

\* Requests of a stripe that were submitted.
Submitted(s) == {r \in Reqs : phase[r] # "unsent" /\ Stripe(r) = s}

\* Requests of a stripe that have no answer yet, oldest first.
Unanswered(s) ==
  (IF InService(s) = {} THEN <<>> ELSE <<CHOOSE r \in InService(s) : TRUE>>)
    \o pending[s]
    \o Select(inbox[Owner(s)], Submitted(s))

Returned(r) ==
  IF req[r] # NoShape /\ req[r].op = "read" /\ status[r] = "Success"
    THEN [b \in ReqBlocks(r) |-> got[r][DiskOf(b)][OffsetIn(b)]]
    ELSE <<>>

Promise == INSTANCE StripeStore WITH
  StripeOf    <- StripeIdx,
  queue       <- [s \in Stripes |-> Unanswered(s)],
  result      <- [r \in Reqs |-> Returned(r)],
  weak        <- torn,
  faults      <- Cardinality(dead) + readErrors,
  lostWrites  <- writeErrors

(* The workers, their queues and the parity arithmetic implement a store   *)
(* that serves each stripe in order, one request at a time, whose reads    *)
(* survive one disk fault, and which a crash or a write error does not     *)
(* harm but for the blocks being written and the redundancy of their       *)
(* stripe. Failure is the code's answer to a write that one disk failed    *)
(* (raid5.rs:737); the comment of raid5.rs:700-705 has another policy,     *)
(* which the run raid5_policy refutes.                                     *)
Implements == Promise!Spec

(* Every request that reaches the bdev is answered, unless a crash takes   *)
(* it away (or an I/O is orphaned, after which nothing is said): a time    *)
(* comes after which no request is on its way. A request comes once.       *)
Answered ==
  <>[](\A r \in Reqs : phase[r] \in {"unsent", "done", "gone"} \/ orphan)

(* The policy that the comment of complete_write states (raid5.rs:700-705) *)
(* of how a write is answered: "0 failed disks -> Success", "1 failed data *)
(* disk -> Success (degraded stripe)", and Failure if it was the parity    *)
(* disk or there was more than one.                                        *)
WritePolicy ==
  [][\A r \in Reqs :
       phase[r] \in Writing /\ phase'[r] = "done" =>
         (status'[r] = "Success" <=>
            \/ Bad(r) = {}
            \/ \E d \in Disks \ {Parity(r)} : Bad(r) = {d})]_vars

(* No lower I/O outlives its buffers: an LbdevIoFuture must be awaited     *)
(* before its context is dropped (lib.rs:2350).                            *)
NoOrphan == ~orphan
=============================================================================
