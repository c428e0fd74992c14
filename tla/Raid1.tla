------------------------------- MODULE Raid1 --------------------------------
(***************************************************************************)
(* The RAID1 bdev (examples/raid1/src/raid1.rs): reads go round robin over *)
(* the children and move on to the next child when one fails; writes go to *)
(* all the children at once and succeed if any child does. The requests of *)
(* one I/O channel run as tasks of its thread and share its next_read.     *)
(*                                                                         *)
(* A task gives way only where it awaits the I/O of a child: an action is  *)
(* what a task does between two awaits, or the answer of one child.        *)
(*                                                                         *)
(* As users of a disk do, nobody sends a write to a block that another     *)
(* write is still changing. An I/O that fails leaves the disk as it was,   *)
(* and so does one the child refused, whose future is done from the start. *)
(* The bdev keeps no record of a child that missed a write; the model does *)
(* (stale), to say what that does to the reads that follow.                *)
(***************************************************************************)
EXTENDS Integers, FiniteSets

CONSTANTS
  N,             \* children, at least one (raid1.rs:179-181)
  Blocks,        \* logical blocks, the same on every child
  Channels,      \* I/O channels of the bdev, one per thread
  Reqs,          \* the requests, each submitted at most once
  NoShape,       \* the shape of a request nobody has submitted
  NoReq,         \* the writer of what the blocks hold at first
  MaxDead,       \* bound: children that stop answering for good
  MaxReadErrors, \* bound: reads that fail on a child that works
  MaxWriteErrors \* bound: writes refused or failed by a child that works

ASSUME Raid1Assumption ==
  /\ N \in Nat \ {0}
  /\ NoReq \notin Reqs
  /\ \A c \in Channels, b \in Blocks, o \in {"read", "write"} :
       NoShape # [op |-> o, block |-> b, ch |-> c]
  /\ MaxDead \in Nat /\ MaxReadErrors \in Nat /\ MaxWriteErrors \in Nat

Children == 0..(N - 1)
NoChild  == -1
Shapes   == [op : {"read", "write"}, block : Blocks, ch : Channels]

VARIABLES
  nextRead,   \* Raid1IoChannel.next_read
  req,        \* the shape of each request
  phase,      \* unsent, read, write or done
  tries,      \* children the loop of read has tried
  target,     \* the child it is trying
  io,         \* io[r][c]: the last I/O of the request on each child
  val,        \* what a read has found
  status,     \* none, Success or Failure
  disk,       \* disk[c][b]: who wrote the block last
  dead,       \* children that fail every I/O from now on
  readErrors, \* read errors so far
  writeErrors, \* write errors so far
  last,       \* history: the last write of each block to succeed
  window,     \* history: window[r] is what was current during a read
  stale,      \* history: <<c, b>> if the child missed the last write of b
  misled,     \* history: reads a stale child has answered
  crowded     \* history: reads overtaken by a read of their channel

reqVars  == <<req, phase, tries, target, io, val, status>>
diskVars == <<disk, dead, readErrors, writeErrors>>
vars     == <<nextRead, reqVars, diskVars, last, window, stale, misled, crowded>>

Values == Reqs \cup {NoReq}

TypeOK ==
  /\ nextRead \in [Channels -> Children]
  /\ req \in [Reqs -> Shapes \cup {NoShape}]
  /\ phase \in [Reqs -> {"unsent", "read", "write", "done"}]
  /\ tries \in [Reqs -> 0..N]
  /\ target \in [Reqs -> Children \cup {NoChild}]
  /\ io \in [Reqs -> [Children -> {"none", "busy", "ok", "bad"}]]
  /\ val \in [Reqs -> Values]
  /\ status \in [Reqs -> {"none", "Success", "Failure"}]
  /\ disk \in [Children -> [Blocks -> Values]]
  /\ dead \in SUBSET Children
  /\ readErrors \in 0..MaxReadErrors /\ writeErrors \in 0..MaxWriteErrors
  /\ last \in [Blocks -> Values]
  /\ window \in [Reqs -> SUBSET Values]
  /\ stale \in SUBSET (Children \X Blocks)
  /\ misled \in SUBSET Reqs /\ crowded \in SUBSET Reqs

Init ==
  /\ nextRead = [c \in Channels |-> 0]
  /\ req = [r \in Reqs |-> NoShape]
  /\ phase = [r \in Reqs |-> "unsent"]
  /\ tries = [r \in Reqs |-> 0]
  /\ target = [r \in Reqs |-> NoChild]
  /\ io = [r \in Reqs |-> [c \in Children |-> "none"]]
  /\ val = [r \in Reqs |-> NoReq]
  /\ status = [r \in Reqs |-> "none"]
  /\ disk = [c \in Children |-> [b \in Blocks |-> NoReq]]
  /\ dead = {}
  /\ readErrors = 0 /\ writeErrors = 0
  /\ last = [b \in Blocks |-> NoReq]
  /\ window = [r \in Reqs |-> {}]
  /\ stale = {} /\ misled = {} /\ crowded = {}

-----------------------------------------------------------------------------
Block(r)  == req[r].block
Channel(r) == req[r].ch

Readers(b) == {r \in Reqs : phase[r] = "read" /\ Block(r) = b}
Writers(b) == {r \in Reqs : phase[r] = "write" /\ Block(r) = b}
Busy(r)    == {c \in Children : io[r][c] = "busy"}

\* The other reads under way on the channel, when r moves its next_read.
Crowd(r, ch) == {q \in Reqs \ {r} : phase[q] = "read" /\ Channel(q) = ch}

\* Mutant: the loop of read starts again from the child that failed.
TryNext_Same(r, ch) ==
  /\ tries' = [tries EXCEPT ![r] = @ + 1]
  /\ target' = [target EXCEPT ![r] = nextRead[ch]]
  /\ io' = [io EXCEPT ![r][nextRead[ch]] = "busy"]
  /\ UNCHANGED <<nextRead, crowded>>

\* Mutant: the round robin does not wrap around.
TryNext_NoWrap(r, ch) ==
  LET next == nextRead[ch] + 1 IN
  /\ nextRead' = [nextRead EXCEPT ![ch] = next]
  /\ tries' = [tries EXCEPT ![r] = @ + 1]
  /\ target' = [target EXCEPT ![r] = next]
  /\ io' = [io EXCEPT ![r] = [c \in Children |->
       IF c = next THEN "busy" ELSE @[c]]]
  /\ crowded' = crowded \cup Crowd(r, ch)

\* An iteration of the loop of read, up to its await: round-robin read.
TryNext(r, ch) ==
  LET next == (nextRead[ch] + 1) % N IN
  /\ nextRead' = [nextRead EXCEPT ![ch] = next]
  /\ tries' = [tries EXCEPT ![r] = @ + 1]
  /\ target' = [target EXCEPT ![r] = next]
  /\ io' = [io EXCEPT ![r][next] = "busy"]
  /\ crowded' = crowded \cup Crowd(r, ch)

\* submit_io of a read: its task runs at once, up to its first await.
SubmitRead(r) ==
  /\ phase[r] = "unsent"
  /\ \E b \in Blocks, ch \in Channels :
       /\ req' = [req EXCEPT ![r] = [op |-> "read", block |-> b, ch |-> ch]]
       /\ TryNext(r, ch)
       /\ window' = [window EXCEPT ![r] = {last[b]} \cup Writers(b)]
  /\ phase' = [phase EXCEPT ![r] = "read"]
  /\ UNCHANGED <<val, status, diskVars, last, stale, misled>>

\* Mutant: the loop over the children starts at 1.
SubmitWrite_SkipFirst(r) ==
  /\ phase[r] = "unsent"
  /\ \E b \in Blocks, ch \in Channels :
       /\ Writers(b) = {}
       /\ req' = [req EXCEPT ![r] = [op |-> "write", block |-> b, ch |-> ch]]
       /\ window' = [q \in Reqs |->
            IF q \in Readers(b) THEN window[q] \cup {r} ELSE window[q]]
  /\ phase' = [phase EXCEPT ![r] = "write"]
  /\ io' = [io EXCEPT ![r] =
       [c \in Children |-> IF c = 0 THEN "none" ELSE "busy"]]
  /\ UNCHANGED <<nextRead, tries, target, val, status, diskVars, last, stale,
                 misled, crowded>>

\* submit_io of a write: every child is given it before the first await.
SubmitWrite(r) ==
  /\ phase[r] = "unsent"
  /\ \E b \in Blocks, ch \in Channels :
       /\ Writers(b) = {}
       /\ req' = [req EXCEPT ![r] = [op |-> "write", block |-> b, ch |-> ch]]
       /\ window' = [q \in Reqs |->
            IF q \in Readers(b) THEN window[q] \cup {r} ELSE window[q]]
  /\ phase' = [phase EXCEPT ![r] = "write"]
  /\ io' = [io EXCEPT ![r] = [c \in Children |-> "busy"]]
  /\ UNCHANGED <<nextRead, tries, target, val, status, diskVars, last, stale,
                 misled, crowded>>

-----------------------------------------------------------------------------
(* The children.                                                           *)

\* A child stops answering, whatever it had in flight.
Die(c) ==
  /\ c \notin dead /\ Cardinality(dead) < MaxDead
  /\ dead' = dead \cup {c}
  /\ UNCHANGED <<nextRead, reqVars, disk, readErrors, writeErrors, last, window,
                 stale, misled, crowded>>

\* An I/O succeeds: it moves its block.
Succeed(r, c) ==
  /\ c \notin dead
  /\ io' = [io EXCEPT ![r][c] = "ok"]
  /\ \/ /\ phase[r] = "read"
        /\ val' = [val EXCEPT ![r] = disk[c][Block(r)]]
        /\ misled' = IF <<c, Block(r)>> \in stale THEN misled \cup {r} ELSE misled
        /\ UNCHANGED <<disk, stale>>
     \/ /\ phase[r] = "write"
        /\ disk' = [disk EXCEPT ![c][Block(r)] = r]
        /\ stale' = stale \ {<<c, Block(r)>>}
        /\ UNCHANGED <<val, misled>>
  /\ UNCHANGED <<readErrors, writeErrors>>

\* An I/O fails: the child is dead, or it works and fails a read or a write,
\* or refuses it when it is submitted (LbdevIo has that case).
Fail(r, c) ==
  /\ io' = [io EXCEPT ![r][c] = "bad"]
  /\ \/ c \in dead /\ UNCHANGED <<readErrors, writeErrors>>
     \/ /\ c \notin dead /\ phase[r] = "read"
        /\ readErrors < MaxReadErrors
        /\ readErrors' = readErrors + 1
        /\ UNCHANGED writeErrors
     \/ /\ c \notin dead /\ phase[r] = "write"
        /\ writeErrors < MaxWriteErrors
        /\ writeErrors' = writeErrors + 1
        /\ UNCHANGED readErrors
  /\ UNCHANGED <<val, disk, stale, misled>>

\* The callback of the I/O of a child, spdk_rwio_complete_cb.
Complete(r, c) ==
  /\ io[r][c] = "busy"
  /\ Succeed(r, c) \/ Fail(r, c)
  /\ UNCHANGED <<nextRead, req, phase, tries, target, status, dead, last,
                 window, crowded>>

-----------------------------------------------------------------------------
(* A task resumes once the I/O it awaits has been answered.                *)

Reply(r, st) ==
  /\ phase' = [phase EXCEPT ![r] = "done"]
  /\ status' = [status EXCEPT ![r] = st]

\* read: the child has answered, break and complete.
ReadOk(r) ==
  /\ phase[r] = "read" /\ io[r][target[r]] = "ok"
  /\ Reply(r, "Success")
  /\ UNCHANGED <<nextRead, req, tries, target, io, val, diskVars, last, window,
                 stale, misled, crowded>>

\* Mutant: read goes on trying for ever.
ReadRetry_Forever(r) ==
  /\ phase[r] = "read" /\ io[r][target[r]] = "bad"
  /\ LET next == (nextRead[Channel(r)] + 1) % N IN
       /\ nextRead' = [nextRead EXCEPT ![Channel(r)] = next]
       /\ target' = [target EXCEPT ![r] = next]
       /\ io' = [io EXCEPT ![r][next] = "busy"]
  /\ UNCHANGED <<req, phase, tries, val, status, diskVars, last, window, stale,
                 misled, crowded>>

\* "Recover. Read from next child."
ReadRetry(r) ==
  /\ phase[r] = "read" /\ io[r][target[r]] = "bad"
  /\ tries[r] < N
  /\ TryNext(r, Channel(r))
  /\ UNCHANGED <<req, phase, val, status, diskVars, last, window, stale, misled>>

\* "Read error (all disks failed)"
ReadFail(r) ==
  /\ phase[r] = "read" /\ io[r][target[r]] = "bad"
  /\ tries[r] = N
  /\ Reply(r, "Failure")
  /\ UNCHANGED <<nextRead, req, tries, target, io, val, diskVars, last, window,
                 stale, misled, crowded>>

\* The children that have failed the write of a request.
Missed(r) == {c \in Children : io[r][c] = "bad"} \X {Block(r)}

\* Mutant: write is complete with the first child that succeeds.
WriteDone_First(r) ==
  /\ phase[r] = "write"
  /\ \E c \in Children : io[r][c] = "ok"
  /\ Reply(r, "Success")
  /\ last' = [last EXCEPT ![Block(r)] = r]
  /\ stale' = stale \cup Missed(r)
  /\ UNCHANGED <<nextRead, req, tries, target, io, val, diskVars, window, misled,
                 crowded>>

\* write: every child has answered; one that succeeded is enough, and the
\* others have missed the write.
WriteDone(r) ==
  /\ phase[r] = "write" /\ Busy(r) = {}
  /\ \/ /\ \E c \in Children : io[r][c] = "ok"
        /\ Reply(r, "Success")
        /\ last' = [last EXCEPT ![Block(r)] = r]
        /\ stale' = stale \cup Missed(r)
     \/ /\ \A c \in Children : io[r][c] # "ok"
        /\ Reply(r, "Failure")
        /\ UNCHANGED <<last, stale>>
  /\ UNCHANGED <<nextRead, req, tries, target, io, val, diskVars, window, misled,
                 crowded>>

Resume(r) == ReadOk(r) \/ ReadRetry(r) \/ ReadFail(r) \/ WriteDone(r)

-----------------------------------------------------------------------------
Next ==
  \/ \E r \in Reqs : SubmitRead(r) \/ SubmitWrite(r) \/ Resume(r)
  \/ \E c \in Children : Die(c)
  \/ \E r \in Reqs, c \in Children : Complete(r, c)

Spec == Init /\ [][Next]_vars

\* The tasks of a thread keep running, and a child answers what it was given.
Fairness ==
  /\ \A r \in Reqs : WF_vars(Resume(r))
  /\ \A r \in Reqs, c \in Children : WF_vars(Complete(r, c))

FairSpec == Spec /\ Fairness

-----------------------------------------------------------------------------
Reads == {r \in Reqs : req[r] # NoShape /\ req[r].op = "read"}

\* The writes of a block that have been answered with Success so far.
Acknowledged(b) ==
  {NoReq} \cup {r \in Reqs \ Reads : status[r] = "Success" /\ Block(r) = b}

(* A read that succeeds returns the last write of its block to succeed     *)
(* before it, or a write that was under way at some time during the read,  *)
(* whichever child served it and whichever children have failed. Only if   *)
(* that child missed the last write of the block may it be older, and then *)
(* it is still a write that was acknowledged, never one that failed.       *)
ReadsFresh ==
  \A r \in Reads :
    status[r] = "Success" =>
      \/ val[r] \in window[r]
      \/ r \in misled /\ val[r] \in Acknowledged(Block(r))

(* The children are mirrors but for the blocks they missed: while no write *)
(* is changing a block, each child that has not missed the last write of   *)
(* it to succeed holds that write, and there is always such a child.       *)
Mirrored ==
  \A b \in Blocks :
    Writers(b) = {} =>
      /\ \A c \in Children : <<c, b>> \notin stale => disk[c][b] = last[b]
      /\ \E c \in Children : <<c, b>> \notin stale

(* A request fails only if all the disks failed it, as the messages of     *)
(* raid1.rs:116 and 153 say: a write whatever happens, and a read unless   *)
(* another read of its channel moved next_read while it was under way.     *)
FailsOnlyIfAllFail ==
  \A r \in Reqs \ (Reads \cap crowded) :
    status[r] = "Failure" => \A c \in Children : io[r][c] = "bad"

(* Every request that reaches the bdev is answered.                        *)
Answered == \A r \in Reqs : phase[r] \in {"read", "write"} ~> phase[r] = "done"

(* "Read error (all disks failed)" (raid1.rs:116): a request that fails    *)
(* has failed on every child, other reads of its channel or not.           *)
AllDisksFailed ==
  \A r \in Reqs :
    status[r] = "Failure" => \A c \in Children : io[r][c] = "bad"
=============================================================================
