---------------------------- MODULE StripeStore -----------------------------
(***************************************************************************)
(* What the RAID5 bdev promises to its users: a store of blocks whose      *)
(* requests take effect one at a time in each stripe, in the order they    *)
(* were submitted. A read answers what the store holds. A write that fails *)
(* leaves in each of its blocks the old value or the new one, and touches  *)
(* no other. Requests fail only for a reason: a read needs two disk        *)
(* faults, a write one, and what crosses a stripe is refused untouched.    *)
(*                                                                         *)
(* A write cut short by a crash or missed by a disk leaves its stripe      *)
(* weak: there a disk fault costs the blocks of one disk, but no other. A  *)
(* stripe is strong again once it has been written in full.                *)
(***************************************************************************)
EXTENDS Integers, Sequences

CONSTANTS
  Reqs,              \* the requests, each submitted at most once
  Shapes,            \* what may be asked: [op, first, len]
  NoShape,           \* the shape of a request nobody has submitted
  Blocks, Stripes,   \* logical blocks and stripes
  Unsynced,          \* stripes that may be weak on the first day
  StripeOf(_),       \* the stripe of a block
  DiskOf(_),         \* the disk of a block
  Initial(_)         \* the first value of a block

VARIABLES
  req,        \* the shape of each request
  queue,      \* unanswered requests of each stripe, oldest first
  store,      \* the value of each block
  status,     \* none, Success or Failure
  result,     \* what a read returned: a value for each of its blocks
  weak,       \* stripes that have lost their redundancy
  faults,     \* disks lost and reads failed so far
  lostWrites  \* writes that a working disk has missed so far

vars == <<req, queue, store, status, result, weak, faults, lostWrites>>

\* The values a request writes are its own: who wrote it, and where.
Written(r, b) == {<<r, b>>}

ReqBlocks(r) == req[r].first .. (req[r].first + req[r].len - 1)
Crosses(r)   == \E b, c \in ReqBlocks(r) : StripeOf(b) # StripeOf(c)
Covers(r, s) == {b \in Blocks : StripeOf(b) = s} \subseteq ReqBlocks(r)

\* The stripe is serving a write.
Writes(s) == queue[s] # <<>> /\ req[Head(queue[s])].op = "write"

Init ==
  /\ req = [r \in Reqs |-> NoShape]
  /\ queue = [s \in Stripes |-> <<>>]
  /\ store = [b \in Blocks |-> Initial(b)]
  /\ status = [r \in Reqs |-> "none"]
  /\ result = [r \in Reqs |-> <<>>]
  /\ weak \in SUBSET Unsynced
  /\ faults = 0
  /\ lostWrites = 0

Submit(r) ==
  /\ req[r] = NoShape
  /\ \E x \in Shapes :
       /\ req' = [req EXCEPT ![r] = x]
       /\ queue' = [queue EXCEPT ![StripeOf(x.first)] = Append(@, r)]
  /\ UNCHANGED <<store, status, result, weak, faults, lostWrites>>

Fault ==
  /\ faults' = faults + 1
  /\ UNCHANGED <<req, queue, store, status, result, weak, lostWrites>>

LostWrite(s) ==
  /\ Writes(s)
  /\ lostWrites' = lostWrites + 1
  /\ weak' = weak \cup {s}
  /\ UNCHANGED <<req, queue, store, status, result, faults>>

\* Nobody gets an answer any more. Only the request that a stripe was serving
\* may have left something behind.
Crash ==
  /\ queue' = [s \in Stripes |-> <<>>]
  /\ DOMAIN store' = Blocks
  /\ \A b \in Blocks :
       \/ store'[b] = store[b]
       \/ LET s == StripeOf(b) IN
            /\ Writes(s) /\ b \in ReqBlocks(Head(queue[s]))
            /\ store'[b] = Written(Head(queue[s]), b)
  /\ \E T \in SUBSET {s \in Stripes : Writes(s)} : weak' = weak \cup T
  /\ UNCHANGED <<req, status, result, faults, lostWrites>>

\* In a weak stripe the blocks of one disk may read as anything once a disk is
\* lost or fails a read.
ReadDone(r) ==
  /\ req[r].op = "read" /\ ~Crosses(r)
  /\ status' = [status EXCEPT ![r] = "Success"]
  /\ result' = [result EXCEPT ![r] = result'[r]]
  /\ DOMAIN result'[r] = ReqBlocks(r)
  /\ LET wrong == {b \in ReqBlocks(r) : result'[r][b] # store[b]} IN
       /\ wrong # {} => StripeOf(req[r].first) \in weak /\ faults >= 1
       /\ \A b, c \in wrong : DiskOf(b) = DiskOf(c)
  /\ UNCHANGED <<store, weak>>

\* The blocks W of the request take their new value.
WriteTo(r, W) ==
  store' = [b \in Blocks |-> IF b \in W THEN Written(r, b) ELSE store[b]]

WriteDone(r) ==
  /\ req[r].op = "write" /\ ~Crosses(r)
  /\ status' = [status EXCEPT ![r] = "Success"]
  /\ WriteTo(r, ReqBlocks(r))
  /\ weak' = weak \ {s \in Stripes : Covers(r, s)}
  /\ UNCHANGED result

\* A write may fail because of one disk: that is what complete_write of raid5.rs
\* does, not what the comment above it says of a data disk (WritePolicy in Raid5).
Failed(r) ==
  /\ \/ Crosses(r) /\ UNCHANGED <<store, weak>>
     \/ req[r].op = "read" /\ faults >= 2 /\ UNCHANGED <<store, weak>>
     \/ /\ req[r].op = "write" /\ faults + lostWrites >= 1
        /\ \E W \in SUBSET ReqBlocks(r) : WriteTo(r, W)
        /\ weak' \in {weak, weak \ {s \in Stripes : Covers(r, s)}}
  /\ status' = [status EXCEPT ![r] = "Failure"]
  /\ UNCHANGED result

Answer(s) ==
  /\ queue[s] # <<>>
  /\ queue' = [queue EXCEPT ![s] = Tail(@)]
  /\ LET r == Head(queue[s]) IN ReadDone(r) \/ WriteDone(r) \/ Failed(r)
  /\ UNCHANGED <<req, faults, lostWrites>>

Next ==
  \/ \E r \in Reqs : Submit(r)
  \/ \E s \in Stripes : Answer(s) \/ LostWrite(s)
  \/ Fault
  \/ Crash

Spec == Init /\ [][Next]_vars
=============================================================================
