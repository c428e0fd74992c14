---------------------------- MODULE Raid1Proofs -----------------------------
(***************************************************************************)
(* Proofs about Raid1, for any number of children, blocks, channels and    *)
(* requests, and any number of children that die and of read and write     *)
(* errors: the children are mirrors but for the blocks they missed, a read *)
(* returns what it may, and a request that no read of its channel overtook *)
(* fails only if it has failed on every child.                             *)
(***************************************************************************)
EXTENDS Raid1, FiniteSetTheorems, TLAPS

-----------------------------------------------------------------------------
(* The inductive invariant.                                                *)

\* The phases of a request.
PhaseInv ==
  \A r \in Reqs :
    /\ phase[r] = "unsent" =>
         tries[r] = 0 /\ status[r] = "none" /\ \A c \in Children : io[r][c] = "none"
    /\ phase[r] # "unsent" => req[r] \in Shapes
    /\ phase[r] \in {"read", "write"} => req[r].op = phase[r] /\ status[r] = "none"
    /\ phase[r] = "read" =>
         /\ target[r] \in Children
         /\ \A c \in Children : io[r][c] \in {"busy", "ok"} => c = target[r]
    /\ phase[r] = "done" => \A c \in Children : io[r][c] # "busy"

\* The I/Os of a write, whose block no other write is changing.
WriteInv ==
  /\ \A r, q \in Reqs :
       phase[r] = "write" /\ phase[q] = "write" /\ Block(r) = Block(q) => r = q
  /\ \A r \in Reqs, c \in Children :
       phase[r] = "write" => io[r][c] \in {"busy", "ok", "bad"}

\* A child that has not missed the last write of a block holds it, or the one
\* that is changing the block if it has taken that. A child that has taken a
\* write has missed none, and no block is missed by all the children.
MirrorInv ==
  /\ \A c \in Children, b \in Blocks : <<c, b>> \notin stale =>
       /\ Writers(b) = {} => disk[c][b] = last[b]
       /\ \A r \in Writers(b) : disk[c][b] = IF io[r][c] = "ok" THEN r ELSE last[b]
  /\ \A c \in Children, b \in Blocks : \A r \in Writers(b) :
       io[r][c] = "ok" => <<c, b>> \notin stale
  /\ \A b \in Blocks : \E c \in Children : <<c, b>> \notin stale

\* A child holds an acknowledged write, or the one it is taking: never one that
\* failed everywhere.
KnownInv ==
  \A c \in Children, b \in Blocks :
    disk[c][b] \in Acknowledged(b) \cup {r \in Writers(b) : io[r][c] = "ok"}

\* What a read may have found.
Fresh(r) ==
  \/ val[r] \in window[r]
  \/ r \in misled /\ val[r] \in Acknowledged(Block(r))

\* What a read may return is in its window, and what it has found is fresh.
WindowInv ==
  \A r \in Reqs :
    /\ phase[r] = "read" =>
         /\ {last[Block(r)]} \cup Writers(Block(r)) \subseteq window[r]
         /\ io[r][target[r]] = "ok" => Fresh(r)
    /\ r \in Reads /\ status[r] = "Success" => Fresh(r)

Inv == TypeOK /\ PhaseInv /\ WriteInv /\ MirrorInv /\ KnownInv /\ WindowInv

\* How many children the round robin tries between child c and child t.
Steps(c, t) == IF c <= t THEN t - c ELSE t - c + N

\* A read that no other read of its channel has overtaken: its last child is
\* the channel's next_read, and all children it has tried before have failed.
TriedInv ==
  \A r \in Reqs \ crowded : phase[r] = "read" =>
    /\ nextRead[Channel(r)] = target[r]
    /\ tries[r] > 0
    /\ \A c \in Children :
         c # target[r] /\ Steps(c, target[r]) < tries[r] => io[r][c] = "bad"

-----------------------------------------------------------------------------
(* The round robin.                                                        *)

LEMMA NextChild ==
  ASSUME NEW t \in Children
  PROVE  /\ (t + 1) % N = IF t + 1 = N THEN 0 ELSE t + 1
         /\ (t + 1) % N \in Children
BY Raid1Assumption DEF Children

\* Each try makes the way from a child to the last one longer by one, and the
\* way from it to itself is 0; no way is as long as N.
LEMMA StepsGrow ==
  ASSUME NEW c \in Children, NEW t \in Children
  PROVE  /\ Steps(c, t) \in 0..(N - 1)
         /\ c # (t + 1) % N => Steps(c, (t + 1) % N) = Steps(c, t) + 1
         /\ c # t => Steps(c, t) > 0
BY NextChild, Raid1Assumption DEF Steps, Children

-----------------------------------------------------------------------------
(* Types.                                                                  *)

LEMMA InitType == Init => TypeOK
<1> SUFFICES ASSUME Init PROVE TypeOK
  OBVIOUS
<1>1. /\ 0 \in Children /\ 0 \in 0..N
      /\ 0 \in 0..MaxReadErrors /\ 0 \in 0..MaxWriteErrors
  BY Raid1Assumption DEF Children
<1> QED  BY <1>1 DEF Init, TypeOK, Values

LEMMA TryNextType ==
  ASSUME TypeOK, NEW r \in Reqs, NEW ch \in Channels, TryNext(r, ch), tries[r] < N
  PROVE  /\ nextRead' \in [Channels -> Children]
         /\ tries' \in [Reqs -> 0..N]
         /\ target' \in [Reqs -> Children \cup {NoChild}]
         /\ io' \in [Reqs -> [Children -> {"none", "busy", "ok", "bad"}]]
         /\ crowded' \in SUBSET Reqs
<1>1. nextRead[ch] \in Children  BY DEF TypeOK
<1>2. PICK next \in Children : next = (nextRead[ch] + 1) % N
  BY <1>1, NextChild
<1>3. tries[r] + 1 \in 0..N  BY Raid1Assumption DEF TypeOK
<1> QED  BY <1>2, <1>3 DEF TryNext, TypeOK, Crowd

\* What an iteration of read changes.
LEMMA Try ==
  ASSUME TypeOK, NEW r \in Reqs, NEW ch \in Channels, TryNext(r, ch)
  PROVE  \E next \in Children :
           /\ next = (nextRead[ch] + 1) % N
           /\ target'[r] = next /\ nextRead'[ch] = next /\ tries'[r] = tries[r] + 1
           /\ \A c \in Children : io'[r][c] = IF c = next THEN "busy" ELSE io[r][c]
           /\ \A q \in Reqs : q # r =>
                io'[q] = io[q] /\ tries'[q] = tries[q] /\ target'[q] = target[q]
           /\ \A d \in Channels : d # ch => nextRead'[d] = nextRead[d]
           /\ crowded' = crowded \cup Crowd(r, ch)
<1>1. nextRead[ch] \in Children  BY DEF TypeOK
<1>2. PICK next \in Children : next = (nextRead[ch] + 1) % N
  BY <1>1, NextChild
<1> QED  BY <1>2 DEF TryNext, TypeOK

\* What a request does: the step of a submission or of a task.
Submits(r, o, b, ch) ==
  /\ phase[r] = "unsent" /\ b \in Blocks /\ ch \in Channels
  /\ req' = [req EXCEPT ![r] = [op |-> o, block |-> b, ch |-> ch]]
  /\ phase' = [phase EXCEPT ![r] = o]

LEMMA SubmitShape ==
  ASSUME TypeOK, NEW r \in Reqs, NEW o \in {"read", "write"}, NEW b, NEW ch,
         Submits(r, o, b, ch)
  PROVE  /\ req' \in [Reqs -> Shapes \cup {NoShape}]
         /\ phase' \in [Reqs -> {"unsent", "read", "write", "done"}]
         /\ req'[r] \in Shapes /\ req'[r].op = o
         /\ req'[r].block = b /\ req'[r].ch = ch /\ phase'[r] = o
         /\ \A q \in Reqs : q # r => req'[q] = req[q] /\ phase'[q] = phase[q]
<1>1. [op |-> o, block |-> b, ch |-> ch] \in Shapes  BY DEF Submits, Shapes
<1> QED  BY <1>1 DEF Submits, TypeOK

LEMMA NextType == TypeOK /\ PhaseInv /\ [Next]_vars => TypeOK'
<1> SUFFICES ASSUME TypeOK, PhaseInv, [Next]_vars PROVE TypeOK'
  OBVIOUS
<1>1. ASSUME NEW r \in Reqs, SubmitRead(r) PROVE TypeOK'
  <2>1. PICK b \in Blocks, ch \in Channels :
          /\ Submits(r, "read", b, ch) /\ TryNext(r, ch)
          /\ window' = [window EXCEPT ![r] = {last[b]} \cup Writers(b)]
    BY <1>1 DEF SubmitRead, Submits
  <2>2. tries[r] < N  BY <1>1, Raid1Assumption DEF SubmitRead, PhaseInv
  <2>3. {last[b]} \cup Writers(b) \subseteq Values
    BY DEF TypeOK, Writers, Values
  <2>4. window' \in [Reqs -> SUBSET Values]  BY <2>1, <2>3 DEF TypeOK
  <2>5. UNCHANGED <<val, status, diskVars, last, stale, misled>>
    BY <1>1 DEF SubmitRead
  <2> QED
    BY <2>1, <2>2, <2>4, <2>5, SubmitShape, TryNextType DEF TypeOK, diskVars
<1>2. ASSUME NEW r \in Reqs, SubmitWrite(r) PROVE TypeOK'
  <2>1. PICK b \in Blocks, ch \in Channels :
          /\ Submits(r, "write", b, ch)
          /\ window' = [q \in Reqs |->
               IF q \in Readers(b) THEN window[q] \cup {r} ELSE window[q]]
    BY <1>2 DEF SubmitWrite, Submits
  <2>2. window' \in [Reqs -> SUBSET Values]  BY <2>1 DEF TypeOK, Values
  <2>3. /\ io' = [io EXCEPT ![r] = [c \in Children |-> "busy"]]
        /\ UNCHANGED <<nextRead, tries, target, val, status, diskVars, last,
                       stale, misled, crowded>>
    BY <1>2 DEF SubmitWrite
  <2>4. io' \in [Reqs -> [Children -> {"none", "busy", "ok", "bad"}]]
    BY <2>3 DEF TypeOK
  <2> QED  BY <2>1, <2>2, <2>3, <2>4, SubmitShape DEF TypeOK, diskVars
<1>3. ASSUME NEW r \in Reqs, Resume(r) PROVE TypeOK'
  <2>1. CASE ReadRetry(r)
    <3>1. tries[r] < N /\ TryNext(r, Channel(r)) /\ Channel(r) \in Channels
      BY <2>1 DEF ReadRetry, PhaseInv, Channel, Shapes
    <3> QED  BY <2>1, <3>1, TryNextType DEF ReadRetry, TypeOK, diskVars
  <2>2. CASE ReadOk(r)
    BY <2>2 DEF ReadOk, Reply, TypeOK, diskVars
  <2>3. CASE ReadFail(r)
    BY <2>3 DEF ReadFail, Reply, TypeOK, diskVars
  <2>4. CASE WriteDone(r)
    <3>1. last' = last \/ last' = [last EXCEPT ![Block(r)] = r]
      BY <2>4 DEF WriteDone
    <3>2. last' \in [Blocks -> Values]  BY <3>1 DEF TypeOK, Values
    <3>3. Reply(r, "Success") \/ Reply(r, "Failure")  BY <2>4 DEF WriteDone
    <3>4. /\ phase' \in [Reqs -> {"unsent", "read", "write", "done"}]
          /\ status' \in [Reqs -> {"none", "Success", "Failure"}]
      BY <3>3 DEF Reply, TypeOK
    <3>5. Block(r) \in Blocks  BY <2>4 DEF WriteDone, PhaseInv, Block, Shapes
    <3>6. stale' \in SUBSET (Children \X Blocks)
      BY <2>4, <3>5 DEF WriteDone, Missed, TypeOK
    <3> QED  BY <2>4, <3>2, <3>4, <3>6 DEF WriteDone, TypeOK, diskVars
  <2> QED  BY <1>3, <2>1, <2>2, <2>3, <2>4 DEF Resume
<1>4. ASSUME NEW c \in Children, Die(c) PROVE TypeOK'
  BY <1>4 DEF Die, reqVars, TypeOK
<1>5. ASSUME NEW r \in Reqs, NEW c \in Children, Complete(r, c) PROVE TypeOK'
  <2>1. \A x \in {"ok", "bad"} :
          [io EXCEPT ![r][c] = x] \in [Reqs -> [Children -> {"none", "busy", "ok", "bad"}]]
    BY DEF TypeOK
  <2>2. CASE Succeed(r, c)
    <3>1. Block(r) \in Blocks
      BY <2>2 DEF Succeed, PhaseInv, Block, Shapes
    <3>2. /\ [disk EXCEPT ![c][Block(r)] = r] \in [Children -> [Blocks -> Values]]
          /\ [val EXCEPT ![r] = disk[c][Block(r)]] \in [Reqs -> Values]
      BY <3>1 DEF TypeOK, Values
    <3>3. /\ disk' \in [Children -> [Blocks -> Values]]
          /\ val' \in [Reqs -> Values]
          /\ stale' \in SUBSET (Children \X Blocks) /\ misled' \in SUBSET Reqs
      BY <2>2, <3>2 DEF Succeed, TypeOK
    <3> QED  BY <1>5, <2>1, <2>2, <3>3 DEF Complete, Succeed, TypeOK
  <2>3. CASE Fail(r, c)
    BY <1>5, <2>1, <2>3, Raid1Assumption DEF Complete, Fail, TypeOK
  <2> QED  BY <1>5, <2>2, <2>3 DEF Complete
<1>6. CASE UNCHANGED vars
  BY <1>6 DEF vars, reqVars, diskVars, TypeOK
<1> QED  BY <1>1, <1>2, <1>3, <1>4, <1>5, <1>6 DEF Next

-----------------------------------------------------------------------------
(* Requests and their I/Os.                                                *)

LEMMA NextPhase == TypeOK /\ PhaseInv /\ [Next]_vars => PhaseInv'
<1> SUFFICES ASSUME TypeOK, PhaseInv, [Next]_vars PROVE PhaseInv'
  OBVIOUS
<1>1. ASSUME NEW r \in Reqs, SubmitRead(r) PROVE PhaseInv'
  <2>1. PICK b \in Blocks, ch \in Channels :
          Submits(r, "read", b, ch) /\ TryNext(r, ch)
    BY <1>1 DEF SubmitRead, Submits
  <2>2. PICK next \in Children :
          /\ target'[r] = next
          /\ \A c \in Children : io'[r][c] = IF c = next THEN "busy" ELSE io[r][c]
          /\ \A q \in Reqs : q # r =>
               io'[q] = io[q] /\ tries'[q] = tries[q] /\ target'[q] = target[q]
    BY <2>1, Try
  <2>3. /\ UNCHANGED status /\ status[r] = "none"
        /\ \A c \in Children : io[r][c] = "none"
    BY <1>1 DEF SubmitRead, PhaseInv
  <2> QED  BY <2>1, <2>2, <2>3, SubmitShape DEF PhaseInv
<1>2. ASSUME NEW r \in Reqs, SubmitWrite(r) PROVE PhaseInv'
  <2>1. PICK b \in Blocks, ch \in Channels : Submits(r, "write", b, ch)
    BY <1>2 DEF SubmitWrite, Submits
  <2>2. /\ \A q \in Reqs : q # r => io'[q] = io[q]
        /\ UNCHANGED <<tries, target, status>> /\ status[r] = "none"
    BY <1>2 DEF SubmitWrite, PhaseInv, TypeOK
  <2> QED  BY <2>1, <2>2, SubmitShape DEF PhaseInv
<1>3. ASSUME NEW r \in Reqs, ReadRetry(r) PROVE PhaseInv'
  <2>1. TryNext(r, Channel(r)) /\ Channel(r) \in Channels
    BY <1>3 DEF ReadRetry, PhaseInv, Channel, Shapes
  <2>2. PICK next \in Children :
          /\ target'[r] = next
          /\ \A c \in Children : io'[r][c] = IF c = next THEN "busy" ELSE io[r][c]
          /\ \A q \in Reqs : q # r =>
               io'[q] = io[q] /\ tries'[q] = tries[q] /\ target'[q] = target[q]
    BY <2>1, Try
  <2>3. /\ phase[r] = "read" /\ UNCHANGED <<req, phase, status>>
        /\ \A c \in Children : io[r][c] \notin {"busy", "ok"}
    BY <1>3 DEF ReadRetry, PhaseInv
  <2> QED  BY <2>2, <2>3 DEF PhaseInv
<1>4. ASSUME NEW r \in Reqs, ReadOk(r) \/ ReadFail(r) PROVE PhaseInv'
  <2>1. /\ phase[r] = "read" /\ io[r][target[r]] \in {"ok", "bad"}
        /\ Reply(r, "Success") \/ Reply(r, "Failure")
        /\ UNCHANGED <<req, tries, target, io>>
    BY <1>4 DEF ReadOk, ReadFail
  <2> QED  BY <2>1 DEF Reply, PhaseInv, TypeOK
<1>5. ASSUME NEW r \in Reqs, WriteDone(r) PROVE PhaseInv'
  <2>1. /\ phase[r] = "write" /\ \A c \in Children : io[r][c] # "busy"
        /\ Reply(r, "Success") \/ Reply(r, "Failure")
        /\ UNCHANGED <<req, tries, target, io>>
    BY <1>5 DEF WriteDone, Busy
  <2> QED  BY <2>1 DEF Reply, PhaseInv, TypeOK
<1>6. ASSUME NEW c \in Children, Die(c) PROVE PhaseInv'
  BY <1>6 DEF Die, reqVars, PhaseInv
<1>7. ASSUME NEW r \in Reqs, NEW c \in Children, Complete(r, c) PROVE PhaseInv'
  <2>1. PICK x \in {"ok", "bad"} : io' = [io EXCEPT ![r][c] = x]
    BY <1>7 DEF Complete, Succeed, Fail
  <2> QED  BY <1>7, <2>1 DEF Complete, PhaseInv, TypeOK
<1>8. CASE UNCHANGED vars
  BY <1>8 DEF vars, reqVars, PhaseInv
<1> QED
  BY <1>1, <1>2, <1>3, <1>4, <1>5, <1>6, <1>7, <1>8 DEF Next, Resume

\* The steps of reads, as the writes see them.
LEMMA ReadFrame ==
  ASSUME TypeOK, PhaseInv, NEW r \in Reqs,
         SubmitRead(r) \/ ReadRetry(r) \/ ReadOk(r) \/ ReadFail(r)
  PROVE  /\ UNCHANGED <<disk, dead, last, stale, misled>>
         /\ \A q \in Reqs :
              /\ phase'[q] = "write" <=> phase[q] = "write"
              /\ phase[q] = "write" => req'[q] = req[q] /\ io'[q] = io[q]
<1>1. ASSUME NEW ch \in Channels, TryNext(r, ch)
      PROVE  \A q \in Reqs : q # r => io'[q] = io[q]
  BY <1>1, Try
<1>2. CASE SubmitRead(r)
  <2>1. PICK b \in Blocks, ch \in Channels :
          Submits(r, "read", b, ch) /\ TryNext(r, ch)
    BY <1>2 DEF SubmitRead, Submits
  <2> QED  BY <1>1, <1>2, <2>1, SubmitShape DEF SubmitRead, diskVars
<1>3. CASE ReadRetry(r)
  <2>1. TryNext(r, Channel(r)) /\ Channel(r) \in Channels
    BY <1>3 DEF ReadRetry, PhaseInv, Channel, Shapes
  <2> QED  BY <1>1, <1>3, <2>1 DEF ReadRetry, diskVars
<1>4. CASE ReadOk(r) \/ ReadFail(r)
  BY <1>4 DEF ReadOk, ReadFail, Reply, TypeOK, diskVars
<1> QED  BY <1>2, <1>3, <1>4

LEMMA NextWrite == TypeOK /\ PhaseInv /\ WriteInv /\ [Next]_vars => WriteInv'
<1> SUFFICES ASSUME TypeOK, PhaseInv, WriteInv, [Next]_vars PROVE WriteInv'
  OBVIOUS
<1>1. ASSUME NEW r \in Reqs,
             SubmitRead(r) \/ ReadRetry(r) \/ ReadOk(r) \/ ReadFail(r)
      PROVE  WriteInv'
  BY <1>1, ReadFrame DEF WriteInv, Block
<1>2. ASSUME NEW r \in Reqs, SubmitWrite(r) PROVE WriteInv'
  <2>1. PICK b \in Blocks, ch \in Channels :
          Submits(r, "write", b, ch) /\ Writers(b) = {}
    BY <1>2 DEF SubmitWrite, Submits
  <2>2. /\ \A q \in Reqs : q # r => io'[q] = io[q]
        /\ \A c \in Children : io'[r][c] = "busy"
    BY <1>2 DEF SubmitWrite, TypeOK
  <2>3. \A q \in Reqs : phase[q] = "write" => Block(q) # b
    BY <2>1 DEF Writers
  <2> QED  BY <2>1, <2>2, <2>3, SubmitShape DEF WriteInv, Block
<1>3. ASSUME NEW r \in Reqs, WriteDone(r) PROVE WriteInv'
  <2>1. \A q \in Reqs : phase'[q] = "write" => phase[q] = "write"
    BY <1>3 DEF WriteDone, Reply, TypeOK
  <2> QED  BY <1>3, <2>1 DEF WriteDone, diskVars, WriteInv, Block
<1>4. ASSUME NEW c \in Children, Die(c) PROVE WriteInv'
  BY <1>4 DEF Die, reqVars, WriteInv, Block
<1>5. ASSUME NEW r \in Reqs, NEW c \in Children, Complete(r, c) PROVE WriteInv'
  <2>1. PICK x \in {"ok", "bad"} : io' = [io EXCEPT ![r][c] = x]
    BY <1>5 DEF Complete, Succeed, Fail
  <2>2. \A q \in Reqs, d \in Children : io'[q][d] = IF q = r /\ d = c THEN x ELSE io[q][d]
    BY <2>1 DEF TypeOK
  <2> QED  BY <1>5, <2>2 DEF Complete, WriteInv, Block
<1>6. CASE UNCHANGED vars
  BY <1>6 DEF vars, reqVars, diskVars, WriteInv, Block
<1> QED
  BY <1>1, <1>2, <1>3, <1>4, <1>5, <1>6 DEF Next, Resume

-----------------------------------------------------------------------------
(* The mirrors.                                                            *)

LEMMA WritersSame ==
  ASSUME NEW b,
         \A q \in Reqs : /\ phase'[q] = "write" <=> phase[q] = "write"
                         /\ phase[q] = "write" => req'[q] = req[q]
  PROVE  Writers(b)' = Writers(b)
BY DEF Writers, Block

LEMMA NextMirror ==
  TypeOK /\ PhaseInv /\ WriteInv /\ MirrorInv /\ [Next]_vars => MirrorInv'
<1> SUFFICES ASSUME TypeOK, PhaseInv, WriteInv, MirrorInv, [Next]_vars
             PROVE  MirrorInv'
  OBVIOUS
<1>1. ASSUME NEW r \in Reqs,
             SubmitRead(r) \/ ReadRetry(r) \/ ReadOk(r) \/ ReadFail(r)
      PROVE  MirrorInv'
  <2>1. \A b : Writers(b)' = Writers(b)  BY <1>1, ReadFrame, WritersSame
  <2>2. \A b : \A q \in Writers(b) : io'[q] = io[q]
    BY <1>1, ReadFrame DEF Writers
  <2> QED  BY <1>1, <2>1, <2>2, ReadFrame DEF MirrorInv
<1>2. ASSUME NEW r \in Reqs, SubmitWrite(r) PROVE MirrorInv'
  <2>1. PICK b \in Blocks, ch \in Channels :
          Submits(r, "write", b, ch) /\ Writers(b) = {}
    BY <1>2 DEF SubmitWrite, Submits
  <2>2. /\ \A q \in Reqs : q # r => io'[q] = io[q]
        /\ \A c \in Children : io'[r][c] = "busy"
        /\ UNCHANGED <<disk, last, stale>>
    BY <1>2 DEF SubmitWrite, TypeOK, diskVars
  <2>3. \A d \in Blocks : Writers(d)' = IF d = b THEN {r} ELSE Writers(d)
    <3>1. \A q \in Reqs : q # r => req'[q] = req[q] /\ phase'[q] = phase[q]
      BY <2>1, SubmitShape
    <3>2. phase'[r] = "write" /\ req'[r].block = b  BY <2>1, SubmitShape
    <3>3. phase[r] # "write"  BY <2>1 DEF Submits
    <3>4. \A q \in Writers(b) : FALSE  BY <2>1
    <3> QED  BY <3>1, <3>2, <3>3, <3>4 DEF Writers, Block
  <2>4. \A d \in Blocks : r \notin Writers(d)
    BY <2>1 DEF Writers, Submits
  <2> QED  BY <2>1, <2>2, <2>3, <2>4 DEF MirrorInv, Writers
<1>3. ASSUME NEW r \in Reqs, WriteDone(r) PROVE MirrorInv'
  <2> DEFINE b == Block(r)
  <2>1. /\ phase[r] = "write" /\ UNCHANGED <<req, io, disk>>
        /\ \A c \in Children : io[r][c] \in {"ok", "bad"}
        /\ \A q \in Reqs : phase'[q] = "write" <=> phase[q] = "write" /\ q # r
    BY <1>3 DEF WriteDone, Busy, Reply, TypeOK, diskVars, WriteInv
  <2>2. \A d \in Blocks : Writers(d)' = IF d = b THEN {} ELSE Writers(d)
    BY <2>1 DEF Writers, Block, WriteInv
  <2>3. r \in Writers(b) /\ b \in Blocks
    BY <2>1 DEF Writers, PhaseInv, Block, Shapes
  <2>4. CASE /\ \E c \in Children : io[r][c] = "ok"
             /\ last' = [last EXCEPT ![b] = r]
             /\ stale' = stale \cup Missed(r)
    <3>1. \A c \in Children, d \in Blocks :
            <<c, d>> \in stale' <=> <<c, d>> \in stale \/ (io[r][c] = "bad" /\ d = b)
      BY <2>4 DEF Missed
    <3>2. \A c \in Children : <<c, b>> \notin stale' => disk[c][b] = r
      BY <2>1, <2>3, <3>1 DEF MirrorInv
    <3>3. \E c \in Children : <<c, b>> \notin stale'
      BY <2>3, <2>4, <3>1 DEF MirrorInv
    <3>4. \A d \in Blocks : last'[d] = IF d = b THEN r ELSE last[d]
      BY <2>4 DEF TypeOK
    <3> HIDE DEF b
    <3> QED  BY <2>1, <2>2, <3>1, <3>2, <3>3, <3>4 DEF MirrorInv
  <2>5. CASE (\A c \in Children : io[r][c] # "ok") /\ UNCHANGED <<last, stale>>
    <3>1. \A c \in Children : <<c, b>> \notin stale => disk[c][b] = last[b]
      BY <2>3, <2>5 DEF MirrorInv
    <3> HIDE DEF b
    <3> QED  BY <2>1, <2>2, <2>5, <3>1 DEF MirrorInv
  <2> QED  BY <1>3, <2>4, <2>5 DEF WriteDone
<1>4. ASSUME NEW c \in Children, Die(c) PROVE MirrorInv'
  BY <1>4 DEF Die, reqVars, MirrorInv, Writers, Block
<1>5. ASSUME NEW r \in Reqs, NEW c \in Children, Complete(r, c) PROVE MirrorInv'
  <2>1. PICK x \in {"ok", "bad"} : io' = [io EXCEPT ![r][c] = x]
    BY <1>5 DEF Complete, Succeed, Fail
  <2>2. \A q \in Reqs, d \in Children : io'[q][d] = IF q = r /\ d = c THEN x ELSE io[q][d]
    BY <2>1 DEF TypeOK
  <2>3. /\ \A b : Writers(b)' = Writers(b) /\ Writers(b) \subseteq Reqs
        /\ UNCHANGED last /\ io[r][c] = "busy"
    BY <1>5, WritersSame DEF Complete, Writers
  <2>4. CASE Fail(r, c)
    <3>1. UNCHANGED <<disk, stale>> /\ x = "bad"
      BY <2>1, <2>4 DEF Fail, TypeOK
    <3> QED  BY <2>2, <2>3, <3>1 DEF MirrorInv
  <2>5. CASE Succeed(r, c) /\ phase[r] # "write"
    <3>1. UNCHANGED <<disk, stale>>  BY <2>5 DEF Succeed
    <3>2. \A b : r \notin Writers(b)  BY <2>5 DEF Writers
    <3> QED  BY <2>2, <2>3, <3>1, <3>2 DEF MirrorInv
  <2>6. CASE Succeed(r, c) /\ phase[r] = "write"
    <3> DEFINE b == Block(r)
    <3>1. /\ disk' = [disk EXCEPT ![c][b] = r] /\ io' = [io EXCEPT ![r][c] = "ok"]
          /\ stale' = stale \ {<<c, b>>}
      BY <2>6 DEF Succeed
    <3>2. b \in Blocks /\ \A q \in Writers(b) : q = r
      BY <2>6 DEF PhaseInv, Block, Shapes, Writers, WriteInv
    <3>3. \A d \in Children, e \in Blocks :
            /\ disk'[d][e] = IF d = c /\ e = b THEN r ELSE disk[d][e]
            /\ <<d, e>> \in stale' <=> <<d, e>> \in stale /\ ~(d = c /\ e = b)
      BY <3>1, <3>2 DEF TypeOK
    <3>4. io'[r][c] = "ok"  BY <3>1 DEF TypeOK
    <3>5. \A e \in Blocks : e # b => r \notin Writers(e)
      BY DEF Writers
    <3>6. r \in Writers(b)  BY <2>6 DEF Writers
    <3> HIDE DEF b
    <3> QED  BY <2>2, <2>3, <3>2, <3>3, <3>4, <3>5, <3>6 DEF MirrorInv
  <2> QED  BY <1>5, <2>4, <2>5, <2>6 DEF Complete
<1>6. CASE UNCHANGED vars
  BY <1>6 DEF vars, reqVars, diskVars, MirrorInv, Writers, Block
<1> QED
  BY <1>1, <1>2, <1>3, <1>4, <1>5, <1>6 DEF Next, Resume

\* An answer is for good.
LEMMA DoneStays ==
  ASSUME TypeOK, PhaseInv, [Next]_vars, NEW q \in Reqs, status[q] # "none"
  PROVE  /\ req[q] \in Shapes /\ phase[q] = "done"
         /\ UNCHANGED <<req[q], status[q], val[q], io[q]>>
<1>1. phase[q] = "done" /\ req[q] \in Shapes  BY DEF PhaseInv, TypeOK
<1>2. ASSUME NEW r \in Reqs, SubmitRead(r)
      PROVE  UNCHANGED <<req[q], status[q], val[q], io[q]>>
  <2>1. PICK b \in Blocks, ch \in Channels :
          Submits(r, "read", b, ch) /\ TryNext(r, ch)
    BY <1>2 DEF SubmitRead, Submits
  <2>2. r # q /\ UNCHANGED <<status, val>>  BY <1>1, <1>2 DEF SubmitRead
  <2> QED  BY <2>1, <2>2, Try, SubmitShape
<1>3. ASSUME NEW r \in Reqs, SubmitWrite(r)
      PROVE  UNCHANGED <<req[q], status[q], val[q], io[q]>>
  <2>1. PICK b \in Blocks, ch \in Channels : Submits(r, "write", b, ch)
    BY <1>3 DEF SubmitWrite, Submits
  <2>2. r # q /\ UNCHANGED <<status, val>> /\ io'[q] = io[q]
    BY <1>1, <1>3 DEF SubmitWrite, TypeOK
  <2> QED  BY <2>1, <2>2, SubmitShape
<1>4. ASSUME NEW r \in Reqs, ReadRetry(r)
      PROVE  UNCHANGED <<req[q], status[q], val[q], io[q]>>
  <2>1. TryNext(r, Channel(r)) /\ Channel(r) \in Channels
    BY <1>4 DEF ReadRetry, PhaseInv, Channel, Shapes
  <2>2. r # q /\ UNCHANGED <<req, status, val>>  BY <1>1, <1>4 DEF ReadRetry
  <2> QED  BY <2>1, <2>2, Try
<1>5. ASSUME NEW r \in Reqs, ReadOk(r) \/ ReadFail(r) \/ WriteDone(r)
      PROVE  UNCHANGED <<req[q], status[q], val[q], io[q]>>
  BY <1>1, <1>5 DEF ReadOk, ReadFail, WriteDone, Reply, TypeOK
<1>6. ASSUME NEW r \in Reqs, NEW c \in Children, Complete(r, c)
      PROVE  UNCHANGED <<req[q], status[q], val[q], io[q]>>
  <2>1. r # q  BY <1>1, <1>6 DEF Complete, PhaseInv
  <2> QED  BY <1>6, <2>1 DEF Complete, Succeed, Fail, TypeOK
<1>7. ASSUME (\E c \in Children : Die(c)) \/ UNCHANGED vars
      PROVE  UNCHANGED <<req[q], status[q], val[q], io[q]>>
  BY <1>7 DEF Die, vars, reqVars
<1> QED
  BY <1>1, <1>2, <1>3, <1>4, <1>5, <1>6, <1>7 DEF Next, Resume

LEMMA AcknowledgedGrows ==
  ASSUME TypeOK, PhaseInv, [Next]_vars, NEW b
  PROVE  Acknowledged(b) \subseteq Acknowledged(b)'
<1>1. ASSUME NEW r \in Reqs \ Reads, status[r] = "Success", Block(r) = b
      PROVE  r \in Reqs \ Reads' /\ status'[r] = "Success" /\ Block(r)' = b
  BY <1>1, DoneStays DEF Reads, Block
<1> QED  BY <1>1 DEF Acknowledged

LEMMA NextKnown ==
  TypeOK /\ PhaseInv /\ WriteInv /\ KnownInv /\ [Next]_vars => KnownInv'
<1> SUFFICES ASSUME TypeOK, PhaseInv, WriteInv, KnownInv, [Next]_vars
             PROVE  KnownInv'
  OBVIOUS
<1> DEFINE Taken(c, b) == {r \in Writers(b) : io[r][c] = "ok"}
<1>1. ASSUME UNCHANGED disk,
             \A c \in Children, b \in Blocks : Taken(c, b) \subseteq Taken(c, b)'
      PROVE  KnownInv'
  BY <1>1, AcknowledgedGrows DEF KnownInv
<1>2. ASSUME NEW r \in Reqs,
             SubmitRead(r) \/ ReadRetry(r) \/ ReadOk(r) \/ ReadFail(r)
      PROVE  KnownInv'
  <2>1. \A b : Writers(b)' = Writers(b)  BY <1>2, ReadFrame, WritersSame
  <2>2. \A b : \A q \in Writers(b) : io'[q] = io[q]
    BY <1>2, ReadFrame DEF Writers
  <2> QED  BY <1>1, <1>2, <2>1, <2>2, ReadFrame
<1>3. ASSUME NEW r \in Reqs, SubmitWrite(r) PROVE KnownInv'
  <2>1. PICK b \in Blocks, ch \in Channels : Submits(r, "write", b, ch)
    BY <1>3 DEF SubmitWrite, Submits
  <2>2. /\ \A q \in Reqs : q # r => io'[q] = io[q]
        /\ UNCHANGED disk /\ phase[r] # "write"
    BY <1>3 DEF SubmitWrite, TypeOK, diskVars
  <2>3. \A d \in Blocks : \A q \in Writers(d) : q # r /\ q \in Writers(d)'
    BY <2>1, <2>2, SubmitShape DEF Writers, Block
  <2> QED  BY <1>1, <2>2, <2>3 DEF Writers
<1>4. ASSUME NEW r \in Reqs, WriteDone(r) PROVE KnownInv'
  <2>1. /\ phase[r] = "write" /\ UNCHANGED <<req, io, disk>>
        /\ \A q \in Reqs : phase'[q] = "write" <=> phase[q] = "write" /\ q # r
    BY <1>4 DEF WriteDone, Reply, TypeOK, diskVars
  <2>2. \A d \in Blocks : Writers(d)' = Writers(d) \ {r}
    BY <2>1 DEF Writers, Block
  <2>3. ASSUME NEW c \in Children, NEW b \in Blocks, r \in Taken(c, b)
        PROVE  r \in Acknowledged(b)'
    <3>1. status'[r] = "Success"
      BY <1>4, <2>3 DEF WriteDone, Reply, TypeOK
    <3>2. Block(r) = b /\ r \notin Reads
      BY <2>1, <2>3 DEF Writers, Reads, PhaseInv
    <3> QED  BY <2>1, <3>1, <3>2 DEF Acknowledged, Block, Reads
  <2>4. ASSUME NEW c \in Children, NEW b \in Blocks
        PROVE  disk'[c][b] \in Acknowledged(b)' \cup Taken(c, b)'
    <3>1. Taken(c, b) \subseteq Taken(c, b)' \cup {r}  BY <2>1, <2>2
    <3> QED  BY <2>1, <2>3, <3>1, AcknowledgedGrows DEF KnownInv
  <2> QED  BY <2>4 DEF KnownInv
<1>5. ASSUME NEW c \in Children, Die(c) PROVE KnownInv'
  BY <1>1, <1>5 DEF Die, reqVars, Writers, Block
<1>6. ASSUME NEW r \in Reqs, NEW c \in Children, Complete(r, c) PROVE KnownInv'
  <2>1. PICK x \in {"ok", "bad"} : io' = [io EXCEPT ![r][c] = x]
    BY <1>6 DEF Complete, Succeed, Fail
  <2>2. /\ \A b : Writers(b)' = Writers(b) /\ Writers(b) \subseteq Reqs
        /\ io[r][c] = "busy"
    BY <1>6, WritersSame DEF Complete, Writers
  <2>3. \A q \in Reqs, d \in Children : io'[q][d] = IF q = r /\ d = c THEN x ELSE io[q][d]
    BY <2>1 DEF TypeOK
  <2>4. \A d \in Children, e \in Blocks : Taken(d, e) \subseteq Taken(d, e)'
    BY <2>2, <2>3
  <2>5. CASE UNCHANGED disk
    BY <1>1, <2>4, <2>5
  <2>6. CASE Succeed(r, c) /\ phase[r] = "write"
    <3>0. PICK b \in Blocks : b = Block(r)
      BY <2>6 DEF PhaseInv, Block, Shapes
    <3>1. /\ disk' = [disk EXCEPT ![c][b] = r] /\ io'[r][c] = "ok"
          /\ r \in Writers(b)
      BY <2>6, <3>0 DEF Succeed, TypeOK, Writers
    <3>2. r \in Taken(c, b)'  BY <2>2, <3>1
    <3>3. \A d \in Children, e \in Blocks :
            disk'[d][e] = IF d = c /\ e = b THEN r ELSE disk[d][e]
      BY <3>1 DEF TypeOK
    <3>4. ASSUME NEW d \in Children, NEW e \in Blocks
          PROVE  disk'[d][e] \in Acknowledged(e)' \cup Taken(d, e)'
      <4>1. CASE d = c /\ e = b
        <5>1. disk'[d][e] = r  BY <3>3, <4>1
        <5> HIDE DEF Taken
        <5> QED  BY <3>2, <4>1, <5>1
      <4>2. CASE ~(d = c /\ e = b)
        <5>1. disk'[d][e] = disk[d][e]  BY <3>3, <4>2
        <5>2. disk[d][e] \in Acknowledged(e) \cup Taken(d, e)  BY DEF KnownInv
        <5>3. Taken(d, e) \subseteq Taken(d, e)'  BY <2>4
        <5>4. Acknowledged(e) \subseteq Acknowledged(e)'  BY AcknowledgedGrows
        <5> HIDE DEF Taken
        <5> QED  BY <5>1, <5>2, <5>3, <5>4
      <4> QED  BY <4>1, <4>2
    <3> QED  BY <3>4 DEF KnownInv
  <2> QED  BY <1>6, <2>5, <2>6 DEF Complete, Succeed, Fail
<1>7. CASE UNCHANGED vars
  BY <1>1, <1>7 DEF vars, reqVars, diskVars, Writers, Block
<1> QED
  BY <1>2, <1>3, <1>4, <1>5, <1>6, <1>7 DEF Next, Resume

-----------------------------------------------------------------------------
(* What reads find.                                                        *)

\* What a read has found stays fresh.
LEMMA FreshStays ==
  ASSUME TypeOK, PhaseInv, [Next]_vars, NEW r \in Reqs, Fresh(r),
         UNCHANGED <<val[r], req[r]>>, window[r] \subseteq window'[r],
         misled \subseteq misled'
  PROVE  Fresh(r)'
<1>1. Block(r)' = Block(r)  BY DEF Block
<1>2. Acknowledged(Block(r)) \subseteq Acknowledged(Block(r))'
  <2>1. PICK b : b = Block(r)  OBVIOUS
  <2>2. Acknowledged(b) \subseteq Acknowledged(b)'  BY AcknowledgedGrows
  <2>3. Acknowledged(Block(r))' = Acknowledged(b)'  BY <1>1, <2>1 DEF Acknowledged
  <2> QED  BY <2>1, <2>2, <2>3
<1> QED  BY <1>2 DEF Fresh

LEMMA NextWindow ==
  Inv /\ [Next]_vars => WindowInv'
<1> SUFFICES ASSUME Inv, [Next]_vars PROVE WindowInv'
  OBVIOUS
<1> USE DEF Inv
<1>1. ASSUME NEW r \in Reqs, SubmitRead(r) PROVE WindowInv'
  <2>1. PICK b \in Blocks, ch \in Channels :
          /\ Submits(r, "read", b, ch) /\ TryNext(r, ch)
          /\ window' = [window EXCEPT ![r] = {last[b]} \cup Writers(b)]
    BY <1>1 DEF SubmitRead, Submits
  <2>2. /\ UNCHANGED <<val, status, last, misled>> /\ status[r] = "none"
        /\ \A d : Writers(d)' = Writers(d)
    BY <1>1, ReadFrame, WritersSame DEF SubmitRead, PhaseInv
  <2>3. \A q \in Reqs : q # r =>
          /\ io'[q] = io[q] /\ target'[q] = target[q] /\ window'[q] = window[q]
          /\ Fresh(q) => Fresh(q)'
    BY <2>1, <2>2, Try, SubmitShape, FreshStays DEF TypeOK
  <2>4. io'[r][target'[r]] = "busy"  BY <2>1, Try
  <2>5. window'[r] = {last[b]} \cup Writers(b)  BY <2>1 DEF TypeOK
  <2>6. \A q \in Reqs : q # r => (q \in Reads' <=> q \in Reads)
    BY <2>1, SubmitShape DEF Reads
  <2> QED
    BY <2>1, <2>2, <2>3, <2>4, <2>5, <2>6, SubmitShape DEF WindowInv, Block
<1>2. ASSUME NEW r \in Reqs, SubmitWrite(r) PROVE WindowInv'
  <2>1. PICK b \in Blocks, ch \in Channels :
          /\ Submits(r, "write", b, ch)
          /\ window' = [q \in Reqs |->
               IF q \in Readers(b) THEN window[q] \cup {r} ELSE window[q]]
    BY <1>2 DEF SubmitWrite, Submits
  <2>2. /\ \A q \in Reqs : q # r => io'[q] = io[q]
        /\ UNCHANGED <<target, val, status, last, misled>>
    BY <1>2 DEF SubmitWrite, TypeOK
  <2>3. /\ \A q \in Reqs : q # r => req'[q] = req[q] /\ phase'[q] = phase[q]
        /\ phase'[r] = "write" /\ req'[r].block = b /\ req'[r].op = "write"
    BY <2>1, SubmitShape
  <2>4. \A d : Writers(d)' \subseteq Writers(d) \cup (IF d = b THEN {r} ELSE {})
    BY <2>3 DEF Writers, Block
  <2>5. ASSUME NEW q \in Reqs, phase'[q] = "read"
        PROVE  Writers(Block(q))' \subseteq window'[q]
    <3>1. q # r /\ phase[q] = "read" /\ req'[q] = req[q]  BY <2>3, <2>5
    <3>2. Writers(Block(q)) \subseteq window[q]  BY <3>1 DEF WindowInv
    <3>3. /\ window[q] \subseteq window'[q]
          /\ Block(q) = b => r \in window'[q]
      BY <2>1, <3>1 DEF Readers
    <3>4. PICK d : d = Block(q)  OBVIOUS
    <3>5. Writers(d)' \subseteq window'[q]  BY <2>4, <3>2, <3>3, <3>4
    <3>6. Block(q)' = d  BY <3>1, <3>4 DEF Block
    <3> QED  BY <3>5, <3>6 DEF Writers
  <2>6. \A q \in Reqs : q # r => (q \in Reads' <=> q \in Reads)
    BY <2>3 DEF Reads
  <2>7. r \notin Reads'  BY <2>3 DEF Reads
  <2>8. \A q \in Reqs : window[q] \subseteq window'[q]  BY <2>1 DEF TypeOK
  <2>9. \A q \in Reqs : q # r /\ Fresh(q) => Fresh(q)'
    BY <2>2, <2>3, <2>8, FreshStays
  <2> QED  BY <2>2, <2>3, <2>5, <2>6, <2>7, <2>8, <2>9 DEF WindowInv, Block
<1>3. ASSUME NEW r \in Reqs, ReadRetry(r) PROVE WindowInv'
  <2>1. /\ TryNext(r, Channel(r)) /\ Channel(r) \in Channels
        /\ UNCHANGED <<req, phase, val, status, last, window, misled>>
    BY <1>3 DEF ReadRetry, PhaseInv, Channel, Shapes
  <2>2. \A q \in Reqs : q # r => io'[q] = io[q] /\ target'[q] = target[q]
    BY <2>1, Try
  <2>3. io'[r][target'[r]] = "busy"  BY <2>1, Try
  <2>4. \A d : Writers(d)' = Writers(d)  BY <2>1, WritersSame
  <2>5. \A q \in Reqs : Fresh(q) => Fresh(q)'  BY <2>1, FreshStays
  <2> QED  BY <2>1, <2>2, <2>3, <2>4, <2>5 DEF WindowInv, Block, Reads
<1>4. ASSUME NEW r \in Reqs, ReadOk(r) \/ ReadFail(r) PROVE WindowInv'
  <2>1. /\ phase[r] = "read" /\ UNCHANGED <<req, target, io, val, last, window, misled>>
        /\ \A q \in Reqs : q # r => phase'[q] = phase[q] /\ status'[q] = status[q]
        /\ phase'[r] = "done" /\ status'[r] \in {"Success", "Failure"}
        /\ status'[r] = "Success" => io[r][target[r]] = "ok"
    BY <1>4 DEF ReadOk, ReadFail, Reply, TypeOK
  <2>2. \A d : Writers(d)' = Writers(d)  BY <1>4, ReadFrame, WritersSame
  <2>3. \A q \in Reqs : Fresh(q) => Fresh(q)'  BY <2>1, FreshStays
  <2> QED  BY <2>1, <2>2, <2>3 DEF WindowInv, Block, Reads
<1>5. ASSUME NEW r \in Reqs, WriteDone(r) PROVE WindowInv'
  <2>1. /\ phase[r] = "write" /\ UNCHANGED <<req, target, io, val, window, misled>>
        /\ \A q \in Reqs : q # r => phase'[q] = phase[q] /\ status'[q] = status[q]
        /\ phase'[r] = "done"
        /\ \/ last' = last
           \/ last' = [last EXCEPT ![Block(r)] = r]
    BY <1>5 DEF WriteDone, Reply, TypeOK
  <2>2. \A d : Writers(d)' \subseteq Writers(d)
    BY <1>5 DEF WriteDone, Reply, Writers, Block, TypeOK
  <2>3. /\ req[r] \in Shapes /\ req[r].op = "write"
        /\ r \in Writers(Block(r)) /\ r \notin Reads
    BY <2>1 DEF PhaseInv, Writers, Reads
  <2>4. \A d \in Blocks : last'[d] = last[d] \/ (last'[d] = r /\ d = Block(r))
    BY <2>1 DEF TypeOK
  <2>5. \A q \in Reqs : phase[q] = "read" => Block(q) \in Blocks
    BY DEF PhaseInv, Block, Shapes
  <2>6. \A q \in Reqs : phase'[q] = "read" => last'[Block(q)] \in window[q]
    BY <2>1, <2>3, <2>4, <2>5 DEF WindowInv
  <2>7. \A q \in Reqs : Fresh(q) => Fresh(q)'  BY <2>1, FreshStays
  <2> QED  BY <2>1, <2>2, <2>3, <2>6, <2>7 DEF WindowInv, Block, Reads
<1>6. ASSUME NEW c \in Children, Die(c) PROVE WindowInv'
  <2>1. \A q \in Reqs : Fresh(q) => Fresh(q)'
    BY <1>6, FreshStays DEF Die, reqVars
  <2> QED  BY <1>6, <2>1 DEF Die, reqVars, WindowInv, Writers, Block, Reads
<1>7. ASSUME NEW r \in Reqs, NEW c \in Children, Complete(r, c) PROVE WindowInv'
  <2>1. /\ io[r][c] = "busy" /\ misled \subseteq misled'
        /\ UNCHANGED <<req, phase, target, status, last, window>>
        /\ \A d : Writers(d)' = Writers(d)
    BY <1>7, WritersSame DEF Complete, Succeed, Fail
  <2>2. \A q \in Reqs : q # r => io'[q] = io[q] /\ val'[q] = val[q]
    BY <1>7 DEF Complete, Succeed, Fail, TypeOK
  <2>3. \A q \in Reqs : q # r /\ Fresh(q) => Fresh(q)'
    BY <2>1, <2>2, FreshStays
  <2>4. CASE phase[r] = "read"
    <3> DEFINE b == Block(r)
    <3>1. c = target[r] /\ b \in Blocks /\ status[r] = "none"
      BY <2>1, <2>4 DEF PhaseInv, Block, Shapes
    <3>2. CASE Succeed(r, c)
      <4>1. /\ val'[r] = disk[c][b]
            /\ <<c, b>> \in stale => r \in misled'
        BY <2>4, <3>2 DEF Succeed, TypeOK
      <4>2. {last[b]} \cup Writers(b) \subseteq window'[r]
        BY <2>1, <2>4 DEF WindowInv
      <4>3. ASSUME <<c, b>> \notin stale PROVE Fresh(r)'
        <5>1. disk[c][b] \in {last[b]} \cup Writers(b)
          BY <3>1, <4>3 DEF MirrorInv
        <5>2. val'[r] \in window'[r]  BY <4>1, <4>2, <5>1
        <5> QED  BY <5>2 DEF Fresh
      <4>4. ASSUME <<c, b>> \in stale PROVE Fresh(r)'
        <5>1. disk[c][b] \in Acknowledged(b) \cup Writers(b)
          BY <3>1 DEF KnownInv
        <5>2. Acknowledged(b) = Acknowledged(Block(r))'
          BY <2>1 DEF Acknowledged, Block, Reads
        <5>3. val'[r] \in window'[r] \/ val'[r] \in Acknowledged(b)
          BY <4>1, <4>2, <5>1
        <5> HIDE DEF b
        <5>4. val'[r] \in window'[r] \/ val'[r] \in Acknowledged(Block(r))'
          BY <5>2, <5>3
        <5> QED  BY <4>1, <4>4, <5>4 DEF Fresh
      <4>5. Fresh(r)'  BY <4>3, <4>4
      <4> QED  BY <2>1, <2>2, <2>3, <3>1, <4>5 DEF WindowInv, Block, Reads
    <3>3. CASE Fail(r, c)
      <4>1. io'[r][c] = "bad"
        BY <3>3 DEF Fail, TypeOK
      <4> QED  BY <2>1, <2>2, <2>3, <3>1, <4>1 DEF WindowInv, Block, Reads
    <3> QED  BY <1>7, <3>2, <3>3 DEF Complete
  <2>5. CASE phase[r] # "read"
    <3>1. UNCHANGED val  BY <1>7, <2>5 DEF Complete, Succeed, Fail
    <3>2. \A q \in Reqs : Fresh(q) => Fresh(q)'  BY <2>1, <3>1, FreshStays
    <3> QED  BY <2>1, <2>2, <2>5, <3>2 DEF WindowInv, Block, Reads
  <2> QED  BY <2>4, <2>5
<1>8. CASE UNCHANGED vars
  BY <1>8 DEF vars, reqVars, diskVars, WindowInv, Writers, Block, Reads, Fresh,
              Acknowledged
<1> QED
  BY <1>1, <1>2, <1>3, <1>4, <1>5, <1>6, <1>7, <1>8 DEF Next, Resume

-----------------------------------------------------------------------------
(* The theorems.                                                           *)

LEMMA InitInv == Init => Inv
<1> SUFFICES ASSUME Init PROVE Inv
  OBVIOUS
<1>1. PhaseInv /\ WriteInv /\ WindowInv
  BY DEF Init, PhaseInv, WriteInv, WindowInv, Reads
<1>2. 0 \in Children  BY Raid1Assumption DEF Children
<1>3. MirrorInv  BY <1>2 DEF Init, MirrorInv, Writers
<1>4. KnownInv  BY DEF Init, KnownInv, Acknowledged
<1> QED  BY <1>1, <1>3, <1>4, InitType DEF Inv

LEMMA NextInv == Inv /\ [Next]_vars => Inv'
BY NextType, NextPhase, NextWrite, NextMirror, NextKnown, NextWindow DEF Inv

LEMMA SpecInv == Spec => []Inv
BY InitInv, NextInv, PTL DEF Spec

\* Every variable keeps its type.
THEOREM Raid1TypeCorrect == Spec => []TypeOK
<1>1. Inv => TypeOK  BY DEF Inv
<1> QED  BY <1>1, SpecInv, PTL

\* Whatever children die and whatever writes they fail, each child that has not
\* missed the last write of a block to succeed holds it, and there is always
\* such a child (Raid1Bdev::write, raid1.rs:122-162).
THEOREM ChildrenMirror == Spec => []Mirrored
<1>1. Inv => Mirrored  BY DEF Inv, MirrorInv, Mirrored
<1> QED  BY <1>1, SpecInv, PTL

\* A read returns the last write of its block to succeed, or one that was under
\* way during the read; from a child that missed the last write it returns at
\* worst an older acknowledged one (raid1.rs:86-120).
THEOREM ReadsAreFresh == Spec => []ReadsFresh
<1>1. Inv => ReadsFresh
  BY DEF Inv, WindowInv, ReadsFresh, Fresh, Reads
<1> QED  BY <1>1, SpecInv, PTL

-----------------------------------------------------------------------------
(* Reads that no other read of their channel overtakes.                    *)

LEMMA NextTried ==
  ASSUME Inv, TriedInv, [Next]_vars
  PROVE  TriedInv'
<1> USE DEF Inv
<1>1. ASSUME NEW r \in Reqs, SubmitRead(r) PROVE TriedInv'
  <2>1. PICK b \in Blocks, ch \in Channels :
          Submits(r, "read", b, ch) /\ TryNext(r, ch)
    BY <1>1 DEF SubmitRead, Submits
  <2>2. PICK next \in Children :
          /\ target'[r] = next /\ nextRead'[ch] = next /\ tries'[r] = tries[r] + 1
          /\ \A c \in Children : io'[r][c] = IF c = next THEN "busy" ELSE io[r][c]
          /\ \A q \in Reqs : q # r =>
               io'[q] = io[q] /\ tries'[q] = tries[q] /\ target'[q] = target[q]
          /\ \A d \in Channels : d # ch => nextRead'[d] = nextRead[d]
          /\ crowded' = crowded \cup Crowd(r, ch)
    BY <2>1, Try
  <2>3. tries[r] = 0  BY <2>1 DEF Submits, PhaseInv
  <2>4. \A c \in Children : c # next => ~(Steps(c, next) < 1)
    BY StepsGrow
  <2>5. \A q \in Reqs \ crowded' : phase[q] = "read" /\ q # r =>
          q \notin crowded /\ Channel(q) \in Channels /\ Channel(q) # ch
    BY <2>2 DEF Crowd, PhaseInv, Channel, Shapes
  <2> QED
    BY <2>1, <2>2, <2>3, <2>4, <2>5, SubmitShape DEF TriedInv, Channel, Steps
<1>2. ASSUME NEW r \in Reqs, ReadRetry(r) PROVE TriedInv'
  <2> DEFINE ch == Channel(r)
  <2>1. /\ TryNext(r, ch) /\ ch \in Channels
        /\ phase[r] = "read" /\ UNCHANGED <<req, phase>>
        /\ io[r][target[r]] = "bad"
        /\ r \notin crowded => nextRead[ch] = target[r]
        /\ target[r] \in Children /\ tries[r] \in Nat
    BY <1>2 DEF ReadRetry, PhaseInv, Channel, Shapes, TriedInv, TypeOK
  <2>2. PICK next \in Children :
          /\ next = (nextRead[ch] + 1) % N
          /\ target'[r] = next /\ nextRead'[ch] = next /\ tries'[r] = tries[r] + 1
          /\ \A c \in Children : io'[r][c] = IF c = next THEN "busy" ELSE io[r][c]
          /\ \A q \in Reqs : q # r =>
               io'[q] = io[q] /\ tries'[q] = tries[q] /\ target'[q] = target[q]
          /\ \A d \in Channels : d # ch => nextRead'[d] = nextRead[d]
          /\ crowded' = crowded \cup Crowd(r, ch)
    BY <2>1, Try
  <2>3. \A q \in Reqs \ crowded' : phase[q] = "read" /\ q # r =>
          q \notin crowded /\ Channel(q) \in Channels /\ Channel(q) # ch
    BY <2>2 DEF Crowd, PhaseInv, Channel, Shapes
  <2>4. ASSUME NEW c \in Children, c # next, Steps(c, next) < tries[r] + 1,
               r \notin crowded
        PROVE  io'[r][c] = "bad"
    <3>1. Steps(c, next) = Steps(c, target[r]) + 1 /\ Steps(c, target[r]) \in Nat
      BY <2>1, <2>2, <2>4, StepsGrow, Raid1Assumption
    <3>2. Steps(c, target[r]) < tries[r]  BY <2>1, <2>4, <3>1
    <3>3. io[r][c] = "bad"  BY <2>1, <2>4, <3>2 DEF TriedInv
    <3> QED  BY <2>2, <2>4, <3>3
  <2>5. r \notin crowded' => r \notin crowded  BY <2>2
  <2> QED  BY <2>1, <2>2, <2>3, <2>4, <2>5 DEF TriedInv, Channel, Steps
<1>3. ASSUME NEW r \in Reqs, SubmitWrite(r) PROVE TriedInv'
  <2>1. PICK b \in Blocks, ch \in Channels : Submits(r, "write", b, ch)
    BY <1>3 DEF SubmitWrite, Submits
  <2>2. /\ \A q \in Reqs : q # r => io'[q] = io[q]
        /\ UNCHANGED <<nextRead, tries, target, crowded>>
    BY <1>3 DEF SubmitWrite, TypeOK
  <2> QED  BY <2>1, <2>2, SubmitShape DEF TriedInv, Channel, Steps
<1>4. ASSUME NEW r \in Reqs, ReadOk(r) \/ ReadFail(r) \/ WriteDone(r)
      PROVE  TriedInv'
  <2>1. \A q \in Reqs : phase'[q] = "read" => phase[q] = "read"
    BY <1>4 DEF ReadOk, ReadFail, WriteDone, Reply, TypeOK
  <2>2. UNCHANGED <<nextRead, req, tries, target, io, crowded>>
    BY <1>4 DEF ReadOk, ReadFail, WriteDone
  <2> QED  BY <2>1, <2>2 DEF TriedInv, Channel, Steps
<1>5. ASSUME NEW c \in Children, Die(c) PROVE TriedInv'
  BY <1>5 DEF Die, reqVars, TriedInv, Channel, Steps
<1>6. ASSUME NEW r \in Reqs, NEW c \in Children, Complete(r, c) PROVE TriedInv'
  <2>1. /\ io[r][c] = "busy"
        /\ UNCHANGED <<nextRead, req, phase, tries, target, crowded>>
    BY <1>6 DEF Complete
  <2>2. \A q \in Reqs, d \in Children : io[q][d] = "bad" => io'[q][d] = "bad"
    <3>1. PICK x \in {"ok", "bad"} : io' = [io EXCEPT ![r][c] = x]
      BY <1>6 DEF Complete, Succeed, Fail
    <3> QED  BY <2>1, <3>1 DEF TypeOK
  <2> QED  BY <2>1, <2>2 DEF TriedInv, Channel, Steps
<1>7. CASE UNCHANGED vars
  BY <1>7 DEF vars, reqVars, TriedInv, Channel, Steps
<1> QED
  BY <1>1, <1>2, <1>3, <1>4, <1>5, <1>6, <1>7 DEF Next, Resume

LEMMA NextFails ==
  ASSUME Inv, TriedInv, FailsOnlyIfAllFail, [Next]_vars
  PROVE  FailsOnlyIfAllFail'
<1> USE DEF Inv
<1>1. SUFFICES ASSUME NEW r \in Reqs, status'[r] = "Failure",
                      r \notin Reads' \/ r \notin crowded'
               PROVE  \A c \in Children : io'[r][c] = "bad"
  BY DEF FailsOnlyIfAllFail
<1>2. CASE status[r] # "none"
  <2>1. status[r] = "Failure" /\ io'[r] = io[r] /\ req'[r] = req[r]
    BY <1>1, <1>2, DoneStays
  <2>2. crowded \subseteq crowded'
    <3>1. ASSUME NEW q \in Reqs, SubmitRead(q) \/ ReadRetry(q)
          PROVE  crowded \subseteq crowded'
      BY <3>1 DEF SubmitRead, ReadRetry, TryNext
    <3>2. ASSUME NEW q \in Reqs,
                 SubmitWrite(q) \/ ReadOk(q) \/ ReadFail(q) \/ WriteDone(q)
          PROVE  crowded \subseteq crowded'
      BY <3>2 DEF SubmitWrite, ReadOk, ReadFail, WriteDone
    <3> QED  BY <3>1, <3>2 DEF Next, Resume, Die, Complete, vars
  <2> QED  BY <1>1, <2>1, <2>2 DEF FailsOnlyIfAllFail, Reads
<1>3. CASE status[r] = "none"
  <2>1. ReadFail(r) \/ WriteDone(r)
    <3>1. ASSUME NEW q \in Reqs, ReadFail(q) \/ WriteDone(q) PROVE q = r
      BY <1>1, <1>3, <3>1 DEF ReadFail, WriteDone, Reply, TypeOK
    <3>2. ASSUME NEW q \in Reqs, ReadOk(q) PROVE FALSE
      BY <1>1, <1>3, <3>2 DEF ReadOk, Reply, TypeOK
    <3>3. ASSUME UNCHANGED status PROVE FALSE
      BY <1>1, <1>3, <3>3
    <3> QED
      BY <3>1, <3>2, <3>3
      DEF Next, Resume, SubmitRead, SubmitWrite, ReadRetry, Die, Complete, vars,
          reqVars
  <2>2. CASE ReadFail(r)
    <3>1. /\ phase[r] = "read" /\ io[r][target[r]] = "bad" /\ tries[r] = N
          /\ UNCHANGED <<req, io, crowded>> /\ target[r] \in Children
      BY <2>2 DEF ReadFail, PhaseInv
    <3>2. r \in Reads'
      BY <3>1, Raid1Assumption DEF Reads, PhaseInv, Shapes
    <3>3. \A c \in Children : Steps(c, target[r]) < N
      BY <3>1, StepsGrow, Raid1Assumption
    <3> QED  BY <1>1, <3>1, <3>2, <3>3 DEF TriedInv
  <2>3. CASE WriteDone(r)
    <3>1. /\ phase[r] = "write" /\ UNCHANGED io
          /\ \A c \in Children : io[r][c] # "busy"
      BY <2>3 DEF WriteDone, Busy
    <3>2. \A c \in Children : io[r][c] # "ok"
      BY <1>1, <2>3 DEF WriteDone, Reply, TypeOK
    <3> QED  BY <3>1, <3>2 DEF WriteInv
  <2> QED  BY <2>1, <2>2, <2>3
<1> QED  BY <1>2, <1>3

\* A request fails only if it has failed on every child, as the message "all
\* disks failed" says (raid1.rs:116, 153): every write, and every read but
\* those that another read of their channel has overtaken.
THEOREM FailsAfterAll == Spec => []FailsOnlyIfAllFail
<1>1. Init => TriedInv /\ FailsOnlyIfAllFail
  BY DEF Init, TriedInv, FailsOnlyIfAllFail
<1>2. Inv /\ TriedInv /\ FailsOnlyIfAllFail /\ [Next]_vars =>
        TriedInv' /\ FailsOnlyIfAllFail'
  BY NextTried, NextFails
<1> QED  BY <1>1, <1>2, SpecInv, PTL DEF Spec

=============================================================================
