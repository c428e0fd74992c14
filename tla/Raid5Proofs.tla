----------------------------- MODULE Raid5Proofs ----------------------------
(***************************************************************************)
(* Proofs about the RAID5 bdev, for any number of disks, stripes, workers, *)
(* requests and faults: types, the queue of a stripe, and the redundancy   *)
(* of a stripe that is not torn; then that the bdev keeps the promise of   *)
(* StripeStore: to its users it is a store of blocks that serves the       *)
(* requests of a stripe one after the other, in the order of their         *)
(* submission. The parts of that: what Select does to a queue; StoreInv,   *)
(* which adds to the redundancy of the stripes what an answer of the bdev  *)
(* stands on; the queue that the promise sees, under each step of the      *)
(* bdev; and the map of the steps.                                         *)
(***************************************************************************)
EXTENDS Raid5, FiniteSetTheorems, CommonFacts

-----------------------------------------------------------------------------
(* Places.                                                                 *)

LEMMA Sizes ==
  /\ NDisks \in Nat /\ NDisks >= 3 /\ NDisks - 1 \in Nat \ {0}
  /\ StripBlocks \in Nat \ {0} /\ NStripes \in Nat \ {0}
  /\ StripeBlocks \in Nat \ {0}
<1>1. /\ NDisks \in Nat /\ NDisks >= 3 /\ StripBlocks \in Nat \ {0}
      /\ NStripes \in Nat \ {0}
  BY LayoutAssumption
<1>2. \A a, b \in Nat \ {0} : a * b \in Nat \ {0}
  OBVIOUS
<1>3. NDisks - 1 \in Nat \ {0}  BY <1>1
<1> QED  BY <1>1, <1>2, <1>3 DEF StripeBlocks

\* A row of a disk belongs to one strip of one stripe.
LEMMA RowPlace ==
  ASSUME NEW s \in Stripes, NEW o \in Offsets
  PROVE  /\ Row(s, o) \in Rows
         /\ Row(s, o) \div StripBlocks = s /\ Row(s, o) % StripBlocks = o
BY Sizes, DivModUnique, PlaceBelow DEF Row, Rows, Stripes, Offsets

LEMMA RowSplit ==
  ASSUME NEW row \in Rows
  PROVE  /\ row \div StripBlocks \in Stripes /\ row % StripBlocks \in Offsets
         /\ row = Row(row \div StripBlocks, row % StripBlocks)
<1>1. row \in Nat /\ row \in 0..(NStripes * StripBlocks - 1)
  BY Sizes DEF Rows
<1> QED  BY <1>1, Sizes, DivMod, DivBelow DEF Row, Stripes, Offsets

LEMMA ParityPlace ==
  ASSUME NEW s \in Stripes
  PROVE  ParityDisk(s) \in Disks
<1>1. s \in Nat  BY Sizes DEF Stripes
<1> QED  BY <1>1, Sizes, DivMod DEF ParityDisk, Disks

\* A block lies on a data disk of its stripe.
LEMMA BlockPlace ==
  ASSUME NEW b \in Blocks
  PROVE  /\ b \in Nat
         /\ StripeIdx(b) \in Stripes /\ OffsetIn(b) \in Offsets
         /\ DiskOf(b) \in Disks \ {ParityDisk(StripeIdx(b))}
         /\ BlockAt(StripeIdx(b), DiskOf(b), OffsetIn(b)) = b
<1> DEFINE s == StripeIdx(b)
           x == StripeOffset(b)
           k == x \div StripBlocks
<1>1. b \in Nat /\ b \in 0..(NStripes * StripeBlocks - 1)
  BY Sizes DEF Blocks
<1>2. s \in Stripes /\ s \in Nat
  BY <1>1, Sizes, DivBelow, DivMod DEF StripeIdx, Stripes
<1>3. /\ x \in Nat /\ x \in 0..((NDisks - 1) * StripBlocks - 1)
      /\ b = s * StripeBlocks + x
  <2>1. /\ x \in 0..(StripeBlocks - 1) /\ x \in Nat
        /\ b = s * StripeBlocks + x
    BY <1>1, Sizes, DivMod DEF StripeIdx, StripeOffset
  <2> QED  BY <2>1 DEF StripeBlocks
<1> HIDE DEF x
<1>4. k \in 0..(NDisks - 2) /\ k \in Nat
  <2>1. k \in 0..((NDisks - 1) - 1)  BY <1>3, Sizes, DivBelow
  <2> QED  BY <2>1, Sizes
<1>5. OffsetIn(b) \in Offsets /\ x = k * StripBlocks + OffsetIn(b)
  BY <1>3, Sizes, DivMod DEF OffsetIn, Offsets, x
<1>6. ParityDisk(s) \in 0..(NDisks - 1)  BY <1>2, ParityPlace DEF Disks
<1>7. DiskOf(b) = IF k < ParityDisk(s) THEN k ELSE k + 1
  BY DEF DiskOf, DataDisk, x
<1> HIDE DEF s, k
<1>8. /\ DiskOf(b) \in Disks \ {ParityDisk(s)}
      /\ (IF DiskOf(b) < ParityDisk(s) THEN DiskOf(b) ELSE DiskOf(b) - 1) = k
  BY <1>4, <1>6, <1>7, Sizes DEF Disks
<1>9. BlockAt(s, DiskOf(b), OffsetIn(b))
        = s * StripeBlocks + k * StripBlocks + OffsetIn(b)
  BY <1>8 DEF BlockAt
<1>10. s * StripeBlocks + k * StripBlocks + OffsetIn(b) = s * StripeBlocks + x
  <2>1. \A A, B, C, X \in Int : X = B + C => A + B + C = A + X  OBVIOUS
  <2>2. /\ s * StripeBlocks \in Int /\ k * StripBlocks \in Int
        /\ OffsetIn(b) \in Int
    BY <1>2, <1>4, <1>5, Sizes DEF Offsets
  <2> QED  BY <2>1, <2>2, <1>5, <1>3
<1> QED  BY <1>1, <1>2, <1>3, <1>5, <1>8, <1>9, <1>10 DEF s

LEMMA PlaceBlock ==
  ASSUME NEW s \in Stripes, NEW d \in Disks \ {ParityDisk(s)},
         NEW o \in Offsets
  PROVE  /\ BlockAt(s, d, o) \in Blocks
         /\ StripeIdx(BlockAt(s, d, o)) = s
         /\ DiskOf(BlockAt(s, d, o)) = d /\ OffsetIn(BlockAt(s, d, o)) = o
<1> DEFINE k == IF d < ParityDisk(s) THEN d ELSE d - 1
           x == k * StripBlocks + o
           b == BlockAt(s, d, o)
<1>1. ParityDisk(s) \in 0..(NDisks - 1)  BY ParityPlace DEF Disks
<1>2. /\ k \in 0..(NDisks - 2) /\ k \in Nat
      /\ DataDisk(k, ParityDisk(s)) = d
  BY <1>1, Sizes DEF Disks, DataDisk
<1>3. /\ s \in Nat /\ s \in 0..(NStripes - 1)
      /\ o \in Nat /\ o \in 0..(StripBlocks - 1)
  BY Sizes DEF Stripes, Offsets
<1> HIDE DEF k
<1>4. x \in 0..(StripeBlocks - 1) /\ x \in Nat
  <2>1. k \in 0..((NDisks - 1) - 1)  BY <1>2, Sizes
  <2>2. x \in 0..((NDisks - 1) * StripBlocks - 1)
    BY <2>1, <1>3, Sizes, PlaceBelow
  <2> QED  BY <2>2, Sizes DEF StripeBlocks
<1>5. b = s * StripeBlocks + x
  <2>1. \A A, B, C \in Int : A + B + C = A + (B + C)  OBVIOUS
  <2>2. s * StripeBlocks \in Int /\ k * StripBlocks \in Int
    BY <1>2, <1>3, Sizes
  <2> QED  BY <2>1, <2>2, <1>3 DEF BlockAt, k
<1> HIDE DEF b
<1>6. b \in Blocks  BY <1>3, <1>4, <1>5, Sizes, PlaceBelow DEF Blocks, x
<1>7. StripeIdx(b) = s /\ StripeOffset(b) = x
  BY <1>3, <1>4, <1>5, Sizes, DivModUnique DEF StripeIdx, StripeOffset, x
<1>8. x \div StripBlocks = k /\ x % StripBlocks = o
  BY <1>2, <1>3, Sizes, DivModUnique
<1> HIDE DEF x
<1>9. DiskOf(b) = d /\ OffsetIn(b) = o
  BY <1>2, <1>7, <1>8 DEF DiskOf, OffsetIn
<1> QED  BY <1>6, <1>7, <1>9 DEF b

\* The row of a disk that a block lies in.
RowHolding(b) == Row(StripeIdx(b), OffsetIn(b))

(* The arithmetic of the layout (raid5.rs:224-240, 760-766) gives each     *)
(* block a place of its own on the children, which is not the disk of its  *)
(* stripe's parity, and every row of every child holds either the parity   *)
(* of the row's stripe or a block: a lost child costs one block of each    *)
(* row at most, and no room is wasted.                                     *)
THEOREM LayoutIsExact ==
  /\ \A b \in Blocks :
       /\ DiskOf(b) \in Disks /\ RowHolding(b) \in Rows
       /\ DiskOf(b) # ParityDisk(RowHolding(b) \div StripBlocks)
  /\ \A b, c \in Blocks :
       DiskOf(b) = DiskOf(c) /\ RowHolding(b) = RowHolding(c) => b = c
  /\ \A d \in Disks, row \in Rows :
       d # ParityDisk(row \div StripBlocks) =>
         \E b \in Blocks : DiskOf(b) = d /\ RowHolding(b) = row
<1>1. ASSUME NEW b \in Blocks
      PROVE  /\ DiskOf(b) \in Disks /\ RowHolding(b) \in Rows
             /\ RowHolding(b) \div StripBlocks = StripeIdx(b)
             /\ RowHolding(b) % StripBlocks = OffsetIn(b)
             /\ DiskOf(b) # ParityDisk(StripeIdx(b))
             /\ BlockAt(StripeIdx(b), DiskOf(b), OffsetIn(b)) = b
  BY BlockPlace, RowPlace DEF RowHolding
<1>2. ASSUME NEW b \in Blocks, NEW c \in Blocks,
             DiskOf(b) = DiskOf(c), RowHolding(b) = RowHolding(c)
      PROVE  b = c
  <2>1. StripeIdx(b) = StripeIdx(c) /\ OffsetIn(b) = OffsetIn(c)
    BY <1>1, <1>2
  <2> QED  BY <1>1, <1>2, <2>1
<1>3. ASSUME NEW d \in Disks, NEW row \in Rows,
             d # ParityDisk(row \div StripBlocks)
      PROVE  \E b \in Blocks : DiskOf(b) = d /\ RowHolding(b) = row
  <2> DEFINE s == row \div StripBlocks
             o == row % StripBlocks
             b == BlockAt(s, d, o)
  <2>1. s \in Stripes /\ o \in Offsets /\ Row(s, o) = row
    BY RowSplit
  <2> HIDE DEF s, o, b
  <2>2. d \in Disks \ {ParityDisk(s)}  BY <1>3 DEF s
  <2>3. b \in Blocks /\ DiskOf(b) = d /\ RowHolding(b) = row
    BY <2>1, <2>2, PlaceBlock DEF b, RowHolding
  <2> QED  BY <2>3
<1> QED  BY <1>1, <1>2, <1>3

-----------------------------------------------------------------------------
LEMMA DisksFinite == IsFiniteSet(Disks) /\ \A S : IsFiniteSet(Disks \ S)
<1>1. IsFiniteSet(0..(NDisks - 1))  BY Sizes, FS_Interval
<1> QED  BY <1>1, FS_Subset DEF Disks

-----------------------------------------------------------------------------
(* The queues. A request that was sent has a shape; one under way does not *)
(* cross its stripe and is in a phase of its kind.                         *)

ShapeInv ==
  \A r \in Reqs :
    /\ phase[r] # "unsent" => req[r] \in Shapes
    /\ phase[r] \in Active => ~Crosses(r)
    /\ phase[r] \in {"read", "readrec"} => req[r].op = "read"
    /\ phase[r] \in {"old", "oldrec", "new", "full"} => req[r].op = "write"
    /\ phase[r] = "full" => FullStripe(r)

\* What is on its way to a worker is the message of init, or a request of one
\* of its stripes, once.
InboxInv ==
  \A w \in Workers :
    /\ IsInjective(inbox[w])
    /\ \A m \in Range(inbox[w]) :
         m = Start \/ (m \in Reqs /\ phase[m] = "sent" /\ OwnerOf(m) = w)

PendingInv ==
  \A s \in Stripes :
    /\ IsInjective(pending[s])
    /\ \A r \in Range(pending[s]) : phase[r] = "queued" /\ Stripe(r) = s

\* A worker drains its own stripes.
TurnInv == \A w \in Workers : turn[w] # NoStripe => Owner(turn[w]) = w

QueueInv ==
  TypeOK /\ ShapeInv /\ InboxInv /\ PendingInv /\ TurnInv /\ OneDrainer
\* The steps of a task that resumes, one by one.
Ends(r, st) == Reply(r, st) /\ st \in {"Success", "Failure"}

Rebuilds(r, ph) ==
  /\ \E l \in Disks : Bad(r) = {l} /\ Await(r, ph, l)
  /\ UNCHANGED <<got, acc, status, turn>>

ReadStep(r) ==
  /\ phase[r] = "read" /\ Busy(r) = {}
  /\ \/ Bad(r) = {} /\ Ends(r, "Success") /\ UNCHANGED got
     \/ Rebuilds(r, "readrec")
     \/ Cardinality(Bad(r)) >= 2 /\ Ends(r, "Failure") /\ Release(r)
  /\ UNCHANGED <<store, torn>>

RecoverStep(r) ==
  /\ phase[r] = "readrec" /\ Busy(r) = {} /\ Bad(r) = {}
  /\ got' = [got EXCEPT ![r][lost[r]] = acc[r]]
  /\ Ends(r, "Success")
  /\ UNCHANGED <<store, torn>>

GiveUpStep(r) ==
  /\ phase[r] \in {"readrec", "oldrec"} /\ Bad(r) # {}
  /\ Ends(r, "Failure") /\ Release(r)
  /\ UNCHANGED <<store, torn>>

OldStep(r) ==
  /\ phase[r] = "old" /\ Busy(r) = {}
  /\ \/ Bad(r) = {} /\ WriteNew(r, got[r]) /\ UNCHANGED store
     \/ Rebuilds(r, "oldrec") /\ UNCHANGED store
     \/ /\ Bad(r) # {}
        /\ Ends(r, "Failure") /\ Release(r) /\ Settle(r, "Failure")
  /\ UNCHANGED torn

NewStep(r) ==
  /\ phase[r] = "oldrec" /\ Busy(r) = {} /\ Bad(r) = {}
  /\ WriteNew(r, [got[r] EXCEPT ![lost[r]] = acc[r]])
  /\ UNCHANGED <<store, torn>>

EndStep(r) ==
  /\ phase[r] \in Writing /\ Busy(r) = {}
  /\ \E st \in {"Success", "Failure"} :
       /\ st = "Success" <=> Bad(r) = {}
       /\ Ends(r, st) /\ Settle(r, st)
  /\ torn' = IF phase[r] = "full" /\ Bad(r) \subseteq dead
               THEN torn \ {Stripe(r)} ELSE torn
  /\ UNCHANGED got

ResumeFrame(r) ==
  /\ MayRun(r)
  /\ UNCHANGED <<chan, inbox, pending, draining, req, disk, dead, readErrors,
                 writeErrors, crashes>>

LEMMA OneElement ==
  ASSUME NEW S \in SUBSET Disks, Cardinality(S) = 1
  PROVE  S = {CHOOSE d \in S : TRUE} /\ (CHOOSE d \in S : TRUE) \in Disks
<1>1. IsFiniteSet(S)  BY DisksFinite, FS_Subset
<1>2. PICK d : S = {d}  BY <1>1, FS_Singleton
<1> QED  BY <1>2

LEMMA SomeElements ==
  ASSUME NEW S \in SUBSET Disks, S # {}, Cardinality(S) # 1
  PROVE  Cardinality(S) >= 2
<1>1. IsFiniteSet(S)  BY DisksFinite, FS_Subset
<1>2. Cardinality(S) \in Nat /\ Cardinality(S) # 0
  BY <1>1, FS_CardinalityType, FS_EmptySet
<1> QED  BY <1>2

LEMMA ResumeCases ==
  ASSUME NEW r \in Reqs, Resume(r), orphan \in BOOLEAN
  PROVE  /\ ResumeFrame(r) /\ orphan' \in BOOLEAN
         /\ \/ ReadStep(r)
            \/ RecoverStep(r)
            \/ GiveUpStep(r)
            \/ OldStep(r)
            \/ NewStep(r)
            \/ EndStep(r)
<1> DEFINE Other == UNCHANGED <<chan, inbox, pending, draining, req, disk,
                                dead, readErrors, writeErrors, crashes>>
<1>1. Other  BY DEF Resume
<1> USE DEF ResumeFrame
<1>2. CASE WriteDone(r)
  <2>1. MayRun(r) /\ UNCHANGED orphan  BY <1>2 DEF WriteDone
  <2>2. EndStep(r)  BY <1>2 DEF WriteDone, EndStep, Ends
  <2> QED  BY <1>1, <2>1, <2>2 DEF MayRun
<1>3. CASE ReadDone(r) /\ UNCHANGED torn
  <2>1. /\ MayRun(r) /\ phase[r] = "read" /\ Busy(r) = {}
        /\ UNCHANGED <<orphan, store>>
    BY <1>3 DEF ReadDone
  <2>2. CASE Bad(r) = {}
    <3>1. Reply(r, "Success") /\ UNCHANGED got
      BY <1>3, <2>2, FS_EmptySet DEF ReadDone
    <3> QED  BY <1>1, <1>3, <2>1, <2>2, <3>1 DEF ReadStep, Ends, MayRun
  <2>3. CASE Bad(r) # {} /\ Cardinality(Bad(r)) = 1
    <3>1. /\ Await(r, "readrec", CHOOSE d \in Bad(r) : TRUE)
          /\ UNCHANGED <<got, acc, status, turn>>
      BY <1>3, <2>3 DEF ReadDone
    <3>2. Bad(r) \in SUBSET Disks  BY DEF Bad
    <3>3. Rebuilds(r, "readrec")
      BY <2>3, <3>1, <3>2, OneElement DEF Rebuilds
    <3> QED  BY <1>1, <1>3, <2>1, <3>3 DEF ReadStep, MayRun
  <2>4. CASE Bad(r) # {} /\ Cardinality(Bad(r)) # 1
    <3>1. Reply(r, "Failure") /\ Release(r)  BY <1>3, <2>4 DEF ReadDone
    <3>2. Cardinality(Bad(r)) >= 2  BY <2>4, SomeElements DEF Bad
    <3> QED  BY <1>1, <1>3, <2>1, <3>1, <3>2 DEF ReadStep, Ends, MayRun
  <2> QED  BY <2>2, <2>3, <2>4
<1>4. CASE ReadRecovered(r) /\ UNCHANGED torn
  BY <1>1, <1>4 DEF ReadRecovered, RecoverStep, Ends, MayRun
<1>5. CASE GiveUp(r) /\ UNCHANGED torn
  BY <1>1, <1>5 DEF GiveUp, GiveUpStep, Ends, MayRun
<1>6. CASE OldRead(r) /\ UNCHANGED torn
  <2>1. /\ MayRun(r) /\ phase[r] = "old" /\ Busy(r) = {}
        /\ UNCHANGED orphan
    BY <1>6 DEF OldRead
  <2>2. CASE Bad(r) = {}
    <3>1. WriteNew(r, got[r]) /\ UNCHANGED store
      BY <1>6, <2>2, FS_EmptySet DEF OldRead
    <3> QED  BY <1>1, <1>6, <2>1, <2>2, <3>1 DEF OldStep, MayRun
  <2>3. CASE Bad(r) # {} /\ Cardinality(Bad(r)) = 1
    <3>1. /\ Await(r, "oldrec", CHOOSE d \in Bad(r) : TRUE)
          /\ UNCHANGED <<got, acc, status, turn, store>>
      BY <1>6, <2>3 DEF OldRead
    <3>2. Bad(r) \in SUBSET Disks  BY DEF Bad
    <3>3. Rebuilds(r, "oldrec") /\ UNCHANGED store
      BY <2>3, <3>1, <3>2, OneElement DEF Rebuilds
    <3> QED  BY <1>1, <1>6, <2>1, <3>3 DEF OldStep, MayRun
  <2>4. CASE Bad(r) # {} /\ Cardinality(Bad(r)) # 1
    <3>1. Reply(r, "Failure") /\ Release(r) /\ Settle(r, "Failure")
      BY <1>6, <2>4 DEF OldRead
    <3> QED  BY <1>1, <1>6, <2>1, <2>4, <3>1 DEF OldStep, Ends, MayRun
  <2> QED  BY <2>2, <2>3, <2>4
<1>7. CASE OldRecovered(r) /\ UNCHANGED torn
  BY <1>1, <1>7 DEF OldRecovered, NewStep, MayRun
<1> QED  BY <1>2, <1>3, <1>4, <1>5, <1>6, <1>7 DEF Resume

-----------------------------------------------------------------------------
(* Types.                                                                  *)

LEMMA OwnerPlace ==
  ASSUME NEW s \in Stripes
  PROVE  Owner(s) \in Workers
<1>1. s \in Nat  BY Sizes DEF Stripes
<1>2. NWorkers \in Nat \ {0}  BY Raid5Assumption
<1> QED  BY <1>1, <1>2, DivMod DEF Owner, Workers

LEMMA ShapePlace ==
  ASSUME NEW x \in Shapes
  PROVE  /\ x.first \in Blocks /\ x.first \in Nat /\ x.len \in Nat \ {0}
         /\ x.op \in {"read", "write"}
         /\ StripeIdx(x.first) \in Stripes
         /\ Owner(StripeIdx(x.first)) \in Workers
         /\ x.first .. (x.first + x.len - 1) \subseteq Blocks
<1>1. /\ x.first \in Blocks /\ x.len \in Nat \ {0}
      /\ x.op \in {"read", "write"} /\ x.first + x.len - 1 \in Blocks
  BY Raid5Assumption
<1>2. x.first \in Nat /\ StripeIdx(x.first) \in Stripes
  BY <1>1, BlockPlace
<1>3. x.first .. (x.first + x.len - 1) \subseteq Blocks
  <2>1. NStripes * StripeBlocks \in Nat  BY Sizes
  <2> QED  BY <1>1, <1>2, <2>1 DEF Blocks
<1> QED  BY <1>1, <1>2, <1>3, OwnerPlace

LEMMA ReqPlace ==
  ASSUME NEW r \in Reqs, req[r] \in Shapes
  PROVE  /\ req[r].first \in Blocks
         /\ Stripe(r) \in Stripes /\ OwnerOf(r) \in Workers
         /\ Parity(r) \in Disks /\ ReqBlocks(r) \subseteq Blocks
<1> DEFINE x == req[r]
<1>1. x \in Shapes  OBVIOUS
<1> HIDE DEF x
<1>2. /\ x.first \in Blocks
      /\ StripeIdx(x.first) \in Stripes
      /\ Owner(StripeIdx(x.first)) \in Workers
      /\ x.first .. (x.first + x.len - 1) \subseteq Blocks
  BY <1>1, ShapePlace
<1>3. ParityDisk(StripeIdx(x.first)) \in Disks  BY <1>2, ParityPlace
<1> QED  BY <1>2, <1>3 DEF x, Stripe, OwnerOf, Parity, ReqBlocks

LEMMA XorType ==
  ASSUME NEW f, NEW S, \A d \in S : f[d] \in Value
  PROVE  Xor(f, S) \in Value
BY DEF Xor, Value

LEMMA ValueTypes ==
  /\ \A r \in Reqs, b \in Int : Data(r, b) \in Value /\ Initial(b) \in Value
  /\ Garbage \in Value
  /\ Zeroed \in [Offsets -> Value]
  /\ Unread \in [Disks -> [Offsets -> Value]]
BY DEF Data, Initial, Garbage, Value, Tag, Zeroed, Unread, NoDisk

LEMMA BlockAtInt ==
  ASSUME NEW s \in Stripes, NEW d \in Disks, NEW o \in Offsets
  PROVE  BlockAt(s, d, o) \in Int
<1> DEFINE k == IF d < ParityDisk(s) THEN d ELSE d - 1
<1>1. /\ s \in Int /\ k \in Int /\ o \in Int
      /\ StripeBlocks \in Int /\ StripBlocks \in Int
  BY Sizes DEF Stripes, Disks, Offsets
<1> HIDE DEF k
<1>2. s * StripeBlocks \in Int /\ k * StripBlocks \in Int  BY <1>1
<1>3. s * StripeBlocks + k * StripBlocks + o \in Int  BY <1>1, <1>2
<1> QED  BY <1>3 DEF BlockAt, k

LEMMA AwaitTypes ==
  ASSUME TypeOK, NEW r \in Reqs, NEW ph \in Active,
         NEW l \in Disks \cup {NoDisk}, Await(r, ph, l)
  PROVE  /\ phase' \in [Reqs -> Waiting \cup Active \cup {"done", "gone"}]
         /\ io' \in [Reqs -> [Disks -> IoState]]
         /\ lost' \in [Reqs -> Disks \cup {NoDisk}]
<1> DEFINE n == [d \in Disks |->
                   IF Extent(r, ph, l, d) = {} THEN "none" ELSE "busy"]
<1>1. n \in [Disks -> IoState]  BY DEF IoState
<1>2. io' = [io EXCEPT ![r] = n]  BY DEF Await
<1> HIDE DEF n
<1>3. ph \in Waiting \cup Active \cup {"done", "gone"}  OBVIOUS
<1>4. io' \in [Reqs -> [Disks -> IoState]]  BY <1>1, <1>2 DEF TypeOK
<1>5. phase' \in [Reqs -> Waiting \cup Active \cup {"done", "gone"}]
  BY <1>3 DEF Await, TypeOK
<1>6. lost' \in [Reqs -> Disks \cup {NoDisk}]  BY DEF Await, TypeOK
<1> QED  BY <1>4, <1>5, <1>6

LEMMA ReplyTypes ==
  ASSUME TypeOK, NEW r \in Reqs, NEW st \in {"Success", "Failure"},
         Reply(r, st), Stripe(r) \in Stripes
  PROVE  /\ phase' \in [Reqs -> Waiting \cup Active \cup {"done", "gone"}]
         /\ io' \in [Reqs -> [Disks -> IoState]]
         /\ lost' \in [Reqs -> Disks \cup {NoDisk}]
         /\ status' \in [Reqs -> {"none", "Success", "Failure"}]
         /\ acc' \in [Reqs -> [Offsets -> Value]]
         /\ turn' \in [Workers -> Stripes \cup {NoStripe}]
<1>1. Nothing \in [Disks -> IoState] /\ Zeroed \in [Offsets -> Value]
  BY ValueTypes DEF Nothing, IoState
<1>2. phase' \in [Reqs -> Waiting \cup Active \cup {"done", "gone"}]
  BY DEF Reply, TypeOK
<1>3. io' \in [Reqs -> [Disks -> IoState]]
  <2>1. io' = [io EXCEPT ![r] = Nothing]  BY DEF Reply
  <2> QED  BY <1>1, <2>1 DEF TypeOK
<1>4. acc' \in [Reqs -> [Offsets -> Value]]
  <2>1. acc' = [acc EXCEPT ![r] = Zeroed]  BY DEF Reply
  <2> QED  BY <1>1, <2>1 DEF TypeOK
<1>5. lost' \in [Reqs -> Disks \cup {NoDisk}]  BY DEF Reply, TypeOK
<1>6. status' \in [Reqs -> {"none", "Success", "Failure"}]
  BY DEF Reply, TypeOK
<1>7. turn' \in [Workers -> Stripes \cup {NoStripe}]  BY DEF Reply, TypeOK
<1> QED  BY <1>2, <1>3, <1>4, <1>5, <1>6, <1>7

LEMMA ReleaseTypes ==
  ASSUME TypeOK, NEW r \in Reqs, Release(r)
  PROVE  got' \in [Reqs -> [Disks -> [Offsets -> Value]]]
<1>1. got' = [got EXCEPT ![r] = Unread]  BY DEF Release
<1> QED  BY <1>1, ValueTypes DEF TypeOK

LEMMA SettleTypes ==
  ASSUME TypeOK, NEW r \in Reqs, NEW st, Settle(r, st)
  PROVE  store' \in [Blocks -> Value]
<1>1. \A b \in Blocks : Data(r, b) \in Value
  BY ValueTypes, BlockPlace
<1> QED  BY <1>1 DEF Settle, TypeOK

LEMMA OnDiskType ==
  ASSUME TypeOK, NEW d \in Disks, NEW s \in Stripes, NEW o \in Offsets
  PROVE  OnDisk(d, s, o) \in Value
<1>1. Row(s, o) \in Rows  BY RowPlace
<1> QED  BY <1>1 DEF OnDisk, TypeOK

LEMMA PairType ==
  ASSUME NEW A \in Value, NEW B \in Value
  PROVE  Xor(<<A, B>>, 1..2) \in Value
<1>1. Xor(<<A, B>>, 1..2) = Sym(A, B)  BY XorPair
<1> QED  BY <1>1 DEF Sym, Value

\* The blocks that write_partial_stripe touches at offset o, and their XORs.
Touched(r, o) == {d \in Disks \ {Parity(r)} : o \in Segment(r, d)}
NewXor(r, o) ==
  Xor([d \in Touched(r, o) |-> Data(r, BlockAt(Stripe(r), d, o))],
      Touched(r, o))
OldXor(r, old, o) ==
  Xor([d \in Disks |-> old[d][o]], Touched(r, o) \cup {Parity(r)})

LEMMA WriteNewAcc ==
  ASSUME NEW r \in Reqs, NEW old, WriteNew(r, old)
  PROVE  acc' = [acc EXCEPT ![r] = [o \in Offsets |->
                   Xor(<<OldXor(r, old, o), NewXor(r, o)>>, 1..2)]]
BY DEF WriteNew, OldXor, NewXor, Touched

LEMMA DataXorType ==
  ASSUME NEW r \in Reqs, req[r] \in Shapes, NEW o \in Offsets,
         NEW S \in SUBSET Disks
  PROVE  Xor([d \in S |-> Data(r, BlockAt(Stripe(r), d, o))], S) \in Value
<1>1. Stripe(r) \in Stripes  BY ReqPlace
<1>2. \A d \in S : Data(r, BlockAt(Stripe(r), d, o)) \in Value
  BY <1>1, BlockAtInt, ValueTypes
<1> QED  BY <1>2, XorType

LEMMA WriteNewTypes ==
  ASSUME TypeOK, NEW r \in Reqs, req[r] \in Shapes,
         NEW old \in [Disks -> [Offsets -> Value]], WriteNew(r, old)
  PROVE  /\ acc' \in [Reqs -> [Offsets -> Value]]
         /\ got' \in [Reqs -> [Disks -> [Offsets -> Value]]]
         /\ phase' \in [Reqs -> Waiting \cup Active \cup {"done", "gone"}]
         /\ io' \in [Reqs -> [Disks -> IoState]]
         /\ lost' \in [Reqs -> Disks \cup {NoDisk}]
<1>1. Parity(r) \in Disks  BY ReqPlace
<1>2. ASSUME NEW o \in Offsets
      PROVE  Xor(<<OldXor(r, old, o), NewXor(r, o)>>, 1..2) \in Value
  <2>1. OldXor(r, old, o) \in Value  BY <1>1, XorType DEF OldXor, Touched
  <2>2. NewXor(r, o) \in Value
    BY DataXorType DEF NewXor, Touched
  <2> QED  BY <2>1, <2>2, PairType
<1> DEFINE n == [o \in Offsets |->
                   Xor(<<OldXor(r, old, o), NewXor(r, o)>>, 1..2)]
<1>3. n \in [Offsets -> Value]  BY <1>2
<1>4. acc' = [acc EXCEPT ![r] = n]  BY WriteNewAcc
<1> HIDE DEF n
<1>5. acc' \in [Reqs -> [Offsets -> Value]]  BY <1>3, <1>4 DEF TypeOK
<1>6. Await(r, "new", NoDisk) /\ Release(r)  BY DEF WriteNew
<1>7. "new" \in Active  BY DEF Active, Writing
<1> QED  BY <1>5, <1>6, <1>7, AwaitTypes, ReleaseTypes

LEMMA SubmitTypes ==
  ASSUME TypeOK, NEW r \in Reqs, Submit(r)
  PROVE  TypeOK'
<1>1. PICK x \in Shapes :
        /\ req' = [req EXCEPT ![r] = x]
        /\ inbox' = [inbox EXCEPT ![Owner(StripeIdx(x.first))] = Append(@, r)]
  BY DEF Submit
<1>2. Owner(StripeIdx(x.first)) \in Workers  BY ShapePlace
<1>3. inbox' \in [Workers -> Seq(Reqs \cup {Start})]
  BY <1>1, <1>2, AppendFacts DEF TypeOK
<1>4. req' \in [Reqs -> Shapes \cup {NoShape}]  BY <1>1 DEF TypeOK
<1>5. phase' \in [Reqs -> Waiting \cup Active \cup {"done", "gone"}]
  BY DEF Submit, TypeOK, Waiting
<1>6. UNCHANGED <<chan, pending, draining, turn, io, lost, got, acc, status,
                  disk, dead, readErrors, writeErrors, crashes, torn, orphan,
                  store>>
  BY DEF Submit, diskVars
<1> QED  BY <1>3, <1>4, <1>5, <1>6 DEF TypeOK

LEMMA InitTaskTypes ==
  ASSUME TypeOK, NEW w \in Workers, RunInit(w)
  PROVE  TypeOK'
<1>1. inbox' \in [Workers -> Seq(Reqs \cup {Start})]
  BY TailFacts DEF RunInit, TypeOK
<1>2. chan' \in [Workers -> BOOLEAN]  BY DEF RunInit, TypeOK
<1>3. UNCHANGED <<pending, draining, turn, req, phase, io, lost, got, acc,
                  status, disk, dead, readErrors, writeErrors, crashes, torn,
                  orphan, store>>
  BY DEF RunInit, diskVars, reqVars
<1> QED  BY <1>1, <1>2, <1>3 DEF TypeOK

\* The head of the inbox of a worker is a request of one of its stripes.
LEMMA InboxHead ==
  ASSUME TypeOK, ShapeInv, InboxInv, NEW w \in Workers,
         inbox[w] # <<>>, Head(inbox[w]) # Start
  PROVE  LET r == Head(inbox[w]) IN
         /\ r \in Reqs /\ phase[r] = "sent" /\ OwnerOf(r) = w
         /\ req[r] \in Shapes /\ Stripe(r) \in Stripes
<1> DEFINE r == Head(inbox[w])
<1>1. inbox[w] \in Seq(Reqs \cup {Start})  BY DEF TypeOK
<1>2. r \in Range(inbox[w])  BY <1>1, TailFacts
<1>3. r \in Reqs /\ phase[r] = "sent" /\ OwnerOf(r) = w
  BY <1>2 DEF InboxInv
<1>4. req[r] \in Shapes  BY <1>3 DEF ShapeInv
<1> QED  BY <1>3, <1>4, ReqPlace

LEMMA RunSubmitTypes ==
  ASSUME TypeOK, ShapeInv, InboxInv, NEW w \in Workers, RunSubmit(w)
  PROVE  TypeOK'
<1> DEFINE r == Head(inbox[w])
           s == Stripe(r)
<1>1. r \in Reqs /\ s \in Stripes  BY InboxHead DEF RunSubmit
<1>2. /\ pending' = [pending EXCEPT ![s] = Append(@, r)]
      /\ draining' = [draining EXCEPT ![s] = TRUE]
      /\ turn' = [turn EXCEPT ![w] = IF draining[s] THEN NoStripe ELSE s]
      /\ phase' = [phase EXCEPT ![r] = "queued"]
      /\ inbox' = [inbox EXCEPT ![w] = Tail(@)] /\ inbox[w] # <<>>
      /\ UNCHANGED <<chan, req, io, lost, got, acc, status, disk, dead,
                     readErrors, writeErrors, crashes, torn, orphan, store>>
  BY DEF RunSubmit, diskVars
<1> HIDE DEF r, s
<1>3. pending' \in [Stripes -> Seq(Reqs)]
  BY <1>1, <1>2, AppendFacts DEF TypeOK
<1>4. inbox' \in [Workers -> Seq(Reqs \cup {Start})]
  BY <1>2, TailFacts DEF TypeOK
<1>5. phase' \in [Reqs -> Waiting \cup Active \cup {"done", "gone"}]
  BY <1>2 DEF TypeOK, Waiting
<1>6. turn' \in [Workers -> Stripes \cup {NoStripe}]
  BY <1>1, <1>2 DEF TypeOK
<1>7. draining' \in [Stripes -> BOOLEAN]  BY <1>1, <1>2 DEF TypeOK
<1> QED  BY <1>2, <1>3, <1>4, <1>5, <1>6, <1>7 DEF TypeOK

LEMMA DrainEndTypes ==
  ASSUME TypeOK, NEW w \in Workers, DrainEnd(w)
  PROVE  TypeOK'
<1>1. draining' \in [Stripes -> BOOLEAN]  BY DEF DrainEnd, TypeOK
<1>2. turn' \in [Workers -> Stripes \cup {NoStripe}]
  BY DEF DrainEnd, TypeOK
<1>3. UNCHANGED <<chan, inbox, pending, req, phase, io, lost, got, acc,
                  status, disk, dead, readErrors, writeErrors, crashes, torn,
                  orphan, store>>
  BY DEF DrainEnd, diskVars, reqVars
<1> QED  BY <1>1, <1>2, <1>3 DEF TypeOK

\* The request that dequeue takes belongs to the stripe being drained.
LEMMA PendingHead ==
  ASSUME TypeOK, ShapeInv, PendingInv, TurnInv, NEW w \in Workers,
         turn[w] # NoStripe, pending[turn[w]] # <<>>
  PROVE  LET r == Head(pending[turn[w]]) IN
         /\ r \in Reqs /\ phase[r] = "queued" /\ req[r] \in Shapes
         /\ turn[w] \in Stripes /\ Stripe(r) = turn[w] /\ OwnerOf(r) = w
<1> DEFINE s == turn[w]
           r == Head(pending[s])
<1>1. s \in Stripes /\ pending[s] \in Seq(Reqs)  BY DEF TypeOK
<1>2. r \in Reqs /\ r \in Range(pending[s])  BY <1>1, TailFacts
<1>3. phase[r] = "queued" /\ Stripe(r) = s  BY <1>1, <1>2 DEF PendingInv
<1>4. req[r] \in Shapes  BY <1>2, <1>3 DEF ShapeInv
<1>5. OwnerOf(r) = w  BY <1>3 DEF OwnerOf, TurnInv
<1> QED  BY <1>1, <1>2, <1>3, <1>4, <1>5

\* What process_req does first: a refusal, or the first lower I/O.
ProcessFull(r) ==
  acc' = [acc EXCEPT ![r] = [o \in Offsets |->
    Xor([d \in Disks \ {Parity(r)} |-> Data(r, BlockAt(Stripe(r), d, o))],
        Disks \ {Parity(r)})]]

ProcessStart(r) ==
  /\ ~Crosses(r)
  /\ \/ req[r].op = "read" /\ Await(r, "read", NoDisk) /\ UNCHANGED acc
     \/ /\ req[r].op = "write" /\ ~FullStripe(r)
        /\ Await(r, "old", NoDisk) /\ UNCHANGED acc
     \/ /\ req[r].op = "write" /\ FullStripe(r)
        /\ Await(r, "full", NoDisk) /\ ProcessFull(r)
  /\ turn' = [turn EXCEPT ![OwnerOf(r)] = NoStripe]
  /\ UNCHANGED <<got, status>>

LEMMA ProcessCases ==
  ASSUME NEW r, Process(r)
  PROVE  \/ Crosses(r) /\ Ends(r, "Failure") /\ UNCHANGED got
         \/ ProcessStart(r)
<1>1. CASE Crosses(r)  BY <1>1 DEF Process, Ends
<1>2. CASE ~Crosses(r)
  BY <1>2 DEF Process, ProcessStart, ProcessFull
<1> QED  BY <1>1, <1>2

LEMMA DrainNextTypes ==
  ASSUME TypeOK, ShapeInv, PendingInv, TurnInv,
         NEW w \in Workers, DrainNext(w)
  PROVE  TypeOK'
<1> DEFINE s == turn[w]
           r == Head(pending[s])
<1>1. /\ r \in Reqs /\ req[r] \in Shapes /\ s \in Stripes
      /\ Stripe(r) = s /\ OwnerOf(r) = w
  BY PendingHead DEF DrainNext
<1>2. /\ pending' = [pending EXCEPT ![s] = Tail(@)] /\ pending[s] # <<>>
      /\ Process(r)
      /\ UNCHANGED <<chan, inbox, draining, req, disk, dead, readErrors,
                     writeErrors, crashes, torn, orphan, store>>
  BY DEF DrainNext, diskVars
<1> HIDE DEF r, s
<1>3. pending' \in [Stripes -> Seq(Reqs)]
  BY <1>1, <1>2, TailFacts DEF TypeOK
<1>4. CASE Ends(r, "Failure") /\ UNCHANGED got
  <2>1. Reply(r, "Failure")  BY <1>4 DEF Ends
  <2> QED  BY <1>1, <1>2, <1>3, <1>4, <2>1, ReplyTypes DEF TypeOK
<1>5. CASE ProcessStart(r)
  <2>1. turn' \in [Workers -> Stripes \cup {NoStripe}]
    BY <1>5 DEF ProcessStart, TypeOK
  <2>2. UNCHANGED <<got, status>>  BY <1>5 DEF ProcessStart
  <2>3. \E ph \in Active : Await(r, ph, NoDisk)
    BY <1>5 DEF ProcessStart, Active, Reading, Writing
  <2>4. /\ phase' \in [Reqs -> Waiting \cup Active \cup {"done", "gone"}]
        /\ io' \in [Reqs -> [Disks -> IoState]]
        /\ lost' \in [Reqs -> Disks \cup {NoDisk}]
    BY <1>1, <2>3, AwaitTypes
  <2>5. acc' \in [Reqs -> [Offsets -> Value]]
    <3>1. CASE UNCHANGED acc  BY <3>1 DEF TypeOK
    <3>2. CASE ProcessFull(r)
      <4> DEFINE n == [o \in Offsets |->
             Xor([d \in Disks \ {Parity(r)} |->
                    Data(r, BlockAt(Stripe(r), d, o))], Disks \ {Parity(r)})]
      <4>1. n \in [Offsets -> Value]  BY <1>1, DataXorType
      <4>2. acc' = [acc EXCEPT ![r] = n]  BY <3>2 DEF ProcessFull
      <4> HIDE DEF n
      <4> QED  BY <4>1, <4>2 DEF TypeOK
    <3> QED  BY <3>1, <3>2, <1>5 DEF ProcessStart
  <2> QED  BY <1>2, <1>3, <2>1, <2>2, <2>4, <2>5 DEF TypeOK
<1> QED  BY <1>2, <1>4, <1>5, ProcessCases

LEMMA DieTypes ==
  ASSUME TypeOK, NEW d \in Disks, Die(d)
  PROVE  TypeOK'
<1>1. dead' \in SUBSET Disks  BY DEF Die, TypeOK
<1>2. UNCHANGED <<chan, inbox, pending, draining, turn, req, phase, io, lost,
                  got, acc, status, disk, readErrors, writeErrors, crashes,
                  torn, orphan, store>>
  BY DEF Die, queueVars, reqVars
<1> QED  BY <1>1, <1>2 DEF TypeOK

\* The three things that a lower I/O does when it succeeds.
ReadBlocks(r, d) ==
  LET ext == Extent(r, phase[r], lost[r], d) IN
  /\ phase[r] \in {"read", "old"}
  /\ got' = [got EXCEPT ![r][d] = [o \in Offsets |->
       IF o \in ext THEN OnDisk(d, Stripe(r), o) ELSE @[o]]]
  /\ UNCHANGED <<acc, disk>>

AddBlocks(r, d) ==
  LET ext == Extent(r, phase[r], lost[r], d) IN
  /\ phase[r] \in {"readrec", "oldrec"}
  /\ acc' = [acc EXCEPT ![r] = [o \in Offsets |->
       IF o \in ext THEN Xor(<<@[o], OnDisk(d, Stripe(r), o)>>, 1..2)
                    ELSE @[o]]]
  /\ UNCHANGED <<got, disk>>

WriteBlocks(r, d, stale) ==
  LET ext == Extent(r, phase[r], lost[r], d)
      s == Stripe(r) IN
  /\ phase[r] \in Writing
  /\ disk' = [disk EXCEPT ![d] = [row \in Rows |->
       IF \E o \in ext : row = Row(s, o)
         THEN IF stale THEN Garbage ELSE Output(r, d, row % StripBlocks)
         ELSE @[row]]]
  /\ UNCHANGED <<got, acc>>

CompleteFrame(r, d) ==
  /\ ~orphan /\ io[r][d] = "busy"
  /\ UNCHANGED <<chan, inbox, pending, draining, turn, req, phase, lost,
                 status, dead, crashes, orphan, store>>

CompleteOk(r, d) ==
  /\ d \notin dead
  /\ io' = [io EXCEPT ![r][d] = "ok"]
  /\ UNCHANGED <<readErrors, writeErrors, torn>>
  /\ \/ ReadBlocks(r, d)
     \/ AddBlocks(r, d)
     \/ \E stale \in {FALSE, LateDma} : WriteBlocks(r, d, stale)

LEMMA CompleteCases ==
  ASSUME NEW r \in Reqs, NEW d \in Disks, Complete(r, d)
  PROVE  CompleteFrame(r, d) /\ (CompleteOk(r, d) \/ Fail(r, d))
<1>1. CompleteFrame(r, d)
  BY DEF Complete, CompleteFrame, queueVars
<1>2. ASSUME Succeed(r, d) PROVE CompleteOk(r, d)
  <2>1. /\ d \notin dead
        /\ io' = [io EXCEPT ![r][d] = "ok"]
        /\ UNCHANGED <<readErrors, writeErrors, torn>>
    BY <1>2 DEF Succeed
  <2>2. CASE phase[r] \in {"read", "old"}
    <3>1. ReadBlocks(r, d)
      BY <1>2, <2>2 DEF Succeed, ReadBlocks, Writing
    <3> QED  BY <2>1, <3>1 DEF CompleteOk
  <2>3. CASE phase[r] \in {"readrec", "oldrec"}
    <3>1. AddBlocks(r, d)
      BY <1>2, <2>3 DEF Succeed, AddBlocks, Writing
    <3> QED  BY <2>1, <3>1 DEF CompleteOk
  <2>4. CASE phase[r] \in Writing
    <3>1. \E stale \in {FALSE, LateDma /\ phase[r] = "full"} :
            WriteBlocks(r, d, stale)
      BY <1>2, <2>4 DEF Succeed, WriteBlocks, Writing
    <3>2. (LateDma /\ phase[r] = "full") \in {FALSE, LateDma}
      BY Raid5Assumption
    <3> QED  BY <2>1, <3>1, <3>2 DEF CompleteOk
  <2> QED  BY <1>2, <2>2, <2>3, <2>4 DEF Succeed
<1> QED  BY <1>1, <1>2 DEF Complete

LEMMA OutputType ==
  ASSUME TypeOK, NEW r \in Reqs, req[r] \in Shapes, NEW d \in Disks,
         NEW o \in Offsets
  PROVE  Output(r, d, o) \in Value
<1>1. Data(r, BlockAt(Stripe(r), d, o)) \in Value
  BY ReqPlace, BlockAtInt, ValueTypes
<1>2. acc[r][o] \in Value  BY DEF TypeOK
<1> QED  BY <1>1, <1>2 DEF Output

LEMMA CompleteTypes ==
  ASSUME TypeOK, ShapeInv, NEW r \in Reqs, NEW d \in Disks, Complete(r, d)
  PROVE  TypeOK'
<1>1. CompleteFrame(r, d) /\ (CompleteOk(r, d) \/ Fail(r, d))
  BY CompleteCases
<1>2. UNCHANGED <<chan, inbox, pending, draining, turn, req, phase, lost,
                  status, dead, crashes, orphan, store>>
  BY <1>1 DEF CompleteFrame
<1>3. phase[r] \in Active => req[r] \in Shapes
  BY DEF ShapeInv, Active, Reading, Writing
<1>4. io' \in [Reqs -> [Disks -> IoState]]
  <2>1. PICK x \in {"ok", "bad"} : io' = [io EXCEPT ![r][d] = x]
    BY <1>1 DEF CompleteOk, Fail
  <2> QED  BY <2>1 DEF TypeOK, IoState
<1>5. CASE CompleteOk(r, d)
  <2>1. UNCHANGED <<readErrors, writeErrors, torn>>
    BY <1>5 DEF CompleteOk
  <2>2. CASE ReadBlocks(r, d)
    <3> DEFINE ext == Extent(r, phase[r], lost[r], d)
               n == [o \in Offsets |-> IF o \in ext
                       THEN OnDisk(d, Stripe(r), o) ELSE got[r][d][o]]
    <3>1. Stripe(r) \in Stripes
      BY <1>3, <2>2, ReqPlace DEF ReadBlocks, Active, Reading
    <3>2. n \in [Offsets -> Value]
      BY <3>1, OnDiskType DEF TypeOK
    <3>3. got' = [got EXCEPT ![r][d] = n]
      BY <2>2 DEF ReadBlocks, TypeOK
    <3> HIDE DEF n
    <3>4. got' \in [Reqs -> [Disks -> [Offsets -> Value]]]
      BY <3>2, <3>3 DEF TypeOK
    <3>5. UNCHANGED <<acc, disk>>  BY <2>2 DEF ReadBlocks
    <3> QED  BY <1>2, <1>4, <2>1, <3>4, <3>5 DEF TypeOK
  <2>3. CASE AddBlocks(r, d)
    <3> DEFINE ext == Extent(r, phase[r], lost[r], d)
               n == [o \in Offsets |-> IF o \in ext
                       THEN Xor(<<acc[r][o], OnDisk(d, Stripe(r), o)>>, 1..2)
                       ELSE acc[r][o]]
    <3>1. Stripe(r) \in Stripes
      BY <1>3, <2>3, ReqPlace DEF AddBlocks, Active, Reading
    <3>2. n \in [Offsets -> Value]
      <4>1. \A o \in Offsets : /\ acc[r][o] \in Value
                               /\ OnDisk(d, Stripe(r), o) \in Value
        BY <3>1, OnDiskType DEF TypeOK
      <4>2. \A o \in Offsets :
              Xor(<<acc[r][o], OnDisk(d, Stripe(r), o)>>, 1..2) \in Value
        BY <4>1, PairType
      <4> QED  BY <4>1, <4>2
    <3>3. acc' = [acc EXCEPT ![r] = n]
      BY <2>3 DEF AddBlocks, TypeOK
    <3> HIDE DEF n
    <3>4. acc' \in [Reqs -> [Offsets -> Value]]
      BY <3>2, <3>3 DEF TypeOK
    <3>5. UNCHANGED <<got, disk>>  BY <2>3 DEF AddBlocks
    <3> QED  BY <1>2, <1>4, <2>1, <3>4, <3>5 DEF TypeOK
  <2>4. ASSUME NEW stale, WriteBlocks(r, d, stale)
        PROVE  disk' \in [Disks -> [Rows -> Value]] /\ UNCHANGED <<got, acc>>
    <3> DEFINE ext == Extent(r, phase[r], lost[r], d)
               n == [row \in Rows |->
                       IF \E o \in ext : row = Row(Stripe(r), o)
                         THEN IF stale THEN Garbage
                                       ELSE Output(r, d, row % StripBlocks)
                         ELSE disk[d][row]]
    <3>1. req[r] \in Shapes  BY <1>3, <2>4 DEF WriteBlocks, Active
    <3>2. ASSUME NEW row \in Rows
          PROVE  Output(r, d, row % StripBlocks) \in Value
      BY <3>1, RowSplit, OutputType
    <3>3. n \in [Rows -> Value]  BY <3>2, ValueTypes DEF TypeOK
    <3>4. disk' = [disk EXCEPT ![d] = n] /\ UNCHANGED <<got, acc>>
      BY <2>4 DEF WriteBlocks, TypeOK
    <3> HIDE DEF n
    <3> QED  BY <3>3, <3>4 DEF TypeOK
  <2>5. CASE \E stale \in {FALSE, LateDma} : WriteBlocks(r, d, stale)
    BY <1>2, <1>4, <2>1, <2>4, <2>5 DEF TypeOK
  <2> QED  BY <1>5, <2>2, <2>3, <2>5 DEF CompleteOk
<1>6. CASE Fail(r, d)
  <2>1. UNCHANGED <<got, acc, disk>>  BY <1>6 DEF Fail
  <2>2. readErrors' \in 0..MaxReadErrors
    BY <1>6, Raid5Assumption DEF Fail, TypeOK
  <2>3. writeErrors' \in 0..MaxWriteErrors
    BY <1>6, Raid5Assumption DEF Fail, TypeOK
  <2>4. torn' \in SUBSET Stripes
    <3>1. phase[r] \in Writing => Stripe(r) \in Stripes
      BY <1>3, ReqPlace DEF Active
    <3> QED  BY <1>6, <3>1 DEF Fail, TypeOK
  <2> QED  BY <1>2, <1>4, <2>1, <2>2, <2>3, <2>4 DEF TypeOK
<1> QED  BY <1>1, <1>5, <1>6

LEMMA ResumeTypes ==
  ASSUME TypeOK, ShapeInv, NEW r \in Reqs, Resume(r)
  PROVE  TypeOK'
<1>1. /\ ResumeFrame(r) /\ orphan' \in BOOLEAN
      /\ \/ ReadStep(r) \/ RecoverStep(r) \/ GiveUpStep(r)
         \/ OldStep(r) \/ NewStep(r) \/ EndStep(r)
  BY ResumeCases DEF TypeOK
<1>2. UNCHANGED <<chan, inbox, pending, draining, req, disk, dead,
                  readErrors, writeErrors, crashes>>
  BY <1>1 DEF ResumeFrame
<1>3. req[r] \in Shapes
  BY <1>1 DEF ResumeFrame, MayRun, ShapeInv, Active, Reading, Writing
<1>4. Stripe(r) \in Stripes  BY <1>3, ReqPlace
<1>5. torn' \in SUBSET Stripes
  BY <1>1 DEF ReadStep, RecoverStep, GiveUpStep, OldStep, NewStep, EndStep,
              TypeOK
<1> DEFINE PhaseTypes ==
             /\ phase' \in [Reqs -> Waiting \cup Active \cup {"done", "gone"}]
             /\ io' \in [Reqs -> [Disks -> IoState]]
             /\ lost' \in [Reqs -> Disks \cup {NoDisk}]
           AnswerTypes ==
             /\ status' \in [Reqs -> {"none", "Success", "Failure"}]
             /\ acc' \in [Reqs -> [Offsets -> Value]]
             /\ turn' \in [Workers -> Stripes \cup {NoStripe}]
           DataTypes ==
             /\ got' \in [Reqs -> [Disks -> [Offsets -> Value]]]
             /\ store' \in [Blocks -> Value]
<1>6. ASSUME NEW st, Ends(r, st) PROVE PhaseTypes /\ AnswerTypes
  BY <1>4, <1>6, ReplyTypes DEF Ends
<1>7. ASSUME NEW ph \in Active, Rebuilds(r, ph)
      PROVE  PhaseTypes /\ AnswerTypes
                 /\ got' \in [Reqs -> [Disks -> [Offsets -> Value]]]
  <2>1. PICK l \in Disks : Await(r, ph, l)  BY <1>7 DEF Rebuilds
  <2>2. PhaseTypes  BY <2>1, AwaitTypes
  <2> QED  BY <1>7, <2>2 DEF Rebuilds, TypeOK
<1>8. UNCHANGED store => store' \in [Blocks -> Value]  BY DEF TypeOK
<1>9. UNCHANGED got => got' \in [Reqs -> [Disks -> [Offsets -> Value]]]
  BY DEF TypeOK
<1>10. ASSUME NEW old \in [Disks -> [Offsets -> Value]], WriteNew(r, old)
       PROVE  PhaseTypes /\ AnswerTypes
                /\ got' \in [Reqs -> [Disks -> [Offsets -> Value]]]
  <2>1. UNCHANGED <<turn, status>>  BY <1>10 DEF WriteNew
  <2> QED  BY <1>3, <1>10, <2>1, WriteNewTypes DEF TypeOK
<1>11. got[r] \in [Disks -> [Offsets -> Value]]
       /\ [got[r] EXCEPT ![lost[r]] = acc[r]]
            \in [Disks -> [Offsets -> Value]]
  BY DEF TypeOK
<1> HIDE DEF PhaseTypes, AnswerTypes
<1>12. PhaseTypes /\ AnswerTypes /\ DataTypes
  <2>1. CASE ReadStep(r)
    <3>1. "readrec" \in Active  BY DEF Active, Reading
    <3> QED  BY <2>1, <3>1, <1>6, <1>7, <1>8, <1>9, ReleaseTypes DEF ReadStep
  <2>2. CASE RecoverStep(r)
    <3>1. got' \in [Reqs -> [Disks -> [Offsets -> Value]]]
      BY <2>2 DEF RecoverStep, TypeOK
    <3> QED  BY <2>2, <3>1, <1>6, <1>8 DEF RecoverStep
  <2>3. CASE GiveUpStep(r)
    BY <2>3, <1>6, <1>8, ReleaseTypes DEF GiveUpStep
  <2>4. CASE OldStep(r)
    <3>1. "oldrec" \in Active  BY DEF Active, Reading
    <3> QED
      BY <2>4, <3>1, <1>6, <1>7, <1>8, <1>10, <1>11, ReleaseTypes,
         SettleTypes DEF OldStep
  <2>5. CASE NewStep(r)  BY <2>5, <1>8, <1>10, <1>11 DEF NewStep
  <2>6. CASE EndStep(r)
    BY <2>6, <1>6, <1>9, SettleTypes DEF EndStep
  <2> QED  BY <1>1, <2>1, <2>2, <2>3, <2>4, <2>5, <2>6
<1> QED
  BY <1>1, <1>2, <1>5, <1>12 DEF PhaseTypes, AnswerTypes, TypeOK

LEMMA CrashTypes ==
  ASSUME TypeOK, ShapeInv, Crash
  PROVE  TypeOK'
<1>1. crashes' \in 0..MaxCrashes  BY Raid5Assumption DEF Crash, TypeOK
<1>2. torn' \in SUBSET Stripes
  <2>1. \A r \in Reqs : phase[r] \in Writing => Stripe(r) \in Stripes
    BY ReqPlace DEF ShapeInv, Writing
  <2> QED  BY <2>1 DEF Crash, TypeOK, HalfWritten
<1>3. store' \in [Blocks -> Value]
  <2> DEFINE L(b) == CHOOSE r \in Reqs : Landed(r, b)
  <2>1. ASSUME NEW b \in Blocks, \E r \in Reqs : Landed(r, b)
        PROVE  Data(L(b), b) \in Value
    <3>1. L(b) \in Reqs  BY <2>1
    <3> HIDE DEF L
    <3> QED  BY <3>1, BlockPlace, ValueTypes
  <2>2. store' = [b \in Blocks |-> IF \E r \in Reqs : Landed(r, b)
                                     THEN Data(L(b), b) ELSE store[b]]
    BY DEF Crash
  <2> HIDE DEF L
  <2> QED  BY <2>1, <2>2 DEF TypeOK
<1>4. /\ chan' \in [Workers -> BOOLEAN]
      /\ inbox' \in [Workers -> Seq(Reqs \cup {Start})]
      /\ pending' \in [Stripes -> Seq(Reqs)]
      /\ draining' \in [Stripes -> BOOLEAN]
      /\ turn' \in [Workers -> Stripes \cup {NoStripe}]
  <2>1. <<Start>> \in Seq(Reqs \cup {Start})  OBVIOUS
  <2> QED  BY <2>1 DEF Crash
<1>5. phase' \in [Reqs -> Waiting \cup Active \cup {"done", "gone"}]
  BY DEF Crash, Waiting
<1>6. /\ io' \in [Reqs -> [Disks -> IoState]]
      /\ lost' \in [Reqs -> Disks \cup {NoDisk}]
      /\ acc' \in [Reqs -> [Offsets -> Value]]
      /\ got' \in [Reqs -> [Disks -> [Offsets -> Value]]]
  <2>1. Nothing \in [Disks -> IoState]  BY DEF Nothing, IoState
  <2>2. Zeroed \in [Offsets -> Value]
        /\ Unread \in [Disks -> [Offsets -> Value]]
    BY ValueTypes
  <2> QED  BY <2>1, <2>2 DEF Crash, TypeOK
<1>7. UNCHANGED <<req, status, disk, dead, readErrors, writeErrors, orphan>>
  BY DEF Crash
<1> QED  BY <1>1, <1>2, <1>3, <1>4, <1>5, <1>6, <1>7 DEF TypeOK

LEMMA InitTypes == Init => TypeOK
<1> SUFFICES ASSUME Init PROVE TypeOK
  OBVIOUS
<1>1. disk \in [Disks -> [Rows -> Value]]
  <2>1. ASSUME NEW d \in Disks, NEW row \in Rows
        PROVE  FirstDisk(d, torn)[row] \in Value
    <3> DEFINE s == row \div StripBlocks
               o == row % StripBlocks
               p == ParityDisk(s)
    <3>1. s \in Stripes /\ o \in Offsets  BY RowSplit
    <3>2. \A e \in Disks : FirstData(s, e, o) \in Value
      <4> TAKE e \in Disks
      <4>1. BlockAt(s, e, o) \in Int  BY <3>1, BlockAtInt
      <4> QED  BY <4>1, ValueTypes DEF FirstData, Initial, Value, Tag
    <3>3. Xor([e \in Disks \ {p} |-> FirstData(s, e, o)], Disks \ {p})
            \in Value
      BY <3>2, XorType
    <3>4. CASE d # p
      <4>1. FirstDisk(d, torn)[row] = FirstData(s, d, o)
        BY <3>4 DEF FirstDisk
      <4> QED  BY <3>2, <4>1
    <3>5. CASE d = p /\ s \in torn
      <4>1. FirstDisk(d, torn)[row] = Garbage  BY <3>5 DEF FirstDisk
      <4> QED  BY <4>1, ValueTypes
    <3>6. CASE d = p /\ s \notin torn
      <4>1. FirstDisk(d, torn)[row]
              = Xor([e \in Disks \ {p} |-> FirstData(s, e, o)], Disks \ {p})
        BY <3>6 DEF FirstDisk
      <4> QED  BY <3>3, <4>1
    <3> QED  BY <3>4, <3>5, <3>6
  <2>2. \A d \in Disks : FirstDisk(d, torn) \in [Rows -> Value]
    <3> TAKE d \in Disks
    <3>1. \E f : FirstDisk(d, torn) = [row \in Rows |-> f[row]]
      <4>1. FirstDisk(d, torn)
              = [row \in Rows |-> FirstDisk(d, torn)[row]]
        BY DEF FirstDisk
      <4> QED  BY <4>1
    <3> QED  BY <2>1, <3>1
  <2> QED  BY <2>2 DEF Init
<1>2. /\ io \in [Reqs -> [Disks -> IoState]]
      /\ acc \in [Reqs -> [Offsets -> Value]]
      /\ got \in [Reqs -> [Disks -> [Offsets -> Value]]]
      /\ store \in [Blocks -> Value]
  <2>1. \A b \in Blocks : Initial(b) \in Value
    BY BlockPlace DEF Initial, Value, Tag
  <2> QED  BY <2>1, ValueTypes DEF Init, Nothing, IoState
<1>3. inbox \in [Workers -> Seq(Reqs \cup {Start})]
  <2>1. <<Start>> \in Seq(Reqs \cup {Start})  OBVIOUS
  <2> QED  BY <2>1 DEF Init
<1>4. torn \in SUBSET Stripes  BY Raid5Assumption DEF Init
<1>5. /\ readErrors \in 0..MaxReadErrors /\ writeErrors \in 0..MaxWriteErrors
      /\ crashes \in 0..MaxCrashes
  BY Raid5Assumption DEF Init
<1>6. pending \in [Stripes -> Seq(Reqs)]
  <2>1. <<>> \in Seq(Reqs)  OBVIOUS
  <2> QED  BY <2>1 DEF Init
<1>7. /\ chan \in [Workers -> BOOLEAN]
      /\ draining \in [Stripes -> BOOLEAN]
      /\ turn \in [Workers -> Stripes \cup {NoStripe}]
      /\ req \in [Reqs -> Shapes \cup {NoShape}]
      /\ phase \in [Reqs -> Waiting \cup Active \cup {"done", "gone"}]
      /\ lost \in [Reqs -> Disks \cup {NoDisk}]
      /\ status \in [Reqs -> {"none", "Success", "Failure"}]
      /\ dead \in SUBSET Disks /\ orphan \in BOOLEAN
  BY DEF Init, Waiting
<1> QED
  BY <1>1, <1>2, <1>3, <1>4, <1>5, <1>6, <1>7 DEF TypeOK

-----------------------------------------------------------------------------
(* The queues, action by action.                                           *)

LEMMA SameShape ==
  ASSUME NEW r, req'[r] = req[r]
  PROVE  /\ Stripe(r)' = Stripe(r) /\ OwnerOf(r)' = OwnerOf(r)
         /\ Parity(r)' = Parity(r) /\ ReqBlocks(r)' = ReqBlocks(r)
         /\ Crosses(r)' = Crosses(r) /\ FullStripe(r)' = FullStripe(r)
BY DEF Stripe, OwnerOf, Parity, ReqBlocks, Crosses, FullStripe

\* Who is in service when one request changes its phase.
LEMMA ServiceStep ==
  ASSUME TypeOK, UNCHANGED req, NEW r \in Reqs, NEW x,
         phase' = [phase EXCEPT ![r] = x], NEW t
  PROVE  InService(t)' = IF x \in Active /\ Stripe(r) = t
                           THEN InService(t) \cup {r} ELSE InService(t) \ {r}
<1>1. \A q \in Reqs : phase'[q] = IF q = r THEN x ELSE phase[q]
  BY DEF TypeOK
<1>2. \A q : Stripe(q)' = Stripe(q)  BY DEF Stripe
<1> QED  BY <1>1, <1>2 DEF InService

\* Requests go on or end only where they are being served.
LEMMA ShapeStep ==
  ASSUME TypeOK, ShapeInv, UNCHANGED req, NEW r \in Reqs, NEW x,
         phase' = [phase EXCEPT ![r] = x], req[r] \in Shapes,
         x \in Active => ~Crosses(r),
         x \in {"read", "readrec"} => req[r].op = "read",
         x \in {"old", "oldrec", "new", "full"} => req[r].op = "write",
         x = "full" => FullStripe(r)
  PROVE  ShapeInv'
<1>1. \A q \in Reqs : phase'[q] = IF q = r THEN x ELSE phase[q]
  BY DEF TypeOK
<1>2. \A q : /\ Crosses(q)' = Crosses(q) /\ FullStripe(q)' = FullStripe(q)
             /\ req'[q] = req[q]
  BY SameShape
<1> QED  BY <1>1, <1>2 DEF ShapeInv

LEMMA QueueInit == Init => QueueInv
<1> SUFFICES ASSUME Init PROVE QueueInv
  OBVIOUS
<1>1. TypeOK  BY InitTypes
<1>2. ShapeInv  BY DEF Init, ShapeInv, Active, Reading, Writing
<1>3. InboxInv
  <2>1. <<Start>> \in Seq({Start})  OBVIOUS
  <2>2. IsInjective(<<Start>>) /\ Range(<<Start>>) = {Start}
    BY DEF IsInjective, Range
  <2> QED  BY <2>2 DEF Init, InboxInv
<1>4. PendingInv
  <2>1. IsInjective(<<>>) /\ Range(<<>>) = {}  BY DEF IsInjective, Range
  <2> QED  BY <2>1 DEF Init, PendingInv
<1>5. TurnInv  BY DEF Init, TurnInv
<1>6. OneDrainer
  <2>1. \A s \in Stripes : InService(s) = {}
    BY DEF Init, InService, Active, Reading, Writing
  <2>2. \A s \in Stripes : s # NoStripe /\ Owner(s) \in Workers
    BY OwnerPlace DEF Stripes, NoStripe
  <2> QED  BY <2>1, <2>2 DEF Init, OneDrainer
<1> QED  BY <1>1, <1>2, <1>3, <1>4, <1>5, <1>6 DEF QueueInv

\* What leaves the queues and the phases alone leaves the invariant alone.
LEMMA QueueSame ==
  ASSUME QueueInv, UNCHANGED <<inbox, pending, draining, turn, req, phase>>,
         TypeOK'
  PROVE  QueueInv'
<1>1. \A r : /\ Stripe(r)' = Stripe(r) /\ OwnerOf(r)' = OwnerOf(r)
             /\ Crosses(r)' = Crosses(r) /\ FullStripe(r)' = FullStripe(r)
  BY SameShape
<1>2. \A s : InService(s)' = InService(s)  BY <1>1 DEF InService
<1>3. ShapeInv'  BY <1>1 DEF QueueInv, ShapeInv
<1>4. InboxInv'  BY <1>1 DEF QueueInv, InboxInv
<1>5. PendingInv'  BY <1>1 DEF QueueInv, PendingInv
<1>6. TurnInv'  BY DEF QueueInv, TurnInv
<1>7. OneDrainer'  BY <1>2 DEF QueueInv, OneDrainer
<1> QED  BY <1>3, <1>4, <1>5, <1>6, <1>7 DEF QueueInv

LEMMA QueueSubmit ==
  ASSUME QueueInv, NEW r \in Reqs, Submit(r)
  PROVE  QueueInv'
<1> USE DEF QueueInv
<1>1. TypeOK'  BY SubmitTypes
<1>2. PICK x \in Shapes :
        /\ req' = [req EXCEPT ![r] = x]
        /\ inbox' = [inbox EXCEPT ![Owner(StripeIdx(x.first))] = Append(@, r)]
  BY DEF Submit
<1>3. /\ phase[r] = "unsent" /\ phase' = [phase EXCEPT ![r] = "sent"]
      /\ UNCHANGED <<pending, draining, turn>>
  BY DEF Submit
<1> DEFINE w == Owner(StripeIdx(x.first))
<1>4. w \in Workers  BY ShapePlace
<1>5. req'[r] = x /\ OwnerOf(r)' = w
  BY <1>2 DEF TypeOK, OwnerOf, Stripe
<1>6. \A q \in Reqs \ {r} : phase'[q] = phase[q] /\ req'[q] = req[q]
  BY <1>2, <1>3 DEF TypeOK
<1>7. phase'[r] = "sent"  BY <1>3 DEF TypeOK
<1>8. \A q \in Reqs \ {r} :
        /\ Stripe(q)' = Stripe(q) /\ OwnerOf(q)' = OwnerOf(q)
        /\ Crosses(q)' = Crosses(q) /\ FullStripe(q)' = FullStripe(q)
  BY <1>6, SameShape
<1>9. ShapeInv'
  BY <1>5, <1>6, <1>7, <1>8 DEF ShapeInv, Active, Reading, Writing
<1>10. InboxInv'
  <2> SUFFICES ASSUME NEW v \in Workers
               PROVE  /\ IsInjective(inbox'[v])
                      /\ \A m \in Range(inbox'[v]) :
                           m = Start \/ /\ m \in Reqs /\ phase'[m] = "sent"
                                        /\ OwnerOf(m)' = v
    BY DEF InboxInv
  <2>1. inbox[v] \in Seq(Reqs \cup {Start})  BY DEF TypeOK
  <2>2. r \notin Range(inbox[v])
    BY <1>3, Raid5Assumption DEF InboxInv
  <2>3. \A m \in Range(inbox[v]) :
          m = Start \/ /\ m \in Reqs /\ phase'[m] = "sent"
                       /\ OwnerOf(m)' = v
    <3> TAKE m \in Range(inbox[v])
    <3> SUFFICES ASSUME m # Start
                 PROVE  m \in Reqs /\ phase'[m] = "sent" /\ OwnerOf(m)' = v
      OBVIOUS
    <3>1. m \in Reqs /\ phase[m] = "sent" /\ OwnerOf(m) = v
      BY DEF InboxInv
    <3>2. m \in Reqs \ {r}  BY <3>1, <2>2
    <3> QED  BY <3>1, <3>2, <1>6, <1>8
  <2>4. IsInjective(inbox[v])  BY DEF InboxInv
  <2>5. CASE v # w
    <3>1. inbox'[v] = inbox[v]  BY <2>5, <1>2 DEF TypeOK
    <3> QED  BY <3>1, <2>3, <2>4
  <2>6. CASE v = w
    <3>1. inbox'[v] = Append(inbox[v], r)  BY <2>6, <1>2 DEF TypeOK
    <3>2. /\ Range(Append(inbox[v], r)) = Range(inbox[v]) \cup {r}
          /\ IsInjective(Append(inbox[v], r))
      BY <2>1, <2>2, <2>4, AppendFacts
    <3> QED  BY <2>3, <2>6, <3>1, <3>2, <1>5, <1>7
  <2> QED  BY <2>5, <2>6
<1>11. PendingInv'
  <2>1. ASSUME NEW s \in Stripes, NEW q \in Range(pending[s])
        PROVE  phase'[q] = "queued" /\ Stripe(q)' = s
    <3>1. pending[s] \in Seq(Reqs)  BY DEF TypeOK
    <3>2. q \in Reqs  BY <3>1, <2>1, RangeOfSeq
    <3>3. q # r  BY <2>1, <1>3 DEF PendingInv
    <3> QED  BY <2>1, <3>2, <3>3, <1>6, <1>8 DEF PendingInv
  <2> QED  BY <2>1, <1>3 DEF PendingInv
<1>12. TurnInv'  BY <1>3 DEF TurnInv
<1>13. OneDrainer'
  <2>1. \A s : InService(s)' = InService(s)
    BY <1>3, <1>6, <1>7, <1>8 DEF InService, Active, Reading, Writing
  <2> QED  BY <2>1, <1>3 DEF OneDrainer
<1> QED  BY <1>1, <1>9, <1>10, <1>11, <1>12, <1>13

LEMMA QueueInitTask ==
  ASSUME QueueInv, NEW w \in Workers, RunInit(w)
  PROVE  QueueInv'
<1> USE DEF QueueInv
<1>1. TypeOK'  BY InitTaskTypes
<1>2. UNCHANGED <<pending, draining, turn, req, phase>>
  BY DEF RunInit, reqVars
<1>3. inbox' = [inbox EXCEPT ![w] = Tail(@)] /\ inbox[w] # <<>>
  BY DEF RunInit
<1>4. \A r : /\ Stripe(r)' = Stripe(r) /\ OwnerOf(r)' = OwnerOf(r)
             /\ Crosses(r)' = Crosses(r) /\ FullStripe(r)' = FullStripe(r)
  BY <1>2, SameShape
<1>5. \A s : InService(s)' = InService(s)  BY <1>2, <1>4 DEF InService
<1>6. ShapeInv'  BY <1>2, <1>4 DEF ShapeInv
<1>7. ASSUME NEW v \in Workers
      PROVE  /\ IsInjective(inbox'[v])
             /\ Range(inbox'[v]) \subseteq Range(inbox[v])
  <2>1. CASE v # w
    <3>1. inbox'[v] = inbox[v]  BY <2>1, <1>3 DEF TypeOK
    <3> QED  BY <3>1 DEF InboxInv
  <2>2. CASE v = w
    <3>1. inbox'[w] = Tail(inbox[w])  BY <1>3 DEF TypeOK
    <3>2. inbox[w] \in Seq(Reqs \cup {Start}) /\ IsInjective(inbox[w])
      BY DEF TypeOK, InboxInv
    <3> QED  BY <2>2, <3>1, <3>2, <1>3, TailFacts
  <2> QED  BY <2>1, <2>2
<1>8. InboxInv'  BY <1>2, <1>4, <1>7 DEF InboxInv
<1>9. PendingInv'  BY <1>2, <1>4 DEF PendingInv
<1>10. TurnInv'  BY <1>2 DEF TurnInv
<1>11. OneDrainer'  BY <1>2, <1>5 DEF OneDrainer
<1> QED  BY <1>1, <1>6, <1>8, <1>9, <1>10, <1>11

LEMMA QueueRunSubmit ==
  ASSUME QueueInv, NEW w \in Workers, RunSubmit(w)
  PROVE  QueueInv'
<1> USE DEF QueueInv
<1>1. TypeOK'  BY RunSubmitTypes
<1>0. PICK r \in Reqs, s \in Stripes :
        /\ r = Head(inbox[w]) /\ s = Stripe(r)
        /\ phase[r] = "sent" /\ OwnerOf(r) = w /\ req[r] \in Shapes
  BY InboxHead DEF RunSubmit
<1>2. /\ r \in Reqs /\ phase[r] = "sent" /\ OwnerOf(r) = w
      /\ req[r] \in Shapes /\ s \in Stripes /\ Stripe(r) = s
  BY <1>0
<1>3. /\ pending' = [pending EXCEPT ![s] = Append(@, r)]
      /\ draining' = [draining EXCEPT ![s] = TRUE]
      /\ turn' = [turn EXCEPT ![w] = IF draining[s] THEN NoStripe ELSE s]
      /\ phase' = [phase EXCEPT ![r] = "queued"]
      /\ inbox' = [inbox EXCEPT ![w] = Tail(@)] /\ inbox[w] # <<>>
      /\ turn[w] = NoStripe /\ UNCHANGED req
  BY <1>0 DEF RunSubmit
<1>4. inbox[w] \in Seq(Reqs \cup {Start}) /\ IsInjective(inbox[w])
  BY DEF TypeOK, InboxInv
<1>5. r \notin Range(Tail(inbox[w]))
        /\ IsInjective(Tail(inbox[w]))
        /\ Range(Tail(inbox[w])) \subseteq Range(inbox[w])
  BY <1>0, <1>3, <1>4, TailFacts
<1>6. \A q : /\ Stripe(q)' = Stripe(q) /\ OwnerOf(q)' = OwnerOf(q)
  BY <1>3, SameShape
<1>7. \A q \in Reqs : phase'[q] = IF q = r THEN "queued" ELSE phase[q]
  BY <1>2, <1>3 DEF TypeOK
<1>8. ShapeInv'
  BY <1>2, <1>3, ShapeStep DEF Active, Reading, Writing
<1>9. InboxInv'
  <2>1. ASSUME NEW v \in Workers
        PROVE  /\ IsInjective(inbox'[v]) /\ r \notin Range(inbox'[v])
               /\ Range(inbox'[v]) \subseteq Range(inbox[v])
    <3>1. CASE v # w
      <4>1. inbox'[v] = inbox[v]  BY <3>1, <1>3 DEF TypeOK
      <4>2. r \notin Range(inbox[v])
        BY <3>1, <1>2, Raid5Assumption DEF InboxInv
      <4> QED  BY <4>1, <4>2 DEF InboxInv
    <3>2. CASE v = w
      <4>1. inbox'[w] = Tail(inbox[w])  BY <1>3 DEF TypeOK
      <4> QED  BY <3>2, <4>1, <1>5
    <3> QED  BY <3>1, <3>2
  <2> QED  BY <2>1, <1>6, <1>7 DEF InboxInv
<1>10. PendingInv'
  <2>1. pending[s] \in Seq(Reqs)  BY <1>2 DEF TypeOK
  <2>2. \A t \in Stripes : r \notin Range(pending[t])
    BY <1>2 DEF PendingInv
  <2>3. ASSUME NEW t \in Stripes, NEW q \in Range(pending[t])
        PROVE  phase'[q] = "queued" /\ Stripe(q)' = t
    <3>1. q \in Reqs  BY <2>3, RangeOfSeq DEF TypeOK
    <3> QED  BY <2>3, <3>1, <1>6, <1>7 DEF PendingInv
  <2>4. /\ Range(Append(pending[s], r)) = Range(pending[s]) \cup {r}
        /\ IsInjective(Append(pending[s], r))
    BY <2>1, <2>2, <1>2, AppendFacts DEF PendingInv
  <2>5. phase'[r] = "queued" /\ Stripe(r)' = s  BY <1>2, <1>6, <1>7
  <2>6. \A t \in Stripes : pending'[t]
            = IF t = s THEN Append(pending[s], r) ELSE pending[t]
    BY <1>2, <1>3 DEF TypeOK
  <2> QED  BY <2>3, <2>4, <2>5, <2>6, <1>2 DEF PendingInv
<1>11. TurnInv'
  <2>1. Owner(s) = w  BY <1>2 DEF OwnerOf
  <2> QED  BY <2>1, <1>2, <1>3 DEF TurnInv, TypeOK
<1>12. OneDrainer'
  <2>1. ~("queued" \in Active) /\ r \notin InService(s)
    BY <1>2 DEF InService, Active, Reading, Writing
  <2>2. \A t : InService(t)' = InService(t)
    BY <1>6, <1>7, <1>2 DEF InService, Active, Reading, Writing
  <2>3. Owner(s) = w  BY <1>2 DEF OwnerOf
  <2>4. NoStripe \notin Stripes  BY DEF Stripes, NoStripe
  <2>5. turn[w] # s  BY <2>4, <1>2, <1>3
  <2>6. \A v \in Workers : turn'[v] = IF v = w
             THEN IF draining[s] THEN NoStripe ELSE s ELSE turn[v]
    BY <1>3 DEF TypeOK
  <2>7. \A t \in Stripes : draining'[t] = IF t = s THEN TRUE ELSE draining[t]
    BY <1>3 DEF TypeOK
  <2>8. \A t \in Stripes : t # s => pending'[t] = pending[t]
    BY <1>2, <1>3 DEF TypeOK
  <2> SUFFICES ASSUME NEW t \in Stripes
               PROVE  /\ \A q, x \in InService(t) : q = x
                      /\ turn'[Owner(t)] = t => InService(t) = {}
                      /\ draining'[t]
                           <=> (InService(t) # {} \/ turn'[Owner(t)] = t)
                      /\ pending'[t] # <<>> => draining'[t]
    BY <2>2 DEF OneDrainer
  <2>9. Owner(t) \in Workers  BY OwnerPlace
  <2>10. CASE t = s
    <3>1. draining[s] <=> InService(s) # {}
      BY <2>3, <2>5, <1>2 DEF OneDrainer
    <3>2. turn'[w] = s <=> ~draining[s]  BY <2>4, <2>6, <1>2
    <3>3. draining'[s]  BY <2>7, <1>2
    <3>4. \A q, x \in InService(s) : q = x  BY DEF OneDrainer
    <3> QED  BY <2>3, <2>10, <3>1, <3>2, <3>3, <3>4
  <2>11. CASE t # s
    <3>1. turn'[Owner(t)] = t <=> turn[Owner(t)] = t
      BY <2>4, <2>6, <2>9, <2>11, <1>3
    <3> QED  BY <3>1, <2>7, <2>8, <2>11 DEF OneDrainer
  <2> QED  BY <2>10, <2>11
<1> QED  BY <1>1, <1>8, <1>9, <1>10, <1>11, <1>12

LEMMA QueueDrainEnd ==
  ASSUME QueueInv, NEW w \in Workers, DrainEnd(w)
  PROVE  QueueInv'
<1> USE DEF QueueInv
<1>1. TypeOK'  BY DrainEndTypes
<1> DEFINE s == turn[w]
<1>2. s \in Stripes /\ Owner(s) = w  BY DEF DrainEnd, TypeOK, TurnInv
<1>3. /\ pending[s] = <<>> /\ draining' = [draining EXCEPT ![s] = FALSE]
      /\ turn' = [turn EXCEPT ![w] = NoStripe]
      /\ UNCHANGED <<inbox, pending, req, phase>>
  BY DEF DrainEnd, reqVars
<1>4. \A r : /\ Stripe(r)' = Stripe(r) /\ OwnerOf(r)' = OwnerOf(r)
             /\ Crosses(r)' = Crosses(r) /\ FullStripe(r)' = FullStripe(r)
  BY <1>3, SameShape
<1>5. \A t : InService(t)' = InService(t)  BY <1>3, <1>4 DEF InService
<1>6. ShapeInv'  BY <1>3, <1>4 DEF ShapeInv
<1>7. InboxInv'  BY <1>3, <1>4 DEF InboxInv
<1>8. PendingInv'  BY <1>3, <1>4 DEF PendingInv
<1>9. TurnInv'  BY <1>3 DEF TurnInv, TypeOK
<1>10. OneDrainer'
  <2>1. NoStripe \notin Stripes  BY DEF Stripes, NoStripe
  <2>2. InService(s) = {} /\ turn[Owner(s)] = s
    BY <1>2 DEF OneDrainer
  <2>3. \A v \in Workers : turn'[v] = IF v = w THEN NoStripe ELSE turn[v]
    BY <1>3 DEF TypeOK
  <2>4. \A t \in Stripes : draining'[t] = IF t = s THEN FALSE ELSE draining[t]
    BY <1>3 DEF TypeOK
  <2> HIDE DEF s
  <2> SUFFICES ASSUME NEW t \in Stripes
               PROVE  /\ \A q, x \in InService(t) : q = x
                      /\ turn'[Owner(t)] = t => InService(t) = {}
                      /\ draining'[t]
                           <=> (InService(t) # {} \/ turn'[Owner(t)] = t)
                      /\ pending[t] # <<>> => draining'[t]
    BY <1>3, <1>5 DEF OneDrainer
  <2>5. Owner(t) \in Workers  BY OwnerPlace
  <2>6. CASE t = s
    BY <2>1, <2>2, <2>3, <2>4, <2>6, <1>2, <1>3
  <2>7. CASE t # s
    <3>1. turn'[Owner(t)] = t <=> turn[Owner(t)] = t
      BY <2>1, <2>2, <2>3, <2>5, <2>7, <1>2
    <3> QED  BY <3>1, <2>4, <2>7 DEF OneDrainer
  <2> QED  BY <2>6, <2>7
<1> QED  BY <1>1, <1>6, <1>7, <1>8, <1>9, <1>10

\* The request that is served ends, and its worker goes back to the queue, or
\* it goes on.
LEMMA QueueServe ==
  ASSUME QueueInv, NEW r \in Reqs, NEW x,
         UNCHANGED <<inbox, pending, draining, req>>,
         phase[r] \in Active,
         phase' = [phase EXCEPT ![r] = x], req[r] \in Shapes,
         \/ x \in Active /\ UNCHANGED turn
         \/ x = "done" /\ turn' = [turn EXCEPT ![OwnerOf(r)] = Stripe(r)]
                       /\ turn[OwnerOf(r)] = NoStripe,
         x \in {"read", "readrec"} => req[r].op = "read",
         x \in {"old", "oldrec", "new", "full"} => req[r].op = "write",
         x = "full" => FullStripe(r), TypeOK'
  PROVE  QueueInv'
<1> USE DEF QueueInv
<1>1. PICK s \in Stripes, w \in Workers :
        /\ s = Stripe(r) /\ w = OwnerOf(r) /\ Owner(s) = w
  BY ReqPlace DEF OwnerOf
<1>2. \A q : /\ Stripe(q)' = Stripe(q) /\ OwnerOf(q)' = OwnerOf(q)
  BY SameShape
<1>3. \A q \in Reqs : phase'[q] = IF q = r THEN x ELSE phase[q]
  BY DEF TypeOK
<1>4. phase[r] \notin {"sent", "queued"} /\ ~Crosses(r)
  BY DEF Active, Reading, Writing, ShapeInv
<1>5. ShapeInv'  BY <1>4, ShapeStep
<1>6. InboxInv'  BY <1>2, <1>3, <1>4 DEF InboxInv
<1>7. PendingInv'
  <2>1. ASSUME NEW t \in Stripes, NEW q \in Range(pending[t])
        PROVE  phase'[q] = "queued" /\ Stripe(q)' = t
    <3>1. q \in Reqs  BY <2>1, RangeOfSeq DEF TypeOK
    <3> QED  BY <2>1, <3>1, <1>2, <1>3, <1>4 DEF PendingInv
  <2> QED  BY <2>1 DEF PendingInv
<1>8. r \in InService(s) /\ s # NoStripe
  BY <1>1 DEF InService, Stripes, NoStripe
<1>9. /\ \A q \in InService(s) : q = r
      /\ turn[w] # s /\ draining[s]
  BY <1>1, <1>8 DEF OneDrainer
<1>10. CASE x \in Active /\ UNCHANGED turn
  <2>1. TurnInv'  BY <1>10 DEF TurnInv
  <2>2. \A t : InService(t)' = InService(t)
    BY <1>2, <1>3, <1>10 DEF InService
  <2>3. OneDrainer'  BY <2>2, <1>10 DEF OneDrainer
  <2> QED  BY <2>1, <2>3, <1>5, <1>6, <1>7
<1>11. CASE /\ x = "done" /\ turn' = [turn EXCEPT ![w] = s]
            /\ turn[w] = NoStripe
  <2>1. \A v \in Workers : turn'[v] = IF v = w THEN s ELSE turn[v]
    BY <1>11 DEF TypeOK
  <2>2. TurnInv'  BY <2>1, <1>1 DEF TurnInv
  <2>3. x \notin Active  BY <1>11 DEF Active, Reading, Writing
  <2>4. \A t : InService(t)' = InService(t) \ {r}
    BY <2>3, ServiceStep
  <2>5. InService(s)' = {}  BY <2>4, <1>9
  <2>6. \A t : t # s => InService(t)' = InService(t)
    BY <2>4, <1>1 DEF InService
  <2>7. OneDrainer'
    <3> SUFFICES ASSUME NEW t \in Stripes
                 PROVE  /\ \A q, y \in InService(t)' : q = y
                        /\ turn'[Owner(t)] = t => InService(t)' = {}
                        /\ draining[t]
                             <=> (InService(t)' # {} \/ turn'[Owner(t)] = t)
                        /\ pending[t] # <<>> => draining[t]
      BY DEF OneDrainer
    <3>1. Owner(t) \in Workers  BY OwnerPlace
    <3>2. CASE t = s
      <4>1. turn'[Owner(t)] = t  BY <3>2, <2>1, <1>1
      <4> QED  BY <3>2, <4>1, <2>5, <1>9
    <3>3. CASE t # s
      <4>1. turn'[Owner(t)] = t <=> turn[Owner(t)] = t
        <5>1. t # NoStripe  BY DEF Stripes, NoStripe
        <5> QED  BY <5>1, <3>1, <3>3, <2>1, <1>11
      <4> QED  BY <3>3, <4>1, <2>6 DEF OneDrainer
    <3> QED  BY <3>2, <3>3
  <2> QED  BY <2>2, <2>7, <1>5, <1>6, <1>7
<1> QED  BY <1>10, <1>11, <1>1

LEMMA QueueResume ==
  ASSUME QueueInv, NEW r \in Reqs, Resume(r)
  PROVE  QueueInv'
<1>1. TypeOK'  BY ResumeTypes DEF QueueInv
<1>2. /\ ResumeFrame(r)
      /\ \/ ReadStep(r) \/ RecoverStep(r) \/ GiveUpStep(r)
         \/ OldStep(r) \/ NewStep(r) \/ EndStep(r)
  BY ResumeCases DEF QueueInv, TypeOK
<1>3. /\ UNCHANGED <<inbox, pending, draining, req>>
      /\ phase[r] \in Active /\ turn[OwnerOf(r)] = NoStripe
  BY <1>2 DEF ResumeFrame, MayRun
<1>4. req[r] \in Shapes
  BY <1>3 DEF QueueInv, ShapeInv, Active, Reading, Writing
<1>5. ASSUME NEW st, Ends(r, st) PROVE QueueInv'
  <2>1. /\ phase' = [phase EXCEPT ![r] = "done"]
        /\ turn' = [turn EXCEPT ![OwnerOf(r)] = Stripe(r)]
    BY <1>5 DEF Ends, Reply
  <2> QED  BY <2>1, <1>1, <1>3, <1>4, QueueServe
<1>6. ASSUME NEW ph, NEW l, Await(r, ph, l), UNCHANGED turn,
             \/ ph = "readrec" /\ phase[r] = "read"
             \/ ph = "oldrec" /\ phase[r] = "old"
             \/ ph = "new" /\ phase[r] \in {"old", "oldrec"}
      PROVE  QueueInv'
  <2>1. phase' = [phase EXCEPT ![r] = ph]  BY <1>6 DEF Await
  <2>2. ph \in Active  BY <1>6 DEF Active, Reading, Writing
  <2>3. /\ ph \in {"read", "readrec"} => req[r].op = "read"
        /\ ph \in {"old", "oldrec", "new", "full"} => req[r].op = "write"
        /\ ph # "full"
    BY <1>6 DEF QueueInv, ShapeInv
  <2> QED  BY <2>1, <2>2, <2>3, <1>1, <1>3, <1>4, <1>6, QueueServe
<1>7. CASE ReadStep(r)
  BY <1>7, <1>5, <1>6 DEF ReadStep, Rebuilds
<1>8. CASE RecoverStep(r)  BY <1>8, <1>5 DEF RecoverStep
<1>9. CASE GiveUpStep(r)  BY <1>9, <1>5 DEF GiveUpStep
<1>10. CASE OldStep(r)
  BY <1>10, <1>5, <1>6 DEF OldStep, Rebuilds, WriteNew
<1>11. CASE NewStep(r)  BY <1>11, <1>6 DEF NewStep, WriteNew
<1>12. CASE EndStep(r)  BY <1>12, <1>5 DEF EndStep
<1> QED  BY <1>2, <1>7, <1>8, <1>9, <1>10, <1>11, <1>12

LEMMA QueueCrash ==
  ASSUME QueueInv, Crash
  PROVE  QueueInv'
<1> USE DEF QueueInv
<1>1. TypeOK'  BY CrashTypes
<1>2. /\ inbox' = [w \in Workers |-> <<Start>>]
      /\ pending' = [s \in Stripes |-> <<>>]
      /\ draining' = [s \in Stripes |-> FALSE]
      /\ turn' = [w \in Workers |-> NoStripe]
      /\ phase' = [r \in Reqs |-> IF phase[r] \in {"unsent", "done"}
                                    THEN phase[r] ELSE "gone"]
      /\ UNCHANGED req
  BY DEF Crash
<1>3. \A r \in Reqs : phase'[r] \notin Active
  BY <1>2 DEF Active, Reading, Writing
<1>4. ShapeInv'
  BY <1>2, <1>3 DEF ShapeInv, Active, Reading, Writing
<1>5. InboxInv'
  <2>1. IsInjective(<<Start>>) /\ Range(<<Start>>) = {Start}
    BY DEF IsInjective, Range
  <2> QED  BY <2>1, <1>2 DEF InboxInv
<1>6. PendingInv'
  <2>1. IsInjective(<<>>) /\ Range(<<>>) = {}  BY DEF IsInjective, Range
  <2> QED  BY <2>1, <1>2 DEF PendingInv
<1>7. TurnInv'  BY <1>2 DEF TurnInv
<1>8. OneDrainer'
  <2>1. \A s \in Stripes : InService(s)' = {}  BY <1>3 DEF InService
  <2>2. \A s \in Stripes : s # NoStripe /\ Owner(s) \in Workers
    BY OwnerPlace DEF Stripes, NoStripe
  <2> QED  BY <2>1, <2>2, <1>2 DEF OneDrainer
<1> QED  BY <1>1, <1>4, <1>5, <1>6, <1>7, <1>8

LEMMA QueueDrainNext ==
  ASSUME QueueInv, NEW w \in Workers, DrainNext(w)
  PROVE  QueueInv'
<1> USE DEF QueueInv
<1>1. TypeOK'  BY DrainNextTypes
<1>2. PICK s \in Stripes, r \in Reqs :
        /\ s = turn[w] /\ r = Head(pending[s])
        /\ phase[r] = "queued" /\ req[r] \in Shapes
        /\ Stripe(r) = s /\ OwnerOf(r) = w /\ Owner(s) = w
  BY PendingHead DEF DrainNext, OwnerOf
<1>3. /\ pending' = [pending EXCEPT ![s] = Tail(@)] /\ pending[s] # <<>>
      /\ Process(r)
      /\ UNCHANGED <<inbox, draining, req>>
  BY <1>2 DEF DrainNext
<1>4. PICK x \in Active \cup {"done"}, t \in Stripes \cup {NoStripe} :
        /\ phase' = [phase EXCEPT ![r] = x]
        /\ turn' = [turn EXCEPT ![w] = t]
        /\ \/ x = "done" /\ t = s
           \/ /\ x \in Active /\ t = NoStripe /\ ~Crosses(r)
              /\ \/ x = "read" /\ req[r].op = "read"
                 \/ x = "old" /\ req[r].op = "write"
                 \/ x = "full" /\ req[r].op = "write" /\ FullStripe(r)
  <2>1. CASE Ends(r, "Failure")
    BY <2>1, <1>2 DEF Ends, Reply
  <2>2. CASE ProcessStart(r)
    <3>1. turn' = [turn EXCEPT ![w] = NoStripe] /\ ~Crosses(r)
      BY <2>2, <1>2 DEF ProcessStart
    <3>2. \E x \in Active :
            /\ phase' = [phase EXCEPT ![r] = x]
            /\ \/ x = "read" /\ req[r].op = "read"
               \/ x = "old" /\ req[r].op = "write"
               \/ x = "full" /\ req[r].op = "write" /\ FullStripe(r)
      BY <2>2 DEF ProcessStart, Await, Active, Reading, Writing
    <3> QED  BY <3>1, <3>2
  <2> QED  BY <2>1, <2>2, <1>3, ProcessCases
<1>5. x = "done" => x \notin Active  BY DEF Active, Reading, Writing
<1>6. \A q : /\ Stripe(q)' = Stripe(q) /\ OwnerOf(q)' = OwnerOf(q)
  BY <1>3, SameShape
<1>7. \A q \in Reqs : phase'[q] = IF q = r THEN x ELSE phase[q]
  BY <1>4 DEF TypeOK
<1>8. ShapeInv'
  BY <1>2, <1>3, <1>4, <1>5, ShapeStep DEF Active, Reading, Writing
<1>9. InboxInv'  BY <1>2, <1>3, <1>6, <1>7 DEF InboxInv
<1>10. \A u \in Stripes : pending'[u]
          = IF u = s THEN Tail(pending[s]) ELSE pending[u]
  BY <1>2, <1>3 DEF TypeOK
<1>11. PendingInv'
  <2>1. pending[s] \in Seq(Reqs)  BY <1>2 DEF TypeOK
  <2>2. /\ Range(Tail(pending[s])) \subseteq Range(pending[s])
        /\ IsInjective(Tail(pending[s])) /\ r \notin Range(Tail(pending[s]))
    BY <2>1, <1>2, <1>3, TailFacts DEF PendingInv
  <2>3. ASSUME NEW u \in Stripes, NEW q \in Range(pending'[u])
        PROVE  phase'[q] = "queued" /\ Stripe(q)' = u
    <3>1. q \in Range(pending[u])  BY <2>2, <2>3, <1>10
    <3>2. q \in Reqs  BY <3>1, RangeOfSeq DEF TypeOK
    <3>3. phase[q] = "queued" /\ Stripe(q) = u  BY <3>1 DEF PendingInv
    <3>4. q # r  BY <2>2, <2>3, <3>3, <1>2, <1>10
    <3> QED  BY <3>2, <3>3, <3>4, <1>6, <1>7
  <2>4. \A u \in Stripes : IsInjective(pending'[u])
    BY <2>2, <1>10 DEF PendingInv
  <2> QED  BY <2>3, <2>4 DEF PendingInv
<1>12. TurnInv'  BY <1>2, <1>4 DEF TurnInv, TypeOK
<1>13. OneDrainer'
  <2>1. s # NoStripe  BY DEF Stripes, NoStripe
  <2>2. \A v \in Workers : turn'[v] = IF v = w THEN t ELSE turn[v]
    BY <1>4 DEF TypeOK
  <2>3. InService(s) = {} /\ draining[s]
    BY <1>2, <2>1 DEF OneDrainer
  <2>4. \A u : InService(u)' = IF x \in Active /\ s = u
                 THEN InService(u) \cup {r} ELSE InService(u) \ {r}
    <3> TAKE u
    <3>1. InService(u)' = IF x \in Active /\ Stripe(r) = u
                 THEN InService(u) \cup {r} ELSE InService(u) \ {r}
      BY <1>3, <1>4, ServiceStep
    <3> QED  BY <3>1, <1>2
  <2>5. \A u : r \notin InService(u)
    BY <1>2 DEF InService, Active, Reading, Writing
  <2> SUFFICES ASSUME NEW u \in Stripes
               PROVE  /\ \A q, y \in InService(u)' : q = y
                      /\ turn'[Owner(u)] = u => InService(u)' = {}
                      /\ draining[u]
                           <=> (InService(u)' # {} \/ turn'[Owner(u)] = u)
                      /\ pending'[u] # <<>> => draining[u]
    BY <1>3 DEF OneDrainer
  <2>6. Owner(u) \in Workers  BY OwnerPlace
  <2>7. CASE u # s
    <3>1. InService(u)' = InService(u)  BY <2>4, <2>5, <2>7
    <3>2. turn'[Owner(u)] = u <=> turn[Owner(u)] = u
      <4>1. u # NoStripe  BY DEF Stripes, NoStripe
      <4> QED  BY <4>1, <2>2, <2>6, <2>7, <1>2, <1>4
    <3> QED  BY <3>1, <3>2, <2>7, <1>10 DEF OneDrainer
  <2>8. CASE u = s /\ x \in Active
    <3>1. InService(u)' = {r}  BY <2>3, <2>4, <2>8
    <3>2. turn'[Owner(u)] # u  BY <2>1, <2>2, <2>8, <1>2, <1>4, <1>5
    <3> QED  BY <3>1, <3>2, <2>3, <2>8
  <2>9. CASE u = s /\ x \notin Active
    <3>1. InService(u)' = {}  BY <2>3, <2>4, <2>9
    <3>2. turn'[Owner(u)] = u  BY <2>2, <2>9, <1>2, <1>4
    <3> QED  BY <3>1, <3>2, <2>3, <2>9
  <2> QED  BY <2>7, <2>8, <2>9
<1> QED  BY <1>1, <1>8, <1>9, <1>11, <1>12, <1>13

LEMMA QueueNext == QueueInv /\ [Next]_vars => QueueInv'
<1> SUFFICES ASSUME QueueInv, [Next]_vars PROVE QueueInv'
  OBVIOUS
<1>1. ASSUME NEW r \in Reqs, Submit(r) PROVE QueueInv'
  BY <1>1, QueueSubmit
<1>2. ASSUME NEW r \in Reqs, Resume(r) PROVE QueueInv'
  BY <1>2, QueueResume
<1>3. ASSUME NEW w \in Workers, Work(w) PROVE QueueInv'
  BY <1>3, QueueInitTask, QueueRunSubmit, QueueDrainNext, QueueDrainEnd
     DEF Work
<1>4. ASSUME NEW d \in Disks, Die(d) PROVE QueueInv'
  <2>1. TypeOK'  BY <1>4, DieTypes DEF QueueInv
  <2> QED  BY <1>4, <2>1, QueueSame DEF Die, queueVars, reqVars
<1>5. CASE Crash  BY <1>5, QueueCrash
<1>6. ASSUME NEW r \in Reqs, NEW d \in Disks, Complete(r, d)
      PROVE  QueueInv'
  <2>1. TypeOK'  BY <1>6, CompleteTypes DEF QueueInv
  <2>2. UNCHANGED <<inbox, pending, draining, turn, req, phase>>
    BY <1>6, CompleteCases DEF CompleteFrame
  <2> QED  BY <2>1, <2>2, QueueSame
<1>7. CASE UNCHANGED vars
  <2>1. TypeOK'
    BY <1>7 DEF QueueInv, TypeOK, vars, queueVars, reqVars, diskVars
  <2> QED  BY <1>7, <2>1, QueueSame DEF vars, queueVars, reqVars
<1> QED  BY <1>1, <1>2, <1>3, <1>4, <1>5, <1>6, <1>7 DEF Next

LEMMA QueueSafe == Spec => []QueueInv
BY QueueInit, QueueNext, PTL DEF Spec

\* Every variable keeps its type: the requests in the queues have shapes, and
\* what the disks and the buffers hold are sets of tags.
THEOREM Raid5TypeCorrect == Spec => []TypeOK
<1>1. QueueInv => TypeOK  BY DEF QueueInv
<1> QED  BY <1>1, QueueSafe, PTL

\* One task drains the queue of a stripe (enqueue, dequeue and the loop of
\* submit_io): two requests of a stripe are never served together, and no
\* request stays in a queue that nobody drains.
THEOREM StripesServedInTurn == Spec => []OneDrainer
<1>1. QueueInv => OneDrainer  BY DEF QueueInv
<1> QED  BY <1>1, QueueSafe, PTL

-----------------------------------------------------------------------------
(* The blocks of a request that stays inside its stripe.                   *)

LEMMA InsideStripe ==
  ASSUME NEW r \in Reqs, req[r] \in Shapes, ~Crosses(r),
         NEW b \in ReqBlocks(r)
  PROVE  b \in Blocks /\ StripeIdx(b) = Stripe(r)
<1> DEFINE first == req[r].first
           len == req[r].len
           s == StripeIdx(first)
           x == StripeOffset(first)
<1>1. /\ first \in Nat /\ len \in Nat \ {0} /\ s \in Stripes
      /\ b \in Blocks /\ b \in first .. (first + len - 1)
  BY ReqPlace, ShapePlace DEF ReqBlocks
<1>2. /\ s \in Nat /\ x \in Nat /\ first = s * StripeBlocks + x
  <2> HIDE DEF first
  <2>1. /\ first \div StripeBlocks \in Nat
        /\ first % StripeBlocks \in 0..(StripeBlocks - 1)
        /\ first = (first \div StripeBlocks) * StripeBlocks
                    + (first % StripeBlocks)
    BY <1>1, Sizes, DivMod
  <2> QED  BY <2>1, Sizes DEF StripeIdx, StripeOffset
<1>3. x + len <= StripeBlocks  BY <1>1, <1>2, Sizes DEF Crosses
<1> HIDE DEF s, x, first, len
<1> DEFINE k == x + (b - first)
<1>4. k \in 0..(StripeBlocks - 1)  BY <1>1, <1>2, <1>3, Sizes
<1>5. b = s * StripeBlocks + k
  <2>1. s * StripeBlocks \in Int  BY <1>2, Sizes
  <2>2. \A A \in Int : first = A + x => b = A + k
    BY <1>1, <1>2
  <2> QED  BY <2>1, <2>2, <1>2
<1> HIDE DEF k
<1>6. StripeIdx(b) = s
  BY <1>2, <1>4, <1>5, Sizes, DivModUnique DEF StripeIdx
<1> QED  BY <1>1, <1>6 DEF s, first, Stripe

LEMMA SegmentPlace ==
  ASSUME NEW r \in Reqs, req[r] \in Shapes, ~Crosses(r),
         NEW d \in Disks \ {Parity(r)}, NEW o \in Offsets
  PROVE  o \in Segment(r, d) <=> BlockAt(Stripe(r), d, o) \in ReqBlocks(r)
<1>1. /\ Stripe(r) \in Stripes /\ d \in Disks \ {ParityDisk(Stripe(r))}
      /\ ReqBlocks(r) \subseteq Blocks
  BY ReqPlace DEF Parity
<1>2. ASSUME o \in Segment(r, d)
      PROVE  BlockAt(Stripe(r), d, o) \in ReqBlocks(r)
  <2>1. PICK b \in ReqBlocks(r) : DiskOf(b) = d /\ OffsetIn(b) = o
    BY <1>2 DEF Segment
  <2>2. StripeIdx(b) = Stripe(r) /\ b \in Blocks  BY InsideStripe
  <2> QED  BY <2>1, <2>2, BlockPlace
<1>3. ASSUME BlockAt(Stripe(r), d, o) \in ReqBlocks(r)
      PROVE  o \in Segment(r, d)
  BY <1>1, <1>3, PlaceBlock DEF Segment
<1> QED  BY <1>2, <1>3

LEMMA WholeStripe ==
  ASSUME NEW r \in Reqs, req[r] \in Shapes, FullStripe(r),
         NEW d \in Disks \ {Parity(r)}, NEW o \in Offsets
  PROVE  BlockAt(Stripe(r), d, o) \in ReqBlocks(r)
<1> DEFINE first == req[r].first
           s == Stripe(r)
           b == BlockAt(s, d, o)
<1>1. /\ first \in Nat /\ s \in Stripes /\ s \in Nat
      /\ d \in Disks \ {ParityDisk(s)}
  BY ReqPlace, ShapePlace, Sizes DEF Parity, Stripes
<1>2. b \in Blocks /\ b \in Nat /\ StripeIdx(b) = s
  BY <1>1, PlaceBlock, BlockPlace
<1> HIDE DEF b
<1>3. first = s * StripeBlocks
  <2>1. first = s * StripeBlocks + StripeOffset(first)
    BY <1>1, Sizes, DivMod DEF StripeOffset, Stripe, StripeIdx
  <2>2. StripeOffset(first) = 0 /\ s * StripeBlocks \in Int
    BY <1>1, Sizes DEF FullStripe
  <2> QED  BY <2>1, <2>2
<1>4. /\ b = s * StripeBlocks + StripeOffset(b)
      /\ StripeOffset(b) \in 0..(StripeBlocks - 1)
  BY <1>2, Sizes, DivMod DEF StripeIdx, StripeOffset
<1> HIDE DEF first
<1>5. b \in first .. (first + StripeBlocks - 1)
  <2>1. b = first + StripeOffset(b)  BY <1>3, <1>4
  <2> QED  BY <2>1, <1>1, <1>4, Sizes
<1> QED  BY <1>5 DEF FullStripe, ReqBlocks, b, first

-----------------------------------------------------------------------------
(* Redundancy. The row of a stripe with data blocks f and right parity.    *)

WithParity(f, p) ==
  [d \in Disks |-> IF d = p THEN Xor(f, Disks \ {p}) ELSE f[d]]

\* The rows of a stripe before the request that it serves, and after it.
Before(s, o) ==
  LET p == ParityDisk(s) IN
  WithParity([d \in Disks \ {p} |-> store[BlockAt(s, d, o)]], p)

After(r, o) ==
  LET s == Stripe(r)
      p == ParityDisk(s) IN
  WithParity([d \in Disks \ {p} |->
                IF BlockAt(s, d, o) \in ReqBlocks(r)
                  THEN Data(r, BlockAt(s, d, o)) ELSE store[BlockAt(s, d, o)]],
             p)

\* May the parity of the stripe be relied on?
Sound(s) == s \notin torn /\ \E d \in Disks : dead \subseteq {d}

\* Does disk d work and hold what it should of stripe s?
Trusted(s, d) == d \notin dead /\ (d = ParityDisk(s) => Sound(s))

\* The lower I/O of a phase covers its extent, and the rebuild starts from a
\* clean buffer.
LowerInv(r) ==
  /\ phase[r] \in Active =>
       \A d \in Disks :
         io[r][d] = "none" <=> Extent(r, phase[r], lost[r], d) = {}
  /\ phase[r] \in {"readrec", "oldrec"} => lost[r] \in Disks
  /\ phase[r] \in Waiting \cup {"read", "old"} => acc[r] = Zeroed

\* The phase that reads before any rebuild.
FirstRead(r) == IF phase[r] \in {"read", "readrec"} THEN "read" ELSE "old"

\* What a request has read is what the row held.
GotInv(r) ==
  phase[r] \in Reading =>
    \A d \in Disks, o \in Offsets :
      /\ o \in Extent(r, FirstRead(r), NoDisk, d)
      /\ IF phase[r] = FirstRead(r) THEN io[r][d] = "ok" ELSE d # lost[r]
      /\ d = Parity(r) => Sound(Stripe(r))
      => got[r][d][o] = Before(Stripe(r), o)[d]

\* The buffer of a rebuild is the XOR of the blocks that have arrived.
Arrived(r) == {d \in Disks : io[r][d] = "ok"}

RebuildInv(r) ==
  phase[r] \in {"readrec", "oldrec"} /\ Sound(Stripe(r)) =>
    \A o \in Offsets :
      (lost[r] = Parity(r) \/ o \in Segment(r, lost[r])) =>
        acc[r][o] = Xor(Before(Stripe(r), o), Arrived(r))

\* A write puts the new blocks and their parity on the disks that answer ok;
\* the others hold the old blocks. A failed write on a disk that works has
\* torn the stripe.
DataInv(r) ==
  \A d \in Disks \ {Parity(r)}, o \in Offsets :
    d \notin dead =>
      OnDisk(d, Stripe(r), o) = IF io[r][d] = "ok" THEN After(r, o)[d]
                                        ELSE Before(Stripe(r), o)[d]

ParityInv(r) ==
  \A o \in Offsets :
    /\ io[r][Parity(r)] = "ok" => OnDisk(Parity(r), Stripe(r), o) = acc[r][o]
    /\ io[r][Parity(r)] # "ok" /\ Trusted(Stripe(r), Parity(r)) =>
         OnDisk(Parity(r), Stripe(r), o) = Before(Stripe(r), o)[Parity(r)]
    /\ phase[r] = "full" \/ Sound(Stripe(r)) =>
         acc[r][o] = After(r, o)[Parity(r)]

MissedInv(r) ==
  \A d \in Disks \ dead : io[r][d] = "bad" => Stripe(r) \in torn

WriteInv(r) ==
  phase[r] \in Writing => DataInv(r) /\ ParityInv(r) /\ MissedInv(r)

RequestInv(r) == LowerInv(r) /\ GotInv(r) /\ RebuildInv(r) /\ WriteInv(r)

\* Nobody writes the stripe: the disks hold the row.
Unwritten(s) == \A r \in InService(s) : phase[r] \notin Writing

IdleInv(s) ==
  Unwritten(s) =>
    \A d \in Disks, o \in Offsets :
      Trusted(s, d) => OnDisk(d, s, o) = Before(s, o)[d]

RowInv ==
  /\ QueueInv
  /\ \A r \in Reqs : RequestInv(r)
  /\ \A s \in Stripes : IdleInv(s)

LEMMA WithParityFacts ==
  ASSUME NEW f, NEW p \in Disks
  PROVE  /\ \A d \in Disks \ {p} : WithParity(f, p)[d] = f[d]
         /\ WithParity(f, p)[p] = Xor(WithParity(f, p), Disks \ {p})
         /\ \A d \in Disks : Xor(WithParity(f, p), Disks \ {d})
                               = WithParity(f, p)[d]
<1> DEFINE g == WithParity(f, p)
<1>1. \A d \in Disks \ {p} : g[d] = f[d]  BY DEF WithParity
<1>2. g[p] = Xor(f, Disks \ {p})  BY DEF WithParity
<1> HIDE DEF g
<1>3. Xor(f, Disks \ {p}) = Xor(g, Disks \ {p})  BY <1>1, XorSame
<1>4. g[p] = Xor(g, Disks \ {p})  BY <1>2, <1>3
<1> QED  BY <1>1, <1>4, DisksFinite, XorRecover DEF g

LEMMA BeforeFacts ==
  ASSUME NEW s \in Stripes, NEW o \in Offsets
  PROVE  /\ \A d \in Disks \ {ParityDisk(s)} :
              Before(s, o)[d] = store[BlockAt(s, d, o)]
         /\ Before(s, o)[ParityDisk(s)]
              = Xor(Before(s, o), Disks \ {ParityDisk(s)})
         /\ \A d \in Disks : Xor(Before(s, o), Disks \ {d}) = Before(s, o)[d]
<1>1. ParityDisk(s) \in Disks  BY ParityPlace
<1> DEFINE p == ParityDisk(s)
           f == [d \in Disks \ {p} |-> store[BlockAt(s, d, o)]]
<1>2. Before(s, o) = WithParity(f, p)  BY DEF Before
<1>3. \A d \in Disks \ {p} : f[d] = store[BlockAt(s, d, o)]  OBVIOUS
<1> HIDE DEF f
<1> QED  BY <1>1, <1>2, <1>3, WithParityFacts

LEMMA AfterFacts ==
  ASSUME NEW r \in Reqs, req[r] \in Shapes, NEW o \in Offsets
  PROVE  /\ \A d \in Disks \ {Parity(r)} :
              After(r, o)[d] = IF BlockAt(Stripe(r), d, o) \in ReqBlocks(r)
                                 THEN Data(r, BlockAt(Stripe(r), d, o))
                                 ELSE Before(Stripe(r), o)[d]
         /\ After(r, o)[Parity(r)] = Xor(After(r, o), Disks \ {Parity(r)})
         /\ \A d \in Disks : Xor(After(r, o), Disks \ {d}) = After(r, o)[d]
<1>1. Parity(r) \in Disks /\ Stripe(r) \in Stripes  BY ReqPlace
<1> DEFINE s == Stripe(r)
           p == ParityDisk(s)
           f == [d \in Disks \ {p} |->
                   IF BlockAt(s, d, o) \in ReqBlocks(r)
                     THEN Data(r, BlockAt(s, d, o))
                     ELSE store[BlockAt(s, d, o)]]
<1>2. After(r, o) = WithParity(f, p) /\ p = Parity(r)
  BY DEF After, Parity
<1>3. \A d \in Disks \ {p} :
        f[d] = IF BlockAt(s, d, o) \in ReqBlocks(r)
                 THEN Data(r, BlockAt(s, d, o)) ELSE store[BlockAt(s, d, o)]
  OBVIOUS
<1>4. \A d \in Disks \ {p} : Before(s, o)[d] = store[BlockAt(s, d, o)]
  BY <1>1, BeforeFacts
<1> HIDE DEF f
<1> QED  BY <1>1, <1>2, <1>3, <1>4, WithParityFacts

\* A step that leaves alone what stripe s holds and what it should hold.
StripeFrame(s) ==
  /\ dead \subseteq dead' /\ (s \in torn => s \in torn')
  /\ \A d \in Disks, o \in Offsets : OnDisk(d, s, o)' = OnDisk(d, s, o)
  /\ \A b \in Blocks : StripeIdx(b) = s => store'[b] = store[b]

RequestFrame(r) ==
  /\ req'[r] = req[r] /\ phase'[r] = phase[r] /\ io'[r] = io[r]
  /\ lost'[r] = lost[r] /\ got'[r] = got[r] /\ acc'[r] = acc[r]

LEMMA SoundFrame ==
  ASSUME NEW s, dead \subseteq dead', s \in torn => s \in torn'
  PROVE  /\ Sound(s)' => Sound(s)
         /\ \A d : Trusted(s, d)' => Trusted(s, d)
BY DEF Sound, Trusted

LEMMA BeforeFrame ==
  ASSUME NEW s \in Stripes, NEW o \in Offsets,
         \A b \in Blocks : StripeIdx(b) = s => store'[b] = store[b]
  PROVE  Before(s, o)' = Before(s, o)
<1> DEFINE p == ParityDisk(s)
           f == [d \in Disks \ {p} |-> store[BlockAt(s, d, o)]]
           g == [d \in Disks \ {p} |-> store'[BlockAt(s, d, o)]]
<1>1. \A d \in Disks \ {p} :
        store'[BlockAt(s, d, o)] = store[BlockAt(s, d, o)]
  BY PlaceBlock
<1>2. f = g  BY <1>1
<1> QED  BY <1>2 DEF Before, WithParity

LEMMA AfterFrame ==
  ASSUME NEW r \in Reqs, req[r] \in Shapes, req'[r] = req[r],
         NEW o \in Offsets,
         \A b \in Blocks : StripeIdx(b) = Stripe(r) => store'[b] = store[b]
  PROVE  After(r, o)' = After(r, o)
<1>0. PICK s \in Stripes : s = Stripe(r) /\ s = Stripe(r)'
  BY ReqPlace, SameShape
<1> DEFINE p == ParityDisk(s)
           f == [d \in Disks \ {p} |->
                   IF BlockAt(s, d, o) \in ReqBlocks(r)
                     THEN Data(r, BlockAt(s, d, o))
                     ELSE store[BlockAt(s, d, o)]]
           g == [d \in Disks \ {p} |->
                   IF BlockAt(s, d, o) \in ReqBlocks(r)
                     THEN Data(r, BlockAt(s, d, o))
                     ELSE store'[BlockAt(s, d, o)]]
<1>1. \A d \in Disks \ {p} :
        store'[BlockAt(s, d, o)] = store[BlockAt(s, d, o)]
  BY <1>0, PlaceBlock
<1>2. f = g  BY <1>1
<1>3. ReqBlocks(r)' = ReqBlocks(r)  BY SameShape
<1>4. After(r, o) = WithParity(f, p)  BY <1>0 DEF After
<1>5. After(r, o)' = WithParity(g, p)
  BY <1>0, <1>3 DEF After, WithParity, Data
<1> QED  BY <1>2, <1>4, <1>5

LEMMA ExtentSame ==
  ASSUME NEW r, req'[r] = req[r]
  PROVE  /\ \A d : Segment(r, d)' = Segment(r, d)
         /\ \A ph \in Active : \A l, d :
              Extent(r, ph, l, d)' = Extent(r, ph, l, d)
<1>1. Parity(r)' = Parity(r) /\ ReqBlocks(r)' = ReqBlocks(r)
  BY SameShape
<1>2. \A d : Segment(r, d)' = Segment(r, d)  BY <1>1 DEF Segment
<1>3. ASSUME NEW ph \in Active, NEW l, NEW d
      PROVE  Extent(r, ph, l, d)' = Extent(r, ph, l, d)
  <2>1. CASE ph = "read"  BY <2>1, <1>2 DEF Extent
  <2>2. CASE ph \in {"old", "new"}  BY <2>2, <1>1, <1>2 DEF Extent
  <2>3. CASE ph \in {"readrec", "oldrec"}
    BY <2>3, <1>1, <1>2 DEF Extent
  <2>4. CASE ph = "full"  BY <2>4 DEF Extent
  <2> QED  BY <2>1, <2>2, <2>3, <2>4 DEF Active, Reading, Writing
<1> QED  BY <1>2, <1>3

\* A request that a step does not touch keeps its invariant.
LEMMA RequestSame ==
  ASSUME NEW r \in Reqs, RequestInv(r), RequestFrame(r),
         phase[r] \in Active =>
           req[r] \in Shapes /\ StripeFrame(Stripe(r))
  PROVE  RequestInv(r)'
<1> USE DEF RequestFrame
<1>1. LowerInv(r)'
  <2>1. \A ph \in Active : \A l, d :
          Extent(r, ph, l, d)' = Extent(r, ph, l, d)
    BY ExtentSame
  <2> QED  BY <2>1 DEF RequestInv, LowerInv
<1>2. CASE phase[r] \notin Active
  BY <1>1, <1>2 DEF RequestInv, GotInv, RebuildInv, WriteInv, Active,
                    Reading, Writing
<1>3. CASE phase[r] \in Active
  <2>0. PICK s \in Stripes, p \in Disks :
          /\ s = Stripe(r) /\ s = Stripe(r)'
          /\ p = Parity(r) /\ p = Parity(r)' /\ p = ParityDisk(s)
    BY <1>3, ReqPlace, SameShape DEF Parity
  <2>1. StripeFrame(s)  BY <1>3, <2>0
  <2>2. /\ Sound(s)' => Sound(s)
        /\ \A d : Trusted(s, d)' => Trusted(s, d)
    BY <2>1, SoundFrame DEF StripeFrame
  <2>3. \A o \in Offsets : Before(s, o)' = Before(s, o)
    BY <2>1, BeforeFrame DEF StripeFrame
  <2>4. \A o \in Offsets : After(r, o)' = After(r, o)
    BY <1>3, <2>0, <2>1, AfterFrame DEF StripeFrame
  <2>5. /\ \A d : Segment(r, d)' = Segment(r, d)
        /\ \A ph \in Active : \A l, d :
             Extent(r, ph, l, d)' = Extent(r, ph, l, d)
    BY ExtentSame
  <2>6. /\ \A d \in Disks, o \in Offsets : OnDisk(d, s, o)' = OnDisk(d, s, o)
        /\ \A d : d \notin dead' => d \notin dead
        /\ s \in torn => s \in torn'
    BY <2>1 DEF StripeFrame
  <2>7. FirstRead(r)' = FirstRead(r) /\ Arrived(r)' = Arrived(r)
    BY DEF FirstRead, Arrived
  <2>8. GotInv(r)'
    <3>1. FirstRead(r) \in Active
      BY DEF FirstRead, Active, Reading
    <3> QED  BY <2>0, <2>2, <2>3, <2>5, <2>7, <3>1 DEF RequestInv, GotInv
  <2>9. RebuildInv(r)'
    BY <2>0, <2>2, <2>3, <2>5, <2>7 DEF RequestInv, RebuildInv
  <2>10. DataInv(r) => DataInv(r)'
    BY <2>0, <2>3, <2>4, <2>6 DEF DataInv
  <2>11. ParityInv(r) => ParityInv(r)'
    BY <2>0, <2>2, <2>3, <2>4, <2>6 DEF ParityInv
  <2>12. MissedInv(r) => MissedInv(r)'
    BY <2>0, <2>6 DEF MissedInv
  <2>13. WriteInv(r)'
    BY <2>10, <2>11, <2>12 DEF RequestInv, WriteInv
  <2> QED  BY <1>1, <2>8, <2>9, <2>13 DEF RequestInv
<1> QED  BY <1>2, <1>3

LEMMA IdleSame ==
  ASSUME NEW s \in Stripes, IdleInv(s), StripeFrame(s),
         Unwritten(s)' => Unwritten(s)
  PROVE  IdleInv(s)'
<1>1. \A d : Trusted(s, d)' => Trusted(s, d)
  BY SoundFrame DEF StripeFrame
<1>2. \A o \in Offsets : Before(s, o)' = Before(s, o)
  BY BeforeFrame DEF StripeFrame
<1> QED  BY <1>1, <1>2 DEF IdleInv, StripeFrame

LEMMA ActiveFacts ==
  ASSUME QueueInv, NEW r \in Reqs, phase[r] \in Active
  PROVE  /\ req[r] \in Shapes /\ ~Crosses(r)
         /\ r \in InService(Stripe(r)) /\ InService(Stripe(r)) = {r}
         /\ Stripe(r) \in Stripes
         /\ \A q \in Reqs : phase[q] \in Active /\ Stripe(q) = Stripe(r)
              => q = r
         /\ Unwritten(Stripe(r)) <=> phase[r] \notin Writing
<1>1. req[r] \in Shapes /\ ~Crosses(r)
  BY DEF QueueInv, ShapeInv, Active, Reading, Writing
<1>2. Stripe(r) \in Stripes  BY <1>1, ReqPlace
<1>3. r \in InService(Stripe(r))  BY DEF InService
<1>4. InService(Stripe(r)) = {r}
  BY <1>2, <1>3 DEF QueueInv, OneDrainer
<1>5. \A q \in Reqs : phase[q] \in Active /\ Stripe(q) = Stripe(r)
              => q = r
  BY <1>4 DEF InService
<1> QED  BY <1>1, <1>2, <1>3, <1>4, <1>5 DEF Unwritten

\* A step of one request, with the disks of its stripe: the other requests
\* and the other stripes are not concerned.
LEMMA OthersSame ==
  ASSUME RowInv, NEW r \in Reqs, phase[r] \in Active, UNCHANGED req,
         \A q \in Reqs \ {r} : RequestFrame(q),
         \A t \in Stripes : t # Stripe(r) => StripeFrame(t)
  PROVE  /\ \A q \in Reqs \ {r} : RequestInv(q)'
         /\ \A t \in Stripes : t # Stripe(r) => IdleInv(t)'
<1>1. QueueInv  BY DEF RowInv
<1>2. ASSUME NEW q \in Reqs \ {r} PROVE RequestInv(q)'
  <2>1. RequestInv(q) /\ RequestFrame(q)  BY DEF RowInv
  <2>2. ASSUME phase[q] \in Active
        PROVE  req[q] \in Shapes /\ StripeFrame(Stripe(q))
    <3>1. req[q] \in Shapes /\ Stripe(q) \in Stripes
      BY <1>1, <2>2, ActiveFacts
    <3>2. Stripe(q) # Stripe(r)  BY <1>1, <2>2, ActiveFacts
    <3> QED  BY <3>1, <3>2
  <2> QED  BY <2>1, <2>2, RequestSame
<1>3. ASSUME NEW t \in Stripes, t # Stripe(r) PROVE IdleInv(t)'
  <2>1. Unwritten(t)' => Unwritten(t)
    <3>1. ASSUME NEW q \in InService(t)
          PROVE  q \in InService(t)' /\ phase'[q] = phase[q]
      <4>1. q \in Reqs \ {r} /\ phase[q] \in Active /\ Stripe(q) = t
        BY <3>1, <1>3 DEF InService
      <4>2. Stripe(q)' = Stripe(q)  BY SameShape
      <4>3. phase'[q] = phase[q]  BY <4>1 DEF RequestFrame
      <4> QED  BY <4>1, <4>2, <4>3 DEF InService
    <3> QED  BY <3>1 DEF Unwritten
  <2>2. IdleInv(t) /\ StripeFrame(t)  BY <1>3 DEF RowInv
  <2> QED  BY <2>1, <2>2, IdleSame
<1> QED  BY <1>2, <1>3

-----------------------------------------------------------------------------
(* Redundancy, action by action.                                           *)

LEMMA StillFrame ==
  ASSUME UNCHANGED <<disk, dead, torn, store>>, NEW s
  PROVE  StripeFrame(s)
BY DEF StripeFrame, OnDisk

\* Nothing that the invariant speaks of changes.
LEMMA RowSame ==
  ASSUME RowInv, QueueInv',
         UNCHANGED <<req, phase, io, lost, got, acc, disk, dead, torn, store>>
  PROVE  RowInv'
<1>1. \A s : StripeFrame(s)  BY StillFrame
<1>2. \A q \in Reqs : RequestFrame(q)  BY DEF RequestFrame
<1>3. ASSUME NEW q \in Reqs PROVE RequestInv(q)'
  <2>1. RequestInv(q) /\ QueueInv  BY DEF RowInv
  <2>2. phase[q] \in Active => req[q] \in Shapes  BY <2>1, ActiveFacts
  <2> QED  BY <1>1, <1>2, <2>1, <2>2, RequestSame
<1>4. ASSUME NEW t \in Stripes PROVE IdleInv(t)'
  <2>1. InService(t)' = InService(t)  BY DEF InService, Stripe
  <2>2. IdleInv(t) /\ (Unwritten(t)' => Unwritten(t))
    BY <2>1 DEF RowInv, Unwritten
  <2> QED  BY <1>1, <2>2, IdleSame
<1> QED  BY <1>3, <1>4 DEF RowInv

\* Only a request that is not being served changes.
LEMMA RowQuiet ==
  ASSUME RowInv, QueueInv', NEW r \in Reqs, phase[r] \notin Active,
         \A q \in Reqs \ {r} : RequestFrame(q),
         UNCHANGED <<disk, dead, torn, store>>, RequestInv(r)'
  PROVE  RowInv'
<1>1. \A s : StripeFrame(s)  BY StillFrame
<1>2. ASSUME NEW q \in Reqs \ {r} PROVE RequestInv(q)'
  <2>1. RequestInv(q) /\ QueueInv  BY DEF RowInv
  <2>2. phase[q] \in Active => req[q] \in Shapes  BY <2>1, ActiveFacts
  <2> QED  BY <1>1, <2>1, <2>2, RequestSame
<1>3. ASSUME NEW t \in Stripes PROVE IdleInv(t)'
  <2>1. ASSUME NEW q \in InService(t)
        PROVE  q \in InService(t)' /\ phase'[q] = phase[q]
    <3>1. q \in Reqs \ {r} /\ phase[q] \in Active /\ Stripe(q) = t
      BY <2>1 DEF InService
    <3>2. RequestFrame(q)  BY <3>1
    <3>3. Stripe(q)' = Stripe(q)  BY <3>2, SameShape DEF RequestFrame
    <3> QED  BY <3>1, <3>2, <3>3 DEF InService, RequestFrame
  <2>2. Unwritten(t)' => Unwritten(t)  BY <2>1 DEF Unwritten
  <2>3. IdleInv(t)  BY DEF RowInv
  <2> QED  BY <1>1, <2>2, <2>3, IdleSame
<1> QED  BY <1>2, <1>3 DEF RowInv

LEMMA RowSubmit ==
  ASSUME RowInv, QueueInv', NEW r \in Reqs, Submit(r)
  PROVE  RowInv'
<1>1. PICK x \in Shapes : req' = [req EXCEPT ![r] = x]  BY DEF Submit
<1>2. /\ phase[r] = "unsent" /\ phase' = [phase EXCEPT ![r] = "sent"]
      /\ UNCHANGED <<io, lost, got, acc, disk, dead, torn, store>>
  BY DEF Submit, diskVars
<1>3. TypeOK  BY DEF RowInv, QueueInv
<1>4. \A q \in Reqs \ {r} : RequestFrame(q)
  BY <1>1, <1>2, <1>3 DEF TypeOK, RequestFrame
<1>5. phase'[r] = "sent" /\ acc'[r] = Zeroed
  BY <1>2, <1>3 DEF TypeOK, RowInv, RequestInv, LowerInv, Waiting
<1>6. RequestInv(r)'
  BY <1>5 DEF RequestInv, LowerInv, GotInv, RebuildInv, WriteInv, Active,
              Reading, Writing
<1>7. phase[r] \notin Active  BY <1>2 DEF Active, Reading, Writing
<1> QED  BY <1>2, <1>4, <1>6, <1>7, RowQuiet

LEMMA RowRunSubmit ==
  ASSUME RowInv, QueueInv', NEW w \in Workers, RunSubmit(w)
  PROVE  RowInv'
<1>1. QueueInv /\ TypeOK  BY DEF RowInv, QueueInv
<1>2. PICK r \in Reqs : r = Head(inbox[w]) /\ phase[r] = "sent"
  BY <1>1, InboxHead DEF RunSubmit, QueueInv
<1>3. /\ phase' = [phase EXCEPT ![r] = "queued"]
      /\ UNCHANGED <<req, io, lost, got, acc, disk, dead, torn, store>>
  BY <1>2 DEF RunSubmit, diskVars
<1>4. \A q \in Reqs \ {r} : RequestFrame(q)
  BY <1>1, <1>3 DEF TypeOK, RequestFrame
<1>5. phase'[r] = "queued" /\ acc'[r] = Zeroed
  BY <1>1, <1>2, <1>3 DEF TypeOK, RowInv, RequestInv, LowerInv, Waiting
<1>6. RequestInv(r)'
  BY <1>5 DEF RequestInv, LowerInv, GotInv, RebuildInv, WriteInv, Active,
              Reading, Writing
<1>7. phase[r] \notin Active  BY <1>2 DEF Active, Reading, Writing
<1> QED  BY <1>3, <1>4, <1>6, <1>7, RowQuiet

LEMMA RowDie ==
  ASSUME RowInv, QueueInv', NEW d \in Disks, Die(d)
  PROVE  RowInv'
<1>1. /\ dead \subseteq dead'
      /\ UNCHANGED <<req, phase, io, lost, got, acc, disk, torn, store>>
  BY DEF Die, reqVars
<1>2. \A s : StripeFrame(s)  BY <1>1 DEF StripeFrame, OnDisk
<1>3. \A q \in Reqs : RequestFrame(q)  BY <1>1 DEF RequestFrame
<1>4. ASSUME NEW q \in Reqs PROVE RequestInv(q)'
  <2>1. RequestInv(q) /\ QueueInv  BY DEF RowInv
  <2>2. phase[q] \in Active => req[q] \in Shapes  BY <2>1, ActiveFacts
  <2> QED  BY <1>2, <1>3, <2>1, <2>2, RequestSame
<1>5. ASSUME NEW t \in Stripes PROVE IdleInv(t)'
  <2>1. InService(t)' = InService(t)  BY <1>1 DEF InService, Stripe
  <2>2. IdleInv(t) /\ (Unwritten(t)' => Unwritten(t))
    BY <1>1, <2>1 DEF RowInv, Unwritten
  <2> QED  BY <1>2, <2>2, IdleSame
<1> QED  BY <1>4, <1>5 DEF RowInv

\* After Await the lower I/O is out, and none of it has been answered.
LEMMA AwaitFacts ==
  ASSUME TypeOK, NEW r \in Reqs, req'[r] = req[r],
         NEW ph \in Active, NEW l, Await(r, ph, l)
  PROVE  /\ phase'[r] = ph /\ lost'[r] = l
         /\ \A d \in Disks :
              /\ io'[r][d] \in {"none", "busy"}
              /\ io'[r][d] = "none" <=> Extent(r, ph, l, d)' = {}
         /\ \A q \in Reqs \ {r} : /\ phase'[q] = phase[q]
                                  /\ lost'[q] = lost[q] /\ io'[q] = io[q]
<1> DEFINE n == [d \in Disks |->
                   IF Extent(r, ph, l, d) = {} THEN "none" ELSE "busy"]
<1>1. io' = [io EXCEPT ![r] = n]  BY DEF Await
<1>2. \A d \in Disks : /\ n[d] \in {"none", "busy"}
                       /\ n[d] = "none" <=> Extent(r, ph, l, d) = {}
  OBVIOUS
<1> HIDE DEF n
<1>3. \A d : Extent(r, ph, l, d)' = Extent(r, ph, l, d)  BY ExtentSame
<1>4. /\ io'[r] = n
      /\ \A q \in Reqs \ {r} : io'[q] = io[q]
  BY <1>1 DEF TypeOK
<1>5. /\ phase'[r] = ph /\ lost'[r] = l
      /\ \A q \in Reqs \ {r} : phase'[q] = phase[q] /\ lost'[q] = lost[q]
  BY DEF Await, TypeOK
<1> QED  BY <1>2, <1>3, <1>4, <1>5

LEMMA ReplyFacts ==
  ASSUME TypeOK, NEW r \in Reqs, NEW st, Reply(r, st)
  PROVE  /\ phase'[r] = "done"
         /\ \A q \in Reqs \ {r} : /\ phase'[q] = phase[q]
                                  /\ lost'[q] = lost[q] /\ io'[q] = io[q]
                                  /\ acc'[q] = acc[q]
BY DEF Reply, TypeOK

LEMMA DoneInv ==
  ASSUME NEW r, phase'[r] = "done"
  PROVE  RequestInv(r)'
BY DEF RequestInv, LowerInv, GotInv, RebuildInv, WriteInv, Active, Reading,
       Writing, Waiting

\* The blocks of a full-stripe write and their parity.
LEMMA FullAfter ==
  ASSUME NEW r \in Reqs, req[r] \in Shapes, FullStripe(r), NEW o \in Offsets
  PROVE  Xor([d \in Disks \ {Parity(r)} |->
                Data(r, BlockAt(Stripe(r), d, o))], Disks \ {Parity(r)})
           = After(r, o)[Parity(r)]
<1> DEFINE p == Parity(r)
           f == [d \in Disks \ {p} |-> Data(r, BlockAt(Stripe(r), d, o))]
<1>1. \A d \in Disks \ {p} :
        After(r, o)[d] = Data(r, BlockAt(Stripe(r), d, o))
  <2>1. \A d \in Disks \ {p} : BlockAt(Stripe(r), d, o) \in ReqBlocks(r)
    BY WholeStripe DEF p
  <2>2. \A d \in Disks \ {p} :
          After(r, o)[d] = IF BlockAt(Stripe(r), d, o) \in ReqBlocks(r)
            THEN Data(r, BlockAt(Stripe(r), d, o))
            ELSE Before(Stripe(r), o)[d]
    BY AfterFacts DEF p
  <2> HIDE DEF p
  <2> QED  BY <2>1, <2>2
<1>2. \A d \in Disks \ {p} : f[d] = After(r, o)[d]  BY <1>1
<1> HIDE DEF f, p
<1>3. Xor(f, Disks \ {p}) = Xor(After(r, o), Disks \ {p})
  BY <1>2, XorSame
<1>4. After(r, o)[p] = Xor(After(r, o), Disks \ {p})
  BY AfterFacts DEF p
<1> QED  BY <1>3, <1>4 DEF f, p

LEMMA RowDrainNext ==
  ASSUME RowInv, QueueInv', NEW w \in Workers, DrainNext(w)
  PROVE  RowInv'
<1>1. QueueInv /\ TypeOK  BY DEF RowInv, QueueInv
<1>2. PICK r \in Reqs, s \in Stripes :
        /\ s = turn[w] /\ r = Head(pending[s]) /\ s = Stripe(r)
        /\ phase[r] = "queued" /\ req[r] \in Shapes /\ Owner(s) = w
  BY <1>1, PendingHead DEF DrainNext, QueueInv, OwnerOf
<1>3. /\ Process(r)
      /\ UNCHANGED <<req, disk, dead, torn, store>>
  BY <1>2 DEF DrainNext, diskVars
<1>4. phase[r] \notin Active  BY <1>2 DEF Active, Reading, Writing
<1>5. CASE Ends(r, "Failure") /\ UNCHANGED got
  <2>1. phase'[r] = "done" /\ \A q \in Reqs \ {r} : RequestFrame(q)
    BY <1>1, <1>3, <1>5, ReplyFacts DEF Ends, RequestFrame
  <2>2. RequestInv(r)'  BY <2>1, DoneInv
  <2> QED  BY <1>3, <1>4, <2>1, <2>2, RowQuiet
<1>6. CASE ProcessStart(r)
  <2>0. acc[r] = Zeroed
    BY <1>2 DEF RowInv, RequestInv, LowerInv, Waiting
  <2>1. PICK ph \in {"read", "old", "full"} :
          /\ Await(r, ph, NoDisk) /\ UNCHANGED got
          /\ ph # "full" => UNCHANGED acc
          /\ ph = "full" => FullStripe(r) /\ ProcessFull(r)
    BY <1>6 DEF ProcessStart
  <2>2. ph \in Active  BY DEF Active, Reading, Writing
  <2>3. /\ phase'[r] = ph /\ lost'[r] = NoDisk
        /\ \A d \in Disks :
             /\ io'[r][d] \in {"none", "busy"}
             /\ io'[r][d] = "none" <=> Extent(r, ph, NoDisk, d)' = {}
        /\ \A q \in Reqs \ {r} : /\ phase'[q] = phase[q]
                                 /\ lost'[q] = lost[q] /\ io'[q] = io[q]
    BY <1>1, <1>3, <2>1, <2>2, AwaitFacts
  <2>4. \A q \in Reqs \ {r} : acc'[q] = acc[q]
    BY <1>1, <2>1 DEF TypeOK, ProcessFull
  <2>5. \A q \in Reqs \ {r} : RequestFrame(q)
    BY <1>3, <2>1, <2>3, <2>4 DEF RequestFrame
  <2>6. LowerInv(r)'
    <3>1. ph # "full" => acc'[r] = Zeroed  BY <2>0, <2>1
    <3> QED
      BY <2>3, <3>1 DEF LowerInv, Waiting
  <2>7. GotInv(r)'
    <3>1. FirstRead(r)' = phase'[r] \/ phase'[r] = "full"
      BY <2>3 DEF FirstRead
    <3> QED  BY <2>3, <3>1 DEF GotInv, Reading
  <2>8. RebuildInv(r)'  BY <2>3 DEF RebuildInv
  <2>9. WriteInv(r)'
    <3> SUFFICES ASSUME ph = "full" PROVE WriteInv(r)'
      BY <2>3 DEF WriteInv, Writing
    <3>0. FullStripe(r) /\ ProcessFull(r)  BY <2>1
    <3>1. PICK p \in Disks : /\ p = Parity(r) /\ p = Parity(r)'
                             /\ p = ParityDisk(s) /\ s = Stripe(r)'
      BY <1>2, <1>3, ReqPlace, SameShape DEF Parity
    <3>2. /\ \A o \in Offsets : /\ Before(s, o)' = Before(s, o)
                                /\ After(r, o)' = After(r, o)
          /\ \A d, o : OnDisk(d, s, o)' = OnDisk(d, s, o)
          /\ \A d : Trusted(s, d)' = Trusted(s, d)
      BY <1>2, <1>3, BeforeFrame, AfterFrame DEF OnDisk, Trusted, Sound
    <3>3. \A d \in Disks, o \in Offsets :
            Trusted(s, d) => OnDisk(d, s, o) = Before(s, o)[d]
      <4>1. InService(s) = {}
        <5>1. s # NoStripe  BY DEF Stripes, NoStripe
        <5> QED  BY <1>1, <1>2, <5>1 DEF QueueInv, OneDrainer
      <4> QED  BY <4>1 DEF RowInv, IdleInv, Unwritten
    <3>4. \A o \in Offsets : acc'[r][o] = After(r, o)[p]
      <4> DEFINE n == [o \in Offsets |->
             Xor([d \in Disks \ {Parity(r)} |->
                    Data(r, BlockAt(Stripe(r), d, o))], Disks \ {Parity(r)})]
      <4>1. acc' = [acc EXCEPT ![r] = n]  BY <3>0 DEF ProcessFull
      <4>2. \A o \in Offsets : n[o] = After(r, o)[p]
        BY <1>2, <3>0, <3>1, FullAfter
      <4> HIDE DEF n
      <4>3. acc'[r] = n  BY <1>1, <4>1 DEF TypeOK
      <4> QED  BY <4>2, <4>3
    <3>5. \A d \in Disks : io'[r][d] \notin {"ok", "bad"}  BY <2>3
    <3>6. DataInv(r)'
      BY <3>1, <3>2, <3>3, <3>5, <1>3 DEF DataInv, Trusted
    <3>7. ParityInv(r)'
      BY <3>1, <3>2, <3>3, <3>4, <3>5 DEF ParityInv
    <3>8. MissedInv(r)'  BY <3>5 DEF MissedInv
    <3> QED  BY <3>6, <3>7, <3>8 DEF WriteInv
  <2>10. RequestInv(r)'  BY <2>6, <2>7, <2>8, <2>9 DEF RequestInv
  <2> QED  BY <1>3, <1>4, <2>5, <2>10, RowQuiet
<1> QED  BY <1>3, <1>5, <1>6, ProcessCases

LEMMA ExtentOffsets ==
  ASSUME NEW r \in Reqs, req[r] \in Shapes, NEW ph \in Active, NEW l, NEW d
  PROVE  Extent(r, ph, l, d) \subseteq Offsets
<1>1. \A e : Segment(r, e) \subseteq Offsets
  BY ReqPlace, BlockPlace DEF Segment
<1>2. CASE ph = "read"  BY <1>1, <1>2 DEF Extent
<1>3. CASE ph \in {"old", "new"}  BY <1>1, <1>3 DEF Extent
<1>4. CASE ph \in {"readrec", "oldrec"}  BY <1>1, <1>4 DEF Extent
<1>5. CASE ph = "full"  BY <1>5 DEF Extent
<1> QED  BY <1>2, <1>3, <1>4, <1>5 DEF Active, Reading, Writing

\* A write changes the blocks of its extent and no others.
LEMMA WriteBlocksFacts ==
  ASSUME TypeOK, NEW r \in Reqs, req[r] \in Shapes, NEW d \in Disks,
         WriteBlocks(r, d, FALSE)
  PROVE  \A e \in Disks, t \in Stripes, o \in Offsets :
           OnDisk(e, t, o)' =
             IF e = d /\ t = Stripe(r)
                  /\ o \in Extent(r, phase[r], lost[r], d)
               THEN Output(r, d, o) ELSE OnDisk(e, t, o)
<1>1. PICK s \in Stripes, ext \in SUBSET Offsets :
        s = Stripe(r) /\ ext = Extent(r, phase[r], lost[r], d)
  <2>1. phase[r] \in Active  BY DEF WriteBlocks, Active
  <2> QED  BY <2>1, ReqPlace, ExtentOffsets
<1> DEFINE n == [row \in Rows |->
                   IF \E o \in ext : row = Row(s, o)
                     THEN Output(r, d, row % StripBlocks) ELSE disk[d][row]]
<1>2. disk' = [disk EXCEPT ![d] = n]
  BY <1>1 DEF WriteBlocks, TypeOK
<1> SUFFICES ASSUME NEW e \in Disks, NEW t \in Stripes, NEW o \in Offsets
             PROVE  OnDisk(e, t, o)' = IF e = d /\ t = s /\ o \in ext
                      THEN Output(r, d, o) ELSE OnDisk(e, t, o)
  BY <1>1
<1> DEFINE row == Row(t, o)
<1>3. row \in Rows /\ row \div StripBlocks = t /\ row % StripBlocks = o
  BY RowPlace
<1>4. (\E x \in ext : row = Row(s, x)) <=> t = s /\ o \in ext
  <2>1. ASSUME NEW x \in ext, row = Row(s, x) PROVE t = s /\ o \in ext
    <3>1. row \div StripBlocks = s /\ row % StripBlocks = x
      BY <2>1, RowPlace
    <3> QED  BY <3>1, <1>3
  <2> QED  BY <2>1
<1> HIDE DEF row
<1>5. n[row] = IF t = s /\ o \in ext THEN Output(r, d, o) ELSE disk[d][row]
  BY <1>3, <1>4
<1> HIDE DEF n
<1>6. disk'[e][row] = IF e = d THEN n[row] ELSE disk[e][row]
  BY <1>2 DEF TypeOK
<1> QED  BY <1>5, <1>6 DEF OnDisk, row

LEMMA RowComplete ==
  ASSUME LateDma = FALSE, RowInv, QueueInv',
         NEW r \in Reqs, NEW d \in Disks, Complete(r, d)
  PROVE  RowInv'
<1>1. QueueInv /\ TypeOK /\ RequestInv(r)  BY DEF RowInv, QueueInv
<1>2. CompleteFrame(r, d) /\ (CompleteOk(r, d) \/ Fail(r, d))
  BY CompleteCases
<1>3. /\ io[r][d] = "busy"
      /\ UNCHANGED <<req, phase, lost, dead, store>>
  BY <1>2 DEF CompleteFrame
<1>4. PICK x \in {"ok", "bad"} : io' = [io EXCEPT ![r][d] = x]
  BY <1>2 DEF CompleteOk, Fail
<1>5. /\ \A e \in Disks : io'[r][e] = IF e = d THEN x ELSE io[r][e]
      /\ \A q \in Reqs \ {r} : io'[q] = io[q]
  BY <1>1, <1>4 DEF TypeOK
<1>6. \A q \in Reqs \ {r} : got'[q] = got[q] /\ acc'[q] = acc[q]
  <2>1. CASE CompleteOk(r, d)
    BY <1>1, <2>1 DEF CompleteOk, ReadBlocks, AddBlocks, WriteBlocks, TypeOK
  <2>2. CASE Fail(r, d)  BY <2>2 DEF Fail
  <2> QED  BY <1>2, <2>1, <2>2
<1>7. \A q \in Reqs \ {r} : RequestFrame(q)
  BY <1>3, <1>5, <1>6 DEF RequestFrame
<1>8. CASE phase[r] \notin Active
  <2>1. UNCHANGED <<acc, disk, torn>>
    BY <1>2, <1>8 DEF CompleteOk, Fail, ReadBlocks, AddBlocks, WriteBlocks,
                      Active, Reading, Writing
  <2>2. RequestInv(r)'
    BY <1>1, <1>3, <1>8, <2>1
       DEF RequestInv, LowerInv, GotInv, RebuildInv, WriteInv, Active,
           Reading, Writing
  <2> QED  BY <1>3, <1>7, <1>8, <2>1, <2>2, RowQuiet
<1>9. CASE phase[r] \in Active
  <2>1. PICK s \in Stripes, p \in Disks :
          /\ s = Stripe(r) /\ s = Stripe(r)'
          /\ p = Parity(r) /\ p = Parity(r)' /\ p = ParityDisk(s)
    BY <1>1, <1>3, <1>9, ActiveFacts, ReqPlace, SameShape DEF Parity
  <2>2. req[r] \in Shapes /\ ~Crosses(r) /\ InService(s) = {r}
        /\ (Unwritten(s) <=> phase[r] \notin Writing)
    BY <1>1, <1>9, <2>1, ActiveFacts
  <2>3. /\ \A q : Segment(r, q)' = Segment(r, q)
        /\ \A ph \in Active : \A l, e :
             Extent(r, ph, l, e)' = Extent(r, ph, l, e)
    BY <1>3, ExtentSame
  <2>4. \A o \in Offsets : /\ Before(s, o)' = Before(s, o)
                           /\ After(r, o)' = After(r, o)
    BY <1>3, <2>1, <2>2, BeforeFrame, AfterFrame
  <2>5. Unwritten(s)' <=> Unwritten(s)
    BY <1>3 DEF Unwritten, InService, Stripe
  <2>6. IdleInv(s)  BY DEF RowInv
  <2>7. FirstRead(r)' = FirstRead(r) /\ FirstRead(r) \in Active
    BY <1>3 DEF FirstRead, Active, Reading
  <2>8. io[r][d] # "none" /\ Extent(r, phase[r], lost[r], d) # {}
    BY <1>1, <1>3, <1>9 DEF RequestInv, LowerInv
  <2>9. CASE ReadBlocks(r, d) /\ x = "ok" /\ d \notin dead /\ UNCHANGED torn
    <3>1. UNCHANGED <<acc, disk>> /\ phase[r] \in {"read", "old"}
      BY <2>9 DEF ReadBlocks
    <3>2. \A t : StripeFrame(t)
      BY <1>3, <2>9, <3>1, StillFrame
    <3>3. phase[r] = FirstRead(r) /\ phase[r] \notin Writing
      BY <3>1 DEF FirstRead, Writing
    <3>4. IdleInv(s)'
      BY <2>5, <2>6, <3>2, IdleSame
    <3>5. LowerInv(r)'
      BY <1>1, <1>3, <1>5, <1>9, <2>3, <2>8, <3>1, <2>9
         DEF RequestInv, LowerInv
    <3>6. \A e \in Disks, o \in Offsets :
            got'[r][e][o] = IF e = d /\ o \in Extent(r, phase[r], lost[r], d)
                              THEN OnDisk(d, s, o) ELSE got[r][e][o]
      BY <1>1, <2>1, <2>9 DEF ReadBlocks, TypeOK
    <3>7. \A e : Extent(r, phase[r], lost[r], e)
                   = Extent(r, phase[r], NoDisk, e)
      BY <3>1 DEF Extent
    <3>8. (Sound(s)' <=> Sound(s)) /\ (d = p => Sound(s)) => Trusted(s, d)
      BY <2>1, <2>9 DEF Trusted
    <3>9. Sound(s)' <=> Sound(s)  BY <1>3, <2>9 DEF Sound
    <3>10. (d = p => Sound(s)) =>
             \A o \in Offsets : OnDisk(d, s, o) = Before(s, o)[d]
      BY <2>2, <2>6, <3>3, <3>8, <3>9 DEF IdleInv
    <3>11. GotInv(r)'
      <4> SUFFICES ASSUME NEW e \in Disks, NEW o \in Offsets,
                          o \in Extent(r, phase[r], NoDisk, e),
                          io'[r][e] = "ok", e = p => Sound(s)
                   PROVE  got'[r][e][o] = Before(s, o)[e]
        BY <1>3, <2>1, <2>3, <2>4, <2>7, <3>3, <3>9 DEF GotInv
      <4>1. CASE e = d  BY <4>1, <3>6, <3>7, <3>10
      <4>2. CASE e # d
        <5>1. io[r][e] = "ok" /\ got'[r][e][o] = got[r][e][o]
          BY <4>2, <1>5, <3>6
        <5> QED
          BY <5>1, <1>1, <1>9, <2>1, <3>1, <3>3
             DEF RequestInv, GotInv, Reading
      <4> QED  BY <4>1, <4>2
    <3>12. RebuildInv(r)' /\ WriteInv(r)'
      BY <1>3, <3>1 DEF RebuildInv, WriteInv, Writing
    <3>13. RequestInv(r)'
      BY <3>5, <3>11, <3>12 DEF RequestInv
    <3> QED
      BY <1>3, <1>7, <1>9, <2>1, <3>2, <3>4, <3>13, OthersSame DEF RowInv
  <2>10. CASE AddBlocks(r, d) /\ x = "ok" /\ d \notin dead /\ UNCHANGED torn
    <3>1. UNCHANGED <<got, disk>> /\ phase[r] \in {"readrec", "oldrec"}
      BY <2>10 DEF AddBlocks
    <3>2. \A t : StripeFrame(t)  BY <1>3, <2>10, <3>1, StillFrame
    <3>3. phase[r] \notin Writing /\ phase[r] # FirstRead(r)
      BY <3>1 DEF FirstRead, Writing
    <3>4. IdleInv(s)'  BY <2>5, <2>6, <3>2, IdleSame
    <3>5. LowerInv(r)'
      BY <1>1, <1>3, <1>5, <1>9, <2>3, <2>8, <2>10, <3>1
         DEF RequestInv, LowerInv, Waiting
    <3>6. Sound(s)' <=> Sound(s)  BY <1>3, <2>10 DEF Sound
    <3>7. GotInv(r)'
      BY <1>1, <1>3, <2>1, <2>3, <2>4, <2>7, <3>1, <3>3, <3>6
         DEF RequestInv, GotInv
    <3>8. RebuildInv(r)'
      <4> SUFFICES ASSUME Sound(s), NEW o \in Offsets,
                          lost[r] = p \/ o \in Segment(r, lost[r])
                   PROVE  acc'[r][o] = Xor(Before(s, o), Arrived(r)')
        BY <1>3, <2>1, <2>3, <2>4, <3>6 DEF RebuildInv
      <4>1. d # lost[r]
            /\ Extent(r, phase[r], lost[r], d)
                 = IF lost[r] = p THEN Offsets ELSE Segment(r, lost[r])
        <5>1. CASE phase[r] = "readrec"  BY <5>1, <2>1, <2>8 DEF Extent
        <5>2. CASE phase[r] = "oldrec"  BY <5>2, <2>1, <2>8 DEF Extent
        <5> QED  BY <5>1, <5>2, <3>1
      <4>2. o \in Extent(r, phase[r], lost[r], d)  BY <4>1
      <4>3. acc'[r][o] = Xor(<<acc[r][o], OnDisk(d, s, o)>>, 1..2)
        BY <1>1, <2>1, <2>10, <4>2 DEF AddBlocks, TypeOK
      <4>4. acc[r][o] = Xor(Before(s, o), Arrived(r))
        BY <1>1, <2>1, <3>1 DEF RequestInv, RebuildInv
      <4>5. OnDisk(d, s, o) = Before(s, o)[d]
        BY <2>2, <2>6, <2>10, <3>3 DEF IdleInv, Trusted
      <4>6. /\ Arrived(r)' = Arrived(r) \cup {d} /\ d \notin Arrived(r)
            /\ IsFiniteSet(Arrived(r))
        <5>1. IsFiniteSet(Arrived(r))
          BY DisksFinite, FS_Subset DEF Arrived
        <5> QED  BY <5>1, <1>3, <1>5, <2>10 DEF Arrived
      <4>7. Xor(Before(s, o), Arrived(r) \cup {d})
              = Sym(Xor(Before(s, o), Arrived(r)), Before(s, o)[d])
        BY <4>6, XorAdd
      <4> QED  BY <4>3, <4>4, <4>5, <4>6, <4>7, XorPair
    <3>9. WriteInv(r)'  BY <1>3, <3>3 DEF WriteInv
    <3>10. RequestInv(r)'  BY <3>5, <3>7, <3>8, <3>9 DEF RequestInv
    <3> QED
      BY <1>3, <1>7, <1>9, <2>1, <3>2, <3>4, <3>10, OthersSame DEF RowInv
  <2>11. CASE WriteBlocks(r, d, FALSE) /\ x = "ok" /\ d \notin dead
                /\ UNCHANGED torn
    <3>1. UNCHANGED <<got, acc>> /\ phase[r] \in Writing
      BY <2>11 DEF WriteBlocks
    <3>2. \A e \in Disks, t \in Stripes, o \in Offsets :
            OnDisk(e, t, o)' =
              IF e = d /\ t = s /\ o \in Extent(r, phase[r], lost[r], d)
                THEN Output(r, d, o) ELSE OnDisk(e, t, o)
      <4>1. \A e \in Disks, t \in Stripes, o \in Offsets :
              OnDisk(e, t, o)' =
                IF e = d /\ t = Stripe(r)
                     /\ o \in Extent(r, phase[r], lost[r], d)
                  THEN Output(r, d, o) ELSE OnDisk(e, t, o)
        BY <1>1, <2>2, <2>11, WriteBlocksFacts
      <4> QED  BY <2>1, <4>1
    <3>3. \A t \in Stripes : t # s => StripeFrame(t)
      BY <1>3, <2>11, <3>2 DEF StripeFrame
    <3>4. IdleInv(s)'  BY <2>2, <2>5, <3>1 DEF IdleInv
    <3>5. LowerInv(r)'
      BY <1>1, <1>3, <1>5, <1>9, <2>3, <2>8, <2>11, <3>1
         DEF RequestInv, LowerInv, Waiting
    <3>6. GotInv(r)' /\ RebuildInv(r)'
      BY <1>3, <3>1 DEF GotInv, RebuildInv, Reading, Writing
    <3>7. DataInv(r) /\ ParityInv(r) /\ MissedInv(r)
      BY <1>1, <3>1 DEF RequestInv, WriteInv
    <3>8. /\ (Sound(s)' <=> Sound(s))
          /\ \A e : Trusted(s, e)' <=> Trusted(s, e)
      BY <1>3, <2>11 DEF Sound, Trusted
    <3>9. d # p => \A o \in Offsets :
            OnDisk(d, s, o)' = After(r, o)[d]
      <4> SUFFICES ASSUME d # p, NEW o \in Offsets
                   PROVE  OnDisk(d, s, o)' = After(r, o)[d]
        OBVIOUS
      <4>1. Extent(r, phase[r], lost[r], d)
              = IF phase[r] = "full" THEN Offsets ELSE Segment(r, d)
        <5>1. CASE phase[r] = "full"  BY <5>1 DEF Extent
        <5>2. CASE phase[r] = "new"  BY <5>2, <2>1 DEF Extent
        <5> QED  BY <5>1, <5>2, <3>1 DEF Writing
      <4>2. phase[r] = "full" => FullStripe(r)
        BY <1>1 DEF QueueInv, ShapeInv
      <4>3. o \in Extent(r, phase[r], lost[r], d)
              <=> BlockAt(s, d, o) \in ReqBlocks(r)
        BY <2>1, <2>2, <4>1, <4>2, SegmentPlace, WholeStripe
      <4>4. Output(r, d, o) = Data(r, BlockAt(s, d, o))
        BY <2>1 DEF Output
      <4>5. OnDisk(d, s, o) = Before(s, o)[d]
        BY <1>3, <2>1, <2>11, <3>7 DEF DataInv
      <4>6. After(r, o)[d] = IF BlockAt(s, d, o) \in ReqBlocks(r)
              THEN Data(r, BlockAt(s, d, o)) ELSE Before(s, o)[d]
        <5>1. \A e \in Disks \ {Parity(r)} :
                After(r, o)[e] = IF BlockAt(Stripe(r), e, o) \in ReqBlocks(r)
                  THEN Data(r, BlockAt(Stripe(r), e, o))
                  ELSE Before(Stripe(r), o)[e]
          BY ONLY r \in Reqs, o \in Offsets, <2>2, AfterFacts
        <5> QED  BY <5>1, <2>1
      <4> QED  BY <3>2, <4>3, <4>4, <4>5, <4>6
    <3>10. \A e \in Disks \ {d}, o \in Offsets :
             OnDisk(e, s, o)' = OnDisk(e, s, o)
      BY <3>2
    <3>11. DataInv(r)'
      <4> SUFFICES ASSUME NEW e \in Disks \ {p}, NEW o \in Offsets,
                          e \notin dead
                   PROVE  OnDisk(e, s, o)' = IF io'[r][e] = "ok"
                            THEN After(r, o)[e] ELSE Before(s, o)[e]
        BY <1>3, <2>1, <2>4 DEF DataInv
      <4>1. CASE e = d  BY <4>1, <1>5, <2>11, <3>9
      <4>2. CASE e # d
        BY <4>2, <1>5, <2>1, <3>7, <3>10 DEF DataInv
      <4> QED  BY <4>1, <4>2
    <3>12. ParityInv(r)'
      <4>1. \A o \in Offsets :
              phase'[r] = "full" \/ Sound(s)' => acc'[r][o] = After(r, o)'[p]
        BY <1>3, <2>1, <2>4, <3>1, <3>7, <3>8 DEF ParityInv
      <4>2. CASE d = p
        <5>1. Extent(r, phase[r], lost[r], p) = Offsets
          <6>1. CASE phase[r] = "full"  BY <6>1 DEF Extent
          <6>2. CASE phase[r] = "new"  BY <6>2, <2>1 DEF Extent
          <6> QED  BY <6>1, <6>2, <3>1 DEF Writing
        <5>2. \A o \in Offsets : OnDisk(p, s, o)' = acc'[r][o]
          BY <2>1, <3>1, <3>2, <4>2, <5>1 DEF Output
        <5>3. io'[r][p] = "ok"  BY <1>5, <2>11, <4>2
        <5> QED  BY <2>1, <4>1, <5>2, <5>3 DEF ParityInv
      <4>3. CASE d # p
        <5>1. io'[r][p] = io[r][p]  BY <1>5, <4>3
        <5> QED
          BY <2>1, <2>4, <3>1, <3>7, <3>8, <3>10, <4>1, <4>3, <5>1
             DEF ParityInv
      <4> QED  BY <4>2, <4>3
    <3>13. MissedInv(r)'
      BY <1>3, <1>5, <2>1, <2>11, <3>7 DEF MissedInv
    <3>14. RequestInv(r)'
      BY <3>5, <3>6, <3>11, <3>12, <3>13 DEF RequestInv, WriteInv
    <3> QED
      BY <1>3, <1>7, <1>9, <2>1, <3>3, <3>4, <3>14, OthersSame DEF RowInv
  <2>12. CASE Fail(r, d)
    <3>1. UNCHANGED <<got, acc, disk>> /\ io' = [io EXCEPT ![r][d] = "bad"]
      BY <2>12 DEF Fail
    <3>2. \A e \in Disks : io'[r][e] = IF e = d THEN "bad" ELSE io[r][e]
      BY <1>1, <3>1 DEF TypeOK
    <3>3. /\ \A t \in Stripes : t \in torn => t \in torn'
          /\ phase[r] \in Writing /\ d \notin dead => s \in torn'
      BY <2>1, <2>12 DEF Fail, Reading, Writing
    <3>4. \A t \in Stripes : StripeFrame(t)
      BY <1>3, <3>1, <3>3 DEF StripeFrame, OnDisk
    <3>5. IdleInv(s)'  BY <2>5, <2>6, <3>4, IdleSame
    <3>6. LowerInv(r)'
      BY <1>1, <1>3, <1>9, <2>3, <2>8, <3>1, <3>2 DEF RequestInv, LowerInv
    <3>7. /\ Sound(s)' => Sound(s)
          /\ \A e : Trusted(s, e)' => Trusted(s, e)
      BY <1>3, <3>3, SoundFrame
    <3>8. /\ \A e \in Disks : io'[r][e] = "ok" <=> io[r][e] = "ok"
          /\ Arrived(r)' = Arrived(r)
      BY <1>3, <3>2 DEF Arrived
    <3>9. GotInv(r)'
      BY <1>1, <1>3, <2>1, <2>3, <2>4, <2>7, <3>1, <3>7, <3>8
         DEF RequestInv, GotInv
    <3>10. RebuildInv(r)'
      BY <1>1, <1>3, <2>1, <2>3, <2>4, <3>1, <3>7, <3>8
         DEF RequestInv, RebuildInv
    <3>11. WriteInv(r)'
      <4> SUFFICES ASSUME phase[r] \in Writing
                   PROVE  DataInv(r)' /\ ParityInv(r)' /\ MissedInv(r)'
        BY <1>3 DEF WriteInv
      <4>1. DataInv(r) /\ ParityInv(r) /\ MissedInv(r)
        BY <1>1 DEF RequestInv, WriteInv
      <4>2. \A e, o : OnDisk(e, s, o)' = OnDisk(e, s, o)
        BY <3>1 DEF OnDisk
      <4>3. DataInv(r)'
        BY <1>3, <2>1, <2>4, <3>8, <4>1, <4>2 DEF DataInv
      <4>4. ParityInv(r)'
        BY <1>3, <2>1, <2>4, <3>1, <3>7, <3>8, <4>1, <4>2 DEF ParityInv
      <4>5. MissedInv(r)'
        BY <1>3, <2>1, <3>2, <3>3, <4>1 DEF MissedInv
      <4> QED  BY <4>3, <4>4, <4>5
    <3>12. RequestInv(r)'  BY <3>6, <3>9, <3>10, <3>11 DEF RequestInv
    <3> QED
      BY <1>3, <1>7, <1>9, <2>1, <3>4, <3>5, <3>12, OthersSame DEF RowInv
  <2>13. CASE CompleteOk(r, d)
    <3>1. x = "ok"
      <4>1. io' = [io EXCEPT ![r][d] = "ok"]  BY <2>13 DEF CompleteOk
      <4>2. io'[r][d] = "ok"  BY <1>1, <4>1 DEF TypeOK
      <4> QED  BY <4>2, <1>5
    <3> QED
      BY <2>9, <2>10, <2>11, <2>13, <3>1 DEF CompleteOk
  <2> QED  BY <1>2, <2>12, <2>13
<1> QED  BY <1>8, <1>9

\* A request that reads is answered: the disks have not been touched.
LEMMA RowEndRead ==
  ASSUME RowInv, QueueInv', NEW r \in Reqs, phase[r] \in Reading,
         NEW st, Reply(r, st), \A q \in Reqs \ {r} : got'[q] = got[q],
         UNCHANGED <<req, disk, dead, torn, store>>
  PROVE  RowInv'
<1>1. QueueInv /\ TypeOK /\ phase[r] \in Active
  BY DEF RowInv, QueueInv, Active
<1>2. phase'[r] = "done" /\ \A q \in Reqs \ {r} : RequestFrame(q)
  BY <1>1, ReplyFacts DEF RequestFrame
<1>3. \A t : StripeFrame(t)  BY StillFrame
<1>4. PICK s \in Stripes : s = Stripe(r) /\ s = Stripe(r)'
  BY <1>1, ActiveFacts, SameShape
<1>5. Unwritten(s) /\ IdleInv(s)
  BY <1>1, <1>4, ActiveFacts DEF RowInv, Reading, Writing
<1>6. IdleInv(s)'  BY <1>3, <1>5, IdleSame
<1>7. RequestInv(r)'  BY <1>2, DoneInv
<1> QED  BY <1>1, <1>2, <1>3, <1>4, <1>6, <1>7, OthersSame DEF RowInv

\* A request that reads goes on: the disks have not been touched.
LEMMA RowGoOn ==
  ASSUME RowInv, QueueInv', NEW r \in Reqs, phase[r] \in Reading,
         NEW ph \in Active, NEW l, Await(r, ph, l),
         \A q \in Reqs \ {r} : got'[q] = got[q] /\ acc'[q] = acc[q],
         UNCHANGED <<req, disk, dead, torn, store>>, RequestInv(r)'
  PROVE  RowInv'
<1>1. QueueInv /\ TypeOK /\ phase[r] \in Active
  BY DEF RowInv, QueueInv, Active
<1>2. \A q \in Reqs \ {r} : RequestFrame(q)
  BY <1>1, AwaitFacts DEF RequestFrame
<1>3. \A t : StripeFrame(t)  BY StillFrame
<1>4. PICK s \in Stripes : s = Stripe(r) /\ s = Stripe(r)'
  BY <1>1, ActiveFacts, SameShape
<1>5. Unwritten(s) /\ IdleInv(s)
  BY <1>1, <1>4, ActiveFacts DEF RowInv, Reading, Writing
<1>6. IdleInv(s)'  BY <1>3, <1>5, IdleSame
<1> QED  BY <1>1, <1>2, <1>3, <1>4, <1>6, OthersSame DEF RowInv

\* One read has failed: the request starts to rebuild what is missing.
LEMMA RowRebuild ==
  ASSUME RowInv, QueueInv', NEW r \in Reqs,
         NEW ph, \/ phase[r] = "read" /\ ph = "readrec"
                 \/ phase[r] = "old" /\ ph = "oldrec",
         Busy(r) = {}, Rebuilds(r, ph),
         UNCHANGED <<req, disk, dead, torn, store>>
  PROVE  RowInv'
<1>1. QueueInv /\ TypeOK /\ RequestInv(r)  BY DEF RowInv, QueueInv
<1>2. phase[r] \in Reading /\ phase[r] \in Active /\ ph \in Active
  BY DEF Active, Reading
<1>3. PICK l \in Disks : Bad(r) = {l} /\ Await(r, ph, l)
  BY DEF Rebuilds
<1>4. UNCHANGED <<got, acc>>  BY DEF Rebuilds
<1>5. /\ phase'[r] = ph /\ lost'[r] = l
      /\ \A d \in Disks :
           /\ io'[r][d] \in {"none", "busy"}
           /\ io'[r][d] = "none" <=> Extent(r, ph, l, d)' = {}
  BY <1>1, <1>2, <1>3, AwaitFacts
<1>6. PICK s \in Stripes, p \in Disks :
        /\ s = Stripe(r) /\ s = Stripe(r)'
        /\ p = Parity(r) /\ p = Parity(r)' /\ p = ParityDisk(s)
  BY <1>1, <1>2, ActiveFacts, ReqPlace, SameShape DEF Parity
<1>7. /\ \A d : Segment(r, d)' = Segment(r, d)
      /\ \A x \in Active : \A m, d : Extent(r, x, m, d)' = Extent(r, x, m, d)
  BY ExtentSame
<1>8. \A o \in Offsets : Before(s, o)' = Before(s, o)  BY BeforeFrame
<1>9. Sound(s)' <=> Sound(s)  BY DEF Sound
<1>10. /\ FirstRead(r)' = FirstRead(r) /\ FirstRead(r) = phase[r]
       /\ phase'[r] # FirstRead(r)
  BY <1>5 DEF FirstRead
<1>11. LowerInv(r)'
  BY <1>5 DEF LowerInv, Waiting
<1>12. GotInv(r)'
  <2> SUFFICES ASSUME NEW d \in Disks, NEW o \in Offsets,
                      o \in Extent(r, phase[r], NoDisk, d), d # l,
                      d = p => Sound(s)
               PROVE  got[r][d][o] = Before(s, o)[d]
    BY <1>2, <1>4, <1>5, <1>6, <1>7, <1>8, <1>9, <1>10 DEF GotInv
  <2>1. Extent(r, phase[r], lost[r], d) = Extent(r, phase[r], NoDisk, d)
    BY DEF Extent
  <2>2. io[r][d] # "none"
    BY <2>1, <1>1, <1>2 DEF RequestInv, LowerInv
  <2>3. io[r][d] \in IoState  BY <1>1 DEF TypeOK
  <2>4. io[r][d] = "ok"  BY <2>2, <2>3, <1>3 DEF IoState, Bad, Busy
  <2> QED  BY <2>4, <1>1, <1>2, <1>6, <1>10 DEF RequestInv, GotInv
<1>13. RebuildInv(r)'
  <2>1. Arrived(r)' = {}  BY <1>5 DEF Arrived
  <2>2. acc'[r] = Zeroed
    BY <1>1, <1>4 DEF RequestInv, LowerInv
  <2>3. \A o \in Offsets : acc'[r][o] = Xor(Before(s, o)', {})
    BY <2>2, XorEmpty DEF Zeroed
  <2> QED  BY <1>6, <2>1, <2>3 DEF RebuildInv
<1>14. WriteInv(r)'  BY <1>5 DEF WriteInv, Writing
<1>15. RequestInv(r)'  BY <1>11, <1>12, <1>13, <1>14 DEF RequestInv
<1> QED  BY <1>2, <1>3, <1>4, <1>15, RowGoOn

\* The new parity is right if what was read is, and the old parity was.
LEMMA NewParity ==
  ASSUME NEW r \in Reqs, req[r] \in Shapes, ~Crosses(r), NEW o \in Offsets,
         NEW old,
         \A d \in Touched(r, o) \cup {Parity(r)} :
           old[d][o] = Before(Stripe(r), o)[d]
  PROVE  Xor(<<OldXor(r, old, o), NewXor(r, o)>>, 1..2)
           = After(r, o)[Parity(r)]
<1>1. PICK s \in Stripes, p \in Disks :
        s = Stripe(r) /\ p = Parity(r) /\ p = ParityDisk(s)
  BY ReqPlace DEF Parity
<1> DEFINE T == Touched(r, o)
           f == Before(s, o)
           g == After(r, o)
           h == [d \in Disks |-> old[d][o]]
           k == [d \in T |-> Data(r, BlockAt(s, d, o))]
<1>2. T \in SUBSET (Disks \ {p})  BY <1>1 DEF Touched
<1>3. \A d \in Disks \ {p} : d \in T <=> BlockAt(s, d, o) \in ReqBlocks(r)
  BY <1>1, SegmentPlace DEF Touched
<1>4. \A d \in Disks \ {p} :
        g[d] = IF BlockAt(s, d, o) \in ReqBlocks(r)
                 THEN Data(r, BlockAt(s, d, o)) ELSE f[d]
  BY <1>1, AfterFacts
<1>5. f[p] = Xor(f, Disks \ {p})  BY <1>1, BeforeFacts
<1>6. g[p] = Xor(g, Disks \ {p})  BY <1>1, AfterFacts
<1>7. \A d \in Disks \ (T \cup {p}) : g[d] = f[d]  BY <1>3, <1>4
<1>8. OldXor(r, old, o) = Xor(h, T \cup {p})  BY <1>1 DEF OldXor
<1>9. \A d \in T \cup {p} : h[d] = f[d]  BY <1>1, <1>2
<1>10. NewXor(r, o) = Xor(k, T)  BY <1>1 DEF NewXor
<1>11. \A d \in T : k[d] = g[d]  BY <1>2, <1>3, <1>4
<1> HIDE DEF T, f, g, h, k
<1>12. Xor(h, T \cup {p}) = Xor(f, T \cup {p})  BY <1>9, XorSame
<1>13. Xor(k, T) = Xor(g, T)  BY <1>11, XorSame
<1>14. Sym(Xor(f, T \cup {p}), Xor(g, T)) = Xor(g, Disks \ {p})
  <2>1. p \in Disks  BY <1>1
  <2> QED  BY ONLY <1>2, <1>5, <1>7, <2>1, DisksFinite, XorUpdate
<1>15. Xor(<<OldXor(r, old, o), NewXor(r, o)>>, 1..2)
         = Sym(Xor(f, T \cup {p}), Xor(g, T))
  BY <1>8, <1>10, <1>12, <1>13, XorPair
<1> QED  BY <1>1, <1>6, <1>14, <1>15 DEF g

\* The old data and the old parity are known: the request starts to write.
LEMMA RowWriteNew ==
  ASSUME RowInv, QueueInv', NEW r \in Reqs, phase[r] \in {"old", "oldrec"},
         NEW old, WriteNew(r, old),
         UNCHANGED <<req, disk, dead, torn, store>>,
         Sound(Stripe(r)) =>
           \A o \in Offsets : \A d \in Touched(r, o) \cup {Parity(r)} :
             old[d][o] = Before(Stripe(r), o)[d]
  PROVE  RowInv'
<1>1. QueueInv /\ TypeOK  BY DEF RowInv, QueueInv
<1>2. phase[r] \in Reading /\ phase[r] \in Active /\ "new" \in Active
  BY DEF Active, Reading, Writing
<1>3. Await(r, "new", NoDisk) /\ Release(r)  BY DEF WriteNew
<1>4. /\ phase'[r] = "new" /\ lost'[r] = NoDisk
      /\ \A d \in Disks :
           /\ io'[r][d] \in {"none", "busy"}
           /\ io'[r][d] = "none" <=> Extent(r, "new", NoDisk, d)' = {}
  BY <1>1, <1>2, <1>3, AwaitFacts
<1>5. PICK s \in Stripes, p \in Disks :
        /\ s = Stripe(r) /\ s = Stripe(r)'
        /\ p = Parity(r) /\ p = Parity(r)' /\ p = ParityDisk(s)
  BY <1>1, <1>2, ActiveFacts, ReqPlace, SameShape DEF Parity
<1>6. req[r] \in Shapes /\ ~Crosses(r) /\ Unwritten(s)
  BY <1>1, <1>2, <1>5, ActiveFacts DEF Reading, Writing
<1>7. \A o \in Offsets : /\ Before(s, o)' = Before(s, o)
                         /\ After(r, o)' = After(r, o)
  BY <1>5, <1>6, BeforeFrame, AfterFrame
<1>8. /\ Sound(s)' <=> Sound(s)
      /\ \A d : Trusted(s, d)' <=> Trusted(s, d)
      /\ \A d, o : OnDisk(d, s, o)' = OnDisk(d, s, o)
  BY DEF Sound, Trusted, OnDisk
<1>9. \A d \in Disks, o \in Offsets :
        Trusted(s, d) => OnDisk(d, s, o) = Before(s, o)[d]
  BY <1>6 DEF RowInv, IdleInv
<1>10. \A d \in Disks : io'[r][d] \notin {"ok", "bad"}  BY <1>4
<1> DEFINE n == [o \in Offsets |->
                   Xor(<<OldXor(r, old, o), NewXor(r, o)>>, 1..2)]
<1>11. acc' = [acc EXCEPT ![r] = n]  BY WriteNewAcc
<1>12. Sound(s) => \A o \in Offsets : n[o] = After(r, o)[p]
  <2>1. ASSUME Sound(s), NEW o \in Offsets
        PROVE  Xor(<<OldXor(r, old, o), NewXor(r, o)>>, 1..2)
                 = After(r, o)[Parity(r)]
    <3>1. \A d \in Touched(r, o) \cup {Parity(r)} :
            old[d][o] = Before(Stripe(r), o)[d]
      BY <1>5, <2>1
    <3> QED  BY <1>6, <3>1, NewParity
  <2> QED  BY <1>5, <2>1
<1> HIDE DEF n
<1>13. acc'[r] = n /\ \A q \in Reqs \ {r} : acc'[q] = acc[q]
  BY <1>1, <1>11 DEF TypeOK
<1>14. \A q \in Reqs \ {r} : got'[q] = got[q]
  BY <1>1, <1>3 DEF Release, TypeOK
<1>15. DataInv(r)'
  BY <1>5, <1>7, <1>8, <1>9, <1>10 DEF DataInv, Trusted
<1>16. ParityInv(r)'
  BY <1>4, <1>5, <1>7, <1>8, <1>9, <1>10, <1>12, <1>13 DEF ParityInv
<1>17. MissedInv(r)'  BY <1>10 DEF MissedInv
<1>18. LowerInv(r)'  BY <1>4 DEF LowerInv, Waiting
<1>19. GotInv(r)' /\ RebuildInv(r)'
  BY <1>4 DEF GotInv, RebuildInv, Reading
<1>20. RequestInv(r)'
  BY <1>15, <1>16, <1>17, <1>18, <1>19 DEF RequestInv, WriteInv
<1> QED  BY <1>2, <1>3, <1>13, <1>14, <1>20, RowGoOn


-----------------------------------------------------------------------------
(* The end of a write. S is what the blocks hold for the users from then   *)
(* on: what has landed, and everything if the write was answered well.     *)

RowOf(S, s, o) ==
  LET p == ParityDisk(s) IN
  WithParity([d \in Disks \ {p} |-> S[BlockAt(s, d, o)]], p)

SettledOn(S, r, ok) ==
  \A b \in Blocks :
    StripeIdx(b) = Stripe(r) =>
      S[b] = IF Landed(r, b) \/ (ok /\ b \in ReqBlocks(r))
               THEN Data(r, b) ELSE store[b]

AllWritten(r) == \A d \in Disks : io[r][d] \in {"ok", "none"}

\* The disks that work hold the new row, or all of them the old one.
AllNew(r) ==
  /\ \A d \in Disks \ dead : io[r][d] \in {"ok", "none"}
  /\ phase[r] = "full" \/ Sound(Stripe(r))

AllOld(r) ==
  /\ \A d \in Disks \ dead : io[r][d] # "ok"
  /\ Sound(Stripe(r))

LEMMA RowOfFacts ==
  ASSUME NEW S, NEW s \in Stripes, NEW o \in Offsets
  PROVE  /\ \A d \in Disks \ {ParityDisk(s)} :
              RowOf(S, s, o)[d] = S[BlockAt(s, d, o)]
         /\ RowOf(S, s, o)[ParityDisk(s)]
              = Xor(RowOf(S, s, o), Disks \ {ParityDisk(s)})
<1>1. ParityDisk(s) \in Disks  BY ParityPlace
<1> DEFINE p == ParityDisk(s)
           f == [d \in Disks \ {p} |-> S[BlockAt(s, d, o)]]
<1>2. RowOf(S, s, o) = WithParity(f, p)  BY DEF RowOf
<1>3. \A d \in Disks \ {p} : f[d] = S[BlockAt(s, d, o)]  OBVIOUS
<1> HIDE DEF f
<1> QED  BY <1>1, <1>2, <1>3, WithParityFacts

\* The same of one data disk.
LEMMA RowOfData ==
  ASSUME NEW S, NEW s \in Stripes, NEW o \in Offsets,
         NEW d \in Disks \ {ParityDisk(s)}
  PROVE  RowOf(S, s, o)[d] = S[BlockAt(s, d, o)]
<1>1. \A e \in Disks \ {ParityDisk(s)} : RowOf(S, s, o)[e] = S[BlockAt(s, e, o)]
  BY ONLY s \in Stripes, o \in Offsets, RowOfFacts
<1> QED  BY <1>1

\* What a disk holds is rebuilt from the others.
LEMMA RebuiltRow ==
  ASSUME NEW s \in Stripes, NEW d \in Disks \ {ParityDisk(s)},
         NEW o \in Offsets, NEW g, Xor(g, Disks \ {d}) = g[d],
         \A e \in Disks \ {d} : OnDisk(e, s, o) = g[e]
  PROVE  Rebuilt(BlockAt(s, d, o)) = g[d]
<1> DEFINE b == BlockAt(s, d, o)
           f == [e \in Disks |-> disk[e][Row(s, o)]]
<1>1. StripeIdx(b) = s /\ DiskOf(b) = d /\ OffsetIn(b) = o
  BY PlaceBlock
<1> HIDE DEF b
<1>2. Rebuilt(b) = Xor(f, Disks \ {d})  BY <1>1 DEF Rebuilt
<1>3. \A e \in Disks \ {d} : f[e] = g[e]  BY DEF OnDisk
<1> HIDE DEF f
<1>4. Xor(f, Disks \ {d}) = Xor(g, Disks \ {d})  BY <1>3, XorSame
<1> QED  BY <1>2, <1>4 DEF b

\* A block whose disk works reads as what that disk holds.
LEMMA LiveRead ==
  ASSUME NEW s \in Stripes, NEW d \in Disks \ {ParityDisk(s)},
         NEW o \in Offsets, d \notin dead
  PROVE  /\ Readable(BlockAt(s, d, o))
         /\ Recovered(BlockAt(s, d, o)) = OnDisk(d, s, o)
BY PlaceBlock DEF Readable, Recovered

\* The extent of a write: the blocks of the request and the parity.
LEMMA WriteExtent ==
  ASSUME RowInv, NEW r \in Reqs, phase[r] \in Writing
  PROVE  /\ io[r][Parity(r)] # "none"
         /\ \A d \in Disks \ {Parity(r)}, o \in Offsets :
              io[r][d] = "none" =>
                BlockAt(Stripe(r), d, o) \notin ReqBlocks(r)
<1>1. QueueInv /\ RequestInv(r) /\ phase[r] \in Active
  BY DEF RowInv, Active
<1>2. req[r] \in Shapes /\ ~Crosses(r) /\ Parity(r) \in Disks
  BY <1>1, ActiveFacts, ReqPlace
<1>3. 0 \in Offsets  BY Sizes DEF Offsets
<1>4. \A d \in Disks :
        io[r][d] = "none" <=> Extent(r, phase[r], lost[r], d) = {}
  BY <1>1 DEF RequestInv, LowerInv
<1>5. /\ Extent(r, phase[r], lost[r], Parity(r)) = Offsets
      /\ \A d \in Disks \ {Parity(r)} :
           Segment(r, d) # {} => Extent(r, phase[r], lost[r], d) # {}
  <2>1. CASE phase[r] = "new"  BY <2>1 DEF Extent
  <2>2. CASE phase[r] = "full"  BY <2>2, <1>3 DEF Extent
  <2> QED  BY <2>1, <2>2 DEF Writing
<1>6. \A d \in Disks \ {Parity(r)}, o \in Offsets :
        BlockAt(Stripe(r), d, o) \in ReqBlocks(r) => o \in Segment(r, d)
  BY <1>2, SegmentPlace
<1> QED  BY <1>2, <1>3, <1>4, <1>5, <1>6

\* A disk that works holds the blocks of S.
LEMMA SettledData ==
  ASSUME RowInv, NEW r \in Reqs, phase[r] \in Writing, NEW S,
         NEW ok \in BOOLEAN, ok => AllWritten(r), SettledOn(S, r, ok),
         NEW d \in Disks \ {Parity(r)}, NEW o \in Offsets, d \notin dead
  PROVE  OnDisk(d, Stripe(r), o) = S[BlockAt(Stripe(r), d, o)]
<1>1. QueueInv /\ RequestInv(r) /\ phase[r] \in Active
  BY DEF RowInv, Active
<1>2. PICK s \in Stripes, p \in Disks :
        s = Stripe(r) /\ p = Parity(r) /\ p = ParityDisk(s)
  BY <1>1, ActiveFacts, ReqPlace DEF Parity
<1>3. req[r] \in Shapes  BY <1>1, ActiveFacts
<1> DEFINE b == BlockAt(s, d, o)
<1>4. b \in Blocks /\ StripeIdx(b) = s  BY <1>2, PlaceBlock
<1>5. Readable(b) /\ Recovered(b) = OnDisk(d, s, o)
  BY <1>2, LiveRead
<1>6. Before(s, o)[d] = store[b]  BY <1>2, BeforeFacts
<1>7. After(r, o)[d] = IF b \in ReqBlocks(r) THEN Data(r, b) ELSE store[b]
  BY <1>2, <1>3, <1>6, AfterFacts
<1>8. OnDisk(d, s, o) = IF io[r][d] = "ok" THEN After(r, o)[d]
                                           ELSE Before(s, o)[d]
  BY <1>1, <1>2 DEF RequestInv, WriteInv, DataInv
<1>9. S[b] = IF Landed(r, b) \/ (ok /\ b \in ReqBlocks(r))
               THEN Data(r, b) ELSE store[b]
  BY <1>2, <1>4 DEF SettledOn
<1>10. Landed(r, b) <=> b \in ReqBlocks(r) /\ OnDisk(d, s, o) = Data(r, b)
  BY <1>5 DEF Landed
<1>11. ok /\ b \in ReqBlocks(r) => io[r][d] = "ok"
  BY <1>2, WriteExtent DEF AllWritten
<1> HIDE DEF b
<1>12. OnDisk(d, s, o) = S[b]
  BY <1>6, <1>7, <1>8, <1>9, <1>10, <1>11
<1> QED  BY <1>2, <1>12 DEF b

\* The row that the disks that work hold, if one disk at most does not.
LEMMA SettledRow ==
  ASSUME RowInv, NEW r \in Reqs, phase[r] \in Writing, NEW S,
         NEW ok \in BOOLEAN, ok => AllWritten(r), SettledOn(S, r, ok),
         NEW e \in Disks, dead \subseteq {e}, Parity(r) \notin dead,
         NEW o \in Offsets, NEW g,
         \A d \in Disks \ dead : OnDisk(d, Stripe(r), o) = g[d],
         \A d \in Disks : Xor(g, Disks \ {d}) = g[d],
         \A d \in Disks \ {Parity(r)} :
           LET b == BlockAt(Stripe(r), d, o) IN
           \/ g[d] = store[b] /\ (ok => b \notin ReqBlocks(r))
           \/ g[d] = Data(r, b) /\ b \in ReqBlocks(r)
  PROVE  OnDisk(Parity(r), Stripe(r), o)
           = RowOf(S, Stripe(r), o)[Parity(r)]
<1>1. QueueInv /\ phase[r] \in Active  BY DEF RowInv, Active
<1>2. PICK s \in Stripes, p \in Disks :
        s = Stripe(r) /\ p = Parity(r) /\ p = ParityDisk(s)
  BY <1>1, ActiveFacts, ReqPlace DEF Parity
<1>3. ASSUME NEW d \in Disks \ {p}
      PROVE  S[BlockAt(s, d, o)] = g[d]
  <2>1. CASE d \notin dead
    <3>1. OnDisk(d, s, o) = S[BlockAt(s, d, o)]
      <4>1. d \in Disks \ {Parity(r)}  BY <1>2
      <4>2. OnDisk(d, Stripe(r), o) = S[BlockAt(Stripe(r), d, o)]
        BY <2>1, <4>1, SettledData
      <4> QED  BY <1>2, <4>2
    <3>2. OnDisk(d, s, o) = g[d]  BY <1>2, <2>1
    <3> QED  BY <3>1, <3>2
  <2>2. CASE d \in dead
    <3> DEFINE b == BlockAt(s, d, o)
    <3>1. dead = {d}  BY <2>2
    <3>2. Rebuilt(b) = g[d]
      <4>1. \A x \in Disks \ {d} : OnDisk(x, s, o) = g[x]
        BY <1>2, <3>1
      <4>2. Xor(g, Disks \ {d}) = g[d]  OBVIOUS
      <4> QED  BY <1>2, <4>1, <4>2, RebuiltRow
    <3>3. b \in Blocks /\ StripeIdx(b) = s /\ DiskOf(b) = d
      BY <1>2, PlaceBlock
    <3>4. \/ g[d] = store[b] /\ (ok => b \notin ReqBlocks(r))
          \/ g[d] = Data(r, b) /\ b \in ReqBlocks(r)
      BY <1>2
    <3> HIDE DEF b
    <3>5. Readable(b) /\ Recovered(b) = g[d]
      BY <3>1, <3>2, <3>3 DEF Readable, Recovered
    <3>6. Landed(r, b) <=> b \in ReqBlocks(r) /\ g[d] = Data(r, b)
      BY <3>5 DEF Landed
    <3>7. S[b] = IF Landed(r, b) \/ (ok /\ b \in ReqBlocks(r))
                   THEN Data(r, b) ELSE store[b]
      BY <1>2, <3>3 DEF SettledOn
    <3>8. S[b] = g[d]  BY <3>4, <3>6, <3>7
    <3> QED  BY <3>8 DEF b
  <2> QED  BY <2>1, <2>2
<1>4. \A d \in Disks \ {p} : RowOf(S, s, o)[d] = g[d]
  <2>1. ASSUME NEW d \in Disks \ {p}
        PROVE  RowOf(S, s, o)[d] = S[BlockAt(s, d, o)]
    <3>1. d \in Disks \ {ParityDisk(s)}  BY <1>2
    <3> QED  BY ONLY s \in Stripes, o \in Offsets, <3>1, RowOfData
  <2> QED  BY <1>3, <2>1
<1>5. Xor(RowOf(S, s, o), Disks \ {p}) = Xor(g, Disks \ {p})
  BY <1>4, XorSame
<1>6. RowOf(S, s, o)[p] = Xor(g, Disks \ {p})
  BY <1>2, <1>5, RowOfFacts
<1> QED  BY <1>2, <1>6


\* All the disks that work hold the new row.
LEMMA SettledNew ==
  ASSUME RowInv, NEW r \in Reqs, phase[r] \in Writing, NEW S,
         NEW ok \in BOOLEAN, ok => AllWritten(r), SettledOn(S, r, ok),
         NEW e \in Disks, dead \subseteq {e}, Parity(r) \notin dead,
         NEW o \in Offsets, AllNew(r)
  PROVE  OnDisk(Parity(r), Stripe(r), o)
           = RowOf(S, Stripe(r), o)[Parity(r)]
<1>1. QueueInv /\ RequestInv(r) /\ phase[r] \in Active
  BY DEF RowInv, Active
<1>2. PICK s \in Stripes, p \in Disks :
        s = Stripe(r) /\ p = Parity(r) /\ p = ParityDisk(s)
  BY <1>1, ActiveFacts, ReqPlace DEF Parity
<1>3. req[r] \in Shapes  BY <1>1, ActiveFacts
<1>4. /\ \A d \in Disks \ dead : io[r][d] \in {"ok", "none"}
      /\ phase[r] = "full" \/ Sound(s)
  BY <1>2 DEF AllNew
<1>5. DataInv(r) /\ ParityInv(r)  BY <1>1 DEF RequestInv, WriteInv
<1> DEFINE g == After(r, o)
<1>6. \A d \in Disks \ {p} :
        g[d] = IF BlockAt(s, d, o) \in ReqBlocks(r)
                 THEN Data(r, BlockAt(s, d, o)) ELSE store[BlockAt(s, d, o)]
  <2>1. \A d \in Disks \ {p} : Before(s, o)[d] = store[BlockAt(s, d, o)]
    BY <1>2, BeforeFacts
  <2> QED  BY <1>2, <1>3, <2>1, AfterFacts
<1>7. \A d \in Disks : Xor(g, Disks \ {d}) = g[d]  BY <1>3, AfterFacts
<1>8. OnDisk(p, s, o) = g[p]
  <2>1. io[r][p] = "ok"  BY <1>2, <1>4, WriteExtent
  <2> QED  BY <1>2, <1>4, <1>5, <2>1 DEF ParityInv
<1>9. ASSUME NEW d \in Disks \ dead, d # p PROVE OnDisk(d, s, o) = g[d]
  <2>1. OnDisk(d, s, o) = IF io[r][d] = "ok" THEN g[d] ELSE Before(s, o)[d]
    BY <1>2, <1>5, <1>9 DEF DataInv
  <2>2. Before(s, o)[d] = store[BlockAt(s, d, o)]
    BY <1>2, <1>9, BeforeFacts
  <2>3. io[r][d] = "none" => BlockAt(s, d, o) \notin ReqBlocks(r)
    BY <1>2, <1>9, WriteExtent
  <2>4. io[r][d] \in {"ok", "none"}  BY <1>4
  <2> HIDE DEF g
  <2> QED  BY <1>6, <1>9, <2>1, <2>2, <2>3, <2>4
<1> HIDE DEF g
<1>10. \A d \in Disks \ dead : OnDisk(d, Stripe(r), o) = g[d]
  BY <1>2, <1>8, <1>9
<1>11. \A d \in Disks \ {Parity(r)} :
         LET b == BlockAt(Stripe(r), d, o) IN
         \/ g[d] = store[b] /\ (ok => b \notin ReqBlocks(r))
         \/ g[d] = Data(r, b) /\ b \in ReqBlocks(r)
  BY <1>2, <1>6
<1> QED  BY <1>7, <1>10, <1>11, SettledRow

\* All the disks that work hold the old row.
LEMMA SettledOld ==
  ASSUME RowInv, NEW r \in Reqs, phase[r] \in Writing, NEW S,
         NEW ok \in BOOLEAN, ok => AllWritten(r), SettledOn(S, r, ok),
         NEW e \in Disks, dead \subseteq {e}, Parity(r) \notin dead,
         NEW o \in Offsets, AllOld(r)
  PROVE  OnDisk(Parity(r), Stripe(r), o)
           = RowOf(S, Stripe(r), o)[Parity(r)]
<1>1. QueueInv /\ RequestInv(r) /\ phase[r] \in Active
  BY DEF RowInv, Active
<1>2. PICK s \in Stripes, p \in Disks :
        s = Stripe(r) /\ p = Parity(r) /\ p = ParityDisk(s)
  BY <1>1, ActiveFacts, ReqPlace DEF Parity
<1>3. /\ \A d \in Disks \ dead : io[r][d] # "ok"
      /\ Sound(s)
  BY <1>2 DEF AllOld
<1>4. DataInv(r) /\ ParityInv(r)  BY <1>1 DEF RequestInv, WriteInv
<1> DEFINE g == Before(s, o)
<1>5. \A d \in Disks \ {p} : g[d] = store[BlockAt(s, d, o)]
  BY <1>2, BeforeFacts
<1>6. \A d \in Disks : Xor(g, Disks \ {d}) = g[d]  BY BeforeFacts
<1>7. ~ok  BY <1>2, <1>3, WriteExtent DEF AllWritten
<1>8. OnDisk(p, s, o) = g[p]
  BY <1>2, <1>3, <1>4 DEF ParityInv, Trusted
<1>9. \A d \in Disks \ dead : d # p => OnDisk(d, s, o) = g[d]
  BY <1>2, <1>3, <1>4 DEF DataInv
<1> HIDE DEF g
<1>10. \A d \in Disks \ dead : OnDisk(d, Stripe(r), o) = g[d]
  BY <1>2, <1>8, <1>9
<1>11. \A d \in Disks \ {Parity(r)} :
         LET b == BlockAt(Stripe(r), d, o) IN
         \/ g[d] = store[b] /\ (ok => b \notin ReqBlocks(r))
         \/ g[d] = Data(r, b) /\ b \in ReqBlocks(r)
  BY <1>2, <1>5, <1>7
<1> QED  BY <1>6, <1>10, <1>11, SettledRow


\* Once nobody writes the stripe any more, the disks that are trusted hold it.
LEMMA SettledIdle ==
  ASSUME RowInv, NEW r \in Reqs, phase[r] \in Writing,
         NEW s \in Stripes, s = Stripe(r),
         NEW ok \in BOOLEAN, ok => AllWritten(r), SettledOn(store', r, ok),
         UNCHANGED <<disk, dead>>, Sound(s)' => AllNew(r) \/ AllOld(r)
  PROVE  IdleInv(s)'
<1> SUFFICES ASSUME NEW d \in Disks, NEW o \in Offsets, Trusted(s, d)'
             PROVE  OnDisk(d, s, o)' = Before(s, o)'[d]
  BY DEF IdleInv
<1>1. QueueInv /\ phase[r] \in Active  BY DEF RowInv, Active
<1>2. PICK p \in Disks : p = Parity(r) /\ p = ParityDisk(s)
  BY <1>1, ActiveFacts, ReqPlace DEF Parity
<1>3. OnDisk(d, s, o)' = OnDisk(d, s, o)  BY DEF OnDisk
<1>4. Before(s, o)' = RowOf(store', s, o)  BY DEF Before, RowOf, WithParity
<1>5. d \notin dead /\ (d = p => Sound(s)')  BY <1>2 DEF Trusted
<1>6. CASE d # p
  <2>1. RowOf(store', s, o)[d] = store'[BlockAt(s, d, o)]
    <3>1. d \in Disks \ {ParityDisk(s)}  BY <1>2, <1>6
    <3> QED  BY ONLY s \in Stripes, o \in Offsets, <3>1, RowOfData
  <2>2. OnDisk(d, Stripe(r), o) = store'[BlockAt(Stripe(r), d, o)]
    <3>1. d \in Disks \ {Parity(r)}  BY <1>2, <1>6
    <3> QED  BY <1>5, <3>1, SettledData
  <2> QED  BY <1>3, <1>4, <2>1, <2>2
<1>7. CASE d = p
  <2>1. AllNew(r) \/ AllOld(r)  BY <1>5, <1>7
  <2>2. PICK e \in Disks : dead \subseteq {e}
    BY <1>5, <1>7 DEF Sound
  <2>3. Parity(r) \notin dead  BY <1>2, <1>5, <1>7
  <2>4. OnDisk(Parity(r), Stripe(r), o)
          = RowOf(store', Stripe(r), o)[Parity(r)]
    BY <2>1, <2>2, <2>3, SettledNew, SettledOld
  <2> QED  BY <1>2, <1>3, <1>4, <1>7, <2>4
<1> QED  BY <1>6, <1>7

\* A step that ends a write and leaves the other stripes alone.
LEMMA RowEnd ==
  ASSUME RowInv, QueueInv', NEW r \in Reqs, EndStep(r),
         UNCHANGED <<req, disk, dead>>
  PROVE  RowInv'
<1>1. QueueInv /\ TypeOK /\ RequestInv(r) /\ phase[r] \in Active
  BY DEF RowInv, QueueInv, EndStep, Active
<1>2. PICK st \in {"Success", "Failure"} :
        /\ st = "Success" <=> Bad(r) = {}
        /\ Reply(r, st) /\ Settle(r, st)
  BY DEF EndStep, Ends
<1>3. phase[r] \in Writing /\ Busy(r) = {} /\ UNCHANGED got
  BY DEF EndStep
<1>4. phase'[r] = "done" /\ \A q \in Reqs \ {r} : RequestFrame(q)
  BY <1>1, <1>2, <1>3, ReplyFacts DEF RequestFrame
<1>5. PICK s \in Stripes : s = Stripe(r)
  BY <1>1, ActiveFacts
<1>6. \A t \in Stripes : t # s => (t \in torn => t \in torn')
  BY <1>5 DEF EndStep
<1>7. \A b \in Blocks :
        store'[b] = IF Landed(r, b) \/ (st = "Success" /\ b \in ReqBlocks(r))
                      THEN Data(r, b) ELSE store[b]
  BY <1>2 DEF Settle
<1>8. \A b \in ReqBlocks(r) : StripeIdx(b) = s
  BY <1>1, <1>5, ActiveFacts, InsideStripe
<1>9. \A t \in Stripes : t # s => StripeFrame(t)
  BY <1>6, <1>7, <1>8 DEF StripeFrame, OnDisk, Landed
<1>10. \A d \in Disks : io[r][d] \in {"none", "ok", "bad"}
  BY <1>1, <1>3 DEF TypeOK, IoState, Busy
<1>11. IdleInv(s)'
  <2> DEFINE ok == st = "Success"
  <2>1. ok \in BOOLEAN  OBVIOUS
  <2>2. ok => AllWritten(r)
    BY <1>2, <1>10 DEF AllWritten, Bad
  <2>3. SettledOn(store', r, ok)  BY <1>7 DEF SettledOn
  <2>4. Sound(s)' => AllNew(r) \/ AllOld(r)
    <3> SUFFICES ASSUME s \notin torn', Sound(s)' PROVE AllNew(r)
      BY DEF Sound
    <3>1. PICK e \in Disks : dead \subseteq {e}  BY DEF Sound
    <3>2. CASE s \in torn
      <4>1. phase[r] = "full" /\ Bad(r) \subseteq dead
        BY <3>2 DEF EndStep
      <4> QED  BY <1>10, <4>1 DEF AllNew, Bad
    <3>3. CASE s \notin torn
      <4>1. Sound(s)  BY <3>1, <3>3 DEF Sound
      <4>2. \A d \in Disks \ dead : io[r][d] # "bad"
        BY <1>1, <1>3, <1>5, <3>3 DEF RequestInv, WriteInv, MissedInv
      <4> QED  BY <1>5, <1>10, <4>1, <4>2 DEF AllNew
    <3> QED  BY <3>2, <3>3
  <2> HIDE DEF ok
  <2> QED  BY <1>3, <1>5, <2>1, <2>2, <2>3, <2>4, SettledIdle
<1>12. RequestInv(r)'  BY <1>4, DoneInv
<1> QED  BY <1>1, <1>4, <1>5, <1>9, <1>11, <1>12, OthersSame DEF RowInv


\* What the first reads of a write have brought is the old row.
LEMMA OldReads ==
  ASSUME RowInv, NEW r \in Reqs, phase[r] = "old", Busy(r) = {},
         Bad(r) = {}, Sound(Stripe(r)), NEW o \in Offsets,
         NEW d \in Touched(r, o) \cup {Parity(r)}
  PROVE  got[r][d][o] = Before(Stripe(r), o)[d]
<1>1. QueueInv /\ TypeOK /\ RequestInv(r) /\ phase[r] \in Active
  BY DEF RowInv, QueueInv, Active, Reading
<1>2. req[r] \in Shapes /\ Parity(r) \in Disks
  BY <1>1, ActiveFacts, ReqPlace
<1>3. d \in Disks /\ o \in Extent(r, "old", NoDisk, d)
  BY <1>2 DEF Touched, Extent
<1>4. FirstRead(r) = "old"  BY DEF FirstRead
<1>5. Extent(r, "old", lost[r], d) = Extent(r, "old", NoDisk, d)
  BY DEF Extent
<1>6. io[r][d] # "none"
  BY <1>1, <1>3, <1>5 DEF RequestInv, LowerInv
<1>7. io[r][d] = "ok"
  BY <1>1, <1>3, <1>6 DEF TypeOK, IoState, Busy, Bad
<1> QED  BY <1>1, <1>3, <1>4, <1>7 DEF RequestInv, GotInv, Reading

\* With the block that was rebuilt it is the old row too.
LEMMA RebuiltReads ==
  ASSUME RowInv, NEW r \in Reqs, phase[r] = "oldrec", Busy(r) = {},
         Bad(r) = {}, Sound(Stripe(r)), NEW o \in Offsets,
         NEW d \in Touched(r, o) \cup {Parity(r)}
  PROVE  [got[r] EXCEPT ![lost[r]] = acc[r]][d][o]
           = Before(Stripe(r), o)[d]
<1>1. QueueInv /\ TypeOK /\ RequestInv(r) /\ phase[r] \in Active
  BY DEF RowInv, QueueInv, Active, Reading
<1>2. req[r] \in Shapes /\ Parity(r) \in Disks /\ Stripe(r) \in Stripes
  BY <1>1, ActiveFacts, ReqPlace
<1>3. d \in Disks /\ o \in Extent(r, "old", NoDisk, d)
  BY <1>2 DEF Touched, Extent
<1>4. FirstRead(r) = "old"  BY DEF FirstRead
<1>5. PICK l \in Disks : l = lost[r]  BY <1>1 DEF RequestInv, LowerInv
<1>6. [got[r] EXCEPT ![l] = acc[r]][d] = IF d = l THEN acc[r] ELSE got[r][d]
  BY <1>1, <1>3 DEF TypeOK
<1>7. CASE d # l
  <2>1. got[r][d][o] = Before(Stripe(r), o)[d]
    BY <1>1, <1>3, <1>4, <1>5, <1>7 DEF RequestInv, GotInv, Reading
  <2> QED  BY <1>5, <1>6, <1>7, <2>1
<1>8. CASE d = l
  <2>1. l = Parity(r) \/ o \in Segment(r, l)  BY <1>8 DEF Touched
  <2>2. acc[r][o] = Xor(Before(Stripe(r), o), Arrived(r))
    BY <1>1, <1>5, <2>1 DEF RequestInv, RebuildInv
  <2>3. Arrived(r) = Disks \ {l}
    <3>1. \A e \in Disks : io[r][e] = "none"
                             <=> Extent(r, "oldrec", l, e) = {}
      BY <1>1, <1>5 DEF RequestInv, LowerInv
    <3>2. \A e \in Disks : Extent(r, "oldrec", l, e) = {} <=> e = l
      <4>1. o \in IF l = Parity(r) THEN Offsets ELSE Segment(r, l)
        BY <2>1
      <4> QED  BY <4>1 DEF Extent
    <3>3. \A e \in Disks : io[r][e] \in {"none", "ok"}
      BY <1>1 DEF TypeOK, IoState, Busy, Bad
    <3> QED  BY <3>1, <3>2, <3>3 DEF Arrived
  <2>4. Xor(Before(Stripe(r), o), Disks \ {l}) = Before(Stripe(r), o)[l]
    BY <1>2, BeforeFacts
  <2> QED  BY <1>5, <1>6, <1>8, <2>2, <2>3, <2>4
<1> QED  BY <1>7, <1>8

LEMMA RowResume ==
  ASSUME RowInv, QueueInv', NEW r \in Reqs, Resume(r)
  PROVE  RowInv'
<1>1. QueueInv /\ TypeOK  BY DEF RowInv, QueueInv
<1>2. ResumeFrame(r) /\ \/ ReadStep(r) \/ RecoverStep(r) \/ GiveUpStep(r)
                        \/ OldStep(r) \/ NewStep(r) \/ EndStep(r)
  BY <1>1, ResumeCases DEF TypeOK
<1>3. UNCHANGED <<req, disk, dead>>  BY <1>2 DEF ResumeFrame
<1>4. Release(r) => \A q \in Reqs \ {r} : got'[q] = got[q]
  BY <1>1 DEF Release, TypeOK
<1>5. CASE ReadStep(r)
  <2>1. /\ phase[r] = "read" /\ phase[r] \in Reading /\ Busy(r) = {}
        /\ UNCHANGED <<store, torn>>
    BY <1>5 DEF ReadStep, Reading
  <2>2. CASE Rebuilds(r, "readrec")  BY <1>3, <2>1, <2>2, RowRebuild
  <2>3. CASE \E st : Reply(r, st) /\ (UNCHANGED got \/ Release(r))
    BY <1>3, <1>4, <2>1, <2>3, RowEndRead
  <2> QED  BY <1>5, <2>2, <2>3 DEF ReadStep, Ends
<1>6. CASE RecoverStep(r)
  <2>1. /\ phase[r] \in Reading /\ UNCHANGED <<store, torn>>
        /\ Reply(r, "Success")
    BY <1>6 DEF RecoverStep, Reading, Ends
  <2>2. \A q \in Reqs \ {r} : got'[q] = got[q]
    BY <1>1, <1>6 DEF RecoverStep, TypeOK
  <2> QED  BY <1>3, <2>1, <2>2, RowEndRead
<1>7. CASE GiveUpStep(r)
  <2>1. /\ phase[r] \in Reading /\ UNCHANGED <<store, torn>>
        /\ Reply(r, "Failure") /\ Release(r)
    BY <1>7 DEF GiveUpStep, Reading, Ends
  <2> QED  BY <1>3, <1>4, <2>1, RowEndRead
<1>8. CASE OldStep(r)
  <2>1. /\ phase[r] = "old" /\ phase[r] \in Reading /\ Busy(r) = {}
        /\ phase[r] \notin Writing /\ UNCHANGED torn
    BY <1>8 DEF OldStep, Reading, Writing
  <2>2. CASE Bad(r) = {} /\ WriteNew(r, got[r]) /\ UNCHANGED store
    <3>1. Sound(Stripe(r)) =>
            \A o \in Offsets : \A d \in Touched(r, o) \cup {Parity(r)} :
              got[r][d][o] = Before(Stripe(r), o)[d]
      BY <2>1, <2>2, OldReads
    <3> QED  BY <1>3, <2>1, <2>2, <3>1, RowWriteNew
  <2>3. CASE Rebuilds(r, "oldrec") /\ UNCHANGED store
    BY <1>3, <2>1, <2>3, RowRebuild
  <2>4. CASE Ends(r, "Failure") /\ Release(r) /\ Settle(r, "Failure")
    <3>1. \A b \in Blocks : ~Landed(r, b)  BY <2>1 DEF Landed
    <3>2. store' = [b \in Blocks |-> store[b]]
      BY <2>4, <3>1 DEF Settle
    <3>3. UNCHANGED store  BY <1>1, <3>2 DEF TypeOK
    <3>4. Reply(r, "Failure")  BY <2>4 DEF Ends
    <3> QED  BY <1>3, <1>4, <2>1, <2>4, <3>3, <3>4, RowEndRead
  <2> QED  BY <1>8, <2>2, <2>3, <2>4 DEF OldStep
<1>9. CASE NewStep(r)
  <2> DEFINE old == [got[r] EXCEPT ![lost[r]] = acc[r]]
  <2>1. /\ phase[r] = "oldrec" /\ Busy(r) = {} /\ Bad(r) = {}
        /\ WriteNew(r, old) /\ UNCHANGED <<store, torn>>
    BY <1>9 DEF NewStep
  <2>2. Sound(Stripe(r)) =>
          \A o \in Offsets : \A d \in Touched(r, o) \cup {Parity(r)} :
            old[d][o] = Before(Stripe(r), o)[d]
    BY <2>1, RebuiltReads
  <2> HIDE DEF old
  <2> QED  BY <1>3, <2>1, <2>2, RowWriteNew
<1>10. CASE EndStep(r)  BY <1>3, <1>10, RowEnd
<1> QED  BY <1>2, <1>5, <1>6, <1>7, <1>8, <1>9, <1>10


\* A crash: the disks keep what they hold, and a write that only some of the
\* working disks have done leaves its stripe torn.
LEMMA RowCrash ==
  ASSUME RowInv, QueueInv', Crash
  PROVE  RowInv'
<1>1. QueueInv /\ TypeOK  BY DEF RowInv, QueueInv
<1>2. /\ torn' = torn \cup HalfWritten
      /\ UNCHANGED <<req, disk, dead>>
      /\ acc' = [r \in Reqs |-> Zeroed]
      /\ phase' = [r \in Reqs |-> IF phase[r] \in {"unsent", "done"}
                                    THEN phase[r] ELSE "gone"]
      /\ store' = [b \in Blocks |->
           IF \E r \in Reqs : Landed(r, b)
             THEN Data(CHOOSE r \in Reqs : Landed(r, b), b) ELSE store[b]]
  BY DEF Crash
<1>3. ASSUME NEW r \in Reqs PROVE RequestInv(r)'
  <2>1. /\ phase'[r] \in {"unsent", "done", "gone"}
        /\ acc'[r] = Zeroed
    BY <1>2
  <2>2. phase'[r] \notin Active  BY <2>1 DEF Active, Reading, Writing
  <2>3. /\ phase'[r] \notin Reading /\ phase'[r] \notin Writing
        /\ phase'[r] \notin {"readrec", "oldrec"}
    BY <2>1 DEF Reading, Writing
  <2>4. LowerInv(r)'  BY <2>1, <2>2, <2>3, <1>2 DEF LowerInv, Zeroed
  <2>5. GotInv(r)' /\ RebuildInv(r)' /\ WriteInv(r)'
    BY <2>3 DEF GotInv, RebuildInv, WriteInv
  <2> QED  BY <2>4, <2>5 DEF RequestInv
<1>4. ASSUME NEW s \in Stripes PROVE IdleInv(s)'
  <2>1. CASE Unwritten(s)
    <3>1. ASSUME NEW b \in Blocks, StripeIdx(b) = s,
                 NEW r \in Reqs, Landed(r, b)
          PROVE  FALSE
      <4>1. phase[r] \in Active /\ phase[r] \in Writing
        BY <3>1 DEF Landed, Active
      <4>2. Stripe(r) = s
        BY <1>1, <3>1, <4>1, ActiveFacts, InsideStripe DEF Landed
      <4> QED  BY <1>1, <2>1, <4>1, <4>2, ActiveFacts
    <3>2. \A b \in Blocks : StripeIdx(b) = s => store'[b] = store[b]
      BY <1>2, <3>1
    <3>3. StripeFrame(s)  BY <1>2, <3>2 DEF StripeFrame, OnDisk
    <3>4. IdleInv(s)  BY DEF RowInv
    <3> QED  BY <2>1, <3>3, <3>4, IdleSame
  <2>2. CASE ~Unwritten(s)
    <3>1. PICK r \in Reqs :
            s = Stripe(r) /\ phase[r] \in Writing /\ phase[r] \in Active
      BY <2>2 DEF Unwritten, InService
    <3>2. ASSUME NEW b \in Blocks, StripeIdx(b) = s,
                 NEW q \in Reqs, Landed(q, b)
          PROVE  q = r
      <4>1. phase[q] \in Active  BY <3>2 DEF Landed, Active
      <4>2. Stripe(q) = s
        BY <1>1, <3>2, <4>1, ActiveFacts, InsideStripe DEF Landed
      <4> QED  BY <1>1, <3>1, <4>1, <4>2, ActiveFacts
    <3>3. ASSUME NEW b \in Blocks, StripeIdx(b) = s
          PROVE  store'[b] = IF Landed(r, b) THEN Data(r, b) ELSE store[b]
      <4>1. CASE Landed(r, b)
        <5>1. (CHOOSE q \in Reqs : Landed(q, b)) = r
          BY <3>2, <3>3, <4>1
        <5> QED  BY <1>2, <4>1, <5>1
      <4>2. CASE ~Landed(r, b)
        <5>1. ~\E q \in Reqs : Landed(q, b)  BY <3>2, <3>3, <4>2
        <5> QED  BY <1>2, <4>2, <5>1
      <4> QED  BY <4>1, <4>2
    <3>4. SettledOn(store', r, FALSE)
      BY <3>1, <3>3 DEF SettledOn
    <3>5. Sound(s)' => AllNew(r) \/ AllOld(r)
      <4> SUFFICES ASSUME Sound(s)' PROVE AllNew(r) \/ AllOld(r)
        OBVIOUS
      <4>1. Sound(s) /\ s \notin HalfWritten /\ s \notin torn
        BY <1>2 DEF Sound
      <4>2. \A d \in Disks \ dead : io[r][d] \in {"none", "ok", "busy"}
        <5>1. WriteInv(r)  BY DEF RowInv, RequestInv
        <5>2. \A d \in Disks \ dead : io[r][d] # "bad"
          BY <3>1, <4>1, <5>1 DEF WriteInv, MissedInv
        <5> QED  BY <1>1, <5>2 DEF TypeOK, IoState
      <4>3. ~\E d, e \in Disks \ dead : io[r][d] = "ok" /\ io[r][e] = "busy"
        BY <3>1, <4>1 DEF HalfWritten
      <4> QED  BY <3>1, <4>1, <4>2, <4>3 DEF AllNew, AllOld
    <3> QED  BY <1>2, <3>1, <3>4, <3>5, SettledIdle
  <2> QED  BY <2>1, <2>2
<1> QED  BY <1>3, <1>4 DEF RowInv

LEMMA RowInit == Init => RowInv
<1> SUFFICES ASSUME Init PROVE RowInv  OBVIOUS
<1>1. QueueInv  BY QueueInit
<1>2. ASSUME NEW r \in Reqs PROVE RequestInv(r)
  <2>1. phase[r] = "unsent" /\ acc[r] = Zeroed  BY DEF Init
  <2> QED  BY <2>1 DEF RequestInv, LowerInv, GotInv, RebuildInv, WriteInv,
                       Active, Reading, Writing
<1>3. ASSUME NEW s \in Stripes, NEW d \in Disks, NEW o \in Offsets,
             Trusted(s, d)
      PROVE  OnDisk(d, s, o) = Before(s, o)[d]
  <2> DEFINE p == ParityDisk(s)
             f == [e \in Disks \ {p} |-> FirstData(s, e, o)]
             h == [e \in Disks \ {p} |-> store[BlockAt(s, e, o)]]
  <2>1. /\ Row(s, o) \in Rows /\ Row(s, o) \div StripBlocks = s
        /\ Row(s, o) % StripBlocks = o
    BY RowPlace
  <2>2. disk[d] = FirstDisk(d, torn)  BY DEF Init
  <2>3. f = h
    <3>1. \A e \in Disks \ {p} :
            store[BlockAt(s, e, o)] = Initial(BlockAt(s, e, o))
      BY PlaceBlock DEF Init
    <3> QED  BY <3>1 DEF FirstData
  <2>4. Before(s, o) = WithParity(h, p)  BY DEF Before
  <2>5. CASE d # p
    <3>1. OnDisk(d, s, o) = FirstData(s, d, o)
      BY <2>1, <2>2, <2>5 DEF OnDisk, FirstDisk
    <3>2. Before(s, o)[d] = h[d] /\ f[d] = FirstData(s, d, o)
      BY <2>4, <2>5 DEF WithParity
    <3> QED  BY <2>3, <3>1, <3>2
  <2>6. CASE d = p
    <3>1. s \notin torn  BY <1>3, <2>6 DEF Trusted, Sound
    <3>2. OnDisk(d, s, o) = Xor(f, Disks \ {p})
      BY <2>1, <2>2, <2>6, <3>1 DEF OnDisk, FirstDisk
    <3>3. Before(s, o)[d] = Xor(h, Disks \ {p})
      BY <2>4, <2>6 DEF WithParity
    <3> QED  BY <2>3, <3>2, <3>3
  <2> QED  BY <2>5, <2>6
<1> QED  BY <1>1, <1>2, <1>3 DEF RowInv, IdleInv

LEMMA RowNext ==
  ASSUME LateDma = FALSE
  PROVE  RowInv /\ [Next]_vars => RowInv'
<1> SUFFICES ASSUME RowInv, [Next]_vars PROVE RowInv'  OBVIOUS
<1>1. QueueInv /\ QueueInv'  BY QueueNext DEF RowInv
<1>2. CASE UNCHANGED vars
  BY <1>1, <1>2, RowSame DEF vars, queueVars, reqVars, diskVars
<1>3. ASSUME NEW r \in Reqs, Submit(r) PROVE RowInv'
  BY <1>1, <1>3, RowSubmit
<1>4. ASSUME NEW r \in Reqs, Resume(r) PROVE RowInv'
  BY <1>1, <1>4, RowResume
<1>5. ASSUME NEW w \in Workers, Work(w) PROVE RowInv'
  <2>1. CASE RunInit(w)
    BY <1>1, <2>1, RowSame DEF RunInit, reqVars, diskVars
  <2>2. CASE RunSubmit(w)  BY <1>1, <2>2, RowRunSubmit
  <2>3. CASE DrainNext(w)  BY <1>1, <2>3, RowDrainNext
  <2>4. CASE DrainEnd(w)
    BY <1>1, <2>4, RowSame DEF DrainEnd, reqVars, diskVars
  <2> QED  BY <1>5, <2>1, <2>2, <2>3, <2>4 DEF Work
<1>6. ASSUME NEW d \in Disks, Die(d) PROVE RowInv'
  BY <1>1, <1>6, RowDie
<1>7. CASE Crash  BY <1>1, <1>7, RowCrash
<1>8. ASSUME NEW r \in Reqs, NEW d \in Disks, Complete(r, d) PROVE RowInv'
  BY <1>1, <1>8, RowComplete
<1> QED  BY <1>2, <1>3, <1>4, <1>5, <1>6, <1>7, <1>8 DEF Next

LEMMA RowRedundant == RowInv => Redundant
<1> SUFFICES ASSUME RowInv, NEW b \in Blocks,
                    NEW d \in Disks, NEW s \in Stripes, NEW o \in Offsets,
                    d = DiskOf(b), s = StripeIdx(b), o = OffsetIn(b),
                    InService(s) = {}
             PROVE  /\ d \notin dead => OnDisk(d, s, o) = store[b]
                    /\ dead \subseteq {d} /\ s \notin torn =>
                         Rebuilt(b) = store[b]
  BY BlockPlace DEF Redundant
<1>1. d # ParityDisk(s) /\ BlockAt(s, d, o) = b  BY BlockPlace
<1>2. \A e \in Disks : Trusted(s, e) => OnDisk(e, s, o) = Before(s, o)[e]
  BY DEF RowInv, IdleInv, Unwritten
<1>3. Before(s, o)[d] = store[b]
  <2>1. \A e \in Disks \ {ParityDisk(s)} :
          Before(s, o)[e] = store[BlockAt(s, e, o)]
    BY ONLY s \in Stripes, o \in Offsets, BeforeFacts
  <2> QED  BY <1>1, <2>1
<1>4. d \notin dead => Trusted(s, d)  BY <1>1 DEF Trusted
<1>5. ASSUME dead \subseteq {d}, s \notin torn PROVE Rebuilt(b) = store[b]
  <2>1. \A e \in Disks \ {d} : Trusted(s, e)
    BY <1>5 DEF Trusted, Sound
  <2>2. \A e \in Disks \ {d} : OnDisk(e, s, o) = Before(s, o)[e]
    BY <1>2, <2>1
  <2>3. Xor(Before(s, o), Disks \ {d}) = Before(s, o)[d]  BY BeforeFacts
  <2>4. Rebuilt(BlockAt(s, d, o)) = Before(s, o)[d]
    BY <1>1, <2>2, <2>3, RebuiltRow
  <2> QED  BY <1>1, <1>3, <2>4
<1> QED  BY <1>2, <1>3, <1>4, <1>5

(* No interleaving of requests, failed reads and writes, dead disks and    *)
(* crashes loses a block: while nobody serves a stripe each of its blocks  *)
(* is on its disk, and unless the stripe is torn it is the XOR of the      *)
(* other disks of its row. That needs lower bdevs that do not use a buffer *)
(* after submission: write_full_stripe drops its parity buffer before the  *)
(* writes are answered (raid5.rs:673-676).                                 *)
THEOREM StripesRedundant ==
  ASSUME LateDma = FALSE
  PROVE  Spec => []Redundant
<1>1. RowInv /\ [Next]_vars => RowInv'  BY RowNext
<1> QED  BY <1>1, RowInit, RowRedundant, PTL DEF Spec

-----------------------------------------------------------------------------
(* The messages of a queue that are requests of a stripe.                  *)

\* What Select does with element i of q, the elements before it done.
Step(q, S, f, i) ==
  IF i = 0 THEN <<>>
  ELSE IF q[i] \in S THEN Append(f[i - 1], q[i]) ELSE f[i - 1]

\* The function that Select builds.
SelectFcn(q, S) ==
  CHOOSE f : f = [i \in 0..Len(q) |-> Step(q, S, f, i)]

LEMMA SelectIs ==
  ASSUME NEW q, NEW S
  PROVE  Select(q, S) = SelectFcn(q, S)[Len(q)]
BY DEF Select, SelectFcn, Step

\* The recursion of Select has a solution. The library's theorem on recursive
\* functions takes an operator, so this is an induction over a set.
LEMMA SelectDefined ==
  ASSUME NEW q, NEW S, Len(q) \in Nat
  PROVE  /\ SelectFcn(q, S)[0] = <<>>
         /\ \A i \in 1..Len(q) :
              SelectFcn(q, S)[i] = IF q[i] \in S
                THEN Append(SelectFcn(q, S)[i - 1], q[i])
                ELSE SelectFcn(q, S)[i - 1]
<1> DEFINE D == {n \in Nat : \E f : f = [i \in 0..n |-> Step(q, S, f, i)]}
<1>1. 0 \in D
  <2> DEFINE f == [i \in {0} |-> <<>>]
  <2>1. f = [i \in 0..0 |-> Step(q, S, f, i)]
    BY DEF Step
  <2> QED  BY <2>1
<1>2. ASSUME NEW n \in Nat, n \in D PROVE n + 1 \in D
  <2>1. PICK f : f = [i \in 0..n |-> Step(q, S, f, i)]
    BY <1>2
  <2> DEFINE g == [i \in 0..(n + 1) |-> Step(q, S, f, i)]
  <2>2. \A i \in 0..n : g[i] = f[i]
    BY <2>1
  <2>3. ASSUME NEW i \in 0..(n + 1) PROVE Step(q, S, f, i) = Step(q, S, g, i)
    <3>1. i # 0 => i - 1 \in 0..n  OBVIOUS
    <3> HIDE DEF g
    <3> QED  BY <2>2, <3>1 DEF Step
  <2>4. g = [i \in 0..(n + 1) |-> Step(q, S, g, i)]
    BY <2>3
  <2> HIDE DEF g
  <2>5. \E h : h = [i \in 0..(n + 1) |-> Step(q, S, h, i)]
    BY <2>4
  <2> QED  BY <2>5
<1>3. Len(q) \in D
  <2> HIDE DEF D
  <2> QED  BY <1>1, <1>2, SetInduction
<1>4. \E f : f = [i \in 0..Len(q) |-> Step(q, S, f, i)]
  BY <1>3
<1> DEFINE f == SelectFcn(q, S)
<1>5. f = [i \in 0..Len(q) |-> Step(q, S, f, i)]
  BY <1>4 DEF SelectFcn
<1> HIDE DEF f
<1>6. \A i \in 0..Len(q) : f[i] = Step(q, S, f, i)
  BY <1>5
<1> QED  BY <1>6 DEF Step, f

\* The members of S that have been selected are a sequence of members of S.
LEMMA SelectFcnType ==
  ASSUME NEW T, NEW q \in Seq(T), NEW S
  PROVE  \A i \in 0..Len(q) : SelectFcn(q, S)[i] \in Seq(S)
<1> DEFINE f == SelectFcn(q, S)
           D == {i \in Nat : i <= Len(q) => f[i] \in Seq(S)}
<1>1. Len(q) \in Nat  OBVIOUS
<1>2. /\ f[0] = <<>>
      /\ \A i \in 1..Len(q) :
           f[i] = IF q[i] \in S THEN Append(f[i - 1], q[i]) ELSE f[i - 1]
  BY <1>1, SelectDefined
<1> HIDE DEF f
<1>3. 0 \in D
  <2>1. <<>> \in Seq(S)  OBVIOUS
  <2> QED  BY <1>2, <2>1
<1>4. ASSUME NEW n \in Nat, n \in D PROVE n + 1 \in D
  <2> SUFFICES ASSUME n + 1 <= Len(q) PROVE f[n + 1] \in Seq(S)
    OBVIOUS
  <2>1. n + 1 \in 1..Len(q) /\ n <= Len(q) /\ n + 1 - 1 = n  BY <1>1
  <2>2. f[n] \in Seq(S)  BY <1>4, <2>1
  <2>3. f[n + 1] = IF q[n + 1] \in S THEN Append(f[n], q[n + 1]) ELSE f[n]
    BY <1>2, <2>1
  <2> QED  BY <2>2, <2>3
<1>5. Nat \subseteq D
  <2> HIDE DEF D
  <2> QED  BY <1>3, <1>4, SetInduction
<1> QED  BY <1>1, <1>5 DEF f

\* Select returns a sequence of the selected.
LEMMA SelectType ==
  ASSUME NEW T, NEW q \in Seq(T), NEW S
  PROVE  Select(q, S) \in Seq(S)
<1>1. Len(q) \in 0..Len(q)  OBVIOUS
<1> QED  BY <1>1, SelectFcnType, SelectIs

\* Nothing is selected from nothing.
LEMMA SelectEmpty ==
  ASSUME NEW S
  PROVE  Select(<<>>, S) = <<>>
<1>1. Len(<<>>) = 0 /\ Len(<<>>) \in Nat  OBVIOUS
<1> QED  BY <1>1, SelectIs, SelectDefined

\* Only the members of the sequence matter.
LEMMA SelectSame ==
  ASSUME NEW T, NEW q \in Seq(T), NEW S, NEW R,
         \A i \in 1..Len(q) : q[i] \in S <=> q[i] \in R
  PROVE  Select(q, S) = Select(q, R)
<1> DEFINE f == SelectFcn(q, S)
           g == SelectFcn(q, R)
           D == {i \in Nat : i <= Len(q) => f[i] = g[i]}
<1>1. Len(q) \in Nat  OBVIOUS
<1>2. /\ f[0] = <<>>
      /\ \A i \in 1..Len(q) :
           f[i] = IF q[i] \in S THEN Append(f[i - 1], q[i]) ELSE f[i - 1]
  BY <1>1, SelectDefined
<1>3. /\ g[0] = <<>>
      /\ \A i \in 1..Len(q) :
           g[i] = IF q[i] \in R THEN Append(g[i - 1], q[i]) ELSE g[i - 1]
  BY <1>1, SelectDefined
<1> HIDE DEF f, g
<1>4. 0 \in D  BY <1>2, <1>3
<1>5. ASSUME NEW n \in Nat, n \in D PROVE n + 1 \in D
  <2> SUFFICES ASSUME n + 1 <= Len(q) PROVE f[n + 1] = g[n + 1]
    OBVIOUS
  <2>1. n + 1 \in 1..Len(q) /\ n <= Len(q) /\ n + 1 - 1 = n  BY <1>1
  <2>2. f[n] = g[n]  BY <1>5, <2>1
  <2> QED  BY <1>2, <1>3, <2>1, <2>2
<1>6. Nat \subseteq D
  <2> HIDE DEF D
  <2> QED  BY <1>4, <1>5, SetInduction
<1>7. f[Len(q)] = g[Len(q)]  BY <1>1, <1>6
<1> QED  BY <1>7, SelectIs DEF f, g

\* A message joins a queue at its end.
LEMMA SelectAppend ==
  ASSUME NEW T, NEW q \in Seq(T), NEW x \in T, NEW S
  PROVE  Select(Append(q, x), S)
           = IF x \in S THEN Append(Select(q, S), x) ELSE Select(q, S)
<1> DEFINE p == Append(q, x)
           f == SelectFcn(q, S)
           g == SelectFcn(p, S)
           D == {i \in Nat : i <= Len(q) => f[i] = g[i]}
<1>1. /\ Len(q) \in Nat /\ Len(p) = Len(q) + 1 /\ p[Len(q) + 1] = x
      /\ \A i \in 1..Len(q) : p[i] = q[i]
  OBVIOUS
<1>2. /\ f[0] = <<>>
      /\ \A i \in 1..Len(q) :
           f[i] = IF q[i] \in S THEN Append(f[i - 1], q[i]) ELSE f[i - 1]
  BY <1>1, SelectDefined
<1> HIDE DEF p
<1>3. /\ g[0] = <<>>
      /\ \A i \in 1..(Len(q) + 1) :
           g[i] = IF p[i] \in S THEN Append(g[i - 1], p[i]) ELSE g[i - 1]
  <2>1. Len(p) \in Nat  BY <1>1
  <2> QED  BY <1>1, <2>1, SelectDefined
<1> HIDE DEF f, g
<1>4. 0 \in D  BY <1>2, <1>3
<1>5. ASSUME NEW n \in Nat, n \in D PROVE n + 1 \in D
  <2> SUFFICES ASSUME n + 1 <= Len(q) PROVE f[n + 1] = g[n + 1]
    OBVIOUS
  <2>1. /\ n + 1 \in 1..Len(q) /\ n + 1 \in 1..(Len(q) + 1)
        /\ n <= Len(q) /\ n + 1 - 1 = n
    BY <1>1
  <2>2. f[n] = g[n] /\ p[n + 1] = q[n + 1]  BY <1>1, <1>5, <2>1
  <2> QED  BY <1>2, <1>3, <2>1, <2>2
<1>6. Nat \subseteq D
  <2> HIDE DEF D
  <2> QED  BY <1>4, <1>5, SetInduction
<1>7. f[Len(q)] = g[Len(q)]  BY <1>1, <1>6
<1>8. /\ Len(q) + 1 \in 1..(Len(q) + 1) /\ Len(q) + 1 - 1 = Len(q)
  BY <1>1
<1>9. g[Len(q) + 1] = IF x \in S THEN Append(f[Len(q)], x) ELSE f[Len(q)]
  BY <1>1, <1>3, <1>7, <1>8
<1>10. Select(p, S) = g[Len(q) + 1] /\ Select(q, S) = f[Len(q)]
  BY <1>1, SelectIs DEF f, g
<1> QED  BY <1>9, <1>10 DEF p

\* A message leaves a queue at its head.
LEMMA SelectTail ==
  ASSUME NEW T, NEW q \in Seq(T), q # <<>>, NEW S
  PROVE  Select(q, S) = IF Head(q) \in S
                          THEN <<Head(q)>> \o Select(Tail(q), S)
                          ELSE Select(Tail(q), S)
<1> DEFINE p == Tail(q)
           h == Head(q)
           f == SelectFcn(q, S)
           g == SelectFcn(p, S)
           with(s) == IF h \in S THEN <<h>> \o s ELSE s
           D == {i \in Nat : i <= Len(p) => f[i + 1] = with(g[i])}
<1>1. /\ Len(q) \in Nat /\ Len(p) \in Nat /\ Len(q) = Len(p) + 1
      /\ q[1] = h /\ p \in Seq(T)
      /\ \A i \in 1..Len(p) : p[i] = q[i + 1]
  OBVIOUS
<1>2. /\ f[0] = <<>>
      /\ \A i \in 1..Len(q) :
           f[i] = IF q[i] \in S THEN Append(f[i - 1], q[i]) ELSE f[i - 1]
  BY <1>1, SelectDefined
<1>3. Select(q, S) = f[Len(q)]  BY SelectIs
<1> HIDE DEF p, h
<1>4. /\ g[0] = <<>>
      /\ \A i \in 1..Len(p) :
           g[i] = IF p[i] \in S THEN Append(g[i - 1], p[i]) ELSE g[i - 1]
  BY <1>1, SelectDefined
<1>5. \A i \in 0..Len(p) : g[i] \in Seq(S)
  BY <1>1, SelectFcnType
<1>6. Select(p, S) = g[Len(p)]  BY SelectIs
<1> HIDE DEF f, g
<1>7. 0 \in D
  <2>1. f[1] = IF h \in S THEN Append(<<>>, h) ELSE <<>>
    <3>1. 1 \in 1..Len(q) /\ 1 - 1 = 0  BY <1>1
    <3> QED  BY <1>1, <1>2, <3>1
  <2>2. Append(<<>>, h) = <<h>> \o <<>>  OBVIOUS
  <2>3. f[0 + 1] = with(g[0])  BY <1>4, <2>1, <2>2
  <2> QED  BY <2>3
<1>8. ASSUME NEW n \in Nat, n \in D PROVE n + 1 \in D
  <2> SUFFICES ASSUME n + 1 <= Len(p) PROVE f[n + 1 + 1] = with(g[n + 1])
    OBVIOUS
  <2>1. /\ n + 1 \in 1..Len(p) /\ n \in 0..Len(p) /\ n <= Len(p)
        /\ n + 1 + 1 \in 1..Len(q) /\ n + 1 - 1 = n /\ n + 1 + 1 - 1 = n + 1
    BY <1>1
  <2>2. f[n + 1] = with(g[n])  BY <1>8, <2>1
  <2> DEFINE x == q[n + 1 + 1]
  <2>3. f[n + 1 + 1] = IF x \in S THEN Append(with(g[n]), x) ELSE with(g[n])
    BY <1>2, <2>1, <2>2
  <2>4. g[n + 1] = IF x \in S THEN Append(g[n], x) ELSE g[n]
    BY <1>1, <1>4, <2>1
  <2> HIDE DEF x
  <2>5. g[n] \in Seq(S)  BY <1>5, <2>1
  <2>6. h \in S /\ x \in S =>
          Append(<<h>> \o g[n], x) = <<h>> \o Append(g[n], x)
    BY <2>5, PushAppend
  <2> QED  BY <2>3, <2>4, <2>6
<1>9. Nat \subseteq D
  <2> HIDE DEF D
  <2> QED  BY <1>7, <1>8, SetInduction
<1>10. f[Len(p) + 1] = with(g[Len(p)])  BY <1>1, <1>9
<1> QED  BY <1>1, <1>3, <1>6, <1>10 DEF p, h

-----------------------------------------------------------------------------
(* What the promise needs beyond the redundancy of the stripes: the notes  *)
(* of a request, the faults that its failed I/O is to blame on, and the    *)
(* row that a read rebuilds from while its stripe is not torn.             *)

\* What is noted of a request fits the stage that it is in: no disk is
\* lost before the first failed I/O, and a request that writes a full stripe
\* reads nothing.
NoteInv(r) ==
  /\ phase[r] = "unsent" => req[r] = NoShape
  /\ status[r] # "none" => phase[r] = "done"
  /\ phase[r] \in {"read", "old"} => lost[r] = NoDisk
  /\ phase[r] \in {"old", "oldrec", "new"} => ~FullStripe(r)

\* The disks that the request could not read.
Missed(r) == Bad(r) \cup ({lost[r]} \cap Disks)

\* A failed I/O has a cause: each disk that a request could not read is dead
\* or stands for a counted error, and likewise for a write.
BlameInv(r) ==
  /\ phase[r] \in Reading => Cardinality(Missed(r) \ dead) <= readErrors
  /\ phase[r] \in Writing /\ Bad(r) # {} => dead # {} \/ writeErrors >= 1

\* A read that rebuilds a block of a stripe that is not torn: while every dead
\* disk but the lost one has answered, the disks hold the row, and what has
\* arrived is the XOR of its blocks.
FreshInv(r) ==
  /\ phase[r] = "readrec" /\ Stripe(r) \notin torn
  /\ \A d \in dead \ {lost[r]} : io[r][d] = "ok"
  => \A o \in Offsets :
       /\ \A d \in Disks \ dead :
            OnDisk(d, Stripe(r), o) = Before(Stripe(r), o)[d]
       /\ o \in Segment(r, lost[r]) =>
            acc[r][o] = Xor(Before(Stripe(r), o), Arrived(r))

\* What the answer to a request stands on.
PromiseInv(r) == NoteInv(r) /\ BlameInv(r) /\ FreshInv(r)

\* The inductive invariant under the refinement.
StoreInv == RowInv /\ \A r \in Reqs : PromiseInv(r)

\* No step takes a fault back.
FaultsGrow ==
  /\ dead \subseteq dead' /\ dead' \subseteq Disks
  /\ readErrors <= readErrors' /\ writeErrors <= writeErrors'

\* A request that is not under way has nothing to answer for.
LEMMA QuietPromise ==
  ASSUME NEW r, phase'[r] \notin Active,
         phase'[r] = "unsent" => req'[r] = NoShape,
         status'[r] # "none" => phase'[r] = "done"
  PROVE  PromiseInv(r)'
BY DEF PromiseInv, NoteInv, BlameInv, FreshInv, Active, Reading, Writing

\* The disks that a request missed can be counted.
LEMMA MissedFinite ==
  ASSUME NEW r
  PROVE  /\ Missed(r) \subseteq Disks /\ IsFiniteSet(Missed(r))
         /\ \A S : IsFiniteSet(Missed(r) \ S)
                     /\ Cardinality(Missed(r) \ S) \in Nat
<1>1. Missed(r) \subseteq Disks  BY DEF Missed, Bad
<1>2. \A S : IsFiniteSet(Missed(r) \ S)
  BY <1>1, DisksFinite, FS_Subset
<1> QED  BY <1>1, <1>2, DisksFinite, FS_Subset, FS_CardinalityType

\* A step that is not about the request keeps what is said of it.
LEMMA SamePromise ==
  ASSUME TypeOK, TypeOK', NEW r \in Reqs, PromiseInv(r), RequestFrame(r),
         status'[r] = status[r], FaultsGrow,
         phase[r] \in Active =>
           req[r] \in Shapes /\ Stripe(r) \in Stripes
             /\ StripeFrame(Stripe(r))
  PROVE  PromiseInv(r)'
<1>1. /\ req'[r] = req[r] /\ phase'[r] = phase[r] /\ io'[r] = io[r]
      /\ lost'[r] = lost[r] /\ acc'[r] = acc[r]
  BY DEF RequestFrame
<1>2. FullStripe(r)' = FullStripe(r) /\ Stripe(r)' = Stripe(r)
  BY <1>1, SameShape
<1>3. NoteInv(r)'  BY <1>1, <1>2 DEF PromiseInv, NoteInv
<1>4. Missed(r)' = Missed(r) /\ Bad(r)' = Bad(r)
  BY <1>1 DEF Missed, Bad
<1>5. Cardinality(Missed(r) \ dead') <= Cardinality(Missed(r) \ dead)
  <2>1. Missed(r) \ dead' \subseteq Missed(r) \ dead  BY DEF FaultsGrow
  <2> QED  BY <2>1, MissedFinite, FS_Subset
<1>6. BlameInv(r)'
  <2>1. phase[r] \in Reading =>
          Cardinality(Missed(r) \ dead') <= readErrors'
    <3>1. /\ Cardinality(Missed(r) \ dead') \in Nat
          /\ Cardinality(Missed(r) \ dead) \in Nat
      BY MissedFinite
    <3>2. readErrors \in Nat /\ readErrors' \in Nat
      BY Raid5Assumption DEF TypeOK
    <3> QED  BY <3>1, <3>2, <1>5 DEF PromiseInv, BlameInv, FaultsGrow
  <2>2. phase[r] \in Writing /\ Bad(r) # {} => dead' # {} \/ writeErrors' >= 1
    <3>1. writeErrors \in Nat /\ writeErrors' \in Nat
      BY Raid5Assumption DEF TypeOK
    <3> QED  BY <3>1 DEF PromiseInv, BlameInv, FaultsGrow
  <2> QED  BY <1>1, <1>4, <2>1, <2>2 DEF BlameInv
<1>7. FreshInv(r)'
  <2> SUFFICES ASSUME phase[r] = "readrec"  PROVE FreshInv(r)'
    BY <1>1 DEF FreshInv
  <2>1. PICK s \in Stripes :
          s = Stripe(r) /\ s = Stripe(r)' /\ StripeFrame(s)
    BY <1>2 DEF Active, Reading
  <2> SUFFICES ASSUME s \notin torn',
                      \A d \in dead' \ {lost[r]} : io[r][d] = "ok"
               PROVE  \A o \in Offsets :
                        /\ \A d \in Disks \ dead' :
                             OnDisk(d, s, o)' = Before(s, o)'[d]
                        /\ o \in Segment(r, lost[r]) =>
                             acc[r][o] = Xor(Before(s, o)', Arrived(r))
    <3>1. Arrived(r)' = Arrived(r)  BY <1>1 DEF Arrived
    <3>2. Segment(r, lost[r])' = Segment(r, lost[r])
      BY <1>1 DEF Segment, ReqBlocks
    <3> QED  BY <1>1, <2>1, <3>1, <3>2 DEF FreshInv
  <2>2. s \notin torn /\ \A d \in dead \ {lost[r]} : io[r][d] = "ok"
    BY <2>1 DEF StripeFrame
  <2>3. \A o \in Offsets : Before(s, o)' = Before(s, o)
    BY <2>1, BeforeFrame DEF StripeFrame
  <2>4. \A d \in Disks, o \in Offsets : OnDisk(d, s, o)' = OnDisk(d, s, o)
    BY <2>1 DEF StripeFrame
  <2>5. \A o \in Offsets :
          /\ \A d \in Disks \ dead : OnDisk(d, s, o) = Before(s, o)[d]
          /\ o \in Segment(r, lost[r]) =>
               acc[r][o] = Xor(Before(s, o), Arrived(r))
    BY <2>1, <2>2 DEF PromiseInv, FreshInv
  <2>6. dead \subseteq dead'  BY DEF FaultsGrow
  <2> QED  BY <2>1, <2>3, <2>4, <2>5, <2>6
<1> QED  BY <1>3, <1>6, <1>7 DEF PromiseInv

\* A step of one request, or of none under way.
LEMMA OthersPromise ==
  ASSUME StoreInv, TypeOK', FaultsGrow, NEW r \in Reqs,
         \A q \in Reqs \ {r} : RequestFrame(q) /\ status'[q] = status[q],
         \A t \in Stripes :
           StripeFrame(t) \/ (phase[r] \in Active /\ t = Stripe(r)),
         PromiseInv(r)'
  PROVE  \A q \in Reqs : PromiseInv(q)'
<1> SUFFICES ASSUME NEW q \in Reqs \ {r} PROVE PromiseInv(q)'
  OBVIOUS
<1>1. QueueInv /\ TypeOK /\ PromiseInv(q)
  BY DEF StoreInv, RowInv, QueueInv
<1>2. ASSUME phase[q] \in Active
      PROVE  /\ req[q] \in Shapes /\ Stripe(q) \in Stripes
             /\ StripeFrame(Stripe(q))
  <2>1. req[q] \in Shapes /\ Stripe(q) \in Stripes
    BY <1>1, <1>2, ActiveFacts
  <2>2. phase[r] \in Active => Stripe(q) # Stripe(r)
    BY <1>1, <1>2, ActiveFacts
  <2> QED  BY <2>1, <2>2
<1> QED  BY <1>1, <1>2, SamePromise

\* A step that changes no request and no stripe under a request.
LEMMA AllPromise ==
  ASSUME StoreInv, TypeOK', FaultsGrow,
         UNCHANGED <<req, phase, io, lost, got, acc, status>>,
         \A t \in Stripes : StripeFrame(t)
  PROVE  \A q \in Reqs : PromiseInv(q)'
<1> SUFFICES ASSUME NEW q \in Reqs PROVE PromiseInv(q)'
  OBVIOUS
<1>1. QueueInv /\ TypeOK /\ PromiseInv(q)
  BY DEF StoreInv, RowInv, QueueInv
<1>2. phase[q] \in Active => req[q] \in Shapes /\ Stripe(q) \in Stripes
  BY <1>1, ActiveFacts
<1> QED  BY <1>1, <1>2, SamePromise DEF RequestFrame

\* A step without a fault.
LEMMA SameFaults ==
  ASSUME TypeOK, UNCHANGED <<dead, readErrors, writeErrors>>
  PROVE  FaultsGrow
<1>1. readErrors \in Int /\ writeErrors \in Int  BY DEF TypeOK
<1> QED  BY <1>1 DEF TypeOK, FaultsGrow

\* PromiseInv holds initially, and each step keeps it.
LEMMA PromiseInit == Init => \A r \in Reqs : PromiseInv(r)
BY DEF Init, PromiseInv, NoteInv, BlameInv, FreshInv, Reading, Writing

LEMMA PromiseSubmit ==
  ASSUME StoreInv, TypeOK', NEW r \in Reqs, Submit(r)
  PROVE  \A q \in Reqs : PromiseInv(q)'
<1>1. TypeOK /\ PromiseInv(r)  BY DEF StoreInv, RowInv, QueueInv
<1>2. /\ phase[r] = "unsent" /\ phase' = [phase EXCEPT ![r] = "sent"]
      /\ UNCHANGED <<io, lost, got, acc, status, disk, dead, readErrors,
                     writeErrors, torn, store>>
      /\ \E x \in Shapes : req' = [req EXCEPT ![r] = x]
  BY DEF Submit, diskVars
<1>3. phase'[r] = "sent" /\ status'[r] = "none"
  BY <1>1, <1>2 DEF TypeOK, PromiseInv, NoteInv
<1>4. PromiseInv(r)'
  BY <1>3, QuietPromise DEF Active, Reading, Writing
<1>5. \A q \in Reqs \ {r} : RequestFrame(q) /\ status'[q] = status[q]
  BY <1>1, <1>2 DEF TypeOK, RequestFrame
<1>6. \A t \in Stripes : StripeFrame(t)  BY <1>2, StillFrame
<1>7. FaultsGrow  BY <1>1, <1>2, SameFaults
<1> QED  BY <1>4, <1>5, <1>6, <1>7, OthersPromise

LEMMA PromiseSame ==
  ASSUME StoreInv, TypeOK', UNCHANGED <<reqVars, diskVars, store>>
  PROVE  \A q \in Reqs : PromiseInv(q)'
<1>1. TypeOK  BY DEF StoreInv, RowInv, QueueInv
<1>2. FaultsGrow  BY <1>1, SameFaults DEF diskVars
<1>3. \A t \in Stripes : StripeFrame(t)  BY StillFrame DEF diskVars
<1> QED  BY <1>2, <1>3, AllPromise DEF reqVars

LEMMA PromiseRunSubmit ==
  ASSUME StoreInv, TypeOK', NEW w \in Workers, RunSubmit(w)
  PROVE  \A q \in Reqs : PromiseInv(q)'
<1>1. TypeOK /\ ShapeInv /\ InboxInv
  BY DEF StoreInv, RowInv, QueueInv
<1>2. PICK r \in Reqs : r = Head(inbox[w]) /\ phase[r] = "sent"
  BY <1>1, InboxHead DEF RunSubmit
<1>3. /\ phase' = [phase EXCEPT ![r] = "queued"]
      /\ UNCHANGED <<req, io, lost, got, acc, status, disk, dead, readErrors,
                     writeErrors, torn, store>>
  BY <1>2 DEF RunSubmit, diskVars
<1>4. phase'[r] = "queued" /\ status'[r] = "none"
  <2>1. PromiseInv(r)  BY <1>2 DEF StoreInv
  <2> QED  BY <1>1, <1>2, <1>3, <2>1 DEF TypeOK, PromiseInv, NoteInv
<1>5. PromiseInv(r)'
  BY <1>4, QuietPromise DEF Active, Reading, Writing
<1>6. \A q \in Reqs \ {r} : RequestFrame(q) /\ status'[q] = status[q]
  BY <1>1, <1>2, <1>3 DEF TypeOK, RequestFrame
<1>7. \A t \in Stripes : StripeFrame(t)  BY <1>3, StillFrame
<1>8. FaultsGrow  BY <1>1, <1>3, SameFaults
<1> QED  BY <1>2, <1>5, <1>6, <1>7, <1>8, OthersPromise

LEMMA PromiseDie ==
  ASSUME StoreInv, TypeOK', NEW d \in Disks, Die(d)
  PROVE  \A q \in Reqs : PromiseInv(q)'
<1>1. TypeOK  BY DEF StoreInv, RowInv, QueueInv
<1>2. /\ dead' = dead \cup {d}
      /\ UNCHANGED <<req, phase, io, lost, got, acc, status>>
      /\ UNCHANGED <<disk, readErrors, writeErrors, torn, store>>
  BY DEF Die, reqVars
<1>3. FaultsGrow
  <2>1. readErrors \in Int /\ writeErrors \in Int  BY <1>1 DEF TypeOK
  <2> QED  BY <1>1, <1>2, <2>1 DEF TypeOK, FaultsGrow
<1>4. \A t \in Stripes : StripeFrame(t)
  BY <1>2 DEF StripeFrame, OnDisk
<1> QED  BY <1>2, <1>3, <1>4, AllPromise

LEMMA PromiseCrash ==
  ASSUME StoreInv, TypeOK', Crash
  PROVE  \A q \in Reqs : PromiseInv(q)'
<1> SUFFICES ASSUME NEW q \in Reqs PROVE PromiseInv(q)'
  OBVIOUS
<1>1. NoteInv(q)  BY DEF StoreInv, PromiseInv
<1>2. /\ phase'[q] = IF phase[q] \in {"unsent", "done"}
                       THEN phase[q] ELSE "gone"
      /\ req' = req /\ status' = status
  BY DEF Crash
<1>3. phase'[q] \in {"unsent", "done", "gone"}  BY <1>2
<1>4. phase'[q] \notin Active  BY <1>3 DEF Active, Reading, Writing
<1> QED  BY <1>1, <1>2, <1>4, QuietPromise DEF NoteInv

\* The request that a worker takes out of a queue.
LEMMA NextRequest ==
  ASSUME StoreInv, NEW w \in Workers, DrainNext(w)
  PROVE  \E r \in Reqs, s \in Stripes :
           /\ s = turn[w] /\ r = Head(pending[s]) /\ pending[s] # <<>>
           /\ phase[r] = "queued" /\ status[r] = "none"
           /\ req[r] \in Shapes /\ Stripe(r) = s /\ OwnerOf(r) = w
           /\ pending' = [pending EXCEPT ![s] = Tail(@)]
           /\ UNCHANGED <<chan, inbox, draining, req, diskVars, orphan, store>>
           /\ \/ Crosses(r) /\ Ends(r, "Failure") /\ UNCHANGED got
              \/ ProcessStart(r)
<1> DEFINE s == turn[w]
           r == Head(pending[s])
<1>1. TypeOK /\ ShapeInv /\ PendingInv /\ TurnInv
  BY DEF StoreInv, RowInv, QueueInv
<1>2. /\ r \in Reqs /\ phase[r] = "queued" /\ req[r] \in Shapes
      /\ s \in Stripes /\ Stripe(r) = s /\ OwnerOf(r) = w
  BY <1>1, PendingHead DEF DrainNext
<1>3. /\ pending[s] # <<>> /\ pending' = [pending EXCEPT ![s] = Tail(@)]
      /\ Process(r)
      /\ UNCHANGED <<chan, inbox, draining, req, diskVars, orphan, store>>
  BY DEF DrainNext
<1> HIDE DEF r
<1>4. status[r] = "none"
  BY <1>2 DEF StoreInv, PromiseInv, NoteInv
<1> QED  BY <1>2, <1>3, <1>4, ProcessCases DEF r

LEMMA PromiseDrainNext ==
  ASSUME StoreInv, TypeOK', NEW w \in Workers, DrainNext(w)
  PROVE  \A q \in Reqs : PromiseInv(q)'
<1>1. TypeOK  BY DEF StoreInv, RowInv, QueueInv
<1>2. PICK r \in Reqs :
        /\ status[r] = "none"
        /\ UNCHANGED <<req, diskVars, store>>
        /\ \/ Ends(r, "Failure") /\ UNCHANGED got
           \/ ProcessStart(r)
  BY NextRequest
<1>3. \A t \in Stripes : StripeFrame(t)
  BY <1>2, StillFrame DEF diskVars
<1>4. FaultsGrow  BY <1>1, <1>2, SameFaults DEF diskVars
<1>5. CASE Ends(r, "Failure") /\ UNCHANGED got
  <2>1. Reply(r, "Failure")  BY <1>5 DEF Ends
  <2>2. phase'[r] = "done"  BY <1>1, <2>1, ReplyFacts
  <2>3. PromiseInv(r)'
    BY <2>2, QuietPromise DEF Active, Reading, Writing
  <2>4. \A q \in Reqs \ {r} : RequestFrame(q)
    BY <1>1, <1>2, <1>5, <2>1, ReplyFacts DEF RequestFrame
  <2>5. \A q \in Reqs \ {r} : status'[q] = status[q]
    BY <1>1, <2>1 DEF Reply, TypeOK
  <2> QED  BY <1>3, <1>4, <2>3, <2>4, <2>5, OthersPromise
<1>6. CASE ProcessStart(r)
  <2>1. PICK ph \in {"read", "old", "full"} :
          /\ Await(r, ph, NoDisk) /\ (ph = "old" => ~FullStripe(r))
          /\ UNCHANGED <<got, status>>
    BY <1>6 DEF ProcessStart
  <2>2. \A q \in Reqs \ {r} : acc'[q] = acc[q]
    BY <1>1, <1>6 DEF ProcessStart, ProcessFull, TypeOK
  <2>3. ph \in Active  BY DEF Active, Reading, Writing
  <2>4. /\ phase'[r] = ph /\ lost'[r] = NoDisk
        /\ \A d \in Disks : io'[r][d] \in {"none", "busy"}
        /\ \A q \in Reqs \ {r} : /\ phase'[q] = phase[q]
                                 /\ lost'[q] = lost[q] /\ io'[q] = io[q]
    BY <1>1, <1>2, <2>1, <2>3, AwaitFacts
  <2>5. \A q \in Reqs \ {r} : RequestFrame(q) /\ status'[q] = status[q]
    BY <1>2, <2>1, <2>2, <2>4 DEF RequestFrame
  <2>6. NoteInv(r)'
    BY <1>2, <2>1, <2>4, SameShape DEF NoteInv
  <2>7. BlameInv(r)'
    <3>1. Bad(r)' = {} /\ Missed(r)' = {}
      BY <2>4 DEF Missed, Bad, NoDisk, Disks
    <3>2. Cardinality({} \ dead') = 0  BY FS_EmptySet
    <3>3. readErrors' >= 0  BY Raid5Assumption DEF TypeOK
    <3> QED  BY <3>1, <3>2, <3>3 DEF BlameInv
  <2>8. FreshInv(r)'  BY <2>4 DEF FreshInv
  <2>9. PromiseInv(r)'  BY <2>6, <2>7, <2>8 DEF PromiseInv
  <2> QED  BY <1>3, <1>4, <2>5, <2>9, OthersPromise
<1> QED  BY <1>2, <1>5, <1>6

\* One more element counts for one at most.
LEMMA AddOne ==
  ASSUME NEW S, IsFiniteSet(S), NEW d
  PROVE  Cardinality(S \cup {d}) <= Cardinality(S) + 1
<1>1. Cardinality(S) \in Nat  BY FS_CardinalityType
<1> QED  BY <1>1, FS_AddElement

\* The answer of a lower bdev: a failure is blamed on a dead disk or counted.
LEMMA BlameComplete ==
  ASSUME StoreInv, TypeOK', NEW r \in Reqs, NEW d \in Disks, Complete(r, d),
         phase[r] \in Active
  PROVE  FaultsGrow /\ BlameInv(r)'
<1>1. TypeOK /\ BlameInv(r)
  BY DEF StoreInv, RowInv, QueueInv, PromiseInv
<1>2. /\ UNCHANGED <<phase, lost, dead>>
      /\ CompleteOk(r, d) \/ Fail(r, d)
  BY CompleteCases DEF CompleteFrame
<1>3. /\ readErrors \in Nat /\ writeErrors \in Nat
      /\ readErrors' \in Nat /\ writeErrors' \in Nat
      /\ dead \in SUBSET Disks
  <2>1. readErrors \in Nat /\ writeErrors \in Nat /\ dead \in SUBSET Disks
    BY <1>1, Raid5Assumption DEF TypeOK
  <2>2. readErrors' \in Nat /\ writeErrors' \in Nat
    BY Raid5Assumption DEF TypeOK
  <2> QED  BY <2>1, <2>2
<1>4. phase[r] \in Reading => phase[r] \notin Writing
  BY DEF Reading, Writing
<1>5. CASE CompleteOk(r, d)
  <2>1. /\ UNCHANGED <<readErrors, writeErrors>>
        /\ io' = [io EXCEPT ![r][d] = "ok"]
    BY <1>5 DEF CompleteOk
  <2>2. FaultsGrow  BY <1>2, <1>3, <2>1 DEF FaultsGrow
  <2>3. Bad(r)' \subseteq Bad(r)  BY <1>1, <2>1 DEF TypeOK, Bad
  <2>4. Missed(r)' \ dead \subseteq Missed(r) \ dead
    BY <1>2, <2>3 DEF Missed
  <2>5. Cardinality(Missed(r)' \ dead) <= Cardinality(Missed(r) \ dead)
    BY <2>4, MissedFinite, FS_Subset
  <2>6. /\ Cardinality(Missed(r) \ dead) \in Nat
        /\ Cardinality(Missed(r)' \ dead) \in Nat
    BY <2>4, MissedFinite, FS_Subset, FS_CardinalityType
  <2> QED
    BY <1>1, <1>2, <1>3, <2>1, <2>2, <2>3, <2>5, <2>6 DEF BlameInv
<1>6. CASE Fail(r, d)
  <2>1. io' = [io EXCEPT ![r][d] = "bad"]  BY <1>6 DEF Fail
  <2>2. Bad(r)' = Bad(r) \cup {d}  BY <1>1, <2>1 DEF TypeOK, Bad
  <2>3. Missed(r)' = Missed(r) \cup {d}  BY <1>2, <2>2 DEF Missed
  <2>4. /\ Cardinality(Missed(r) \ dead) \in Nat
        /\ IsFiniteSet(Missed(r) \ dead)
    BY MissedFinite
  <2>5. CASE d \in dead /\ UNCHANGED <<readErrors, writeErrors>>
    <3>1. FaultsGrow  BY <1>2, <1>3, <2>5 DEF FaultsGrow
    <3>2. Missed(r)' \ dead = Missed(r) \ dead  BY <2>3, <2>5
    <3> QED  BY <1>1, <1>2, <2>5, <3>1, <3>2 DEF BlameInv
  <2>6. CASE phase[r] \in Reading /\ readErrors' = readErrors + 1
               /\ UNCHANGED writeErrors
    <3>1. FaultsGrow  BY <1>2, <1>3, <2>6 DEF FaultsGrow
    <3>2. Missed(r)' \ dead \subseteq (Missed(r) \ dead) \cup {d}
      BY <2>3
    <3>3. Cardinality((Missed(r) \ dead) \cup {d})
            <= Cardinality(Missed(r) \ dead) + 1
      BY <2>4, AddOne
    <3>4. /\ IsFiniteSet((Missed(r) \ dead) \cup {d})
          /\ Cardinality((Missed(r) \ dead) \cup {d}) \in Nat
      BY <2>4, FS_AddElement, FS_CardinalityType
    <3>5. /\ Cardinality(Missed(r)' \ dead)
               <= Cardinality((Missed(r) \ dead) \cup {d})
          /\ Cardinality(Missed(r)' \ dead) \in Nat
      BY <3>2, <3>4, FS_Subset, FS_CardinalityType
    <3>6. Cardinality(Missed(r)' \ dead) <= readErrors'
      <4>1. Cardinality(Missed(r) \ dead) <= readErrors
        BY <1>1, <2>6 DEF BlameInv
      <4> QED  BY <1>3, <2>4, <2>6, <3>3, <3>4, <3>5, <4>1
    <3> QED  BY <1>2, <1>4, <2>6, <3>1, <3>6 DEF BlameInv
  <2>7. CASE phase[r] \in Writing /\ writeErrors' = writeErrors + 1
               /\ UNCHANGED readErrors
    <3>1. FaultsGrow  BY <1>2, <1>3, <2>7 DEF FaultsGrow
    <3>2. writeErrors' >= 1  BY <1>3, <2>7
    <3> QED  BY <1>2, <1>4, <2>7, <3>1, <3>2 DEF BlameInv
  <2> QED  BY <1>6, <2>5, <2>6, <2>7 DEF Fail
<1> QED  BY <1>2, <1>5, <1>6

\* A read that rebuilds takes in the block of a disk that holds the row.
LEMMA FreshComplete ==
  ASSUME StoreInv, TypeOK', NEW r \in Reqs, NEW d \in Disks, Complete(r, d)
  PROVE  FreshInv(r)'
<1>1. QueueInv /\ TypeOK /\ FreshInv(r) /\ LowerInv(r)
  BY DEF StoreInv, RowInv, QueueInv, PromiseInv, RequestInv
<1>2. /\ io[r][d] = "busy"
      /\ UNCHANGED <<req, phase, lost, dead, store>>
      /\ CompleteOk(r, d) \/ Fail(r, d)
  BY CompleteCases DEF CompleteFrame
<1> SUFFICES ASSUME phase[r] = "readrec" PROVE FreshInv(r)'
  BY <1>2 DEF FreshInv
<1>3. PICK s \in Stripes : s = Stripe(r) /\ s = Stripe(r)'
  BY <1>1, <1>2, ActiveFacts, SameShape DEF Active, Reading
<1>4. Segment(r, lost[r])' = Segment(r, lost[r])
  BY <1>2 DEF Segment, ReqBlocks
<1>5. \A o \in Offsets : Before(s, o)' = Before(s, o)
  BY <1>2, BeforeFrame
<1>6. UNCHANGED disk /\ (s \in torn => s \in torn')
  BY <1>2 DEF CompleteOk, Fail, ReadBlocks, AddBlocks, WriteBlocks, Writing
<1>7. \A e, o : OnDisk(e, s, o)' = OnDisk(e, s, o)
  BY <1>6 DEF OnDisk
<1>8. d # lost[r]
  <2>1. Extent(r, "readrec", lost[r], d) # {}
    BY <1>1, <1>2 DEF LowerInv, Active, Reading
  <2> QED  BY <2>1 DEF Extent
<1> SUFFICES ASSUME s \notin torn',
                    \A e \in dead \ {lost[r]} : io'[r][e] = "ok"
             PROVE  \A o \in Offsets :
                      /\ \A e \in Disks \ dead :
                           OnDisk(e, s, o) = Before(s, o)[e]
                      /\ o \in Segment(r, lost[r]) =>
                           acc'[r][o] = Xor(Before(s, o), Arrived(r)')
  BY <1>2, <1>3, <1>4, <1>5, <1>7 DEF FreshInv
<1>9. CASE CompleteOk(r, d)
  <2>1. /\ d \notin dead /\ io' = [io EXCEPT ![r][d] = "ok"]
        /\ AddBlocks(r, d)
    BY <1>9 DEF CompleteOk, ReadBlocks, WriteBlocks, Writing
  <2>2. Arrived(r)' = Arrived(r) \cup {d} /\ d \notin Arrived(r)
    BY <1>1, <1>2, <2>1 DEF TypeOK, Arrived
  <2>3. \A e \in dead \ {lost[r]} : io[r][e] = "ok"
    BY <1>1, <2>1 DEF TypeOK
  <2>4. \A o \in Offsets :
          /\ \A e \in Disks \ dead : OnDisk(e, s, o) = Before(s, o)[e]
          /\ o \in Segment(r, lost[r]) =>
               acc[r][o] = Xor(Before(s, o), Arrived(r))
    BY <1>1, <1>3, <1>6, <2>3 DEF FreshInv
  <2>5. ASSUME NEW o \in Offsets, o \in Segment(r, lost[r])
        PROVE  acc'[r][o] = Xor(Before(s, o), Arrived(r)')
    <3>1. o \in Extent(r, "readrec", lost[r], d)
      BY <1>8, <2>5 DEF Extent
    <3>2. acc'[r][o] = Xor(<<acc[r][o], OnDisk(d, s, o)>>, 1..2)
      BY <1>1, <1>3, <2>1, <3>1 DEF AddBlocks, TypeOK
    <3>3. OnDisk(d, s, o) = Before(s, o)[d]  BY <2>1, <2>4
    <3>4. IsFiniteSet(Arrived(r))
      BY DisksFinite, FS_Subset DEF Arrived
    <3>5. Xor(Before(s, o), Arrived(r) \cup {d})
            = Sym(Xor(Before(s, o), Arrived(r)), Before(s, o)[d])
      BY <2>2, <3>4, XorAdd
    <3> QED  BY <2>2, <2>4, <2>5, <3>2, <3>3, <3>5, XorPair
  <2> QED  BY <2>4, <2>5
<1>10. CASE Fail(r, d)
  <2>1. io' = [io EXCEPT ![r][d] = "bad"] /\ UNCHANGED acc
    BY <1>10 DEF Fail
  <2>2. d \notin dead
    BY <1>1, <1>8, <2>1 DEF TypeOK
  <2>3. Arrived(r)' = Arrived(r)
    BY <1>1, <1>2, <2>1 DEF TypeOK, Arrived
  <2>4. \A e \in dead \ {lost[r]} : io[r][e] = "ok"
    BY <1>1, <2>1, <2>2 DEF TypeOK
  <2> QED  BY <1>1, <1>3, <1>6, <2>1, <2>3, <2>4 DEF FreshInv
<1> QED  BY <1>2, <1>9, <1>10

LEMMA PromiseComplete ==
  ASSUME LateDma = FALSE, StoreInv, TypeOK',
         NEW r \in Reqs, NEW d \in Disks, Complete(r, d)
  PROVE  \A q \in Reqs : PromiseInv(q)'
<1>1. QueueInv /\ TypeOK /\ NoteInv(r)
  BY DEF StoreInv, RowInv, QueueInv, PromiseInv
<1>2. /\ UNCHANGED <<req, phase, lost, status, dead, store>>
      /\ CompleteOk(r, d) \/ Fail(r, d)
  BY CompleteCases DEF CompleteFrame
<1>3. io' \in {[io EXCEPT ![r][d] = "ok"], [io EXCEPT ![r][d] = "bad"]}
  BY <1>2 DEF CompleteOk, Fail
<1>4. \A q \in Reqs \ {r} : got'[q] = got[q] /\ acc'[q] = acc[q]
  <2>1. CASE CompleteOk(r, d)
    BY <1>1, <2>1 DEF CompleteOk, ReadBlocks, AddBlocks, WriteBlocks, TypeOK
  <2>2. CASE Fail(r, d)  BY <2>2 DEF Fail
  <2> QED  BY <1>2, <2>1, <2>2
<1>5. \A q \in Reqs \ {r} : RequestFrame(q) /\ status'[q] = status[q]
  BY <1>1, <1>2, <1>3, <1>4 DEF RequestFrame, TypeOK
<1>6. NoteInv(r)'
  BY <1>1, <1>2, SameShape DEF NoteInv
<1>7. CASE phase[r] \notin Active
  <2>1. PromiseInv(r)'
    BY <1>1, <1>2, <1>7, QuietPromise DEF NoteInv
  <2>2. UNCHANGED <<disk, torn, readErrors, writeErrors>>
    BY <1>2, <1>7 DEF CompleteOk, Fail, ReadBlocks, AddBlocks, WriteBlocks,
                      Active, Reading, Writing
  <2>3. \A t \in Stripes : StripeFrame(t)  BY <1>2, <2>2, StillFrame
  <2>4. FaultsGrow  BY <1>1, <1>2, <2>2, SameFaults
  <2> QED  BY <1>5, <2>1, <2>3, <2>4, OthersPromise
<1>8. CASE phase[r] \in Active
  <2>1. FaultsGrow /\ BlameInv(r)'  BY <1>8, BlameComplete
  <2>2. FreshInv(r)'  BY FreshComplete
  <2>3. PromiseInv(r)'  BY <1>6, <2>1, <2>2 DEF PromiseInv
  <2>4. req[r] \in Shapes  BY <1>1, <1>8, ActiveFacts
  <2>5. ASSUME NEW t \in Stripes, t # Stripe(r) PROVE StripeFrame(t)
    <3>1. t \in torn => t \in torn'
      BY <1>2 DEF CompleteOk, Fail
    <3>2. \A e \in Disks, o \in Offsets : OnDisk(e, t, o)' = OnDisk(e, t, o)
      <4>1. CASE WriteBlocks(r, d, FALSE)
        <5>1. \A e \in Disks, u \in Stripes, o \in Offsets :
                OnDisk(e, u, o)' =
                  IF e = d /\ u = Stripe(r)
                       /\ o \in Extent(r, phase[r], lost[r], d)
                    THEN Output(r, d, o) ELSE OnDisk(e, u, o)
          BY <1>1, <2>4, <4>1, WriteBlocksFacts
        <5> QED  BY <2>5, <5>1
      <4>2. CASE UNCHANGED disk  BY <4>2 DEF OnDisk
      <4> QED
        BY <1>2, <4>1, <4>2 DEF CompleteOk, Fail, ReadBlocks, AddBlocks
    <3> QED  BY <1>2, <3>1, <3>2 DEF StripeFrame
  <2> QED  BY <1>5, <1>8, <2>1, <2>3, <2>5, OthersPromise
<1> QED  BY <1>7, <1>8

\* The request is answered.
LEMMA PromiseReply ==
  ASSUME StoreInv, TypeOK', NEW r \in Reqs, phase[r] \in Active, NEW st,
         Reply(r, st), \A q \in Reqs \ {r} : got'[q] = got[q],
         UNCHANGED <<req, dead, readErrors, writeErrors>>,
         \A t \in Stripes : StripeFrame(t) \/ t = Stripe(r)
  PROVE  \A q \in Reqs : PromiseInv(q)'
<1>1. TypeOK  BY DEF StoreInv, RowInv, QueueInv
<1>2. phase'[r] = "done"  BY <1>1, ReplyFacts
<1>3. PromiseInv(r)'
  BY <1>2, QuietPromise DEF Active, Reading, Writing
<1>4. \A q \in Reqs \ {r} : RequestFrame(q)
  BY <1>1, ReplyFacts DEF RequestFrame
<1>5. \A q \in Reqs \ {r} : status'[q] = status[q]
  BY <1>1 DEF Reply, TypeOK
<1>6. FaultsGrow  BY <1>1, SameFaults
<1> QED  BY <1>3, <1>4, <1>5, <1>6, OthersPromise

\* One disk could not be read: the request starts to rebuild its blocks.
LEMMA PromiseRebuild ==
  ASSUME StoreInv, TypeOK', NEW r \in Reqs,
         NEW ph, \/ phase[r] = "read" /\ ph = "readrec"
                 \/ phase[r] = "old" /\ ph = "oldrec",
         Rebuilds(r, ph),
         UNCHANGED <<req, disk, dead, readErrors, writeErrors, torn, store>>
  PROVE  \A q \in Reqs : PromiseInv(q)'
<1>1. /\ QueueInv /\ TypeOK /\ PromiseInv(r) /\ RequestInv(r)
      /\ phase[r] \in Active /\ ph \in Active
  BY DEF StoreInv, RowInv, QueueInv, Active, Reading
<1>2. PICK l \in Disks : Bad(r) = {l} /\ Await(r, ph, l)
  BY DEF Rebuilds
<1>3. UNCHANGED <<got, acc, status>>  BY DEF Rebuilds
<1>4. /\ phase'[r] = ph /\ lost'[r] = l
      /\ \A d \in Disks : io'[r][d] \in {"none", "busy"}
      /\ \A q \in Reqs \ {r} : /\ phase'[q] = phase[q]
                               /\ lost'[q] = lost[q] /\ io'[q] = io[q]
  BY <1>1, <1>2, AwaitFacts
<1>5. \A q \in Reqs \ {r} : RequestFrame(q) /\ status'[q] = status[q]
  BY <1>3, <1>4 DEF RequestFrame
<1>6. FaultsGrow  BY <1>1, SameFaults
<1>7. \A t \in Stripes : StripeFrame(t)  BY StillFrame
<1>8. status[r] = "none"
  BY <1>1 DEF PromiseInv, NoteInv, Active, Reading, Writing
<1>9. NoteInv(r)'
  BY <1>1, <1>3, <1>4, <1>8, SameShape DEF PromiseInv, NoteInv
<1>10. BlameInv(r)'
  <2>1. Missed(r)' \subseteq Missed(r)
    BY <1>2, <1>4 DEF Missed, Bad
  <2>2. Missed(r)' \ dead \subseteq Missed(r) \ dead  BY <2>1
  <2>3. Cardinality(Missed(r)' \ dead) <= Cardinality(Missed(r) \ dead)
    BY <2>2, MissedFinite, FS_Subset
  <2>4. /\ Cardinality(Missed(r) \ dead) \in Nat
        /\ Cardinality(Missed(r)' \ dead) \in Nat
    BY <2>2, MissedFinite, FS_Subset, FS_CardinalityType
  <2>5. Cardinality(Missed(r) \ dead) <= readErrors
    BY <1>1 DEF PromiseInv, BlameInv, Reading
  <2>6. readErrors \in Nat  BY <1>1, Raid5Assumption DEF TypeOK
  <2>7. phase'[r] \notin Writing  BY <1>4 DEF Writing
  <2> QED  BY <2>3, <2>4, <2>5, <2>6, <2>7 DEF BlameInv
<1>11. FreshInv(r)'
  <2> SUFFICES ASSUME phase[r] = "read", ph = "readrec" PROVE FreshInv(r)'
    BY <1>4 DEF FreshInv
  <2>1. PICK s \in Stripes : s = Stripe(r) /\ s = Stripe(r)'
    BY <1>1, ActiveFacts, SameShape
  <2>2. \A o \in Offsets : Before(s, o)' = Before(s, o)
    BY BeforeFrame
  <2>3. \A e, o : OnDisk(e, s, o)' = OnDisk(e, s, o)
    BY DEF OnDisk
  <2>4. Arrived(r)' = {}  BY <1>4 DEF Arrived
  <2>5. \A o \in Offsets : acc'[r][o] = Xor(Before(s, o), {})
    BY <1>1, <1>3, XorEmpty DEF RequestInv, LowerInv, Zeroed
  <2> SUFFICES ASSUME s \notin torn,
                      \A e \in dead \ {l} : io'[r][e] = "ok"
               PROVE  \A o \in Offsets, e \in Disks \ dead :
                        OnDisk(e, s, o) = Before(s, o)[e]
    BY <1>4, <2>1, <2>2, <2>3, <2>4, <2>5 DEF FreshInv
  <2>6. dead \subseteq {l}
    BY <1>1, <1>4 DEF TypeOK
  <2>7. Sound(s) /\ Unwritten(s)
    BY <1>1, <2>1, <2>6, ActiveFacts DEF Sound, Writing
  <2> QED  BY <2>7 DEF StoreInv, RowInv, IdleInv, Trusted
<1>12. PromiseInv(r)'  BY <1>9, <1>10, <1>11 DEF PromiseInv
<1> QED  BY <1>5, <1>6, <1>7, <1>12, OthersPromise

\* A partial write has what it needs and starts to write.
LEMMA PromiseWriteNew ==
  ASSUME StoreInv, TypeOK', NEW r \in Reqs, phase[r] \in {"old", "oldrec"},
         NEW old, WriteNew(r, old),
         UNCHANGED <<req, disk, dead, readErrors, writeErrors, torn, store>>
  PROVE  \A q \in Reqs : PromiseInv(q)'
<1>1. QueueInv /\ TypeOK /\ PromiseInv(r)
  BY DEF StoreInv, RowInv, QueueInv
<1>2. /\ Await(r, "new", NoDisk) /\ Release(r) /\ UNCHANGED status
  BY DEF WriteNew
<1>3. "new" \in Active  BY DEF Active, Writing
<1>4. /\ phase'[r] = "new"
      /\ \A d \in Disks : io'[r][d] \in {"none", "busy"}
      /\ \A q \in Reqs \ {r} : /\ phase'[q] = phase[q]
                               /\ lost'[q] = lost[q] /\ io'[q] = io[q]
  BY <1>1, <1>2, <1>3, AwaitFacts
<1>5. \A q \in Reqs \ {r} : got'[q] = got[q] /\ acc'[q] = acc[q]
  BY <1>1, <1>2, WriteNewAcc DEF Release, TypeOK
<1>6. \A q \in Reqs \ {r} : RequestFrame(q) /\ status'[q] = status[q]
  BY <1>2, <1>4, <1>5 DEF RequestFrame
<1>7. FaultsGrow  BY <1>1, SameFaults
<1>8. \A t \in Stripes : StripeFrame(t)  BY StillFrame
<1>9. NoteInv(r)'
  BY <1>1, <1>2, <1>4, SameShape DEF PromiseInv, NoteInv
<1>10. BlameInv(r)' /\ FreshInv(r)'
  <2>1. Bad(r)' = {}  BY <1>4 DEF Bad
  <2> QED  BY <1>4, <2>1 DEF BlameInv, FreshInv, Reading
<1>11. PromiseInv(r)'  BY <1>9, <1>10 DEF PromiseInv
<1> QED  BY <1>6, <1>7, <1>8, <1>11, OthersPromise

\* A partial write that fails before it writes leaves the store alone.
LEMMA OldSettles ==
  ASSUME TypeOK, NEW r, phase[r] \notin Writing, Settle(r, "Failure")
  PROVE  UNCHANGED store
<1>1. \A b \in Blocks : ~Landed(r, b)  BY DEF Landed
<1>2. store' = [b \in Blocks |-> store[b]]  BY <1>1 DEF Settle
<1> QED  BY <1>2 DEF TypeOK

\* The end of a write touches its stripe only.
LEMMA EndFrame ==
  ASSUME QueueInv, NEW r \in Reqs, EndStep(r), UNCHANGED <<disk, dead>>
  PROVE  \A t \in Stripes : StripeFrame(t) \/ t = Stripe(r)
<1> SUFFICES ASSUME NEW t \in Stripes, t # Stripe(r) PROVE StripeFrame(t)
  OBVIOUS
<1>1. t \in torn => t \in torn'  BY DEF EndStep
<1>2. PICK st : Settle(r, st) /\ phase[r] \in Active
  BY DEF EndStep, Active
<1>3. \A b \in ReqBlocks(r) : StripeIdx(b) # t
  BY <1>2, ActiveFacts, InsideStripe
<1>4. \A b \in Blocks : StripeIdx(b) = t => store'[b] = store[b]
  BY <1>2, <1>3 DEF Settle, Landed
<1> QED  BY <1>1, <1>4 DEF StripeFrame, OnDisk

LEMMA PromiseResume ==
  ASSUME StoreInv, TypeOK', NEW r \in Reqs, Resume(r)
  PROVE  \A q \in Reqs : PromiseInv(q)'
<1>1. QueueInv /\ TypeOK  BY DEF StoreInv, RowInv, QueueInv
<1>2. ResumeFrame(r) /\ \/ ReadStep(r) \/ RecoverStep(r) \/ GiveUpStep(r)
                        \/ OldStep(r) \/ NewStep(r) \/ EndStep(r)
  BY <1>1, ResumeCases DEF TypeOK
<1>3. /\ UNCHANGED <<req, disk, dead, readErrors, writeErrors>>
      /\ phase[r] \in Active
  BY <1>2 DEF ResumeFrame, MayRun
<1>4. Release(r) => \A q \in Reqs \ {r} : got'[q] = got[q]
  BY <1>1 DEF Release, TypeOK
<1>5. UNCHANGED <<torn, store>> => \A t \in Stripes : StripeFrame(t)
  BY <1>3, StillFrame
<1>6. CASE ReadStep(r)
  <2>1. phase[r] = "read" /\ UNCHANGED <<store, torn>>
    BY <1>6 DEF ReadStep
  <2>2. CASE Rebuilds(r, "readrec")  BY <1>3, <2>1, <2>2, PromiseRebuild
  <2>3. CASE \E st : Reply(r, st) /\ (UNCHANGED got \/ Release(r))
    BY <1>3, <1>4, <1>5, <2>1, <2>3, PromiseReply
  <2> QED  BY <1>6, <2>2, <2>3 DEF ReadStep, Ends
<1>7. CASE RecoverStep(r)
  <2>1. Reply(r, "Success") /\ UNCHANGED <<store, torn>>
    BY <1>7 DEF RecoverStep, Ends
  <2>2. \A q \in Reqs \ {r} : got'[q] = got[q]
    BY <1>1, <1>7 DEF RecoverStep, TypeOK
  <2> QED  BY <1>3, <1>5, <2>1, <2>2, PromiseReply
<1>8. CASE GiveUpStep(r)
  <2>1. Reply(r, "Failure") /\ Release(r) /\ UNCHANGED <<store, torn>>
    BY <1>8 DEF GiveUpStep, Ends
  <2> QED  BY <1>3, <1>4, <1>5, <2>1, PromiseReply
<1>9. CASE OldStep(r)
  <2>1. phase[r] = "old" /\ phase[r] \notin Writing /\ UNCHANGED torn
    BY <1>9 DEF OldStep, Writing
  <2>2. CASE WriteNew(r, got[r]) /\ UNCHANGED store
    BY <1>3, <2>1, <2>2, PromiseWriteNew
  <2>3. CASE Rebuilds(r, "oldrec") /\ UNCHANGED store
    BY <1>3, <2>1, <2>3, PromiseRebuild
  <2>4. CASE Reply(r, "Failure") /\ Release(r) /\ Settle(r, "Failure")
    <3>1. UNCHANGED store  BY <1>1, <2>1, <2>4, OldSettles
    <3> QED  BY <1>3, <1>4, <1>5, <2>1, <2>4, <3>1, PromiseReply
  <2> QED  BY <1>9, <2>2, <2>3, <2>4 DEF OldStep, Ends
<1>10. CASE NewStep(r)
  <2>1. /\ phase[r] = "oldrec" /\ UNCHANGED <<store, torn>>
        /\ \E old : WriteNew(r, old)
    BY <1>10 DEF NewStep
  <2> QED  BY <1>3, <2>1, PromiseWriteNew
<1>11. CASE EndStep(r)
  <2>1. \A t \in Stripes : StripeFrame(t) \/ t = Stripe(r)
    BY <1>1, <1>3, <1>11, EndFrame
  <2>2. /\ \E st : Reply(r, st)
        /\ \A q \in Reqs \ {r} : got'[q] = got[q]
    BY <1>11 DEF EndStep, Ends
  <2> QED  BY <1>3, <2>1, <2>2, PromiseReply
<1> QED  BY <1>2, <1>6, <1>7, <1>8, <1>9, <1>10, <1>11

LEMMA StoreInit == Init => StoreInv
BY RowInit, PromiseInit DEF StoreInv

\* StoreInv is inductive.
LEMMA StoreNext ==
  ASSUME LateDma = FALSE
  PROVE  StoreInv /\ [Next]_vars => StoreInv'
<1> SUFFICES ASSUME StoreInv, [Next]_vars PROVE StoreInv'
  OBVIOUS
<1>1. RowInv'  BY RowNext DEF StoreInv
<1>2. TypeOK'  BY <1>1 DEF RowInv, QueueInv
<1>3. \A q \in Reqs : PromiseInv(q)'
  <2>1. CASE UNCHANGED vars
    BY <1>2, <2>1, PromiseSame DEF vars
  <2>2. ASSUME NEW r \in Reqs, Submit(r) PROVE \A q \in Reqs : PromiseInv(q)'
    BY <1>2, <2>2, PromiseSubmit
  <2>3. ASSUME NEW r \in Reqs, Resume(r) PROVE \A q \in Reqs : PromiseInv(q)'
    BY <1>2, <2>3, PromiseResume
  <2>4. ASSUME NEW w \in Workers, Work(w)
        PROVE  \A q \in Reqs : PromiseInv(q)'
    <3>1. CASE RunInit(w)  BY <1>2, <3>1, PromiseSame DEF RunInit
    <3>2. CASE RunSubmit(w)  BY <1>2, <3>2, PromiseRunSubmit
    <3>3. CASE DrainNext(w)  BY <1>2, <3>3, PromiseDrainNext
    <3>4. CASE DrainEnd(w)  BY <1>2, <3>4, PromiseSame DEF DrainEnd
    <3> QED  BY <2>4, <3>1, <3>2, <3>3, <3>4 DEF Work
  <2>5. ASSUME NEW d \in Disks, Die(d) PROVE \A q \in Reqs : PromiseInv(q)'
    BY <1>2, <2>5, PromiseDie
  <2>6. CASE Crash  BY <1>2, <2>6, PromiseCrash
  <2>7. ASSUME NEW r \in Reqs, NEW d \in Disks, Complete(r, d)
        PROVE  \A q \in Reqs : PromiseInv(q)'
    BY <1>2, <2>7, PromiseComplete
  <2> QED  BY <2>1, <2>2, <2>3, <2>4, <2>5, <2>6, <2>7 DEF Next
<1> QED  BY <1>1, <1>3 DEF StoreInv

-----------------------------------------------------------------------------
(* The queue of a stripe as the promise sees it: the request in service,   *)
(* what is pending, and what is on its way to the worker.                  *)

\* The request that the drainer of a stripe serves.
Serving(s) ==
  IF InService(s) = {} THEN <<>> ELSE <<CHOOSE r \in InService(s) : TRUE>>

\* The requests of a stripe that its worker has not seen yet.
Coming(s) == Select(inbox[Owner(s)], Submitted(s))

\* What the promise sees as its queues.
Queue == [s \in Stripes |-> Unanswered(s)]

\* A queue is what is served, then pending, then coming.
LEMMA UnansweredParts ==
  ASSUME NEW s
  PROVE  Unanswered(s) = (Serving(s) \o pending[s]) \o Coming(s)
BY DEF Unanswered, Serving, Coming

\* The parts of a queue are sequences of requests.
LEMMA QueueTypes ==
  ASSUME TypeOK, NEW s \in Stripes
  PROVE  /\ Serving(s) \in Seq(Reqs) /\ pending[s] \in Seq(Reqs)
         /\ Coming(s) \in Seq(Reqs)
         /\ inbox[Owner(s)] \in Seq(Reqs \cup {Start})
<1>1. Owner(s) \in Workers  BY OwnerPlace
<1>2. inbox[Owner(s)] \in Seq(Reqs \cup {Start}) /\ pending[s] \in Seq(Reqs)
  BY <1>1 DEF TypeOK
<1>3. Coming(s) \in Seq(Reqs)
  <2>1. Coming(s) \in Seq(Submitted(s))  BY <1>2, SelectType DEF Coming
  <2>2. Submitted(s) \subseteq Reqs  BY DEF Submitted
  <2> QED  BY <2>1, <2>2
<1>4. Serving(s) \in Seq(Reqs)
  <2>1. CASE InService(s) = {}  BY <2>1 DEF Serving
  <2>2. CASE InService(s) # {}
    <3>1. (CHOOSE r \in InService(s) : TRUE) \in Reqs
      BY <2>2 DEF InService
    <3> QED  BY <2>2, <3>1 DEF Serving
  <2> QED  BY <2>1, <2>2
<1> QED  BY <1>2, <1>3, <1>4

\* The requests on their way stay the same while nobody submits any.
LEMMA ComingSame ==
  ASSUME NEW s, UNCHANGED <<inbox, req>>,
         \A r \in Reqs : phase'[r] = "unsent" <=> phase[r] = "unsent"
  PROVE  Coming(s)' = Coming(s) /\ Submitted(s)' = Submitted(s)
<1>1. Submitted(s)' = Submitted(s)  BY DEF Submitted, Stripe
<1>2. Coming(s)' = Coming(s)  BY <1>1 DEF Coming
<1> QED  BY <1>1, <1>2

\* A step that leaves the queues alone.
LEMMA QueueStill ==
  ASSUME UNCHANGED <<inbox, pending, req>>,
         \A r \in Reqs : phase'[r] = "unsent" <=> phase[r] = "unsent",
         \A r \in Reqs : phase'[r] \in Active <=> phase[r] \in Active
  PROVE  Queue' = Queue
<1> SUFFICES ASSUME NEW s \in Stripes
             PROVE  Unanswered(s)' = Unanswered(s)
  BY DEF Queue
<1>1. InService(s)' = InService(s)  BY DEF InService, Stripe
<1>2. Serving(s)' = Serving(s)  BY <1>1 DEF Serving
<1>3. Coming(s)' = Coming(s)  BY ComingSame
<1>4. Unanswered(s)' = (Serving(s)' \o pending'[s]) \o Coming(s)'
  BY DEF Unanswered, Serving, Coming
<1> QED  BY <1>2, <1>3, <1>4, UnansweredParts

\* The request that is served is the head of its queue.
LEMMA OneServed ==
  ASSUME QueueInv, NEW r \in Reqs, phase[r] \in Active
  PROVE  /\ Stripe(r) \in Stripes
         /\ Serving(Stripe(r)) = <<r>>
<1>1. Stripe(r) \in Stripes /\ InService(Stripe(r)) = {r}
  BY ActiveFacts
<1>2. (CHOOSE q \in {r} : TRUE) = r  OBVIOUS
<1> QED  BY <1>1, <1>2 DEF Serving

\* The head and the tail of a queue with a request in service.
LEMMA PushConcat ==
  ASSUME NEW S, NEW x \in S, NEW u \in Seq(S), NEW v \in Seq(S)
  PROVE  /\ (<<x>> \o u) \o v # <<>>
         /\ Head((<<x>> \o u) \o v) = x
         /\ Tail((<<x>> \o u) \o v) = u \o v
<1>1. (<<x>> \o u) \o v = <<x>> \o (u \o v)
  <2>1. <<x>> \in Seq(S)  OBVIOUS
  <2> QED  BY <2>1, ConcatAssociative
<1>2. u \o v \in Seq(S)  OBVIOUS
<1> QED  BY <1>1, <1>2, PushFacts

\* Parts of a queue may be empty.
LEMMA EmptyConcat ==
  ASSUME NEW S, NEW u \in Seq(S)
  PROVE  <<>> \o u = u /\ u \o <<>> = u
OBVIOUS

\* A request in service is the first of its stripe.
LEMMA ServedFirst ==
  ASSUME QueueInv, NEW r \in Reqs, phase[r] \in Active
  PROVE  /\ Stripe(r) \in Stripes
         /\ Queue[Stripe(r)] # <<>> /\ Head(Queue[Stripe(r)]) = r
         /\ Tail(Queue[Stripe(r)]) = pending[Stripe(r)] \o Coming(Stripe(r))
<1>1. PICK s \in Stripes : s = Stripe(r)  BY OneServed
<1>2. Serving(s) = <<r>>  BY <1>1, OneServed
<1>3. Unanswered(s) = (<<r>> \o pending[s]) \o Coming(s)
  BY <1>2, UnansweredParts
<1>4. pending[s] \in Seq(Reqs) /\ Coming(s) \in Seq(Reqs)
  BY QueueTypes DEF QueueInv
<1>5. Queue[s] = (<<r>> \o pending[s]) \o Coming(s)  BY <1>3 DEF Queue
<1>6. /\ (<<r>> \o pending[s]) \o Coming(s) # <<>>
      /\ Head((<<r>> \o pending[s]) \o Coming(s)) = r
      /\ Tail((<<r>> \o pending[s]) \o Coming(s)) = pending[s] \o Coming(s)
  <2>1. \A u, v \in Seq(Reqs) :
          /\ (<<r>> \o u) \o v # <<>>
          /\ Head((<<r>> \o u) \o v) = r
          /\ Tail((<<r>> \o u) \o v) = u \o v
    BY PushConcat
  <2> QED  BY ONLY <1>4, <2>1, Zenon
<1> QED  BY <1>1, <1>5, <1>6

\* Its answer takes it out of the queue.
LEMMA QueueReply ==
  ASSUME QueueInv, NEW r \in Reqs, phase[r] \in Active,
         phase' = [phase EXCEPT ![r] = "done"],
         UNCHANGED <<inbox, pending, req>>
  PROVE  Queue' = [Queue EXCEPT ![Stripe(r)] = Tail(@)]
<1>1. TypeOK  BY DEF QueueInv
<1>2. phase[r] # "unsent"  BY DEF Active, Reading, Writing
<1>3. \A q \in Reqs : phase'[q] = IF q = r THEN "done" ELSE phase[q]
  BY <1>1 DEF TypeOK
<1>4. PICK s \in Stripes :
        /\ s = Stripe(r) /\ InService(s) = {r}
        /\ Tail(Queue[s]) = pending[s] \o Coming(s)
  BY ServedFirst, ActiveFacts
<1>5. ASSUME NEW t \in Stripes
      PROVE  Unanswered(t)' = IF t = s THEN Tail(Queue[s]) ELSE Unanswered(t)
  <2>1. Coming(t)' = Coming(t)  BY <1>2, <1>3, ComingSame
  <2>2. Unanswered(t)' = (Serving(t)' \o pending[t]) \o Coming(t)
    BY <2>1 DEF Unanswered, Serving, Coming
  <2>3. CASE t = s
    <3>1. InService(t)' = {}
      BY <1>3, <1>4, <2>3 DEF InService, Stripe, Active, Reading, Writing
    <3>2. Serving(t)' = <<>>  BY <3>1 DEF Serving
    <3>3. pending[t] \in Seq(Reqs)  BY <1>1, QueueTypes
    <3>4. Unanswered(t)' = pending[t] \o Coming(t)
      BY <2>2, <3>2, <3>3, EmptyConcat
    <3> QED  BY <1>4, <2>3, <3>4
  <2>4. CASE t # s
    <3>1. InService(t)' = InService(t)
      BY <1>3, <1>4, <2>4 DEF InService, Stripe
    <3>2. Serving(t)' = Serving(t)  BY <3>1 DEF Serving
    <3> QED  BY <2>2, <2>4, <3>2, UnansweredParts
  <2> QED  BY <2>3, <2>4
<1> QED  BY <1>4, <1>5 DEF Queue

\* A worker takes the next request of a stripe and starts it.
LEMMA QueueStart ==
  ASSUME QueueInv, NEW r \in Reqs, NEW s \in Stripes, Stripe(r) = s,
         turn[Owner(s)] = s, pending[s] # <<>>, r = Head(pending[s]),
         phase[r] = "queued", NEW ph \in Active,
         phase' = [phase EXCEPT ![r] = ph],
         pending' = [pending EXCEPT ![s] = Tail(@)],
         UNCHANGED <<inbox, req>>
  PROVE  Queue' = Queue
<1>1. TypeOK  BY DEF QueueInv
<1>2. \A q \in Reqs : phase'[q] = IF q = r THEN ph ELSE phase[q]
  BY <1>1 DEF TypeOK
<1>3. InService(s) = {}  BY DEF QueueInv, OneDrainer
<1>4. phase[r] \notin Active /\ phase[r] # "unsent" /\ ph # "unsent"
  BY DEF Active, Reading, Writing
<1> SUFFICES ASSUME NEW t \in Stripes
             PROVE  Unanswered(t)' = Unanswered(t)
  BY DEF Queue
<1>5. Coming(t)' = Coming(t)  BY <1>2, <1>4, ComingSame
<1>6. Unanswered(t)' = (Serving(t)' \o pending'[t]) \o Coming(t)
  BY <1>5 DEF Unanswered, Serving, Coming
<1>7. CASE t = s
  <2>1. InService(t)' = {r}
    BY <1>2, <1>3, <1>7 DEF InService, Stripe
  <2>2. Serving(t)' = <<r>>
    <3>1. (CHOOSE q \in {r} : TRUE) = r  OBVIOUS
    <3> QED  BY <2>1, <3>1 DEF Serving
  <2>3. pending'[t] = Tail(pending[t])  BY <1>1, <1>7 DEF TypeOK
  <2>4. pending[t] \in Seq(Reqs)  BY <1>1, QueueTypes
  <2>5. <<r>> \o Tail(pending[t]) = pending[t]
    BY <1>7, <2>4, HeadBack
  <2>6. Serving(t) \o pending[t] = pending[t]
    BY <1>3, <1>7, <2>4, EmptyConcat DEF Serving
  <2> QED  BY <1>6, <2>2, <2>3, <2>5, <2>6, UnansweredParts
<1>8. CASE t # s
  <2>1. InService(t)' = InService(t)
    BY <1>2, <1>4, <1>8 DEF InService, Stripe
  <2>2. Serving(t)' = Serving(t)  BY <2>1 DEF Serving
  <2>3. pending'[t] = pending[t]  BY <1>1, <1>8 DEF TypeOK
  <2> QED  BY <1>6, <2>2, <2>3, UnansweredParts
<1> QED  BY <1>7, <1>8

\* A worker takes the next request of a stripe and refuses it.
LEMMA QueueRefuse ==
  ASSUME QueueInv, NEW r \in Reqs, NEW s \in Stripes, Stripe(r) = s,
         turn[Owner(s)] = s, pending[s] # <<>>, r = Head(pending[s]),
         phase[r] = "queued", phase' = [phase EXCEPT ![r] = "done"],
         pending' = [pending EXCEPT ![s] = Tail(@)],
         UNCHANGED <<inbox, req>>
  PROVE  /\ Queue[s] # <<>> /\ Head(Queue[s]) = r
         /\ Queue' = [Queue EXCEPT ![s] = Tail(@)]
<1>1. TypeOK  BY DEF QueueInv
<1>2. \A q \in Reqs : phase'[q] = IF q = r THEN "done" ELSE phase[q]
  BY <1>1 DEF TypeOK
<1>3. InService(s) = {}  BY DEF QueueInv, OneDrainer
<1>4. phase[r] \notin Active /\ phase[r] # "unsent" /\ "done" \notin Active
  BY DEF Active, Reading, Writing
<1>5. /\ pending[s] \in Seq(Reqs) /\ Coming(s) \in Seq(Reqs)
      /\ Tail(pending[s]) \in Seq(Reqs)
  BY <1>1, QueueTypes, TailFacts
<1>6. Queue[s] = (<<r>> \o Tail(pending[s])) \o Coming(s)
  <2>1. Serving(s) \o pending[s] = pending[s]
    BY <1>3, <1>5, EmptyConcat DEF Serving
  <2>2. <<r>> \o Tail(pending[s]) = pending[s]  BY <1>5, HeadBack
  <2> QED  BY <2>1, <2>2, UnansweredParts DEF Queue
<1>7. /\ (<<r>> \o Tail(pending[s])) \o Coming(s) # <<>>
      /\ Head((<<r>> \o Tail(pending[s])) \o Coming(s)) = r
      /\ Tail((<<r>> \o Tail(pending[s])) \o Coming(s))
           = Tail(pending[s]) \o Coming(s)
  <2>1. \A u, v \in Seq(Reqs) :
          /\ (<<r>> \o u) \o v # <<>>
          /\ Head((<<r>> \o u) \o v) = r
          /\ Tail((<<r>> \o u) \o v) = u \o v
    BY PushConcat
  <2> QED  BY ONLY <1>5, <2>1, Zenon
<1>8. ASSUME NEW t \in Stripes
      PROVE  Unanswered(t)' = IF t = s THEN Tail(Queue[s]) ELSE Unanswered(t)
  <2>1. Coming(t)' = Coming(t)  BY <1>2, <1>4, ComingSame
  <2>2. InService(t)' = InService(t)
    BY <1>2, <1>4 DEF InService, Stripe
  <2>3. Unanswered(t)' = (Serving(t) \o pending'[t]) \o Coming(t)
    BY <2>1, <2>2 DEF Unanswered, Serving, Coming
  <2>4. CASE t = s
    <3>1. pending'[t] = Tail(pending[t])  BY <1>1, <2>4 DEF TypeOK
    <3>2. Serving(t) \o Tail(pending[t]) = Tail(pending[t])
      BY <1>3, <1>5, <2>4, EmptyConcat DEF Serving
    <3> QED  BY <1>6, <1>7, <2>3, <2>4, <3>1, <3>2
  <2>5. CASE t # s
    <3>1. pending'[t] = pending[t]  BY <1>1, <2>5 DEF TypeOK
    <3> QED  BY <2>3, <2>5, <3>1, UnansweredParts
  <2> QED  BY <2>4, <2>5
<1> QED  BY <1>6, <1>7, <1>8 DEF Queue

\* What a worker takes out of its inbox and is not for stripe s.
LEMMA ComingTail ==
  ASSUME TypeOK, NEW s \in Stripes, NEW w \in Workers, inbox[w] # <<>>,
         inbox' = [inbox EXCEPT ![w] = Tail(@)], UNCHANGED req,
         \A r \in Reqs : phase'[r] = "unsent" <=> phase[r] = "unsent"
  PROVE  Coming(s) = IF Owner(s) = w /\ Head(inbox[w]) \in Submitted(s)
                       THEN <<Head(inbox[w])>> \o Coming(s)' ELSE Coming(s)'
<1>1. Submitted(s)' = Submitted(s)  BY DEF Submitted, Stripe
<1>2. Coming(s)' = Select(inbox'[Owner(s)], Submitted(s))
  BY <1>1 DEF Coming
<1>3. CASE Owner(s) = w
  <2>1. inbox'[w] = Tail(inbox[w])  BY DEF TypeOK
  <2>2. inbox[w] \in Seq(Reqs \cup {Start})  BY DEF TypeOK
  <2>3. Select(inbox[w], Submitted(s))
          = IF Head(inbox[w]) \in Submitted(s)
              THEN <<Head(inbox[w])>> \o Select(Tail(inbox[w]), Submitted(s))
              ELSE Select(Tail(inbox[w]), Submitted(s))
    BY <2>2, SelectTail
  <2> QED  BY <1>2, <1>3, <2>1, <2>3 DEF Coming
<1>4. CASE Owner(s) # w
  <2>1. Owner(s) \in Workers  BY OwnerPlace
  <2>2. inbox'[Owner(s)] = inbox[Owner(s)]  BY <1>4, <2>1 DEF TypeOK
  <2> QED  BY <1>2, <1>4, <2>2 DEF Coming
<1> QED  BY <1>3, <1>4

\* A worker that starts takes nothing out of a queue.
LEMMA QueueRunInit ==
  ASSUME QueueInv, NEW w \in Workers, RunInit(w)
  PROVE  Queue' = Queue
<1>1. TypeOK /\ Start \notin Reqs  BY Raid5Assumption DEF QueueInv
<1>2. /\ inbox[w] # <<>> /\ Head(inbox[w]) = Start
      /\ inbox' = [inbox EXCEPT ![w] = Tail(@)]
      /\ UNCHANGED <<pending, req, phase>>
  BY DEF RunInit, reqVars
<1> SUFFICES ASSUME NEW s \in Stripes
             PROVE  Unanswered(s)' = Unanswered(s)
  BY DEF Queue
<1>3. Start \notin Submitted(s)  BY <1>1 DEF Submitted
<1>4. Coming(s)' = Coming(s)  BY <1>1, <1>2, <1>3, ComingTail
<1>5. InService(s)' = InService(s)  BY <1>2 DEF InService, Stripe
<1>6. Unanswered(s)' = (Serving(s) \o pending[s]) \o Coming(s)
  <2>1. Serving(s)' = Serving(s)  BY <1>5 DEF Serving
  <2>2. Unanswered(s)' = (Serving(s)' \o pending'[s]) \o Coming(s)'
    BY DEF Unanswered, Serving, Coming
  <2> QED  BY <1>2, <1>4, <2>1, <2>2
<1> QED  BY <1>6, UnansweredParts

\* A request that reaches its worker stays in its place: pending or in service,
\* it still stands behind all that came before it.
LEMMA QueueRunSubmitted ==
  ASSUME QueueInv, NEW w \in Workers, RunSubmit(w)
  PROVE  Queue' = Queue
<1>1. TypeOK /\ ShapeInv /\ InboxInv  BY DEF QueueInv
<1>2. PICK r \in Reqs, u \in Stripes :
        /\ r = Head(inbox[w]) /\ phase[r] = "sent" /\ OwnerOf(r) = w
        /\ u = Stripe(r) /\ req[r] \in Shapes
  BY <1>1, InboxHead DEF RunSubmit
<1>3. /\ inbox[w] # <<>> /\ inbox' = [inbox EXCEPT ![w] = Tail(@)]
      /\ pending' = [pending EXCEPT ![u] = Append(@, r)]
      /\ phase' = [phase EXCEPT ![r] = "queued"] /\ UNCHANGED req
  BY <1>2 DEF RunSubmit
<1>4. \A q \in Reqs : phase'[q] = IF q = r THEN "queued" ELSE phase[q]
  BY <1>1, <1>3 DEF TypeOK
<1> SUFFICES ASSUME NEW s \in Stripes
             PROVE  Unanswered(s)' = Unanswered(s)
  BY DEF Queue
<1>5. InService(s)' = InService(s)
  BY <1>2, <1>3, <1>4 DEF InService, Stripe, Active, Reading, Writing
<1>6. Unanswered(s)' = (Serving(s) \o pending'[s]) \o Coming(s)'
  BY <1>5 DEF Unanswered, Serving, Coming
<1>7. Coming(s) = IF Owner(s) = w /\ r \in Submitted(s)
                    THEN <<r>> \o Coming(s)' ELSE Coming(s)'
  <2>1. \A q \in Reqs : phase'[q] = "unsent" <=> phase[q] = "unsent"
    BY <1>2, <1>4
  <2> QED  BY <1>1, <1>2, <1>3, <2>1, ComingTail, Zenon
<1>8. r \in Submitted(s) <=> s = u
  BY <1>2 DEF Submitted
<1>9. Owner(u) = w  BY <1>2 DEF OwnerOf
<1>10. CASE s = u
  <2>1. Coming(s) = <<r>> \o Coming(s)'  BY <1>7, <1>8, <1>9, <1>10
  <2>2. pending'[s] = Append(pending[s], r)
    BY <1>1, <1>3, <1>10 DEF TypeOK
  <2>3. Coming(s)' \in Seq(Reqs)
    <3>1. inbox'[w] \in Seq(Reqs \cup {Start})
      BY <1>1, <1>3, TailFacts DEF TypeOK
    <3>2. Coming(s)' \in Seq(Submitted(s)')
      BY <1>9, <1>10, <3>1, SelectType DEF Coming
    <3>3. Submitted(s)' \subseteq Reqs  BY DEF Submitted
    <3> QED  BY <3>2, <3>3
  <2>4. Serving(s) \in Seq(Reqs) /\ pending[s] \in Seq(Reqs)
    BY <1>1, QueueTypes
  <2> DEFINE c == Coming(s)'
  <2>5. (Serving(s) \o pending[s]) \o (<<r>> \o c)
          = (Serving(s) \o Append(pending[s], r)) \o c
    <3>1. c \in Seq(Reqs)  BY <2>3
    <3> HIDE DEF c
    <3> DEFINE a == Serving(s)
               b == pending[s]
               f == a \o b
    <3>2. a \in Seq(Reqs) /\ b \in Seq(Reqs)  BY <2>4
    <3> HIDE DEF a, b
    <3>3. f \in Seq(Reqs)  BY <3>2, ConcatProperties
    <3>4. a \o Append(b, r) = Append(f, r)  BY ONLY <3>2, r \in Reqs
    <3> HIDE DEF f
    <3>5. f \o (<<r>> \o c) = Append(f, r) \o c
      BY ONLY <3>1, <3>3, r \in Reqs
    <3> QED  BY <3>4, <3>5 DEF a, b, f
  <2> QED  BY <1>6, <2>1, <2>2, <2>5, UnansweredParts
<1>11. CASE s # u
  <2>1. pending'[s] = pending[s]  BY <1>1, <1>3, <1>11 DEF TypeOK
  <2> QED  BY <1>6, <1>7, <1>8, <1>11, <2>1, UnansweredParts
<1> QED  BY <1>10, <1>11

\* A request is submitted to the end of the queue of its stripe.
LEMMA QueueSubmitted ==
  ASSUME StoreInv, NEW r \in Reqs, Submit(r)
  PROVE  \E x \in Shapes :
           /\ req' = [req EXCEPT ![r] = x] /\ StripeIdx(x.first) \in Stripes
           /\ Queue' = [Queue EXCEPT ![StripeIdx(x.first)] = Append(@, r)]
<1>1. TypeOK  BY DEF StoreInv, RowInv, QueueInv
<1>2. PICK x \in Shapes :
        /\ req' = [req EXCEPT ![r] = x]
        /\ inbox' = [inbox EXCEPT ![Owner(StripeIdx(x.first))] = Append(@, r)]
  BY DEF Submit
<1>3. PICK u \in Stripes, w \in Workers :
        u = StripeIdx(x.first) /\ w = Owner(u)
  BY ShapePlace
<1>4. /\ phase[r] = "unsent" /\ phase' = [phase EXCEPT ![r] = "sent"]
      /\ UNCHANGED pending
  BY DEF Submit
<1>5. \A q \in Reqs : /\ phase'[q] = IF q = r THEN "sent" ELSE phase[q]
                      /\ req'[q] = IF q = r THEN x ELSE req[q]
  BY <1>1, <1>2, <1>4 DEF TypeOK
<1>6. ASSUME NEW s \in Stripes
      PROVE  Unanswered(s)' = IF s = u THEN Append(Unanswered(s), r)
                                       ELSE Unanswered(s)
  <2>1. InService(s)' = InService(s)
    BY <1>4, <1>5 DEF InService, Stripe, Active, Reading, Writing
  <2>2. Unanswered(s)' = (Serving(s) \o pending[s]) \o Coming(s)'
    BY <1>4, <2>1 DEF Unanswered, Serving, Coming
  <2>3. Submitted(s)' = Submitted(s) \cup (IF s = u THEN {r} ELSE {})
    BY <1>3, <1>4, <1>5 DEF Submitted, Stripe
  <2>4. r \notin Submitted(s)  BY <1>4 DEF Submitted
  <2>5. Owner(s) \in Workers  BY OwnerPlace
  <2> DEFINE q == inbox[Owner(s)]
             S == Submitted(s)
             R == Submitted(s)'
  <2>6. q \in Seq(Reqs \cup {Start})  BY <1>1, <2>5 DEF TypeOK
  <2>7. \A i \in 1..Len(q) : q[i] # r
    <3>1. \A m \in Range(q) : m # r
      BY <1>4, <2>5, Raid5Assumption DEF StoreInv, RowInv, QueueInv, InboxInv
    <3> QED  BY <2>6, <3>1 DEF Range
  <2>8. Coming(s) = Select(q, S)  BY DEF Coming
  <2>9. Coming(s)' = Select(inbox'[Owner(s)], R)  BY DEF Coming
  <2>10. inbox'[Owner(s)] = IF Owner(s) = w THEN Append(q, r) ELSE q
    BY <1>1, <1>2, <1>3, <2>5 DEF TypeOK
  <2>11. Select(q, R) = Select(q, S)
    <3> HIDE DEF q
    <3>1. \A i \in 1..Len(q) : q[i] \in S <=> q[i] \in R
      BY <2>3, <2>7
    <3> HIDE DEF S, R
    <3> QED  BY <2>6, <3>1, SelectSame
  <2>12. Select(Append(q, r), R)
           = IF r \in R THEN Append(Select(q, R), r) ELSE Select(q, R)
    <3> HIDE DEF q, R
    <3> QED  BY <2>6, SelectAppend
  <2>13. CASE s = u
    <3>1. Coming(s)' = Append(Coming(s), r)
      BY <1>3, <2>3, <2>8, <2>9, <2>10, <2>11, <2>12, <2>13
    <3>2. /\ Serving(s) \in Seq(Reqs) /\ pending[s] \in Seq(Reqs)
          /\ Coming(s) \in Seq(Reqs)
      BY <1>1, QueueTypes
    <3>3. (Serving(s) \o pending[s]) \o Append(Coming(s), r)
            = Append((Serving(s) \o pending[s]) \o Coming(s), r)
      <4>1. \A a, b, e \in Seq(Reqs) :
              (a \o b) \o Append(e, r) = Append((a \o b) \o e, r)
        BY ConcatProperties, ConcatAppend
      <4> QED  BY ONLY <3>2, <4>1, Zenon
    <3> QED  BY <2>2, <2>13, <3>1, <3>3, UnansweredParts
  <2>14. CASE s # u
    <3>1. r \notin R  BY <2>3, <2>4, <2>14
    <3>2. Coming(s)' = Coming(s)
      BY <2>8, <2>9, <2>10, <2>11, <2>12, <3>1
    <3> QED  BY <2>2, <2>14, <3>2, UnansweredParts
  <2> QED  BY <2>13, <2>14
<1>7. Queue' = [Queue EXCEPT ![u] = Append(@, r)]
  BY <1>6 DEF Queue
<1> QED  BY <1>2, <1>3, <1>7

\* The message that starts a worker is no request.
LEMMA SelectStart ==
  ASSUME NEW S, Start \notin S
  PROVE  Select(<<Start>>, S) = <<>>
<1> DEFINE q == <<Start>>
<1>1. /\ q \in Seq({Start}) /\ q # <<>> /\ Head(q) = Start /\ Tail(q) = <<>>
  OBVIOUS
<1> HIDE DEF q
<1>2. Select(q, S) = IF Head(q) \in S THEN <<Head(q)>> \o Select(Tail(q), S)
                                      ELSE Select(Tail(q), S)
  BY <1>1, SelectTail
<1>3. Select(<<>>, S) = <<>>  BY SelectEmpty
<1> QED  BY <1>1, <1>2, <1>3 DEF q

\* A stripe whose worker has not started has no requests.
LEMMA QueueEmpty ==
  ASSUME NEW s \in Stripes, InService(s) = {}, pending[s] = <<>>,
         inbox[Owner(s)] = <<Start>>
  PROVE  Unanswered(s) = <<>>
<1>1. Start \notin Submitted(s)  BY Raid5Assumption DEF Submitted
<1>2. Serving(s) = <<>> /\ Coming(s) = <<>>
  BY <1>1, SelectStart DEF Serving, Coming
<1> QED  BY <1>2, UnansweredParts

-----------------------------------------------------------------------------
(* The steps of the bdev as steps of the promise.                          *)

\* What the promise sees as the results of the reads.
Result == [r \in Reqs |-> Returned(r)]

\* What the promise sees as the number of faults.
Faults == Cardinality(dead) + readErrors

\* A request with nothing to read.
Mute(r) ==
  status[r] # "Success" \/ (req[r] # NoShape /\ req[r].op = "write")

\* Results change with a read that succeeds only.
LEMMA ResultKept ==
  ASSUME \A r \in Reqs :
           \/ req'[r] = req[r] /\ status'[r] = status[r] /\ got'[r] = got[r]
           \/ Mute(r) /\ Mute(r)'
  PROVE  Result' = Result
<1> SUFFICES ASSUME NEW r \in Reqs PROVE Returned(r)' = Returned(r)
  BY DEF Result
<1>1. CASE req'[r] = req[r] /\ status'[r] = status[r] /\ got'[r] = got[r]
  BY <1>1 DEF Returned, ReqBlocks
<1>2. CASE Mute(r) /\ Mute(r)'
  <2>1. Returned(r) = <<>>  BY <1>2 DEF Returned, Mute
  <2>2. Returned(r)' = <<>>  BY <1>2 DEF Returned, Mute
  <2> QED  BY <2>1, <2>2
<1> QED  BY <1>1, <1>2

\* A step that the promise does not see.
LEMMA Stutter ==
  ASSUME Queue' = Queue, Result' = Result, Faults' = Faults,
         UNCHANGED <<req, store, status, torn, writeErrors>>
  PROVE  UNCHANGED Promise!vars
BY DEF Promise!vars, Queue, Result, Faults

\* The bdev starts as the promise does.
LEMMA PromiseStart == Init => Promise!Init
<1> SUFFICES ASSUME Init PROVE Promise!Init  OBVIOUS
<1>1. \A s \in Stripes : Unanswered(s) = <<>>
  <2> SUFFICES ASSUME NEW s \in Stripes PROVE Unanswered(s) = <<>>
    OBVIOUS
  <2>1. InService(s) = {}
    BY DEF Init, InService, Active, Reading, Writing
  <2>2. pending[s] = <<>> /\ inbox[Owner(s)] = <<Start>>
    BY OwnerPlace DEF Init
  <2> QED  BY <2>1, <2>2, QueueEmpty
<1>2. \A r \in Reqs : Returned(r) = <<>>  BY DEF Init, Returned
<1>3. Cardinality(dead) + readErrors = 0  BY FS_EmptySet DEF Init
<1> QED  BY <1>1, <1>2, <1>3 DEF Init, Promise!Init

\* The steps of the users and of the disks, one by one.
LEMMA MapSubmit ==
  ASSUME StoreInv, NEW r \in Reqs, Submit(r)
  PROVE  Promise!Submit(r)
<1>1. TypeOK /\ NoteInv(r)  BY DEF StoreInv, RowInv, QueueInv, PromiseInv
<1>2. PICK x \in Shapes :
        /\ req' = [req EXCEPT ![r] = x]
        /\ Queue' = [Queue EXCEPT ![StripeIdx(x.first)] = Append(@, r)]
  BY QueueSubmitted
<1>3. /\ phase[r] = "unsent"
      /\ UNCHANGED <<got, status, store, torn, dead, readErrors, writeErrors>>
  BY DEF Submit, diskVars
<1>4. req[r] = NoShape /\ status[r] = "none"  BY <1>1, <1>3 DEF NoteInv, TypeOK
<1>5. Result' = Result
  <2>1. \A q \in Reqs \ {r} : req'[q] = req[q]  BY <1>1, <1>2 DEF TypeOK
  <2>2. Mute(r) /\ Mute(r)'  BY <1>3, <1>4 DEF Mute
  <2> QED  BY <1>3, <2>1, <2>2, ResultKept
<1> QED  BY <1>2, <1>3, <1>4, <1>5 DEF Promise!Submit, Queue, Result

-----------------------------------------------------------------------------
(* Every step of the bdev is a step of the promise, or none of its own.    *)

\* A step of the workers that moves no request out of its queue.
LEMMA MapQuiet ==
  ASSUME Queue' = Queue,
         UNCHANGED <<req, got, status, store, torn, dead, readErrors,
                     writeErrors>>
  PROVE  UNCHANGED Promise!vars
<1>1. Result' = Result  BY ResultKept
<1>2. Faults' = Faults  BY DEF Faults
<1> QED  BY <1>1, <1>2, Stutter

\* The promise and the bdev agree on what crosses a stripe.
LEMMA CrossesSeen ==
  ASSUME NEW r \in Reqs, req[r] \in Shapes
  PROVE  Promise!Crosses(r) <=> Crosses(r)
<1>1. Promise!ReqBlocks(r) = ReqBlocks(r)
  BY DEF Promise!ReqBlocks, ReqBlocks
<1>2. ASSUME ~Crosses(r) PROVE ~Promise!Crosses(r)
  <2>1. \A b \in ReqBlocks(r) : StripeIdx(b) = Stripe(r)
    BY <1>2, InsideStripe
  <2> QED  BY <1>1, <2>1 DEF Promise!Crosses
<1>3. ASSUME Crosses(r) PROVE Promise!Crosses(r)
  <2> DEFINE first == req[r].first
             len == req[r].len
             s == StripeIdx(first)
             x == StripeOffset(first)
             c == first + (StripeBlocks - x)
  <2>1. first \in Nat /\ len \in Nat \ {0} /\ s \in Nat
    <3>1. /\ first \in Nat /\ len \in Nat \ {0}
          /\ s \in Stripes
      BY ShapePlace
    <3> HIDE DEF first, len, s
    <3> QED  BY <3>1, Sizes DEF Stripes
  <2>2. /\ x \in 0..(StripeBlocks - 1) /\ first = s * StripeBlocks + x
    <3> HIDE DEF first
    <3> QED  BY <2>1, Sizes, DivMod DEF StripeIdx, StripeOffset
  <2>3. x + len > StripeBlocks  BY <1>3 DEF Crosses
  <2>4. ReqBlocks(r) = first .. (first + len - 1)  BY DEF ReqBlocks
  <2> HIDE DEF first, len, s, x
  <2>5. first \in ReqBlocks(r) /\ c \in ReqBlocks(r)
    BY <2>1, <2>2, <2>3, <2>4, Sizes
  <2>6. c = (s + 1) * StripeBlocks + 0
    <3>1. s * StripeBlocks \in Int  BY <2>1, Sizes
    <3>2. (s + 1) * StripeBlocks = s * StripeBlocks + StripeBlocks
      BY <2>1, Sizes
    <3>3. \A A \in Int : first = A + x => c = A + StripeBlocks
      BY <2>1, <2>2, Sizes
    <3> QED  BY <2>2, <3>1, <3>2, <3>3, Sizes
  <2>7. StripeIdx(c) = s + 1
    <3>1. s + 1 \in Nat /\ 0 \in 0..(StripeBlocks - 1)  BY <2>1, Sizes
    <3> HIDE DEF c
    <3> QED  BY <2>6, <3>1, Sizes, DivModUnique DEF StripeIdx
  <2>8. StripeIdx(first) # StripeIdx(c)
    <3> HIDE DEF c
    <3> QED  BY <2>1, <2>7 DEF s
  <2> QED  BY <1>1, <2>5, <2>8 DEF Promise!Crosses
<1> QED  BY <1>2, <1>3

LEMMA MapWork ==
  ASSUME StoreInv, NEW w \in Workers, Work(w)
  PROVE  UNCHANGED Promise!vars \/ \E s \in Stripes : Promise!Answer(s)
<1>1. QueueInv /\ TypeOK  BY DEF StoreInv, RowInv, QueueInv
<1>2. CASE RunInit(w)
  <2>1. UNCHANGED <<req, got, status, store, torn, dead, readErrors,
                    writeErrors>>
    BY <1>2 DEF RunInit, reqVars, diskVars
  <2> QED  BY <1>1, <1>2, <2>1, QueueRunInit, MapQuiet
<1>3. CASE RunSubmit(w)
  <2>1. UNCHANGED <<req, got, status, store, torn, dead, readErrors,
                    writeErrors>>
    BY <1>3 DEF RunSubmit, diskVars
  <2> QED  BY <1>1, <1>3, <2>1, QueueRunSubmitted, MapQuiet
<1>4. CASE DrainEnd(w)
  <2>1. /\ UNCHANGED <<req, got, status, store, torn, dead, readErrors,
                       writeErrors>>
        /\ UNCHANGED <<inbox, pending, phase>>
    BY <1>4 DEF DrainEnd, reqVars, diskVars
  <2> QED  BY <2>1, QueueStill, MapQuiet
<1>5. CASE DrainNext(w)
  <2>1. PICK r \in Reqs, s \in Stripes :
          /\ s = turn[w] /\ r = Head(pending[s]) /\ pending[s] # <<>>
          /\ phase[r] = "queued" /\ status[r] = "none"
          /\ req[r] \in Shapes /\ Stripe(r) = s /\ OwnerOf(r) = w
          /\ pending' = [pending EXCEPT ![s] = Tail(@)]
          /\ UNCHANGED <<inbox, req, store, torn, dead, readErrors,
                         writeErrors>>
          /\ \/ Crosses(r) /\ Ends(r, "Failure") /\ UNCHANGED got
             \/ ProcessStart(r)
    BY <1>5, NextRequest DEF diskVars
  <2>2. turn[Owner(s)] = s  BY <2>1 DEF OwnerOf
  <2>3. CASE ProcessStart(r)
    <3>1. PICK ph \in Active : phase' = [phase EXCEPT ![r] = ph]
      BY <2>3 DEF ProcessStart, Await, Active, Reading, Writing
    <3>2. Queue' = Queue  BY <1>1, <2>1, <2>2, <3>1, QueueStart
    <3>3. UNCHANGED <<got, status>>  BY <2>3 DEF ProcessStart
    <3> QED  BY <2>1, <3>2, <3>3, MapQuiet
  <2>4. CASE Crosses(r) /\ Ends(r, "Failure") /\ UNCHANGED got
    <3>1. /\ phase' = [phase EXCEPT ![r] = "done"]
          /\ status' = [status EXCEPT ![r] = "Failure"]
      BY <2>4 DEF Ends, Reply
    <3>2. /\ Queue[s] # <<>> /\ Head(Queue[s]) = r
          /\ Queue' = [Queue EXCEPT ![s] = Tail(@)]
      BY <1>1, <2>1, <2>2, <3>1, QueueRefuse
    <3>3. Result' = Result
      <4>1. \A q \in Reqs : status'[q] = IF q = r THEN "Failure" ELSE status[q]
        BY <1>1, <3>1 DEF TypeOK
      <4>2. Mute(r) /\ Mute(r)'  BY <2>1, <4>1 DEF Mute
      <4> QED  BY <2>1, <2>4, <4>1, <4>2, ResultKept
    <3>4. Promise!Crosses(r)  BY <2>1, <2>4, CrossesSeen
    <3>5. Promise!Failed(r)
      BY <2>1, <3>1, <3>3, <3>4 DEF Promise!Failed, Result
    <3>6. Faults' = Faults  BY <2>1 DEF Faults
    <3> QED  BY <2>1, <3>2, <3>5, <3>6 DEF Promise!Answer, Queue, Faults
  <2> QED  BY <2>1, <2>3, <2>4
<1> QED  BY <1>2, <1>3, <1>4, <1>5 DEF Work

LEMMA MapDie ==
  ASSUME StoreInv, NEW d \in Disks, Die(d)
  PROVE  Promise!Fault
<1>1. TypeOK  BY DEF StoreInv, RowInv, QueueInv
<1>2. /\ d \notin dead /\ dead' = dead \cup {d}
      /\ UNCHANGED <<req, got, status, store, torn, readErrors, writeErrors>>
      /\ UNCHANGED <<inbox, pending, phase>>
  BY DEF Die, queueVars, reqVars
<1>3. Queue' = Queue  BY <1>2, QueueStill
<1>4. Result' = Result  BY <1>2, ResultKept
<1>5. Faults' = Faults + 1
  <2>1. IsFiniteSet(dead)  BY <1>1, DisksFinite, FS_Subset DEF TypeOK
  <2>2. Cardinality(dead') = Cardinality(dead) + 1
        /\ Cardinality(dead) \in Nat
    BY <1>2, <2>1, FS_AddElement, FS_CardinalityType
  <2>3. readErrors \in Nat  BY <1>1, Raid5Assumption DEF TypeOK
  <2> QED  BY <1>2, <2>2, <2>3 DEF Faults
<1> QED
  BY <1>2, <1>3, <1>4, <1>5 DEF Promise!Fault, Queue, Result, Faults

\* A stripe whose request writes is, for the promise, one that writes.
LEMMA WritesSeen ==
  ASSUME QueueInv, NEW r \in Reqs, phase[r] \in Writing
  PROVE  Stripe(r) \in Stripes /\ Promise!Writes(Stripe(r))
<1>1. phase[r] \in Active  BY DEF Active
<1>2. req[r].op = "write"  BY DEF QueueInv, ShapeInv, Writing
<1> QED  BY <1>1, <1>2, ServedFirst DEF Promise!Writes, Queue

LEMMA MapComplete ==
  ASSUME StoreInv, NEW r \in Reqs, NEW d \in Disks, Complete(r, d)
  PROVE  \/ UNCHANGED Promise!vars
         \/ Promise!Fault
         \/ \E s \in Stripes : Promise!LostWrite(s)
<1>1. QueueInv /\ TypeOK /\ NoteInv(r)
  BY DEF StoreInv, RowInv, QueueInv, PromiseInv
<1>2. /\ UNCHANGED <<inbox, pending, req, phase, status, dead, store>>
      /\ CompleteOk(r, d) \/ Fail(r, d)
  BY CompleteCases DEF CompleteFrame
<1>3. Queue' = Queue  BY <1>2, QueueStill
<1>4. Result' = Result
  <2>1. \A q \in Reqs \ {r} : got'[q] = got[q]
    <3>1. CASE CompleteOk(r, d)
      BY <1>1, <3>1
      DEF CompleteOk, ReadBlocks, AddBlocks, WriteBlocks, TypeOK
    <3>2. CASE Fail(r, d)  BY <3>2 DEF Fail
    <3> QED  BY <1>2, <3>1, <3>2
  <2>2. CASE phase[r] \in Active
    <3>1. status[r] = "none"
      BY <1>1, <2>2 DEF NoteInv, Active, Reading, Writing
    <3>2. Mute(r) /\ Mute(r)'  BY <1>2, <3>1 DEF Mute
    <3> QED  BY <1>2, <2>1, <3>2, ResultKept
  <2>3. CASE phase[r] \notin Active
    <3>1. got' = got
      BY <1>2, <2>3 DEF CompleteOk, Fail, ReadBlocks, AddBlocks, WriteBlocks,
                        Active, Reading
    <3> QED  BY <1>2, <3>1, ResultKept
  <2> QED  BY <2>2, <2>3
<1>5. CASE UNCHANGED <<readErrors, writeErrors, torn>>
  <2>1. Faults' = Faults  BY <1>2, <1>5 DEF Faults
  <2> QED  BY <1>2, <1>3, <1>4, <1>5, <2>1, Stutter
<1>6. CASE readErrors' = readErrors + 1 /\ UNCHANGED <<writeErrors, torn>>
  <2>1. Faults' = Faults + 1
    <3>1. IsFiniteSet(dead)  BY <1>1, DisksFinite, FS_Subset DEF TypeOK
    <3>2. Cardinality(dead) \in Nat  BY <3>1, FS_CardinalityType
    <3>3. readErrors \in Nat  BY <1>1, Raid5Assumption DEF TypeOK
    <3> QED  BY <1>2, <1>6, <3>2, <3>3 DEF Faults
  <2> QED
    BY <1>2, <1>3, <1>4, <1>6, <2>1 DEF Promise!Fault, Queue, Result, Faults
<1>7. CASE /\ phase[r] \in Writing /\ writeErrors' = writeErrors + 1
           /\ torn' = torn \cup {Stripe(r)} /\ UNCHANGED readErrors
  <2>1. Faults' = Faults  BY <1>2, <1>7 DEF Faults
  <2>2. Stripe(r) \in Stripes /\ Promise!Writes(Stripe(r))
    BY <1>1, <1>7, WritesSeen
  <2>3. Promise!LostWrite(Stripe(r))
    BY <1>2, <1>3, <1>4, <1>7, <2>1, <2>2
    DEF Promise!LostWrite, Queue, Result, Faults
  <2> QED  BY <2>2, <2>3
<1> QED  BY <1>2, <1>5, <1>6, <1>7 DEF CompleteOk, Fail

LEMMA MapCrash ==
  ASSUME StoreInv, Crash
  PROVE  Promise!Crash
<1>1. QueueInv /\ TypeOK  BY DEF StoreInv, RowInv, QueueInv
<1>2. /\ torn' = torn \cup HalfWritten
      /\ UNCHANGED <<req, status, dead, readErrors, writeErrors>>
      /\ phase' = [r \in Reqs |-> IF phase[r] \in {"unsent", "done"}
                                    THEN phase[r] ELSE "gone"]
      /\ store' = [b \in Blocks |->
           IF \E r \in Reqs : Landed(r, b)
             THEN Data(CHOOSE r \in Reqs : Landed(r, b), b) ELSE store[b]]
      /\ got' = [r \in Reqs |-> IF phase[r] = "done" THEN got[r] ELSE Unread]
      /\ inbox' = [w \in Workers |-> <<Start>>]
      /\ pending' = [s \in Stripes |-> <<>>]
  BY DEF Crash
<1>3. Queue' = [s \in Stripes |-> <<>>]
  <2> SUFFICES ASSUME NEW s \in Stripes PROVE Unanswered(s)' = <<>>
    BY DEF Queue
  <2>1. InService(s)' = {}
    BY <1>2 DEF InService, Active, Reading, Writing
  <2>2. Serving(s)' = <<>>  BY <2>1 DEF Serving
  <2>3. inbox'[Owner(s)] = <<Start>>  BY <1>2, OwnerPlace
  <2>4. Start \notin Submitted(s)'  BY Raid5Assumption DEF Submitted
  <2>5. Coming(s)' = <<>>
    BY <2>3, <2>4, SelectStart DEF Coming
  <2> QED  BY <1>2, <2>2, <2>5 DEF Unanswered, Serving, Coming
<1>4. Result' = Result
  <2> SUFFICES ASSUME NEW r \in Reqs
               PROVE  \/ got'[r] = got[r]
                      \/ Mute(r) /\ Mute(r)'
    BY <1>2, ResultKept
  <2>1. CASE phase[r] = "done"  BY <1>2, <2>1
  <2>2. CASE phase[r] # "done"
    <3>1. status[r] = "none" 
      BY <2>2 DEF StoreInv, PromiseInv, NoteInv
    <3> QED  BY <1>2, <3>1 DEF Mute
  <2> QED  BY <2>1, <2>2
<1>5. ASSUME NEW b \in Blocks, store'[b] # store[b]
      PROVE  LET s == StripeIdx(b) IN
               /\ Promise!Writes(s)
               /\ b \in Promise!ReqBlocks(Head(Queue[s]))
               /\ store'[b] = Data(Head(Queue[s]), b)
  <2>1. PICK r \in Reqs :
          Landed(r, b) /\ store'[b] = Data(r, b)
    BY <1>2, <1>5
  <2>2. phase[r] \in Writing /\ phase[r] \in Active /\ b \in ReqBlocks(r)
    BY <2>1 DEF Landed, Active
  <2>3. StripeIdx(b) = Stripe(r)
    BY <1>1, <2>2, ActiveFacts, InsideStripe
  <2>4. Promise!Writes(Stripe(r)) /\ Head(Queue[Stripe(r)]) = r
    BY <1>1, <2>2, WritesSeen, ServedFirst
  <2> QED
    BY <2>1, <2>2, <2>3, <2>4 DEF Promise!ReqBlocks, ReqBlocks
<1>6. DOMAIN store' = Blocks  BY <1>2
<1>7. HalfWritten \in SUBSET {s \in Stripes : Promise!Writes(s)}
  BY <1>1, WritesSeen DEF HalfWritten
<1>8. Faults' = Faults  BY <1>2 DEF Faults
<1>9. \A b \in Blocks :
        \/ store'[b] = store[b]
        \/ LET s == StripeIdx(b) IN
             /\ Promise!Writes(s) /\ b \in Promise!ReqBlocks(Head(Queue[s]))
             /\ store'[b] = Promise!Written(Head(Queue[s]), b)
  BY <1>5 DEF Promise!Written, Data
<1> QED
  BY <1>2, <1>3, <1>4, <1>6, <1>7, <1>8, <1>9
  DEF Promise!Crash, Queue, Result, Faults

\* A request that goes on to its next lower I/O.
LEMMA MapAwait ==
  ASSUME StoreInv, NEW r \in Reqs, ResumeFrame(r), NEW ph \in Active,
         NEW l, Await(r, ph, l), \A q \in Reqs \ {r} : got'[q] = got[q],
         UNCHANGED <<status, store, torn>>
  PROVE  UNCHANGED Promise!vars
<1>1. TypeOK /\ NoteInv(r)  BY DEF StoreInv, RowInv, QueueInv, PromiseInv
<1>2. /\ phase[r] \in Active
      /\ UNCHANGED <<inbox, pending, req, dead, readErrors, writeErrors>>
  BY DEF ResumeFrame, MayRun
<1>3. \A q \in Reqs : phase'[q] = IF q = r THEN ph ELSE phase[q]
  BY <1>1 DEF Await, TypeOK
<1>4. Queue' = Queue
  <2>1. phase[r] # "unsent" /\ ph # "unsent"
    BY <1>2 DEF Active, Reading, Writing
  <2> QED  BY <1>2, <1>3, <2>1, QueueStill
<1>5. Result' = Result
  <2>1. status[r] = "none"
    BY <1>1, <1>2 DEF NoteInv, Active, Reading, Writing
  <2>2. Mute(r) /\ Mute(r)'  BY <2>1 DEF Mute
  <2> QED  BY <1>2, <2>2, ResultKept
<1>6. Faults' = Faults  BY <1>2 DEF Faults
<1> QED  BY <1>2, <1>4, <1>5, <1>6, Stutter

\* A request that is answered as the promise has it leaves the queue.
LEMMA MapAnswer ==
  ASSUME StoreInv, NEW r \in Reqs, ResumeFrame(r), NEW st, Reply(r, st),
         Promise!ReadDone(r) \/ Promise!WriteDone(r) \/ Promise!Failed(r)
  PROVE  \E s \in Stripes : Promise!Answer(s)
<1>1. QueueInv  BY DEF StoreInv, RowInv
<1>2. /\ phase[r] \in Active
      /\ UNCHANGED <<inbox, pending, req, dead, readErrors, writeErrors>>
  BY DEF ResumeFrame, MayRun
<1>3. phase' = [phase EXCEPT ![r] = "done"]  BY DEF Reply
<1>4. PICK s \in Stripes :
        /\ s = Stripe(r) /\ Queue[s] # <<>> /\ Head(Queue[s]) = r
        /\ Queue' = [Queue EXCEPT ![s] = Tail(@)]
  BY <1>1, <1>2, <1>3, ServedFirst, QueueReply
<1>5. Faults' = Faults  BY <1>2 DEF Faults
<1>6. Promise!Answer(s)
  BY <1>2, <1>4, <1>5 DEF Promise!Answer, Queue, Faults
<1> QED  BY <1>6

\* Disjoint sets count for their sum.
LEMMA DisjointSum ==
  ASSUME NEW A, NEW B, IsFiniteSet(A), IsFiniteSet(B), A \cap B = {}
  PROVE  Cardinality(A \cup B) = Cardinality(A) + Cardinality(B)
<1>1. Cardinality(A \cup B)
        = Cardinality(A) + Cardinality(B) - Cardinality(A \cap B)
  BY FS_Union
<1>2. Cardinality(A \cap B) = 0  BY FS_EmptySet
<1>3. Cardinality(A) \in Nat /\ Cardinality(B) \in Nat
  BY FS_CardinalityType
<1> QED  BY ONLY <1>1, <1>2, <1>3

\* What a request could not read is the fault of a disk each.
LEMMA FaultsSeen ==
  ASSUME StoreInv, NEW r \in Reqs, phase[r] \in Reading,
         NEW S \in SUBSET Missed(r)
  PROVE  Cardinality(S) <= Faults /\ Faults \in Nat
<1>1. TypeOK /\ BlameInv(r)  BY DEF StoreInv, RowInv, QueueInv, PromiseInv
<1>2. /\ IsFiniteSet(S \cap dead) /\ IsFiniteSet(S \ dead)
      /\ IsFiniteSet(dead) /\ IsFiniteSet(Missed(r) \ dead)
  <2>1. IsFiniteSet(dead)  BY <1>1, DisksFinite, FS_Subset DEF TypeOK
  <2>2. IsFiniteSet(Missed(r)) /\ IsFiniteSet(Missed(r) \ dead)
    BY MissedFinite
  <2> QED  BY <2>1, <2>2, FS_Subset
<1>3. /\ Cardinality(S \cap dead) \in Nat /\ Cardinality(S \ dead) \in Nat
      /\ Cardinality(dead) \in Nat /\ Cardinality(Missed(r) \ dead) \in Nat
  BY <1>2, FS_CardinalityType
<1>4. Cardinality(S) = Cardinality(S \cap dead) + Cardinality(S \ dead)
  <2>1. \A A, B : IsFiniteSet(A) /\ IsFiniteSet(B) /\ A \cap B = {} =>
          Cardinality(A \cup B) = Cardinality(A) + Cardinality(B)
    BY DisjointSum
  <2>2. (S \cap dead) \cup (S \ dead) = S /\ (S \cap dead) \cap (S \ dead) = {}
    OBVIOUS
  <2> QED  BY <1>2, <2>1, <2>2
<1>5. Cardinality(S \cap dead) <= Cardinality(dead)
  <2>1. S \cap dead \subseteq dead  OBVIOUS
  <2> QED  BY <1>2, <2>1, FS_Subset
<1>6. Cardinality(S \ dead) <= Cardinality(Missed(r) \ dead)
  <2>1. S \ dead \subseteq Missed(r) \ dead  OBVIOUS
  <2> QED  BY <1>2, <2>1, FS_Subset
<1>7. Cardinality(Missed(r) \ dead) <= readErrors /\ readErrors \in Nat
  <2>1. readErrors \in Nat  BY <1>1, Raid5Assumption DEF TypeOK
  <2> QED  BY <1>1, <2>1 DEF BlameInv
<1> QED  BY <1>3, <1>4, <1>5, <1>6, <1>7 DEF Faults

\* The result of a request that fails.
LEMMA FailedResult ==
  ASSUME StoreInv, NEW r \in Reqs, ResumeFrame(r), Reply(r, "Failure"),
         \A q \in Reqs \ {r} : got'[q] = got[q]
  PROVE  Result' = Result /\ status' = [status EXCEPT ![r] = "Failure"]
<1>1. TypeOK /\ NoteInv(r)  BY DEF StoreInv, RowInv, QueueInv, PromiseInv
<1>2. phase[r] \in Active /\ UNCHANGED req  BY DEF ResumeFrame, MayRun
<1>3. status' = [status EXCEPT ![r] = "Failure"]  BY DEF Reply
<1>4. \A q \in Reqs : status'[q] = IF q = r THEN "Failure" ELSE status[q]
  BY <1>1, <1>3 DEF TypeOK
<1>5. status[r] = "none"
  BY <1>1, <1>2 DEF NoteInv, Active, Reading, Writing
<1>6. Mute(r) /\ Mute(r)'  BY <1>4, <1>5 DEF Mute
<1> QED  BY <1>2, <1>3, <1>4, <1>6, ResultKept

\* A read fails over two disks that it could not read: two faults.
LEMMA ReadFailed ==
  ASSUME StoreInv, NEW r \in Reqs, ResumeFrame(r), Reply(r, "Failure"),
         Release(r), UNCHANGED <<store, torn>>,
         phase[r] \in {"read", "readrec"},
         NEW S \in SUBSET Missed(r), Cardinality(S) >= 2
  PROVE  Promise!Failed(r)
<1>1. QueueInv /\ TypeOK  BY DEF StoreInv, RowInv, QueueInv
<1>2. \A q \in Reqs \ {r} : got'[q] = got[q]
  BY <1>1 DEF Release, TypeOK
<1>3. Result' = Result /\ status' = [status EXCEPT ![r] = "Failure"]
  BY <1>2, FailedResult
<1>4. req[r].op = "read"  BY <1>1 DEF QueueInv, ShapeInv
<1>5. Faults >= 2
  <2>1. IsFiniteSet(S)  BY MissedFinite, FS_Subset
  <2>2. Cardinality(S) \in Nat  BY <2>1, FS_CardinalityType
  <2>3. Cardinality(S) <= Faults /\ Faults \in Nat
    BY FaultsSeen DEF Reading
  <2> QED  BY <2>2, <2>3
<1> QED  BY <1>3, <1>4, <1>5 DEF Promise!Failed, Result, Faults

\* A read that is answered with blocks that are wrong on one disk at most.
LEMMA ReadAnswered ==
  ASSUME StoreInv, NEW r \in Reqs, ResumeFrame(r), Reply(r, "Success"),
         phase[r] \in {"read", "readrec"}, UNCHANGED <<store, torn>>,
         \A q \in Reqs \ {r} : got'[q] = got[q],
         NEW l,
         \A b \in ReqBlocks(r) :
           got'[r][DiskOf(b)][OffsetIn(b)] # store[b] =>
             DiskOf(b) = l /\ Stripe(r) \in torn /\ Faults >= 1
  PROVE  Promise!ReadDone(r)
<1>1. QueueInv /\ TypeOK  BY DEF StoreInv, RowInv, QueueInv
<1>2. phase[r] \in Active /\ UNCHANGED req  BY DEF ResumeFrame, MayRun
<1>3. req[r] \in Shapes /\ req[r].op = "read" /\ ~Crosses(r)
  BY <1>1, <1>2, ActiveFacts DEF QueueInv, ShapeInv
<1>4. req[r] # NoShape  BY <1>3, Raid5Assumption
<1>5. status' = [status EXCEPT ![r] = "Success"]  BY DEF Reply
<1>6. \A q \in Reqs : status'[q] = IF q = r THEN "Success" ELSE status[q]
  BY <1>1, <1>5 DEF TypeOK
<1>7. Result'[r] = [b \in ReqBlocks(r) |-> got'[r][DiskOf(b)][OffsetIn(b)]]
  BY <1>2, <1>3, <1>4, <1>6, SameShape DEF Result, Returned
<1>8. \A q \in Reqs \ {r} : Result'[q] = Result[q]
  BY <1>2, <1>6 DEF Result, Returned, ReqBlocks
<1>9. Result' = [Result EXCEPT ![r] = Result'[r]]
  <2>1. Result' = [q \in Reqs |-> Result'[q]]  BY DEF Result
  <2> QED  BY <1>8, <2>1 DEF Result
<1> DEFINE wrong == {b \in ReqBlocks(r) : Result'[r][b] # store[b]}
<1>10. \A b \in wrong : DiskOf(b) = l /\ Stripe(r) \in torn /\ Faults >= 1
  BY <1>7
<1>11. /\ wrong # {} => StripeIdx(req[r].first) \in torn /\ Faults >= 1
       /\ \A b, c \in wrong : DiskOf(b) = DiskOf(c)
  <2>1. Stripe(r) = StripeIdx(req[r].first)  BY DEF Stripe
  <2> HIDE DEF wrong
  <2> QED  BY <1>10, <2>1
<1>12. ~Promise!Crosses(r)  BY <1>3, CrossesSeen
<1>13. Promise!ReqBlocks(r) = ReqBlocks(r)
  BY DEF Promise!ReqBlocks, ReqBlocks
<1>14. DOMAIN Result'[r] = ReqBlocks(r)  BY <1>7
<1> QED
  BY <1>3, <1>5, <1>9, <1>11, <1>12, <1>13, <1>14
  DEF Promise!ReadDone, Result, Faults

\* The place of a block of the request.
LEMMA ReqBlockPlace ==
  ASSUME QueueInv, NEW r \in Reqs, phase[r] \in Active,
         NEW b \in ReqBlocks(r)
  PROVE  \E d \in Disks \ {Parity(r)}, o \in Offsets :
           /\ d = DiskOf(b) /\ o = OffsetIn(b) /\ o \in Segment(r, d)
           /\ Before(Stripe(r), o)[d] = store[b]
<1>1. b \in Blocks /\ StripeIdx(b) = Stripe(r)
  BY ActiveFacts, InsideStripe
<1>2. PICK d \in Disks, o \in Offsets, s \in Stripes :
        /\ d = DiskOf(b) /\ o = OffsetIn(b) /\ s = Stripe(r)
        /\ d # ParityDisk(s) /\ BlockAt(s, d, o) = b
  BY <1>1, BlockPlace
<1>3. \A e \in Disks \ {ParityDisk(s)} :
        Before(s, o)[e] = store[BlockAt(s, e, o)]
  BY ONLY s \in Stripes, o \in Offsets, BeforeFacts
<1>4. o \in Segment(r, d)  BY <1>2 DEF Segment
<1> QED  BY <1>2, <1>3, <1>4 DEF Parity

\* A read whose disks all answered returns the blocks of the store.
LEMMA MapRead ==
  ASSUME StoreInv, NEW r \in Reqs, ResumeFrame(r), phase[r] = "read",
         Busy(r) = {}, Bad(r) = {}, Reply(r, "Success"), UNCHANGED got,
         UNCHANGED <<store, torn>>
  PROVE  Promise!ReadDone(r)
<1>1. QueueInv /\ TypeOK /\ LowerInv(r) /\ GotInv(r) /\ phase[r] \in Active
  BY DEF StoreInv, RowInv, QueueInv, RequestInv, Active, Reading
<1>2. ASSUME NEW b \in ReqBlocks(r)
      PROVE  got'[r][DiskOf(b)][OffsetIn(b)] = store[b]
  <2>1. PICK d \in Disks \ {Parity(r)}, o \in Offsets :
          /\ d = DiskOf(b) /\ o = OffsetIn(b) /\ o \in Segment(r, d)
          /\ Before(Stripe(r), o)[d] = store[b]
    BY <1>1, ReqBlockPlace
  <2>2. \A l : Extent(r, "read", l, d) = Segment(r, d)  BY DEF Extent
  <2>3. io[r][d] # "none"  BY <1>1, <2>1, <2>2 DEF LowerInv
  <2>4. io[r][d] = "ok"
    BY <1>1, <2>3 DEF TypeOK, IoState, Busy, Bad
  <2>5. FirstRead(r) = "read" /\ phase[r] \in Reading
    BY DEF FirstRead, Reading
  <2>6. got[r][d][o] = Before(Stripe(r), o)[d]
    BY <1>1, <2>1, <2>2, <2>4, <2>5 DEF GotInv
  <2> QED  BY <2>1, <2>6
<1>3. \A q \in Reqs \ {r} : got'[q] = got[q]  OBVIOUS
<1> QED  BY <1>2, <1>3, ReadAnswered

\* The block of the disk left out is right unless the stripe is torn.
LEMMA RebuiltFresh ==
  ASSUME StoreInv, NEW r \in Reqs, phase[r] = "readrec",
         Busy(r) = {}, Bad(r) = {}, Stripe(r) \notin torn,
         NEW o \in Offsets, o \in Segment(r, lost[r]), lost[r] # Parity(r)
  PROVE  acc[r][o] = Before(Stripe(r), o)[lost[r]]
<1>1. /\ QueueInv /\ TypeOK /\ LowerInv(r) /\ FreshInv(r)
      /\ phase[r] \in Active
  BY DEF StoreInv, RowInv, QueueInv, RequestInv, PromiseInv, Active, Reading
<1>2. PICK l \in Disks : l = lost[r]  BY <1>1 DEF LowerInv
<1>3. \A e \in Disks : Extent(r, "readrec", l, e) = {} <=> e = l
  <2>1. o \in IF l = Parity(r) THEN Offsets ELSE Segment(r, l)
    BY <1>2
  <2> QED  BY <2>1 DEF Extent
<1>4. \A e \in Disks : io[r][e] = "none" <=> e = l
  BY <1>1, <1>2, <1>3 DEF LowerInv
<1>5. \A e \in Disks : io[r][e] = "ok" <=> e # l
  BY <1>1, <1>4 DEF TypeOK, IoState, Busy, Bad
<1>6. Arrived(r) = Disks \ {l}  BY <1>5 DEF Arrived
<1>7. \A d \in dead \ {l} : io[r][d] = "ok"  BY <1>1, <1>5 DEF TypeOK
<1>8. acc[r][o] = Xor(Before(Stripe(r), o), Disks \ {l})
  BY <1>1, <1>2, <1>6, <1>7 DEF FreshInv
<1>9. Xor(Before(Stripe(r), o), Disks \ {l}) = Before(Stripe(r), o)[l]
  <2>1. Stripe(r) \in Stripes  BY <1>1, ActiveFacts
  <2> QED  BY <2>1, BeforeFacts
<1> QED  BY <1>2, <1>8, <1>9

\* A read that rebuilt a block returns the blocks of the store, or what the
\* promise allows of a stripe that is torn.
LEMMA MapRecover ==
  ASSUME StoreInv, NEW r \in Reqs, ResumeFrame(r), RecoverStep(r)
  PROVE  Promise!ReadDone(r)
<1>1. /\ phase[r] = "readrec" /\ Busy(r) = {} /\ Bad(r) = {}
      /\ got' = [got EXCEPT ![r][lost[r]] = acc[r]]
      /\ Reply(r, "Success") /\ UNCHANGED <<store, torn>>
  BY DEF RecoverStep, Ends
<1>2. QueueInv /\ TypeOK /\ LowerInv(r) /\ GotInv(r) /\ phase[r] \in Active
  BY <1>1 DEF StoreInv, RowInv, QueueInv, RequestInv, Active, Reading
<1>3. PICK l \in Disks : l = lost[r]  BY <1>1, <1>2 DEF LowerInv
<1>4. /\ \A d \in Disks : got'[r][d] = IF d = l THEN acc[r] ELSE got[r][d]
      /\ \A q \in Reqs \ {r} : got'[q] = got[q]
  BY <1>1, <1>2, <1>3 DEF TypeOK
<1>5. Faults >= 1
  <2>1. {l} \in SUBSET Missed(r)  BY <1>3 DEF Missed
  <2>2. Cardinality({l}) = 1  BY FS_Singleton
  <2>3. Cardinality({l}) <= Faults /\ Faults \in Nat
    BY <1>1, <2>1, FaultsSeen DEF Reading
  <2> QED  BY <2>2, <2>3
<1>6. ASSUME NEW b \in ReqBlocks(r),
             got'[r][DiskOf(b)][OffsetIn(b)] # store[b]
      PROVE  DiskOf(b) = l /\ Stripe(r) \in torn
  <2>1. PICK d \in Disks \ {Parity(r)}, o \in Offsets :
          /\ d = DiskOf(b) /\ o = OffsetIn(b) /\ o \in Segment(r, d)
          /\ Before(Stripe(r), o)[d] = store[b]
    BY <1>2, ReqBlockPlace
  <2>2. ASSUME d # l PROVE FALSE
    <3>1. Extent(r, "read", NoDisk, d) = Segment(r, d)  BY DEF Extent
    <3>2. FirstRead(r) = "read" /\ phase[r] \in Reading
      BY <1>1 DEF FirstRead, Reading
    <3>3. got[r][d][o] = Before(Stripe(r), o)[d]
      BY <1>1, <1>2, <1>3, <2>1, <2>2, <3>1, <3>2 DEF GotInv
    <3> QED  BY <1>4, <1>6, <2>1, <2>2, <3>3
  <2>3. ASSUME d = l, Stripe(r) \notin torn PROVE FALSE
    <3>1. acc[r][o] = Before(Stripe(r), o)[d]
      BY <1>1, <1>3, <2>1, <2>3, RebuiltFresh
    <3> QED  BY <1>4, <1>6, <2>1, <2>3, <3>1
  <2> QED  BY <2>1, <2>2, <2>3
<1> QED  BY <1>1, <1>4, <1>5, <1>6, ReadAnswered

\* Two disks that a rebuild could not read: the one left out and another.
LEMMA GaveUp ==
  ASSUME StoreInv, NEW r \in Reqs, phase[r] \in {"readrec", "oldrec"},
         Bad(r) # {}
  PROVE  \E S \in SUBSET Missed(r) : Cardinality(S) = 2
<1>1. /\ QueueInv /\ TypeOK /\ LowerInv(r) /\ phase[r] \in Active
  BY DEF StoreInv, RowInv, QueueInv, RequestInv, Active, Reading
<1>2. PICK l \in Disks : l = lost[r]  BY <1>1 DEF LowerInv
<1>3. PICK d \in Bad(r) : d \in Disks /\ io[r][d] = "bad"  BY DEF Bad
<1>4. d # l
  <2>1. Extent(r, phase[r], l, l) = {}  BY DEF Extent
  <2>2. io[r][l] = "none"  BY <1>1, <1>2, <2>1 DEF LowerInv
  <2> QED  BY <1>3, <2>2
<1>5. {l, d} \in SUBSET Missed(r)  BY <1>2, <1>3 DEF Missed
<1>6. Cardinality({l} \cup {d}) = 2
  <2>1. /\ IsFiniteSet({l}) /\ Cardinality({l}) = 1 /\ d \notin {l}
    BY <1>4, FS_Singleton
  <2>2. Cardinality({l} \cup {d}) = Cardinality({l}) + 1
    BY <2>1, FS_AddElement
  <2> QED  BY <2>1, <2>2
<1>7. {l, d} = {l} \cup {d}  OBVIOUS
<1> QED  BY <1>5, <1>6, <1>7

\* A write that fails, with what has landed of it.
LEMMA WriteFailed ==
  ASSUME StoreInv, NEW r \in Reqs, ResumeFrame(r), Reply(r, "Failure"),
         \A q \in Reqs \ {r} : got'[q] = got[q],
         req[r].op = "write", Faults + writeErrors >= 1,
         NEW W \in SUBSET ReqBlocks(r),
         store' = [b \in Blocks |-> IF b \in W THEN Data(r, b) ELSE store[b]],
         torn' \in {torn, torn \ {s \in Stripes : Promise!Covers(r, s)}}
  PROVE  Promise!Failed(r)
<1>1. Result' = Result /\ status' = [status EXCEPT ![r] = "Failure"]
  BY FailedResult
<1>2. Promise!ReqBlocks(r) = ReqBlocks(r)
  BY DEF Promise!ReqBlocks, ReqBlocks
<1>3. Promise!WriteTo(r, W)
  BY DEF Promise!WriteTo, Promise!Written, Data
<1>4. \E V \in SUBSET Promise!ReqBlocks(r) : Promise!WriteTo(r, V)
  BY <1>2, <1>3
<1> QED  BY <1>1, <1>4 DEF Promise!Failed, Result, Faults

\* A partial write that cannot read what it needs leaves the store alone.
LEMMA OldFailed ==
  ASSUME StoreInv, NEW r \in Reqs, ResumeFrame(r), Reply(r, "Failure"),
         Release(r), UNCHANGED <<store, torn>>,
         phase[r] \in {"old", "oldrec"}, Bad(r) # {}
  PROVE  Promise!Failed(r)
<1>1. QueueInv /\ TypeOK  BY DEF StoreInv, RowInv, QueueInv
<1>2. \A q \in Reqs \ {r} : got'[q] = got[q]
  BY <1>1 DEF Release, TypeOK
<1>3. req[r].op = "write"  BY <1>1 DEF QueueInv, ShapeInv
<1>4. Faults + writeErrors >= 1
  <2>1. PICK d : d \in Bad(r)  OBVIOUS
  <2>2. {d} \in SUBSET Missed(r)  BY <2>1 DEF Missed
  <2>3. Cardinality({d}) = 1  BY FS_Singleton
  <2>4. Cardinality({d}) <= Faults /\ Faults \in Nat
    BY <2>2, FaultsSeen DEF Reading
  <2>5. writeErrors \in Nat  BY <1>1, Raid5Assumption DEF TypeOK
  <2> QED  BY <2>3, <2>4, <2>5
<1>5. store' = [b \in Blocks |-> IF b \in {} THEN Data(r, b) ELSE store[b]]
  BY <1>1 DEF TypeOK
<1>6. {} \in SUBSET ReqBlocks(r)  OBVIOUS
<1> QED  BY <1>2, <1>3, <1>4, <1>5, <1>6, WriteFailed

\* A write covers a stripe exactly when it is a full-stripe write of it.
LEMMA CoversSeen ==
  ASSUME QueueInv, NEW r \in Reqs, NoteInv(r), phase[r] \in Writing,
         NEW s \in Stripes
  PROVE  Promise!Covers(r, s) <=> phase[r] = "full" /\ s = Stripe(r)
<1>1. phase[r] \in Active  BY DEF Active
<1>2. /\ req[r] \in Shapes /\ ~Crosses(r)
      /\ phase[r] = "full" <=> FullStripe(r)
  BY <1>1, ActiveFacts DEF QueueInv, ShapeInv, NoteInv, Writing
<1>3. Promise!Covers(r, s)
        <=> \A b \in Blocks : StripeIdx(b) = s => b \in ReqBlocks(r)
  BY DEF Promise!Covers, Promise!ReqBlocks, ReqBlocks
<1>4. ASSUME FullStripe(r), s = Stripe(r), NEW b \in Blocks, StripeIdx(b) = s
      PROVE  b \in ReqBlocks(r)
  <2>1. PICK d \in Disks \ {ParityDisk(s)}, o \in Offsets :
          BlockAt(s, d, o) = b
    BY <1>4, BlockPlace
  <2>2. d \in Disks \ {Parity(r)}  BY <1>4 DEF Parity
  <2>3. BlockAt(Stripe(r), d, o) \in ReqBlocks(r)
    BY <1>2, <1>4, <2>2, WholeStripe
  <2> QED  BY <1>4, <2>1, <2>3
<1>5. ASSUME \A b \in Blocks : StripeIdx(b) = s => b \in ReqBlocks(r)
      PROVE  FullStripe(r) /\ s = Stripe(r)
  <2> DEFINE first == req[r].first
             len == req[r].len
             x == StripeOffset(first)
             low == s * StripeBlocks + 0
             high == s * StripeBlocks + (StripeBlocks - 1)
  <2>1. s \in Nat /\ s \in 0..(NStripes - 1)  BY Sizes DEF Stripes
  <2>2. /\ 0 \in 0..(StripeBlocks - 1)
        /\ StripeBlocks - 1 \in 0..(StripeBlocks - 1)
    BY Sizes
  <2>3. low \in Blocks /\ high \in Blocks
    BY <2>1, <2>2, Sizes, PlaceBelow DEF Blocks
  <2>4. StripeIdx(low) = s /\ StripeIdx(high) = s
    BY <2>1, <2>2, Sizes, DivModUnique DEF StripeIdx
  <2>5. low \in ReqBlocks(r) /\ high \in ReqBlocks(r)
    <3> HIDE DEF low, high
    <3> QED  BY <1>5, <2>3, <2>4
  <2>6. s = Stripe(r)
    <3> HIDE DEF low
    <3> QED  BY <1>2, <2>4, <2>5, InsideStripe
  <2>7. first \in Nat /\ len \in Nat \ {0}
    <3>1. first \in Nat /\ len \in Nat \ {0}  BY <1>2, ShapePlace
    <3> QED  BY <3>1
  <2>8. /\ x \in 0..(StripeBlocks - 1)
        /\ first = s * StripeBlocks + x
    <3>1. s = first \div StripeBlocks  BY <2>6 DEF Stripe, StripeIdx
    <3> HIDE DEF first
    <3> QED  BY <2>7, <3>1, Sizes, DivMod DEF StripeOffset
  <2>9. ReqBlocks(r) = first .. (first + len - 1)  BY DEF ReqBlocks
  <2>10. x + len <= StripeBlocks
    <3>1. ~(x + len > StripeBlocks)  BY <1>2 DEF Crosses
    <3> HIDE DEF x, len
    <3> QED  BY <2>7, <2>8, <3>1, Sizes
  <2>11. x = 0 /\ len = StripeBlocks
    <3> DEFINE A == s * StripeBlocks
    <3>1. A \in Nat  BY <2>1, Sizes
    <3>2. /\ first = A + x
          /\ A + 0 \in first .. (first + len - 1)
          /\ A + (StripeBlocks - 1) \in first .. (first + len - 1)
      BY <2>5, <2>8, <2>9
    <3> HIDE DEF A, first, len, x
    <3> QED  BY <2>7, <2>8, <2>10, <3>1, <3>2, Sizes
  <2> QED  BY <2>6, <2>11 DEF FullStripe
<1> QED  BY <1>2, <1>3, <1>4, <1>5

\* The end of a write: the blocks that have landed, or all of them.
LEMMA MapEnd ==
  ASSUME StoreInv, NEW r \in Reqs, ResumeFrame(r), EndStep(r)
  PROVE  Promise!WriteDone(r) \/ Promise!Failed(r)
<1>1. QueueInv /\ TypeOK /\ NoteInv(r) /\ BlameInv(r)
  BY DEF StoreInv, RowInv, QueueInv, PromiseInv
<1>2. /\ phase[r] \in Writing /\ phase[r] \in Active
      /\ UNCHANGED <<req, got>>
      /\ torn' = IF phase[r] = "full" /\ Bad(r) \subseteq dead
                   THEN torn \ {Stripe(r)} ELSE torn
  BY DEF EndStep, ResumeFrame, Active
<1>3. PICK st \in {"Success", "Failure"} :
        /\ st = "Success" <=> Bad(r) = {}
        /\ Reply(r, st) /\ Settle(r, st)
  BY DEF EndStep, Ends
<1>4. req[r].op = "write" /\ req[r] \in Shapes /\ ~Crosses(r)
  BY <1>1, <1>2, ActiveFacts DEF QueueInv, ShapeInv, Writing
<1>5. {s \in Stripes : Promise!Covers(r, s)}
        = IF phase[r] = "full" THEN {Stripe(r)} ELSE {}
  BY <1>1, <1>2, CoversSeen, ActiveFacts
<1>6. CASE st = "Success"
  <2>1. Bad(r) = {}  BY <1>3, <1>6
  <2>2. torn' = torn \ {s \in Stripes : Promise!Covers(r, s)}
    BY <1>2, <1>5, <2>1
  <2>3. store' = [b \in Blocks |->
                    IF b \in ReqBlocks(r) THEN Data(r, b) ELSE store[b]]
    BY <1>3, <1>6 DEF Settle, Landed
  <2>4. Promise!ReqBlocks(r) = ReqBlocks(r)
    BY DEF Promise!ReqBlocks, ReqBlocks
  <2>5. Promise!WriteTo(r, Promise!ReqBlocks(r))
    BY <2>3, <2>4 DEF Promise!WriteTo, Promise!Written, Data
  <2>6. status' = [status EXCEPT ![r] = "Success"]
    BY <1>3, <1>6 DEF Reply
  <2>7. Result' = Result
    <3>1. \A q \in Reqs : status'[q] = IF q = r THEN "Success" ELSE status[q]
      BY <1>1, <2>6 DEF TypeOK
    <3>2. req[r] # NoShape  BY <1>4, Raid5Assumption
    <3>3. Mute(r) /\ Mute(r)'  BY <1>2, <1>4, <3>2 DEF Mute
    <3> QED  BY <1>2, <3>1, <3>3, ResultKept
  <2>8. ~Promise!Crosses(r)  BY <1>4, CrossesSeen
  <2>9. Promise!WriteDone(r)
    BY <1>4, <2>2, <2>5, <2>6, <2>7, <2>8 DEF Promise!WriteDone, Result
  <2> QED  BY <2>9
<1>7. CASE st = "Failure"
  <2> DEFINE W == {b \in ReqBlocks(r) : Landed(r, b)}
  <2>1. store' = [b \in Blocks |-> IF b \in W THEN Data(r, b) ELSE store[b]]
    BY <1>3, <1>7 DEF Settle, Landed
  <2>2. torn' \in {torn, torn \ {s \in Stripes : Promise!Covers(r, s)}}
    BY <1>2, <1>5
  <2>3. Faults + writeErrors >= 1
    <3>1. dead # {} \/ writeErrors >= 1
      BY <1>1, <1>2, <1>3, <1>7 DEF BlameInv
    <3>2. IsFiniteSet(dead)  BY <1>1, DisksFinite, FS_Subset DEF TypeOK
    <3>3. Cardinality(dead) \in Nat /\ (dead # {} => Cardinality(dead) # 0)
      BY <3>2, FS_CardinalityType, FS_EmptySet
    <3>4. readErrors \in Nat /\ writeErrors \in Nat
      BY <1>1, Raid5Assumption DEF TypeOK
    <3> QED  BY <3>1, <3>3, <3>4 DEF Faults
  <2>4. W \in SUBSET ReqBlocks(r)  OBVIOUS
  <2>5. \A q \in Reqs \ {r} : got'[q] = got[q]  BY <1>2
  <2>6. Reply(r, "Failure")  BY <1>3, <1>7
  <2> HIDE DEF W
  <2> QED  BY <1>4, <2>1, <2>2, <2>3, <2>4, <2>5, <2>6, WriteFailed
<1> QED  BY <1>6, <1>7

\* A request that resumes is answered as the promise says, or goes on unseen.
LEMMA MapResume ==
  ASSUME StoreInv, NEW r \in Reqs, Resume(r)
  PROVE  UNCHANGED Promise!vars \/ \E s \in Stripes : Promise!Answer(s)
<1>1. QueueInv /\ TypeOK  BY DEF StoreInv, RowInv, QueueInv
<1>2. ResumeFrame(r) /\ \/ ReadStep(r) \/ RecoverStep(r) \/ GiveUpStep(r)
                        \/ OldStep(r) \/ NewStep(r) \/ EndStep(r)
  BY <1>1, ResumeCases DEF TypeOK
<1>3. Release(r) => \A q \in Reqs \ {r} : got'[q] = got[q]
  BY <1>1 DEF Release, TypeOK
<1>4. ASSUME NEW ph \in Active, Rebuilds(r, ph), UNCHANGED <<store, torn>>
      PROVE  UNCHANGED Promise!vars
  <2>1. (\E l \in Disks : Await(r, ph, l)) /\ UNCHANGED <<got, status>>
    BY <1>4 DEF Rebuilds
  <2> QED  BY <1>2, <1>4, <2>1, MapAwait
<1>5. ASSUME NEW old, WriteNew(r, old), UNCHANGED <<store, torn>>
      PROVE  UNCHANGED Promise!vars
  <2>1. Await(r, "new", NoDisk) /\ Release(r) /\ UNCHANGED status
    BY <1>5 DEF WriteNew
  <2>2. "new" \in Active  BY DEF Active, Writing
  <2> QED  BY <1>2, <1>3, <1>5, <2>1, <2>2, MapAwait
<1>6. CASE ReadStep(r)
  <2>1. phase[r] = "read" /\ Busy(r) = {} /\ UNCHANGED <<store, torn>>
    BY <1>6 DEF ReadStep
  <2>2. CASE Bad(r) = {} /\ Ends(r, "Success") /\ UNCHANGED got
    <3>1. Reply(r, "Success")  BY <2>2 DEF Ends
    <3>2. Promise!ReadDone(r)  BY <1>2, <2>1, <2>2, <3>1, MapRead
    <3> QED  BY <1>2, <3>1, <3>2, MapAnswer
  <2>3. CASE Rebuilds(r, "readrec")
    <3>1. "readrec" \in Active  BY DEF Active, Reading
    <3> QED  BY <1>4, <2>1, <2>3, <3>1
  <2>4. CASE Cardinality(Bad(r)) >= 2 /\ Ends(r, "Failure") /\ Release(r)
    <3>1. Reply(r, "Failure")  BY <2>4 DEF Ends
    <3>2. Bad(r) \in SUBSET Missed(r)  BY DEF Missed
    <3>3. Promise!Failed(r)
      BY <1>2, <2>1, <2>4, <3>1, <3>2, ReadFailed
    <3> QED  BY <1>2, <3>1, <3>3, MapAnswer
  <2> QED  BY <1>6, <2>2, <2>3, <2>4 DEF ReadStep
<1>7. CASE RecoverStep(r)
  <2>1. Reply(r, "Success")  BY <1>7 DEF RecoverStep, Ends
  <2>2. Promise!ReadDone(r)  BY <1>2, <1>7, MapRecover
  <2> QED  BY <1>2, <2>1, <2>2, MapAnswer
<1>8. CASE GiveUpStep(r)
  <2>1. /\ phase[r] \in {"readrec", "oldrec"} /\ Bad(r) # {}
        /\ Reply(r, "Failure") /\ Release(r) /\ UNCHANGED <<store, torn>>
    BY <1>8 DEF GiveUpStep, Ends
  <2>2. CASE phase[r] = "readrec"
    <3>1. PICK S \in SUBSET Missed(r) : Cardinality(S) = 2
      BY <2>1, GaveUp
    <3>2. Cardinality(S) >= 2  BY <3>1
    <3>3. Promise!Failed(r)  BY <1>2, <2>1, <2>2, <3>2, ReadFailed
    <3> QED  BY <1>2, <2>1, <3>3, MapAnswer
  <2>3. CASE phase[r] = "oldrec"
    <3>1. Promise!Failed(r)  BY <1>2, <2>1, <2>3, OldFailed
    <3> QED  BY <1>2, <2>1, <3>1, MapAnswer
  <2> QED  BY <2>1, <2>2, <2>3
<1>9. CASE OldStep(r)
  <2>1. phase[r] = "old" /\ phase[r] \notin Writing /\ UNCHANGED torn
    BY <1>9 DEF OldStep, Writing
  <2>2. CASE WriteNew(r, got[r]) /\ UNCHANGED store
    BY <1>5, <2>1, <2>2
  <2>3. CASE Rebuilds(r, "oldrec") /\ UNCHANGED store
    <3>1. "oldrec" \in Active  BY DEF Active, Reading
    <3> QED  BY <1>4, <2>1, <2>3, <3>1
  <2>4. CASE /\ Bad(r) # {}
             /\ Ends(r, "Failure") /\ Release(r) /\ Settle(r, "Failure")
    <3>1. UNCHANGED store  BY <1>1, <2>1, <2>4, OldSettles
    <3>2. Reply(r, "Failure")  BY <2>4 DEF Ends
    <3>3. Promise!Failed(r)
      BY <1>2, <2>1, <2>4, <3>1, <3>2, OldFailed
    <3> QED  BY <1>2, <3>2, <3>3, MapAnswer
  <2> QED  BY <1>9, <2>2, <2>3, <2>4 DEF OldStep
<1>10. CASE NewStep(r)
  <2>1. UNCHANGED <<store, torn>> /\ \E old : WriteNew(r, old)
    BY <1>10 DEF NewStep
  <2> QED  BY <1>5, <2>1
<1>11. CASE EndStep(r)
  <2>1. PICK st : Reply(r, st)  BY <1>11 DEF EndStep, Ends
  <2>2. Promise!WriteDone(r) \/ Promise!Failed(r)
    BY <1>2, <1>11, MapEnd
  <2> QED  BY <1>2, <2>1, <2>2, MapAnswer
<1> QED  BY <1>2, <1>6, <1>7, <1>8, <1>9, <1>10, <1>11

\* Every step of the bdev is a step of the promise, or one it does not see.
LEMMA MapNext ==
  ASSUME StoreInv, [Next]_vars
  PROVE  [Promise!Next]_(Promise!vars)
<1>1. CASE UNCHANGED vars
  <2>1. UNCHANGED <<inbox, pending, phase, req, got, status, store, torn,
                    dead, readErrors, writeErrors>>
    BY <1>1 DEF vars, queueVars, reqVars, diskVars
  <2> QED  BY <2>1, QueueStill, MapQuiet
<1>2. ASSUME NEW r \in Reqs, Submit(r) PROVE Promise!Next
  BY <1>2, MapSubmit DEF Promise!Next
<1>3. ASSUME NEW r \in Reqs, Resume(r)
      PROVE  Promise!Next \/ UNCHANGED Promise!vars
  BY <1>3, MapResume DEF Promise!Next
<1>4. ASSUME NEW w \in Workers, Work(w)
      PROVE  Promise!Next \/ UNCHANGED Promise!vars
  BY <1>4, MapWork DEF Promise!Next
<1>5. ASSUME NEW d \in Disks, Die(d) PROVE Promise!Next
  BY <1>5, MapDie DEF Promise!Next
<1>6. CASE Crash  BY <1>6, MapCrash DEF Promise!Next
<1>7. ASSUME NEW r \in Reqs, NEW d \in Disks, Complete(r, d)
      PROVE  Promise!Next \/ UNCHANGED Promise!vars
  BY <1>7, MapComplete DEF Promise!Next
<1> QED  BY <1>1, <1>2, <1>3, <1>4, <1>5, <1>6, <1>7 DEF Next

(* Raid5 implements StripeStore: every behaviour of the workers, their     *)
(* queues and the parity arithmetic is, to the users of the bdev, one of a *)
(* store that answers the requests of a stripe in the order of their       *)
(* submission (enqueue and dequeue, raid5.rs:84-105, the loop of           *)
(* submit_io, 180-187), returns from a read what the last write stored,    *)
(* and fails a request only over a fault (complete_write, 706-746). Lower  *)
(* bdevs are assumed not to use a buffer after submission:                 *)
(* write_full_stripe drops its parity buffer before the writes are         *)
(* answered (673-676).                                                     *)
THEOREM StripesKeepPromise ==
  ASSUME LateDma = FALSE
  PROVE  Spec => Implements
<1>1. StoreInv /\ [Next]_vars => StoreInv'  BY StoreNext
<1>2. StoreInv /\ [Next]_vars => [Promise!Next]_(Promise!vars)  BY MapNext
<1> QED
  BY <1>1, <1>2, StoreInit, PromiseStart, PTL
  DEF Spec, Implements, Promise!Spec

=============================================================================
