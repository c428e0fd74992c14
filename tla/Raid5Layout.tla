---------------------------- MODULE Raid5Layout -----------------------------
(***************************************************************************)
(* Where the RAID5 bdev keeps its data (examples/raid5/src/raid5.rs): the  *)
(* stripe, the disk and the offset of a logical block, and the disk that   *)
(* holds the parity of a stripe.                                           *)
(***************************************************************************)
EXTENDS Integers

CONSTANTS
  NDisks,        \* children of the array, at least 3 (raid5.rs:847-850)
  StripBlocks,   \* blocks of one strip, never 0 (raid5.rs:793-795)
  NStripes       \* stripes of the array

ASSUME LayoutAssumption ==
  /\ NDisks \in Nat /\ NDisks >= 3
  /\ StripBlocks \in Nat \ {0}
  /\ NStripes \in Nat \ {0}

Disks   == 0..(NDisks - 1)
Offsets == 0..(StripBlocks - 1)
Stripes == 0..(NStripes - 1)
Rows    == 0..(NStripes * StripBlocks - 1)

StripeBlocks == (NDisks - 1) * StripBlocks
Blocks       == 0..(NStripes * StripeBlocks - 1)

StripeIdx(b)    == b \div StripeBlocks
StripeOffset(b) == b % StripeBlocks
ParityDisk(s)   == s % NDisks

\* data_disk_idx: the k-th data strip of a stripe, its parity disk skipped.
DataDisk(k, parity) == IF k < parity THEN k ELSE k + 1

DiskOf(b) ==
  DataDisk(StripeOffset(b) \div StripBlocks, ParityDisk(StripeIdx(b)))

OffsetIn(b) == StripeOffset(b) % StripBlocks

\* The block of a disk that holds offset o of its strip in stripe s.
Row(s, o) == s * StripBlocks + o
=============================================================================
