------------------------------ MODULE IoSplit -------------------------------
(***************************************************************************)
(* How a request of the RAID5 bdev is cut into strips without copying its  *)
(* data: the loop of split_strips (examples/raid5/src/raid5.rs:46-76) over *)
(* IoRefSplitter::take and slice_iovs (ironspdk/src/lib.rs:596-658), which *)
(* cut the scatter-gather list. Raid5 uses the closed form of the result,  *)
(* DiskOf and OffsetIn of Raid5Layout; here it is the reference. StripIo   *)
(* goes on with what is read into the strips and written from them.        *)
(*                                                                         *)
(* A byte is named by its buffer and its place in it, so two bytes are     *)
(* equal only if they are the same byte of memory.                         *)
(***************************************************************************)
EXTENDS Raid5Layout, SequencesExt

CONSTANTS
  BlockLen,   \* bytes of a block, never 0
  MaxIovs     \* bound: buffers of a request

ASSUME SplitAssumption == BlockLen \in Nat \ {0} /\ MaxIovs \in Nat \ {0}

VARIABLES
  first,     \* the request: its first block
  len,       \* ... its blocks
  iovs,      \* ... and its scatter-gather list of [buf, base, len]
  cursor,    \* offset in the stripe of what is left of it
  remain,    \* blocks left of it
  bytesCut,  \* IoRefSplitter.cursor_bytes
  strips,    \* the strips cut so far
  panic      \* an expect("short buffer") failed

vars == <<first, len, iovs, cursor, remain, bytesCut, strips, panic>>

Bytes(v) ==
  FlattenSeq([i \in DOMAIN v |->
    [j \in 1..v[i].len |-> <<v[i].buf, v[i].base + j - 1>>]])

\* f[1] + ... + f[k].
SumTo(f, k) ==
  LET sum[i \in 0..k] == IF i = 0 THEN 0 ELSE sum[i - 1] + f[i] IN sum[k]

\* The scatter-gather lists of n bytes; buffers may be empty.
Lists(n) ==
  UNION {{[i \in 1..k |-> [buf |-> i, base |-> 0, len |-> f[i]]] :
            f \in {g \in [1..k -> 0..n] : SumTo(g, k) = n}} :
         k \in 1..MaxIovs}

Stripe == StripeIdx(first)

\* A request that process_req lets through: it stays inside a stripe.
Init ==
  /\ first \in Blocks
  /\ len \in 1..(StripeBlocks - StripeOffset(first))
  /\ iovs \in Lists(len * BlockLen)
  /\ cursor = StripeOffset(first)
  /\ remain = len
  /\ bytesCut = 0
  /\ strips = <<>>
  /\ panic = FALSE

\* An iteration of slice_iovs: skip the buffer, or take a piece of it.
SliceOne(acc, iov) ==
  IF acc.len = 0 THEN acc
  ELSE IF acc.off >= iov.len THEN [acc EXCEPT !.off = @ - iov.len]
  ELSE LET take == Min({iov.len - acc.off, acc.len}) IN
       [off |-> 0, len |-> acc.len - take,
        out |-> Append(acc.out, [iov EXCEPT !.base = @ + acc.off, !.len = take])]

\* slice_iovs: n # 0 bytes from an offset; len # 0 at the end is an error.
Slice(v, off, n) ==
  LET acc[i \in 0..Len(v)] ==
        IF i = 0 THEN [off |-> off, len |-> n, out |-> <<>>]
        ELSE SliceOne(acc[i - 1], v[i])
  IN acc[Len(v)]

\* The blocks of the next strip.
Take == Min({remain, StripBlocks - (cursor % StripBlocks)})

NextDisk == DataDisk(cursor \div StripBlocks, ParityDisk(Stripe))

\* Mutant: every strip is put at the head of its stripe.
NextRow_Base == Row(Stripe, 0)

\* Mutant: the base of the stripe is counted in logical blocks.
NextRow_LogicalBase == Stripe * StripeBlocks + (cursor % StripBlocks)

\* The row of the strip's first block on its disk.
NextRow == Row(Stripe, cursor % StripBlocks)

\* An iteration of the loop of split_strips.
NextStrip ==
  /\ remain # 0 /\ ~panic
  /\ LET n     == Take * BlockLen
         piece == Slice(iovs, bytesCut, n) IN
       IF bytesCut + n > len * BlockLen \/ piece.len # 0
         THEN panic' = TRUE /\ UNCHANGED <<cursor, remain, bytesCut, strips>>
         ELSE /\ strips' = Append(strips,
                   [disk   |-> NextDisk,
                    row    |-> NextRow,
                    blocks |-> Take,
                    iovs   |-> piece.out])
              /\ cursor' = cursor + Take
              /\ remain' = remain - Take
              /\ bytesCut' = bytesCut + n
              /\ UNCHANGED panic
  /\ UNCHANGED <<first, len, iovs>>

Next == NextStrip

Spec == Init /\ [][Next]_vars

-----------------------------------------------------------------------------
TypeOK ==
  /\ first \in Blocks /\ len \in 1..StripeBlocks
  /\ cursor \in 0..StripeBlocks /\ remain \in 0..len
  /\ bytesCut \in 0..(len * BlockLen)
  /\ panic \in BOOLEAN
  /\ \A i \in DOMAIN strips :
       /\ strips[i].disk \in Disks
       /\ strips[i].row \in Rows
       /\ strips[i].blocks \in 1..StripBlocks

\* The blocks that strip i carries.
Before(i) == SumTo([j \in 1..(i - 1) |-> strips[j].blocks], i - 1)
BlocksOf(i) == (first + Before(i)) .. (first + Before(i) + strips[i].blocks - 1)

(* Every block of the request cut so far goes to its own disk and row, and *)
(* the strips carry the blocks of the request in order, none twice; no     *)
(* take runs short of data (the expect of raid5.rs:62).                    *)
Placed ==
  /\ ~panic
  /\ Before(Len(strips) + 1) = len - remain
  /\ \A i \in DOMAIN strips : \A b \in BlocksOf(i) :
       /\ strips[i].disk = DiskOf(b)
       /\ strips[i].row + (b - first - Before(i))
            = Row(StripeIdx(b), OffsetIn(b))
=============================================================================
