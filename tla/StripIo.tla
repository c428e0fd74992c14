------------------------------ MODULE StripIo -------------------------------
(***************************************************************************)
(* The bytes of a request of the RAID5 bdev once IoSplit has cut it: the   *)
(* buffers (DmaBuf and IoBuf), the copy of recovered data into the         *)
(* request's memory (IoRef::copy_from_slice), the sums of parity (xor) and *)
(* the writes of a full and of a partial stripe, on one stripe whose other *)
(* requests are done. Who may run when, and what fails, is in Raid5.       *)
(*                                                                         *)
(* A byte of memory or disk is the set of the bytes it is the exclusive or *)
(* of; the empty set is zero.                                              *)
(***************************************************************************)
EXTENDS IoSplit, BlockXor

VARIABLES
  op,    \* what was done with the request: none, read or write
  mem,   \* the memory of the request
  disk   \* the stripe: the bytes of each disk's strip

allVars == <<vars, op, mem, disk>>

StripBytes == StripBlocks * BlockLen
Parity     == ParityDisk(Stripe)
DataDisks  == Disks \ {Parity}

\* What a disk's strip holds before: data of its own, or their parity.
Old(d, p) == {<<"disk", d, p>>}
Stored ==
  [d \in Disks |-> [p \in 1..StripBytes |->
     IF d = Parity THEN Xor([e \in DataDisks |-> Old(e, p)], DataDisks)
     ELSE Old(d, p)]]

Memory(v) == Range(Bytes(v))

StripInit ==
  /\ Init
  /\ op = "none"
  /\ mem = [m \in Memory(iovs) |-> {<<"mem", m[1], m[2]>>}]
  /\ disk = Stored

-----------------------------------------------------------------------------
(* Buffers                                                                 *)

\* DmaBuf::new_aligned_zeroed.
DmaNewZeroed(n) == [p \in 1..n |-> {}]

\* iter_iov: the pieces of memory of a view, one after the other.
Pieces(m, v) ==
  [i \in DOMAIN v |-> [j \in 1..v[i].len |-> m[<<v[i].buf, v[i].base + j - 1>>]]]

\* xor: the pieces are added to the buffer, from its start on.
XorPiece(acc, piece) ==
  [pos |-> acc.pos + Len(piece),
   dst |-> [p \in DOMAIN acc.dst |->
              IF p - acc.pos \in DOMAIN piece
              THEN Sym(acc.dst[p], piece[p - acc.pos]) ELSE acc.dst[p]]]

XorInto(dst, pieces) ==
  LET acc[i \in 0..Len(pieces)] ==
        IF i = 0 THEN [pos |-> 0, dst |-> dst]
        ELSE XorPiece(acc[i - 1], pieces[i])
  IN acc[Len(pieces)].dst

\* xor on a part of the buffer: &mut buf[start..start + len].
XorAt(dst, start, n, pieces) ==
  SubSeq(dst, 1, start) \o XorInto(SubSeq(dst, start + 1, start + n), pieces)
    \o SubSeq(dst, start + n + 1, Len(dst))

\* A loop of xor: one view after the other is added to the whole buffer.
XorAll(dst, views) ==
  LET acc[i \in 0..Len(views)] ==
        IF i = 0 THEN dst ELSE XorInto(acc[i - 1], views[i])
  IN acc[Len(views)]

\* Mutant: every piece of memory gets the start of the data.
CopyPiece_FromStart(data, acc, iov) ==
  [acc EXCEPT !.mem = [m \in DOMAIN @ |->
     IF m[1] = iov.buf /\ m[2] - iov.base \in 0..(iov.len - 1)
     THEN data[m[2] - iov.base + 1] ELSE @[m]]]

\* copy_from_slice: each piece of memory gets the next bytes of the data.
CopyPiece(data, acc, iov) ==
  [pos |-> acc.pos + iov.len,
   mem |-> [m \in DOMAIN acc.mem |->
     IF m[1] = iov.buf /\ m[2] - iov.base \in 0..(iov.len - 1)
     THEN data[acc.pos + m[2] - iov.base + 1] ELSE acc.mem[m]]]

CopyFromSlice(m, v, data) ==
  LET acc[i \in 0..Len(v)] ==
        IF i = 0 THEN [pos |-> 0, mem |-> m]
        ELSE CopyPiece(data, acc[i - 1], v[i])
  IN acc[Len(v)].mem

-----------------------------------------------------------------------------
(* Strips                                                                  *)

\* Where strip i begins in its disk's strip, and its bytes.
Start(i) == (strips[i].row - Row(Stripe, 0)) * BlockLen
Size(i)  == strips[i].blocks * BlockLen

\* A lower bdev reads n bytes of its strip, and those of strip i.
Held(d, start, n) == SubSeq(disk[d], start + 1, start + n)
OnDisk(i)         == Held(strips[i].disk, Start(i), Size(i))

\* reconstruct: the sum of what the other disks hold there.
Reconstruct(skip, start, n) ==
  XorAll(DmaNewZeroed(n),
         [k \in 1..(NDisks - 1) |->
            <<Held(DataDisk(k - 1, skip), start, n)>>])

\* A lower bdev scatters the bytes of strip i over its view.
ReadInto(m, i) ==
  LET view == Bytes(strips[i].iovs) IN
  [x \in DOMAIN m |->
     IF x \in Range(view)
     THEN OnDisk(i)[CHOOSE k \in DOMAIN view : view[k] = x]
     ELSE m[x]]

\* Each strip is read into its view but one that is lost, if any.
ReadAll(lost) ==
  LET acc[i \in 0..Len(strips)] ==
        IF i = 0 THEN mem
        ELSE IF i = lost THEN acc[i - 1] ELSE ReadInto(acc[i - 1], i)
  IN acc[Len(strips)]

\* That one is recovered and copied.
Read(lost) ==
  /\ remain = 0 /\ ~panic /\ op = "none"
  /\ op' = "read"
  /\ mem' = IF lost = 0 THEN ReadAll(lost)
            ELSE CopyFromSlice(ReadAll(lost), strips[lost].iovs,
                               Reconstruct(strips[lost].disk,
                                           Start(lost), Size(lost)))
  /\ UNCHANGED <<vars, disk>>

\* A lower bdev writes data at the bytes of strip i.
Put(old, i, data) ==
  SubSeq(old, 1, Start(i)) \o data
    \o SubSeq(old, Start(i) + Size(i) + 1, StripBytes)

\* What strip i's view holds, as the lower bdev gathers it.
Gathered(i) == FlattenSeq(Pieces(mem, strips[i].iovs))

\* write_full_stripe: the sum of the strips.
NewParityFull ==
  XorAll(DmaNewZeroed(StripBytes),
         [i \in DOMAIN strips |-> Pieces(mem, strips[i].iovs)])

\* Each disk but the parity's takes the next strip, whatever its disk.
WriteFull ==
  /\ remain = 0 /\ ~panic /\ op = "none"
  /\ StripeOffset(first) = 0 /\ len = StripeBlocks
  /\ op' = "write"
  /\ disk' = [d \in Disks |->
       IF d = Parity THEN NewParityFull
       ELSE LET i == 1 + Cardinality({e \in DataDisks : e < d})
            IN Put(disk[d], i, Gathered(i))]
  /\ UNCHANGED <<vars, mem>>

\* What was there before, read or, if it is lost, recovered: the data of strip
\* i, and after those of the strips the parity.
OldIo(lost, i) ==
  IF i \in DOMAIN strips
  THEN IF i = lost THEN Reconstruct(strips[i].disk, Start(i), Size(i))
       ELSE OnDisk(i)
  ELSE IF i = lost THEN Reconstruct(Parity, 0, StripBytes)
       ELSE Held(Parity, 0, StripBytes)

\* Mutant: new data is added at the start of the parity strip.
AddStrip_AtStart(lost, sum, i) ==
  XorAt(XorAt(sum, Start(i), Size(i), <<OldIo(lost, i)>>),
        0, Size(i), Pieces(mem, strips[i].iovs))

\* The old and the new data of a strip are added to the parity strip.
AddStrip(lost, sum, i) ==
  XorAt(XorAt(sum, Start(i), Size(i), <<OldIo(lost, i)>>),
        Start(i), Size(i), Pieces(mem, strips[i].iovs))

\* write_partial_stripe: old parity, old data and new data.
NewParity(lost) ==
  LET sum[i \in 0..Len(strips)] ==
        IF i = 0 THEN XorInto(DmaNewZeroed(StripBytes),
                              <<OldIo(lost, Len(strips) + 1)>>)
        ELSE AddStrip(lost, sum[i - 1], i)
  IN sum[Len(strips)]

WritePartial(lost) ==
  /\ remain = 0 /\ ~panic /\ op = "none"
  /\ ~(StripeOffset(first) = 0 /\ len = StripeBlocks)
  /\ op' = "write"
  /\ disk' = [d \in Disks |->
       IF d = Parity THEN NewParity(lost)
       ELSE IF \E i \in DOMAIN strips : strips[i].disk = d
            THEN LET i == CHOOSE i \in DOMAIN strips : strips[i].disk = d
                 IN Put(disk[d], i, Gathered(i))
            ELSE disk[d]]
  /\ UNCHANGED <<vars, mem>>

-----------------------------------------------------------------------------

StripNext ==
  \/ NextStrip /\ UNCHANGED <<op, mem, disk>>
  \/ \E lost \in 0..Len(strips) : Read(lost)
  \/ WriteFull
  \/ \E lost \in 0..(Len(strips) + 1) : WritePartial(lost)

StripSpec == StripInit /\ [][StripNext]_allVars

-----------------------------------------------------------------------------
(* Properties                                                              *)

\* What each strip's view holds is as long as the strip, lies within its disk's
\* strip, and is all of it in a full stripe: xor and copy_from_slice assert it
\* of what they are given (raid5.rs:757, lib.rs:470-474).
SizesMatch ==
  remain = 0 =>
    \A i \in DOMAIN strips :
      /\ Len(Gathered(i)) = Size(i)
      /\ Start(i) + Size(i) <= StripBytes
      /\ StripeOffset(first) = 0 /\ len = StripeBlocks => Size(i) = StripBytes

\* Types and sizes: the strips fit, and buffers, memory and disks keep their
\* sizes through the sums.
StripTypeOK ==
  /\ TypeOK /\ SizesMatch
  /\ op \in {"none", "read", "write"}
  /\ DOMAIN mem = Memory(iovs)
  /\ \A d \in Disks : Len(disk[d]) = StripBytes

\* Byte k of the request, its place in its disk's strip.
BlockOfByte(k) == first + (k - 1) \div BlockLen
PlaceOf(k)     == OffsetIn(BlockOfByte(k)) * BlockLen + ((k - 1) % BlockLen) + 1

\* A read leaves in every byte of the request, however its buffers are cut,
\* the byte of its own block, that of a lost disk included, and a strip never
\* reaches into the memory of another (lib.rs:469-489, raid5.rs:284-312).
Restored ==
  op = "read" =>
    \A k \in 1..(len * BlockLen) :
      mem[Bytes(iovs)[k]] = Stored[DiskOf(BlockOfByte(k))][PlaceOf(k)]

\* A write leaves every block of the request on its own disk and row, changes
\* no other, and parity is the sum of the data in every byte of the strip, for
\* a full stripe and for a part of it, the old data of which may be recovered
\* (raid5.rs:432-558, 624-676).
Written ==
  op = "write" =>
    /\ \A d \in DataDisks, p \in 1..StripBytes :
         disk[d][p] =
           LET mine == {k \in 1..(len * BlockLen) :
                          DiskOf(BlockOfByte(k)) = d /\ PlaceOf(k) = p}
           IN IF mine = {} THEN Stored[d][p]
              ELSE UNION {mem[Bytes(iovs)[k]] : k \in mine}
    /\ \A p \in 1..StripBytes :
         disk[Parity][p] = Xor([d \in DataDisks |-> disk[d][p]], DataDisks)
=============================================================================
