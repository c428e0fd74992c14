--------------------------- MODULE MCApplication ----------------------------
(***************************************************************************)
(* TLC instance of Application: two creations by RPC, two cores, and one   *)
(* lower bdev that may go once and come back.                              *)
(***************************************************************************)
EXTENDS Application, TLC

CONSTANTS n1, d1, d2, d3, d4

\* d1 to d3 are alike; d4 has blocks of another length. Sizes and the 32 bits
\* are scaled down: a kilobyte is four bytes and u32 wraps at 32.
MCBlockLen == (d1 :> 2) @@ (d2 :> 2) @@ (d3 :> 2) @@ (d4 :> 4)
MCBlocks   == (d1 :> 7) @@ (d2 :> 7) @@ (d3 :> 7) @@ (d4 :> 7)

MCLowerList == <<d1, d2, d3, d4>>

Three == <<d1, d2, d3>>

Ask(n, kind, children, kb, ok) ==
  [name |-> n, kind |-> kind, children |-> children, strip_size_kb |-> kb,
   opts_ok |-> ok]

\* A RAID5 of strips of two blocks, one whose strip size wraps around to one
\* of four blocks, one with an option that does not parse, a RAID1, and
\* requests refused: two children only, children that differ, no strip.
MCRequests ==
  {Ask(n1, "raid5", Three, 1, TRUE), Ask(n1, "raid5", Three, 10, TRUE),
   Ask(n1, "raid5", Three, 1, FALSE), Ask(n1, "raid1", <<d1, d2>>, 0, TRUE),
   Ask(n1, "raid5", <<d1, d2>>, 1, TRUE),
   Ask(n1, "raid5", <<d1, d2, d4>>, 1, TRUE),
   Ask(n1, "raid5", Three, 8, TRUE), Ask(n1, "raid1", <<>>, 0, TRUE)}
=============================================================================
