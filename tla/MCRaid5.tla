------------------------------ MODULE MCRaid5 -------------------------------
(* Small instances of Raid5: three disks and strips of two blocks, so that *)
(* stripe 0 has blocks 0 to 3 and its parity on disk 0, and stripe 1 has   *)
(* blocks 4 to 7 and its parity on disk 1.                                 *)
EXTENDS Raid5

CONSTANTS r1, r2

TwoReqs == {r1, r2}

NoStripes   == {}
FirstStripe == {0}

Ask(ops, ranges) == {[op |-> o, first |-> x[1], len |-> x[2]] :
                       o \in ops, x \in ranges}

\* Of stripe 0: a part of one strip, one block of either strip, everything.
OneBlock    == <<1, 1>>
TwoStrips   == <<1, 2>>
WholeStripe == <<0, 4>>
\* A block of stripe 1, and a range from stripe 0 into stripe 1.
OtherStripe == <<5, 1>>
Crossing    == <<3, 2>>

OneStripeShapes ==
  Ask({"read", "write"}, {OneBlock, WholeStripe}) \cup Ask({"write"}, {TwoStrips})

TwoStripeShapes ==
  Ask({"read", "write"}, {WholeStripe})
    \cup Ask({"write"}, {TwoStrips, OtherStripe})
    \cup Ask({"read"}, {Crossing})
=============================================================================
