------------------------------ MODULE MCRaid1 -------------------------------
(* Small instances of Raid1.                                               *)
EXTENDS Raid1

CONSTANTS r1, r2, r3, c1, b1

TwoReqs    == {r1, r2}
ThreeReqs  == {r1, r2, r3}
OneChannel == {c1}
OneBlock   == {b1}
=============================================================================
