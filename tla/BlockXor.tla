------------------------------ MODULE BlockXor ------------------------------
(***************************************************************************)
(* The exclusive or of blocks or bytes (xor, examples/raid5/src/raid5.rs:  *)
(* 749-758). What is added up is a set: of the values a block is the XOR   *)
(* of, or of the bytes a byte is the XOR of; the empty set is zero.        *)
(***************************************************************************)
EXTENDS Integers, FiniteSets

\* The XOR of two.
Sym(A, B) == (A \ B) \cup (B \ A)

\* The XOR of the blocks f[d], d \in S.
Xor(f, S) ==
  {v \in UNION {f[d] : d \in S} :
     Cardinality({d \in S : v \in f[d]}) % 2 = 1}
=============================================================================
