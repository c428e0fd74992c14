---------------------------- MODULE ThreadLocal -----------------------------
(***************************************************************************)
(* What the thread-local storage of ironspdk promises (the comment of      *)
(* TlsKey, lib.rs:1762-1766): a value that an SPDK thread stores under a   *)
(* key is its own and lives until that thread replaces it, clears it, or   *)
(* exits.                                                                  *)
(***************************************************************************)
EXTENDS Naturals

CONSTANTS
  Threads,   \* the SPDK threads, by their ids
  Keys,      \* the keys of the storage
  Values,    \* what may be stored, each value once
  None       \* no value

VARIABLES
  val,       \* val[t][k]: the value of key k for thread t
  dropped,   \* values that have been dropped
  exiting    \* threads that have been asked to exit

vars == <<val, dropped, exiting>>

Init ==
  /\ val = [t \in Threads |-> [k \in Keys |-> None]]
  /\ dropped = {}
  /\ exiting = {}

Put(t, k, v) ==
  /\ val' = [val EXCEPT ![t][k] = v]
  /\ dropped' = dropped \cup ({val[t][k]} \ {None})
  /\ UNCHANGED exiting

Set(t, k, v) ==
  /\ v \notin dropped /\ \A u \in Threads, l \in Keys : val[u][l] # v
  /\ Put(t, k, v)

Clear(t, k) == Put(t, k, None)

Exit(t) ==
  /\ exiting' = exiting \cup {t}
  /\ UNCHANGED <<val, dropped>>

Next ==
  \E t \in Threads :
    \/ Exit(t)
    \/ t \notin exiting /\ \E k \in Keys, v \in Values : Set(t, k, v)
    \/ \E k \in Keys : Clear(t, k)   \* a thread that exits drops its values

Spec == Init /\ [][Next]_vars
=============================================================================
