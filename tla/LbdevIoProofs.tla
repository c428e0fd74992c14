--------------------------- MODULE LbdevIoProofs ----------------------------
(***************************************************************************)
(* Proofs about LbdevIo, for batches of any size and any number of them.   *)
(***************************************************************************)
EXTENDS LbdevIo, TLAPS

LEMMA InitType == Init => TypeOK
BY BatchAssumption DEF Init, TypeOK, Fresh, None, Ios

LEMMA FinishType ==
  ASSUME TypeOK, NEW i \in Ios, Finish(i)
  PROVE  (done \in [Ios -> BOOLEAN] /\ waker \in [Ios -> BOOLEAN]
           /\ task \in {"running", "suspended", "queued", "over"})'
BY DEF Finish, TypeOK

LEMMA NextType == TypeOK /\ [Next]_vars => TypeOK'
<1> SUFFICES ASSUME TypeOK, [Next]_vars PROVE TypeOK'
  OBVIOUS
<1> USE BatchAssumption
<1>1. CASE Accepted
  <2>1. sent + 1 \in Ios /\ sent + 1 \in 0..N
    BY <1>1 DEF Accepted, TypeOK, Ios
  <2> QED  BY <1>1, <2>1 DEF Accepted, TypeOK, ctxVars
<1>2. CASE Refused
  <2>1. sent + 1 \in Ios /\ sent + 1 \in 0..N
    BY <1>2 DEF Refused, TypeOK, Ios
  <2>2. Finish(sent + 1)  BY <1>2 DEF Refused
  <2>3. (done \in [Ios -> BOOLEAN] /\ waker \in [Ios -> BOOLEAN]
           /\ task \in {"running", "suspended", "queued", "over"})'
    BY <2>1, <2>2, FinishType
  <2> QED  BY <1>2, <2>1, <2>3 DEF Refused, TypeOK
<1>3. CASE PollReady
  <2>1. at + 1 \in 1..(N + 1)  BY <1>3 DEF PollReady, TypeOK
  <2> QED  BY <1>3, <2>1 DEF PollReady, TypeOK, ctxVars, Ios
<1>4. CASE PollPending
  BY <1>4 DEF PollPending, TypeOK, Ios
<1>5. CASE Resume
  BY <1>5 DEF Resume, TypeOK, ctxVars
<1>6. CASE NextRound
  <2>1. (done \in [Ios -> BOOLEAN] /\ success \in [Ios -> BOOLEAN]
           /\ waker \in [Ios -> BOOLEAN])'
    BY <1>6 DEF NextRound, TypeOK, ctxVars, Fresh
  <2>2. (round \in 1..Rounds /\ sent \in 0..N /\ at \in 1..(N + 1))'
    BY <1>6 DEF NextRound, TypeOK
  <2>3. (before \in [Ios -> {"none", "ok", "bad"}])'
    BY <1>6 DEF NextRound, BatchOver, Left, TypeOK, None
  <2> QED  BY <1>6, <2>1, <2>2, <2>3 DEF NextRound, TypeOK, None
<1>7. CASE End
  BY <1>7 DEF End, TypeOK, ctxVars
<1>8. ASSUME NEW i \in Ios, Callback(i) PROVE TypeOK'
  <2>1. (done \in [Ios -> BOOLEAN] /\ waker \in [Ios -> BOOLEAN]
           /\ task \in {"running", "suspended", "queued", "over"})'
    BY <1>8, FinishType DEF Callback
  <2>2. (round \in 1..Rounds /\ sent \in 0..N /\ at \in 1..(N + 1)
           /\ seen \in [Ios -> {"none", "ok", "bad"}]
           /\ before \in [Ios -> {"none", "ok", "bad"}])'
    BY <1>8 DEF Callback, TypeOK
  <2>3. (success \in [Ios -> BOOLEAN])'  BY <1>8 DEF Callback, TypeOK
  <2>4. (dev \in [Ios -> {"none", "flight", "ok", "bad"}])'
    BY <1>8 DEF Callback, TypeOK
  <2> QED  BY <2>1, <2>2, <2>3, <2>4 DEF TypeOK
<1>9. CASE UNCHANGED vars
  BY <1>9 DEF vars, ctxVars, TypeOK
<1> QED
  BY <1>1, <1>2, <1>3, <1>4, <1>5, <1>6, <1>7, <1>8, <1>9 DEF Next, Step

(* The variables keep their types: no batch submits more I/Os than it has  *)
(* contexts, or polls past its last future.                                *)
THEOREM BatchTypeCorrect == Spec => []TypeOK
<1> QED  BY InitType, NextType, PTL DEF Spec

-----------------------------------------------------------------------------
(* A context and its I/O agree: the future is done if the I/O is over, or  *)
(* if the context served one before; success holds the outcome of the I/O  *)
(* that is over, else of the one before; and a waker is left only in the   *)
(* future that a suspended task awaits.                                    *)
CtxAgrees(i) ==
  /\ i > sent <=> dev[i] = "none"
  /\ done[i] <=> dev[i] \in {"ok", "bad"} \/ before[i] # "none"
  /\ dev[i] \in {"ok", "bad"} => (success[i] <=> dev[i] = "ok")
  /\ dev[i] \notin {"ok", "bad"} /\ before[i] # "none"
       => (success[i] <=> before[i] = "ok")
  /\ waker[i] => task = "suspended" /\ i = at

CtxInv ==
  /\ \A i \in Ios : CtxAgrees(i)
  /\ at > 1 => sent = N
  /\ OwnResults
  /\ WillBeWoken

LEMMA InitCtx == Init => CtxInv
BY BatchAssumption
   DEF Init, CtxInv, CtxAgrees, OwnResults, WillBeWoken, Fresh, None, Ios

LEMMA NextCtx ==
  ASSUME TypeOK, CtxInv, [Next]_vars
  PROVE  CtxInv'
<1> USE BatchAssumption
<1>1. CASE Accepted
  <2>1. sent + 1 \in Ios  BY <1>1 DEF Accepted, TypeOK, Ios
  <2> QED
    BY <1>1, <2>1
       DEF Accepted, TypeOK, ctxVars, CtxInv, CtxAgrees, OwnResults,
           WillBeWoken, Ios
<1>2. CASE Refused
  <2>1. sent + 1 \in Ios  BY <1>2 DEF Refused, TypeOK, Ios
  <2> QED
    BY <1>2, <2>1
       DEF Refused, Finish, TypeOK, CtxInv, CtxAgrees, OwnResults,
           WillBeWoken, Ios
<1>3. CASE PollReady
  <2>1. at \in Ios  BY <1>3 DEF PollReady, TypeOK, Ios
  <2> QED
    BY <1>3, <2>1
       DEF PollReady, TypeOK, ctxVars, CtxInv, CtxAgrees, OwnResults,
           WillBeWoken, Ios
<1>4. CASE PollPending
  <2>1. at \in Ios  BY <1>4 DEF PollPending, TypeOK, Ios
  <2> QED
    BY <1>4, <2>1
       DEF PollPending, TypeOK, CtxInv, CtxAgrees, OwnResults, WillBeWoken,
           Ios
<1>5. CASE Resume
  BY <1>5
     DEF Resume, TypeOK, ctxVars, CtxInv, CtxAgrees, OwnResults, WillBeWoken
<1>6. CASE NextRound
  <2>1. \A i \in Ios : dev[i] \in {"ok", "bad"}
    BY <1>6
       DEF NextRound, BatchOver, Left, TypeOK, CtxInv, CtxAgrees, Ios
  <2>2. CASE before' = dev /\ UNCHANGED ctxVars
    BY <1>6, <2>1, <2>2
       DEF NextRound, ctxVars, TypeOK, CtxInv, CtxAgrees, OwnResults,
           WillBeWoken, None, Ios
  <2>3. CASE before' = None /\ done' = Fresh /\ success' = Fresh
               /\ waker' = Fresh
    BY <1>6, <2>3
       DEF NextRound, TypeOK, CtxInv, CtxAgrees, OwnResults, WillBeWoken,
           Fresh, None, Ios
  <2> QED  BY <1>6, <2>2, <2>3 DEF NextRound
<1>7. CASE End
  BY <1>7
     DEF End, TypeOK, ctxVars, CtxInv, CtxAgrees, OwnResults, WillBeWoken
<1>8. ASSUME NEW i \in Ios, Callback(i) PROVE CtxInv'
  BY <1>8
     DEF Callback, Finish, TypeOK, CtxInv, CtxAgrees, OwnResults,
         WillBeWoken, Ios
<1>9. CASE UNCHANGED vars
  BY <1>9 DEF vars, ctxVars, CtxInv, CtxAgrees, OwnResults, WillBeWoken
<1> QED
  BY <1>1, <1>2, <1>3, <1>4, <1>5, <1>6, <1>7, <1>8, <1>9 DEF Next, Step

(* A future returns the outcome of its own I/O, once that is over, unless  *)
(* its context served an I/O before: then it may return the outcome of     *)
(* that one. A context of its own for every I/O is therefore enough.       *)
THEOREM ResultsAreOwn == Spec => []OwnResults
<1>1. Init => TypeOK /\ CtxInv  BY InitType, InitCtx
<1>2. TypeOK /\ CtxInv /\ [Next]_vars => (TypeOK /\ CtxInv)'
  BY NextType, NextCtx
<1>3. CtxInv => OwnResults  BY DEF CtxInv
<1> QED  BY <1>1, <1>2, <1>3, PTL DEF Spec

(* A suspended task has somebody to wake it, whether its contexts are new  *)
(* or kept from the batch before.                                          *)
THEOREM SuspendedIsWoken == Spec => []WillBeWoken
<1>1. Init => TypeOK /\ CtxInv  BY InitType, InitCtx
<1>2. TypeOK /\ CtxInv /\ [Next]_vars => (TypeOK /\ CtxInv)'
  BY NextType, NextCtx
<1>3. CtxInv => WillBeWoken  BY DEF CtxInv
<1> QED  BY <1>1, <1>2, <1>3, PTL DEF Spec
=============================================================================
