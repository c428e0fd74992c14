------------------------- MODULE ApplicationProofs --------------------------
(***************************************************************************)
(* Proofs about BdevLifecycle and Application.                             *)
(*                                                                         *)
(* The first part is about the bdevs, for any names, bdevs, workers and    *)
(* requests: the tables agree, a request finds the channel of its worker,  *)
(* none is lost with a worker, no worker is sent a message twice, and      *)
(* arrays fit on their children.                                           *)
(*                                                                         *)
(* The second is about the application around them: for the bdevs it is a  *)
(* behaviour of BdevLifecycle, from before the start to after the stop, so *)
(* that what the first part shows holds of the application; and what is    *)
(* left of them when the application ends.                                 *)
(***************************************************************************)
EXTENDS Application, CommonFacts

-----------------------------------------------------------------------------
(* The bdevs: BdevLifecycle                                                *)

\* TablesAgree, with the name under which SPDK knows a bdev.
TablesInv ==
  /\ \A b \in Bdevs : InUse(b) => req[b] \in Requests /\ registry[Name(b)] = b
  /\ \A b \in Bdevs : stage[b] \in {"live", "removing"} => spdk[Name(b)] = b
  /\ \A n \in Names : spdk[n] \in Bdevs =>
       stage[spdk[n]] \in {"live", "removing"} /\ Name(spdk[n]) = n

\* A bdev with users is not on its way out, and one with requests has users.
UseInv ==
  \A b \in Bdevs :
    /\ user[b] => stage[b] \in {"live", "removing"}
    /\ \A w \in Workers : io[b][w] # "idle" =>
         io[b][w] # "lost" /\ user[b] /\ w \in WorkersOf(req[b])

\* Init is the first message, and a request or exit the last.
MsgOk(q, x, s) ==
  \A i \in 1..Len(q) :
    /\ q[i] = "init" => i = 1
    /\ q[i] = "io" => i = Len(q) /\ x = "sent"
    /\ q[i] = "exit" => i = Len(q) /\ s \in {"gone", "leaked"}

MsgInv ==
  \A b \in Bdevs, w \in Workers :
    MsgOk(inbox[b][w], io[b][w], stage[b])

\* A worker of a bdev that may have users has its channel, or will open it
\* before anything else.
Ready(b, w) ==
  \/ chan[b][w] = "open"
  \/ inbox[b][w] # <<>> /\ Head(inbox[b][w]) = "init"

ChanInv ==
  /\ fault # "no_channel"
  /\ fault = "none" =>
       \A b \in Bdevs : stage[b] \in {"registering", "live", "removing"} =>
         \A w \in WorkersOf(req[b]) : Ready(b, w)

IInv == Types /\ TablesInv /\ UseInv /\ MsgInv /\ ChanInv

-----------------------------------------------------------------------------
(* Types                                                                   *)

LEMMA StartTypes ==
  ASSUME Types, NEW b \in Bdevs, NEW r \in Requests,
         NEW msgs \in Seq(Messages), Start(b, r, msgs)
  PROVE  /\ worker' \in [Bdevs -> [Workers -> {"none", "running", "exited"}]]
         /\ inbox' \in [Bdevs -> [Workers -> Seq(Messages)]]
         /\ chan' = chan /\ io' = io
<1>1. [w \in Workers |-> IF w \in WorkersOf(r) THEN "running" ELSE "none"]
        \in [Workers -> {"none", "running", "exited"}]
  OBVIOUS
<1>2. [w \in Workers |-> IF w \in WorkersOf(r) THEN msgs ELSE <<>>]
        \in [Workers -> Seq(Messages)]
  OBVIOUS
<1> QED  BY <1>1, <1>2 DEF Start, Types

LEMMA DropTypes ==
  ASSUME Types, NEW b \in Bdevs, DropBdev(b)
  PROVE  inbox' \in [Bdevs -> [Workers -> Seq(Messages)]]
<1>1. "exit" \in Messages  BY DEF Messages
<1>2. [w \in Workers |-> IF w \in WorkersOf(req[b])
                         THEN Append(inbox[b][w], "exit") ELSE inbox[b][w]]
        \in [Workers -> Seq(Messages)]
  BY <1>1 DEF Types
<1> QED  BY <1>2 DEF DropBdev, Post, Types

LEMMA TakesTypes ==
  ASSUME Types, NEW b \in Bdevs, NEW w \in Workers, NEW m, Takes(b, w, m)
  PROVE  inbox' \in [Bdevs -> [Workers -> Seq(Messages)]]
<1>1. Tail(inbox[b][w]) \in Seq(Messages)  BY DEF Takes, Types
<1> QED  BY <1>1 DEF Takes, Types

LEMMA NextTypes == Types /\ [Next]_vars => Types'
<1> SUFFICES ASSUME Types, [Next]_vars PROVE Types'
  OBVIOUS
<1> USE DEF Stages, Faults
<1>1. ASSUME NEW b \in Bdevs, NEW r \in Requests, Create(b, r) PROVE Types'
  <2>1. <<>> \in Seq(Messages) /\ <<"init">> \in Seq(Messages)
          /\ <<"exit">> \in Seq(Messages)
    BY DEF Messages
  <2>2. CASE Create_Exists(b, r)
    BY <2>1, <2>2, StartTypes DEF Create_Exists, Begin, Types
  <2>3. CASE Create_BadOpts(b, r)
    BY <2>1, <2>3, StartTypes DEF Create_BadOpts, Begin, Add, Types
  <2>4. CASE Create_NoMem(b, r)
    BY <2>1, <2>4, StartTypes DEF Create_NoMem, Begin, Types
  <2>5. CASE Create_Register(b, r)
    BY <2>1, <2>5, StartTypes DEF Create_Register, Begin, Add, Types
  <2> QED  BY <1>1, <2>2, <2>3, <2>4, <2>5 DEF Create
<1>2. ASSUME NEW b \in Bdevs, Proceed(b) PROVE Types'
  <2>1. CASE Create_Done(b)
    BY <2>1 DEF Create_Done, Types, workerVars
  <2>2. CASE Create_Failed(b)
    BY <2>2 DEF Create_Failed, Types, workerVars
  <2>3. CASE Create_Return(b)
    BY <2>3, DropTypes DEF Create_Return, Types
  <2>4. CASE Unlink(b)
    BY <2>4 DEF Unlink, Types, workerVars
  <2>5. CASE Destruct(b)
    BY <2>5 DEF Destruct, Types, workerVars
  <2>6. CASE CtxDrop(b)
    BY <2>6, DropTypes DEF CtxDrop, Types
  <2> QED  BY <1>2, <2>1, <2>2, <2>3, <2>4, <2>5, <2>6 DEF Proceed
<1>3. ASSUME NEW b \in Bdevs, Open(b) \/ Open_Fault(b) \/ Close(b)
      PROVE  Types'
  BY <1>3 DEF Open, Open_Fault, Close, Types, bdevVars, workerVars
<1>4. ASSUME NEW b \in Bdevs, NEW w \in Workers,
             Submit(b, w) \/ ReactorExit(b, w)
      PROVE  Types'
  <2>1. /\ inbox[b][w] \in Seq(Messages)
        /\ "io" \in Messages /\ "exit" \in Messages
    BY DEF Types, Messages
  <2>2. /\ Append(inbox[b][w], "io") \in Seq(Messages)
        /\ <<"exit">> \in Seq(Messages)
    BY <2>1
  <2>3. CASE Submit(b, w)  BY <2>2, <2>3 DEF Submit, Types, bdevVars
  <2>4. CASE ReactorExit(b, w)
    BY <2>2, <2>4 DEF ReactorExit, Types, bdevVars
  <2> QED  BY <1>4, <2>3, <2>4
<1>5. ASSUME NEW b \in Bdevs, NEW w \in Workers, Work(b, w) PROVE Types'
  <2>1. CASE InitTask(b, w)
    BY <2>1, TakesTypes DEF InitTask, Types, bdevVars
  <2>2. CASE InitTask_Fault(b, w)
    BY <2>2, TakesTypes DEF InitTask_Fault, Types, bdevVars
  <2>3. CASE IoTask(b, w)
    <3>1. inbox' \in [Bdevs -> [Workers -> Seq(Messages)]]
      BY <2>3, TakesTypes DEF IoTask
    <3>2. io' \in [Bdevs -> [Workers -> {"idle", "sent", "active", "lost"}]]
      <4>1. CASE chan[b][w] = "open"
        <5>1. io' = [io EXCEPT ![b][w] = "active"]  BY <2>3, <4>1 DEF IoTask
        <5> QED  BY <5>1 DEF Types
      <4>2. CASE chan[b][w] # "open"  BY <2>3, <4>2 DEF IoTask, Types
      <4> QED  BY <4>1, <4>2
    <3>3. fault' \in Faults  BY <2>3 DEF IoTask, Types
    <3>4. UNCHANGED <<bdevVars, user, worker, chan>>  BY <2>3 DEF IoTask
    <3> QED  BY <3>1, <3>2, <3>3, <3>4 DEF Types, bdevVars
  <2>4. CASE IoDone(b, w)
    BY <2>4 DEF IoDone, Types, bdevVars
  <2>5. CASE WorkerExit(b, w)
    <3>1. chan' \in [Bdevs -> [Workers -> {"none", "open", "closed"}]]
      BY <2>5 DEF WorkerExit, Types
    <3>2. io' \in [Bdevs -> [Workers -> {"idle", "sent", "active", "lost"}]]
      BY <2>5 DEF WorkerExit, Types
    <3>3. inbox' \in [Bdevs -> [Workers -> Seq(Messages)]]
      BY <2>5 DEF WorkerExit, Types
    <3>4. worker' \in [Bdevs -> [Workers -> {"none", "running", "exited"}]]
      BY <2>5 DEF WorkerExit, Types
    <3>5. UNCHANGED <<bdevVars, user, fault>>  BY <2>5 DEF WorkerExit
    <3> QED  BY <3>1, <3>2, <3>3, <3>4, <3>5 DEF Types, bdevVars
  <2> QED  BY <1>5, <2>1, <2>2, <2>3, <2>4, <2>5 DEF Work
<1>6. ASSUME NEW n \in Names, Delete(n) \/ ForeignAdd(n) \/ ForeignRemove(n)
      PROVE  Types'
  BY <1>6 DEF Delete, ForeignAdd, ForeignRemove, Types, workerVars
<1>7. CASE UNCHANGED vars
  BY <1>7 DEF vars, bdevVars, workerVars, Types
<1> QED  BY <1>1, <1>2, <1>3, <1>4, <1>5, <1>6, <1>7 DEF Next

-----------------------------------------------------------------------------
(* The two tables                                                          *)

LEMMA RequestTypes ==
  ASSUME NEW r \in Requests
  PROVE  r.name \in Names
BY LifecycleAssumption

LEMMA NextTables == Types /\ TablesInv /\ [Next]_vars => TablesInv'
<1> SUFFICES ASSUME Types, TablesInv, [Next]_vars PROVE TablesInv'
  OBVIOUS
<1> USE LifecycleAssumption DEF InUse, Name
<1>0. \A b \in Bdevs : InUse(b) => Name(b) \in Names
  BY RequestTypes DEF TablesInv
<1>1. ASSUME NEW b \in Bdevs, NEW r \in Requests, Create(b, r)
      PROVE  TablesInv'
  <2>1. r.name \in Names  BY RequestTypes
  <2>2. CASE Create_Exists(b, r)
    BY <2>2 DEF Create_Exists, Begin, Types, TablesInv
  <2>3. CASE Create_BadOpts(b, r)
    BY <2>1, <2>3 DEF Create_BadOpts, Begin, Add, Types, TablesInv
  <2>4. CASE Create_NoMem(b, r)
    BY <2>4 DEF Create_NoMem, Begin, Types, TablesInv
  <2>5. CASE Create_Register(b, r)
    BY <2>1, <2>5 DEF Create_Register, Begin, Add, Types, TablesInv
  <2> QED  BY <1>1, <2>2, <2>3, <2>4, <2>5 DEF Create
<1>2. ASSUME NEW b \in Bdevs, Proceed(b) PROVE TablesInv'
  <2>1. CASE Create_Done(b)
    BY <2>1 DEF Create_Done, Types, TablesInv
  <2>2. CASE Create_Failed(b)
    BY <2>2 DEF Create_Failed, Types, TablesInv
  <2>3. CASE Create_Return(b)
    BY <2>3 DEF Create_Return, Types, TablesInv
  <2>4. CASE Unlink(b)
    BY <2>4 DEF Unlink, Types, TablesInv
  <2>5. CASE Destruct(b)
    BY <2>5 DEF Destruct, Types, TablesInv
  <2>6. CASE CtxDrop(b)
    BY <2>6 DEF CtxDrop, Types, TablesInv
  <2> QED  BY <1>2, <2>1, <2>2, <2>3, <2>4, <2>5, <2>6 DEF Proceed
<1>3. ASSUME NEW n \in Names, Delete(n) PROVE TablesInv'
  <2>1. /\ registry' = registry /\ req' = req
        /\ spdk \in [Names -> Bdevs \cup {NoBdev, Foreign}]
        /\ stage \in [Bdevs -> Stages]
    BY <1>3 DEF Delete, Types
  <2>2. CASE /\ spdk[n] = Foreign
             /\ spdk' = [spdk EXCEPT ![n] = NoBdev]
             /\ stage' = stage
    BY <2>1, <2>2, <1>0 DEF TablesInv
  <2>3. CASE /\ spdk[n] \in Bdevs /\ stage[spdk[n]] = "live"
             /\ stage' = [stage EXCEPT ![spdk[n]] = "removing"]
             /\ spdk' = spdk
    BY <2>1, <2>3, <1>0 DEF TablesInv
  <2> QED  BY <1>3, <2>2, <2>3 DEF Delete
<1>4. ASSUME NEW n \in Names, ForeignAdd(n) \/ ForeignRemove(n)
      PROVE  TablesInv'
  <2>1. /\ registry' = registry /\ req' = req /\ stage' = stage
        /\ spdk \in [Names -> Bdevs \cup {NoBdev, Foreign}]
        /\ spdk[n] \in {NoBdev, Foreign}
        /\ \E x \in {NoBdev, Foreign} : spdk' = [spdk EXCEPT ![n] = x]
    BY <1>4 DEF ForeignAdd, ForeignRemove, Types
  <2> QED  BY <2>1, <1>0 DEF TablesInv
<1>5. CASE UNCHANGED bdevVars
  BY <1>5 DEF bdevVars, TablesInv
<1> QED
  BY <1>1, <1>2, <1>3, <1>4, <1>5
  DEF Next, vars, Open, Open_Fault, Close, Submit, Work, InitTask,
      InitTask_Fault, IoTask, IoDone, WorkerExit, ReactorExit

-----------------------------------------------------------------------------
(* Messages of a worker                                                    *)

LEMMA OneMessage ==
  ASSUME NEW x, NEW s
  PROVE  /\ MsgOk(<<>>, x, s) /\ MsgOk(<<"init">>, x, s)
         /\ MsgOk(<<"exit">>, x, "gone") /\ MsgOk(<<"exit">>, x, "leaked")
BY DEF MsgOk

LEMMA AppendOk ==
  ASSUME NEW q \in Seq(Messages), NEW x, NEW s,
         x # "sent", s \notin {"gone", "leaked"}, MsgOk(q, x, s)
  PROVE  /\ MsgOk(Append(q, "io"), "sent", s)
         /\ MsgOk(Append(q, "exit"), x, "gone")
<1>1. ASSUME NEW m \in Messages
      PROVE  /\ Len(Append(q, m)) = Len(q) + 1 /\ Len(q) \in Nat
             /\ Append(q, m)[Len(q) + 1] = m
             /\ \A i \in 1..Len(q) : Append(q, m)[i] = q[i]
  OBVIOUS
<1>2. "io" \in Messages /\ "exit" \in Messages  BY DEF Messages
<1>3. MsgOk(Append(q, "io"), "sent", s)  BY <1>1, <1>2 DEF MsgOk
<1>4. MsgOk(Append(q, "exit"), x, "gone")  BY <1>1, <1>2 DEF MsgOk
<1> QED  BY <1>3, <1>4

LEMMA TailOk ==
  ASSUME NEW q \in Seq(Messages), q # <<>>, NEW x, NEW s, MsgOk(q, x, s)
  PROVE  /\ MsgOk(Tail(q), x, s)
         /\ Head(q) = "io" => x = "sent" /\ Tail(q) = <<>>
<1> DEFINE t == Tail(q)
           h == Head(q)
<1>1. /\ Len(q) \in Nat \ {0} /\ h = q[1]
      /\ t \in Seq(Messages) /\ Len(t) = Len(q) - 1
      /\ \A i \in 1..(Len(q) - 1) : t[i] = q[i + 1]
  BY HeadTailProperties, EmptySeq, LenProperties
<1> HIDE DEF t, h
<1>2. MsgOk(t, x, s)
  <2> SUFFICES ASSUME NEW i \in 1..Len(t)
               PROVE  /\ t[i] = "init" => i = 1
                      /\ t[i] = "io" => i = Len(t) /\ x = "sent"
                      /\ t[i] = "exit" => i = Len(t) /\ s \in {"gone", "leaked"}
    BY DEF MsgOk
  <2>1. i + 1 \in 1..Len(q) /\ t[i] = q[i + 1] /\ i + 1 # 1  BY <1>1
  <2> QED  BY <2>1, <1>1 DEF MsgOk
<1>3. ASSUME h = "io" PROVE x = "sent" /\ t = <<>>
  <2>1. 1 \in 1..Len(q)  BY <1>1
  <2>2. x = "sent" /\ Len(q) = 1  BY <2>1, <1>1, <1>3 DEF MsgOk
  <2>3. Len(t) = 0  BY <2>2, <1>1
  <2> QED  BY <2>2, <2>3, <1>1, EmptySeq
<1> QED  BY <1>2, <1>3 DEF t, h

-----------------------------------------------------------------------------
(* Users and their requests                                                *)

LEMMA NextUse ==
  Types /\ UseInv /\ MsgInv /\ [Next]_vars => UseInv'
<1> SUFFICES ASSUME Types, UseInv, MsgInv, [Next]_vars PROVE UseInv'
  OBVIOUS
<1>1. ASSUME NEW b \in Bdevs, NEW r \in Requests, Create(b, r) PROVE UseInv'
  <2>1. /\ stage[b] = "unused"
        /\ \E s \in {"gone", "leaked", "registering"} :
             stage' = [stage EXCEPT ![b] = s]
        /\ req' = [req EXCEPT ![b] = r]
        /\ user' = user /\ io' = io
    BY <1>1 DEF Create, Create_Exists, Create_BadOpts, Create_NoMem,
                Create_Register, Begin, Start
  <2> QED  BY <2>1 DEF Types, UseInv
<1>2. ASSUME NEW b \in Bdevs, Proceed(b) PROVE UseInv'
  <2>1. CASE Create_Done(b)
    BY <2>1 DEF Create_Done, Types, UseInv, workerVars
  <2>2. CASE Create_Failed(b)
    BY <2>2 DEF Create_Failed, Types, UseInv, workerVars
  <2>3. CASE Create_Return(b)
    BY <2>3 DEF Create_Return, Types, UseInv
  <2>4. CASE Unlink(b)
    BY <2>4 DEF Unlink, Types, UseInv, workerVars
  <2>5. CASE Destruct(b)
    BY <2>5 DEF Destruct, Types, UseInv, workerVars
  <2>6. CASE CtxDrop(b)
    BY <2>6 DEF CtxDrop, Types, UseInv
  <2> QED  BY <1>2, <2>1, <2>2, <2>3, <2>4, <2>5, <2>6 DEF Proceed
<1>3. ASSUME NEW b \in Bdevs, Open(b) \/ Open_Fault(b) \/ Close(b)
      PROVE  UseInv'
  <2>1. CASE Open(b)
    BY <2>1 DEF Open, Types, UseInv, bdevVars, workerVars
  <2>2. CASE Close(b)
    BY <2>2 DEF Close, Types, UseInv, bdevVars, workerVars
  <2>3. CASE Open_Fault(b)
    BY <2>3 DEF Open_Fault, UseInv, bdevVars, workerVars
  <2> QED  BY <1>3, <2>1, <2>2, <2>3
<1>4. ASSUME NEW b \in Bdevs, NEW w \in Workers,
             Submit(b, w) \/ ReactorExit(b, w)
      PROVE  UseInv'
  <2>1. CASE Submit(b, w)  BY <2>1 DEF Submit, Types, UseInv, bdevVars
  <2>2. CASE ReactorExit(b, w)  BY <2>2 DEF ReactorExit, UseInv, bdevVars
  <2> QED  BY <1>4, <2>1, <2>2
<1>5. ASSUME NEW b \in Bdevs, NEW w \in Workers, Work(b, w) PROVE UseInv'
  <2>1. CASE InitTask(b, w) \/ InitTask_Fault(b, w)
    BY <2>1 DEF InitTask, InitTask_Fault, Types, UseInv, bdevVars
  <2>2. CASE IoTask(b, w)
    <3>1. io[b][w] = "sent"
      <4>1. inbox[b][w] \in Seq(Messages) /\ inbox[b][w] # <<>>
              /\ Head(inbox[b][w]) = "io"
        BY <2>2 DEF IoTask, Takes, Types
      <4>2. 1 \in 1..Len(inbox[b][w]) /\ inbox[b][w][1] = "io"  BY <4>1
      <4> QED  BY <4>2 DEF MsgInv, MsgOk
    <3>2. CASE chan[b][w] = "open"
      <4>1. io' = [io EXCEPT ![b][w] = "active"]
              /\ UNCHANGED <<bdevVars, user>>
        BY <2>2, <3>2 DEF IoTask
      <4> QED  BY <4>1, <3>1 DEF Types, UseInv, bdevVars
    <3>3. CASE chan[b][w] # "open"
      BY <2>2, <3>3 DEF IoTask, Types, UseInv, bdevVars
    <3> QED  BY <3>2, <3>3
  <2>3. CASE IoDone(b, w)
    BY <2>3 DEF IoDone, Types, UseInv, bdevVars
  <2>4. CASE WorkerExit(b, w)
    <3>1. stage[b] \in {"gone", "leaked"}
      <4>1. inbox[b][w] \in Seq(Messages) /\ "exit" \in Range(inbox[b][w])
        BY <2>4 DEF WorkerExit, Types
      <4>2. PICK i \in 1..Len(inbox[b][w]) : inbox[b][w][i] = "exit"
        BY <4>1 DEF Range
      <4> QED  BY <4>2 DEF MsgInv, MsgOk
    <3>2. io[b][w] = "idle"  BY <3>1 DEF UseInv
    <3>3. io' = io
      <4>1. io' = [io EXCEPT ![b][w] = IF @ = "idle" THEN @ ELSE "lost"]
        BY <2>4 DEF WorkerExit
      <4> QED  BY <4>1, <3>2 DEF Types
    <3> QED  BY <2>4, <3>3 DEF WorkerExit, UseInv, bdevVars
  <2> QED  BY <1>5, <2>1, <2>2, <2>3, <2>4 DEF Work
<1>6. ASSUME NEW n \in Names, Delete(n) \/ ForeignAdd(n) \/ ForeignRemove(n)
      PROVE  UseInv'
  BY <1>6 DEF Delete, ForeignAdd, ForeignRemove, Types, UseInv, workerVars
<1>7. CASE UNCHANGED vars
  BY <1>7 DEF vars, bdevVars, workerVars, UseInv
<1> QED  BY <1>1, <1>2, <1>3, <1>4, <1>5, <1>6, <1>7 DEF Next

-----------------------------------------------------------------------------
(* The order of the messages                                               *)

LEMMA CreateEffect ==
  ASSUME Types, NEW b \in Bdevs, NEW r \in Requests, Create(b, r)
  PROVE  /\ stage[b] = "unused" /\ req' = [req EXCEPT ![b] = r]
         /\ chan' = chan /\ io' = io /\ fault' = fault /\ user' = user
         /\ \/ stage' = [stage EXCEPT ![b] = "gone"] /\ Start(b, r, <<"exit">>)
            \/ stage' = [stage EXCEPT ![b] = "leaked"] /\ Start(b, r, <<>>)
            \/ /\ stage' = [stage EXCEPT ![b] = "registering"]
               /\ Start(b, r, <<"init">>)
BY DEF Create, Create_Exists, Create_BadOpts, Create_NoMem, Create_Register,
       Begin, Start

\* The bdev is dropped, with no request at its workers.
DropStep(b) ==
  /\ stage[b] \in {"failed", "destructing"}
  /\ stage' = [stage EXCEPT ![b] = "gone"]
  /\ DropBdev(b)
  /\ UNCHANGED <<req, user, chan, io, fault>>

LEMMA NextMsg == Types /\ UseInv /\ MsgInv /\ [Next]_vars => MsgInv'
<1> SUFFICES ASSUME Types, UseInv, MsgInv, [Next]_vars PROVE MsgInv'
  OBVIOUS
<1>1. ASSUME NEW b \in Bdevs, NEW r \in Requests, Create(b, r) PROVE MsgInv'
  <2> SUFFICES ASSUME NEW c \in Bdevs, NEW w \in Workers
               PROVE  MsgOk(inbox[c][w], io[c][w], stage[c])'
    BY DEF MsgInv
  <2>1. CASE c = b
    <3>1. CASE stage' = [stage EXCEPT ![b] = "gone"] /\ Start(b, r, <<"exit">>)
      <4>1. inbox'[c][w] \in {<<>>, <<"exit">>} /\ stage'[c] = "gone"
        BY <2>1, <3>1 DEF Start, Types
      <4> QED  BY <4>1, OneMessage
    <3>2. CASE Start(b, r, <<>>) \/ Start(b, r, <<"init">>)
      <4>1. inbox'[c][w] \in {<<>>, <<"init">>}
        BY <2>1, <3>2 DEF Start, Types
      <4> QED  BY <4>1, OneMessage
    <3> QED  BY <1>1, <3>1, <3>2, CreateEffect
  <2>2. CASE c # b
    <3>1. inbox'[c][w] = inbox[c][w] /\ io' = io /\ stage'[c] = stage[c]
      <4>1. io' = io
            /\ \/ \E ms : stage' = [stage EXCEPT ![b] = "gone"] /\ Start(b, r, ms)
               \/ \E ms : stage' = [stage EXCEPT ![b] = "leaked"] /\ Start(b, r, ms)
               \/ \E ms : stage' = [stage EXCEPT ![b] = "registering"]
                            /\ Start(b, r, ms)
        BY <1>1, CreateEffect
      <4>2. \E s : stage' = [stage EXCEPT ![b] = s]  BY <4>1
      <4>3. PICK ms : Start(b, r, ms)  BY <4>1
      <4>4. \E x : inbox' = [inbox EXCEPT ![b] = x]  BY <4>3 DEF Start
      <4> QED  BY <4>1, <4>2, <4>4, <2>2 DEF Types
    <3> QED  BY <3>1 DEF MsgInv
  <2> QED  BY <2>1, <2>2
<1>2. ASSUME NEW b \in Bdevs, DropStep(b) PROVE MsgInv'
  <2> SUFFICES ASSUME NEW c \in Bdevs, NEW w \in Workers
               PROVE  MsgOk(inbox[c][w], io[c][w], stage[c])'
    BY DEF MsgInv
  <2>1. CASE c = b
    <3>1. io[c][w] = "idle" /\ stage[c] \notin {"gone", "leaked"} /\ io' = io
            /\ stage'[c] = "gone"
      BY <1>2, <2>1 DEF DropStep, UseInv, Types
    <3>2. MsgOk(inbox[c][w], io[c][w], stage[c])  BY DEF MsgInv
    <3>3. inbox'[c][w] \in {inbox[c][w], Append(inbox[c][w], "exit")}
      BY <1>2, <2>1 DEF DropStep, DropBdev, Post, Types
    <3>4. inbox[c][w] \in Seq(Messages)  BY DEF Types
    <3>5. MsgOk(Append(inbox[c][w], "exit"), io[c][w], "gone")
      BY <3>1, <3>2, <3>4, AppendOk
    <3>6. MsgOk(inbox[c][w], io[c][w], "gone")  BY <3>2 DEF MsgOk
    <3> QED  BY <3>1, <3>3, <3>5, <3>6
  <2>2. CASE c # b
    <3>1. inbox'[c][w] = inbox[c][w] /\ io' = io /\ stage'[c] = stage[c]
      BY <1>2, <2>2 DEF DropStep, DropBdev, Post, Types
    <3> QED  BY <3>1 DEF MsgInv
  <2> QED  BY <2>1, <2>2
<1>3. ASSUME UNCHANGED <<inbox, io>>,
             \A b \in Bdevs, s \in {"gone", "leaked"} :
               stage'[b] = s <=> stage[b] = s
      PROVE  MsgInv'
  <2> SUFFICES ASSUME NEW c \in Bdevs, NEW w \in Workers
               PROVE  MsgOk(inbox[c][w], io[c][w], stage'[c])
    BY <1>3 DEF MsgInv
  <2>1. MsgOk(inbox[c][w], io[c][w], stage[c])  BY DEF MsgInv
  <2> QED  BY <1>3, <2>1 DEF MsgOk
<1>4. ASSUME NEW b \in Bdevs,
             \/ Create_Done(b) \/ Create_Failed(b) \/ Unlink(b) \/ Destruct(b)
             \/ Open(b) \/ Open_Fault(b) \/ Close(b)
      PROVE  MsgInv'
  BY <1>3, <1>4 DEF Create_Done, Create_Failed, Unlink, Destruct, Open,
                    Open_Fault, Close, Types, bdevVars, workerVars
<1>5. ASSUME NEW n \in Names, Delete(n) \/ ForeignAdd(n) \/ ForeignRemove(n)
      PROVE  MsgInv'
  BY <1>3, <1>5 DEF Delete, ForeignAdd, ForeignRemove, Types, workerVars
<1>6. ASSUME NEW b \in Bdevs, NEW w \in Workers,
             Submit(b, w) \/ Work(b, w) \/ ReactorExit(b, w)
      PROVE  MsgInv'
  <2> SUFFICES ASSUME NEW c \in Bdevs, NEW v \in Workers
               PROVE  MsgOk(inbox[c][v], io[c][v], stage[c])'
    BY DEF MsgInv
  <2>0. stage' = stage
    BY <1>6 DEF Submit, Work, InitTask, InitTask_Fault, IoTask, IoDone,
                WorkerExit, ReactorExit, bdevVars
  <2>1. CASE ~(c = b /\ v = w)
    <3>1. inbox'[c][v] = inbox[c][v] /\ io'[c][v] = io[c][v]
      BY <1>6, <2>1 DEF Submit, Work, InitTask, InitTask_Fault, IoTask, IoDone,
                        WorkerExit, ReactorExit, Takes, Types
    <3> QED  BY <2>0, <3>1 DEF MsgInv
  <2>2. CASE c = b /\ v = w
    <3> DEFINE q == inbox[b][w]
    <3>1. q \in Seq(Messages) /\ MsgOk(q, io[b][w], stage[b])
      BY DEF Types, MsgInv
    <3>2. CASE Submit(b, w)
      <4>1. /\ io[b][w] = "idle" /\ io'[b][w] = "sent"
            /\ stage[b] \notin {"gone", "leaked"}
            /\ inbox'[b][w] = Append(q, "io")
        BY <3>2 DEF Submit, UseInv, Types
      <4>2. MsgOk(Append(q, "io"), "sent", stage[b])
        BY <3>1, <4>1, AppendOk
      <4> QED  BY <2>0, <2>2, <4>1, <4>2
    <3>3. CASE InitTask(b, w) \/ InitTask_Fault(b, w)
      <4>1. q # <<>> /\ inbox'[b][w] = Tail(q) /\ io' = io
        <5>1. Takes(b, w, "init") /\ io' = io
          BY <3>3 DEF InitTask, InitTask_Fault
        <5> QED  BY <5>1 DEF Takes, Types
      <4>2. MsgOk(Tail(q), io[b][w], stage[b])
        BY <3>1, <4>1, TailOk
      <4> QED  BY <2>0, <2>2, <4>1, <4>2
    <3>4. CASE IoTask(b, w)
      <4>1. q # <<>> /\ Head(q) = "io" /\ inbox'[b][w] = Tail(q)
        BY <3>4 DEF IoTask, Takes, Types
      <4>2. inbox'[b][w] = <<>>  BY <3>1, <4>1, TailOk
      <4> QED  BY <2>2, <4>2 DEF MsgOk
    <3>5. CASE IoDone(b, w)
      <4>1. io[b][w] = "active" /\ io'[b][w] = "idle" /\ inbox' = inbox
        BY <3>5 DEF IoDone, Types
      <4> QED  BY <2>0, <2>2, <3>1, <4>1 DEF MsgOk
    <3>6. CASE WorkerExit(b, w)
      <4>1. inbox'[b][w] = <<>>  BY <3>6 DEF WorkerExit, Types
      <4> QED  BY <2>2, <4>1 DEF MsgOk
    <3>7. CASE ReactorExit(b, w)
      <4>1. /\ inbox'[b][w] = <<"exit">> /\ stage[b] = "leaked"
            /\ stage'[b] = "leaked"
        BY <2>0, <3>7 DEF ReactorExit, Types
      <4> QED  BY <2>2, <4>1, OneMessage
    <3> QED  BY <1>6, <3>2, <3>3, <3>4, <3>5, <3>6, <3>7 DEF Work
  <2> QED  BY <2>1, <2>2
<1>7. CASE UNCHANGED vars
  BY <1>3, <1>7 DEF vars, bdevVars, workerVars
<1>8. ASSUME NEW b \in Bdevs, Create_Return(b) \/ CtxDrop(b)
      PROVE  DropStep(b)
  BY <1>8 DEF Create_Return, CtxDrop, DropStep
<1> QED
  BY <1>1, <1>2, <1>4, <1>5, <1>6, <1>7, <1>8 DEF Next, Proceed

-----------------------------------------------------------------------------
(* The channels of the workers                                             *)

LEMMA NextChan ==
  Types /\ UseInv /\ MsgInv /\ ChanInv /\ [Next]_vars => ChanInv'
<1> SUFFICES ASSUME Types, UseInv, MsgInv, ChanInv, [Next]_vars
             PROVE  ChanInv'
  OBVIOUS
<1>1. ASSUME UNCHANGED <<inbox, chan, req, fault>>,
             \A b \in Bdevs : stage'[b] \in {"registering", "live", "removing"}
               => stage[b] \in {"registering", "live", "removing"}
      PROVE  ChanInv'
  BY <1>1 DEF ChanInv, Ready
<1>2. ASSUME NEW b \in Bdevs, NEW r \in Requests, Create(b, r) PROVE ChanInv'
  <2>1. fault' = fault  BY <1>2, CreateEffect
  <2> SUFFICES ASSUME fault = "none", NEW c \in Bdevs,
                      stage'[c] \in {"registering", "live", "removing"},
                      NEW w \in WorkersOf(req'[c])
               PROVE  Ready(c, w)'
    BY <2>1 DEF ChanInv
  <2>2. CASE c = b
    <3>1. Start(b, r, <<"init">>) /\ req'[c] = r
      <4>1. req'[c] = r
        <5>1. req' = [req EXCEPT ![b] = r]  BY <1>2, CreateEffect
        <5> QED  BY <2>2, <5>1 DEF Types
      <4>2. ASSUME NEW s \in {"gone", "leaked"},
                   stage' = [stage EXCEPT ![b] = s]
            PROVE  FALSE
        BY <2>2, <4>2 DEF Types
      <4>3. Start(b, r, <<"init">>)
        BY <1>2, <4>2, CreateEffect
      <4> QED  BY <4>1, <4>3
    <3>2. w \in Workers  BY <3>1 DEF WorkersOf
    <3>3. inbox'[c][w] = <<"init">>
      BY <2>2, <3>1, <3>2 DEF Start, Types
    <3> QED  BY <3>3 DEF Ready
  <2>3. CASE c # b
    <3>1. req'[c] = req[c] /\ stage'[c] = stage[c] /\ chan' = chan
      <4>1. chan' = chan /\ req' = [req EXCEPT ![b] = r]
              /\ \E s : stage' = [stage EXCEPT ![b] = s]
        BY <1>2, CreateEffect
      <4> QED  BY <4>1, <2>3 DEF Types
    <3>2. inbox'[c] = inbox[c]
      <4>1. \E x : inbox' = [inbox EXCEPT ![b] = x]
        BY <1>2, CreateEffect DEF Start
      <4> QED  BY <4>1, <2>3 DEF Types
    <3> QED  BY <3>1, <3>2 DEF ChanInv, Ready
  <2> QED  BY <2>2, <2>3
<1>3. ASSUME NEW b \in Bdevs, DropStep(b) PROVE ChanInv'
  <2>1. fault' = fault /\ chan' = chan /\ req' = req  BY <1>3 DEF DropStep
  <2> SUFFICES ASSUME fault = "none", NEW c \in Bdevs,
                      stage'[c] \in {"registering", "live", "removing"},
                      NEW w \in WorkersOf(req[c])
               PROVE  Ready(c, w)'
    BY <2>1 DEF ChanInv
  <2>2. c # b  BY <1>3 DEF DropStep, Types
  <2>3. stage'[c] = stage[c] /\ inbox'[c] = inbox[c]
    BY <1>3, <2>2 DEF DropStep, DropBdev, Post, Types
  <2> QED  BY <2>1, <2>3 DEF ChanInv, Ready
<1>4. ASSUME NEW b \in Bdevs,
             \/ Create_Done(b) \/ Create_Failed(b) \/ Unlink(b) \/ Destruct(b)
             \/ Open(b) \/ Open_Fault(b) \/ Close(b)
      PROVE  ChanInv'
  <2>1. CASE Open_Fault(b)
    BY <2>1 DEF Open_Fault, ChanInv
  <2>2. CASE ~Open_Fault(b)
    BY <1>1, <1>4, <2>2 DEF Create_Done, Create_Failed, Unlink, Destruct, Open,
                            Close, Types, bdevVars, workerVars
  <2> QED  BY <2>1, <2>2
<1>5. ASSUME NEW n \in Names, Delete(n) \/ ForeignAdd(n) \/ ForeignRemove(n)
      PROVE  ChanInv'
  BY <1>1, <1>5 DEF Delete, ForeignAdd, ForeignRemove, Types, workerVars
<1>6. ASSUME NEW b \in Bdevs, NEW w \in Workers, Submit(b, w)
      PROVE  ChanInv'
  <2>1. /\ inbox[b][w] \in Seq(Messages) /\ "io" \in Messages
        /\ inbox' = [inbox EXCEPT ![b][w] = Append(@, "io")]
        /\ stage' = stage /\ req' = req /\ fault' = fault /\ chan' = chan
    BY <1>6 DEF Submit, Types, Messages, bdevVars
  <2>2. inbox[b][w] # <<>> =>
          /\ Append(inbox[b][w], "io") # <<>>
          /\ Head(Append(inbox[b][w], "io")) = Head(inbox[b][w])
    BY <2>1
  <2>3. ASSUME NEW c \in Bdevs, NEW v \in Workers, Ready(c, v)
        PROVE  Ready(c, v)'
    BY <2>1, <2>2, <2>3 DEF Ready, Types
  <2> QED  BY <2>1, <2>3 DEF ChanInv, WorkersOf
<1>7. ASSUME NEW b \in Bdevs, NEW w \in Workers, Work(b, w), fault = "none"
      PROVE  ChanInv'
  <2>0. stage' = stage /\ req' = req
    BY <1>7 DEF Work, InitTask, InitTask_Fault, IoTask, IoDone, WorkerExit,
                bdevVars
  <2>1. CASE InitTask(b, w)
    <3>1. fault' = fault /\ inbox \in [Bdevs -> [Workers -> Seq(Messages)]]
            /\ inbox' = [inbox EXCEPT ![b][w] = Tail(@)]
            /\ chan' = [chan EXCEPT ![b][w] = "open"]
      BY <2>1 DEF InitTask, Takes, Types
    <3>2. ASSUME NEW c \in Bdevs, NEW v \in Workers, Ready(c, v)
          PROVE  Ready(c, v)'
      BY <3>1, <3>2 DEF Ready, Types
    <3> QED  BY <2>0, <3>1, <3>2 DEF ChanInv, WorkersOf
  <2>2. CASE InitTask_Fault(b, w)
    <3>1. fault' \in {"null_bdev", "freed_context", "no_child"}
      BY <2>2 DEF InitTask_Fault
    <3> QED  BY <3>1 DEF ChanInv
  <2>3. CASE IoTask(b, w)
    <3>1. inbox[b][w] \in Seq(Messages) /\ inbox[b][w] # <<>>
            /\ Head(inbox[b][w]) = "io"
            /\ inbox' = [inbox EXCEPT ![b][w] = Tail(@)] /\ chan' = chan
      BY <2>3 DEF IoTask, Takes, Types
    <3>2. io[b][w] = "sent"
      <4>1. MsgOk(inbox[b][w], io[b][w], stage[b])  BY DEF MsgInv
      <4> QED  BY <3>1, <4>1, TailOk
    <3>3. stage[b] \in {"live", "removing"} /\ w \in WorkersOf(req[b])
      BY <3>2 DEF UseInv
    <3>4. chan[b][w] = "open"  BY <1>7, <3>1, <3>3 DEF ChanInv, Ready
    <3>5. fault' = fault  BY <2>3, <3>4 DEF IoTask
    <3>6. ASSUME NEW c \in Bdevs, NEW v \in Workers, Ready(c, v)
          PROVE  Ready(c, v)'
      BY <3>1, <3>4, <3>6 DEF Ready, Types
    <3> QED  BY <2>0, <3>5, <3>6 DEF ChanInv, WorkersOf
  <2>4. CASE IoDone(b, w)
    BY <1>1, <2>0, <2>4 DEF IoDone
  <2>5. CASE WorkerExit(b, w)
    <3>1. stage[b] \in {"gone", "leaked"}
      <4>1. inbox[b][w] \in Seq(Messages) /\ "exit" \in Range(inbox[b][w])
        BY <2>5 DEF WorkerExit, Types
      <4>2. PICK i \in 1..Len(inbox[b][w]) : inbox[b][w][i] = "exit"
        BY <4>1 DEF Range
      <4> QED  BY <4>2 DEF MsgInv, MsgOk
    <3>2. ASSUME NEW c \in Bdevs, c # b
          PROVE  inbox'[c] = inbox[c] /\ chan'[c] = chan[c]
      BY <2>5, <3>2 DEF WorkerExit, Types
    <3>3. fault' = fault  BY <2>5 DEF WorkerExit
    <3> QED  BY <2>0, <3>1, <3>2, <3>3 DEF ChanInv, Ready
  <2> QED  BY <1>7, <2>1, <2>2, <2>3, <2>4, <2>5 DEF Work
<1>10. ASSUME NEW b \in Bdevs, NEW w \in Workers, ReactorExit(b, w)
       PROVE  ChanInv'
  <2>1. /\ stage[b] = "leaked" /\ stage' = stage /\ req' = req
        /\ fault' = fault /\ chan' = chan
        /\ \A c \in Bdevs : c # b => inbox'[c] = inbox[c]
    BY <1>10 DEF ReactorExit, bdevVars, Types
  <2> QED  BY <2>1 DEF ChanInv, Ready
<1>8. CASE UNCHANGED vars
  BY <1>1, <1>8 DEF vars, bdevVars, workerVars
<1>9. ASSUME NEW b \in Bdevs, Create_Return(b) \/ CtxDrop(b)
      PROVE  DropStep(b)
  BY <1>9 DEF Create_Return, CtxDrop, DropStep
<1> QED
  BY <1>2, <1>3, <1>4, <1>5, <1>6, <1>7, <1>8, <1>9, <1>10 DEF Next, Proceed

-----------------------------------------------------------------------------
(* The theorems                                                            *)

LEMMA InitInv == Init => IInv
<1> SUFFICES ASSUME Init PROVE IInv
  OBVIOUS
<1>1. Types
  <2>1. <<>> \in Seq(Messages)  OBVIOUS
  <2> QED  BY <2>1 DEF Init, Types, All, Stages, Faults
<1>2. TablesInv  BY LifecycleAssumption DEF Init, TablesInv, InUse
<1>3. UseInv  BY DEF Init, UseInv, All
<1>4. MsgInv  BY DEF Init, MsgInv, MsgOk, All
<1>5. ChanInv  BY DEF Init, ChanInv
<1> QED  BY <1>1, <1>2, <1>3, <1>4, <1>5 DEF IInv

LEMMA NextInv == IInv /\ [Next]_vars => IInv'
BY NextTypes, NextTables, NextUse, NextMsg, NextChan DEF IInv

LEMMA SpecInv == Spec => []IInv
BY InitInv, NextInv, PTL DEF Spec

(* The variables keep their types, and no worker ever has more than two    *)
(* messages: it is asked to open its channel and to exit once each, and a  *)
(* request is never with the message of exit (raid5.rs:116-138).           *)
THEOREM LifecycleTypeCorrect == Spec => []TypeOK
<1>1. IInv => TypeOK
  <2> SUFFICES ASSUME IInv, NEW b \in Bdevs, NEW w \in Workers
               PROVE  Len(inbox[b][w]) <= 2
    BY DEF IInv, TypeOK
  <2> DEFINE q == inbox[b][w]
  <2>1. q \in Seq(Messages) /\ MsgOk(q, io[b][w], stage[b])
    BY DEF IInv, Types, MsgInv
  <2>2. \A i \in 1..Len(q) : q[i] \in Messages  BY <2>1
  <2>3. \A i \in 1..Len(q) : i = 1 \/ i = Len(q)
    BY <2>1, <2>2 DEF MsgOk, Messages
  <2>4. Len(q) \in Nat  BY <2>1
  <2> HIDE DEF q
  <2>5. ASSUME Len(q) > 2 PROVE FALSE
    <3>1. 2 \in 1..Len(q)  BY <2>4, <2>5
    <3> QED  BY <3>1, <2>3, <2>5
  <2> QED  BY <2>4, <2>5 DEF q
<1> QED  BY <1>1, SpecInv, PTL

(* A bdev under construction, in use or on its way out has its name in the *)
(* registry, and SPDK knows it for as long as it lives (lib.rs:1392-1405). *)
THEOREM TablesAlwaysAgree == Spec => []TablesAgree
<1>1. IInv => TablesAgree
  <2> SUFFICES ASSUME IInv, NEW b \in Bdevs
               PROVE  /\ InUse(b) => registry[Name(b)] = b
                      /\ stage[b] \in {"live", "removing"}
                           <=> \E n \in Names : spdk[n] = b
    BY DEF TablesAgree
  <2>1. InUse(b) => Name(b) \in Names
    BY RequestTypes DEF IInv, TablesInv, Name
  <2> QED  BY <2>1 DEF IInv, TablesInv, InUse
<1> QED  BY <1>1, SpecInv, PTL

(* The expect of raid5.rs:176 never fails: a request finds the channel of  *)
(* its worker.                                                             *)
THEOREM RequestsFindChannel == Spec => []IoFindsChannel
<1>1. IInv => IoFindsChannel  BY DEF IInv, ChanInv, IoFindsChannel
<1> QED  BY <1>1, SpecInv, PTL

(* No worker exits with a request (raid5.rs:116-124, bdev.c:38-52).        *)
THEOREM NoRequestLost == Spec => []NoneLost
<1>1. IInv => NoneLost
  BY DEF IInv, UseInv, NoneLost
<1> QED  BY <1>1, SpecInv, PTL

-----------------------------------------------------------------------------
(* What creations leave behind: entries of the registry, threads and the   *)
(* size of an array.                                                       *)

\* An entry of the registry is of a bdev of that name, in use or leaked.
NameInv ==
  \A n \in Names : registry[n] # NoBdev =>
    /\ Name(registry[n]) = n
    /\ InUse(registry[n]) \/ stage[registry[n]] = "leaked"

\* Workers come with a bdev, and only one that runs has its channel open.
ThreadInv ==
  \A b \in Bdevs, w \in Workers :
    /\ stage[b] = "unused" => worker[b][w] = "none"
    /\ chan[b][w] = "open" => worker[b][w] = "running"

\* A bdev was made from a request that passed the checks.
ValidInv ==
  \A b \in Bdevs : stage[b] # "unused" => req[b] \in Requests /\ Valid(req[b])

\* A creation, whichever way it goes.
LEMMA CreateFrame ==
  ASSUME NEW b \in Bdevs, NEW r \in Requests, Create(b, r)
  PROVE  /\ stage[b] = "unused" /\ Valid(r) /\ chan' = chan
         /\ \E s \in Stages \ {"unused"} : stage' = [stage EXCEPT ![b] = s]
         /\ req' = [req EXCEPT ![b] = r]
         /\ \E f : worker' = [worker EXCEPT ![b] = f]
BY DEF Create, Create_Exists, Create_BadOpts, Create_NoMem, Create_Register,
       Begin, Start, Stages

\* Afterwards the stages change, and no bdev becomes unused or gets another
\* request.
LEMMA LaterFrame ==
  ASSUME Types, fault = "none",
         \/ \E b \in Bdevs : Proceed(b) \/ Open(b) \/ Open_Fault(b) \/ Close(b)
         \/ \E b \in Bdevs, w \in Workers :
              Submit(b, w) \/ Work(b, w) \/ ReactorExit(b, w)
         \/ \E n \in Names : Delete(n) \/ ForeignAdd(n) \/ ForeignRemove(n)
         \/ UNCHANGED vars
  PROVE  /\ req' = req
         /\ \A b \in Bdevs : stage[b] = "unused" <=> stage'[b] = "unused"
<1>1. ASSUME NEW b \in Bdevs, Proceed(b)
      PROVE  /\ req' = req
             /\ \A c \in Bdevs : stage[c] = "unused" <=> stage'[c] = "unused"
  BY <1>1 DEF Proceed, Create_Done, Create_Failed, Create_Return, Unlink,
              Destruct, CtxDrop, Types
<1>2. ASSUME NEW n \in Names, Delete(n)
      PROVE  /\ req' = req
             /\ \A c \in Bdevs : stage[c] = "unused" <=> stage'[c] = "unused"
  BY <1>2 DEF Delete, Types
<1>3. ASSUME NEW n \in Names, ForeignAdd(n) \/ ForeignRemove(n)
      PROVE  UNCHANGED <<req, stage>>
  BY <1>3 DEF ForeignAdd, ForeignRemove
<1>4. ASSUME NEW b \in Bdevs, Open(b) \/ Open_Fault(b) \/ Close(b)
      PROVE  UNCHANGED <<req, stage>>
  BY <1>4 DEF Open, Open_Fault, Close, bdevVars
<1>5. ASSUME NEW b \in Bdevs, NEW w \in Workers,
             Submit(b, w) \/ Work(b, w) \/ ReactorExit(b, w)
      PROVE  UNCHANGED <<req, stage>>
  BY <1>5 DEF Submit, Work, InitTask, InitTask_Fault, IoTask, IoDone,
              WorkerExit, ReactorExit, bdevVars
<1>6. CASE UNCHANGED vars  BY <1>6 DEF vars, bdevVars
<1> QED  BY <1>1, <1>2, <1>3, <1>4, <1>5, <1>6

LEMMA NextValid == Types /\ ValidInv /\ [Next]_vars => ValidInv'
<1> SUFFICES ASSUME Types, ValidInv, [Next]_vars PROVE ValidInv'
  OBVIOUS
<1>1. ASSUME NEW b \in Bdevs, NEW r \in Requests, Create(b, r)
      PROVE  ValidInv'
  <2>1. /\ Valid(r)
        /\ \A c \in Bdevs : c # b => stage'[c] = stage[c]
        /\ req' = [req EXCEPT ![b] = r]
    BY <1>1, CreateFrame DEF Types
  <2>2. \A c \in Bdevs : req'[c] = IF c = b THEN r ELSE req[c]
    BY <2>1 DEF Types
  <2> SUFFICES ASSUME NEW c \in Bdevs, stage'[c] # "unused"
               PROVE  req'[c] \in Requests /\ Valid(req'[c])
    BY DEF ValidInv, Valid, Valid5, ChildrenAgree, StripSize, ChildBlockLen
  <2>3. CASE c = b  BY <2>1, <2>2, <2>3
  <2>4. CASE c # b  BY <2>1, <2>2, <2>4 DEF ValidInv
  <2> QED  BY <2>3, <2>4
<1>2. CASE ~\E b \in Bdevs, r \in Requests : Create(b, r)
  <2>1. /\ req' = req
        /\ \A b \in Bdevs : stage[b] = "unused" <=> stage'[b] = "unused"
    <3>1. CASE UNCHANGED vars  BY <3>1 DEF vars, bdevVars
    <3>2. CASE Next  BY <1>2, <3>2, LaterFrame DEF Next
    <3> QED  BY <3>1, <3>2
  <2> QED
    BY <2>1
    DEF ValidInv, Valid, Valid5, ChildrenAgree, StripSize, ChildBlockLen
<1> QED  BY <1>1, <1>2

LEMMA NextThread == Types /\ ThreadInv /\ [Next]_vars => ThreadInv'
<1> SUFFICES ASSUME Types, ThreadInv, [Next]_vars PROVE ThreadInv'
  OBVIOUS
<1>1. ASSUME NEW b \in Bdevs, NEW r \in Requests, Create(b, r)
      PROVE  ThreadInv'
  <2>1. /\ stage[b] = "unused" /\ chan' = chan /\ stage'[b] # "unused"
        /\ \A c \in Bdevs : c # b =>
             stage'[c] = stage[c] /\ worker'[c] = worker[c]
    BY <1>1, CreateFrame DEF Types
  <2>2. \A w \in Workers : chan[b][w] # "open"  BY <2>1 DEF ThreadInv
  <2> QED  BY <2>1, <2>2 DEF ThreadInv
<1>2. ASSUME NEW b \in Bdevs, NEW w \in Workers,
             InitTask(b, w) \/ WorkerExit(b, w)
      PROVE  ThreadInv'
  <2>1. stage' = stage /\ stage \in [Bdevs -> Stages]
    BY <1>2 DEF InitTask, WorkerExit, bdevVars, Types
  <2>2. CASE InitTask(b, w)
    <3>1. worker[b][w] = "running" /\ worker' = worker
      BY <2>2 DEF InitTask, Takes
    <3>2. \A c \in Bdevs, x \in Workers :
            chan'[c][x] = "open" => chan[c][x] = "open" \/ (c = b /\ x = w)
      BY <2>2 DEF InitTask, Types
    <3> QED  BY <2>1, <3>1, <3>2 DEF ThreadInv
  <2>3. CASE WorkerExit(b, w)
    <3>1. worker[b][w] = "running" /\ chan'[b][w] # "open"
      BY <2>3 DEF WorkerExit, Types
    <3>2. \A c \in Bdevs, x \in Workers : c # b \/ x # w =>
            worker'[c][x] = worker[c][x] /\ chan'[c][x] = chan[c][x]
      BY <2>3 DEF WorkerExit, Types
    <3> QED  BY <2>1, <3>1, <3>2 DEF ThreadInv
  <2> QED  BY <1>2, <2>2, <2>3
<1>3. CASE /\ UNCHANGED <<worker, chan>>
           /\ \A b \in Bdevs : stage[b] = "unused" <=> stage'[b] = "unused"
  BY <1>3 DEF ThreadInv
<1>4. CASE /\ ~\E b \in Bdevs, r \in Requests : Create(b, r)
           /\ ~\E b \in Bdevs, w \in Workers :
                 InitTask(b, w) \/ WorkerExit(b, w)
  <2>1. \A b \in Bdevs : stage[b] = "unused" <=> stage'[b] = "unused"
    <3>1. CASE UNCHANGED vars  BY <3>1 DEF vars, bdevVars
    <3>2. CASE Next  BY <1>4, <3>2, LaterFrame DEF Next
    <3> QED  BY <3>1, <3>2
  <2>2. UNCHANGED <<worker, chan>>
    BY <1>4
    DEF Next, vars, Proceed, Create_Done, Create_Failed, Create_Return, Unlink,
        Destruct, CtxDrop, Open, Open_Fault, Close, Submit, Work,
        InitTask_Fault, IoTask, IoDone, ReactorExit, Delete, ForeignAdd,
        ForeignRemove, workerVars
  <2> QED  BY <1>3, <2>1, <2>2
<1> QED  BY <1>1, <1>2, <1>4

LEMMA NextName ==
  Types /\ TablesInv /\ ValidInv /\ NameInv /\ [Next]_vars => NameInv'
<1> SUFFICES ASSUME Types, TablesInv, ValidInv, NameInv, [Next]_vars
             PROVE  NameInv'
  OBVIOUS
<1> USE LifecycleAssumption DEF InUse, Name
<1>0. \A n \in Names : registry[n] # NoBdev => registry[n] \in Bdevs
  BY DEF Types
<1>1. ASSUME NEW b \in Bdevs, NEW r \in Requests, Create(b, r)
      PROVE  NameInv'
  <2>1. r.name \in Names  BY RequestTypes
  <2>2. CASE Create_Exists(b, r)
    BY <2>2, <1>0 DEF Create_Exists, Begin, Types, NameInv
  <2>3. CASE Create_BadOpts(b, r)
    BY <2>1, <2>3, <1>0 DEF Create_BadOpts, Begin, Add, Types, NameInv
  <2>4. CASE Create_NoMem(b, r)
    BY <2>4, <1>0 DEF Create_NoMem, Begin, Types, NameInv
  <2>5. CASE Create_Register(b, r)
    BY <2>1, <2>5, <1>0 DEF Create_Register, Begin, Add, Types, NameInv
  <2> QED  BY <1>1, <2>2, <2>3, <2>4, <2>5 DEF Create
<1>2. ASSUME NEW b \in Bdevs, Proceed(b) PROVE NameInv'
  <2>0. stage[b] # "unused" => Name(b) \in Names
    BY RequestTypes DEF ValidInv
  <2>1. CASE Create_Done(b)
    BY <2>1, <1>0 DEF Create_Done, Types, NameInv
  <2>2. CASE Create_Failed(b)
    BY <2>0, <2>2, <1>0 DEF Create_Failed, Types, NameInv
  <2>3. CASE Create_Return(b)
    BY <2>3, <1>0 DEF Create_Return, Types, NameInv
  <2>4. CASE Unlink(b)
    BY <2>4, <1>0 DEF Unlink, Types, NameInv
  <2>5. CASE Destruct(b)
    BY <2>5, <1>0 DEF Destruct, Types, NameInv
  <2>6. CASE CtxDrop(b)
    BY <2>0, <2>6, <1>0 DEF CtxDrop, Types, NameInv
  <2> QED  BY <1>2, <2>1, <2>2, <2>3, <2>4, <2>5, <2>6 DEF Proceed
<1>3. ASSUME NEW n \in Names, Delete(n) PROVE NameInv'
  <2>1. registry' = registry /\ req' = req /\ stage \in [Bdevs -> Stages]
    BY <1>3 DEF Delete, Types
  <2>2. CASE stage' = stage
    BY <2>1, <2>2 DEF NameInv
  <2>3. CASE /\ stage[spdk[n]] = "live"
             /\ stage' = [stage EXCEPT ![spdk[n]] = "removing"]
    BY <2>1, <2>3, <1>0 DEF NameInv
  <2> QED  BY <1>3, <2>2, <2>3 DEF Delete
<1>4. CASE UNCHANGED <<registry, req, stage>>
  BY <1>4 DEF NameInv
<1> QED
  BY <1>1, <1>2, <1>3, <1>4
  DEF Next, vars, Open, Open_Fault, Close, Submit, Work, InitTask,
      InitTask_Fault, IoTask, IoDone, WorkerExit, ReactorExit, ForeignAdd,
      ForeignRemove, bdevVars

MadeInv == NameInv /\ ThreadInv /\ ValidInv

LEMMA SpecMade == Spec => []MadeInv
<1>1. Init => MadeInv
  BY DEF Init, MadeInv, NameInv, ThreadInv, ValidInv, All
<1>2. IInv /\ MadeInv /\ [Next]_vars => MadeInv'
  BY NextName, NextThread, NextValid DEF IInv, MadeInv
<1> QED  BY <1>1, <1>2, SpecInv, PTL DEF Spec

\* A strip of a whole number of blocks has at least one.
LEMMA WholeBlocks ==
  ASSUME NEW z \in Nat \ {0}, NEW l \in Nat \ {0}, z % l = 0
  PROVE  z \div l \in Nat \ {0}
<1>1. /\ z \div l \in Nat /\ z % l \in Nat
      /\ z = (z \div l) * l + (z % l)
  OBVIOUS
<1>2. z = (z \div l) * l /\ z # 0
  BY <1>1
<1>3. z \div l # 0
  BY <1>2
<1> QED BY <1>1, <1>3

\* The strips that fit: block number x of n data strips of c blocks each.
LEMMA StripFits ==
  ASSUME NEW c \in Nat, NEW strip \in Nat \ {0}, NEW n \in Nat \ {0},
         NEW x \in Nat, x < n * ((c \div strip) * strip)
  PROVE  (x \div (strip * n) + 1) * strip <= c
<1> DEFINE q == c \div strip
           y == x \div (strip * n)
<1>1. q \in Nat /\ q * strip <= c
  OBVIOUS
<1>2. strip * n \in Nat \ {0}
  OBVIOUS
<1>3. y \in Nat /\ y * (strip * n) <= x
  BY <1>2
<1>4. n * (q * strip) = q * (strip * n)
  BY <1>1
<1> HIDE DEF q, y
<1>5. y * (strip * n) < q * (strip * n)
  BY <1>1, <1>2, <1>3, <1>4 DEF q
<1>6. y < q
  <2>1. ASSUME NEW k \in Nat \ {0}, NEW u \in Nat, NEW v \in Nat,
               u * k < v * k
        PROVE  u < v
    BY <2>1
  <2> QED  BY <1>1, <1>2, <1>3, <1>5, <2>1
<1>7. (y + 1) * strip <= q * strip
  <2>1. ASSUME NEW u \in Nat, NEW v \in Nat, u <= v
        PROVE  u * strip <= v * strip
    BY <2>1
  <2>2. y + 1 \in Nat /\ y + 1 <= q  BY <1>1, <1>3, <1>6
  <2> QED  BY <1>1, <2>1, <2>2
<1>8. (y + 1) * strip \in Int /\ q * strip \in Int
  BY <1>1, <1>3
<1> QED  BY <1>1, <1>7, <1>8 DEF y

(* Every block of a live array lies in a strip that is whole on its        *)
(* children, whatever their sizes are and even if the strip size wrapped   *)
(* around (raid5.rs:863-880).                                              *)
THEOREM ArraysOnChildren == Spec => []OnChildren
<1>1. Types /\ MadeInv => OnChildren
  <2> SUFFICES ASSUME Types, MadeInv, NEW b \in Bdevs, stage[b] = "live",
                      req[b].kind = "raid5",
                      NEW x \in 0..(BlockCnt(req[b]) - 1)
               PROVE  (x \div (StripBlocks(req[b])
                                 * (Len(req[b].children) - 1)) + 1)
                        * StripBlocks(req[b]) <= ChildBlocks(req[b])
    BY DEF OnChildren
  <2> DEFINE r == req[b]
             n == Len(r.children) - 1
             c == ChildBlocks(r)
             l == ChildBlockLen(r)
             z == StripSize(r)
             strip == StripBlocks(r)
  <2>1. r \in Requests /\ Valid5(r)  BY DEF MadeInv, ValidInv, Valid
  <2>2. /\ r.children \in Seq(Disks) /\ r.strip_size_kb \in Nat
        /\ Len(r.children) >= 3
    BY <2>1, LifecycleAssumption DEF Valid5
  <2>3. n \in Nat \ {0} /\ Head(r.children) \in Disks
    <3>1. ASSUME NEW s \in Seq(Disks), Len(s) >= 3
          PROVE  Len(s) - 1 \in Nat \ {0} /\ Head(s) \in Disks
      <4>1. Len(s) \in Nat /\ Head(s) = s[1]  OBVIOUS
      <4>2. s[1] \in Disks  BY <3>1, <4>1
      <4>3. Head(s) \in Disks  BY <4>1, <4>2
      <4>4. Len(s) - 1 \in Nat /\ Len(s) - 1 # 0
        <5>1. \A k \in Nat : k >= 3 => k - 1 \in Nat /\ k - 1 # 0
          OBVIOUS
        <5> QED  BY ONLY <3>1, <4>1, <5>1, Zenon
      <4> QED  BY <4>3, <4>4
    <3> HIDE DEF r
    <3> QED  BY <2>2, <3>1
  <2>4. c \in Nat /\ l \in Nat
    BY <2>3, LifecycleAssumption DEF ChildBlocks, ChildBlockLen
  <2>5. z \in Nat /\ z # 0 /\ l # 0 /\ z % l = 0
    <3>1. r.strip_size_kb * KB \in Nat  BY <2>2, LifecycleAssumption
    <3>2. z = (r.strip_size_kb * KB) % U32  BY DEF StripSize
    <3>3. z # 0 /\ l # 0 /\ z % l = 0  BY <2>1 DEF Valid5
    <3>4. \A u \in Nat : u % U32 \in Nat  BY LifecycleAssumption
    <3> HIDE DEF l, r, z
    <3> QED  BY <3>1, <3>2, <3>3, <3>4
  <2>6. strip = z \div l  BY DEF StripBlocks
  <2> HIDE DEF n, c, l, z, strip
  <2>7. strip \in Nat \ {0}
    <3>1. z \in Nat \ {0} /\ l \in Nat \ {0} /\ z % l = 0
      BY <2>4, <2>5
    <3> QED  BY ONLY <2>6, <3>1, WholeBlocks
  <2>8. BlockCnt(r) = n * ((c \div strip) * strip)
    BY DEF BlockCnt, n, c, strip
  <2>9. x \in Nat /\ x < n * ((c \div strip) * strip)
    <3>1. c \div strip \in Nat  BY <2>4, <2>7
    <3>2. n * ((c \div strip) * strip) \in Nat  BY <2>3, <2>7, <3>1
    <3> QED  BY <2>8, <3>2
  <2>10. (x \div (strip * n) + 1) * strip <= c
    BY <2>3, <2>4, <2>7, <2>9, StripFits
  <2> QED  BY <2>10 DEF n, c, strip
<1>2. IInv => Types  BY DEF IInv
<1> QED  BY <1>1, <1>2, SpecInv, SpecMade, PTL

-----------------------------------------------------------------------------
(* The application: what its bdevs do is a behaviour of BdevLifecycle      *)

LEMMA AppInitRefines == AppInit => Init
BY DEF AppInit

\* Worker, User and Listed take steps of the bdevs.
LEMMA BdevSteps ==
  ASSUME fault = "none", NEW b \in Bdevs,
         \/ Listed(b) \/ User(b)
         \/ \E w \in Workers : Worker(b, w) \/ StopThreads(b, w)
  PROVE  Next
<1>1. CASE Listed(b)
  BY <1>1 DEF Listed, Next, Proceed
<1>2. CASE User(b)
  BY <1>2 DEF User, Next
<1>3. CASE \E w \in Workers : Worker(b, w) \/ StopThreads(b, w)
  BY <1>3 DEF Worker, StopThreads, Next, Work
<1> QED BY <1>1, <1>2, <1>3

\* A step of the application is a step of the bdevs, or none of theirs.
LEMMA AppNextRefines == [AppNext]_allVars => [Next]_vars
<1> SUFFICES ASSUME [AppNext]_allVars PROVE [Next]_vars
  OBVIOUS
<1>1. CASE UNCHANGED allVars
  BY <1>1 DEF allVars
<1>2. CASE AppNext
  <2>0. fault = "none"
    BY <1>2 DEF AppNext
  <2>1. CASE \E cmd \in Commands : RegisterCmd(cmd)
    BY <2>1 DEF RegisterCmd
  <2>2. CASE Run \/ StartFails \/ Started \/ Shutdown
    BY <2>2 DEF Run, Return, StartFails, Started, Shutdown
  <2>3. CASE FinishEnd \/ Stop
    BY <2>3 DEF FinishEnd, Stop, Return
  <2>4. CASE Finish
    <3>1. CASE UNCHANGED vars
      BY <3>1
    <3>2. CASE \E n \in Names : Delete(n)
      BY <2>0, <3>2 DEF Next
    <3> QED BY <2>4, <3>1, <3>2 DEF Finish
  <2>5. CASE \E b \in Bdevs, r \in Requests : RpcCreate(b, r)
    BY <2>0, <2>5 DEF RpcCreate, Next
  <2>6. CASE \E b \in Bdevs : Listed(b) \/ User(b)
    BY <2>0, <2>6, BdevSteps
  <2>7. CASE \E b \in Bdevs, w \in Workers : Worker(b, w) \/ StopThreads(b, w)
    BY <2>0, <2>7, BdevSteps
  <2>8. CASE \E n \in Names : RpcDelete(n) \/ Foreigner(n)
    BY <2>0, <2>8 DEF RpcDelete, Foreigner, Next
  <2>9. CASE \E d \in Removable : LowerGone(d) \/ LowerBack(d)
    BY <2>9 DEF LowerGone, LowerBack
  <2> QED
    BY <1>2, <2>1, <2>2, <2>3, <2>4, <2>5, <2>6, <2>7, <2>8, <2>9
    DEF AppNext, AppProceed
<1> QED BY <1>1, <1>2

\* Between main and the return of run, whatever is created, deleted, taken
\* away or shut down, the bdevs go through the steps of BdevLifecycle and no
\* others: the application adds none (app.rs:53-107, rpc.rs:71-102).
THEOREM ApplicationImplementsLifecycle == AppSpec => Spec
<1>1. AppInit => Init
  BY AppInitRefines
<1>2. [AppNext]_allVars => [Next]_vars
  BY AppNextRefines
<1> QED BY <1>1, <1>2, PTL DEF AppSpec, Spec

-----------------------------------------------------------------------------
(* Safety of the application                                               *)

LEMMA AppInitTypes == AppInit => AppTypes
<1>1. Seq(Disks) \subseteq Seq(Bdevs \cup Disks)
  OBVIOUS
<1> QED BY <1>1, ApplicationAssumption DEF AppInit, AppTypes, Phases, Results

\* What leaves the list leaves a list.
LEMMA UnlistTypes ==
  ASSUME AppTypes, NEW x, Unlist(x)
  PROVE  list' \in Seq(Bdevs \cup Disks)
<1> DEFINE S == Bdevs \cup Disks
<1>1. list \in Seq(S)
  BY DEF AppTypes
<1>2. PICK i \in 1..Len(list) : list' = RemoveAt(list, i)
  BY DEF Unlist
<1>3. SubSeq(list, 1, i - 1) \in Seq(S) /\ SubSeq(list, i + 1, Len(list)) \in Seq(S)
  BY <1>1
<1> QED BY <1>2, <1>3 DEF RemoveAt

LEMMA AppNextTypes == AppTypes /\ [AppNext]_allVars => AppTypes'
<1> SUFFICES ASSUME AppTypes, [AppNext]_allVars PROVE AppTypes'
  OBVIOUS
<1> DEFINE S == Bdevs \cup Disks
<1>1. CASE UNCHANGED allVars
  BY <1>1 DEF allVars, appVars, AppTypes
<1>2. CASE \E cmd \in Commands : RegisterCmd(cmd)
  BY <1>2 DEF RegisterCmd, AppTypes
<1>3. CASE Run \/ StartFails \/ Started \/ Shutdown \/ FinishEnd \/ Stop
  BY <1>3 DEF Run, StartFails, Started, Shutdown, FinishEnd, Stop, Return,
     AppTypes, Phases, Results
<1>4. CASE Finish
  <2>1. Front(list) \in Seq(S)
    BY <1>4 DEF Finish, Front, AppTypes
  <2> QED BY <1>4, <2>1 DEF Finish, appVars, AppTypes
<1>5. CASE \/ \E b \in Bdevs, r \in Requests : RpcCreate(b, r)
           \/ \E b \in Bdevs : User(b)
           \/ \E b \in Bdevs, w \in Workers : Worker(b, w) \/ StopThreads(b, w)
           \/ \E n \in Names : RpcDelete(n) \/ Foreigner(n)
  <2>1. Same
    BY <1>5 DEF RpcCreate, User, Worker, StopThreads, RpcDelete, Foreigner
  <2> QED BY <2>1 DEF Same, appVars, AppTypes
<1>6. CASE \E b \in Bdevs : Listed(b)
  <2>1. PICK b \in Bdevs : Listed(b)
    BY <1>6
  <2>2. Unlist(b) => list' \in Seq(S)
    BY UnlistTypes
  <2>3. list' \in Seq(S)
    BY <2>1, <2>2 DEF Listed, AppTypes
  <2> QED BY <2>1, <2>3 DEF Listed, appVars, AppTypes
<1>7. CASE \E d \in Removable : LowerGone(d) \/ LowerBack(d)
  <2>1. PICK d \in Removable : LowerGone(d) \/ LowerBack(d)
    BY <1>7
  <2>2. Unlist(d) => list' \in Seq(S)
    BY UnlistTypes
  <2>3. CASE LowerGone(d)
    <3>1. removals' \in 0..MaxRemovals
      BY <2>3, ApplicationAssumption DEF LowerGone, AppTypes
    <3> QED BY <2>2, <2>3, <3>1 DEF LowerGone, appVars, AppTypes
  <2>4. CASE LowerBack(d)
    <3>1. d \in S
      BY ApplicationAssumption
    <3> QED BY <2>4, <3>1 DEF LowerBack, appVars, AppTypes
  <2> QED BY <2>1, <2>3, <2>4
<1> QED BY <1>1, <1>2, <1>3, <1>4, <1>5, <1>6, <1>7 DEF AppNext, AppProceed

\* The application's own state and that of its bdevs keep their types, the
\* bound on the messages of a worker included.
THEOREM ApplicationTypeCorrect == AppSpec => []AppTypeOK
<1>1. AppSpec => []AppTypes
  BY AppInitTypes, AppNextTypes, PTL DEF AppSpec
<1> QED
  BY <1>1, ApplicationImplementsLifecycle, LifecycleTypeCorrect, PTL
  DEF AppTypeOK

\* Through start, RPCs, the loss of lower bdevs and stop, a bdev in use holds
\* its name in the registry and in SPDK's table (lib.rs:1384-1425).
THEOREM ApplicationTablesAgree == AppSpec => []TablesAgree
BY ApplicationImplementsLifecycle, TablesAlwaysAgree, PTL

\* No request finds its worker without a channel (raid5.rs:176).
THEOREM ApplicationFindsChannel == AppSpec => []IoFindsChannel
BY ApplicationImplementsLifecycle, RequestsFindChannel, PTL

\* No request is lost with its worker, at the end of the application either.
THEOREM ApplicationLosesNone == AppSpec => []NoneLost
BY ApplicationImplementsLifecycle, NoRequestLost, PTL


\* The arrays live in the application fit on their children: however many
\* lower bdevs there are and whatever their sizes (raid5.rs:863-880).
THEOREM ApplicationOnChildren == AppSpec => []OnChildren
BY ApplicationImplementsLifecycle, ArraysOnChildren, PTL

-----------------------------------------------------------------------------
(* What is left at the end                                                 *)

Over == app = "returned" /\ startCb = "called"

\* on_start's callback is called on the way from "starting" to "running".
PhaseInv == app \in {"main", "starting"} => startCb # "called"

\* SPDK's list has every bdev that is not unregistered: it does not end the
\* bdevs before it has gone through all of them.
ListInv ==
  \A b \in Bdevs : stage[b] \in {"live", "removing"} => b \in Range(list)

\* No creation is under way when the application stops, no bdev is left when
\* its reactors stop, and no thread when run returns.
CalmInv ==
  \A b \in Bdevs :
    /\ app \in {"stopping", "reactors"} \/ Over =>
         stage[b] \notin {"registering", "failed"}
    /\ app = "reactors" \/ Over => stage[b] \in {"unused", "gone", "leaked"}
    /\ Over => \A w \in Workers : worker[b][w] # "running"

StopInv == PhaseInv /\ ListInv /\ CalmInv

LEMMA RangeSeq ==
  ASSUME NEW S, NEW s \in Seq(S), NEW x
  PROVE  x \in Range(s) <=> \E i \in 1..Len(s) : s[i] = x
BY DEF Range

\* Removing one place of the list removes nothing but what was there.
LEMMA RemoveKeeps ==
  ASSUME NEW S, NEW s \in Seq(S), NEW i \in 1..Len(s),
         NEW y \in Range(s), y # s[i]
  PROVE  y \in Range(RemoveAt(s, i))
<1> DEFINE front == SubSeq(s, 1, i - 1)
           back  == SubSeq(s, i + 1, Len(s))
<1>1. PICK j \in 1..Len(s) : s[j] = y
  BY RangeSeq
<1>2. j # i  BY <1>1
<1>3. /\ front \in Seq(S) /\ Len(front) = i - 1
      /\ \A k \in 1..(i - 1) : front[k] = s[k]
  OBVIOUS
<1>4. /\ back \in Seq(S) /\ Len(back) = Len(s) - i
      /\ \A k \in 1..(Len(s) - i) : back[k] = s[i + k]
  OBVIOUS
<1> HIDE DEF front, back
<1>5. /\ front \o back \in Seq(S) /\ Len(front \o back) = Len(s) - 1
      /\ \A k \in 1..(i - 1) : (front \o back)[k] = front[k]
      /\ \A k \in 1..(Len(s) - i) : (front \o back)[i - 1 + k] = back[k]
  <2>1. /\ front \o back \in Seq(S)
        /\ Len(front \o back) = Len(front) + Len(back)
        /\ \A k \in 1..(Len(front) + Len(back)) : (front \o back)[k] =
             IF k <= Len(front) THEN front[k] ELSE back[k - Len(front)]
    BY ONLY <1>3, <1>4, ConcatProperties
  <2>2. Len(s) \in Nat  OBVIOUS
  <2> HIDE DEF front, back
  <2>3. \A k \in 1..(Len(s) - i) :
          /\ i - 1 + k \in 1..(Len(s) - 1) /\ ~(i - 1 + k <= i - 1)
          /\ i - 1 + k - (i - 1) = k
    BY <2>2
  <2>4. Len(front \o back) = Len(s) - 1
    BY <1>3, <1>4, <2>1, <2>2
  <2>5. \A k \in 1..(i - 1) : (front \o back)[k] = front[k]
    <3>1. \A k \in 1..(i - 1) :
            k \in 1..(Len(front) + Len(back)) /\ k <= Len(front)
      BY <1>3, <1>4, <2>2
    <3> QED  BY ONLY <2>1, <3>1
  <2>6. \A k \in 1..(Len(s) - i) : (front \o back)[i - 1 + k] = back[k]
    <3>1. Len(front) + Len(back) = Len(s) - 1
      BY <1>3, <1>4, <2>2
    <3>2. Len(front) = i - 1  BY <1>3
    <3> QED  BY ONLY <2>1, <2>3, <3>1, <3>2
  <2> QED  BY <2>1, <2>4, <2>5, <2>6
<1>6. \E k \in 1..(Len(s) - 1) : (front \o back)[k] = y
  <2>1. CASE j < i
    BY <1>1, <1>3, <1>5, <2>1
  <2>2. CASE j > i
    <3>1. j - i \in 1..(Len(s) - i) /\ i + (j - i) = j  BY <2>2
    <3>2. back[j - i] = y  BY <1>1, <1>4, <3>1
    <3>3. (front \o back)[i - 1 + (j - i)] = y  BY <1>5, <3>1, <3>2
    <3>4. i - 1 + (j - i) \in 1..(Len(s) - 1)  BY <2>2
    <3> QED  BY <3>3, <3>4
  <2>3. j < i \/ j > i  BY <1>2
  <2> QED  BY <2>1, <2>2, <2>3
<1>7. y \in Range(front \o back)
  BY <1>5, <1>6, RangeSeq
<1> QED  BY <1>7 DEF RemoveAt, front, back

LEMMA UnlistKeeps ==
  ASSUME AppTypes, NEW x, Unlist(x), NEW y \in Range(list), y # x
  PROVE  y \in Range(list')
<1>1. list \in Seq(Bdevs \cup Disks)  BY DEF AppTypes
<1>2. PICK i \in 1..Len(list) : list[i] = x /\ list' = RemoveAt(list, i)
  BY DEF Unlist
<1> QED  BY <1>1, <1>2, RemoveKeeps

LEMMA FrontKeeps ==
  ASSUME NEW S, NEW s \in Seq(S), s # <<>>, NEW y \in Range(s), y # Last(s)
  PROVE  y \in Range(Front(s))
<1>1. PICK j \in 1..Len(s) : s[j] = y
  BY RangeSeq
<1>2. j # Len(s)  BY <1>1 DEF Last
<1>3. Len(s) \in Nat /\ j \in 1..(Len(s) - 1)
  BY <1>2
<1>4. /\ Front(s) \in Seq(S) /\ Len(Front(s)) = Len(s) - 1
      /\ \A k \in 1..(Len(s) - 1) : Front(s)[k] = s[k]
  BY <1>3 DEF Front
<1> QED  BY <1>1, <1>3, <1>4, RangeSeq


\* Which bdevs a step leaves in SPDK's list, with the stage they had.
LEMMA NextList == Types /\ AppTypes /\ ListInv /\ [AppNext]_allVars => ListInv'
<1> SUFFICES ASSUME Types, AppTypes, ListInv, [AppNext]_allVars,
                    NEW b \in Bdevs, stage'[b] \in {"live", "removing"}
             PROVE  b \in Range(list')
  BY DEF ListInv
<1> USE DEF ListInv
<1>0. list \in Seq(Bdevs \cup Disks)
  BY DEF AppTypes
<1>1. CASE stage' = stage /\ list' = list
  BY <1>1
<1>2. CASE \E c \in Bdevs, r \in Requests : RpcCreate(c, r)
  <2>1. PICK c \in Bdevs, r \in Requests : Create(c, r) /\ list' = list
    BY <1>2 DEF RpcCreate, Same
  <2>2. \E s \in Stages \ {"live", "removing"} : stage' = [stage EXCEPT ![c] = s]
    BY <2>1 DEF Create, Create_Exists, Create_BadOpts, Create_NoMem,
       Create_Register, Begin, Stages
  <2>3. stage[b] = stage'[b]
    BY <2>2 DEF Types
  <2> QED  BY <2>1, <2>3
<1>3. CASE \E c \in Bdevs : Listed(c)
  <2>1. PICK c \in Bdevs : Listed(c)  BY <1>3
  <2>2. CASE Create_Done(c) /\ list' = Append(list, c)
    <3>1. Range(list') = Range(list) \cup {c}
      BY <1>0, <2>2, AppendFacts
    <3>2. b = c \/ stage[b] = stage'[b]
      BY <2>2 DEF Create_Done, Types
    <3> QED  BY <3>1, <3>2
  <2>3. CASE Unlink(c) /\ Unlist(c)
    <3>1. b # c /\ stage[b] = stage'[b]
      BY <2>3 DEF Unlink, Types
    <3> QED  BY <2>3, <3>1, UnlistKeeps
  <2>4. CASE /\ Create_Failed(c) \/ Create_Return(c) \/ Destruct(c) \/ CtxDrop(c)
             /\ UNCHANGED list
    <3>1. stage[b] = stage'[b]
      BY <2>4 DEF Create_Failed, Create_Return, Destruct, CtxDrop, Types
    <3> QED  BY <2>4, <3>1
  <2> QED  BY <2>1, <2>2, <2>3, <2>4 DEF Listed
<1>4. ASSUME NEW n \in Names, Delete(n) PROVE stage[b] \in {"live", "removing"}
  BY <1>4 DEF Delete, Types
<1>5. CASE Finish
  <2>1. CASE (\E n \in Names : spdk[n] = Last(list) /\ Delete(n)) /\ UNCHANGED list
    BY <1>4, <2>1
  <2>2. CASE Last(list) \in Disks /\ list' = Front(list) /\ UNCHANGED vars
    <3>1. b # Last(list) /\ b \in Range(list)
      BY <2>2, ApplicationAssumption DEF vars, bdevVars
    <3> QED  BY <1>0, <1>5, <2>2, <3>1, FrontKeeps DEF Finish
  <2> QED  BY <1>5, <2>1, <2>2 DEF Finish
<1>6. CASE \E d \in Removable : LowerGone(d) \/ LowerBack(d)
  <2>1. PICK d \in Removable : LowerGone(d) \/ LowerBack(d)  BY <1>6
  <2>2. stage' = stage /\ d \in Disks /\ b # d
    BY <2>1, ApplicationAssumption DEF LowerGone, LowerBack, vars, bdevVars
  <2>3. CASE LowerGone(d)
    BY <2>2, <2>3, UnlistKeeps DEF LowerGone
  <2>4. CASE LowerBack(d)
    <3>1. Range(list') = Range(list) \cup {d}
      BY <1>0, <2>2, <2>4, AppendFacts DEF LowerBack
    <3> QED  BY <2>2, <3>1
  <2> QED  BY <2>1, <2>3, <2>4
<1>7. CASE \E n \in Names : RpcDelete(n)
  BY <1>4, <1>7 DEF RpcDelete, Same
<1>8. CASE \/ UNCHANGED allVars
           \/ \E cmd \in Commands : RegisterCmd(cmd)
           \/ Run \/ StartFails \/ Started \/ Shutdown \/ FinishEnd \/ Stop
  <2>1. stage' = stage /\ list' = list
    BY <1>8 DEF allVars, vars, bdevVars, RegisterCmd, Run, StartFails, Started,
       Shutdown, FinishEnd, Stop, Return
  <2> QED  BY <1>1, <2>1
<1>9. CASE \/ \E c \in Bdevs : User(c)
           \/ \E c \in Bdevs, w \in Workers : Worker(c, w) \/ StopThreads(c, w)
           \/ \E n \in Names : Foreigner(n)
  <2>1. stage' = stage /\ list' = list
    BY <1>9 DEF User, Worker, StopThreads, Foreigner, Same, Open, Open_Fault,
       Close, Submit, InitTask, InitTask_Fault, IoTask, IoDone, WorkerExit,
       ReactorExit, ForeignAdd, ForeignRemove, bdevVars
  <2> QED  BY <1>1, <2>1
<1> QED
  BY <1>2, <1>3, <1>5, <1>6, <1>7, <1>8, <1>9 DEF AppNext, AppProceed

\* The callback of on_start is called once, by Started.
LEMMA NextPhase == PhaseInv /\ [AppNext]_allVars => PhaseInv'
<1> SUFFICES ASSUME PhaseInv, [AppNext]_allVars PROVE PhaseInv'
  OBVIOUS
<1>1. CASE UNCHANGED <<app, startCb>>
  BY <1>1 DEF PhaseInv
<1>2. CASE Run \/ StartFails \/ Started \/ Shutdown \/ FinishEnd \/ Stop
  BY <1>2 DEF Run, StartFails, Started, Shutdown, FinishEnd, Stop, Return,
     PhaseInv
<1>3. CASE \/ UNCHANGED allVars
           \/ \E cmd \in Commands : RegisterCmd(cmd)
           \/ Finish
           \/ \E b \in Bdevs, r \in Requests : RpcCreate(b, r)
           \/ \E b \in Bdevs : Listed(b) \/ User(b)
           \/ \E b \in Bdevs, w \in Workers : Worker(b, w) \/ StopThreads(b, w)
           \/ \E n \in Names : RpcDelete(n) \/ Foreigner(n)
           \/ \E d \in Removable : LowerGone(d) \/ LowerBack(d)
  <2>1. UNCHANGED <<app, startCb>>
    BY <1>3 DEF allVars, RegisterCmd, Finish, RpcCreate, Listed, User, Worker,
       StopThreads, RpcDelete, Foreigner, LowerGone, LowerBack, Same, appVars
  <2> QED  BY <1>1, <2>1
<1> QED  BY <1>2, <1>3 DEF AppNext, AppProceed


\* The end of the list is the end of the bdevs, and no RPC comes after it.
LEMMA NextCalm ==
  Types /\ AppTypes /\ StopInv /\ [AppNext]_allVars => CalmInv'
<1> SUFFICES ASSUME Types, AppTypes, StopInv, [AppNext]_allVars PROVE CalmInv'
  OBVIOUS
<1> USE DEF CalmInv, Over
<1>0. PhaseInv /\ ListInv /\ CalmInv
  BY DEF StopInv
<1>1. CASE UNCHANGED <<app, startCb, stage, worker>>
  BY <1>0, <1>1
<1>2. CASE app' = "running"
  BY <1>2
<1>3. CASE Run \/ StartFails \/ Started
  <2>1. app \in {"main", "starting"}
    BY <1>3 DEF Run, StartFails, Started
  <2>2. app' \in {"main", "starting", "running"} \/ startCb' # "called"
    BY <1>0, <1>3, <2>1 DEF PhaseInv, Run, StartFails, Started, Return
  <2>3. app' \notin {"stopping", "reactors"}
    BY <1>3 DEF Run, StartFails, Started, Return
  <2> QED  BY <2>2, <2>3
<1>4. CASE Shutdown
  <2>1. app' = "stopping" /\ stage' = stage /\ ~Busy
    BY <1>4 DEF Shutdown, vars, bdevVars
  <2> QED  BY <2>1 DEF Busy
<1>5. CASE FinishEnd
  <2>1. app' = "reactors" /\ stage' = stage /\ app = "stopping" /\ list = <<>>
    BY <1>5 DEF FinishEnd, vars, bdevVars
  <2>2. ASSUME NEW b \in Bdevs PROVE stage[b] \in {"unused", "gone", "leaked"}
    <3>1. Range(list) = {}  BY <2>1 DEF Range
    <3>2. stage[b] \notin {"live", "removing"}
      BY <1>0, <3>1 DEF ListInv
    <3>3. stage[b] \notin {"registering", "failed"}
      BY <1>0, <2>1
    <3>4. stage[b] \notin {"removing", "unlinked", "destructing"}
      BY <1>5 DEF FinishEnd, Leaving
    <3>5. stage[b] \in Stages  BY DEF Types
    <3> QED  BY <3>2, <3>3, <3>4, <3>5 DEF Stages
  <2> QED  BY <2>1, <2>2
<1>6. CASE Stop
  <2>1. /\ app = "reactors" /\ app' = "returned"
        /\ stage' = stage /\ worker' = worker
        /\ \A b \in Bdevs, w \in Workers : worker[b][w] # "running"
    BY <1>6 DEF Stop, Return, vars, bdevVars, workerVars
  <2> QED  BY <1>0, <2>1
<1>7. CASE Finish
  <2>1. app = "stopping" /\ app' = app
    BY <1>7 DEF Finish, appVars
  <2>2. ASSUME NEW n \in Names, Delete(n), NEW b \in Bdevs
        PROVE  stage'[b] \in {stage[b], "removing"}
    BY <2>2 DEF Delete, Types
  <2>3. \A b \in Bdevs : stage'[b] \in {stage[b], "removing"}
    BY <1>7, <2>2 DEF Finish, vars, bdevVars
  <2> QED  BY <1>0, <2>1, <2>3
<1>8. CASE \E c \in Bdevs : Listed(c)
  <2>1. PICK c \in Bdevs : Listed(c)  BY <1>8
  <2>2. app # "returned" /\ app' = app
    BY <2>1 DEF Listed, appVars
  <2>3. \/ stage[c] = "registering" /\ \E s \in {"live", "failed"} :
             stage' = [stage EXCEPT ![c] = s]
        \/ stage[c] \in {"failed", "removing", "unlinked", "destructing"}
             /\ \E s \in {"gone", "unlinked", "destructing"} :
                  stage' = [stage EXCEPT ![c] = s]
    BY <2>1 DEF Listed, Create_Done, Create_Failed, Create_Return, Unlink,
       Destruct, CtxDrop
  <2>4. ASSUME app \in {"stopping", "reactors"}, NEW b \in Bdevs
        PROVE  stage'[b] \notin {"registering", "failed"}
    <3>1. stage[c] # "registering"  BY <1>0, <2>4
    <3> QED  BY <1>0, <2>3, <2>4, <3>1 DEF Types
  <2>5. app # "reactors"
    BY <1>0, <2>3
  <2> QED  BY <2>2, <2>4, <2>5
<1>9. CASE \E b \in Bdevs, w \in Workers : Worker(b, w) \/ StopThreads(b, w)
  <2>1. app # "returned" /\ app' = app /\ startCb' = startCb /\ stage' = stage
    BY <1>9 DEF Worker, StopThreads, Same, appVars, InitTask, InitTask_Fault,
       IoTask, IoDone, WorkerExit, ReactorExit, bdevVars
  <2> QED  BY <1>0, <2>1
<1>10. CASE \/ \E b \in Bdevs, r \in Requests : RpcCreate(b, r)
            \/ \E n \in Names : RpcDelete(n)
            \/ \E d \in Removable : LowerGone(d) \/ LowerBack(d)
  <2>1. app' = "running"
    BY <1>10 DEF RpcCreate, RpcDelete, LowerGone, LowerBack, Same, appVars
  <2> QED  BY <1>2, <2>1
<1>11. CASE \/ UNCHANGED allVars
            \/ \E cmd \in Commands : RegisterCmd(cmd)
            \/ \E b \in Bdevs : User(b)
            \/ \E n \in Names : Foreigner(n)
  <2>1. UNCHANGED <<app, startCb, stage, worker>>
    BY <1>11 DEF allVars, vars, appVars, RegisterCmd, User, Foreigner, Same,
       Open, Open_Fault, Close, Submit, ForeignAdd, ForeignRemove, bdevVars,
       workerVars
  <2> QED  BY <1>1, <2>1
<1> QED
  BY <1>3, <1>4, <1>5, <1>6, <1>7, <1>8, <1>9, <1>10, <1>11
  DEF AppNext, AppProceed

LEMMA SpecStop == AppSpec => []StopInv
<1>1. AppInit => StopInv
  BY DEF AppInit, Init, StopInv, PhaseInv, ListInv, CalmInv, Over
<1>2. TypeOK /\ AppTypes /\ StopInv /\ [AppNext]_allVars => StopInv'
  BY NextPhase, NextList, NextCalm DEF StopInv, TypeOK
<1> QED
  BY <1>1, <1>2, ApplicationTypeCorrect, PTL DEF AppSpec, AppTypeOK

\* When run returns after a start no bdev is half made or half gone, no thread
\* runs, no channel is open, no request is lost, and the registry remembers
\* only the bdevs whose creation leaked (lib.rs:1384-1405, bdev.c:38-52).
THEOREM ApplicationLeavesNothing == AppSpec => []NothingLeft
<1>1. Types /\ StopInv /\ MadeInv /\ NoneLost => NothingLeft
  <2> SUFFICES ASSUME Types, StopInv, MadeInv, NoneLost, Over
               PROVE  /\ \A b \in Bdevs : stage[b] \in {"unused", "gone", "leaked"}
                      /\ \A b \in Bdevs, w \in Workers :
                           /\ worker[b][w] # "running" /\ chan[b][w] # "open"
                           /\ io[b][w] # "lost"
                      /\ \A n \in Names :
                           registry[n] # NoBdev => stage[registry[n]] = "leaked"
    BY DEF NothingLeft, Over
  <2>1. CalmInv  BY DEF StopInv
  <2>2. \A b \in Bdevs : stage[b] \in {"unused", "gone", "leaked"}
    BY <2>1 DEF CalmInv
  <2>3. \A b \in Bdevs, w \in Workers : worker[b][w] # "running"
    BY <2>1 DEF CalmInv
  <2>4. \A b \in Bdevs, w \in Workers : chan[b][w] # "open"
    BY <2>3 DEF MadeInv, ThreadInv
  <2>5. ASSUME NEW n \in Names, registry[n] # NoBdev
        PROVE  stage[registry[n]] = "leaked"
    <3>1. registry[n] \in Bdevs  BY <2>5 DEF Types
    <3>2. ~InUse(registry[n])  BY <2>2, <3>1 DEF InUse
    <3> QED  BY <2>5, <3>2 DEF MadeInv, NameInv
  <2> QED  BY <2>2, <2>3, <2>4, <2>5 DEF NoneLost
<1>2. Spec => []MadeInv  BY SpecMade
<1>3. TypeOK => Types  BY DEF TypeOK
<1> QED
  BY <1>1, <1>2, <1>3, SpecStop, ApplicationImplementsLifecycle,
     ApplicationTypeCorrect, ApplicationLosesNone, PTL
  DEF AppTypeOK

=============================================================================
