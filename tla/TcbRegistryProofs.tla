------------------------- MODULE TcbRegistryProofs --------------------------
(***************************************************************************)
(* Proofs about TcbRegistry, for any reactors, addresses, slots and        *)
(* numbers of threads, blocks and values: an entry of the registry is the  *)
(* block of the thread that has the address, a reactor finds the block of  *)
(* the thread it runs, whatever its cache holds, values are dropped once,  *)
(* and the storage implements ThreadLocal.                                 *)
(***************************************************************************)
EXTENDS TcbRegistry, FiniteSetTheorems, TLAPS

-----------------------------------------------------------------------------
(* The inductive invariant.                                                *)

Counted(S) == IsFiniteSet(S) /\ S = 1..Cardinality(S)

\* An address has a thread or none; ids are given out in order and never
\* twice.
ThreadInv ==
  /\ \A a \in Addrs : life[a] = "none" <=> id[a] = NoThread
  /\ \A a \in Addrs : life[a] = "exiting" <=> id[a] \in exiting
  /\ \A a, c \in Addrs : id[a] = id[c] /\ id[a] # NoThread => a = c
  /\ Counted(Born)

\* A reactor that is not idle runs code of a thread that is there, and that no
\* other reactor runs.
CodeInv ==
  /\ ~panic
  /\ \A r \in Reactors :
       /\ pc[r] = "idle" <=> at[r] = None
       /\ pc[r] # "idle" =>
            at[r] \in Addrs /\ life[at[r]] # "none" /\ place[at[r]] = r
       /\ pc[r] \in {"clear", "cleared", "remove"} => self[r] # NoBlock
       /\ pc[r] = "idle" => self[r] = NoBlock
       /\ self[r] # NoBlock =>
            life[at[r]] = "exiting" /\ registry[at[r]] = self[r]

\* Blocks are made in order, each for one thread.
BlockInv ==
  /\ Counted(Made)
  /\ \A b \in Blocks : owner[b] \in Born \cup {NoThread}
  /\ \A b \in Blocks : poller[b] \in {owner[b], NoThread}
  /\ \A r \in Reactors : cacheId[r] \in Born \cup {NoThread}

Empty(b) == \A i \in Slots : slot[b][i] = None

\* Block b serves thread code at address a: it is the registry's, or the
\* thread exits and neither of the two has a value left.
Serves(b, a) ==
  /\ b # NoBlock /\ owner[b] = id[a]
  /\ \/ registry[a] = b
     \/ /\ life[a] = "exiting" /\ Empty(b)
        /\ registry[a] # NoBlock => Empty(registry[a])

\* What a cache holds for a thread that is still there serves it, and so does
\* what current has returned.
CacheInv ==
  /\ \A r \in Reactors, a \in Addrs :
       life[a] # "none" /\ cacheId[r] = id[a] => Serves(cacheTcb[r], a)
  /\ \A r \in Reactors : pc[r] = "use" => Serves(cur[r], at[r])

\* Reactor r is between the drop of a value and the end of its slot.
Dropping(r) == self[r] # NoBlock /\ pc[r] \notin {"clear", "remove"}

\* Where clear_all has come to ...
IndexInv ==
  \A r \in Reactors : self[r] # NoBlock =>
    (pc[r] = "remove" <=> index[r] = TLS_SLOTS)

\* ... and what it leaves behind.
ClearInv ==
  \A r \in Reactors : self[r] # NoBlock =>
    /\ \A i \in Slots : i < index[r] => slot[self[r]][i] = None
    /\ Dropping(r) =>
         /\ slot[self[r]][index[r]] \in Values
         /\ freed[slot[self[r]][index[r]]] = 1

\* A value is in one slot, of a block of the thread that stored it, until it is
\* dropped.
Held(v) == \E b \in Blocks, i \in Slots : slot[b][i] = v

ValueInv ==
  /\ \A b \in Blocks : poller[b] = NoThread => Empty(b)
  /\ \A v \in Values :
       /\ freed[v] \in {0, 1}
       /\ setBy[v] \in Born \cup {NoThread}
       /\ setBy[v] = NoThread => freed[v] = 0
       /\ setBy[v] # NoThread /\ freed[v] = 0 => Held(v)
  /\ \A b \in Blocks, i \in Slots : slot[b][i] # None =>
       /\ setBy[slot[b][i]] = owner[b] /\ owner[b] # NoThread
       /\ \A c \in Blocks, j \in Slots :
            slot[c][j] = slot[b][i] => c = b /\ j = i
       /\ freed[slot[b][i]] = 1 =>
            \E r \in Reactors : Dropping(r) /\ self[r] = b /\ index[r] = i

\* The part that holds whatever code does while its thread exits, and all of
\* it, which needs that such code stores nothing.
Safe == TypeOK /\ ThreadInv /\ CodeInv /\ IndexInv /\ BlockInv /\ RegistryMatches
Full == Safe /\ CacheInv /\ ClearInv /\ ValueInv

-----------------------------------------------------------------------------
(* Counting.                                                               *)

LEMMA CountOne ==
  ASSUME NEW S, Counted(S)
  PROVE  /\ Cardinality(S) \in Nat
         /\ Cardinality(S) + 1 \notin S
         /\ Counted(S \cup {Cardinality(S) + 1})
<1> DEFINE n == Cardinality(S) + 1
           T == S \cup {n}
<1>1. Cardinality(S) \in Nat  BY FS_CardinalityType DEF Counted
<1>2. n \notin S  BY <1>1 DEF Counted
<1>3. IsFiniteSet(T) /\ Cardinality(T) = n
  BY <1>2, FS_AddElement DEF Counted
<1>4. T = 1..n  BY <1>1 DEF Counted
<1> QED  BY <1>1, <1>2, <1>3, <1>4 DEF Counted

LEMMA CountNone == Counted({})
BY FS_EmptySet DEF Counted

\* What the steps of SPDK do to the ids that were given out.
LEMMA BornStep ==
  ASSUME TypeOK, ThreadInv, NEW a \in Addrs
  PROVE  /\ Create(a) => Born' = Born \cup {id'[a]}
         /\ RequestExit(a) \/ Destroy(a) => Born' = Born
<1>1. ASSUME Create(a) PROVE Born' = Born \cup {id'[a]}
  <2>1. id[a] = NoThread /\ exiting' = exiting
    BY <1>1 DEF Create, ThreadInv
  <2>2. id' = [id EXCEPT ![a] = Cardinality(Born) + 1]
    BY <1>1 DEF Create
  <2>3. id'[a] # NoThread
    <3>1. Cardinality(Born) \in Nat  BY CountOne DEF ThreadInv
    <3>2. id'[a] = Cardinality(Born) + 1  BY <2>2 DEF TypeOK
    <3> QED  BY <3>1, <3>2 DEF NoThread
  <2>4. \A c \in Addrs : c # a => id'[c] = id[c]  BY <2>2 DEF TypeOK
  <2> QED  BY <2>1, <2>3, <2>4 DEF Born
<1>2. ASSUME RequestExit(a) PROVE Born' = Born
  BY <1>2 DEF RequestExit, Born, NoThread, TypeOK, ThreadInv
<1>3. ASSUME Destroy(a) PROVE Born' = Born
  BY <1>3 DEF Destroy, Born, NoThread, TypeOK, ThreadInv
<1> QED  BY <1>1, <1>2, <1>3

LEMMA MadeStep ==
  ASSUME TypeOK, BlockInv, NEW b \in Blocks, NEW t \in Threads,
         b = Cardinality(Made) + 1, owner' = [owner EXCEPT ![b] = t]
  PROVE  Made' = Made \cup {b} /\ owner[b] = NoThread /\ Counted(Made')
<1>1. Counted(Made) /\ b \notin Made  BY CountOne DEF BlockInv
<1>2. owner[b] = NoThread  BY <1>1 DEF Made
<1>3. \A c \in Blocks : owner'[c] # NoThread <=> owner[c] # NoThread \/ c = b
  BY DEF TypeOK, Threads, NoThread
<1>4. Made' = Made \cup {b}  BY <1>3 DEF Made
<1> QED  BY <1>1, <1>2, <1>4, CountOne

-----------------------------------------------------------------------------
(* Types.                                                                  *)

LEMMA CurrentType ==
  ASSUME TypeOK, NEW r \in Reactors, NEW a \in Addrs, Current(r, a)
  PROVE  /\ at' \in [Reactors -> Addrs \cup {None}]
         /\ pc' \in [Reactors -> Steps]
         /\ cur' \in [Reactors -> Blocks \cup {NoBlock}]
<1>1. at' \in [Reactors -> Addrs \cup {None}]  BY DEF Current, TypeOK
<1>2. pc' \in [Reactors -> Steps]  BY DEF Current, TypeOK, Steps
<1>3. cur' \in [Reactors -> Blocks \cup {NoBlock}]
  <2>1. cacheTcb[r] \in Blocks \cup {NoBlock}  BY DEF TypeOK
  <2>2. cur' = [cur EXCEPT ![r] = cacheTcb[r]] \/ cur' = cur  BY DEF Current
  <2> QED  BY <2>1, <2>2 DEF TypeOK
<1> QED  BY <1>1, <1>2, <1>3

LEMMA CacheType ==
  ASSUME TypeOK, NEW r \in Reactors, NEW b \in Blocks, at[r] \in Addrs,
         Cache(r, b)
  PROVE  /\ cur' \in [Reactors -> Blocks \cup {NoBlock}]
         /\ cacheId' \in [Reactors -> Threads \cup {NoThread}]
         /\ cacheTcb' \in [Reactors -> Blocks \cup {NoBlock}]
         /\ pc' \in [Reactors -> Steps]
BY DEF Cache, Mine, TypeOK, Steps

LEMMA ReturnType ==
  ASSUME TypeOK, NEW r \in Reactors, Return(r)
  PROVE  /\ pc' \in [Reactors -> Steps]
         /\ at' \in [Reactors -> Addrs \cup {None}]
         /\ cur' \in [Reactors -> Blocks \cup {NoBlock}]
BY DEF Return, TypeOK, Steps

LEMMA DropType ==
  ASSUME TypeOK, NEW v, DropOld(v)
  PROVE  freed' \in [Values -> Nat]
<1>1. ASSUME NEW w \in Values
      PROVE  [freed EXCEPT ![v] = @ + 1][w] \in Nat
  BY DEF TypeOK
<1>2. [freed EXCEPT ![v] = @ + 1] \in [Values -> Nat]
  BY <1>1 DEF TypeOK
<1> QED  BY <1>2 DEF DropOld, TypeOK

\* The address a busy reactor is at, and the slot that is being cleared.
LEMMA Where ==
  ASSUME TypeOK, ThreadInv, CodeInv, IndexInv, NEW r \in Reactors,
         pc[r] # "idle"
  PROVE  /\ at[r] \in Addrs /\ Mine(r) \in Threads
         /\ pc[r] \in {"clear", "cleared"} => self[r] \in Blocks /\ index[r] \in Slots
         /\ pc[r] = "remove" => self[r] \in Blocks
<1>1. at[r] \in Addrs /\ life[at[r]] # "none"  BY DEF CodeInv
<1>2. pc[r] \in {"clear", "cleared", "remove"} => self[r] \in Blocks
  BY DEF CodeInv, TypeOK
<1>3. pc[r] \in {"clear", "cleared"} => index[r] \in Slots
  BY <1>2, RegistryAssumption
  DEF IndexInv, TypeOK, Slots, NoBlock, Blocks
<1>4. Mine(r) \in Threads  BY <1>1 DEF Mine, TypeOK, ThreadInv
<1> QED  BY <1>1, <1>2, <1>3, <1>4

\* The three ways of a step of clear_all: an empty slot; a value is dropped;
\* its drop code reads another key.
SkipSlot(r) ==
  /\ slot[self[r]][index[r]] = None
  /\ index' = [index EXCEPT ![r] = index[r] + 1]
  /\ pc' = [pc EXCEPT ![r] = AfterSlot(index[r])]
  /\ freed' = freed
  /\ UNCHANGED <<at, cur>>
DropSlot(r) ==
  /\ slot[self[r]][index[r]] # None
  /\ pc' = [pc EXCEPT ![r] = "cleared"]
  /\ DropOld(slot[self[r]][index[r]])
  /\ UNCHANGED <<at, cur, index>>
DropReads(r) ==
  /\ slot[self[r]][index[r]] # None
  /\ Current(r, at[r])
  /\ DropOld(slot[self[r]][index[r]])
  /\ UNCHANGED index

LEMMA ClearCases ==
  ASSUME NEW r \in Reactors, Clear(r)
  PROVE  SkipSlot(r) \/ DropSlot(r) \/ DropReads(r)
BY DEF Clear, SkipSlot, DropSlot, DropReads, DropOld

LEMMA InitType == Init => TypeOK
<1> SUFFICES ASSUME Init PROVE TypeOK
  OBVIOUS
<1>1. /\ 0 \in 0..TLS_SLOTS
      /\ [b \in Blocks |-> [i \in Slots |-> None]]
           \in [Blocks -> [Slots -> Values \cup {None}]]
  BY RegistryAssumption
<1> QED  BY <1>1 DEF Init, TypeOK, Steps

LEMMA NextType == Safe /\ [Next]_vars => TypeOK'
<1> SUFFICES ASSUME Safe, [Next]_vars PROVE TypeOK'
  OBVIOUS
<1> USE DEF Safe
<1>1. ASSUME NEW a \in Addrs, Create(a) PROVE TypeOK'
  <2>1. Cardinality(Born) + 1 \in Threads
    <3>1. Cardinality(Born) \in Nat  BY CountOne DEF ThreadInv
    <3> QED  BY <1>1, <3>1, RegistryAssumption DEF Create, Threads
  <2> HIDE DEF Safe
  <2> QED
    BY <1>1, <2>1, RegistryAssumption
    DEF Safe, Create, TypeOK, cacheVars, blockVars, valueVars, callVars
<1>2. ASSUME NEW a \in Addrs, RequestExit(a) \/ Destroy(a) PROVE TypeOK'
  <2>1. CASE RequestExit(a)
    <3>1. id[a] \in Threads  BY <2>1 DEF RequestExit, ThreadInv, TypeOK
    <3> QED
      BY <2>1, <3>1
      DEF RequestExit, TypeOK, cacheVars, blockVars, valueVars, callVars
  <2>2. CASE Destroy(a)
    BY <2>2 DEF Destroy, TypeOK, cacheVars, blockVars, valueVars, callVars
  <2> QED  BY <1>2, <2>1, <2>2
<1>3. ASSUME NEW a \in Addrs, NEW r \in Reactors, Move(a, r) PROVE TypeOK'
  BY <1>3 DEF Move, TypeOK, cacheVars, blockVars, valueVars, callVars
<1>4. ASSUME NEW a \in Addrs, NEW r \in Reactors, PollExit(r, a) PROVE TypeOK'
  <2>1. 0 \in 0..TLS_SLOTS  BY RegistryAssumption
  <2> QED
    BY <1>4, <2>1 DEF PollExit, Shutdown, TypeOK, Steps, threadVars,
                      cacheVars, blockVars, valueVars
<1>5. ASSUME NEW a \in Addrs, NEW r \in Reactors, Call(r, a) PROVE TypeOK'
  <2>1. Current(r, a)  BY <1>5 DEF Call
  <2> QED
    BY <1>5, <2>1, CurrentType
    DEF Call, TypeOK, threadVars, cacheVars, blockVars, valueVars
<1>6. CASE Alloc
  BY <1>6, RegistryAssumption
  DEF Alloc, TypeOK, threadVars, cacheVars, blockVars, valueVars, callVars
<1>7. ASSUME NEW r \in Reactors, NEW k \in Keys, ClearKey(r, k) \/ Set(r, k)
      PROVE  TypeOK'
  <2>1. Return(r) /\ k \in Slots /\ pc[r] = "use"
    BY <1>7 DEF ClearKey, Set, Keys, Return
  <2>2. at[r] \in Addrs /\ Mine(r) \in Threads  BY <2>1, Where
  <2>3. \A x \in Values \cup {None} :
          [slot EXCEPT ![cur[r]][k] = x] \in [Blocks -> [Slots -> Values \cup {None}]]
    BY DEF TypeOK
  <2>4. DropOld(slot[cur[r]][k]) => freed' \in [Values -> Nat]
    BY DropType
  <2>5. slot' \in [Blocks -> [Slots -> Values \cup {None}]]
    BY <1>7, <2>3 DEF ClearKey, Set
  <2>6. setBy' \in [Values -> Threads \cup {NoThread}]
    BY <1>7, <2>2 DEF ClearKey, Set, TypeOK
  <2>7. freed' \in [Values -> Nat]  BY <1>7, <2>4 DEF ClearKey, Set
  <2> QED
    BY <2>1, <2>5, <2>6, <2>7, ReturnType
    DEF Return, TypeOK, threadVars, cacheVars, blockVars
<1>8. ASSUME NEW r \in Reactors, ReactorStep(r) PROVE TypeOK'
  <2>1. CASE ReadRegistry(r)
    <3>1. pc[r] = "read" /\ at[r] \in Addrs
      BY <2>1, Where DEF ReadRegistry
    <3>2. CASE registry[at[r]] # NoBlock
      <4>1. Cache(r, registry[at[r]]) /\ registry[at[r]] \in Blocks
        BY <2>1, <3>1, <3>2 DEF ReadRegistry, TypeOK
      <4> QED
        BY <2>1, <3>1, <4>1, CacheType
        DEF ReadRegistry, TypeOK, threadVars, blockVars, valueVars
    <3>3. CASE registry[at[r]] = NoBlock
      BY <2>1, <3>1, <3>3
      DEF ReadRegistry, TypeOK, Steps, threadVars, cacheVars, blockVars, valueVars
    <3> QED  BY <3>2, <3>3
  <2>2. CASE WriteRegistry(r)
    <3>1. pc[r] = "write" /\ at[r] \in Addrs /\ Mine(r) \in Threads
      BY <2>2, Where DEF WriteRegistry
    <3>2. CASE registry[at[r]] # NoBlock
      <4>1. Cache(r, registry[at[r]]) /\ registry[at[r]] \in Blocks
        BY <2>2, <3>1, <3>2 DEF WriteRegistry, TypeOK
      <4> QED
        BY <2>2, <3>1, <3>2, <4>1, CacheType
        DEF WriteRegistry, TypeOK, threadVars, blockVars, valueVars
    <3>3. CASE registry[at[r]] = NoBlock
      <4> DEFINE b == Cardinality(Made) + 1
      <4>1. /\ b \in Blocks /\ Cache(r, b)
            /\ owner' = [owner EXCEPT ![b] = Mine(r)]
            /\ poller' = [poller EXCEPT ![b] = Mine(r)]
            /\ registry' = [registry EXCEPT ![at[r]] = b]
        BY <2>2, <3>1, <3>3 DEF WriteRegistry
      <4> HIDE DEF b
      <4> QED
        BY <2>2, <3>1, <4>1, CacheType
        DEF WriteRegistry, TypeOK, threadVars, valueVars
    <3> QED  BY <3>2, <3>3
  <2>3. CASE Get(r)
    BY <2>3, ReturnType
    DEF Get, Return, TypeOK, threadVars, cacheVars, blockVars, valueVars
  <2>4. CASE Clear(r)
    <3>1. pc[r] = "clear" /\ at[r] \in Addrs /\ self[r] \in Blocks /\ index[r] \in Slots
      BY <2>4, Where DEF Clear
    <3>2. freed' \in [Values -> Nat]
      BY <2>4, DropType DEF Clear
    <3>3. index[r] + 1 \in 0..TLS_SLOTS
      BY <3>1, RegistryAssumption DEF Slots
    <3>4. AfterSlot(index[r]) \in Steps  BY DEF AfterSlot, Steps
    <3>5. /\ at' \in [Reactors -> Addrs \cup {None}]
          /\ pc' \in [Reactors -> Steps]
          /\ cur' \in [Reactors -> Blocks \cup {NoBlock}]
          /\ index' \in [Reactors -> 0..TLS_SLOTS]
      <4>1. CASE SkipSlot(r)
        BY <3>3, <3>4, <4>1 DEF SkipSlot, TypeOK
      <4>2. CASE DropSlot(r)
        BY <4>2 DEF DropSlot, TypeOK, Steps
      <4>3. CASE DropReads(r)
        BY <3>1, <4>3, CurrentType DEF DropReads, TypeOK
      <4> QED  BY <2>4, <4>1, <4>2, <4>3, ClearCases
    <3> QED
      BY <2>4, <3>2, <3>5
      DEF Clear, TypeOK, threadVars, cacheVars, blockVars
  <2>5. CASE Cleared(r)
    <3>1. pc[r] = "cleared" /\ self[r] \in Blocks /\ index[r] \in Slots
      BY <2>5, Where DEF Cleared
    <3>2. index[r] + 1 \in 0..TLS_SLOTS
      BY <3>1, RegistryAssumption DEF Slots
    <3>3. AfterSlot(index[r]) \in Steps  BY DEF AfterSlot, Steps
    <3>4. slot' \in [Blocks -> [Slots -> Values \cup {None}]]
      BY <2>5 DEF Cleared, TypeOK
    <3> QED
      BY <2>5, <3>2, <3>3, <3>4
      DEF Cleared, TypeOK, threadVars, cacheVars, blockVars
  <2>6. CASE Remove(r)
    <3>1. 0 \in 0..TLS_SLOTS  BY RegistryAssumption
    <3> QED
      BY <2>6, <3>1
      DEF Remove, TypeOK, Steps, threadVars, cacheVars, valueVars
  <2> QED  BY <1>8, <2>1, <2>2, <2>3, <2>4, <2>5, <2>6 DEF ReactorStep
<1>9. CASE UNCHANGED vars
  BY <1>9
  DEF vars, TypeOK, threadVars, cacheVars, blockVars, valueVars, callVars
<1> QED  BY <1>1, <1>2, <1>3, <1>4, <1>5, <1>6, <1>7, <1>8, <1>9 DEF Next

-----------------------------------------------------------------------------
(* Threads and the code that runs.                                         *)

\* Only SPDK makes threads, frees them, and makes them exit.
LEMMA ThreadFrame ==
  ASSUME [Next]_vars
  PROVE  \/ \E a \in Addrs : Create(a) \/ RequestExit(a) \/ Destroy(a)
         \/ UNCHANGED <<id, life, exiting>>
BY DEF Next, Move, PollExit, Shutdown, Call, Alloc, ClearKey, Set, Return,
       ReactorStep, ReadRegistry, WriteRegistry, Get, Clear, Cleared, Remove,
       threadVars, vars

LEMMA InitThread == Init => ThreadInv
<1> SUFFICES ASSUME Init PROVE ThreadInv
  OBVIOUS
<1>1. Born = {}  BY DEF Init, Born
<1> QED  BY <1>1, CountNone DEF Init, ThreadInv, NoThread

LEMMA NextThread == Safe /\ [Next]_vars => ThreadInv'
<1> SUFFICES ASSUME Safe, [Next]_vars PROVE ThreadInv'
  OBVIOUS
<1> USE DEF Safe
<1>1. ASSUME NEW a \in Addrs, Create(a) PROVE ThreadInv'
  <2> DEFINE t == Cardinality(Born) + 1
  <2>1. Cardinality(Born) \in Nat /\ t \notin Born /\ Counted(Born \cup {t})
    BY CountOne DEF ThreadInv
  <2>2. /\ id' = [id EXCEPT ![a] = t] /\ life' = [life EXCEPT ![a] = "running"]
        /\ life[a] = "none" /\ exiting' = exiting
    BY <1>1 DEF Create
  <2>3. id'[a] = t /\ t # NoThread  BY <2>1, <2>2 DEF TypeOK, NoThread
  <2>4. Counted(Born')  BY <1>1, <2>1, <2>3, BornStep
  <2>5. t \notin exiting /\ \A c \in Addrs : id[c] # t
    BY <2>1, <2>3 DEF Born
  <2> HIDE DEF t
  <2>6. \A c \in Addrs : life'[c] = "none" <=> id'[c] = NoThread
    BY <2>2, <2>3 DEF TypeOK, ThreadInv
  <2>7. \A c \in Addrs : life'[c] = "exiting" <=> id'[c] \in exiting'
    BY <2>2, <2>3, <2>5 DEF TypeOK, ThreadInv
  <2>8. \A c, d \in Addrs : id'[c] = id'[d] /\ id'[c] # NoThread => c = d
    BY <2>2, <2>3, <2>5 DEF TypeOK, ThreadInv
  <2> QED  BY <2>4, <2>6, <2>7, <2>8 DEF ThreadInv
<1>2. ASSUME NEW a \in Addrs, RequestExit(a) PROVE ThreadInv'
  <2>1. Counted(Born')  BY <1>2, BornStep DEF ThreadInv
  <2> QED  BY <1>2, <2>1 DEF RequestExit, TypeOK, ThreadInv
<1>3. ASSUME NEW a \in Addrs, Destroy(a) PROVE ThreadInv'
  <2>1. Counted(Born')  BY <1>3, BornStep DEF ThreadInv
  <2>2. NoThread \notin exiting  BY DEF TypeOK, Threads, NoThread
  <2> QED  BY <1>3, <2>1, <2>2 DEF Destroy, TypeOK, ThreadInv, NoThread
<1>4. CASE UNCHANGED <<id, life, exiting>>
  BY <1>4 DEF ThreadInv, Born
<1> QED  BY <1>1, <1>2, <1>3, <1>4, ThreadFrame

LEMMA InitCode == Init => CodeInv
BY RegistryAssumption DEF Init, CodeInv

LEMMA NextCode == Safe /\ [Next]_vars => CodeInv'
<1> SUFFICES ASSUME Safe, [Next]_vars PROVE CodeInv'
  OBVIOUS
<1> USE DEF Safe
<1>1. ASSUME NEW a \in Addrs, Create(a) PROVE CodeInv'
  <2>1. \A r \in Reactors : pc[r] # "idle" => at[r] # a
    BY <1>1 DEF Create, CodeInv
  <2> QED
    BY <1>1, <2>1 DEF Create, CodeInv, TypeOK, blockVars, callVars
<1>2. ASSUME NEW a \in Addrs, RequestExit(a) \/ Destroy(a) PROVE CodeInv'
  BY <1>2 DEF RequestExit, Destroy, Inside, CodeInv, TypeOK, blockVars, callVars
<1>3. ASSUME NEW a \in Addrs, NEW r \in Reactors, Move(a, r) PROVE CodeInv'
  BY <1>3 DEF Move, Inside, CodeInv, TypeOK, blockVars, callVars
<1>4. ASSUME NEW a \in Addrs, NEW r \in Reactors, PollExit(r, a) PROVE CodeInv'
  <2>1. PICK b \in Blocks : poller[b] = id[a] /\ self' = [self EXCEPT ![r] = b]
    BY <1>4 DEF PollExit, Shutdown
  <2>2. life[a] = "exiting" /\ place[a] = r /\ id[a] # NoThread
    BY <1>4 DEF PollExit, ThreadInv
  <2>3. registry[a] = b
    <3>1. PICK c \in Addrs : registry[c] = b
      BY <2>1, <2>2 DEF RegistryMatches
    <3>2. id[c] = id[a]  BY <2>1, <3>1 DEF RegistryMatches, Blocks, NoBlock
    <3> QED  BY <2>2, <3>1, <3>2 DEF ThreadInv
  <2> QED
    BY <1>4, <2>1, <2>2, <2>3, RegistryAssumption
    DEF PollExit, Shutdown, Idle, CodeInv, TypeOK, threadVars, blockVars,
        Blocks, NoBlock
<1>5. ASSUME NEW a \in Addrs, NEW r \in Reactors, Call(r, a) PROVE CodeInv'
  BY <1>5, RegistryAssumption
  DEF Call, Idle, Current, CodeInv, TypeOK, threadVars, blockVars
<1>6. CASE Alloc
  BY <1>6 DEF Alloc, CodeInv, threadVars, blockVars, callVars
<1>7. ASSUME NEW r \in Reactors, Return(r) PROVE CodeInv'
  BY <1>7, RegistryAssumption
  DEF Return, CodeInv, TypeOK, threadVars, blockVars
<1>8. ASSUME NEW r \in Reactors, ReadRegistry(r) PROVE CodeInv'
  BY <1>8 DEF ReadRegistry, Cache, CodeInv, TypeOK, threadVars, blockVars
<1>9. ASSUME NEW r \in Reactors, WriteRegistry(r) PROVE CodeInv'
  BY <1>9 DEF WriteRegistry, Cache, CodeInv, TypeOK, threadVars, blockVars
<1>10. ASSUME NEW r \in Reactors, Clear(r) PROVE CodeInv'
  BY <1>10 DEF Clear, Current, AfterSlot, CodeInv, TypeOK, threadVars, blockVars
<1>11. ASSUME NEW r \in Reactors, Cleared(r) PROVE CodeInv'
  BY <1>11 DEF Cleared, AfterSlot, CodeInv, TypeOK, threadVars, blockVars
<1>12. ASSUME NEW r \in Reactors, Remove(r) PROVE CodeInv'
  BY <1>12, RegistryAssumption DEF Remove, CodeInv, TypeOK, threadVars
<1>13. CASE UNCHANGED vars
  BY <1>13 DEF vars, CodeInv, threadVars, blockVars, callVars
<1> QED
  BY <1>1, <1>2, <1>3, <1>4, <1>5, <1>6, <1>7, <1>8, <1>9, <1>10, <1>11,
     <1>12, <1>13
  DEF Next, ReactorStep, Get, ClearKey, Set

-----------------------------------------------------------------------------
(* Blocks and the registry.                                                *)

\* Who has a block: the threads that were given their id before.
LEMMA BornGrows == ASSUME Safe, [Next]_vars PROVE Born \subseteq Born'
<1>1. ASSUME NEW a \in Addrs, Create(a) \/ RequestExit(a) \/ Destroy(a)
      PROVE  Born \subseteq Born'
  BY <1>1, BornStep DEF Safe
<1>2. CASE UNCHANGED <<id, life, exiting>>
  BY <1>2 DEF Born
<1> QED  BY <1>1, <1>2, ThreadFrame

LEMMA AtIsBorn ==
  ASSUME Safe, NEW r \in Reactors, pc[r] # "idle"
  PROVE  Mine(r) \in Born /\ Mine(r) # NoThread
BY DEF Safe, CodeInv, ThreadInv, Mine, Born

\* Only WriteRegistry makes a block, and only Remove takes a poller away.
LEMMA BlockFrame ==
  ASSUME [Next]_vars
  PROVE  \/ \E r \in Reactors : ReadRegistry(r) \/ WriteRegistry(r) \/ Remove(r)
         \/ UNCHANGED <<cacheId, cacheTcb, owner, poller, registry>>
BY DEF Next, Create, RequestExit, Destroy, Move, PollExit, Shutdown, Call,
       Alloc, ClearKey, Set, Return, ReactorStep, Get, Clear, Cleared,
       cacheVars, blockVars, vars

\* What WriteRegistry does when there is no entry.
LEMMA NewBlock ==
  ASSUME Safe, NEW r \in Reactors, WriteRegistry(r), registry[at[r]] = NoBlock
  PROVE  \E b \in Blocks :
           /\ b = Cardinality(Made) + 1
           /\ owner[b] = NoThread /\ Counted(Made')
           /\ owner' = [owner EXCEPT ![b] = Mine(r)]
           /\ poller' = [poller EXCEPT ![b] = Mine(r)]
           /\ registry' = [registry EXCEPT ![at[r]] = b]
           /\ Cache(r, b)
<1> DEFINE b == Cardinality(Made) + 1
<1>1. /\ b \in Blocks /\ Cache(r, b)
      /\ owner' = [owner EXCEPT ![b] = Mine(r)]
      /\ poller' = [poller EXCEPT ![b] = Mine(r)]
      /\ registry' = [registry EXCEPT ![at[r]] = b]
  BY DEF WriteRegistry
<1>2. pc[r] = "write"  BY DEF WriteRegistry
<1>3. Mine(r) \in Threads  BY <1>2, Where DEF Safe
<1>4. owner[b] = NoThread /\ Counted(Made')
  BY <1>1, <1>3, MadeStep DEF Safe
<1> QED  BY <1>1, <1>4

LEMMA InitBlock == Init => BlockInv
<1> SUFFICES ASSUME Init PROVE BlockInv
  OBVIOUS
<1>1. Made = {}  BY DEF Init, Made
<1> QED  BY <1>1, CountNone DEF Init, BlockInv

LEMMA NextBlock == Safe /\ [Next]_vars => BlockInv'
<1> SUFFICES ASSUME Safe, [Next]_vars PROVE BlockInv'
  OBVIOUS
<1>0. Born \subseteq Born'  BY BornGrows
<1> USE DEF Safe
<1>1. ASSUME NEW r \in Reactors, WriteRegistry(r), registry[at[r]] = NoBlock
      PROVE  BlockInv'
  <2>1. PICK b \in Blocks :
          /\ owner[b] = NoThread /\ Counted(Made')
          /\ owner' = [owner EXCEPT ![b] = Mine(r)]
          /\ poller' = [poller EXCEPT ![b] = Mine(r)]
          /\ Cache(r, b)
    BY <1>1, NewBlock
  <2>2. Mine(r) \in Born  BY <1>1, AtIsBorn DEF WriteRegistry
  <2> QED  BY <1>0, <2>1, <2>2 DEF Cache, BlockInv, TypeOK
<1>2. ASSUME NEW r \in Reactors, UNCHANGED owner,
             \/ ReadRegistry(r)
             \/ WriteRegistry(r) /\ registry[at[r]] # NoBlock
      PROVE  BlockInv'
  <2>1. Mine(r) \in Born  BY <1>2, AtIsBorn DEF ReadRegistry, WriteRegistry
  <2>2. Made' = Made  BY <1>2 DEF Made
  <2> QED
    BY <1>0, <1>2, <2>1, <2>2
    DEF ReadRegistry, WriteRegistry, Cache, cacheVars, blockVars, BlockInv, TypeOK
<1>3. ASSUME NEW r \in Reactors, Remove(r) PROVE BlockInv'
  <2>1. Made' = Made  BY <1>3 DEF Made, Remove
  <2> QED  BY <1>0, <1>3, <2>1 DEF Remove, cacheVars, BlockInv, TypeOK
<1>4. CASE UNCHANGED <<cacheId, cacheTcb, owner, poller, registry>>
  <2>1. Made' = Made  BY <1>4 DEF Made
  <2> QED  BY <1>0, <1>4, <2>1 DEF BlockInv
<1>5. ASSUME NEW r \in Reactors, ReadRegistry(r) PROVE UNCHANGED owner
  BY <1>5 DEF ReadRegistry, blockVars
<1>6. ASSUME NEW r \in Reactors, WriteRegistry(r), registry[at[r]] # NoBlock
      PROVE  UNCHANGED owner
  BY <1>6 DEF WriteRegistry, blockVars
<1> QED  BY <1>1, <1>2, <1>3, <1>4, <1>5, <1>6, BlockFrame

LEMMA InitMatches == Init => RegistryMatches
BY DEF Init, RegistryMatches

LEMMA NextMatches == Safe /\ [Next]_vars => RegistryMatches'
<1> SUFFICES ASSUME Safe, [Next]_vars PROVE RegistryMatches'
  OBVIOUS
<1> USE DEF Safe
<1>1. ASSUME NEW a \in Addrs, Create(a) PROVE RegistryMatches'
  <2>1. registry[a] = NoBlock /\ \A r \in Reactors : pc[r] = "remove" => at[r] # a
    BY <1>1 DEF Create, RegistryMatches, CodeInv
  <2> QED
    BY <1>1, <2>1
    DEF Create, RegistryMatches, TypeOK, blockVars, callVars
<1>2. ASSUME NEW a \in Addrs, RequestExit(a) PROVE RegistryMatches'
  BY <1>2 DEF RequestExit, RegistryMatches, TypeOK, blockVars, callVars
<1>3. ASSUME NEW a \in Addrs, Destroy(a) PROVE RegistryMatches'
  <2>1. registry[a] = NoBlock
    BY <1>3 DEF Destroy, RegistryMatches, TypeOK, Blocks, NoBlock
  <2> QED
    BY <1>3, <2>1
    DEF Destroy, RegistryMatches, TypeOK, blockVars, callVars
<1>4. ASSUME NEW a \in Addrs, NEW r \in Reactors, PollExit(r, a) \/ Call(r, a)
      PROVE  RegistryMatches'
  BY <1>4
  DEF PollExit, Shutdown, Call, Current, RegistryMatches, TypeOK, threadVars,
      blockVars
<1>5. ASSUME NEW r \in Reactors, Return(r) \/ ReadRegistry(r) \/ Clear(r) \/ Cleared(r)
      PROVE  RegistryMatches'
  <2>1. UNCHANGED <<threadVars, blockVars, self>>
    BY <1>5 DEF Return, ReadRegistry, Clear, Cleared
  <2>2. \A q \in Reactors : pc'[q] = "remove" =>
          self[q] # NoBlock /\ at'[q] = at[q]
    BY <1>5 DEF Return, ReadRegistry, Cache, Clear, Cleared, Current, CodeInv,
                TypeOK
  <2>3. \A q \in Reactors : pc'[q] = "remove" => registry[at'[q]] = self[q]
    BY <2>2 DEF CodeInv
  <2> QED  BY <2>1, <2>3 DEF RegistryMatches, threadVars, blockVars
<1>6. ASSUME NEW r \in Reactors, WriteRegistry(r), registry[at[r]] # NoBlock
      PROVE  RegistryMatches'
  BY <1>6 DEF WriteRegistry, Cache, RegistryMatches, TypeOK, threadVars, blockVars
<1>7. ASSUME NEW r \in Reactors, WriteRegistry(r), registry[at[r]] = NoBlock
      PROVE  RegistryMatches'
  <2>1. PICK b \in Blocks :
          /\ owner[b] = NoThread
          /\ owner' = [owner EXCEPT ![b] = Mine(r)]
          /\ poller' = [poller EXCEPT ![b] = Mine(r)]
          /\ registry' = [registry EXCEPT ![at[r]] = b]
          /\ Cache(r, b)
    BY <1>7, NewBlock
  <2>2. /\ pc[r] = "write" /\ at[r] \in Addrs /\ life[at[r]] # "none"
        /\ UNCHANGED <<threadVars, at, self>>
    BY <1>7 DEF WriteRegistry, CodeInv
  <2>3. \A c \in Addrs : registry[c] # b
    BY <2>1 DEF RegistryMatches, ThreadInv, NoThread, Blocks, NoBlock
  <2>4. \A c \in Addrs : registry'[c] # NoBlock =>
          /\ life'[c] # "none"
          /\ owner'[registry'[c]] = id'[c] /\ poller'[registry'[c]] = id'[c]
    BY <2>1, <2>2, <2>3 DEF RegistryMatches, TypeOK, Mine, threadVars
  <2>5. \A c \in Blocks : poller'[c] # NoThread =>
          \E d \in Addrs : registry'[d] = c
    <3>1. registry'[at[r]] = b  BY <2>1, <2>2 DEF TypeOK
    <3>2. ASSUME NEW c \in Blocks, c # b, poller'[c] # NoThread
          PROVE  \E d \in Addrs : registry'[d] = c
      <4>1. PICK d \in Addrs : registry[d] = c
        BY <2>1, <3>2 DEF RegistryMatches, TypeOK
      <4>2. d # at[r]  BY <1>7, <4>1 DEF Blocks, NoBlock
      <4> QED  BY <2>1, <4>1, <4>2 DEF TypeOK
    <3> QED  BY <2>2, <3>1, <3>2
  <2>6. \A q \in Reactors : pc'[q] = "remove" => registry'[at'[q]] = self'[q]
    BY <2>1, <2>2 DEF RegistryMatches, Cache, CodeInv, TypeOK
  <2> QED  BY <2>4, <2>5, <2>6 DEF RegistryMatches
<1>8. ASSUME NEW r \in Reactors, Remove(r) PROVE RegistryMatches'
  <2>1. /\ at[r] \in Addrs /\ self[r] \in Blocks /\ registry[at[r]] = self[r]
        /\ poller' = [poller EXCEPT ![self[r]] = NoThread]
        /\ registry' = [registry EXCEPT ![at[r]] = NoBlock]
        /\ UNCHANGED <<threadVars, owner>>
    BY <1>8, Where DEF Remove, RegistryMatches
  <2>2. \A c \in Addrs : c # at[r] => registry[c] # self[r]
    BY <2>1 DEF RegistryMatches, ThreadInv, TypeOK, Blocks, NoBlock
  <2>3. \A c \in Addrs : registry'[c] # NoBlock =>
          /\ life'[c] # "none"
          /\ owner'[registry'[c]] = id'[c] /\ poller'[registry'[c]] = id'[c]
    BY <2>1, <2>2 DEF RegistryMatches, TypeOK, threadVars
  <2>4. \A c \in Blocks : poller'[c] # NoThread =>
          \E d \in Addrs : registry'[d] = c
    BY <2>1 DEF RegistryMatches, TypeOK
  <2>5. \A q \in Reactors : pc'[q] = "remove" =>
          q # r /\ pc[q] = "remove" /\ at'[q] = at[q] /\ self'[q] = self[q]
    BY <1>8 DEF Remove, TypeOK
  <2>6. \A q \in Reactors : pc'[q] = "remove" => at[q] # at[r] /\ at[q] \in Addrs
    BY <1>8, <2>5 DEF CodeInv, Remove
  <2>7. \A q \in Reactors : pc'[q] = "remove" => registry'[at'[q]] = self'[q]
    BY <2>1, <2>5, <2>6 DEF RegistryMatches, TypeOK
  <2> QED  BY <2>3, <2>4, <2>7 DEF RegistryMatches
<1>9. ASSUME UNCHANGED <<id, life, registry, owner, poller, pc, at, self>>
      PROVE  RegistryMatches'
  BY <1>9 DEF RegistryMatches
<1>10. ASSUME NEW a \in Addrs, NEW r \in Reactors, Move(a, r)
       PROVE  UNCHANGED <<id, life, registry, owner, poller, pc, at, self>>
  BY <1>10 DEF Move, blockVars, callVars
<1>11. ASSUME Alloc \/ UNCHANGED vars
       PROVE  UNCHANGED <<id, life, registry, owner, poller, pc, at, self>>
  BY <1>11 DEF Alloc, vars, threadVars, blockVars, callVars
<1> QED
  BY <1>1, <1>2, <1>3, <1>4, <1>5, <1>6, <1>7, <1>8, <1>9, <1>10, <1>11
  DEF Next, ReactorStep, Get, ClearKey, Set

LEMMA NextIndex == Safe /\ [Next]_vars => IndexInv'
<1> SUFFICES ASSUME Safe, [Next]_vars PROVE IndexInv'
  OBVIOUS
<1> USE DEF Safe
<1>1. ASSUME NEW a \in Addrs, NEW r \in Reactors, PollExit(r, a) PROVE IndexInv'
  BY <1>1, RegistryAssumption DEF PollExit, Shutdown, IndexInv, TypeOK
<1>2. ASSUME NEW a \in Addrs, NEW r \in Reactors, Call(r, a) PROVE IndexInv'
  BY <1>2 DEF Call, Idle, Current, IndexInv, CodeInv, TypeOK
<1>3. ASSUME NEW r \in Reactors, Return(r) \/ ReadRegistry(r) \/ WriteRegistry(r)
      PROVE  IndexInv'
  BY <1>3 DEF Return, ReadRegistry, WriteRegistry, Cache, IndexInv, TypeOK
<1>4. ASSUME NEW r \in Reactors, Clear(r) \/ Cleared(r) PROVE IndexInv'
  <2>1. pc[r] \in {"clear", "cleared"} /\ index[r] \in Slots
    BY <1>4, Where DEF Clear, Cleared
  <2>2. AfterSlot(index[r]) = "remove" <=> index[r] + 1 = TLS_SLOTS
    BY DEF AfterSlot
  <2>3. index[r] # TLS_SLOTS  BY <2>1, RegistryAssumption DEF Slots
  <2>4. CASE Cleared(r)
    BY <2>2, <2>3, <2>4 DEF Cleared, IndexInv, TypeOK
  <2>5. CASE Clear(r)
    <3>1. UNCHANGED self /\ pc[r] = "clear"  BY <2>5 DEF Clear
    <3>2. CASE SkipSlot(r)
      BY <2>2, <3>1, <3>2 DEF SkipSlot, IndexInv, TypeOK
    <3>3. CASE DropSlot(r)
      BY <2>3, <3>1, <3>3 DEF DropSlot, IndexInv, TypeOK
    <3>4. CASE DropReads(r)
      BY <2>3, <3>1, <3>4 DEF DropReads, Current, IndexInv, TypeOK
    <3> QED  BY <2>5, <3>2, <3>3, <3>4, ClearCases
  <2> QED  BY <1>4, <2>4, <2>5
<1>5. ASSUME NEW r \in Reactors, Remove(r) PROVE IndexInv'
  BY <1>5 DEF Remove, IndexInv, TypeOK
<1>6. CASE UNCHANGED callVars
  BY <1>6 DEF callVars, IndexInv
<1> QED
  BY <1>1, <1>2, <1>3, <1>4, <1>5, <1>6
  DEF Next, ReactorStep, Get, ClearKey, Set, Create, RequestExit, Destroy,
      Move, Alloc, vars

-----------------------------------------------------------------------------
(* Types and the registry hold whatever code does while its thread exits.  *)

LEMMA InitSafe == Init => Safe
<1>1. Init => IndexInv  BY DEF Init, IndexInv
<1> QED
  BY <1>1, InitType, InitThread, InitCode, InitBlock, InitMatches DEF Safe

LEMMA NextSafe == Safe /\ [Next]_vars => Safe'
BY NextType, NextThread, NextCode, NextIndex, NextBlock, NextMatches DEF Safe

\* Every variable keeps its type.
THEOREM RegistryTypeCorrect == Spec => []TypeOK
<1>1. Safe => TypeOK  BY DEF Safe
<1> QED  BY <1>1, InitSafe, NextSafe, PTL DEF Spec

\* An entry of the registry is the block of the thread that is at that address
\* now, and shutdown finds the entry it removes: its expect never fails
\* (lib.rs:1996-2033, 2067-2085).
THEOREM EntriesMatch == Spec => [](RegistryMatches /\ ~panic)
<1>1. Safe => RegistryMatches /\ ~panic  BY DEF Safe, CodeInv
<1> QED  BY <1>1, InitSafe, NextSafe, PTL DEF Spec

-----------------------------------------------------------------------------
(* Values. From here on threads that exit store nothing.                   *)

\* The block being shut down is that of one reactor only.
LEMMA SelfOne ==
  ASSUME Safe, NEW r \in Reactors, NEW q \in Reactors, self[r] # NoBlock,
         self[q] = self[r]
  PROVE  q = r
<1>1. \A p \in {q, r} : /\ at[p] \in Addrs /\ place[at[p]] = p
                        /\ registry[at[p]] = self[p]
  BY DEF Safe, CodeInv
<1>2. id[at[q]] = id[at[r]] /\ life[at[r]] # "none"
  BY <1>1 DEF Safe, RegistryMatches
<1>3. at[q] = at[r]  BY <1>1, <1>2 DEF Safe, ThreadInv
<1> QED  BY <1>1, <1>3

\* A value that clear_all comes to has not been dropped.
LEMMA ClearFresh ==
  ASSUME Full, NEW r \in Reactors, pc[r] = "clear",
         slot[self[r]][index[r]] # None
  PROVE  /\ slot[self[r]][index[r]] \in Values
         /\ freed[slot[self[r]][index[r]]] = 0
<1>1. self[r] \in Blocks /\ index[r] \in Slots /\ self[r] # NoBlock
  BY Where DEF Full, Safe, Blocks, NoBlock
<1>2. slot[self[r]][index[r]] \in Values  BY <1>1 DEF Full, Safe, TypeOK
<1>3. ~ \E q \in Reactors : Dropping(q) /\ self[q] = self[r]
  BY <1>1, SelfOne DEF Full, Dropping
<1> QED  BY <1>1, <1>2, <1>3 DEF Full, ValueInv

\* A thread that stores or clears a value finds its own block, which is not
\* being shut down.
LEMMA StoreFinds ==
  ASSUME LateSets = FALSE, Full, NEW q \in Reactors, pc[q] = "use", MayStore(q)
  PROVE  /\ cur[q] \in Blocks /\ cur[q] # NoBlock
         /\ at[q] \in Addrs /\ life[at[q]] = "running"
         /\ registry[at[q]] = cur[q]
         /\ owner[cur[q]] = Mine(q) /\ poller[cur[q]] = Mine(q)
         /\ Mine(q) \in Threads /\ Mine(q) # NoThread
         /\ \A r \in Reactors : self[r] # cur[q]
         /\ \A k \in Slots : slot[cur[q]][k] # None =>
              slot[cur[q]][k] \in Values /\ freed[slot[cur[q]][k]] = 0
<1>1. at[q] \in Addrs /\ life[at[q]] = "running" /\ Mine(q) \in Threads
  BY Where DEF Full, Safe, MayStore
<1>2. Serves(cur[q], at[q])  BY DEF Full, CacheInv
<1>3. cur[q] \in Blocks /\ cur[q] # NoBlock /\ registry[at[q]] = cur[q]
  BY <1>1, <1>2 DEF Serves, Full, Safe, TypeOK
<1>4. owner[cur[q]] = Mine(q) /\ poller[cur[q]] = Mine(q)
  BY <1>1, <1>3 DEF Full, Safe, RegistryMatches, Mine
<1>5. ASSUME NEW r \in Reactors, self[r] = cur[q] PROVE FALSE
  <2>1. life[at[r]] = "exiting" /\ registry[at[r]] = cur[q] /\ at[r] \in Addrs
    BY <1>3, <1>5 DEF Full, Safe, CodeInv
  <2>2. id[at[r]] = id[at[q]]
    BY <1>1, <1>3, <2>1 DEF Full, Safe, RegistryMatches
  <2> QED  BY <1>1, <2>1, <2>2 DEF Full, Safe, ThreadInv
<1>6. ASSUME NEW k \in Slots, slot[cur[q]][k] # None
      PROVE  slot[cur[q]][k] \in Values /\ freed[slot[cur[q]][k]] = 0
  <2>1. slot[cur[q]][k] \in Values  BY <1>3, <1>6 DEF Full, Safe, TypeOK
  <2> QED  BY <1>3, <1>5, <1>6, <2>1 DEF Full, ValueInv
<1> QED
  BY <1>1, <1>3, <1>4, <1>5, <1>6 DEF NoThread, Threads

\* The steps that change what slots hold, or how often a value was dropped.
LEMMA ValueFrame ==
  ASSUME [Next]_vars
  PROVE  \/ \E q \in Reactors, k \in Keys : ClearKey(q, k) \/ Set(q, k)
         \/ \E q \in Reactors : Clear(q) \/ Cleared(q)
         \/ UNCHANGED valueVars
BY DEF Next, Create, RequestExit, Destroy, Move, PollExit, Shutdown, Call,
       Alloc, ReactorStep, ReadRegistry, WriteRegistry, Get, Remove, vars,
       valueVars

LEMMA InitFull == Init => Full
<1> SUFFICES ASSUME Init PROVE Full
  OBVIOUS
<1>1. CacheInv
  BY DEF Init, CacheInv
<1>2. ClearInv  BY DEF Init, ClearInv
<1>3. ValueInv
  BY DEF Init, ValueInv, Empty
<1> QED  BY <1>1, <1>2, <1>3, InitSafe DEF Full

\* What clear_all has passed stays empty, and what it is dropping is dropped.
LEMMA NextClear ==
  ASSUME LateSets = FALSE, Full, [Next]_vars
  PROVE  ClearInv'
<1> USE DEF Full, Safe
<1>1. ASSUME NEW a \in Addrs, NEW r \in Reactors, PollExit(r, a) PROVE ClearInv'
  BY <1>1
  DEF PollExit, Shutdown, ClearInv, Dropping, Slots, TypeOK, valueVars
<1>2. ASSUME NEW a \in Addrs, NEW r \in Reactors, Call(r, a) PROVE ClearInv'
  BY <1>2
  DEF Call, Idle, Current, ClearInv, Dropping, CodeInv, TypeOK, valueVars
<1>3. ASSUME NEW r \in Reactors, Get(r) \/ ReadRegistry(r) \/ WriteRegistry(r)
      PROVE  ClearInv'
  BY <1>3
  DEF Get, Return, ReadRegistry, WriteRegistry, Cache, ClearInv, Dropping,
      TypeOK, valueVars
<1>4. ASSUME NEW r \in Reactors, Remove(r) PROVE ClearInv'
  BY <1>4 DEF Remove, ClearInv, Dropping, TypeOK, valueVars
<1>5. ASSUME NEW r \in Reactors, Cleared(r) PROVE ClearInv'
  <2>1. /\ self[r] \in Blocks /\ self[r] # NoBlock /\ index[r] \in Slots
        /\ pc[r] = "cleared"
    BY <1>5, Where DEF Cleared, Blocks, NoBlock
  <2>2. \A q \in Reactors : self[q] = self[r] => q = r
    BY <2>1, SelfOne
  <2>3. \A i \in Slots : i < index[r] + 1 => i < index[r] \/ i = index[r]
    BY <2>1 DEF Slots
  <2>4. AfterSlot(index[r]) \in {"clear", "remove"}  BY DEF AfterSlot
  <2>5. ASSUME NEW q \in Reactors, self'[q] # NoBlock, q # r
        PROVE  /\ self'[q] = self[q] /\ index'[q] = index[q] /\ pc'[q] = pc[q]
               /\ slot'[self[q]] = slot[self[q]] /\ UNCHANGED freed
    BY <1>5, <2>1, <2>2, <2>5 DEF Cleared, TypeOK
  <2>6. ASSUME NEW i \in Slots, i < index'[r]
        PROVE  slot'[self'[r]][i] = None
    BY <1>5, <2>1, <2>3, <2>6 DEF Cleared, ClearInv, TypeOK
  <2>7. ~Dropping(r)'  BY <1>5, <2>4 DEF Cleared, Dropping, TypeOK
  <2> QED  BY <2>5, <2>6, <2>7 DEF ClearInv, Dropping
<1>6. ASSUME NEW r \in Reactors, Clear(r) PROVE ClearInv'
  <2> DEFINE v == slot[self[r]][index[r]]
  <2>1. /\ self[r] \in Blocks /\ self[r] # NoBlock /\ index[r] \in Slots
        /\ pc[r] = "clear" /\ UNCHANGED <<slot, self>>
    BY <1>6, Where DEF Clear, Blocks, NoBlock
  <2>2. \A i \in Slots : i < index[r] + 1 => i < index[r] \/ i = index[r]
    BY <2>1 DEF Slots
  <2>3. CASE SkipSlot(r)
    <3>1. AfterSlot(index[r]) \in {"clear", "remove"}  BY DEF AfterSlot
    <3> QED
      BY <2>1, <2>2, <2>3, <3>1 DEF SkipSlot, ClearInv, Dropping, TypeOK
  <2>4. CASE DropSlot(r) \/ DropReads(r)
    <3>1. v # None /\ UNCHANGED index /\ freed' = [freed EXCEPT ![v] = @ + 1]
      BY <2>4 DEF DropSlot, DropReads, DropOld
    <3>2. v \in Values /\ freed[v] = 0  BY <2>1, <3>1, ClearFresh
    <3>3. freed'[v] = 1  BY <3>1, <3>2 DEF TypeOK
    <3>4. \A q \in Reactors : q # r => pc'[q] = pc[q]
      BY <2>4 DEF DropSlot, DropReads, Current, TypeOK
    <3>5. ASSUME NEW q \in Reactors, Dropping(q)'
          PROVE  /\ slot'[self'[q]][index'[q]] \in Values
                 /\ freed'[slot'[self'[q]][index'[q]]] = 1
      <4>1. CASE q = r  BY <2>1, <3>1, <3>2, <3>3, <4>1
      <4>2. CASE q # r
        <5>1. Dropping(q)  BY <2>1, <3>4, <3>5, <4>2 DEF Dropping
        <5>2. /\ slot[self[q]][index[q]] \in Values
              /\ freed[slot[self[q]][index[q]]] = 1
          BY <5>1 DEF ClearInv, Dropping
        <5> QED  BY <2>1, <3>1, <3>2, <5>2 DEF TypeOK
      <4> QED  BY <4>1, <4>2
    <3> QED  BY <2>1, <3>1, <3>5 DEF ClearInv
  <2> QED  BY <1>6, <2>3, <2>4, ClearCases
<1>7. ASSUME NEW r \in Reactors, NEW k \in Keys, ClearKey(r, k) \/ Set(r, k)
      PROVE  ClearInv'
  <2> DEFINE b == cur[r]
             v == slot[b][k]
  <2>1. pc[r] = "use" /\ MayStore(r) /\ k \in Slots /\ Return(r)
    BY <1>7 DEF ClearKey, Set, Return, Keys
  <2>2. /\ b \in Blocks /\ \A q \in Reactors : self[q] # b
        /\ v # None => v \in Values /\ freed[v] = 0
    BY <2>1, StoreFinds
  <2>3. \A c \in Blocks : c # b => slot'[c] = slot[c]
    BY <1>7 DEF ClearKey, Set, TypeOK
  <2>4. \A w \in Values : freed[w] = 1 => freed'[w] = 1
    BY <1>7, <2>2 DEF ClearKey, Set, DropOld, TypeOK
  <2>5. UNCHANGED <<self, index>> /\ \A q \in Reactors : self[q] # NoBlock =>
          (Dropping(q)' => Dropping(q))
    BY <2>1 DEF Return, Dropping, MayStore, TypeOK
  <2>6. \A q \in Reactors : self[q] # NoBlock => slot'[self[q]] = slot[self[q]]
    BY <2>2, <2>3 DEF TypeOK
  <2> QED  BY <2>4, <2>5, <2>6 DEF ClearInv
<1>8. ASSUME UNCHANGED <<valueVars, callVars>> PROVE ClearInv'
  BY <1>8 DEF ClearInv, Dropping, valueVars, callVars
<1> QED
  BY <1>1, <1>2, <1>3, <1>4, <1>5, <1>6, <1>7, <1>8
  DEF Next, ReactorStep, Create, RequestExit, Destroy, Move, Alloc, vars

\* A block that serves the code of a thread serves it as long as the thread is
\* there.
LEMMA ServesKept ==
  ASSUME LateSets = FALSE, Full, [Next]_vars, NEW a \in Addrs, NEW b \in Blocks,
         life[a] # "none", life'[a] # "none", Serves(b, a)
  PROVE  Serves(b, a)'
<1> USE DEF Full, Safe
<1>0. b # NoBlock /\ owner[b] = id[a] /\ id[a] # NoThread
  BY DEF Serves, ThreadInv
<1>1. ASSUME NEW c \in Addrs, Create(c) \/ RequestExit(c) \/ Destroy(c)
      PROVE  Serves(b, a)'
  <2>1. UNCHANGED <<owner, registry, slot>> /\ id'[a] = id[a]
        /\ (life[a] = "exiting" => life'[a] = "exiting")
    BY <1>1 DEF Create, RequestExit, Destroy, TypeOK, blockVars, valueVars
  <2> QED  BY <2>1 DEF Serves, Empty
<1>2. ASSUME UNCHANGED <<id, life, owner, registry>>,
             \A c \in Blocks : Empty(c) => Empty(c)'
      PROVE  Serves(b, a)'
  BY <1>2 DEF Serves, TypeOK
<1>3. ASSUME NEW q \in Reactors, WriteRegistry(q), registry[at[q]] = NoBlock
      PROVE  Serves(b, a)'
  <2>1. PICK n \in Blocks :
          /\ owner[n] = NoThread
          /\ owner' = [owner EXCEPT ![n] = Mine(q)]
          /\ registry' = [registry EXCEPT ![at[q]] = n]
    BY <1>3, NewBlock
  <2>2. UNCHANGED <<id, life, slot>> /\ at[q] \in Addrs
    BY <1>3, Where DEF WriteRegistry, threadVars, valueVars
  <2>3. poller[n] = NoThread  BY <2>1 DEF BlockInv
  <2>4. Empty(n)  BY <2>3 DEF ValueInv
  <2>5. owner'[b] = id'[a]  BY <1>0, <2>1, <2>2 DEF TypeOK
  <2>6. CASE a = at[q]
    BY <1>0, <1>3, <2>1, <2>2, <2>4, <2>5, <2>6 DEF Serves, Empty, TypeOK
  <2>7. CASE a # at[q]
    BY <1>0, <2>1, <2>2, <2>5, <2>7 DEF Serves, Empty, TypeOK
  <2> QED  BY <2>6, <2>7
<1>4. ASSUME NEW q \in Reactors, Remove(q) PROVE Serves(b, a)'
  <2>1. /\ at[q] \in Addrs /\ self[q] \in Blocks /\ registry[at[q]] = self[q]
        /\ registry' = [registry EXCEPT ![at[q]] = NoBlock]
        /\ UNCHANGED <<id, life, owner, slot>>
        /\ pc[q] = "remove" /\ life[at[q]] = "exiting" /\ self[q] # NoBlock
    BY <1>4, Where DEF Remove, RegistryMatches, threadVars, valueVars, CodeInv
  <2>2. Empty(self[q])
    <3>1. index[q] = TLS_SLOTS  BY <2>1 DEF IndexInv
    <3>2. \A i \in Slots : i < index[q]  BY <3>1, RegistryAssumption DEF Slots
    <3> QED  BY <2>1, <3>2 DEF ClearInv, Empty
  <2>3. CASE a = at[q]
    BY <1>0, <2>1, <2>2, <2>3 DEF Serves, Empty, TypeOK
  <2>4. CASE a # at[q]
    BY <1>0, <2>1, <2>4 DEF Serves, Empty, TypeOK
  <2> QED  BY <2>3, <2>4
<1>5. ASSUME NEW q \in Reactors, NEW k \in Keys, Set(q, k) PROVE Serves(b, a)'
  <2>1. pc[q] = "use" /\ MayStore(q) /\ UNCHANGED <<id, life, owner, registry>>
    BY <1>5 DEF Set, Return, threadVars, blockVars
  <2>2. /\ cur[q] \in Blocks /\ at[q] \in Addrs /\ life[at[q]] = "running"
        /\ registry[at[q]] = cur[q] /\ owner[cur[q]] = id[at[q]]
    BY <2>1, StoreFinds DEF Mine
  <2>3. \A c \in Blocks : c # cur[q] => slot'[c] = slot[c]
    BY <1>5 DEF Set, TypeOK
  <2>4. CASE registry[a] = b  BY <1>0, <2>1, <2>4 DEF Serves
  <2>5. CASE registry[a] # b
    <3>1. life[a] = "exiting" /\ Empty(b)
          /\ (registry[a] # NoBlock => Empty(registry[a]))
      BY <2>5 DEF Serves
    <3>2. id[a] # id[at[q]]  BY <1>0, <2>2, <3>1 DEF ThreadInv
    <3>3. b # cur[q] /\ registry[a] # cur[q]
      BY <1>0, <2>2, <3>2 DEF RegistryMatches, Blocks, NoBlock
    <3>4. Empty(b)' /\ (registry[a] # NoBlock => Empty(registry[a])')
      <4>1. registry[a] # NoBlock => registry[a] \in Blocks  BY DEF TypeOK
      <4> QED  BY <2>1, <2>3, <3>1, <3>3, <4>1 DEF Empty
    <3> QED  BY <1>0, <2>1, <3>1, <3>4 DEF Serves, Empty
  <2> QED  BY <2>4, <2>5
<1>6. ASSUME NEW q \in Reactors, Cleared(q) \/ Clear(q) \/ \E k \in Keys : ClearKey(q, k)
      PROVE  /\ UNCHANGED <<id, life, owner, registry>>
             /\ \A c \in Blocks : Empty(c) => Empty(c)'
  <2>1. UNCHANGED <<id, life, owner, registry>>
    BY <1>6 DEF Cleared, Clear, ClearKey, Return, threadVars, blockVars
  <2>2. \A c \in Blocks, i \in Slots : slot'[c][i] \in {slot[c][i], None}
    <3>1. CASE Cleared(q)  BY <3>1 DEF Cleared, TypeOK
    <3>2. CASE Clear(q)  BY <3>2 DEF Clear
    <3>3. ASSUME NEW k \in Keys, ClearKey(q, k)
          PROVE  \A c \in Blocks, i \in Slots : slot'[c][i] \in {slot[c][i], None}
      BY <3>3 DEF ClearKey, TypeOK
    <3> QED  BY <1>6, <3>1, <3>2, <3>3
  <2> QED  BY <2>1, <2>2 DEF Empty
<1>7. ASSUME UNCHANGED <<id, life, owner, registry, slot>>
      PROVE  Serves(b, a)'
  BY <1>7 DEF Serves, Empty
<1>8. ASSUME \E q \in Reactors : Cleared(q) \/ Clear(q) \/ \E k \in Keys : ClearKey(q, k)
      PROVE  Serves(b, a)'
  BY <1>2, <1>6, <1>8
<1>9. ASSUME NEW q \in Reactors, ReadRegistry(q) \/ WriteRegistry(q) \/ Get(q)
      PROVE  Serves(b, a)'
  <2>1. CASE WriteRegistry(q) /\ registry[at[q]] = NoBlock  BY <1>3, <2>1
  <2>2. CASE ~(WriteRegistry(q) /\ registry[at[q]] = NoBlock)
    <3>1. UNCHANGED <<id, life, owner, registry, slot>>
      BY <1>9, <2>2
      DEF ReadRegistry, WriteRegistry, Get, Return, threadVars, blockVars,
          valueVars
    <3> QED  BY <1>7, <3>1
  <2> QED  BY <2>1, <2>2
<1>10. ASSUME \/ \E c \in Addrs, q \in Reactors :
                  Move(c, q) \/ PollExit(q, c) \/ Call(q, c)
              \/ Alloc \/ UNCHANGED vars
       PROVE  Serves(b, a)'
  <2>1. UNCHANGED <<id, life, owner, registry, slot>>
    BY <1>10
    DEF Move, PollExit, Shutdown, Call, Alloc, vars, threadVars, blockVars,
        valueVars
  <2> QED  BY <1>7, <2>1
<1> QED
  BY <1>1, <1>4, <1>5, <1>8, <1>9, <1>10 DEF Next, ReactorStep

\* What current_slow finds or makes is the registry's block for the thread.
LEMMA CacheFinds ==
  ASSUME Full, NEW r \in Reactors, ReadRegistry(r) \/ WriteRegistry(r),
         pc'[r] = "use"
  PROVE  /\ UNCHANGED <<id, life, at>> /\ at[r] \in Addrs
         /\ cur'[r] # NoBlock /\ registry'[at[r]] = cur'[r]
         /\ owner'[cur'[r]] = id[at[r]]
         /\ cacheId' = [cacheId EXCEPT ![r] = id[at[r]]]
         /\ cacheTcb' = [cacheTcb EXCEPT ![r] = cur'[r]]
<1> USE DEF Full, Safe
<1>1. UNCHANGED <<id, life, at>> /\ at[r] \in Addrs /\ Mine(r) \in Threads
  BY Where DEF ReadRegistry, WriteRegistry, threadVars
<1>2. CASE registry[at[r]] # NoBlock
  <2>1. Cache(r, registry[at[r]]) /\ UNCHANGED <<owner, registry>>
    BY <1>2 DEF ReadRegistry, WriteRegistry, blockVars
  <2> QED
    BY <1>1, <1>2, <2>1 DEF Cache, Mine, RegistryMatches, TypeOK
<1>3. CASE registry[at[r]] = NoBlock /\ WriteRegistry(r)
  <2>1. PICK b \in Blocks :
          /\ owner' = [owner EXCEPT ![b] = Mine(r)]
          /\ registry' = [registry EXCEPT ![at[r]] = b]
          /\ Cache(r, b)
    BY <1>3, NewBlock
  <2> QED
    BY <1>1, <2>1 DEF Cache, Mine, TypeOK, Blocks, NoBlock
<1>4. CASE registry[at[r]] = NoBlock /\ ReadRegistry(r)
  BY <1>4 DEF ReadRegistry, TypeOK
<1> QED  BY <1>2, <1>3, <1>4

\* A step that fills no cache leaves what the caches hold.
LEMMA CacheFrame ==
  ASSUME Full, [Next]_vars, NEW r \in Reactors,
         cacheId'[r] # cacheId[r] \/ cacheTcb'[r] # cacheTcb[r]
  PROVE  (ReadRegistry(r) \/ WriteRegistry(r)) /\ pc'[r] = "use"
<1>1. PICK q \in Reactors : ReadRegistry(q) \/ WriteRegistry(q) \/ Remove(q)
  BY BlockFrame
<1>2. ~Remove(q)  BY DEF Remove, cacheVars
<1>3. \E b : Cache(q, b)  BY <1>1, <1>2 DEF ReadRegistry, WriteRegistry, cacheVars
<1>4. q = r  BY <1>3 DEF Cache, Full, Safe, TypeOK
<1> QED  BY <1>1, <1>2, <1>3, <1>4 DEF Cache, Full, Safe, TypeOK

\* How a reactor comes to use a block.
LEMMA UseFrame ==
  ASSUME Full, [Next]_vars, NEW r \in Reactors, pc'[r] = "use"
  PROVE  \/ pc[r] = "use" /\ cur'[r] = cur[r] /\ at'[r] = at[r]
         \/ ReadRegistry(r) \/ WriteRegistry(r)
         \/ /\ UNCHANGED <<id, life>>
            /\ at'[r] \in Addrs /\ life[at'[r]] # "none"
            /\ cacheId[r] = id[at'[r]] /\ cur'[r] = cacheTcb[r]
<1> USE DEF Full, Safe
<1>1. ASSUME NEW a \in Addrs, Create(a) \/ RequestExit(a) \/ Destroy(a)
      PROVE  UNCHANGED callVars
  BY <1>1 DEF Create, RequestExit, Destroy
<1>2. ASSUME NEW a \in Addrs, NEW q \in Reactors, Move(a, q)
      PROVE  UNCHANGED callVars
  BY <1>2 DEF Move
<1>3. ASSUME NEW a \in Addrs, NEW q \in Reactors, PollExit(q, a)
      PROVE  pc[r] = "use" /\ cur'[r] = cur[r] /\ at'[r] = at[r]
  BY <1>3 DEF PollExit, Shutdown, TypeOK
<1>4. ASSUME NEW a \in Addrs, NEW q \in Reactors, Call(q, a), q # r
      PROVE  pc[r] = "use" /\ cur'[r] = cur[r] /\ at'[r] = at[r]
  BY <1>4 DEF Call, Current, TypeOK
<1>5. ASSUME NEW a \in Addrs, Call(r, a)
      PROVE  /\ UNCHANGED <<id, life>>
             /\ at'[r] \in Addrs /\ life[at'[r]] # "none"
             /\ cacheId[r] = id[at'[r]] /\ cur'[r] = cacheTcb[r]
  BY <1>5 DEF Call, Current, Cached, TypeOK, threadVars
<1>6. ASSUME NEW q \in Reactors, ReactorStep(q) \/ Return(q), q # r
      PROVE  pc[r] = "use" /\ cur'[r] = cur[r] /\ at'[r] = at[r]
  BY <1>6
  DEF ReactorStep, ReadRegistry, WriteRegistry, Cache, Get, Return, Clear,
      Current, Cleared, Remove, TypeOK
<1>7. ~Return(r) /\ ~Cleared(r) /\ ~Remove(r)
  BY DEF Return, Cleared, AfterSlot, Remove, TypeOK
<1>8. ASSUME Clear(r)
      PROVE  /\ UNCHANGED <<id, life>>
             /\ at'[r] \in Addrs /\ life[at'[r]] # "none"
             /\ cacheId[r] = id[at'[r]] /\ cur'[r] = cacheTcb[r]
  <2>1. pc[r] = "clear" /\ UNCHANGED <<id, life>>
    BY <1>8 DEF Clear, threadVars
  <2>2. at[r] \in Addrs /\ life[at[r]] # "none"  BY <2>1 DEF CodeInv
  <2>3. Current(r, at[r])
    BY <1>8 DEF Clear, AfterSlot, TypeOK
  <2> QED  BY <2>1, <2>2, <2>3 DEF Current, Cached, TypeOK
<1>9. ASSUME UNCHANGED callVars
      PROVE  pc[r] = "use" /\ cur'[r] = cur[r] /\ at'[r] = at[r]
  BY <1>9 DEF callVars
<1> QED
  BY <1>1, <1>2, <1>3, <1>4, <1>5, <1>6, <1>7, <1>8, <1>9
  DEF Next, ReactorStep, Get, ClearKey, Set, Alloc, vars

LEMMA NextCache ==
  ASSUME LateSets = FALSE, Full, [Next]_vars
  PROVE  CacheInv'
<1> USE DEF Full, Safe
<1>1. ASSUME NEW r \in Reactors, ReadRegistry(r) \/ WriteRegistry(r),
             pc'[r] = "use"
      PROVE  Serves(cur[r], at[r])'
  BY <1>1, CacheFinds DEF Serves
<1>2. ASSUME NEW r \in Reactors, NEW a \in Addrs, life'[a] # "none",
             cacheId'[r] = id'[a]
      PROVE  Serves(cacheTcb[r], a)'
  <2>1. CASE cacheId'[r] # cacheId[r] \/ cacheTcb'[r] # cacheTcb[r]
    <3>1. (ReadRegistry(r) \/ WriteRegistry(r)) /\ pc'[r] = "use"
      BY <2>1, CacheFrame
    <3>2. /\ UNCHANGED <<id, life, at>> /\ at[r] \in Addrs
          /\ cacheId'[r] = id[at[r]] /\ cacheTcb'[r] = cur'[r]
      BY <3>1, CacheFinds DEF TypeOK
    <3>3. a = at[r]  BY <1>2, <3>2 DEF ThreadInv
    <3>4. Serves(cur[r], at[r])'  BY <1>1, <3>1
    <3> QED  BY <3>2, <3>3, <3>4 DEF Serves
  <2>2. CASE cacheId'[r] = cacheId[r] /\ cacheTcb'[r] = cacheTcb[r]
    <3>1. ~Create(a)
      <4>1. SUFFICES ASSUME Create(a) PROVE FALSE
        OBVIOUS
      <4>2. id'[a] = Cardinality(Born) + 1  BY <4>1 DEF Create, TypeOK
      <4>3. /\ Cardinality(Born) \in Nat /\ Cardinality(Born) + 1 \notin Born
        BY CountOne DEF ThreadInv
      <4>4. id'[a] \notin Born /\ id'[a] # NoThread
        BY <4>2, <4>3 DEF NoThread
      <4> QED  BY <1>2, <2>2, <4>4 DEF BlockInv
    <3>2. ~Destroy(a)  BY <1>2 DEF Destroy, TypeOK
    <3>3. id'[a] = id[a] /\ life[a] # "none"
      <4>1. ASSUME NEW c \in Addrs, Create(c) \/ RequestExit(c) \/ Destroy(c)
            PROVE  id'[a] = id[a] /\ life[a] # "none"
        <5>1. CASE RequestExit(c)
          BY <1>2, <5>1 DEF RequestExit, TypeOK
        <5>2. CASE Create(c) \/ Destroy(c)
          BY <1>2, <3>1, <3>2, <5>2 DEF Create, Destroy, TypeOK
        <5> QED  BY <4>1, <5>1, <5>2
      <4> QED  BY <1>2, <4>1, ThreadFrame
    <3>4. Serves(cacheTcb[r], a)  BY <1>2, <2>2, <3>3 DEF CacheInv
    <3>5. PICK b \in Blocks : b = cacheTcb[r]
      BY <3>4 DEF Serves, TypeOK
    <3>6. Serves(b, a)  BY <3>4, <3>5
    <3>7. Serves(b, a)'  BY <1>2, <3>3, <3>6, ServesKept
    <3>8. b = cacheTcb'[r]  BY <2>2, <3>5
    <3> QED  BY <3>7, <3>8 DEF Serves
  <2> QED  BY <2>1, <2>2
<1>3. ASSUME NEW r \in Reactors, pc'[r] = "use"
      PROVE  Serves(cur[r], at[r])'
  <2>1. CASE pc[r] = "use" /\ cur'[r] = cur[r] /\ at'[r] = at[r]
    <3>1. at[r] \in Addrs /\ life[at[r]] # "none" /\ Inside(at[r])
      BY <2>1 DEF CodeInv, Inside
    <3>2. life'[at[r]] # "none"
      BY <3>1, ThreadFrame DEF Create, RequestExit, Destroy, TypeOK
    <3>3. Serves(cur[r], at[r])  BY <2>1 DEF CacheInv
    <3>4. PICK b \in Blocks, a \in Addrs : b = cur[r] /\ a = at[r]
      BY <3>1, <3>3 DEF Serves, TypeOK
    <3>5. Serves(b, a)'  BY <3>1, <3>2, <3>3, <3>4, ServesKept
    <3> QED  BY <2>1, <3>4, <3>5 DEF Serves
  <2>2. CASE ReadRegistry(r) \/ WriteRegistry(r)
    BY <1>1, <1>3, <2>2
  <2>3. CASE /\ UNCHANGED <<id, life>>
             /\ at'[r] \in Addrs /\ life[at'[r]] # "none"
             /\ cacheId[r] = id[at'[r]] /\ cur'[r] = cacheTcb[r]
    <3>1. PICK a \in Addrs : a = at'[r]  BY <2>3
    <3>2. Serves(cacheTcb[r], a)  BY <2>3, <3>1 DEF CacheInv
    <3>3. PICK b \in Blocks : b = cacheTcb[r]  BY <3>2 DEF Serves, TypeOK
    <3>4. Serves(b, a)'  BY <2>3, <3>1, <3>2, <3>3, ServesKept
    <3> QED  BY <2>3, <3>1, <3>3, <3>4 DEF Serves
  <2> QED  BY <1>3, <2>1, <2>2, <2>3, UseFrame
<1> QED  BY <1>2, <1>3 DEF CacheInv

\* Steps that store and drop nothing, and take away nothing that ValueInv
\* rests on.
LEMMA ValueKept ==
  ASSUME Full, UNCHANGED valueVars, Born \subseteq Born',
         \A b \in Blocks : poller'[b] = NoThread => Empty(b),
         \A b \in Blocks : Empty(b) \/ owner'[b] = owner[b],
         \A r \in Reactors : Dropping(r) =>
           Dropping(r)' /\ self'[r] = self[r] /\ index'[r] = index[r]
  PROVE  ValueInv'
<1> USE DEF Full, valueVars
<1>1. \A b \in Blocks : Empty(b)' <=> Empty(b)  BY DEF Empty
<1>2. \A v \in Values : Held(v)' <=> Held(v)  BY DEF Held
<1>3. \A v \in Values :
        /\ freed'[v] \in {0, 1}
        /\ setBy'[v] \in Born' \cup {NoThread}
        /\ setBy'[v] = NoThread => freed'[v] = 0
        /\ setBy'[v] # NoThread /\ freed'[v] = 0 => Held(v)'
  BY <1>2 DEF ValueInv
<1>4. ASSUME NEW b \in Blocks, NEW i \in Slots, slot[b][i] # None
      PROVE  /\ setBy[slot[b][i]] = owner'[b] /\ owner'[b] # NoThread
             /\ \A c \in Blocks, j \in Slots :
                  slot[c][j] = slot[b][i] => c = b /\ j = i
             /\ freed[slot[b][i]] = 1 =>
                  \E r \in Reactors : Dropping(r)' /\ self'[r] = b /\ index'[r] = i
  <2>1. owner'[b] = owner[b]  BY <1>4 DEF Empty
  <2>2. freed[slot[b][i]] = 1 =>
          \E r \in Reactors : Dropping(r)' /\ self'[r] = b /\ index'[r] = i
    BY <1>4 DEF ValueInv
  <2> QED  BY <1>4, <2>1, <2>2 DEF ValueInv
<1>5. \A b \in Blocks : poller'[b] = NoThread => Empty(b)'  BY <1>1
<1> QED  BY <1>3, <1>4, <1>5 DEF ValueInv, Dropping

\* A call of set or clear puts a new value or none into its slot and drops the
\* old one.
LEMMA StoreKeepsValues ==
  ASSUME LateSets = FALSE, Full, [Next]_vars, NEW q \in Reactors, NEW k \in Keys,
         ClearKey(q, k) \/ Set(q, k)
  PROVE  ValueInv'
<1> USE DEF Full, Safe
<1> DEFINE b == cur[q]
           old == slot[b][k]
           new == slot'[b][k]
<1>1. /\ pc[q] = "use" /\ MayStore(q) /\ k \in Slots /\ Return(q)
      /\ UNCHANGED <<owner, poller, self, index>>
  BY DEF ClearKey, Set, Return, Keys, blockVars
<1>2. /\ b \in Blocks /\ at[q] \in Addrs
      /\ owner[b] = Mine(q) /\ poller[b] = Mine(q) /\ Mine(q) # NoThread
      /\ \A r \in Reactors : self[r] # b
      /\ old # None => old \in Values /\ freed[old] = 0
  BY <1>1, StoreFinds
<1>3. Mine(q) \in Born' /\ Born \subseteq Born'
  BY <1>1, AtIsBorn, BornGrows
<1>4. /\ \A c \in Blocks, i \in Slots :
           slot'[c][i] = IF c = b /\ i = k THEN new ELSE slot[c][i]
      /\ freed' = IF old = None THEN freed ELSE [freed EXCEPT ![old] = @ + 1]
      /\ \/ new = None /\ UNCHANGED setBy
         \/ /\ new \in Values /\ setBy[new] = NoThread
            /\ setBy' = [setBy EXCEPT ![new] = Mine(q)]
  <2>1. CASE ClearKey(q, k)
    BY <1>1, <1>2, <2>1 DEF ClearKey, DropOld, TypeOK
  <2>2. CASE Set(q, k)
    <3>1. PICK v \in Values :
            /\ setBy[v] = NoThread
            /\ slot' = [slot EXCEPT ![cur[q]][k] = v]
            /\ setBy' = [setBy EXCEPT ![v] = Mine(q)]
      BY <2>2 DEF Set
    <3>2. new = v  BY <1>1, <1>2, <3>1 DEF TypeOK
    <3> QED  BY <1>1, <1>2, <2>2, <3>1, <3>2 DEF Set, DropOld, TypeOK
  <2> QED  BY <2>1, <2>2
<1> HIDE DEF b, old, new
<1>5. new # None => \A c \in Blocks, i \in Slots : slot[c][i] # new
  <2>1. \A c \in Blocks, i \in Slots : slot[c][i] # None => setBy[slot[c][i]] # NoThread
    BY DEF ValueInv
  <2> QED  BY <1>4, <2>1
<1>6. \A v \in Values : freed'[v] = IF v = old THEN 1 ELSE freed[v]
  BY <1>2, <1>4, RegistryAssumption DEF TypeOK
<1>7. \A v \in Values : setBy'[v] = IF v = new THEN Mine(q) ELSE setBy[v]
  BY <1>2, <1>4, RegistryAssumption DEF TypeOK
<1>8. ASSUME NEW v \in Values
      PROVE  /\ freed'[v] \in {0, 1}
             /\ setBy'[v] \in Born' \cup {NoThread}
             /\ setBy'[v] = NoThread => freed'[v] = 0
             /\ setBy'[v] # NoThread /\ freed'[v] = 0 => Held(v)'
  <2>1. v = old => setBy[v] # NoThread
    BY <1>1, <1>2, RegistryAssumption DEF ValueInv, old
  <2>2. v = new => v # old
    BY <1>1, <1>2, <1>5, RegistryAssumption DEF old
  <2>3. v = new => freed[v] = 0  BY <1>4, <1>8, RegistryAssumption DEF ValueInv
  <2>4. freed'[v] \in {0, 1} /\ (setBy'[v] = NoThread => freed'[v] = 0)
    BY <1>2, <1>6, <1>7, <2>1, <2>3 DEF ValueInv
  <2>5. setBy'[v] \in Born' \cup {NoThread}  BY <1>3, <1>7 DEF ValueInv
  <2>6. ASSUME setBy'[v] # NoThread, freed'[v] = 0 PROVE Held(v)'
    <3>1. CASE v = new  BY <1>1, <1>2, <3>1 DEF Held, new
    <3>2. CASE v # new
      <4>1. v # old /\ setBy[v] # NoThread /\ freed[v] = 0
        BY <1>6, <1>7, <2>6, <3>2
      <4>2. PICK c \in Blocks, i \in Slots : slot[c][i] = v
        BY <4>1 DEF ValueInv, Held
      <4>3. slot'[c][i] = v  BY <1>4, <4>1, <4>2 DEF old
      <4> QED  BY <4>3 DEF Held
    <3> QED  BY <3>1, <3>2
  <2> QED  BY <2>4, <2>5, <2>6
<1>9. ASSUME NEW c \in Blocks, NEW i \in Slots, slot'[c][i] # None
      PROVE  /\ setBy'[slot'[c][i]] = owner'[c] /\ owner'[c] # NoThread
             /\ \A d \in Blocks, j \in Slots :
                  slot'[d][j] = slot'[c][i] => d = c /\ j = i
             /\ freed'[slot'[c][i]] = 1 =>
                  \E r \in Reactors : Dropping(r)' /\ self'[r] = c /\ index'[r] = i
  <2>1. CASE c = b /\ i = k
    <3>1. slot'[c][i] = new /\ new \in Values  BY <1>4, <1>9, <2>1
    <3>2. freed'[new] = 0
      <4>1. new # old  BY <1>1, <1>2, <1>5, <3>1, RegistryAssumption DEF old
      <4> QED  BY <1>4, <1>6, <3>1, <4>1, RegistryAssumption DEF ValueInv
    <3> QED  BY <1>1, <1>2, <1>4, <1>5, <1>7, <1>9, <3>1, <3>2
  <2>2. CASE ~(c = b /\ i = k)
    <3>1. slot'[c][i] = slot[c][i] /\ slot[c][i] # None /\ slot[c][i] \in Values
      BY <1>4, <1>9, <2>2 DEF TypeOK
    <3>2. slot[c][i] # new  BY <1>5, <1>9, <3>1
    <3>3. slot[c][i] # old
      BY <1>1, <1>2, <2>2, <3>1 DEF ValueInv, old
    <3>4. /\ setBy[slot[c][i]] = owner[c] /\ owner[c] # NoThread
          /\ \A d \in Blocks, j \in Slots :
               slot[d][j] = slot[c][i] => d = c /\ j = i
      BY <3>1 DEF ValueInv
    <3>5. setBy'[slot'[c][i]] = owner'[c] /\ owner'[c] # NoThread
      BY <1>1, <1>7, <3>1, <3>2, <3>4
    <3>6. \A d \in Blocks, j \in Slots :
            slot'[d][j] = slot'[c][i] => d = c /\ j = i
      BY <1>4, <3>1, <3>2, <3>4
    <3>7. ASSUME freed'[slot'[c][i]] = 1
          PROVE  \E r \in Reactors : Dropping(r)' /\ self'[r] = c /\ index'[r] = i
      <4>1. freed[slot[c][i]] = 1  BY <1>6, <3>1, <3>3, <3>7
      <4>2. PICK r \in Reactors : Dropping(r) /\ self[r] = c /\ index[r] = i
        BY <3>1, <4>1 DEF ValueInv
      <4>3. r # q  BY <1>1, <4>2 DEF MayStore, Dropping
      <4>4. Dropping(r)'  BY <1>1, <4>2, <4>3 DEF Dropping, Return, TypeOK
      <4> QED  BY <1>1, <4>2, <4>4
    <3> QED  BY <3>5, <3>6, <3>7
  <2> QED  BY <2>1, <2>2
<1>10. \A c \in Blocks : poller'[c] = NoThread => Empty(c)'
  BY <1>1, <1>2, <1>4 DEF ValueInv, Empty
<1> QED  BY <1>8, <1>9, <1>10 DEF ValueInv, Dropping

LEMMA ClearKeepsValues ==
  ASSUME LateSets = FALSE, Full, [Next]_vars, NEW r \in Reactors,
         Clear(r) \/ Cleared(r)
  PROVE  ValueInv'
<1> USE DEF Full, Safe
<1> DEFINE b == self[r]
           i == index[r]
           v == slot[b][i]
<1>1. /\ pc[r] \in {"clear", "cleared"} /\ b \in Blocks /\ b # NoBlock /\ i \in Slots
      /\ UNCHANGED <<owner, poller, self, setBy>>
  BY Where DEF Clear, Cleared, blockVars, Blocks, NoBlock
<1>2. Born \subseteq Born'  BY BornGrows
<1>3. \A q \in Reactors : q # r /\ Dropping(q) =>
        Dropping(q)' /\ self'[q] = self[q] /\ index'[q] = index[q]
  <2>1. \A q \in Reactors : q # r => pc'[q] = pc[q] /\ index'[q] = index[q]
    BY DEF Clear, Cleared, Current, TypeOK
  <2> QED  BY <1>1, <2>1 DEF Dropping
<1>4. CASE Clear(r) /\ SkipSlot(r)
  <2>1. UNCHANGED valueVars  BY <1>4 DEF Clear, SkipSlot, valueVars
  <2>2. ~Dropping(r)  BY <1>4 DEF Clear, Dropping
  <2>3. \A c \in Blocks : poller'[c] = NoThread => Empty(c)
    BY <1>1 DEF ValueInv
  <2> QED  BY <1>1, <1>2, <1>3, <2>1, <2>2, <2>3, ValueKept
<1>5. CASE Clear(r) /\ (DropSlot(r) \/ DropReads(r))
  <2>1. /\ v # None /\ UNCHANGED <<slot, index>> /\ Dropping(r)'
        /\ freed' = [freed EXCEPT ![v] = @ + 1]
    BY <1>1, <1>5
    DEF Clear, DropSlot, DropReads, DropOld, Current, Dropping, TypeOK
  <2>2. v \in Values /\ freed[v] = 0  BY <1>5, <2>1, ClearFresh DEF Clear
  <2> HIDE DEF v
  <2>3. \A w \in Values : freed'[w] = IF w = v THEN 1 ELSE freed[w]
    BY <2>1, <2>2 DEF TypeOK
  <2>4. ASSUME NEW w \in Values
        PROVE  /\ freed'[w] \in {0, 1}
               /\ setBy'[w] \in Born' \cup {NoThread}
               /\ setBy'[w] = NoThread => freed'[w] = 0
               /\ setBy'[w] # NoThread /\ freed'[w] = 0 => Held(w)'
    <3>1. setBy[v] # NoThread  BY <1>1, <2>1 DEF ValueInv, v
    <3>2. freed[w] \in {0, 1} /\ setBy[w] \in Born \cup {NoThread}
          /\ (setBy[w] = NoThread => freed[w] = 0)
          /\ (setBy[w] # NoThread /\ freed[w] = 0 => Held(w))
      BY DEF ValueInv
    <3>3. Held(w)' <=> Held(w)  BY <2>1 DEF Held
    <3> QED  BY <1>1, <1>2, <2>3, <3>1, <3>2, <3>3
  <2>5. ASSUME NEW c \in Blocks, NEW j \in Slots, slot[c][j] # None
        PROVE  /\ setBy[slot[c][j]] = owner[c] /\ owner[c] # NoThread
               /\ \A d \in Blocks, k \in Slots :
                    slot[d][k] = slot[c][j] => d = c /\ k = j
               /\ freed'[slot[c][j]] = 1 =>
                    \E q \in Reactors : Dropping(q)' /\ self'[q] = c /\ index'[q] = j
    <3>1. slot[c][j] \in Values  BY <2>5 DEF TypeOK
    <3>2. ASSUME freed'[slot[c][j]] = 1
          PROVE  \E q \in Reactors : Dropping(q)' /\ self'[q] = c /\ index'[q] = j
      <4>1. CASE slot[c][j] = v
        <5>1. c = b /\ j = i  BY <1>1, <2>1, <2>5, <4>1 DEF ValueInv, v
        <5> QED  BY <1>1, <2>1, <5>1
      <4>2. CASE slot[c][j] # v
        <5>1. PICK q \in Reactors : Dropping(q) /\ self[q] = c /\ index[q] = j
          BY <2>3, <2>5, <3>1, <3>2, <4>2 DEF ValueInv
        <5>2. q # r  BY <1>5, <5>1 DEF Clear, Dropping
        <5> QED  BY <1>3, <5>1, <5>2
      <4> QED  BY <4>1, <4>2
    <3> QED  BY <2>5, <3>2 DEF ValueInv
  <2>6. \A c \in Blocks : poller'[c] = NoThread => Empty(c)'
    BY <1>1, <2>1 DEF ValueInv, Empty
  <2> QED  BY <1>1, <2>1, <2>4, <2>5, <2>6 DEF ValueInv, Dropping
<1>6. CASE Cleared(r)
  <2>1. /\ UNCHANGED freed /\ pc[r] = "cleared"
        /\ \A c \in Blocks, j \in Slots :
             slot'[c][j] = IF c = b /\ j = i THEN None ELSE slot[c][j]
    BY <1>1, <1>6 DEF Cleared, TypeOK
  <2>2. v \in Values /\ freed[v] = 1
    BY <1>1, <2>1 DEF ClearInv, Dropping
  <2>3. \A q \in Reactors : self[q] = b => q = r  BY <1>1, SelfOne
  <2> HIDE DEF v
  <2>4. ASSUME NEW w \in Values
        PROVE  /\ freed'[w] \in {0, 1}
               /\ setBy'[w] \in Born' \cup {NoThread}
               /\ setBy'[w] = NoThread => freed'[w] = 0
               /\ setBy'[w] # NoThread /\ freed'[w] = 0 => Held(w)'
    <3>1. ASSUME setBy[w] # NoThread, freed[w] = 0 PROVE Held(w)'
      <4>1. PICK c \in Blocks, j \in Slots : slot[c][j] = w
        BY <3>1 DEF ValueInv, Held
      <4>2. ~(c = b /\ j = i)  BY <2>2, <3>1, <4>1 DEF v
      <4> QED  BY <2>1, <4>1, <4>2 DEF Held
    <3> QED  BY <1>1, <1>2, <2>1, <3>1 DEF ValueInv
  <2>5. ASSUME NEW c \in Blocks, NEW j \in Slots, slot'[c][j] # None
        PROVE  /\ setBy[slot'[c][j]] = owner[c] /\ owner[c] # NoThread
               /\ \A d \in Blocks, k \in Slots :
                    slot'[d][k] = slot'[c][j] => d = c /\ k = j
               /\ freed[slot'[c][j]] = 1 =>
                    \E q \in Reactors : Dropping(q)' /\ self'[q] = c /\ index'[q] = j
    <3>1. ~(c = b /\ j = i) /\ slot'[c][j] = slot[c][j] /\ slot[c][j] # None
      BY <2>1, <2>5
    <3>2. \A d \in Blocks, k \in Slots :
            slot'[d][k] = slot[c][j] => slot[d][k] = slot[c][j]
      BY <2>1, <3>1
    <3>3. ASSUME freed[slot[c][j]] = 1
          PROVE  \E q \in Reactors : Dropping(q)' /\ self'[q] = c /\ index'[q] = j
      <4>1. PICK q \in Reactors : Dropping(q) /\ self[q] = c /\ index[q] = j
        BY <3>1, <3>3 DEF ValueInv
      <4>2. q # r  BY <3>1, <4>1
      <4> QED  BY <1>3, <4>1, <4>2
    <3> QED  BY <3>1, <3>2, <3>3 DEF ValueInv
  <2>6. \A c \in Blocks : poller'[c] = NoThread => Empty(c)'
    BY <1>1, <2>1 DEF ValueInv, Empty
  <2> QED  BY <1>1, <2>1, <2>4, <2>5, <2>6 DEF ValueInv, Dropping
<1> QED  BY <1>4, <1>5, <1>6, ClearCases

LEMMA NextValue ==
  ASSUME LateSets = FALSE, Full, [Next]_vars
  PROVE  ValueInv'
<1> USE DEF Full, Safe
<1>0. Born \subseteq Born'  BY BornGrows
<1>1. \A b \in Blocks : poller[b] = NoThread => Empty(b)  BY DEF ValueInv
<1>2. ASSUME UNCHANGED <<valueVars, owner, poller>>,
             \A r \in Reactors : Dropping(r) =>
               Dropping(r)' /\ self'[r] = self[r] /\ index'[r] = index[r]
      PROVE  ValueInv'
  BY <1>0, <1>1, <1>2, ValueKept
<1>3. ASSUME NEW r \in Reactors, ReadRegistry(r) \/ WriteRegistry(r) \/ Get(r)
      PROVE  /\ UNCHANGED valueVars
             /\ \A q \in Reactors : Dropping(q) =>
                  Dropping(q)' /\ self'[q] = self[q] /\ index'[q] = index[q]
  BY <1>3
  DEF ReadRegistry, WriteRegistry, Cache, Get, Return, Dropping, TypeOK
<1>4. ASSUME NEW r \in Reactors, WriteRegistry(r), registry[at[r]] = NoBlock
      PROVE  ValueInv'
  <2>1. PICK n \in Blocks :
          /\ owner[n] = NoThread
          /\ owner' = [owner EXCEPT ![n] = Mine(r)]
          /\ poller' = [poller EXCEPT ![n] = Mine(r)]
    BY <1>4, NewBlock
  <2>2. Mine(r) # NoThread  BY <1>4, AtIsBorn DEF WriteRegistry
  <2>3. Empty(n)  BY <1>1, <2>1 DEF BlockInv
  <2>4. \A b \in Blocks : poller'[b] = NoThread => Empty(b)
    BY <1>1, <2>1, <2>2 DEF TypeOK
  <2>5. \A b \in Blocks : Empty(b) \/ owner'[b] = owner[b]
    BY <2>1, <2>3 DEF TypeOK
  <2> QED  BY <1>0, <1>3, <1>4, <2>4, <2>5, ValueKept
<1>5. ASSUME NEW r \in Reactors, Remove(r) PROVE ValueInv'
  <2>1. /\ self[r] \in Blocks /\ self[r] # NoBlock /\ pc[r] = "remove"
        /\ poller' = [poller EXCEPT ![self[r]] = NoThread]
        /\ UNCHANGED <<owner, valueVars>>
    BY <1>5, Where DEF Remove, Blocks, NoBlock
  <2>2. index[r] = TLS_SLOTS  BY <2>1 DEF IndexInv
  <2>3. Empty(self[r])
    <3>1. \A i \in Slots : i < index[r]  BY <2>2, RegistryAssumption DEF Slots
    <3> QED  BY <2>1, <3>1 DEF ClearInv, Empty
  <2>4. \A b \in Blocks : poller'[b] = NoThread => Empty(b)
    BY <1>1, <2>1, <2>3 DEF TypeOK
  <2>5. \A q \in Reactors : Dropping(q) =>
          Dropping(q)' /\ self'[q] = self[q] /\ index'[q] = index[q]
    BY <1>5 DEF Remove, Dropping, TypeOK
  <2> QED  BY <1>0, <2>1, <2>4, <2>5, ValueKept
<1>6. ASSUME NEW a \in Addrs, NEW r \in Reactors, PollExit(r, a) \/ Call(r, a)
      PROVE  ValueInv'
  <2>1. self[r] = NoBlock  BY <1>6 DEF PollExit, Call, Idle, CodeInv
  <2>2. UNCHANGED <<valueVars, owner, poller>>
    BY <1>6 DEF PollExit, Shutdown, Call, blockVars
  <2>3. \A q \in Reactors : Dropping(q) =>
          Dropping(q)' /\ self'[q] = self[q] /\ index'[q] = index[q]
    BY <1>6, <2>1
    DEF PollExit, Shutdown, Call, Current, Dropping, TypeOK
  <2> QED  BY <1>2, <2>2, <2>3
<1>7. ASSUME UNCHANGED <<valueVars, blockVars, callVars>> PROVE ValueInv'
  <2>1. UNCHANGED <<owner, poller>>  BY <1>7 DEF blockVars
  <2>2. \A q \in Reactors : Dropping(q) =>
          Dropping(q)' /\ self'[q] = self[q] /\ index'[q] = index[q]
    BY <1>7 DEF callVars, Dropping
  <2> QED  BY <1>2, <1>7, <2>1, <2>2
<1>8. ASSUME NEW r \in Reactors, ReactorStep(r) PROVE ValueInv'
  <2>1. CASE WriteRegistry(r) /\ registry[at[r]] = NoBlock
    BY <1>4, <2>1
  <2>2. CASE /\ ReadRegistry(r) \/ WriteRegistry(r) \/ Get(r)
             /\ ~(WriteRegistry(r) /\ registry[at[r]] = NoBlock)
    <3>1. UNCHANGED <<owner, poller>>
      BY <2>2 DEF ReadRegistry, Get, Return, WriteRegistry, blockVars
    <3> QED  BY <1>2, <1>3, <2>2, <3>1
  <2> QED
    BY <1>5, <1>8, <2>1, <2>2, ClearKeepsValues DEF ReactorStep
<1> QED
  BY <1>6, <1>7, <1>8, StoreKeepsValues
  DEF Next, Create, RequestExit, Destroy, Move, Alloc, vars

LEMMA NextFull ==
  ASSUME LateSets = FALSE
  PROVE  Full /\ [Next]_vars => Full'
BY NextSafe, NextCache, NextClear, NextValue DEF Full

LEMMA SpecFull ==
  ASSUME LateSets = FALSE
  PROVE  Spec => []Full
<1>1. Full /\ [Next]_vars => Full'  BY NextFull
<1> QED  BY <1>1, InitFull, PTL DEF Spec

\* No value is dropped twice, and none outlives its thread, if no code sets a
\* key while its thread exits (lib.rs:1922-1942, 2072).
THEOREM ValuesDroppedOnce ==
  ASSUME LateSets = FALSE
  PROVE  Spec => []DroppedOnce
<1>1. Full => DroppedOnce
  <2> SUFFICES ASSUME Full, NEW v \in Values
               PROVE  /\ freed[v] <= 1
                      /\ setBy[v] \notin {NoThread} \cup {id[a] : a \in Addrs} =>
                           freed[v] = 1
    BY DEF DroppedOnce
  <2> USE DEF Full, Safe
  <2>1. freed[v] \in {0, 1}  BY DEF ValueInv
  <2>2. ASSUME setBy[v] # NoThread, freed[v] = 0
        PROVE  \E a \in Addrs : setBy[v] = id[a]
    <3>1. PICK b \in Blocks, i \in Slots : slot[b][i] = v
      BY <2>2 DEF ValueInv, Held
    <3>2. v # None  BY RegistryAssumption
    <3>3. setBy[v] = owner[b] /\ poller[b] # NoThread
      BY <3>1, <3>2 DEF ValueInv, Empty
    <3>4. PICK a \in Addrs : registry[a] = b
      BY <3>3 DEF RegistryMatches
    <3> QED  BY <3>3, <3>4 DEF RegistryMatches, Blocks, NoBlock
  <2> QED  BY <2>1, <2>2
<1> QED  BY <1>1, SpecFull, PTL

-----------------------------------------------------------------------------
(* What a thread reads.                                                    *)

LEMMA AddrOfId ==
  ASSUME ThreadInv, NEW a \in Addrs, id[a] # NoThread
  PROVE  AddrOf(id[a]) = a
BY DEF AddrOf, ThreadInv

\* A thread reads what it has stored and not dropped, whichever reactor it
\* asks on and whoever ran there before (Tcb::current, lib.rs:1972-2019).
THEOREM ReadsOwnValues ==
  ASSUME LateSets = FALSE
  PROVE  Spec => []ReadsStored
<1>1. Full => ReadsStored
  <2> SUFFICES ASSUME Full, NEW r \in Reactors, NEW k \in Keys, pc[r] = "use",
                      self[r] # NoBlock => k # index[r]
               PROVE  slot[cur[r]][k] = StoredBy(Mine(r), k)
    BY DEF ReadsStored
  <2> USE DEF Full, Safe
  <2> DEFINE a == at[r]
             b == cur[r]
  <2>1. a \in Addrs /\ id[a] # NoThread /\ AddrOf(id[a]) = a /\ k \in Slots
    BY AddrOfId DEF CodeInv, ThreadInv, Keys
  <2>2. Serves(b, a)  BY DEF CacheInv
  <2>3. StoredBy(Mine(r), k) =
          LET v == IF registry[a] = NoBlock THEN None ELSE slot[registry[a]][k]
          IN  IF v # None /\ freed[v] = 0 THEN v ELSE None
    BY <2>1 DEF StoredBy, Mine
  <2>4. CASE registry[a] = b
    <3>1. b \in Blocks /\ b # NoBlock  BY <2>2, <2>4 DEF Serves, TypeOK
    <3>2. ASSUME slot[b][k] # None PROVE freed[slot[b][k]] = 0
      <4>1. slot[b][k] \in Values  BY <2>1, <3>1, <3>2 DEF TypeOK
      <4>2. ASSUME NEW q \in Reactors, Dropping(q), self[q] = b, index[q] = k
            PROVE  FALSE
        <5>1. at[q] \in Addrs /\ registry[at[q]] = b /\ place[at[q]] = q
          BY <3>1, <4>2 DEF CodeInv
        <5>2. at[q] = a
          BY <2>1, <2>4, <3>1, <5>1 DEF RegistryMatches, ThreadInv
        <5>3. q = r  BY <5>1, <5>2 DEF CodeInv
        <5> QED  BY <3>1, <4>2, <5>3
      <4> QED  BY <2>1, <3>1, <3>2, <4>1, <4>2 DEF ValueInv
    <3> QED  BY <2>3, <2>4, <3>1, <3>2
  <2>5. CASE registry[a] # b
    <3>1. Empty(b) /\ (registry[a] # NoBlock => Empty(registry[a]))
      BY <2>2, <2>5 DEF Serves
    <3> QED  BY <2>1, <2>3, <3>1 DEF Empty
  <2> QED  BY <2>4, <2>5
<1> QED  BY <1>1, SpecFull, PTL

-----------------------------------------------------------------------------
(* The storage implements ThreadLocal.                                     *)

\* Value v is what thread t keeps under key k.
Live(v, t, k) ==
  (\E b \in Blocks : slot[b][k] = v) /\ setBy[v] = t /\ freed[v] = 0

StoredLive ==
  \A t \in Threads, k \in Slots :
    /\ StoredBy(t, k) \in Values \cup {None}
    /\ \A v \in Values : StoredBy(t, k) = v <=> Live(v, t, k)

LEMMA StoredIsLive == Full => StoredLive
<1> SUFFICES ASSUME Full, NEW t \in Threads, NEW k \in Slots
             PROVE  /\ StoredBy(t, k) \in Values \cup {None}
                    /\ \A v \in Values : StoredBy(t, k) = v <=> Live(v, t, k)
  BY DEF StoredLive
<1> USE DEF Full, Safe
<1>0. t # NoThread  BY DEF Threads, NoThread
<1>1. ASSUME NEW v \in Values, Live(v, t, k)
      PROVE  \E a \in Addrs : /\ id[a] = t /\ AddrOf(t) = a
                              /\ registry[a] # NoBlock /\ slot[registry[a]][k] = v
  <2>1. PICK b \in Blocks : slot[b][k] = v /\ setBy[v] = t  BY <1>1 DEF Live
  <2>2. owner[b] = t /\ poller[b] # NoThread
    BY <2>1, RegistryAssumption DEF ValueInv, Empty
  <2>3. PICK a \in Addrs : registry[a] = b  BY <2>2 DEF RegistryMatches
  <2>4. id[a] = t /\ b # NoBlock
    BY <2>2, <2>3 DEF RegistryMatches, Blocks, NoBlock
  <2> QED  BY <1>0, <2>1, <2>3, <2>4, AddrOfId
<1>2. CASE \E a \in Addrs : id[a] = t
  <2>1. PICK a \in Addrs : id[a] = t /\ AddrOf(t) = a
    BY <1>0, <1>2, AddrOfId
  <2>2. StoredBy(t, k) =
          LET v == IF registry[a] = NoBlock THEN None ELSE slot[registry[a]][k]
          IN  IF v # None /\ freed[v] = 0 THEN v ELSE None
    BY <2>1 DEF StoredBy
  <2>3. registry[a] # NoBlock =>
          /\ registry[a] \in Blocks /\ owner[registry[a]] = t
          /\ slot[registry[a]][k] \in Values \cup {None}
    BY <2>1 DEF RegistryMatches, TypeOK
  <2>4. StoredBy(t, k) \in Values \cup {None}  BY <2>2, <2>3
  <2>5. ASSUME NEW v \in Values, StoredBy(t, k) = v PROVE Live(v, t, k)
    <3>1. v # None  BY RegistryAssumption
    <3>2. registry[a] # NoBlock /\ slot[registry[a]][k] = v /\ freed[v] = 0
      BY <2>2, <2>5, <3>1
    <3> QED  BY <2>3, <3>1, <3>2 DEF Live, ValueInv
  <2>6. ASSUME NEW v \in Values, Live(v, t, k) PROVE StoredBy(t, k) = v
    <3>1. registry[a] # NoBlock /\ slot[registry[a]][k] = v
      BY <1>1, <2>1, <2>6
    <3> QED  BY <2>2, <2>6, <3>1, RegistryAssumption DEF Live
  <2> QED  BY <2>4, <2>5, <2>6
<1>3. CASE ~ \E a \in Addrs : id[a] = t
  <2>1. StoredBy(t, k) = None  BY <1>3 DEF StoredBy
  <2> QED  BY <1>1, <1>3, <2>1, RegistryAssumption
<1> QED  BY <1>2, <1>3

LEMMA StoredIsLiveNext == Full' => StoredLive'
BY StoredIsLive, PTL

\* A step after which the same values are live changes nothing that the
\* abstract storage knows of.
LEMMA SameLive ==
  ASSUME Full, Full',
         \A v \in Values, t \in Threads, k \in Slots : Live(v, t, k)' <=> Live(v, t, k)
  PROVE  \A t \in Threads, k \in Slots : StoredBy(t, k)' = StoredBy(t, k)
<1> SUFFICES ASSUME NEW t \in Threads, NEW k \in Slots
             PROVE  StoredBy(t, k)' = StoredBy(t, k)
  OBVIOUS
<1>1. /\ StoredBy(t, k) \in Values \cup {None}
      /\ \A v \in Values : StoredBy(t, k) = v <=> Live(v, t, k)
  BY StoredIsLive DEF StoredLive
<1>2. /\ StoredBy(t, k)' \in Values \cup {None}
      /\ \A v \in Values : StoredBy(t, k)' = v <=> Live(v, t, k)'
  BY StoredIsLiveNext DEF StoredLive
<1> QED  BY <1>1, <1>2

Dropped == {v \in Values : freed[v] > 0}

\* A step after which new is what thread t keeps under key k.
LEMMA PutLive ==
  ASSUME Full, Full', UNCHANGED exiting,
         NEW t \in Threads, NEW k \in Slots, NEW new \in Values \cup {None},
         \A v \in Values, u \in Threads, l \in Slots :
           Live(v, u, l)' <=> IF u = t /\ l = k THEN v = new ELSE Live(v, u, l),
         Dropped' = Dropped \cup ({StoredBy(t, k)} \ {None})
  PROVE  Promise!Put(t, k, new)
<1>1. ASSUME NEW u \in Threads, NEW l \in Slots
      PROVE  StoredBy(u, l)' = IF u = t /\ l = k THEN new ELSE StoredBy(u, l)
  <2>1. /\ StoredBy(u, l) \in Values \cup {None}
        /\ \A v \in Values : StoredBy(u, l) = v <=> Live(v, u, l)
    BY StoredIsLive DEF StoredLive
  <2>2. /\ StoredBy(u, l)' \in Values \cup {None}
        /\ \A v \in Values : StoredBy(u, l)' = v <=> Live(v, u, l)'
    BY StoredIsLiveNext DEF StoredLive
  <2> QED  BY <2>1, <2>2, RegistryAssumption
<1> DEFINE val == [u \in Threads |-> [l \in Slots |-> StoredBy(u, l)]]
<1>2. val' = [val EXCEPT ![t][k] = new]  BY <1>1
<1>3. val[t][k] = StoredBy(t, k)  OBVIOUS
<1> QED  BY <1>2, <1>3 DEF Promise!Put, Dropped

LEMMA StepPromise ==
  ASSUME LateSets = FALSE, Full, Full', [Next]_vars
  PROVE  [Promise!Next]_(Promise!vars)
<1> USE DEF Full, Safe
<1>1. ASSUME \A v \in Values, t \in Threads, k \in Slots :
               Live(v, t, k)' <=> Live(v, t, k),
             UNCHANGED freed
      PROVE  /\ UNCHANGED <<[t \in Threads |-> [k \in Slots |-> StoredBy(t, k)]],
                            {v \in Values : freed[v] > 0}>>
             /\ UNCHANGED exiting => UNCHANGED Promise!vars
  <2>1. \A t \in Threads, k \in Slots : StoredBy(t, k)' = StoredBy(t, k)
    BY <1>1, SameLive DEF Full
  <2> QED  BY <1>1, <2>1 DEF Promise!vars
<1>2. ASSUME UNCHANGED valueVars
      PROVE  \A v \in Values, t \in Threads, k \in Slots : Live(v, t, k)' <=> Live(v, t, k)
  BY <1>2 DEF valueVars, Live
<1>3. ASSUME NEW a \in Addrs, RequestExit(a) PROVE Promise!Next
  <2>1. /\ id[a] \in Threads /\ exiting' = exiting \cup {id[a]}
        /\ UNCHANGED valueVars
    BY <1>3 DEF RequestExit, ThreadInv, TypeOK
  <2>2. Promise!Exit(id[a])
    BY <1>1, <1>2, <2>1 DEF Promise!Exit, valueVars
  <2> QED  BY <2>1, <2>2 DEF Promise!Next
<1>4. ASSUME UNCHANGED <<valueVars, exiting>> PROVE UNCHANGED Promise!vars
  BY <1>1, <1>2, <1>4 DEF valueVars
<1>5. ASSUME NEW q \in Reactors, NEW k \in Keys, ClearKey(q, k) \/ Set(q, k)
      PROVE  Promise!Next
  <2>1. /\ pc[q] = "use" /\ MayStore(q) /\ k \in Slots
        /\ UNCHANGED <<owner, exiting>>
    BY <1>5 DEF ClearKey, Set, Return, Keys, blockVars, threadVars
  <2>2. PICK b \in Blocks, t \in Threads, old \in Values \cup {None} :
          /\ b = cur[q] /\ t = Mine(q) /\ old = slot[b][k]
          /\ at[q] \in Addrs /\ life[at[q]] = "running"
          /\ registry[at[q]] = b /\ b # NoBlock
          /\ owner[b] = t /\ t # NoThread
          /\ old # None => freed[old] = 0
    <3> HIDE DEF Full, Safe
    <3>1. /\ cur[q] \in Blocks /\ Mine(q) \in Threads
          /\ at[q] \in Addrs /\ life[at[q]] = "running"
          /\ registry[at[q]] = cur[q] /\ cur[q] # NoBlock
          /\ owner[cur[q]] = Mine(q) /\ Mine(q) # NoThread
          /\ slot[cur[q]][k] # None =>
               slot[cur[q]][k] \in Values /\ freed[slot[cur[q]][k]] = 0
      BY <2>1, StoreFinds
    <3> QED  BY <3>1
  <2>3. freed' = IF old = None THEN freed ELSE [freed EXCEPT ![old] = @ + 1]
    BY <1>5, <2>2 DEF ClearKey, Set, DropOld
  <2>4. PICK new \in Values \cup {None} :
          /\ \A c \in Blocks, i \in Slots :
               slot'[c][i] = IF c = b /\ i = k THEN new ELSE slot[c][i]
          /\ \/ new = None /\ UNCHANGED setBy
             \/ /\ new \in Values /\ setBy[new] = NoThread
                /\ setBy' = [setBy EXCEPT ![new] = t]
    <3>1. CASE ClearKey(q, k)
      BY <2>1, <2>2, <3>1 DEF ClearKey, TypeOK
    <3>2. CASE Set(q, k)
      <4>1. PICK v \in Values :
              /\ setBy[v] = NoThread
              /\ slot' = [slot EXCEPT ![cur[q]][k] = v]
              /\ setBy' = [setBy EXCEPT ![v] = t]
        BY <2>2, <3>2 DEF Set
      <4> QED  BY <2>1, <2>2, <4>1 DEF TypeOK
    <3> QED  BY <1>5, <3>1, <3>2
  <2>5. \A v \in Values : freed'[v] = IF v = old THEN 1 ELSE freed[v]
    BY <2>2, <2>3, RegistryAssumption DEF TypeOK
  <2>6. \A v \in Values : setBy'[v] = IF v = new THEN t ELSE setBy[v]
    BY <2>2, <2>4, RegistryAssumption DEF TypeOK
  <2>7. \A v \in Values : v = new => freed[v] = 0 /\ v # old
                            /\ \A c \in Blocks, i \in Slots : slot[c][i] # v
    <3>1. \A c \in Blocks, i \in Slots : slot[c][i] # None => setBy[slot[c][i]] # NoThread
      BY DEF ValueInv
    <3> QED  BY <2>1, <2>2, <2>4, <3>1, RegistryAssumption DEF ValueInv
  <2>8. StoredBy(t, k) = old
    <3>1. t = id[at[q]] /\ AddrOf(t) = at[q]
      BY <2>2, AddrOfId DEF Mine
    <3> QED  BY <2>2, <3>1 DEF StoredBy
  <2>9. ASSUME NEW v \in Values, NEW u \in Threads, NEW l \in Slots
        PROVE  Live(v, u, l)' <=> IF u = t /\ l = k THEN v = new ELSE Live(v, u, l)
    <3>1. CASE v = new
      <4>1. \A c \in Blocks, i \in Slots : slot'[c][i] = v <=> c = b /\ i = k
        BY <2>1, <2>2, <2>4, <2>7, <3>1
      <4>2. setBy'[v] = t /\ freed'[v] = 0  BY <2>5, <2>6, <2>7, <3>1
      <4>3. ~Live(v, u, l)  BY <2>7, <3>1 DEF Live
      <4> QED  BY <2>2, <3>1, <4>1, <4>2, <4>3 DEF Live
    <3>2. CASE v = old
      <4>1. ~Live(v, u, l)'  BY <2>5, <3>2 DEF Live
      <4>2. v # new  BY <2>7, <3>2
      <4>3. Live(v, u, l) => u = t /\ l = k
        <5>1. slot[b][k] = v /\ v # None  BY <2>2, <3>2, RegistryAssumption
        <5>2. setBy[v] = t  BY <2>1, <2>2, <5>1 DEF ValueInv
        <5>3. \A c \in Blocks, j \in Slots : slot[c][j] = v => c = b /\ j = k
          BY <2>1, <2>2, <5>1 DEF ValueInv
        <5> QED  BY <5>2, <5>3 DEF Live
      <4> QED  BY <4>1, <4>2, <4>3
    <3>3. CASE v # new /\ v # old
      <4>1. Live(v, u, l)' <=> Live(v, u, l)
        <5>1. \A c \in Blocks : slot'[c][l] = v <=> slot[c][l] = v
          BY <2>2, <2>4, <3>3
        <5> QED  BY <2>5, <2>6, <3>3, <5>1 DEF Live
      <4>2. u = t /\ l = k => ~Live(v, u, l)
        <5>1. StoredBy(t, k) = v <=> Live(v, t, k)
          BY <2>1, <2>2, StoredIsLive DEF StoredLive
        <5> QED  BY <2>8, <3>3, <5>1
      <4> QED  BY <3>3, <4>1, <4>2
    <3> QED  BY <3>1, <3>2, <3>3
  <2>10. Dropped' = Dropped \cup ({StoredBy(t, k)} \ {None})
    <3>1. \A v \in Values : freed'[v] > 0 <=> freed[v] > 0 \/ v = old
      BY <2>5
    <3> QED  BY <2>2, <2>8, <3>1, RegistryAssumption DEF Dropped
  <2>11. Promise!Put(t, k, new)
    <3> HIDE DEF Full
    <3> QED  BY <2>1, <2>9, <2>10, PutLive
  <2>12. CASE new = None
    BY <2>1, <2>2, <2>11, <2>12 DEF Promise!Next, Promise!Clear
  <2>13. CASE new \in Values
    <3>1. t \notin exiting  BY <2>2 DEF ThreadInv, Mine
    <3>2. new \notin Dropped  BY <2>7, <2>13 DEF Dropped
    <3>3. \A u \in Threads, l \in Slots : StoredBy(u, l) # new
      BY <2>7, <2>13, StoredIsLive DEF StoredLive, Live
    <3>4. Promise!Set(t, k, new)
      BY <2>11, <3>2, <3>3 DEF Promise!Set, Dropped
    <3> QED  BY <2>1, <2>2, <2>13, <3>1, <3>4 DEF Promise!Next
  <2> QED  BY <2>4, <2>12, <2>13
<1>6. ASSUME NEW r \in Reactors, Cleared(r) PROVE UNCHANGED Promise!vars
  <2> DEFINE v == slot[self[r]][index[r]]
  <2>1. /\ self[r] \in Blocks /\ index[r] \in Slots /\ self[r] # NoBlock
        /\ pc[r] = "cleared" /\ UNCHANGED <<freed, setBy, exiting>>
    BY <1>6, Where DEF Cleared, threadVars, Blocks, NoBlock
  <2>2. v \in Values /\ freed[v] = 1  BY <2>1 DEF ClearInv, Dropping
  <2>3. \A c \in Blocks, j \in Slots :
          slot'[c][j] = IF c = self[r] /\ j = index[r] THEN None ELSE slot[c][j]
    BY <1>6, <2>1 DEF Cleared, TypeOK
  <2>4. ASSUME NEW w \in Values, NEW t \in Threads, NEW k \in Slots
        PROVE  Live(w, t, k)' <=> Live(w, t, k)
    <3>1. CASE w = v  BY <2>1, <2>2, <3>1 DEF Live
    <3>2. CASE w # v
      <4>1. \A c \in Blocks : slot'[c][k] = w <=> slot[c][k] = w
        BY <2>3, <3>2, RegistryAssumption
      <4> QED  BY <2>1, <4>1 DEF Live
    <3> QED  BY <3>1, <3>2
  <2> QED  BY <1>1, <2>1, <2>4
<1>7. ASSUME NEW r \in Reactors, Clear(r)
      PROVE  Promise!Next \/ UNCHANGED Promise!vars
  <2>1. CASE SkipSlot(r)
    BY <1>4, <1>7, <2>1 DEF Clear, SkipSlot, threadVars, valueVars
  <2>2. CASE DropSlot(r) \/ DropReads(r)
    <3> DEFINE b == self[r]
               i == index[r]
               v == slot[b][i]
               t == Mine(r)
    <3>1. /\ b \in Blocks /\ i \in Slots /\ b # NoBlock
          /\ pc[r] = "clear" /\ UNCHANGED <<slot, setBy, exiting>>
          /\ t \in Threads /\ at[r] \in Addrs /\ registry[at[r]] = b
      BY <1>7, Where DEF Clear, threadVars, Blocks, NoBlock, CodeInv
    <3>2. v # None /\ freed' = [freed EXCEPT ![v] = @ + 1]
      BY <2>2 DEF DropSlot, DropReads, DropOld
    <3>3. v \in Values /\ freed[v] = 0  BY <3>1, <3>2, ClearFresh
    <3>4. /\ setBy[v] = t
          /\ \A c \in Blocks, j \in Slots : slot[c][j] = v => c = b /\ j = i
      BY <3>1, <3>2 DEF ValueInv, RegistryMatches, Mine
    <3>5. StoredBy(t, i) = v
      <4>1. Live(v, t, i)  BY <3>1, <3>3, <3>4 DEF Live
      <4> QED  BY <3>1, <3>3, <4>1, StoredIsLive DEF StoredLive
    <3> HIDE DEF b, i, v, t
    <3>6. \A w \in Values : freed'[w] = IF w = v THEN 1 ELSE freed[w]
      BY <3>2, <3>3 DEF TypeOK
    <3>7. ASSUME NEW w \in Values, NEW u \in Threads, NEW l \in Slots
          PROVE  Live(w, u, l)' <=> IF u = t /\ l = i THEN w = None ELSE Live(w, u, l)
      <4>1. Live(w, u, l)' <=> Live(w, u, l) /\ w # v
        BY <3>1, <3>6 DEF Live
      <4>2. w = v /\ Live(w, u, l) => u = t /\ l = i
        BY <3>4 DEF Live
      <4>3. u = t /\ l = i /\ Live(w, u, l) => w = v
        BY <3>1, <3>5, StoredIsLive DEF StoredLive
      <4> QED  BY <4>1, <4>2, <4>3, RegistryAssumption
    <3>8. Dropped' = Dropped \cup ({StoredBy(t, i)} \ {None})
      <4>1. \A w \in Values : freed'[w] > 0 <=> freed[w] > 0 \/ w = v
        BY <3>6
      <4> QED  BY <3>2, <3>3, <3>5, <4>1 DEF Dropped
    <3>9. Promise!Put(t, i, None)
      <4> HIDE DEF Full
      <4> QED  BY <3>1, <3>7, <3>8, PutLive
    <3> QED  BY <3>1, <3>9 DEF Promise!Next, Promise!Clear
  <2> QED  BY <1>7, <2>1, <2>2, ClearCases
<1>8. ASSUME NEW r \in Reactors, ReactorStep(r)
      PROVE  Promise!Next \/ UNCHANGED Promise!vars
  <2>1. ASSUME ReadRegistry(r) \/ WriteRegistry(r) \/ Get(r) \/ Remove(r)
        PROVE  UNCHANGED <<valueVars, exiting>>
    BY <2>1 DEF ReadRegistry, WriteRegistry, Get, Return, Remove, threadVars
  <2> QED  BY <1>4, <1>6, <1>7, <1>8, <2>1 DEF ReactorStep
<1>9. ASSUME \/ \E a \in Addrs : Create(a) \/ Destroy(a)
             \/ \E a \in Addrs, r \in Reactors :
                  Move(a, r) \/ PollExit(r, a) \/ Call(r, a)
             \/ Alloc \/ UNCHANGED vars
      PROVE  UNCHANGED <<valueVars, exiting>>
  BY <1>9
  DEF Create, Destroy, Move, PollExit, Shutdown, Call, Alloc, vars, threadVars,
      valueVars
<1> QED  BY <1>3, <1>4, <1>5, <1>8, <1>9 DEF Next

\* The storage keeps the promise of ThreadLocal: what a thread has stored stays
\* until that thread replaces or clears it or exits (lib.rs:1762-1766).
THEOREM StorageKeepsPromise ==
  ASSUME LateSets = FALSE
  PROVE  Spec => Implements
<1>1. ASSUME Init PROVE Promise!Init
  <2>1. \A t \in Threads, k \in Slots : StoredBy(t, k) = None
    BY <1>1 DEF Init, StoredBy, Threads, NoThread
  <2>2. {v \in Values : freed[v] > 0} = {}  BY <1>1 DEF Init
  <2> QED  BY <1>1, <2>1, <2>2 DEF Promise!Init, Init
<1>2. Full /\ Full' /\ [Next]_vars => [Promise!Next]_(Promise!vars)
  BY StepPromise
<1> QED
  BY <1>1, <1>2, SpecFull, PTL DEF Spec, Implements, Promise!Spec

=============================================================================
