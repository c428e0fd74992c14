---------------------------- MODULE TcbRegistry -----------------------------
(***************************************************************************)
(* How the code of an SPDK thread finds its thread control block, and the  *)
(* thread-local storage it keeps there (ironspdk/src/lib.rs:1756-2085):    *)
(* Tcb::current with its cache in each reactor, TCB_REGISTRY, Tcb::new,    *)
(* Tcb::shutdown, TlsKey and Tls.                                          *)
(*                                                                         *)
(* SPDK moves its threads between the reactors, which are threads of the   *)
(* system. A thread that has exited is freed, and a later one may have its *)
(* address, by which the registry knows it; ids are never used again. The  *)
(* blocks are never freed.                                                 *)
(*                                                                         *)
(* An action is what a reactor does between two points where the others    *)
(* can see it: the registry is read and written under its lock.            *)
(***************************************************************************)
EXTENDS FiniteSets, Naturals

CONSTANTS
  Reactors,     \* one of the system's threads for each core
  Main,         \* the reactor of the main core
  Addrs,        \* where a struct spdk_thread may be
  MaxThreads,   \* bound: threads created
  MaxBlocks,    \* bound: blocks created
  TLS_SLOTS,    \* slots of a block
  MaxValues,    \* bound: values stored, each value once
  None,         \* nothing: no value, reactor or address
  LateSets      \* may a thread that exits still set and clear values?

NoThread == 0
NoBlock  == 0
Threads  == 1..MaxThreads
Blocks   == 1..MaxBlocks
Values   == 1..MaxValues
Slots    == 0..(TLS_SLOTS - 1)   \* a TlsKey is the number of its slot

ASSUME RegistryAssumption ==
  /\ MaxThreads \in Nat /\ MaxBlocks \in Nat /\ MaxValues \in Nat
  /\ TLS_SLOTS \in Nat \ {0}
  /\ Main \in Reactors
  /\ None \notin Values /\ None \notin Addrs
  /\ LateSets \in BOOLEAN

VARIABLES
  id,         \* id[a]: the thread whose structure is at address a
  life,       \* running, exiting, or none
  place,      \* the reactor that polls it
  registry,   \* TCB_REGISTRY
  cacheId,    \* CACHED_THREAD_ID of each reactor
  cacheTcb,   \* CACHED_TCB of each reactor
  owner,      \* the thread a block was made for
  poller,     \* the thread with the block's poller, while it is registered
  slot,       \* Tls.slots of each block
  next,       \* NEXT of TlsKey::alloc: the keys below it exist
  pc,         \* what each reactor is at
  at,         \* the address of the thread whose code it runs
  cur,        \* what Tcb::current has found
  self,       \* the block being shut down
  index,      \* the slot that clear_all has come to
  setBy,      \* the thread that stored each value
  freed,      \* how many times each value was dropped
  exiting,    \* threads that were asked to exit
  panic       \* has an assertion failed?

threadVars == <<id, life, place, exiting>>
cacheVars  == <<cacheId, cacheTcb>>
blockVars  == <<registry, owner, poller>>
valueVars  == <<slot, setBy, freed>>
callVars   == <<pc, at, cur, self, index>>
vars == <<threadVars, cacheVars, blockVars, next, valueVars, callVars, panic>>

Steps == {"idle", "read", "write", "use", "clear", "cleared", "remove"}

TypeOK ==
  /\ id \in [Addrs -> Threads \cup {NoThread}]
  /\ life \in [Addrs -> {"none", "running", "exiting"}]
  /\ place \in [Addrs -> Reactors \cup {None}]
  /\ registry \in [Addrs -> Blocks \cup {NoBlock}]
  /\ cacheId \in [Reactors -> Threads \cup {NoThread}]
  /\ cacheTcb \in [Reactors -> Blocks \cup {NoBlock}]
  /\ owner \in [Blocks -> Threads \cup {NoThread}]
  /\ poller \in [Blocks -> Threads \cup {NoThread}]
  /\ slot \in [Blocks -> [Slots -> Values \cup {None}]]
  /\ next \in 0..TLS_SLOTS
  /\ pc \in [Reactors -> Steps]
  /\ at \in [Reactors -> Addrs \cup {None}]
  /\ cur \in [Reactors -> Blocks \cup {NoBlock}]
  /\ self \in [Reactors -> Blocks \cup {NoBlock}]
  /\ index \in [Reactors -> 0..TLS_SLOTS]
  /\ setBy \in [Values -> Threads \cup {NoThread}]
  /\ freed \in [Values -> Nat]
  /\ exiting \in SUBSET Threads
  /\ panic \in BOOLEAN

Init ==
  /\ id = [a \in Addrs |-> NoThread]
  /\ life = [a \in Addrs |-> "none"]
  /\ place = [a \in Addrs |-> None]
  /\ registry = [a \in Addrs |-> NoBlock]
  /\ cacheId = [r \in Reactors |-> NoThread]
  /\ cacheTcb = [r \in Reactors |-> NoBlock]
  /\ owner = [b \in Blocks |-> NoThread]
  /\ poller = [b \in Blocks |-> NoThread]
  /\ slot = [b \in Blocks |-> [i \in Slots |-> None]]
  /\ next = 0
  /\ pc = [r \in Reactors |-> "idle"]
  /\ at = [r \in Reactors |-> None]
  /\ cur = [r \in Reactors |-> NoBlock]
  /\ self = [r \in Reactors |-> NoBlock]
  /\ index = [r \in Reactors |-> 0]
  /\ setBy = [v \in Values |-> NoThread]
  /\ freed = [v \in Values |-> 0]
  /\ exiting = {}
  /\ panic = FALSE

-----------------------------------------------------------------------------
(* SPDK's threads.                                                         *)

Inside(a) == \E r \in Reactors : at[r] = a     \* some reactor runs its code
Idle(r)   == pc[r] = "idle" /\ ~panic
Mine(r)   == id[at[r]]                          \* spdk_get_thread's id
Born      == exiting \cup ({id[a] : a \in Addrs} \ {NoThread})

\* spdk_thread_create: the id is new, the address need not be. Before it runs
\* any code of the thread, SPDK may move it to a core of its CpuSet. (Which of
\* the addresses the first thread gets makes no difference.)
Create(a) ==
  /\ life[a] = "none" /\ Cardinality(Born) < MaxThreads
  /\ Born = {} => a = CHOOSE first \in Addrs : TRUE
  /\ id' = [id EXCEPT ![a] = Cardinality(Born) + 1]
  /\ life' = [life EXCEPT ![a] = "running"]
  /\ place' = [place EXCEPT ![a] = Main]
  /\ UNCHANGED <<exiting, cacheVars, blockVars, next, valueVars, callVars,
                 panic>>

\* SPDK's scheduler gives the thread to another reactor.
Move(a, r) ==
  /\ life[a] # "none" /\ place[a] # r /\ ~Inside(a)
  /\ place' = [place EXCEPT ![a] = r]
  /\ UNCHANGED <<id, life, exiting, cacheVars, blockVars, next, valueVars,
                 callVars, panic>>

\* SpdkThread::request_exit: a message makes the thread call
\* spdk_thread_exit. From then on spdk_thread_is_running says no.
RequestExit(a) ==
  /\ life[a] = "running" /\ ~Inside(a)
  /\ life' = [life EXCEPT ![a] = "exiting"]
  /\ exiting' = exiting \cup {id[a]}
  /\ UNCHANGED <<id, place, cacheVars, blockVars, next, valueVars, callVars, panic>>

\* SPDK frees an exiting thread that has no poller left.
Destroy(a) ==
  /\ life[a] = "exiting" /\ ~Inside(a)
  /\ \A b \in Blocks : poller[b] # id[a]
  /\ id' = [id EXCEPT ![a] = NoThread]
  /\ life' = [life EXCEPT ![a] = "none"]
  /\ place' = [place EXCEPT ![a] = None]
  /\ UNCHANGED <<exiting, cacheVars, blockVars, next, valueVars, callVars, panic>>

-----------------------------------------------------------------------------
(* Tcb::current.                                                           *)

\* Mutant: any block in the cache will do.
Cached_Any(r, t) == cacheId[r] # NoThread

\* CACHED_THREAD_ID tells whether the cached block is that of thread t.
Cached(r, t) == cacheId[r] = t

Made    == {b \in Blocks : owner[b] # NoThread}
Looking == {r \in Reactors : pc[r] \in {"read", "write"}}

\* The thread at a is polled by reactor r and asks for its block.
Current(r, a) ==
  /\ at' = [at EXCEPT ![r] = a]
  /\ \/ /\ Cached(r, id[a])
        /\ pc' = [pc EXCEPT ![r] = "use"]
        /\ cur' = [cur EXCEPT ![r] = cacheTcb[r]]
     \/ /\ ~Cached(r, id[a])
        /\ pc' = [pc EXCEPT ![r] = "read"]
        /\ UNCHANGED cur

\* current_slow gets a block b and caches it.
Cache(r, b) ==
  /\ cur' = [cur EXCEPT ![r] = b]
  /\ cacheId' = [cacheId EXCEPT ![r] = Mine(r)]
  /\ cacheTcb' = [cacheTcb EXCEPT ![r] = b]
  /\ pc' = [pc EXCEPT ![r] = "use"]

\* tcb_ptr_from_registry, under the read lock ...
ReadRegistry(r) ==
  /\ pc[r] = "read"
  /\ IF registry[at[r]] # NoBlock
     THEN Cache(r, registry[at[r]])
     ELSE /\ pc' = [pc EXCEPT ![r] = "write"]
          /\ UNCHANGED <<cacheVars, cur>>
  /\ UNCHANGED <<threadVars, blockVars, next, valueVars, at, self,
                 index, panic>>

\* ... and under the write lock, with Tcb::new if there is still no entry.
WriteRegistry(r) ==
  /\ pc[r] = "write"
  /\ IF registry[at[r]] # NoBlock
     THEN /\ Cache(r, registry[at[r]])
          /\ UNCHANGED blockVars
     ELSE LET b == Cardinality(Made) + 1
          IN  /\ b \in Blocks
              /\ owner' = [owner EXCEPT ![b] = Mine(r)]
              /\ poller' = [poller EXCEPT ![b] = Mine(r)]
              /\ registry' = [registry EXCEPT ![at[r]] = b]
              /\ Cache(r, b)
  /\ UNCHANGED <<threadVars, next, valueVars, at, self, index, panic>>

-----------------------------------------------------------------------------
(* TlsKey and Tls.                                                         *)

\* Mutant: the assertion lets one key too many pass.
Alloc_OneMore ==
  /\ next <= TLS_SLOTS /\ next' = next + 1
  /\ UNCHANGED <<threadVars, cacheVars, blockVars, valueVars, callVars, panic>>

\* TlsKey::alloc counts from 0; past the last slot the program panics, which
\* is not modelled. Nor is a key of TlsKey::new for a slot alloc also returns.
Alloc ==
  /\ next < TLS_SLOTS /\ next' = next + 1
  /\ UNCHANGED <<threadVars, cacheVars, blockVars, valueVars, callVars, panic>>

Keys == {k \in Slots : k < next}

\* The code of a thread calls an operation of a key. The bound: there is a
\* block left for every reactor that may need a new one.
Call(r, a) ==
  /\ Idle(r) /\ life[a] # "none" /\ place[a] = r /\ Keys # {}
  /\ Cached(r, id[a]) \/ Cardinality(Made) + Cardinality(Looking) < MaxBlocks
  /\ Current(r, a)
  /\ UNCHANGED <<threadVars, cacheVars, blockVars, next, valueVars, self,
                 index, panic>>

\* drop_fn on the value of a slot, if there is one.
DropOld(old) ==
  freed' = IF old = None THEN freed ELSE [freed EXCEPT ![old] = @ + 1]

\* The block is found, and the call returns; or, within clear_all, the drop
\* code of a value goes on.
Return(r) ==
  /\ pc[r] = "use"
  /\ pc' = [pc EXCEPT ![r] = IF self[r] = NoBlock THEN "idle" ELSE "cleared"]
  /\ at' = [at EXCEPT ![r] = IF self[r] = NoBlock THEN None ELSE @]
  /\ cur' = [cur EXCEPT ![r] = NoBlock]
  /\ UNCHANGED <<threadVars, cacheVars, blockVars, next, self, index, panic>>

\* Tls::get: the answer is the slot of the block that was found.
Get(r) == Return(r) /\ UNCHANGED valueVars

MayStore(r) == self[r] = NoBlock /\ (life[at[r]] = "running" \/ LateSets)

\* Mutant: the slot keeps the value it has dropped.
ClearKey_KeepSlot(r, k) ==
  /\ Return(r) /\ MayStore(r)
  /\ DropOld(slot[cur[r]][k])
  /\ UNCHANGED <<slot, setBy>>

\* Tls::clear_slot by TlsKey::clear.
ClearKey(r, k) ==
  /\ Return(r) /\ MayStore(r)
  /\ DropOld(slot[cur[r]][k])
  /\ slot' = [slot EXCEPT ![cur[r]][k] = None]
  /\ UNCHANGED setBy

\* Tls::set: clear_slot, and then the next value is stored.
Set(r, k) ==
  /\ Return(r) /\ MayStore(r)
  /\ DropOld(slot[cur[r]][k])
  /\ \E v \in Values :
       /\ setBy[v] = NoThread /\ \A w \in 1..(v - 1) : setBy[w] # NoThread
       /\ slot' = [slot EXCEPT ![cur[r]][k] = v]
       /\ setBy' = [setBy EXCEPT ![v] = Mine(r)]

-----------------------------------------------------------------------------
(* Tcb::shutdown.                                                          *)

Shutdown(r, a) ==
  /\ \E b \in Blocks :
       /\ poller[b] = id[a]
       /\ self' = [self EXCEPT ![r] = b]
  /\ at' = [at EXCEPT ![r] = a]
  /\ index' = [index EXCEPT ![r] = 0]
  /\ pc' = [pc EXCEPT ![r] = "clear"]
  /\ UNCHANGED <<threadVars, cacheVars, blockVars, next, valueVars, cur, panic>>

\* Mutant: the block is shut down while its thread goes on.
PollExit_Running(r, a) == Idle(r) /\ place[a] = r /\ Shutdown(r, a)

\* Mutant: only a reactor that has the block in its cache shuts it down.
PollExit_IfCached(r, a) ==
  /\ Idle(r) /\ place[a] = r /\ life[a] = "exiting"
  /\ cacheId[r] = id[a] /\ Shutdown(r, a)

\* The poller of a block finds that its thread no longer runs.
PollExit(r, a) ==
  Idle(r) /\ place[a] = r /\ life[a] = "exiting" /\ Shutdown(r, a)

AfterSlot(i) == IF i + 1 = TLS_SLOTS THEN "remove" ELSE "clear"

\* clear_all, one slot: the value is dropped. Its drop code may read another
\* key of its thread; that it neither stores nor reads its own key is assumed.
Clear(r) ==
  LET b == self[r]
      i == index[r]
  IN
  /\ pc[r] = "clear"
  /\ DropOld(slot[b][i])
  /\ \/ /\ slot[b][i] = None
        /\ index' = [index EXCEPT ![r] = i + 1]
        /\ pc' = [pc EXCEPT ![r] = AfterSlot(i)]
        /\ UNCHANGED <<at, cur>>
     \/ /\ slot[b][i] # None
        /\ pc' = [pc EXCEPT ![r] = "cleared"]
        /\ UNCHANGED <<at, cur, index>>
     \/ /\ slot[b][i] # None
        /\ Keys # {i}
        /\ Current(r, at[r])
        /\ UNCHANGED index
  /\ UNCHANGED <<threadVars, cacheVars, blockVars, next, slot, setBy, self,
                 panic>>

\* ... and then the slot is emptied.
Cleared(r) ==
  /\ pc[r] = "cleared"
  /\ slot' = [slot EXCEPT ![self[r]][index[r]] = None]
  /\ index' = [index EXCEPT ![r] = @ + 1]
  /\ pc' = [pc EXCEPT ![r] = AfterSlot(index[r])]
  /\ UNCHANGED <<threadVars, cacheVars, blockVars, next, setBy, freed, at,
                 cur, self, panic>>

\* Mutant: the entry of the registry stays.
Remove_KeepEntry(r) ==
  /\ pc[r] = "remove"
  /\ poller' = [poller EXCEPT ![self[r]] = NoThread]
  /\ pc' = [pc EXCEPT ![r] = "idle"]
  /\ at' = [at EXCEPT ![r] = None]
  /\ self' = [self EXCEPT ![r] = NoBlock]
  /\ index' = [index EXCEPT ![r] = 0]
  /\ UNCHANGED <<threadVars, cacheVars, registry, owner, next, valueVars, cur,
                 panic>>

\* The poller goes, and the entry of the registry, which must be there.
Remove(r) ==
  /\ pc[r] = "remove"
  /\ poller' = [poller EXCEPT ![self[r]] = NoThread]
  /\ registry' = [registry EXCEPT ![at[r]] = NoBlock]
  /\ panic' = (panic \/ registry[at[r]] = NoBlock)
  /\ pc' = [pc EXCEPT ![r] = "idle"]
  /\ at' = [at EXCEPT ![r] = None]
  /\ self' = [self EXCEPT ![r] = NoBlock]
  /\ index' = [index EXCEPT ![r] = 0]
  /\ UNCHANGED <<threadVars, cacheVars, owner, next, valueVars, cur>>

-----------------------------------------------------------------------------
ReactorStep(r) ==
  \/ ReadRegistry(r) \/ WriteRegistry(r) \/ Get(r)
  \/ Clear(r) \/ Cleared(r) \/ Remove(r)

Next ==
  \/ \E a \in Addrs : Create(a) \/ RequestExit(a) \/ Destroy(a)
  \/ \E a \in Addrs, r \in Reactors : Move(a, r) \/ PollExit(r, a)
  \/ \E a \in Addrs, r \in Reactors : Call(r, a)
  \/ Alloc
  \/ \E r \in Reactors, k \in Keys : ClearKey(r, k) \/ Set(r, k)
  \/ \E r \in Reactors : ReactorStep(r)

\* SPDK polls an exiting thread: its poller runs, or it is freed.
Poll(a) == Destroy(a) \/ \E r \in Reactors : PollExit(r, a)

\* A reactor goes on with what it runs, and polls each of its threads again
\* and again: strong fairness, for Call and Move interrupt it.
Fairness ==
  /\ \A r \in Reactors : WF_vars(ReactorStep(r))
  /\ \A a \in Addrs : SF_vars(Poll(a))

Spec     == Init /\ [][Next]_vars
FairSpec == Spec /\ Fairness

-----------------------------------------------------------------------------
(* Properties.                                                             *)

\* An entry of the registry is the block, with its poller, of the thread that
\* is at that address now, and a block with a poller has its entry: so
\* shutdown finds what it removes, and no thread inherits the entry of one
\* that is gone (lib.rs:1996-2033, 2067-2085).
RegistryMatches ==
  /\ \A a \in Addrs : registry[a] # NoBlock =>
       /\ life[a] # "none"
       /\ owner[registry[a]] = id[a] /\ poller[registry[a]] = id[a]
  /\ \A b \in Blocks : poller[b] # NoThread => \E a \in Addrs : registry[a] = b
  /\ \A r \in Reactors : pc[r] = "remove" => registry[at[r]] = self[r]

\* A value is dropped once at most, and a thread that is gone has left none
\* of its values behind (clear_slot and clear_all, lib.rs:1922-1942, 2072).
DroppedOnce ==
  \A v \in Values :
    /\ freed[v] <= 1
    /\ setBy[v] \notin {NoThread} \cup {id[a] : a \in Addrs} => freed[v] = 1

\* A thread that is asked to exit goes: its block's poller shuts the block
\* down and unregisters itself (lib.rs:2041-2045, 2076-2078).
ExitEnds == \A a \in Addrs : life[a] = "exiting" ~> life[a] = "none"

\* The value of key k that thread t has stored. One that was dropped, or is
\* being dropped, no longer is.
AddrOf(t) == CHOOSE a \in Addrs : id[a] = t
StoredBy(t, k) ==
  LET b == IF \E a \in Addrs : id[a] = t THEN registry[AddrOf(t)] ELSE NoBlock
      v == IF b = NoBlock THEN None ELSE slot[b][k]
  IN  IF v # None /\ freed[v] = 0 THEN v ELSE None

\* What a thread reads is what it has stored itself, and nothing once it has
\* dropped it, on whichever reactor it asks and whoever ran there before: the
\* cache is keyed by ids, which are not used again, and the registry by
\* addresses, which are (Tcb::current, lib.rs:1972-2019, and TlsKey::get).
ReadsStored ==
  \A r \in Reactors, k \in Keys :
    pc[r] = "use" /\ (self[r] # NoBlock => k # index[r]) =>
      slot[cur[r]][k] = StoredBy(Mine(r), k)

\* The storage implements ThreadLocal: a value a thread has stored stays until
\* that thread replaces or clears it or has been asked to exit, whatever the
\* others do, and it is not dropped earlier (lib.rs:1762-1766).
Promise == INSTANCE ThreadLocal WITH
  val     <- [t \in Threads |-> [k \in Slots |-> StoredBy(t, k)]],
  Keys    <- Slots,
  dropped <- {v \in Values : freed[v] > 0}
Implements == Promise!Spec
=============================================================================
