----------------------------- MODULE DecoderPool -----------------------------
(***************************************************************************)
(* The decoders of a mount: src/pool.rs, and the parts of src/handle.rs    *)
(* and src/fs.rs that decide which thread may touch which pool.            *)
(*                                                                         *)
(* Every FUSE worker thread runs one request at a time.  A read borrows a  *)
(* decoder from the pool of its open file (checkout), decompresses, and    *)
(* gives the decoder back when the guard is dropped (give_back).  A        *)
(* release takes the file out of the handle table, and whoever drops the   *)
(* last reference to the file runs the pool's destructor.  A readlink      *)
(* uses a private pool that lives as long as the request.                  *)
(*                                                                         *)
(* A step is what a thread does between two accesses to shared state.  A   *)
(* mutex section that touches only the state it protects is one step; the  *)
(* one section that also touches the atomic counter, in give_back, is two, *)
(* and the lock is held between them (Locked).                             *)
(***************************************************************************)
EXTENDS Integers, FiniteSets

CONSTANTS
  Threads,      \* the FUSE worker threads
  Handles,      \* the file handles the counter of HandleTable gives out
  Decoders,     \* identities of decoders
  Methods,      \* compression methods that need a decoder
  MethodOf,     \* the method of the entry behind each pool
  Size,         \* the uncompressed size of every entry
  MaxRetained,  \* Config::max_retained_decoders
  PerHandleCap, \* Config::decoders_per_file
  MaxCores,     \* Config::max_cores
  NoPool, NoDecoder

(* An open file owns one pool, so the pool is named by the handle.  The    *)
(* pool that read_all builds for one request is named by its thread.       *)
Pools == Handles \cup Threads

ASSUME PoolAssumption ==
  /\ MaxRetained \in Nat /\ PerHandleCap \in Nat /\ MaxCores \in Nat
  /\ Size \in Nat \ {0}
  /\ MethodOf \in [Pools -> Methods]
  /\ IsFiniteSet(Threads) /\ IsFiniteSet(Methods)
  /\ NoPool \notin Pools /\ NoDecoder \notin Decoders
  /\ Handles \cap Threads = {}

VARIABLES
  retained,  \* DecoderBudget::retained
  cores,     \* DecoderBudget::cores, as the lengths of its lists
  idle,      \* EntryPool::idle of each pool
  pos, fin,  \* PositionedDecoder::pos and finished
  fresh,     \* handles HandleTable::next has not given out yet
  open,      \* the keys of HandleTable::map
  pc,        \* where each thread is
  pool,      \* the pool whose file a thread holds a reference to
  off, end,  \* the range of the read in progress
  hand,      \* the decoder a thread holds
  rewind,    \* checkout chose a decoder that has to start over
  dropping   \* decoders a destructor took from the idle list

budgetVars == <<retained, cores>>
tableVars  == <<fresh, open>>
decoderVars == <<pos, fin>>
requestVars == <<pool, off, end>>
vars == <<budgetVars, idle, decoderVars, tableVars, pc, requestVars,
          hand, rewind, dropping>>

PC == {"ready", "insert", "checkout", "release", "take", "reading",
       "giveback", "push", "recycle", "dropref", "drop", "droprecycle"}

(* Positions go one past the size: verify asks the stream for one byte     *)
(* more than the entry has.                                                *)
Positions == 0 .. Size + 1

TypeOK ==
  /\ retained \in 0 .. MaxRetained
  /\ cores \in [codecs: [Methods -> 0 .. MaxCores],
                buffers: 0 .. MaxCores, skips: 0 .. MaxCores]
  /\ idle \in [Pools -> SUBSET Decoders]
  /\ pos \in [Decoders -> Positions] /\ fin \in [Decoders -> BOOLEAN]
  /\ fresh \subseteq Handles /\ open \subseteq Handles
  /\ pc \in [Threads -> PC]
  /\ pool \in [Threads -> Pools \cup {NoPool}]
  /\ off \in [Threads -> 0 .. Size] /\ end \in [Threads -> 0 .. Size]
  /\ hand \in [Threads -> Decoders \cup {NoDecoder}]
  /\ rewind \in [Threads -> BOOLEAN]
  /\ dropping \in [Threads -> SUBSET Decoders]

Init ==
  /\ retained = 0
  /\ cores = [codecs |-> [m \in Methods |-> 0], buffers |-> 0, skips |-> 0]
  /\ idle = [f \in Pools |-> {}]
  /\ pos = [d \in Decoders |-> 0] /\ fin = [d \in Decoders |-> FALSE]
  /\ fresh = Handles /\ open = {}
  /\ pc = [t \in Threads |-> "ready"]
  /\ pool = [t \in Threads |-> NoPool]
  /\ off = [t \in Threads |-> 0] /\ end = [t \in Threads |-> 0]
  /\ hand = [t \in Threads |-> NoDecoder]
  /\ rewind = [t \in Threads |-> FALSE]
  /\ dropping = [t \in Threads |-> {}]

Goto(t, from, to) == pc[t] = from /\ pc' = [pc EXCEPT ![t] = to]

-----------------------------------------------------------------------------
(* The handle table.  The counter never gives a handle twice; which fresh  *)
(* handle it gives does not matter.                                        *)

OpenFetchAdd(t) ==
  /\ Goto(t, "ready", "insert")
  /\ \E fh \in fresh : /\ fresh' = fresh \ {fh}
                       /\ pool' = [pool EXCEPT ![t] = fh]
  /\ UNCHANGED <<budgetVars, idle, decoderVars, open, off, end, hand, rewind,
                 dropping>>

OpenInsert(t) ==
  /\ Goto(t, "insert", "ready")
  /\ open' = open \cup {pool[t]}
  /\ pool' = [pool EXCEPT ![t] = NoPool]
  /\ UNCHANGED <<budgetVars, idle, decoderVars, fresh, off, end, hand, rewind,
                 dropping>>

(* read clones the reference under the table's read lock, so the file      *)
(* lives until the read ends.  An empty range returns before the pool.     *)
ReadGet(t) ==
  /\ Goto(t, "ready", "checkout")
  /\ \E fh \in open, o \in 0 .. Size - 1 : \E e \in o + 1 .. Size :
       /\ pool' = [pool EXCEPT ![t] = fh]
       /\ off' = [off EXCEPT ![t] = o]
       /\ end' = [end EXCEPT ![t] = e]
  /\ UNCHANGED <<budgetVars, idle, decoderVars, tableVars, hand, rewind,
                 dropping>>

(* read_all, for readlink: a pool of its own, read from the start.         *)
ReadAll(t) ==
  /\ Goto(t, "ready", "checkout")
  /\ pool' = [pool EXCEPT ![t] = t]
  /\ off' = [off EXCEPT ![t] = 0]
  /\ end' = [end EXCEPT ![t] = Size]
  /\ UNCHANGED <<budgetVars, idle, decoderVars, tableVars, hand, rewind,
                 dropping>>

Release(t) ==
  /\ Goto(t, "ready", "dropref")
  /\ \E fh \in open : /\ open' = open \ {fh}
                      /\ pool' = [pool EXCEPT ![t] = fh]
  /\ UNCHANGED <<budgetVars, idle, decoderVars, fresh, off, end, hand, rewind,
                 dropping>>

-----------------------------------------------------------------------------
(* checkout.  The exact match of the code is the furthest usable decoder   *)
(* when there is one.  Decoders at the same position are interchangeable,  *)
(* so any of them may be the one the code finds.                           *)

Locked(f) == \E u \in Threads : pc[u] = "push" /\ pool[u] = f

(* Mutant: an ended stream counts as usable.                               *)
Usable_Finished(f, o) == {d \in idle[f] : pos[d] <= o}

Usable(f, o) == {d \in idle[f] : pos[d] <= o /\ ~fin[d]}

Furthest(S) == {d \in S : \A e \in S : pos[e] <= pos[d]}

(* Mutant: the decoder is borrowed without leaving the list.               *)
Checkout_Shared(t) ==
  LET f == pool[t]
      usable == Usable(f, off[t])
  IN  /\ Goto(t, "checkout", "release")
      /\ ~Locked(f)
      /\ \E d \in Furthest(IF usable # {} THEN usable ELSE idle[f]) :
           /\ hand' = [hand EXCEPT ![t] = d]
           /\ rewind' = [rewind EXCEPT ![t] = usable = {}]
      /\ UNCHANGED <<budgetVars, idle, decoderVars, tableVars, requestVars,
                     dropping>>

Checkout(t) ==
  LET f == pool[t]
      usable == Usable(f, off[t])
  IN  /\ Goto(t, "checkout", "release")
      /\ ~Locked(f)
      /\ \E d \in Furthest(IF usable # {} THEN usable ELSE idle[f]) :
           /\ idle' = [idle EXCEPT ![f] = @ \ {d}]
           /\ hand' = [hand EXCEPT ![t] = d]
           /\ rewind' = [rewind EXCEPT ![t] = usable = {}]
      /\ UNCHANGED <<budgetVars, decoderVars, tableVars, requestVars, dropping>>

CheckoutEmpty(t) ==
  /\ Goto(t, "checkout", "take")
  /\ ~Locked(pool[t])
  /\ idle[pool[t]] = {}
  /\ UNCHANGED <<budgetVars, idle, decoderVars, tableVars, requestVars, hand,
                 rewind, dropping>>

(* The lock is free again: release_retain, then reinit of a decoder that   *)
(* only this thread can see.                                               *)
ReleaseRetain(t) ==
  /\ Goto(t, "release", "reading")
  /\ retained' = retained - 1
  /\ pos' = IF rewind[t] THEN [pos EXCEPT ![hand[t]] = 0] ELSE pos
  /\ fin' = IF rewind[t] THEN [fin EXCEPT ![hand[t]] = FALSE] ELSE fin
  /\ rewind' = [rewind EXCEPT ![t] = FALSE]
  /\ UNCHANGED <<cores, idle, tableVars, requestVars, hand, dropping>>

Pop(n) == IF n > 0 THEN n - 1 ELSE 0

(* Mutant: parts are kept without a limit.                                 *)
Push_Unbounded(n) == n + 1

Push(n) == IF n < MaxCores THEN n + 1 ELSE n

(* take_core and PositionedDecoder::new: a decoder nobody else has, made   *)
(* of kept parts or of new ones, at offset zero.                           *)
Live == (UNION {idle[f] : f \in Pools})
          \cup (UNION {dropping[t] : t \in Threads})
          \cup ({hand[t] : t \in Threads} \ {NoDecoder})

TakeCore(t) ==
  /\ Goto(t, "take", "reading")
  /\ cores' = [codecs |-> [cores.codecs EXCEPT ![MethodOf[pool[t]]] = Pop(@)],
               buffers |-> Pop(cores.buffers), skips |-> Pop(cores.skips)]
  /\ \E d \in Decoders \ Live :
       /\ hand' = [hand EXCEPT ![t] = d]
       /\ pos' = [pos EXCEPT ![d] = 0]
       /\ fin' = [fin EXCEPT ![d] = FALSE]
  /\ UNCHANGED <<retained, idle, tableVars, requestVars, rewind, dropping>>

(* What read_at can leave behind.  It never moves back, never passes the   *)
(* end of the request, and passes the end of the entry by at most the one  *)
(* byte that verify asks for.  An error or a panic stops it anywhere.      *)
(* Module Decoder has the details.                                         *)
ReadTo(p, e) == (p .. e) \cup (IF e = Size THEN {Size + 1} ELSE {})

ReadAt(t) ==
  /\ Goto(t, "reading", "giveback")
  /\ \E p \in ReadTo(pos[hand[t]], end[t]), done \in BOOLEAN :
       /\ pos' = [pos EXCEPT ![hand[t]] = p]
       /\ fin' = [fin EXCEPT ![hand[t]] = done]
  /\ UNCHANGED <<budgetVars, idle, tableVars, requestVars, hand, rewind,
                 dropping>>

-----------------------------------------------------------------------------
(* give_back, run by the destructor of the Checkout guard.                 *)

Cap(f) == IF f \in Threads THEN 1 ELSE PerHandleCap

(* Mutant: the budget is not asked.                                        *)
MayKeep_NoBudget(f) == Cardinality(idle[f]) < Cap(f)

MayKeep(f) == Cardinality(idle[f]) < Cap(f) /\ retained < MaxRetained

(* Under the idle lock: the length check, then try_retain.  The thread     *)
(* keeps the lock until it has pushed.                                     *)
GiveBackRetain(t) ==
  /\ Goto(t, "giveback", "push")
  /\ ~Locked(pool[t])
  /\ MayKeep(pool[t])
  /\ retained' = retained + 1
  /\ UNCHANGED <<cores, idle, decoderVars, tableVars, requestVars, hand,
                 rewind, dropping>>

GiveBackPush(t) ==
  /\ Goto(t, "push", "dropref")
  /\ idle' = [idle EXCEPT ![pool[t]] = @ \cup {hand[t]}]
  /\ hand' = [hand EXCEPT ![t] = NoDecoder]
  /\ UNCHANGED <<budgetVars, decoderVars, tableVars, requestVars, rewind,
                 dropping>>

(* Mutant: a thread without a slot tries again until it gets one.          *)
GiveBackFull_Spin(t) ==
  /\ Goto(t, "giveback", "giveback")
  /\ ~Locked(pool[t])
  /\ ~MayKeep(pool[t])
  /\ UNCHANGED <<budgetVars, idle, decoderVars, tableVars, requestVars, hand,
                 rewind, dropping>>

GiveBackFull(t) ==
  /\ Goto(t, "giveback", "recycle")
  /\ ~Locked(pool[t])
  /\ ~MayKeep(pool[t])
  /\ UNCHANGED <<budgetVars, idle, decoderVars, tableVars, requestVars, hand,
                 rewind, dropping>>

(* recycle_core: each part is kept if its own list has room.               *)
RecycleCore(t, from, to) ==
  /\ Goto(t, from, to)
  /\ cores' = [codecs |-> [cores.codecs EXCEPT ![MethodOf[pool[t]]] = Push(@)],
               buffers |-> Push(cores.buffers), skips |-> Push(cores.skips)]
  /\ pos' = [pos EXCEPT ![hand[t]] = 0]
  /\ fin' = [fin EXCEPT ![hand[t]] = FALSE]
  /\ hand' = [hand EXCEPT ![t] = NoDecoder]
  /\ UNCHANGED <<retained, idle, tableVars, requestVars, rewind, dropping>>

Recycle(t) == RecycleCore(t, "recycle", "dropref")

-----------------------------------------------------------------------------
(* The end of a request drops its reference to the file.  The last         *)
(* reference runs the destructor of the pool, which takes the whole list.  *)

(* Mutant: the count is compared before the own reference is given up.     *)
LastRef_Never(t, f) == f \notin open /\ \A u \in Threads : pool[u] # f

LastRef(t, f) == f \notin open /\ \A u \in Threads \ {t} : pool[u] # f

Forget(t) ==
  /\ pool' = [pool EXCEPT ![t] = NoPool]
  /\ off' = [off EXCEPT ![t] = 0]
  /\ end' = [end EXCEPT ![t] = 0]

DropRef(t) ==
  /\ Goto(t, "dropref", "ready")
  /\ ~LastRef(t, pool[t])
  /\ Forget(t)
  /\ UNCHANGED <<budgetVars, idle, decoderVars, tableVars, hand, rewind,
                 dropping>>

DropLast(t) ==
  /\ Goto(t, "dropref", "drop")
  /\ LastRef(t, pool[t])
  /\ dropping' = [dropping EXCEPT ![t] = idle[pool[t]]]
  /\ idle' = [idle EXCEPT ![pool[t]] = {}]
  /\ UNCHANGED <<budgetVars, decoderVars, tableVars, requestVars, hand, rewind>>

(* Mutant: the destructor recycles the parts and keeps the slot.           *)
DropRelease_Leak(t) ==
  /\ Goto(t, "drop", "droprecycle")
  /\ \E d \in dropping[t] : /\ dropping' = [dropping EXCEPT ![t] = @ \ {d}]
                            /\ hand' = [hand EXCEPT ![t] = d]
  /\ UNCHANGED <<budgetVars, idle, decoderVars, tableVars, requestVars, rewind>>

DropRelease(t) ==
  /\ Goto(t, "drop", "droprecycle")
  /\ \E d \in dropping[t] : /\ dropping' = [dropping EXCEPT ![t] = @ \ {d}]
                            /\ hand' = [hand EXCEPT ![t] = d]
  /\ retained' = retained - 1
  /\ UNCHANGED <<cores, idle, decoderVars, tableVars, requestVars, rewind>>

DropRecycle(t) == RecycleCore(t, "droprecycle", "drop")

DropDone(t) ==
  /\ Goto(t, "drop", "ready")
  /\ dropping[t] = {}
  /\ Forget(t)
  /\ UNCHANGED <<budgetVars, idle, decoderVars, tableVars, hand, rewind,
                 dropping>>

-----------------------------------------------------------------------------
Request(t) == OpenFetchAdd(t) \/ ReadGet(t) \/ ReadAll(t) \/ Release(t)

Acquire(t) == Checkout(t) \/ CheckoutEmpty(t) \/ GiveBackRetain(t)
                \/ GiveBackFull(t)

Continue(t) ==
  \/ OpenInsert(t) \/ ReleaseRetain(t) \/ TakeCore(t) \/ ReadAt(t)
  \/ GiveBackPush(t) \/ Recycle(t) \/ DropRef(t) \/ DropLast(t)
  \/ DropRelease(t) \/ DropRecycle(t) \/ DropDone(t)

Next == \E t \in Threads : Request(t) \/ Acquire(t) \/ Continue(t)

Spec == Init /\ [][Next]_vars

(* A thread that is not waiting for a mutex keeps running, and a thread    *)
(* that keeps finding the mutex free gets it in the end.  Nothing makes    *)
(* the kernel send a request.                                              *)
FairSpec ==
  Spec /\ \A t \in Threads : WF_vars(Continue(t)) /\ SF_vars(Acquire(t))

-----------------------------------------------------------------------------
(* Decoders that have a slot of the budget: idle ones, the one a checkout  *)
(* has taken and not paid back yet, the one a give_back has paid for and   *)
(* not pushed yet, and what a destructor still has to release.             *)
Charged ==
  (UNION {idle[f] : f \in Pools}) \cup (UNION {dropping[t] : t \in Threads})
    \cup {hand[t] : t \in {u \in Threads : pc[u] \in {"release", "push"}}}

(* The counter of the budget is exact in every interleaving of checkouts,  *)
(* returns and destructors: no slot leaks and none is paid back twice,     *)
(* which would wrap the unsigned counter (release_retain's fetch_sub).     *)
RetainedExact == IsFiniteSet(Charged) /\ retained = Cardinality(Charged)

(* The lists stay inside both limits although the length is checked before *)
(* the slot is taken and the push comes last: the mount keeps at most      *)
(* MaxRetained idle decoders and a file at most its own cap.               *)
IdleBounded ==
  /\ Cardinality(UNION {idle[f] : f \in Pools}) <= MaxRetained
  /\ \A f \in Pools : Cardinality(idle[f]) <= Cap(f)

(* One decoder is never reachable from two places: two threads never       *)
(* decompress with the same decoder, and an idle one is in one list.       *)
OneOwner ==
  /\ \A f, g \in Pools : f # g => idle[f] \cap idle[g] = {}
  /\ \A t, u \in Threads :
       t # u => /\ hand[t] # NoDecoder => hand[t] # hand[u]
                /\ dropping[t] \cap dropping[u] = {}
  /\ \A t, u \in Threads : hand[t] \notin dropping[u]
  /\ \A t \in Threads, f \in Pools :
       hand[t] \notin idle[f] /\ dropping[t] \cap idle[f] = {}

(* A decoder that reaches read_at can produce the offset without going     *)
(* back, so the "decoder is past the requested offset" error and a read    *)
(* of an ended stream cannot happen, whoever used the decoder before.      *)
HandedOutUsable ==
  \A t \in Threads :
    pc[t] = "reading" => pos[hand[t]] <= off[t] /\ ~fin[hand[t]]

(* "At most one decoder per thread is ever in use": the decoder contexts   *)
(* of the whole mount, idle, in use, half dropped, never exceed the        *)
(* retained limit plus one per thread.                                     *)
MemoryBound == Cardinality(Live) <= MaxRetained + Cardinality(Threads)

(* When the last file is closed and every request has ended, the budget    *)
(* is whole again and no list holds a decoder: a file that is closed while *)
(* it is being read does not strand the decoders of its pool.              *)
NothingStranded ==
  (open = {} /\ \A t \in Threads : pc[t] = "ready")
    => retained = 0 /\ Live = {}

(* Every request ends: no mutex of the pool is held across a wait for      *)
(* another one ("Nothing here blocks").                                    *)
EveryRequestEnds == \A t \in Threads : pc[t] # "ready" ~> pc[t] = "ready"
=============================================================================
