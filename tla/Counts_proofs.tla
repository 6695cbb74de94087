--------------------------- MODULE Counts_proofs ----------------------------
(***************************************************************************)
(* Proofs about the two structures that work only as long as they count    *)
(* right: the pool of DecoderPool, and after it the table of Interner.     *)
(*                                                                         *)
(* DecoderPool, for any number of threads, handles and decoders and any    *)
(* limits.  The argument has two layers.  Structure says, without          *)
(* counting, who holds what at each program point; it is inductive by      *)
(* itself.  On top of it the counter of the budget is shown to equal the   *)
(* number of charged decoders (RetainedExact), because each step that      *)
(* changes the counter moves exactly one decoder into or out of the        *)
(* charged set.  On both rest that a decoder handed out can be used, that  *)
(* the lists keep to their limits, and that a closed file leaves nothing   *)
(* behind.                                                                 *)
(***************************************************************************)
EXTENDS DecoderPool, Interner, FiniteSetTheorems, TLAPS

(* DecoderBudget::cores: each list holds at most max_cores parts.         *)
CoreStore == [codecs: [Methods -> 0 .. MaxCores],
              buffers: 0 .. MaxCores, skips: 0 .. MaxCores]

(* Types without the bounds that need counting.                            *)
Types ==
  /\ retained \in Int
  /\ cores \in CoreStore
  /\ idle \in [Pools -> SUBSET Decoders]
  /\ pos \in [Decoders -> Positions] /\ fin \in [Decoders -> BOOLEAN]
  /\ fresh \subseteq Handles /\ open \subseteq Handles
  /\ pc \in [Threads -> PC]
  /\ pool \in [Threads -> Pools \cup {NoPool}]
  /\ off \in [Threads -> 0 .. Size] /\ end \in [Threads -> 0 .. Size]
  /\ hand \in [Threads -> Decoders \cup {NoDecoder}]
  /\ rewind \in [Threads -> BOOLEAN]
  /\ dropping \in [Threads -> SUBSET Decoders]

Holding == {"release", "reading", "giveback", "push", "recycle", "droprecycle"}

(* What a thread holds follows from where it is.                           *)
Stages ==
  \A t \in Threads :
    /\ pc[t] \in Holding <=> hand[t] # NoDecoder
    /\ pc[t] # "ready" <=> pool[t] # NoPool
    /\ pc[t] = "insert" => pool[t] \in Handles
    /\ pc[t] \notin {"drop", "droprecycle"} => dropping[t] = {}

Structure == Types /\ Stages /\ OneOwner

(* A new mount has no files, no idle decoders and no thread in a call.     *)
LEMMA InitStructure == Init => Structure
<1> SUFFICES ASSUME Init PROVE Structure
  BY Zenon
<1>1. Types
  BY PoolAssumption DEF Init, Types, CoreStore, Positions, PC
<1>2. Stages
  BY Zenon DEF Init, Stages, Holding
<1>3. OneOwner
  BY PoolAssumption, Zenon DEF Init, OneOwner
<1> QED BY <1>1, <1>2, <1>3, Zenon DEF Structure

(* take_core and recycle_core keep the lists inside max_cores, whichever   *)
(* codec list they use.                                                    *)
LEMMA PopPushTypes ==
  ASSUME NEW n \in 0 .. MaxCores
  PROVE  Pop(n) \in 0 .. MaxCores /\ Push(n) \in 0 .. MaxCores
BY PoolAssumption DEF Pop, Push

(* Taking or recycling a core keeps the lists of spare parts in type.      *)
LEMMA CoreTypes ==
  ASSUME NEW c \in CoreStore, NEW m \in Methods
  PROVE  /\ [codecs |-> [c.codecs EXCEPT ![m] = Pop(@)],
             buffers |-> Pop(c.buffers), skips |-> Pop(c.skips)] \in CoreStore
         /\ [codecs |-> [c.codecs EXCEPT ![m] = Push(@)],
             buffers |-> Push(c.buffers), skips |-> Push(c.skips)] \in CoreStore
<1>1. c.codecs \in [Methods -> 0 .. MaxCores]
  BY Zenon DEF CoreStore
<1>2. c.buffers \in 0 .. MaxCores /\ c.skips \in 0 .. MaxCores
  BY Zenon DEF CoreStore
<1>3. c.codecs[m] \in 0 .. MaxCores
  BY <1>1, Zenon
<1> QED BY <1>1, <1>2, <1>3, PopPushTypes, Zenon DEF CoreStore

(* A new or rewound decoder stands at a position.                          *)
LEMMA ZeroPosition == 0 \in Positions
BY PoolAssumption DEF Positions

(* Recycling the core of a decoder, at the end of a read or in the         *)
(* destructor, keeps the types.                                            *)
LEMMA RecycleTypes ==
  ASSUME Types, NEW t \in Threads, pool[t] \in Pools, NEW from, NEW to \in PC,
         RecycleCore(t, from, to)
  PROVE  Types'
<1>1. MethodOf[pool[t]] \in Methods /\ cores \in CoreStore
  BY PoolAssumption, Zenon DEF Types
<1>2. cores' \in CoreStore
  BY <1>1, CoreTypes, Zenon DEF RecycleCore
<1>3. pos' \in [Decoders -> Positions] /\ fin' \in [Decoders -> BOOLEAN]
  BY ZeroPosition, Zenon DEF RecycleCore, Types
<1>4. /\ pc' \in [Threads -> PC]
      /\ hand' \in [Threads -> Decoders \cup {NoDecoder}]
  BY Zenon DEF RecycleCore, Goto, Types
<1> QED
  BY <1>2, <1>3, <1>4, Zenon DEF RecycleCore, Types, tableVars, requestVars

(* A checkout moves a decoder from the list of its pool to the hand.       *)
LEMMA CheckoutTypes ==
  ASSUME Types, NEW t \in Threads, pool[t] \in Pools, Checkout(t)
  PROVE  Types'
<1>1. PICK d \in Furthest(IF Usable(pool[t], off[t]) # {}
                          THEN Usable(pool[t], off[t]) ELSE idle[pool[t]]) :
        /\ idle' = [idle EXCEPT ![pool[t]] = @ \ {d}]
        /\ hand' = [hand EXCEPT ![t] = d]
  BY Zenon DEF Checkout
<1>2. d \in idle[pool[t]]
  BY <1>1, Zenon DEF Furthest, Usable
<1>3. idle \in [Pools -> SUBSET Decoders]
      /\ hand \in [Threads -> Decoders \cup {NoDecoder}]
  BY Zenon DEF Types
<1>4. d \in Decoders /\ idle[pool[t]] \ {d} \in SUBSET Decoders
  BY <1>2, <1>3, Zenon
<1>5. idle' \in [Pools -> SUBSET Decoders]
  BY <1>1, <1>3, <1>4, Zenon
<1>6. hand' \in [Threads -> Decoders \cup {NoDecoder}]
  BY <1>1, <1>3, <1>4, Zenon
<1>7. pc' \in [Threads -> PC]
  BY Zenon DEF Checkout, Goto, Types, PC
<1> QED
  BY <1>5, <1>6, <1>7, Zenon
  DEF Checkout, Types, budgetVars, tableVars, decoderVars, requestVars

(* Every step keeps the types of what the structure speaks of.             *)
LEMMA NextTypes == Structure /\ [Next]_vars => Types'
<1> SUFFICES ASSUME Structure, [Next]_vars PROVE Types'
  BY Zenon
<1> USE PoolAssumption
<1> USE DEF Structure, Types, Goto, PC, Pools,
        budgetVars, tableVars, decoderVars, requestVars
<1>z. 0 \in 0 .. Size /\ Size \in 0 .. Size
  OBVIOUS
<1>r. retained - 1 \in Int
  <2>1. retained \in Int
    BY Zenon
  <2> QED BY <2>1
<1>1. CASE UNCHANGED vars
  BY <1>1, Zenon DEF vars
<1>2. ASSUME NEW t \in Threads, OpenFetchAdd(t) PROVE Types'
  BY <1>2 DEF OpenFetchAdd
<1>3. ASSUME NEW t \in Threads, OpenInsert(t) PROVE Types'
  BY <1>3 DEF OpenInsert, Stages
<1>4. ASSUME NEW t \in Threads, ReadGet(t) PROVE Types'
  BY <1>4 DEF ReadGet
<1>5. ASSUME NEW t \in Threads, ReadAll(t) PROVE Types'
  BY <1>5, <1>z, Zenon DEF ReadAll
<1>6. ASSUME NEW t \in Threads, Release(t) PROVE Types'
  BY <1>6 DEF Release
<1>7. ASSUME NEW t \in Threads, Checkout(t) PROVE Types'
  BY <1>7, CheckoutTypes, Zenon DEF Checkout, Stages
<1>8. ASSUME NEW t \in Threads, CheckoutEmpty(t) PROVE Types'
  BY <1>8, Zenon DEF CheckoutEmpty
<1>9. ASSUME NEW t \in Threads, ReleaseRetain(t) PROVE Types'
  <2>1. pos' \in [Decoders -> Positions]
    BY Zenon, <1>9, ZeroPosition DEF ReleaseRetain
  <2>2. fin' \in [Decoders -> BOOLEAN]
    BY Zenon, <1>9 DEF ReleaseRetain
  <2> QED BY <1>9, <1>r, <2>1, <2>2, Zenon DEF ReleaseRetain
<1>10. ASSUME NEW t \in Threads, TakeCore(t) PROVE Types'
  <2>1. MethodOf[pool[t]] \in Methods
    BY <1>10, Zenon DEF TakeCore, Stages
  <2>2. cores' \in CoreStore
    BY <1>10, <2>1, CoreTypes, Zenon DEF TakeCore, CoreStore
  <2>3. PICK d \in Decoders : /\ hand' = [hand EXCEPT ![t] = d]
                              /\ pos' = [pos EXCEPT ![d] = 0]
                              /\ fin' = [fin EXCEPT ![d] = FALSE]
    BY <1>10, Zenon DEF TakeCore
  <2>4. /\ hand' \in [Threads -> Decoders \cup {NoDecoder}]
        /\ pos' \in [Decoders -> Positions] /\ fin' \in [Decoders -> BOOLEAN]
    BY <2>3, ZeroPosition, Zenon
  <2> QED BY <1>10, <2>2, <2>4, Zenon DEF TakeCore
<1>11. ASSUME NEW t \in Threads, ReadAt(t) PROVE Types'
  <2>1. PICK p \in ReadTo(pos[hand[t]], end[t]), done \in BOOLEAN :
          /\ pos' = [pos EXCEPT ![hand[t]] = p] /\ fin' = [fin EXCEPT ![hand[t]] = done]
    BY <1>11, Zenon DEF ReadAt
  <2>2. hand[t] \in Decoders
    BY <1>11, Zenon DEF ReadAt, Stages, Holding
  <2>3. pos[hand[t]] \in Positions /\ end[t] \in 0 .. Size /\ Size \in Nat
    BY <2>2, Zenon
  <2>4. p \in Positions
    BY <2>3 DEF ReadTo, Positions
  <2>5. pos' \in [Decoders -> Positions] /\ fin' \in [Decoders -> BOOLEAN]
    BY <2>1, <2>4, Zenon
  <2> QED BY <1>11, <2>5, Zenon DEF ReadAt
<1>12. ASSUME NEW t \in Threads, GiveBackRetain(t) PROVE Types'
  BY <1>12 DEF GiveBackRetain
<1>13. ASSUME NEW t \in Threads, GiveBackPush(t) PROVE Types'
  BY <1>13 DEF GiveBackPush, Stages, Holding
<1>14. ASSUME NEW t \in Threads, GiveBackFull(t) PROVE Types'
  BY <1>14, Zenon DEF GiveBackFull
<1>15. ASSUME NEW t \in Threads, Recycle(t) PROVE Types'
  BY <1>15, RecycleTypes, Zenon DEF Recycle, RecycleCore, Stages
<1>16. ASSUME NEW t \in Threads, DropRef(t) PROVE Types'
  BY <1>16, <1>z, Zenon DEF DropRef, Forget
<1>17. ASSUME NEW t \in Threads, DropLast(t) PROVE Types'
  BY <1>17 DEF DropLast, Stages
<1>18. ASSUME NEW t \in Threads, DropRelease(t) PROVE Types'
  <2>1. PICK d \in dropping[t] : /\ dropping' = [dropping EXCEPT ![t] = @ \ {d}]
                                  /\ hand' = [hand EXCEPT ![t] = d]
    BY <1>18, Zenon DEF DropRelease
  <2>2. d \in Decoders /\ dropping[t] \ {d} \in SUBSET Decoders
    BY <2>1, Zenon
  <2>3. /\ dropping' \in [Threads -> SUBSET Decoders]
        /\ hand' \in [Threads -> Decoders \cup {NoDecoder}]
    BY <2>1, <2>2, Zenon
  <2> QED BY <1>18, <1>r, <2>3, Zenon DEF DropRelease
<1>19. ASSUME NEW t \in Threads, DropRecycle(t) PROVE Types'
  BY <1>19, RecycleTypes, Zenon DEF DropRecycle, RecycleCore, Stages
<1>20. ASSUME NEW t \in Threads, DropDone(t) PROVE Types'
  BY <1>20 DEF DropDone, Forget
<1> QED
  BY <1>1, <1>2, <1>3, <1>4, <1>5, <1>6, <1>7, <1>8, <1>9, <1>10, <1>11,
     <1>12, <1>13, <1>14, <1>15, <1>16, <1>17, <1>18, <1>19, <1>20, ZenonT(30)
  DEF Next, Request, Acquire, Continue

(* Each step leaves its thread, and only its thread, at a new point.       *)
LEMMA NextStages == Structure /\ [Next]_vars => Stages'
<1> SUFFICES ASSUME Structure, [Next]_vars PROVE Stages'
  BY Zenon
<1>0. /\ idle \in [Pools -> SUBSET Decoders]
      /\ fresh \subseteq Handles /\ open \subseteq Handles
      /\ pc \in [Threads -> PC] /\ pool \in [Threads -> Pools \cup {NoPool}]
      /\ hand \in [Threads -> Decoders \cup {NoDecoder}]
      /\ dropping \in [Threads -> SUBSET Decoders]
      /\ NoPool \notin Pools /\ NoDecoder \notin Decoders /\ Stages
  BY PoolAssumption, Zenon DEF Structure, Types
<1> USE <1>0 DEF Stages, Holding, Goto, Pools,
        budgetVars, tableVars, decoderVars, requestVars
<1>1. CASE UNCHANGED vars
  BY <1>1, Zenon DEF vars
<1>2. ASSUME NEW t \in Threads, OpenFetchAdd(t) PROVE Stages'
  BY <1>2 DEF OpenFetchAdd
<1>3. ASSUME NEW t \in Threads, OpenInsert(t) PROVE Stages'
  BY <1>3, Zenon DEF OpenInsert
<1>4. ASSUME NEW t \in Threads, ReadGet(t) PROVE Stages'
  BY <1>4 DEF ReadGet
<1>5. ASSUME NEW t \in Threads, ReadAll(t) PROVE Stages'
  BY <1>5, Zenon DEF ReadAll
<1>6. ASSUME NEW t \in Threads, Release(t) PROVE Stages'
  BY <1>6 DEF Release
<1>7. ASSUME NEW t \in Threads, Checkout(t) PROVE Stages'
  <2>1. PICK d \in idle[pool[t]] : hand' = [hand EXCEPT ![t] = d]
    BY <1>7, Zenon DEF Checkout, Furthest, Usable
  <2>2. pc[t] = "checkout"
    BY <1>7, Zenon DEF Checkout
  <2>3. pool[t] \in Pools /\ d # NoDecoder
    <3> HIDE DEF Holding, Pools
    <3>1. pool[t] \in Pools \cup {NoPool} /\ pool[t] # NoPool
      BY <2>2
    <3> QED BY <3>1
  <2> QED BY <1>7, <2>1, <2>3, Zenon DEF Checkout
<1>8. ASSUME NEW t \in Threads, CheckoutEmpty(t) PROVE Stages'
  BY <1>8 DEF CheckoutEmpty
<1>9. ASSUME NEW t \in Threads, ReleaseRetain(t) PROVE Stages'
  BY <1>9 DEF ReleaseRetain
<1>10. ASSUME NEW t \in Threads, TakeCore(t) PROVE Stages'
  BY <1>10 DEF TakeCore
<1>11. ASSUME NEW t \in Threads, ReadAt(t) PROVE Stages'
  BY <1>11, Zenon DEF ReadAt
<1>12. ASSUME NEW t \in Threads, GiveBackRetain(t) PROVE Stages'
  BY <1>12, Zenon DEF GiveBackRetain
<1>13. ASSUME NEW t \in Threads, GiveBackPush(t) PROVE Stages'
  BY <1>13, Zenon DEF GiveBackPush
<1>14. ASSUME NEW t \in Threads, GiveBackFull(t) PROVE Stages'
  BY <1>14, Zenon DEF GiveBackFull
<1>15. ASSUME NEW t \in Threads, Recycle(t) PROVE Stages'
  BY <1>15, Zenon DEF Recycle, RecycleCore
<1>16. ASSUME NEW t \in Threads, DropRef(t) PROVE Stages'
  BY <1>16, Zenon DEF DropRef, Forget
<1>17. ASSUME NEW t \in Threads, DropLast(t) PROVE Stages'
  BY <1>17, Zenon DEF DropLast
<1>18. ASSUME NEW t \in Threads, DropRelease(t) PROVE Stages'
  BY <1>18 DEF DropRelease
<1>19. ASSUME NEW t \in Threads, DropRecycle(t) PROVE Stages'
  BY <1>19, Zenon DEF DropRecycle, RecycleCore
<1>20. ASSUME NEW t \in Threads, DropDone(t) PROVE Stages'
  BY <1>20 DEF DropDone, Forget
<1> QED
  BY <1>1, <1>2, <1>3, <1>4, <1>5, <1>6, <1>7, <1>8, <1>9, <1>10, <1>11,
     <1>12, <1>13, <1>14, <1>15, <1>16, <1>17, <1>18, <1>19, <1>20, ZenonT(30)
  DEF Next, Request, Acquire, Continue

(* A decoder that is not live is in no list and in no hand.                *)
LEMMA NotLive ==
  ASSUME NEW d \in Decoders \ Live
  PROVE  /\ \A f \in Pools : d \notin idle[f]
         /\ \A u \in Threads : d \notin dropping[u] /\ d # hand[u]
<1>1. \A f \in Pools : d \notin idle[f]
  BY Zenon DEF Live
<1>2. \A u \in Threads : d \notin dropping[u]
  BY Zenon DEF Live
<1>3. \A u \in Threads : d # hand[u]
  BY PoolAssumption, Zenon DEF Live
<1> QED BY <1>1, <1>2, <1>3, Zenon

(* A step moves at most one decoder, from a place that held it alone.      *)
LEMMA NextOneOwner == Structure /\ [Next]_vars => OneOwner'
<1> SUFFICES ASSUME Structure, [Next]_vars PROVE OneOwner'
  BY Zenon
<1>0. /\ idle \in [Pools -> SUBSET Decoders]
      /\ pc \in [Threads -> PC] /\ pool \in [Threads -> Pools \cup {NoPool}]
      /\ hand \in [Threads -> Decoders \cup {NoDecoder}]
      /\ dropping \in [Threads -> SUBSET Decoders]
      /\ NoDecoder \notin Decoders /\ Stages /\ OneOwner
  BY PoolAssumption, Zenon DEF Structure, Types
<1>t. /\ idle \in [Pools -> SUBSET Decoders]
      /\ hand \in [Threads -> Decoders \cup {NoDecoder}]
      /\ dropping \in [Threads -> SUBSET Decoders]
      /\ NoDecoder \notin Decoders /\ OneOwner
  BY <1>0, Zenon
<1>c. ASSUME UNCHANGED <<idle, hand, dropping>> PROVE OneOwner'
  BY <1>0, <1>c, Zenon DEF OneOwner
<1>h. ASSUME NEW t \in Threads, hand' = [hand EXCEPT ![t] = NoDecoder],
             UNCHANGED <<idle, dropping>>
      PROVE  OneOwner'
  BY <1>t, <1>h DEF OneOwner
<1>1. CASE UNCHANGED vars
  BY <1>1, <1>c, Zenon DEF vars
<1>2. ASSUME NEW t \in Threads, OpenFetchAdd(t) PROVE OneOwner'
  BY <1>0, <1>2, <1>c, Zenon DEF OpenFetchAdd
<1>3. ASSUME NEW t \in Threads, OpenInsert(t) PROVE OneOwner'
  BY <1>0, <1>3, <1>c, Zenon DEF OpenInsert
<1>4. ASSUME NEW t \in Threads, ReadGet(t) PROVE OneOwner'
  BY <1>0, <1>4, <1>c, Zenon DEF ReadGet
<1>5. ASSUME NEW t \in Threads, ReadAll(t) PROVE OneOwner'
  BY <1>0, <1>5, <1>c, Zenon DEF ReadAll
<1>6. ASSUME NEW t \in Threads, Release(t) PROVE OneOwner'
  BY <1>0, <1>6, <1>c, Zenon DEF Release
<1>7. ASSUME NEW t \in Threads, Checkout(t) PROVE OneOwner'
  <2>1. PICK d \in idle[pool[t]] : /\ idle' = [idle EXCEPT ![pool[t]] = @ \ {d}]
                                   /\ hand' = [hand EXCEPT ![t] = d]
    BY <1>7, Zenon DEF Checkout, Furthest, Usable
  <2>2. pool[t] \in Pools /\ dropping' = dropping
    BY <1>0, <1>7, Zenon DEF Checkout, Goto, Stages
  <2> QED BY <1>t, <2>1, <2>2 DEF OneOwner
<1>8. ASSUME NEW t \in Threads, CheckoutEmpty(t) PROVE OneOwner'
  BY <1>0, <1>8, <1>c, Zenon DEF CheckoutEmpty
<1>9. ASSUME NEW t \in Threads, ReleaseRetain(t) PROVE OneOwner'
  BY <1>0, <1>9, <1>c, Zenon DEF ReleaseRetain
<1>10. ASSUME NEW t \in Threads, TakeCore(t) PROVE OneOwner'
  <2>1. PICK d \in Decoders \ Live : hand' = [hand EXCEPT ![t] = d]
    BY Zenon, <1>10 DEF TakeCore
  <2>2. /\ \A f \in Pools : d \notin idle[f]
        /\ \A u \in Threads : d \notin dropping[u] /\ d # hand[u]
    BY <2>1, NotLive, Zenon
  <2>3. idle' = idle /\ dropping' = dropping
    BY <1>10, Zenon DEF TakeCore
  <2> QED BY <1>t, <2>1, <2>2, <2>3 DEF OneOwner
<1>11. ASSUME NEW t \in Threads, ReadAt(t) PROVE OneOwner'
  BY <1>0, <1>11, <1>c, Zenon DEF ReadAt
<1>12. ASSUME NEW t \in Threads, GiveBackRetain(t) PROVE OneOwner'
  BY <1>0, <1>12, <1>c, Zenon DEF GiveBackRetain
<1>13. ASSUME NEW t \in Threads, GiveBackPush(t) PROVE OneOwner'
  <2>1. /\ idle' = [idle EXCEPT ![pool[t]] = @ \cup {hand[t]}]
        /\ hand' = [hand EXCEPT ![t] = NoDecoder]
        /\ pool[t] \in Pools /\ hand[t] # NoDecoder /\ dropping' = dropping
    BY <1>0, <1>13, Zenon DEF GiveBackPush, Goto, Stages, Holding
  <2> QED BY <1>t, <2>1 DEF OneOwner
<1>14. ASSUME NEW t \in Threads, GiveBackFull(t) PROVE OneOwner'
  BY <1>0, <1>14, <1>c, Zenon DEF GiveBackFull
<1>15. ASSUME NEW t \in Threads, Recycle(t) PROVE OneOwner'
  BY <1>15, <1>h, Zenon DEF Recycle, RecycleCore
<1>16. ASSUME NEW t \in Threads, DropRef(t) PROVE OneOwner'
  BY <1>0, <1>16, <1>c, Zenon DEF DropRef
<1>17. ASSUME NEW t \in Threads, DropLast(t) PROVE OneOwner'
  <2>1. /\ dropping' = [dropping EXCEPT ![t] = idle[pool[t]]]
        /\ idle' = [idle EXCEPT ![pool[t]] = {}]
        /\ pool[t] \in Pools /\ hand' = hand
    BY <1>0, <1>17, Zenon DEF DropLast, Goto, Stages
  <2> QED BY <1>t, <2>1 DEF OneOwner
<1>18. ASSUME NEW t \in Threads, DropRelease(t) PROVE OneOwner'
  <2>1. PICK d \in dropping[t] : /\ dropping' = [dropping EXCEPT ![t] = @ \ {d}]
                                  /\ hand' = [hand EXCEPT ![t] = d]
    BY <1>18, Zenon DEF DropRelease
  <2>2. idle' = idle
    BY <1>18, Zenon DEF DropRelease
  <2> QED BY <1>t, <2>1, <2>2 DEF OneOwner
<1>19. ASSUME NEW t \in Threads, DropRecycle(t) PROVE OneOwner'
  BY <1>19, <1>h, Zenon DEF DropRecycle, RecycleCore
<1>20. ASSUME NEW t \in Threads, DropDone(t) PROVE OneOwner'
  BY <1>0, <1>20, <1>c, Zenon DEF DropDone
<1> QED
  BY <1>1, <1>2, <1>3, <1>4, <1>5, <1>6, <1>7, <1>8, <1>9, <1>10, <1>11,
     <1>12, <1>13, <1>14, <1>15, <1>16, <1>17, <1>18, <1>19, <1>20, ZenonT(30)
  DEF Next, Request, Acquire, Continue

-----------------------------------------------------------------------------
(* The counter.  A step leaves the charged set and the counter alone, adds *)
(* one decoder and one to the counter when there is room, or takes one     *)
(* away from both.                                                         *)
Paid(d) == retained' = retained + 1 /\ retained < MaxRetained
             /\ d \notin Charged /\ Charged' = Charged \cup {d}

Repaid(d) == retained' = retained - 1
               /\ d \in Charged /\ Charged' = Charged \ {d}

Unpaid == retained' = retained /\ Charged' = Charged

Booked == Unpaid \/ \E d \in Decoders : Paid(d) \/ Repaid(d)

(* Every step is booked.                                                   *)
LEMMA StepBooked == Structure /\ [Next]_vars => Booked
<1> SUFFICES ASSUME Structure, [Next]_vars PROVE Booked
  BY Zenon
<1>0. /\ retained \in Int /\ idle \in [Pools -> SUBSET Decoders]
      /\ pc \in [Threads -> PC] /\ pool \in [Threads -> Pools \cup {NoPool}]
      /\ hand \in [Threads -> Decoders \cup {NoDecoder}]
      /\ dropping \in [Threads -> SUBSET Decoders]
      /\ NoDecoder \notin Decoders /\ Stages /\ OneOwner
  BY PoolAssumption, Zenon DEF Structure, Types
<1>t. /\ idle \in [Pools -> SUBSET Decoders] /\ pc \in [Threads -> PC]
      /\ hand \in [Threads -> Decoders \cup {NoDecoder}]
      /\ dropping \in [Threads -> SUBSET Decoders] /\ NoDecoder \notin Decoders
  BY <1>0, Zenon
<1>o. ASSUME NEW t \in Threads, hand[t] # NoDecoder
      PROVE  /\ \A f \in Pools : hand[t] \notin idle[f]
             /\ \A u \in Threads : hand[t] \notin dropping[u]
             /\ \A u \in Threads \ {t} : hand[u] # hand[t]
  BY <1>0, <1>o, Zenon DEF OneOwner
<1>c. ASSUME NEW t \in Threads, NEW a, NEW b, Goto(t, a, b),
             a \notin {"release", "push"}, b \notin {"release", "push"},
             \A u \in Threads \ {t} : hand'[u] = hand[u],
             UNCHANGED <<retained, idle, dropping>>
      PROVE  Booked
  <2> DEFINE S == {u \in Threads : pc[u] \in {"release", "push"}}
  <2>1. S' = S /\ t \notin S
    <3>1. pc[t] = a /\ pc'[t] = b /\ \A u \in Threads \ {t} : pc'[u] = pc[u]
      BY <1>t, <1>c, Zenon DEF Goto
    <3>2. \A u \in Threads : pc'[u] \in {"release", "push"} <=> pc[u] \in {"release", "push"}
      BY <1>c, <3>1, Zenon
    <3> QED BY <1>c, <3>1, <3>2, Zenon
  <2>2. {hand'[u] : u \in S} = {hand[u] : u \in S}
    BY <1>c, <2>1, Zenon
  <2>3. {hand'[u] : u \in S'} = {hand[u] : u \in S}
    BY <2>1, <2>2, Zenon
  <2>4. Charged' = Charged
    BY <1>c, <2>3, Zenon DEF Charged
  <2> QED BY <1>c, <2>4, Zenon DEF Booked, Unpaid
<1>1. CASE UNCHANGED vars
  BY <1>1, Zenon DEF vars, budgetVars, Booked, Unpaid, Charged
<1>2. ASSUME NEW t \in Threads, OpenFetchAdd(t) PROVE Booked
  BY <1>0, <1>2, <1>c, Zenon DEF OpenFetchAdd, budgetVars
<1>3. ASSUME NEW t \in Threads, OpenInsert(t) PROVE Booked
  BY <1>0, <1>3, <1>c, Zenon DEF OpenInsert, budgetVars
<1>4. ASSUME NEW t \in Threads, ReadGet(t) PROVE Booked
  BY <1>0, <1>4, <1>c, Zenon DEF ReadGet, budgetVars
<1>5. ASSUME NEW t \in Threads, ReadAll(t) PROVE Booked
  BY <1>0, <1>5, <1>c, Zenon DEF ReadAll, budgetVars
<1>6. ASSUME NEW t \in Threads, Release(t) PROVE Booked
  BY <1>0, <1>6, <1>c, Zenon DEF Release, budgetVars
<1>7. ASSUME NEW t \in Threads, Checkout(t) PROVE Booked
  <2>1. PICK d \in idle[pool[t]] : /\ idle' = [idle EXCEPT ![pool[t]] = @ \ {d}]
                                   /\ hand' = [hand EXCEPT ![t] = d]
    BY <1>7, Zenon DEF Checkout, Furthest, Usable
  <2>2. /\ pc[t] = "checkout" /\ pc' = [pc EXCEPT ![t] = "release"]
        /\ pool[t] \in Pools /\ dropping' = dropping /\ retained' = retained
    BY <1>0, <1>7, Zenon DEF Checkout, Goto, Stages, budgetVars
  <2>3. Charged' = Charged
    BY <1>t, <2>1, <2>2 DEF Charged
  <2> QED BY <2>2, <2>3, Zenon DEF Booked, Unpaid
<1>8. ASSUME NEW t \in Threads, CheckoutEmpty(t) PROVE Booked
  BY <1>0, <1>8, <1>c, Zenon DEF CheckoutEmpty, budgetVars
<1>9. ASSUME NEW t \in Threads, ReleaseRetain(t) PROVE Booked
  <2>1. /\ pc[t] = "release" /\ pc' = [pc EXCEPT ![t] = "reading"]
        /\ UNCHANGED <<idle, dropping, hand>> /\ retained' = retained - 1
    BY <1>9, Zenon DEF ReleaseRetain, Goto
  <2>2. hand[t] \in Charged /\ hand[t] \in Decoders
    BY <1>0, <2>1, Zenon DEF Charged, Stages, Holding
  <2>3. /\ \A f \in Pools : hand[t] \notin idle[f]
        /\ \A u \in Threads : hand[t] \notin dropping[u]
        /\ \A u \in Threads \ {t} : hand[u] # hand[t]
    BY <1>o, <1>t, <2>2, Zenon
  <2>4. Charged' = Charged \ {hand[t]}
    BY <1>t, <2>1, <2>3 DEF Charged
  <2> QED BY <2>1, <2>2, <2>4, Zenon DEF Booked, Repaid
<1>10. ASSUME NEW t \in Threads, TakeCore(t) PROVE Booked
  BY <1>0, <1>10, <1>c, Zenon DEF TakeCore, budgetVars
<1>11. ASSUME NEW t \in Threads, ReadAt(t) PROVE Booked
  BY <1>0, <1>11, <1>c, Zenon DEF ReadAt, budgetVars
<1>12. ASSUME NEW t \in Threads, GiveBackRetain(t) PROVE Booked
  <2>1. /\ pc[t] = "giveback" /\ pc' = [pc EXCEPT ![t] = "push"]
        /\ UNCHANGED <<idle, dropping, hand>>
        /\ retained' = retained + 1 /\ retained < MaxRetained
    BY <1>12, Zenon DEF GiveBackRetain, Goto, MayKeep
  <2>2. hand[t] \in Decoders
    BY <1>0, <2>1, Zenon DEF Stages, Holding
  <2>3. hand[t] \notin Charged
    <3>1. /\ \A f \in Pools : hand[t] \notin idle[f]
          /\ \A u \in Threads : hand[t] \notin dropping[u]
          /\ \A u \in Threads \ {t} : hand[u] # hand[t]
      BY <1>o, <1>t, <2>2, Zenon
    <3> QED BY <2>1, <3>1, Zenon DEF Charged
  <2>4. Charged' = Charged \cup {hand[t]}
    BY <1>t, <2>1 DEF Charged
  <2> QED BY <2>1, <2>2, <2>3, <2>4, Zenon DEF Booked, Paid
<1>13. ASSUME NEW t \in Threads, GiveBackPush(t) PROVE Booked
  <2>1. /\ pc[t] = "push" /\ pc' = [pc EXCEPT ![t] = "dropref"]
        /\ idle' = [idle EXCEPT ![pool[t]] = @ \cup {hand[t]}]
        /\ hand' = [hand EXCEPT ![t] = NoDecoder]
        /\ pool[t] \in Pools /\ dropping' = dropping /\ retained' = retained
    BY <1>0, <1>13, Zenon DEF GiveBackPush, Goto, Stages, budgetVars
  <2>2. Charged' = Charged
    BY <1>t, <2>1 DEF Charged
  <2> QED BY <2>1, <2>2, Zenon DEF Booked, Unpaid
<1>14. ASSUME NEW t \in Threads, GiveBackFull(t) PROVE Booked
  BY <1>0, <1>14, <1>c, Zenon DEF GiveBackFull, budgetVars
<1>15. ASSUME NEW t \in Threads, Recycle(t) PROVE Booked
  BY <1>0, <1>15, <1>c, Zenon DEF Recycle, RecycleCore, budgetVars
<1>16. ASSUME NEW t \in Threads, DropRef(t) PROVE Booked
  BY <1>0, <1>16, <1>c, Zenon DEF DropRef, budgetVars
<1>17. ASSUME NEW t \in Threads, DropLast(t) PROVE Booked
  <2>1. /\ pc[t] = "dropref" /\ pc' = [pc EXCEPT ![t] = "drop"]
        /\ dropping' = [dropping EXCEPT ![t] = idle[pool[t]]] /\ dropping[t] = {}
        /\ idle' = [idle EXCEPT ![pool[t]] = {}]
        /\ pool[t] \in Pools /\ hand' = hand /\ retained' = retained
    BY <1>0, <1>17, Zenon DEF DropLast, Goto, Stages, budgetVars
  <2>2. Charged' = Charged
    BY <1>t, <2>1 DEF Charged
  <2> QED BY <2>1, <2>2, Zenon DEF Booked, Unpaid
<1>18. ASSUME NEW t \in Threads, DropRelease(t) PROVE Booked
  <2>1. PICK d \in dropping[t] : /\ dropping' = [dropping EXCEPT ![t] = @ \ {d}]
                                  /\ hand' = [hand EXCEPT ![t] = d]
    BY Zenon, <1>18 DEF DropRelease
  <2>2. /\ pc[t] = "drop" /\ pc' = [pc EXCEPT ![t] = "droprecycle"]
        /\ idle' = idle /\ retained' = retained - 1
    BY <1>18, Zenon DEF DropRelease, Goto
  <2>3. d \in Charged /\ d \in Decoders
    BY <1>0, <2>1, Zenon DEF Charged
  <2>4. /\ \A f \in Pools : d \notin idle[f]
        /\ \A u \in Threads \ {t} : d \notin dropping[u]
        /\ \A u \in Threads : hand[u] # d
    <3>1. \A f \in Pools : d \notin idle[f]
      BY <1>0, <2>1, Zenon DEF OneOwner
    <3>2. \A u \in Threads \ {t} : d \notin dropping[u]
      BY <1>0, <2>1, Zenon DEF OneOwner
    <3>3. \A u \in Threads : hand[u] \notin dropping[t]
      BY <1>0, Zenon DEF OneOwner
    <3> QED BY <2>1, <3>1, <3>2, <3>3, Zenon
  <2>5. Charged' = Charged \ {d}
    BY <1>t, <2>1, <2>2, <2>4 DEF Charged
  <2> QED BY <2>2, <2>3, <2>5, Zenon DEF Booked, Repaid
<1>19. ASSUME NEW t \in Threads, DropRecycle(t) PROVE Booked
  BY <1>0, <1>19, <1>c, Zenon DEF DropRecycle, RecycleCore, budgetVars
<1>20. ASSUME NEW t \in Threads, DropDone(t) PROVE Booked
  BY <1>0, <1>20, <1>c, Zenon DEF DropDone, budgetVars
<1> QED
  BY <1>1, <1>2, <1>3, <1>4, <1>5, <1>6, <1>7, <1>8, <1>9, <1>10, <1>11,
     <1>12, <1>13, <1>14, <1>15, <1>16, <1>17, <1>18, <1>19, <1>20, Zenon
  DEF Next, Request, Acquire, Continue

(* Who holds what at each program point, in every reachable state.         *)
THEOREM StructureInvariant == Spec => []Structure
<1>1. Structure /\ [Next]_vars => Structure'
  BY NextTypes, NextStages, NextOneOwner, Zenon DEF Structure
<1> QED BY InitStructure, <1>1, PTL DEF Spec

(* No two places hold the same decoder, so no two threads ever decompress  *)
(* with one decoder (checkout's swap_remove, give_back, the destructor).   *)
THEOREM SingleOwner == Spec => []OneOwner
BY StructureInvariant, PTL DEF Structure

Ledger == RetainedExact /\ retained \in 0 .. MaxRetained

(* Nothing is retained and nothing charged at first.                       *)
LEMMA InitLedger == Init => Ledger
<1> SUFFICES ASSUME Init PROVE Ledger
  BY Zenon
<1>1. Charged = {}
  BY Zenon DEF Init, Charged
<1> QED
  BY <1>1, FS_EmptySet, PoolAssumption DEF Ledger, RetainedExact, Init

(* A booked step keeps the counter equal to what is charged to it.         *)
LEMMA NextLedger == Structure /\ Ledger /\ [Next]_vars => Ledger'
<1> SUFFICES ASSUME Structure, Ledger, [Next]_vars PROVE Ledger'
  BY Zenon
<1> USE DEF Ledger, RetainedExact
<1>0. Booked
  BY StepBooked, Zenon
<1>1. CASE Unpaid
  BY <1>1, Zenon DEF Unpaid
<1>2. ASSUME NEW d \in Decoders, Paid(d) PROVE Ledger'
  <2>1. IsFiniteSet(Charged') /\ Cardinality(Charged') = Cardinality(Charged) + 1
    BY <1>2, FS_AddElement, Zenon DEF Paid
  <2> QED BY <1>2, <2>1, PoolAssumption DEF Paid
<1>3. ASSUME NEW d \in Decoders, Repaid(d) PROVE Ledger'
  <2>1. IsFiniteSet(Charged') /\ Cardinality(Charged') = Cardinality(Charged) - 1
    BY <1>3, FS_RemoveElement, Zenon DEF Repaid
  <2>2. Cardinality(Charged') \in Nat
    BY <2>1, FS_CardinalityType, Zenon
  <2> QED BY <1>3, <2>1, <2>2, PoolAssumption DEF Repaid
<1> QED BY <1>0, <1>1, <1>2, <1>3, Zenon DEF Booked

(* The counter pool.rs 73-83 keeps is the number of charged decoders.      *)
THEOREM LedgerInvariant == Spec => []Ledger
BY StructureInvariant, InitLedger, NextLedger, PTL DEF Spec

(* The retained counter equals the number of decoders that have a slot, in *)
(* every interleaving, for any number of threads and any limits.           *)
THEOREM BudgetExact == Spec => []RetainedExact
BY LedgerInvariant, PTL DEF Ledger

(* Type correctness, with the counter between zero and the limit: the      *)
(* fetch_sub of release_retain never wraps.                                *)
THEOREM TypeCorrect == Spec => []TypeOK
<1>1. Structure /\ Ledger => TypeOK
  BY Zenon DEF Structure, Types, Ledger, TypeOK, CoreStore
<1> QED BY <1>1, StructureInvariant, LedgerInvariant, PTL

-----------------------------------------------------------------------------

(* What checkout hands out.  Between the pick and the read nobody else can *)
(* touch the decoder, because it is in one hand only.                      *)
Picked ==
  \A t \in Threads :
    (pc[t] = "reading" \/ (pc[t] = "release" /\ ~rewind[t]))
      => pos[hand[t]] <= off[t] /\ ~fin[hand[t]]

(* A step changes the position of the decoder in its own hand only.        *)
LEMMA NextPicked == (Structure /\ Picked) /\ [Next]_vars => Picked'
<1> SUFFICES ASSUME Structure, Picked, [Next]_vars PROVE Picked'
  BY Zenon
<1>0. /\ idle \in [Pools -> SUBSET Decoders]
      /\ pos \in [Decoders -> Positions] /\ fin \in [Decoders -> BOOLEAN]
      /\ off \in [Threads -> 0 .. Size] /\ rewind \in [Threads -> BOOLEAN]
      /\ pc \in [Threads -> PC] /\ pool \in [Threads -> Pools \cup {NoPool}]
      /\ hand \in [Threads -> Decoders \cup {NoDecoder}]
      /\ NoDecoder \notin Decoders /\ Size \in Nat \ {0} /\ Stages /\ OneOwner
  BY PoolAssumption, Zenon DEF Structure, Types
<1> DEFINE Fit(u) == (pc[u] = "reading" \/ (pc[u] = "release" /\ ~rewind[u]))
                       => pos[hand[u]] <= off[u] /\ ~fin[hand[u]]
<1>p. \A u \in Threads : Fit(u)
  BY Zenon DEF Picked
<1>c. ASSUME NEW t \in Threads, NEW a, NEW b, Goto(t, a, b),
             b \notin {"reading", "release"}, UNCHANGED <<pos, fin>>,
             \A u \in Threads \ {t} : /\ hand'[u] = hand[u] /\ off'[u] = off[u]
                                      /\ rewind'[u] = rewind[u]
      PROVE  Picked'
  <2>1. pc'[t] = b /\ \A u \in Threads \ {t} : pc'[u] = pc[u]
    BY <1>0, <1>c, Zenon DEF Goto
  <2>2. ASSUME NEW u \in Threads, u # t PROVE Fit(u)'
    BY <1>c, <1>p, <2>1, <2>2, Zenon
  <2>3. Fit(t)'
    BY <1>c, <2>1, Zenon
  <2> QED BY <2>2, <2>3, Zenon DEF Picked
<1>d. ASSUME NEW t \in Threads, hand[t] \in Decoders, NEW u \in Threads, u # t,
             NEW x, NEW y, pos' = [pos EXCEPT ![hand[t]] = x],
             fin' = [fin EXCEPT ![hand[t]] = y], pc'[u] = pc[u],
             hand'[u] = hand[u], off'[u] = off[u], rewind'[u] = rewind[u]
      PROVE  Fit(u)'
  <2>1. hand[u] # hand[t]
    BY <1>0, <1>d, Zenon DEF OneOwner
  <2>2. pc[u] \in {"reading", "release"} => hand[u] \in Decoders
    BY <1>0, Zenon DEF Stages, Holding
  <2>3. hand[u] \in Decoders => pos'[hand[u]] = pos[hand[u]] /\ fin'[hand[u]] = fin[hand[u]]
    BY <1>0, <1>d, <2>1, Zenon
  <2> QED BY <1>d, <1>p, <2>2, <2>3, Zenon
<1>1. CASE UNCHANGED vars
  BY <1>1, <1>p, Zenon DEF vars, decoderVars, requestVars, Picked
<1>2. ASSUME NEW t \in Threads, OpenFetchAdd(t) PROVE Picked'
  BY <1>0, <1>2, <1>c, Zenon DEF OpenFetchAdd, decoderVars, requestVars
<1>3. ASSUME NEW t \in Threads, OpenInsert(t) PROVE Picked'
  BY <1>0, <1>3, <1>c, Zenon DEF OpenInsert, decoderVars, requestVars
<1>4. ASSUME NEW t \in Threads, ReadGet(t) PROVE Picked'
  BY <1>0, <1>4, <1>c, Zenon DEF ReadGet, decoderVars, requestVars
<1>5. ASSUME NEW t \in Threads, ReadAll(t) PROVE Picked'
  BY <1>0, <1>5, <1>c, Zenon DEF ReadAll, decoderVars, requestVars
<1>6. ASSUME NEW t \in Threads, Release(t) PROVE Picked'
  BY <1>0, <1>6, <1>c, Zenon DEF Release, decoderVars, requestVars
<1>7. ASSUME NEW t \in Threads, Checkout(t) PROVE Picked'
  <2> DEFINE usable == Usable(pool[t], off[t])
  <2>1. PICK d \in Furthest(IF usable # {} THEN usable ELSE idle[pool[t]]) :
          /\ hand' = [hand EXCEPT ![t] = d]
          /\ rewind' = [rewind EXCEPT ![t] = usable = {}]
    BY Zenon, <1>7 DEF Checkout
  <2>2. /\ pos' = pos /\ fin' = fin /\ off' = off
        /\ pc' = [pc EXCEPT ![t] = "release"]
    BY <1>7, Zenon DEF Checkout, Goto, decoderVars, requestVars
  <2>3. ~rewind'[t] => pos[d] <= off[t] /\ ~fin[d]
    <3>1. CASE usable = {}
      BY <1>0, <2>1, <3>1, Zenon
    <3>2. CASE usable # {}
      BY <3>2, Zenon DEF Usable, Furthest
    <3> QED BY <3>1, <3>2, Zenon
  <2>4. ASSUME NEW u \in Threads, u # t
        PROVE  hand'[u] = hand[u] /\ rewind'[u] = rewind[u] /\ pc'[u] = pc[u]
    BY <1>0, <2>1, <2>2, <2>4, Zenon
  <2>5. hand'[t] = d /\ pc'[t] = "release"
    BY <1>0, <2>1, <2>2, Zenon
  <2> HIDE DEF usable
  <2>6. ASSUME NEW u \in Threads, u # t PROVE Fit(u)'
    BY <1>p, <2>2, <2>4, <2>6, Zenon DEF Fit
  <2>7. Fit(t)'
    BY <2>2, <2>3, <2>5, Zenon DEF Fit
  <2> QED BY <2>6, <2>7, Zenon DEF Picked, Fit
<1>8. ASSUME NEW t \in Threads, CheckoutEmpty(t) PROVE Picked'
  BY <1>0, <1>8, <1>c, Zenon DEF CheckoutEmpty, decoderVars, requestVars
<1>9. ASSUME NEW t \in Threads, ReleaseRetain(t) PROVE Picked'
  <2>1. /\ pc[t] = "release" /\ pc' = [pc EXCEPT ![t] = "reading"]
        /\ pos' = IF rewind[t] THEN [pos EXCEPT ![hand[t]] = 0] ELSE pos
        /\ fin' = IF rewind[t] THEN [fin EXCEPT ![hand[t]] = FALSE] ELSE fin
        /\ rewind' = [rewind EXCEPT ![t] = FALSE] /\ UNCHANGED <<hand, off>>
    BY <1>9, Zenon DEF ReleaseRetain, Goto, requestVars
  <2>2. hand[t] \in Decoders
    BY <1>0, <2>1, Zenon DEF Stages, Holding
  <2>3. /\ pc'[t] = "reading"
        /\ \A u \in Threads \ {t} : /\ pc'[u] = pc[u] /\ rewind'[u] = rewind[u]
                                    /\ hand'[u] = hand[u] /\ off'[u] = off[u]
    BY <1>0, <2>1, Zenon
  <2>4. CASE rewind[t]
    <3>1. pos' = [pos EXCEPT ![hand[t]] = 0] /\ fin' = [fin EXCEPT ![hand[t]] = FALSE]
      BY <2>1, <2>4, Zenon
    <3>2. ASSUME NEW u \in Threads, u # t PROVE Fit(u)'
      BY <1>d, <2>2, <2>3, <3>1, <3>2, Zenon
    <3>3. pos'[hand[t]] = 0 /\ ~fin'[hand[t]]
      BY <1>0, <2>2, <3>1, Zenon
    <3>4. 0 <= off[t]
      BY <1>0
    <3> QED BY <2>1, <3>2, <3>3, <3>4, Zenon DEF Picked
  <2>5. CASE ~rewind[t]
    <3>1. UNCHANGED <<pos, fin, hand, off>>
      BY <2>1, <2>5, Zenon
    <3>2. ASSUME NEW u \in Threads, u # t PROVE Fit(u)'
      BY <1>p, <2>3, <3>1, <3>2, Zenon
    <3>3. pos[hand[t]] <= off[t] /\ ~fin[hand[t]]
      BY <1>p, <2>1, <2>5, Zenon
    <3> QED BY <3>1, <3>2, <3>3, Zenon DEF Picked
  <2> QED BY <2>4, <2>5, Zenon
<1>10. ASSUME NEW t \in Threads, TakeCore(t) PROVE Picked'
  <2>1. PICK d \in Decoders \ Live : /\ hand' = [hand EXCEPT ![t] = d]
                                     /\ pos' = [pos EXCEPT ![d] = 0]
                                     /\ fin' = [fin EXCEPT ![d] = FALSE]
    BY <1>10, Zenon DEF TakeCore
  <2>2. pc' = [pc EXCEPT ![t] = "reading"] /\ UNCHANGED <<off, rewind>>
    BY <1>10, Zenon DEF TakeCore, Goto, requestVars
  <2>3. ASSUME NEW u \in Threads, u # t PROVE Fit(u)'
    <3>1. pc'[u] = pc[u] /\ hand'[u] = hand[u] /\ d # hand[u]
      BY <1>0, <2>1, <2>2, <2>3, NotLive, Zenon
    <3>2. pc[u] \in {"reading", "release"} => hand[u] \in Decoders
      BY <1>0, Zenon DEF Stages, Holding
    <3>3. hand[u] \in Decoders => pos'[hand[u]] = pos[hand[u]] /\ fin'[hand[u]] = fin[hand[u]]
      BY <1>0, <2>1, <3>1, Zenon
    <3> QED BY <1>p, <2>2, <3>1, <3>2, <3>3, Zenon
  <2>4. hand'[t] = d /\ pos'[d] = 0 /\ ~fin'[d]
    BY <1>0, <2>1, Zenon
  <2>5. 0 <= off[t]
    BY <1>0
  <2> QED BY <2>2, <2>3, <2>4, <2>5, Zenon DEF Picked
<1>11. ASSUME NEW t \in Threads, ReadAt(t) PROVE Picked'
  <2>1. PICK p, done : /\ pos' = [pos EXCEPT ![hand[t]] = p]
                       /\ fin' = [fin EXCEPT ![hand[t]] = done]
    BY <1>11, Zenon DEF ReadAt
  <2>2. /\ pc[t] = "reading" /\ pc' = [pc EXCEPT ![t] = "giveback"]
        /\ UNCHANGED <<hand, off, rewind>>
    BY <1>11, Zenon DEF ReadAt, Goto, requestVars
  <2>3. hand[t] \in Decoders
    BY <1>0, <2>2, Zenon DEF Stages, Holding
  <2>4. pc'[t] = "giveback" /\ \A u \in Threads \ {t} : pc'[u] = pc[u]
    BY <1>0, <2>2, Zenon
  <2>5. ASSUME NEW u \in Threads, u # t PROVE Fit(u)'
    BY <1>d, <2>1, <2>2, <2>3, <2>4, <2>5, Zenon
  <2> QED BY <2>4, <2>5, Zenon DEF Picked
<1>12. ASSUME NEW t \in Threads, GiveBackRetain(t) PROVE Picked'
  BY <1>0, <1>12, <1>c, Zenon DEF GiveBackRetain, decoderVars, requestVars
<1>13. ASSUME NEW t \in Threads, GiveBackPush(t) PROVE Picked'
  BY <1>0, <1>13, <1>c, Zenon DEF GiveBackPush, decoderVars, requestVars
<1>14. ASSUME NEW t \in Threads, GiveBackFull(t) PROVE Picked'
  BY <1>0, <1>14, <1>c, Zenon DEF GiveBackFull, decoderVars, requestVars
<1>r. ASSUME NEW t \in Threads, NEW a \in Holding, NEW b, RecycleCore(t, a, b),
             b \notin {"reading", "release"}
      PROVE  Picked'
  <2>1. /\ pc[t] = a /\ pc' = [pc EXCEPT ![t] = b]
        /\ pos' = [pos EXCEPT ![hand[t]] = 0] /\ fin' = [fin EXCEPT ![hand[t]] = FALSE]
        /\ hand' = [hand EXCEPT ![t] = NoDecoder] /\ UNCHANGED <<off, rewind>>
    BY <1>r, Zenon DEF RecycleCore, Goto, requestVars
  <2>2. hand[t] \in Decoders
    BY <1>0, <2>1, Zenon DEF Stages
  <2>3. pc'[t] = b /\ \A u \in Threads \ {t} : pc'[u] = pc[u] /\ hand'[u] = hand[u]
    BY <1>0, <2>1, Zenon
  <2>4. ASSUME NEW u \in Threads, u # t PROVE Fit(u)'
    BY <1>d, <2>1, <2>2, <2>3, <2>4, Zenon
  <2> QED BY <1>r, <2>3, <2>4, Zenon DEF Picked
<1>15. ASSUME NEW t \in Threads, Recycle(t) PROVE Picked'
  BY <1>15, <1>r, Zenon DEF Recycle, Holding
<1>16. ASSUME NEW t \in Threads, DropRef(t) PROVE Picked'
  BY <1>0, <1>16, <1>c, Zenon DEF DropRef, Forget, decoderVars, requestVars
<1>17. ASSUME NEW t \in Threads, DropLast(t) PROVE Picked'
  BY <1>0, <1>17, <1>c, Zenon DEF DropLast, decoderVars, requestVars
<1>18. ASSUME NEW t \in Threads, DropRelease(t) PROVE Picked'
  BY <1>0, <1>18, <1>c, Zenon DEF DropRelease, decoderVars, requestVars
<1>19. ASSUME NEW t \in Threads, DropRecycle(t) PROVE Picked'
  BY <1>19, <1>r, Zenon DEF DropRecycle, Holding
<1>20. ASSUME NEW t \in Threads, DropDone(t) PROVE Picked'
  BY <1>0, <1>20, <1>c, Zenon DEF DropDone, Forget, decoderVars, requestVars
<1> QED
  BY <1>1, <1>2, <1>3, <1>4, <1>5, <1>6, <1>7, <1>8, <1>9, <1>10, <1>11,
     <1>12, <1>13, <1>14, <1>15, <1>16, <1>17, <1>18, <1>19, <1>20, ZenonT(30)
  DEF Next, Request, Acquire, Continue

(* A decoder that reaches read_at can produce the requested offset, for    *)
(* any interleaving of the threads that share the file.                    *)
THEOREM CheckoutUsable == Spec => []HandedOutUsable
<1>1. Init => Picked
  BY Zenon DEF Init, Picked
<1>2. Picked => HandedOutUsable
  BY Zenon DEF Picked, HandedOutUsable
<1> QED BY <1>1, <1>2, NextPicked, StructureInvariant, PTL DEF Spec

-----------------------------------------------------------------------------
(* The limit of one file.  The length is checked before the slot is taken  *)
(* and the push comes after it, so the lock has to cover both: a thread    *)
(* about to push is alone at that list, and the list still has room.       *)
Room ==
  /\ \A f \in Pools : Cardinality(idle[f]) <= Cap(f)
  /\ \A t \in Threads :
       pc[t] = "push" => Cardinality(idle[pool[t]]) < Cap(pool[t])
  /\ \A t, u \in Threads :
       pc[t] = "push" /\ pc[u] = "push" /\ pool[t] = pool[u] => t = u

(* per_handle_cap is a number.                                             *)
LEMMA CapType == \A f \in Pools : Cap(f) \in Nat
BY PoolAssumption, Zenon DEF Cap

(* An idle list is finite, since the decoders in it are charged.           *)
LEMMA IdleFinite ==
  ASSUME RetainedExact, NEW f \in Pools
  PROVE  IsFiniteSet(idle[f]) /\ Cardinality(idle[f]) \in Nat
<1>1. idle[f] \in SUBSET Charged
  BY Zenon DEF Charged
<1> QED BY <1>1, FS_Subset, FS_CardinalityType, Zenon DEF RetainedExact

(* A list that fits a limit fits it without one of its decoders.           *)
LEMMA RemovalFits ==
  ASSUME RetainedExact, NEW f \in Pools, NEW d,
         NEW c \in Nat, Cardinality(idle[f]) <= c
  PROVE  Cardinality(idle[f] \ {d}) <= c
<1>1. IsFiniteSet(idle[f]) /\ Cardinality(idle[f]) \in Nat
  BY IdleFinite, Zenon
<1>2. Cardinality(idle[f] \ {d}) =
        IF d \in idle[f] THEN Cardinality(idle[f]) - 1 ELSE Cardinality(idle[f])
  BY <1>1, FS_RemoveElement, Zenon
<1> QED BY <1>1, <1>2, SMT

(* A list below a limit still fits it with one more decoder.               *)
LEMMA AdditionFits ==
  ASSUME RetainedExact, NEW f \in Pools, NEW d,
         NEW c \in Nat, Cardinality(idle[f]) < c
  PROVE  Cardinality(idle[f] \cup {d}) <= c
<1>1. IsFiniteSet(idle[f]) /\ Cardinality(idle[f]) \in Nat
  BY IdleFinite, Zenon
<1>2. Cardinality(idle[f] \cup {d}) =
        IF d \in idle[f] THEN Cardinality(idle[f]) ELSE Cardinality(idle[f]) + 1
  BY <1>1, FS_AddElement, Zenon
<1> QED BY <1>1, <1>2, SMT

(* The lock keeps the room that was seen.                                  *)
LEMMA NextRoom == (Structure /\ Ledger /\ Room) /\ [Next]_vars => Room'
<1> SUFFICES ASSUME Structure, Ledger, Room, [Next]_vars PROVE Room'
  BY Zenon
<1>0. /\ idle \in [Pools -> SUBSET Decoders]
      /\ pc \in [Threads -> PC] /\ pool \in [Threads -> Pools \cup {NoPool}]
      /\ Stages /\ RetainedExact
  BY Zenon DEF Structure, Types, Ledger
<1>c. ASSUME NEW t \in Threads, NEW a, NEW b, Goto(t, a, b), b # "push",
             idle' = idle, \A u \in Threads \ {t} : pool'[u] = pool[u]
      PROVE  Room'
  <2>1. \A u \in Threads : pc'[u] = "push" => pc[u] = "push" /\ pool'[u] = pool[u]
    BY <1>0, <1>c, Zenon DEF Goto
  <2> QED BY <1>c, <2>1, Zenon DEF Room, Cap
<1>1. CASE UNCHANGED vars
  BY <1>1, Zenon DEF vars, requestVars, Room, Cap
<1>2. ASSUME NEW t \in Threads, OpenFetchAdd(t) PROVE Room'
  BY <1>0, <1>2, <1>c, Zenon DEF OpenFetchAdd, requestVars
<1>3. ASSUME NEW t \in Threads, OpenInsert(t) PROVE Room'
  BY <1>0, <1>3, <1>c, Zenon DEF OpenInsert, requestVars
<1>4. ASSUME NEW t \in Threads, ReadGet(t) PROVE Room'
  BY <1>0, <1>4, <1>c, Zenon DEF ReadGet, requestVars
<1>5. ASSUME NEW t \in Threads, ReadAll(t) PROVE Room'
  BY <1>0, <1>5, <1>c, Zenon DEF ReadAll, requestVars
<1>6. ASSUME NEW t \in Threads, Release(t) PROVE Room'
  BY <1>0, <1>6, <1>c, Zenon DEF Release, requestVars
<1>7. ASSUME NEW t \in Threads, Checkout(t) PROVE Room'
  <2>1. PICK d : idle' = [idle EXCEPT ![pool[t]] = @ \ {d}]
    BY Zenon, <1>7 DEF Checkout
  <2>2. pool[t] \in Pools /\ pool' = pool /\ pc' = [pc EXCEPT ![t] = "release"]
    BY <1>0, <1>7, Zenon DEF Checkout, Goto, Stages, requestVars
  <2>3. \A u \in Threads : pc[u] = "push" => pool[u] # pool[t]
    BY <1>7, Zenon DEF Checkout, Locked
  <2>4. /\ Cardinality(idle[pool[t]]) <= Cap(pool[t]) /\ Cap(pool[t]) \in Nat
        /\ idle'[pool[t]] = idle[pool[t]] \ {d}
    BY <1>0, <2>1, <2>2, CapType, Zenon DEF Room
  <2>5. Cardinality(idle'[pool[t]]) <= Cap(pool[t])
    BY <1>0, <2>2, <2>4, RemovalFits, Zenon
  <2>6. \A f \in Pools \ {pool[t]} : idle'[f] = idle[f]
    BY <1>0, <2>1, Zenon
  <2>7. \A u \in Threads : pc'[u] = "push" => pc[u] = "push" /\ pool[u] \in Pools
    BY <1>0, <2>2, Zenon DEF Stages
  <2>8. \A u \in Threads : pc'[u] = "push" => idle'[pool[u]] = idle[pool[u]]
    BY <2>3, <2>6, <2>7, Zenon
  <2> QED BY <2>2, <2>5, <2>6, <2>7, <2>8, Zenon DEF Room, Cap
<1>8. ASSUME NEW t \in Threads, CheckoutEmpty(t) PROVE Room'
  BY <1>0, <1>8, <1>c, Zenon DEF CheckoutEmpty, requestVars
<1>9. ASSUME NEW t \in Threads, ReleaseRetain(t) PROVE Room'
  BY <1>0, <1>9, <1>c, Zenon DEF ReleaseRetain, requestVars
<1>10. ASSUME NEW t \in Threads, TakeCore(t) PROVE Room'
  BY <1>0, <1>10, <1>c, Zenon DEF TakeCore, requestVars
<1>11. ASSUME NEW t \in Threads, ReadAt(t) PROVE Room'
  BY <1>0, <1>11, <1>c, Zenon DEF ReadAt, requestVars
<1>12. ASSUME NEW t \in Threads, GiveBackRetain(t) PROVE Room'
  <2>1. /\ pc' = [pc EXCEPT ![t] = "push"] /\ UNCHANGED <<idle, pool>>
        /\ Cardinality(idle[pool[t]]) < Cap(pool[t])
        /\ \A u \in Threads : pc[u] = "push" => pool[u] # pool[t]
    BY <1>12, Zenon DEF GiveBackRetain, MayKeep, Locked, Goto, requestVars
  <2>2. \A u \in Threads : pc'[u] = "push" => u = t \/ pc[u] = "push"
    BY <1>0, <2>1, Zenon
  <2>3. \A u \in Threads : pc'[u] = "push" => Cardinality(idle[pool[u]]) < Cap(pool[u])
    BY <2>1, <2>2, Zenon DEF Room
  <2>4. \A u, v \in Threads :
          pc'[u] = "push" /\ pc'[v] = "push" /\ pool[u] = pool[v] => u = v
    BY <2>1, <2>2, Zenon DEF Room
  <2> QED BY <2>1, <2>3, <2>4, Zenon DEF Room, Cap
<1>13. ASSUME NEW t \in Threads, GiveBackPush(t) PROVE Room'
  <2>1. idle' = [idle EXCEPT ![pool[t]] = @ \cup {hand[t]}]
    BY <1>13, Zenon DEF GiveBackPush
  <2>2. /\ pool[t] \in Pools /\ pool' = pool
        /\ pc[t] = "push" /\ pc' = [pc EXCEPT ![t] = "dropref"]
    BY <1>0, <1>13, Zenon DEF GiveBackPush, Goto, Stages, requestVars
  <2>3. \A u \in Threads : pc'[u] = "push" =>
          pc[u] = "push" /\ pool[u] \in Pools /\ pool[u] # pool[t]
    BY <1>0, <2>2, Zenon DEF Stages, Room
  <2>4. /\ Cardinality(idle[pool[t]]) < Cap(pool[t]) /\ Cap(pool[t]) \in Nat
        /\ idle'[pool[t]] = idle[pool[t]] \cup {hand[t]}
    BY <1>0, <2>1, <2>2, CapType, Zenon DEF Room
  <2>5. Cardinality(idle'[pool[t]]) <= Cap(pool[t])
    BY <1>0, <2>2, <2>4, AdditionFits, Zenon
  <2>6. \A f \in Pools \ {pool[t]} : idle'[f] = idle[f]
    BY <1>0, <2>1, Zenon
  <2>7. \A u \in Threads : pc'[u] = "push" => idle'[pool[u]] = idle[pool[u]]
    BY <2>3, <2>6, Zenon
  <2> QED BY <2>2, <2>3, <2>5, <2>6, <2>7, Zenon DEF Room, Cap
<1>14. ASSUME NEW t \in Threads, GiveBackFull(t) PROVE Room'
  BY <1>0, <1>14, <1>c, Zenon DEF GiveBackFull, requestVars
<1>15. ASSUME NEW t \in Threads, Recycle(t) PROVE Room'
  BY <1>0, <1>15, <1>c, Zenon DEF Recycle, RecycleCore, requestVars
<1>16. ASSUME NEW t \in Threads, DropRef(t) PROVE Room'
  BY <1>0, <1>16, <1>c, Zenon DEF DropRef, Forget, requestVars
<1>17. ASSUME NEW t \in Threads, DropLast(t) PROVE Room'
  <2>1. idle' = [idle EXCEPT ![pool[t]] = {}] /\ pool' = pool
        /\ pc' = [pc EXCEPT ![t] = "drop"] /\ pool[t] \in Pools
    BY <1>0, <1>17, Zenon DEF DropLast, Goto, Stages, requestVars
  <2>2. \A u \in Threads \ {t} : pool[u] # pool[t]
    BY <1>17, Zenon DEF DropLast, LastRef
  <2>3. /\ idle'[pool[t]] = {} /\ \A f \in Pools \ {pool[t]} : idle'[f] = idle[f]
        /\ pc'[t] = "drop" /\ \A u \in Threads \ {t} : pc'[u] = pc[u]
    BY <1>0, <2>1, Zenon
  <2>4. Cap(pool[t]) \in Nat /\ Cardinality({}) = 0
    BY <2>1, CapType, FS_EmptySet, Zenon
  <2>5. Cardinality(idle'[pool[t]]) <= Cap(pool[t])
    BY <2>3, <2>4
  <2>6. \A u \in Threads : pc'[u] = "push" => u # t /\ pc[u] = "push" /\ pool[u] \in Pools
    BY <1>0, <2>3, Zenon DEF Stages
  <2>7. \A u \in Threads : pc'[u] = "push" => idle'[pool[u]] = idle[pool[u]]
    BY <2>2, <2>3, <2>6, Zenon
  <2>8. \A f \in Pools : Cardinality(idle'[f]) <= Cap(f)
    BY <2>3, <2>5, Zenon DEF Room
  <2>9. \A u \in Threads : pc'[u] = "push" => Cardinality(idle'[pool[u]]) < Cap(pool[u])
    BY <2>6, <2>7, Zenon DEF Room
  <2>10. \A u, v \in Threads :
           pc'[u] = "push" /\ pc'[v] = "push" /\ pool[u] = pool[v] => u = v
    BY <2>6, Zenon DEF Room
  <2> QED BY <2>1, <2>8, <2>9, <2>10, Zenon DEF Room, Cap
<1>18. ASSUME NEW t \in Threads, DropRelease(t) PROVE Room'
  BY <1>0, <1>18, <1>c, Zenon DEF DropRelease, requestVars
<1>19. ASSUME NEW t \in Threads, DropRecycle(t) PROVE Room'
  BY <1>0, <1>19, <1>c, Zenon DEF DropRecycle, RecycleCore, requestVars
<1>20. ASSUME NEW t \in Threads, DropDone(t) PROVE Room'
  BY <1>0, <1>20, <1>c, Zenon DEF DropDone, Forget, requestVars
<1> QED
  BY <1>1, <1>2, <1>3, <1>4, <1>5, <1>6, <1>7, <1>8, <1>9, <1>10, <1>11,
     <1>12, <1>13, <1>14, <1>15, <1>16, <1>17, <1>18, <1>19, <1>20, ZenonT(30)
  DEF Next, Request, Acquire, Continue

(* The idle lists respect the limit of the mount and the limit of each     *)
(* file, for any number of threads giving decoders back at once.           *)
THEOREM LimitsHold == Spec => []IdleBounded
<1>1. Init => Room
  <2> SUFFICES ASSUME Init PROVE Room
    BY Zenon
  <2>1. /\ \A f \in Pools : Cardinality(idle[f]) = 0
        /\ \A u \in Threads : pc[u] # "push"
    BY FS_EmptySet, Zenon DEF Init
  <2>2. \A f \in Pools : Cardinality(idle[f]) <= Cap(f)
    BY <2>1, CapType
  <2> QED BY <2>1, <2>2, Zenon DEF Room
<1>2. Structure /\ Ledger /\ Room => IdleBounded
  <2> SUFFICES ASSUME Ledger, Room PROVE IdleBounded
    BY Zenon
  <2>1. (UNION {idle[f] : f \in Pools}) \in SUBSET Charged
    BY Zenon DEF Charged
  <2>2. Cardinality(UNION {idle[f] : f \in Pools}) <= Cardinality(Charged)
        /\ Cardinality(UNION {idle[f] : f \in Pools}) \in Nat
    BY <2>1, FS_Subset, FS_CardinalityType, Zenon DEF Ledger, RetainedExact
  <2> QED BY <2>2, PoolAssumption DEF Ledger, RetainedExact, Room, IdleBounded
<1> QED
  BY <1>1, <1>2, NextRoom, StructureInvariant, LedgerInvariant, PTL DEF Spec

(* "At most one decoder per thread is ever in use": the decoders of the    *)
(* whole mount are the charged ones and at most one in each hand.          *)
THEOREM MemoryBounded == Spec => []MemoryBound
<1>1. Structure /\ Ledger => MemoryBound
  <2> SUFFICES ASSUME Structure, Ledger PROVE MemoryBound
    BY Zenon
  <2> DEFINE H == {hand[t] : t \in Threads}
  <2>1. IsFiniteSet(H) /\ Cardinality(H) <= Cardinality(Threads)
    <3>1. hand \in Surjection(Threads, H)
      BY Zenon DEF Structure, Types, Surjection
    <3> QED BY <3>1, FS_Surjection, PoolAssumption, Zenon
  <2>2. IsFiniteSet(Charged \cup H)
        /\ Cardinality(Charged \cup H)
             = Cardinality(Charged) + Cardinality(H) - Cardinality(Charged \cap H)
    BY <2>1, FS_Union, Zenon DEF Ledger, RetainedExact
  <2>3. Live \in SUBSET (Charged \cup H)
    BY Zenon DEF Live, Charged
  <2>4. Cardinality(Live) <= Cardinality(Charged \cup H)
    BY <2>2, <2>3, FS_Subset, Zenon
  <2>5. IsFiniteSet(Charged \cap H) /\ IsFiniteSet(Live)
    BY <2>1, <2>2, <2>3, FS_Subset, FS_Intersection, Zenon DEF Ledger, RetainedExact
  <2>6. /\ Cardinality(Charged \cap H) \in Nat /\ Cardinality(Live) \in Nat
        /\ Cardinality(H) \in Nat /\ Cardinality(Threads) \in Nat
    BY <2>1, <2>5, FS_CardinalityType, PoolAssumption, Zenon
  <2> QED
    BY <2>1, <2>2, <2>4, <2>6, PoolAssumption
    DEF MemoryBound, Ledger, RetainedExact
<1> QED BY <1>1, StructureInvariant, LedgerInvariant, PTL

-----------------------------------------------------------------------------
(* Closing a file.  A pool that holds decoders belongs to a file that is   *)
(* in the table or that some request still refers to; once a destructor    *)
(* runs, nobody can reach the pool any more.                               *)
Alive ==
  /\ \A f \in Pools : idle[f] # {} => f \in open \/ \E t \in Threads : pool[t] = f
  /\ \A t \in Threads :
       /\ pc[t] \in {"drop", "droprecycle"}
            => LastRef(t, pool[t]) /\ idle[pool[t]] = {}
       /\ pool[t] \notin fresh
       /\ pool[t] \in Threads => pool[t] = t
  /\ open \cap fresh = {}

(* No step revives a pool whose destructor has started.                    *)
LEMMA NextAlive == (Structure /\ Alive) /\ [Next]_vars => Alive'
<1> SUFFICES ASSUME Structure, Alive, [Next]_vars PROVE Alive'
  BY Zenon
<1>0. /\ idle \in [Pools -> SUBSET Decoders]
      /\ fresh \subseteq Handles /\ open \subseteq Handles
      /\ pc \in [Threads -> PC] /\ pool \in [Threads -> Pools \cup {NoPool}]
      /\ NoPool \notin Pools /\ Handles \cap Threads = {} /\ Stages
  BY PoolAssumption, Zenon DEF Structure, Types
<1>c. ASSUME NEW t \in Threads, NEW a, NEW b, Goto(t, a, b),
             b \in {"drop", "droprecycle"} => a \in {"drop", "droprecycle"},
             UNCHANGED <<idle, open, fresh, pool>>
      PROVE  Alive'
  <2>1. \A u \in Threads : pc'[u] \in {"drop", "droprecycle"}
                             => pc[u] \in {"drop", "droprecycle"}
    BY <1>0, <1>c, Zenon DEF Goto
  <2> QED BY <1>c, <2>1, Zenon DEF Alive, LastRef
<1>1. CASE UNCHANGED vars
  BY <1>1, Zenon DEF vars, tableVars, requestVars, Alive, LastRef
<1>2. ASSUME NEW t \in Threads, OpenFetchAdd(t) PROVE Alive'
  <2>1. PICK fh \in fresh : fresh' = fresh \ {fh} /\ pool' = [pool EXCEPT ![t] = fh]
    BY <1>2, Zenon DEF OpenFetchAdd
  <2>2. /\ pc[t] = "ready" /\ pc' = [pc EXCEPT ![t] = "insert"]
        /\ UNCHANGED <<idle, open>>
    BY <1>2, Zenon DEF OpenFetchAdd, Goto
  <2> QED BY <1>0, <2>1, <2>2 DEF Alive, LastRef, Stages, Pools
<1>3. ASSUME NEW t \in Threads, OpenInsert(t) PROVE Alive'
  <2>1. /\ pc[t] = "insert" /\ pc' = [pc EXCEPT ![t] = "ready"]
        /\ open' = open \cup {pool[t]} /\ pool' = [pool EXCEPT ![t] = NoPool]
        /\ UNCHANGED <<idle, fresh>>
    BY <1>3, Zenon DEF OpenInsert, Goto
  <2> QED BY <1>0, <2>1 DEF Alive, LastRef, Stages, Pools
<1>4. ASSUME NEW t \in Threads, ReadGet(t) PROVE Alive'
  <2>1. PICK fh \in open : pool' = [pool EXCEPT ![t] = fh]
    BY <1>4, Zenon DEF ReadGet
  <2>2. /\ pc[t] = "ready" /\ pc' = [pc EXCEPT ![t] = "checkout"]
        /\ UNCHANGED <<idle, fresh, open>>
    BY <1>4, Zenon DEF ReadGet, Goto, tableVars
  <2> QED BY <1>0, <2>1, <2>2 DEF Alive, LastRef, Stages, Pools
<1>5. ASSUME NEW t \in Threads, ReadAll(t) PROVE Alive'
  <2>1. /\ pc[t] = "ready" /\ pc' = [pc EXCEPT ![t] = "checkout"]
        /\ pool' = [pool EXCEPT ![t] = t] /\ UNCHANGED <<idle, fresh, open>>
    BY <1>5, Zenon DEF ReadAll, Goto, tableVars
  <2> QED BY <1>0, <2>1 DEF Alive, LastRef, Stages, Pools
<1>6. ASSUME NEW t \in Threads, Release(t) PROVE Alive'
  <2>1. PICK fh \in open : open' = open \ {fh} /\ pool' = [pool EXCEPT ![t] = fh]
    BY <1>6, Zenon DEF Release
  <2>2. /\ pc[t] = "ready" /\ pc' = [pc EXCEPT ![t] = "dropref"]
        /\ UNCHANGED <<idle, fresh>>
    BY <1>6, Zenon DEF Release, Goto
  <2> QED BY <1>0, <2>1, <2>2 DEF Alive, LastRef, Stages, Pools
<1>7. ASSUME NEW t \in Threads, Checkout(t) PROVE Alive'
  <2>1. PICK d : idle' = [idle EXCEPT ![pool[t]] = @ \ {d}]
    BY <1>7, Zenon DEF Checkout
  <2>2. /\ pc[t] = "checkout" /\ pc' = [pc EXCEPT ![t] = "release"]
        /\ UNCHANGED <<fresh, open, pool>>
    BY <1>7, Zenon DEF Checkout, Goto, tableVars, requestVars
  <2> QED BY <1>0, <2>1, <2>2 DEF Alive, LastRef
<1>8. ASSUME NEW t \in Threads, CheckoutEmpty(t) PROVE Alive'
  BY <1>8, <1>c, Zenon DEF CheckoutEmpty, tableVars, requestVars
<1>9. ASSUME NEW t \in Threads, ReleaseRetain(t) PROVE Alive'
  BY <1>9, <1>c, Zenon DEF ReleaseRetain, tableVars, requestVars
<1>10. ASSUME NEW t \in Threads, TakeCore(t) PROVE Alive'
  BY <1>10, <1>c, Zenon DEF TakeCore, tableVars, requestVars
<1>11. ASSUME NEW t \in Threads, ReadAt(t) PROVE Alive'
  BY <1>11, <1>c, Zenon DEF ReadAt, tableVars, requestVars
<1>12. ASSUME NEW t \in Threads, GiveBackRetain(t) PROVE Alive'
  BY <1>12, <1>c, Zenon DEF GiveBackRetain, tableVars, requestVars
<1>13. ASSUME NEW t \in Threads, GiveBackPush(t) PROVE Alive'
  <2>1. /\ pc[t] = "push" /\ pc' = [pc EXCEPT ![t] = "dropref"]
        /\ idle' = [idle EXCEPT ![pool[t]] = @ \cup {hand[t]}]
        /\ UNCHANGED <<fresh, open, pool>>
    BY <1>13, Zenon DEF GiveBackPush, Goto, tableVars, requestVars
  <2> QED BY <1>0, <2>1 DEF Alive, LastRef, Stages
<1>14. ASSUME NEW t \in Threads, GiveBackFull(t) PROVE Alive'
  BY <1>14, <1>c, Zenon DEF GiveBackFull, tableVars, requestVars
<1>15. ASSUME NEW t \in Threads, Recycle(t) PROVE Alive'
  BY <1>15, <1>c, Zenon DEF Recycle, RecycleCore, tableVars, requestVars
<1>16. ASSUME NEW t \in Threads, DropRef(t) PROVE Alive'
  <2>1. /\ pc[t] = "dropref" /\ pc' = [pc EXCEPT ![t] = "ready"]
        /\ ~LastRef(t, pool[t]) /\ pool' = [pool EXCEPT ![t] = NoPool]
        /\ UNCHANGED <<idle, fresh, open>>
    BY <1>16, Zenon DEF DropRef, Forget, Goto, tableVars
  <2> QED BY <1>0, <2>1 DEF Alive, LastRef, Stages, Pools
<1>17. ASSUME NEW t \in Threads, DropLast(t) PROVE Alive'
  <2>1. /\ pc[t] = "dropref" /\ pc' = [pc EXCEPT ![t] = "drop"]
        /\ LastRef(t, pool[t]) /\ idle' = [idle EXCEPT ![pool[t]] = {}]
        /\ UNCHANGED <<fresh, open, pool>>
    BY <1>17, Zenon DEF DropLast, Goto, tableVars, requestVars
  <2> QED BY <1>0, <2>1 DEF Alive, LastRef, Stages
<1>18. ASSUME NEW t \in Threads, DropRelease(t) PROVE Alive'
  BY <1>18, <1>c, Zenon DEF DropRelease, tableVars, requestVars
<1>19. ASSUME NEW t \in Threads, DropRecycle(t) PROVE Alive'
  BY <1>19, <1>c, Zenon DEF DropRecycle, RecycleCore, tableVars, requestVars
<1>20. ASSUME NEW t \in Threads, DropDone(t) PROVE Alive'
  <2>1. /\ pc[t] = "drop" /\ pc' = [pc EXCEPT ![t] = "ready"]
        /\ pool' = [pool EXCEPT ![t] = NoPool] /\ UNCHANGED <<idle, fresh, open>>
    BY <1>20, Zenon DEF DropDone, Forget, Goto, tableVars
  <2> QED BY <1>0, <2>1 DEF Alive, LastRef, Stages, Pools
<1> QED
  BY <1>1, <1>2, <1>3, <1>4, <1>5, <1>6, <1>7, <1>8, <1>9, <1>10, <1>11,
     <1>12, <1>13, <1>14, <1>15, <1>16, <1>17, <1>18, <1>19, <1>20, ZenonT(30)
  DEF Next, Request, Acquire, Continue

(* Closing every file and finishing every request gives the whole budget   *)
(* back, although a file may be closed while others read it.               *)
THEOREM NoDecoderStranded == Spec => []NothingStranded
<1>1. Init => Alive
  BY PoolAssumption, Zenon DEF Init, Alive, Pools
<1>2. Structure /\ Ledger /\ Alive => NothingStranded
  <2> SUFFICES ASSUME Structure, Ledger, Alive, open = {},
                      \A t \in Threads : pc[t] = "ready"
               PROVE  retained = 0 /\ Live = {}
    BY Zenon DEF NothingStranded
  <2>1. \A t \in Threads : pool[t] = NoPool /\ hand[t] = NoDecoder
                             /\ dropping[t] = {}
    BY Zenon DEF Structure, Stages, Holding
  <2>2. \A f \in Pools : idle[f] = {}
    BY <2>1, PoolAssumption, SMTT(30) DEF Alive
  <2>3. Live = {} /\ Charged = {}
    BY <2>1, <2>2 DEF Live, Charged
  <2> QED BY <2>3, FS_EmptySet, Zenon DEF Ledger, RetainedExact
<1> QED
  BY <1>1, <1>2, NextAlive, StructureInvariant, LedgerInvariant, PTL DEF Spec

-----------------------------------------------------------------------------
(* Interner: the table is a map, for every hash function, every number of  *)
(* keys and every size the table starts with.                              *)

(* The slots from b up to p, around the end of the table if b is after p.  *)
Run(b, p) ==
  {q \in 0 .. mask : IF b <= p THEN b <= q /\ q < p ELSE b <= q \/ q < p}

Inserting == doing \in {"grow", "regrow", "place"}

Growing == doing \in {"grow", "regrow"}

(* No key has two nodes.                                                   *)
Distinct == \A i, j \in 1 .. Len(nodes) : nodes[i] = nodes[j] => i = j

(* A node is found along a run of filled slots.                            *)
Chained ==
  \A p \in 0 .. mask : slots[p] # 0 =>
    \A q \in Run(bucket(nodes[slots[p]], mask), p) : slots[q] # 0

(* What the probe in progress has seen.                                    *)
Probed ==
  /\ doing = "find" =>
       \A q \in Run(bucket(key, mask), idx) : slots[q] # 0 /\ nodes[slots[q]] # key
  /\ doing = "place" => \A q \in Run(bucket(key, mask), idx) : slots[q] # 0
  /\ doing = "regrow" =>
       /\ at \in DOMAIN old /\ old[at] # 0
       /\ \A q \in Run(bucket(nodes[old[at]], mask), idx) : slots[q] # 0

Stored(i) == \E p \in 0 .. mask : slots[p] = i

(* Every node is in the table, or still to be moved or placed.             *)
Complete ==
  /\ ~Inserting => \A i \in 1 .. Len(nodes) : Stored(i)
  /\ doing = "place" => \A i \in 1 .. Len(nodes) - 1 : Stored(i)
  /\ Growing => \A i \in 1 .. Len(nodes) - 1 :
       Stored(i) \/ \E p \in DOMAIN old : at <= p /\ old[p] = i

(* The node being inserted is the last, and grow goes through all of old.  *)
Pending ==
  /\ Inserting => Len(nodes) > 0 /\ nodes[Len(nodes)] = key
  /\ Growing => \E m \in Nat : DOMAIN old = 0 .. m /\ at \in 0 .. m + 1

TableInv ==
  InternTypeOK /\ Distinct /\ Chained /\ Probed /\ Complete /\ Pending

-----------------------------------------------------------------------------
(* intern.rs 41: a bucket is a slot of the table.                          *)
LEMMA BucketInTable ==
  ASSUME InternTypeOK, NEW k \in Keys, NEW m \in Nat
  PROVE  bucket(k, m) \in 0 .. m
<1>1. hash[k] \in Nat
  BY InternerAssumption, Zenon DEF InternTypeOK
<1>2. \A x \in Nat : x % (m + 1) \in 0 .. m
  OBVIOUS
<1> QED
  BY <1>1, <1>2, Zenon DEF bucket

(* intern.rs 69, 86: probing on adds one slot to the run that was probed,  *)
(* unless the probe is back where it began.                                *)
LEMMA RunGrows ==
  ASSUME mask \in Nat, NEW b \in 0 .. mask, NEW p \in 0 .. mask
  PROVE  /\ Following(p) \in 0 .. mask
         /\ \A q \in Run(b, Following(p)) : q \in Run(b, p) \/ q = p
BY DEF Following, Run

(* Of two runs from one slot, one is within the other.                     *)
LEMMA RunsNest ==
  ASSUME mask \in Nat, NEW b \in 0 .. mask, NEW p \in 0 .. mask, NEW q \in 0 .. mask
  PROVE  p = q \/ p \in Run(b, q) \/ q \in Run(b, p)
BY DEF Run

(* intern.rs 61: an empty slot ends a probe only if the key has no node.   *)
LEMMA MissIsNew ==
  ASSUME TableInv, doing = "find", slots[idx] = 0
  PROVE  \A i \in 1 .. Len(nodes) : nodes[i] # key
<1> SUFFICES ASSUME NEW i \in 1 .. Len(nodes), nodes[i] = key PROVE FALSE
  BY Zenon
<1>1. PICK p \in 0 .. mask : slots[p] = i
  BY Zenon DEF TableInv, Complete, Inserting, Stored
<1>2. bucket(key, mask) \in 0 .. mask /\ idx \in 0 .. mask /\ mask \in Nat
  BY BucketInTable, Zenon DEF TableInv, InternTypeOK
<1>3. p # idx
  BY <1>1
<1>4. p \notin Run(bucket(key, mask), idx)
  BY <1>1, Zenon DEF TableInv, Probed
<1>5. idx \notin Run(bucket(key, mask), p)
  BY <1>1 DEF TableInv, Chained
<1> QED
  BY <1>2, <1>3, <1>4, <1>5, RunsNest, Zenon

-----------------------------------------------------------------------------
(* intern.rs 46: the empty table that a build starts with.                 *)
LEMMA InitInv == InternInit => TableInv
<1> SUFFICES ASSUME InternInit PROVE TableInv
  BY Zenon
<1>1. key \in Keys
  BY InternerAssumption, Zenon DEF InternInit
<1>2. InternTypeOK
  BY <1>1, InternerAssumption DEF InternInit, InternTypeOK, Slots, InternPC
<1>3. Distinct /\ Complete
  BY DEF InternInit, Distinct, Complete, Inserting, Growing
<1>4. Chained
  BY InternerAssumption, Zenon DEF InternInit, Chained, Slots
<1>5. Probed /\ Pending
  BY Zenon DEF InternInit, Probed, Pending, Inserting, Growing
<1> QED
  BY <1>2, <1>3, <1>4, <1>5, Zenon DEF TableInv

(* Steps that leave the table and its nodes alone keep what is said of     *)
(* them.                                                                   *)
LEMMA TableKept ==
  ASSUME TableInv, UNCHANGED <<hash, nodes, table>>
  PROVE  Distinct' /\ Chained' /\ \A i : Stored(i)' = Stored(i)
<1>1. UNCHANGED <<hash, nodes, slots, mask>>
  BY Zenon DEF table
<1> QED
  BY <1>1 DEF TableInv, Distinct, Chained, Stored, Run, bucket

(* intern.rs 57-58: a lookup begins at the bucket of its key.              *)
LEMMA InternStep ==
  ASSUME TableInv, NEW k \in Keys, Intern(k)
  PROVE  TableInv'
<1>1. bucket(k, mask) \in 0 .. mask /\ mask \in Nat
  BY BucketInTable DEF TableInv, InternTypeOK
<1>2. InternTypeOK'
  BY <1>1, Zenon DEF TableInv, InternTypeOK, Intern, table, InternPC
<1>3. Distinct' /\ Chained' /\ \A i : Stored(i)' = Stored(i)
  BY TableKept, Zenon DEF Intern
<1>4. Complete'
  BY <1>3, Zenon DEF TableInv, Complete, Inserting, Growing, Intern
<1>5. Probed'
  BY <1>1, SMTT(30) DEF Probed, Intern, Run, bucket, table
<1>6. Pending'
  BY Zenon DEF Pending, Inserting, Growing, Intern
<1> QED
  BY <1>2, <1>3, <1>4, <1>5, <1>6, Zenon DEF TableInv

(* intern.rs 66-69: a slot with another key is passed.                     *)
LEMMA FindNextStep ==
  ASSUME TableInv, FindNext
  PROVE  TableInv'
<1>0. mask \in Nat /\ idx \in 0 .. mask /\ bucket(key, mask) \in 0 .. mask
  BY BucketInTable, Zenon DEF TableInv, InternTypeOK
<1>1. /\ Following(idx) \in 0 .. mask
      /\ \A q \in Run(bucket(key, mask), Following(idx)) :
           q \in Run(bucket(key, mask), idx) \/ q = idx
  BY <1>0, RunGrows, Zenon
<1>2. InternTypeOK'
  BY <1>0, <1>1, Zenon DEF TableInv, InternTypeOK, FindNext, table
<1>3. Distinct' /\ Chained' /\ \A i : Stored(i)' = Stored(i)
  BY TableKept, Zenon DEF FindNext
<1>4. Complete'
  BY <1>3, Zenon DEF TableInv, Complete, Inserting, Growing, FindNext
<1>5. Probed'
  <2>1. \A q \in Run(bucket(key, mask), Following(idx)) :
          slots[q] # 0 /\ nodes[slots[q]] # key
    BY <1>1, Zenon DEF TableInv, Probed, FindNext, Matches
  <2> QED
    BY <2>1, Zenon DEF Probed, FindNext, Run, bucket, table
<1>6. Pending'
  BY Zenon DEF Pending, Inserting, Growing, FindNext
<1> QED
  BY <1>2, <1>3, <1>4, <1>5, <1>6, Zenon DEF TableInv

(* intern.rs 67: a hit returns.                                            *)
LEMMA FindHitStep ==
  ASSUME TableInv, FindHit
  PROVE  TableInv'
<1>1. InternTypeOK'
  BY DEF TableInv, InternTypeOK, FindHit, Return, table, InternPC
<1>2. Distinct' /\ Chained' /\ \A i : Stored(i)' = Stored(i)
  BY TableKept, Zenon DEF FindHit
<1>3. Complete'
  BY <1>2, Zenon DEF TableInv, Complete, Inserting, Growing, FindHit, Return
<1>4. Probed' /\ Pending'
  BY Zenon DEF Probed, Pending, Inserting, Growing, FindHit, Return
<1> QED
  BY <1>1, <1>2, <1>3, <1>4, Zenon DEF TableInv

(* build.rs 194-208, intern.rs 74-96: a miss makes a node with a new key,  *)
(* and the table stays or is replaced by an empty one.                     *)
LEMMA FindMissStep ==
  ASSUME TableInv, FindMiss
  PROVE  TableInv'
<1>1. /\ bucket(key, mask) \in 0 .. mask /\ mask \in Nat /\ idx \in 0 .. mask
      /\ nodes \in Seq(Keys) /\ key \in Keys
      /\ slots \in [0 .. mask -> 0 .. Len(nodes)]
  BY BucketInTable, Zenon DEF TableInv, InternTypeOK
<1>m. /\ nodes' = Append(nodes, key) /\ UNCHANGED <<hash, len, key, answer>>
      /\ \A i \in 1 .. Len(nodes) : nodes[i] # key
  BY MissIsNew, Zenon DEF FindMiss
<1>s. \A i \in 1 .. Len(nodes) : Stored(i)
  BY Zenon DEF FindMiss, TableInv, Complete, Inserting
<1>2. /\ nodes' \in Seq(Keys) /\ Len(nodes') = Len(nodes) + 1
      /\ nodes'[Len(nodes) + 1] = key
      /\ \A i \in 1 .. Len(nodes) : nodes'[i] = nodes[i]
  <2>1. nodes' = Append(nodes, key) /\ nodes \in Seq(Keys) /\ key \in Keys
    BY <1>1, <1>m, Zenon
  <2> QED
    BY <2>1, SMTT(30)
<1>n. /\ \A i \in 1 .. Len(nodes') : i \in 1 .. Len(nodes) \/ i = Len(nodes) + 1
      /\ \A x \in 0 .. Len(nodes) : x \in 0 .. Len(nodes')
      /\ 0 \in 0 .. Len(nodes')
  <2>1. Len(nodes) \in Nat /\ Len(nodes') = Len(nodes) + 1
    BY <1>1, <1>2, SMTT(30)
  <2> QED
    BY <2>1, SMTT(30)
<1>3. Distinct'
  <2>1. \A i, j \in 1 .. Len(nodes) : nodes[i] = nodes[j] => i = j
    BY Zenon DEF TableInv, Distinct
  <2> SUFFICES ASSUME NEW i \in 1 .. Len(nodes'), NEW j \in 1 .. Len(nodes'),
                      nodes'[i] = nodes'[j]
               PROVE  i = j
    BY Zenon DEF Distinct
  <2>2. CASE i \in 1 .. Len(nodes) /\ j \in 1 .. Len(nodes)
    BY <1>2, <2>1, <2>2, Zenon
  <2>3. CASE ~(i \in 1 .. Len(nodes) /\ j \in 1 .. Len(nodes))
    BY <1>m, <1>2, <1>n, <2>3, Zenon
  <2> QED
    BY <2>2, <2>3, Zenon
<1>4. CASE Crowded
  <2>0. 2 * mask + 1 \in Nat /\ 2 * (mask + 1) - 1 = 2 * mask + 1
    BY <1>1
  <2>1. /\ doing' = "grow" /\ idx' = 0 /\ at' = 0 /\ old' = slots
        /\ slots' = [i \in 0 .. 2 * mask + 1 |-> 0] /\ mask' = 2 * mask + 1
    BY <1>4, <2>0, Zenon DEF FindMiss, Slots
  <2>2. InternTypeOK'
    <3>1. 0 \in 0 .. 2 * mask + 1 /\ 0 .. mask \subseteq 0 .. 2 * mask + 1 /\ 0 \in Nat
      BY <1>1
    <3> QED
      BY <1>1, <1>m, <1>2, <1>n, <2>0, <2>1, <3>1, Zenon DEF TableInv, InternTypeOK, InternPC
  <2>3. Chained' /\ Probed'
    BY <1>1, <2>1, Zenon DEF Chained, Probed
  <2>4. Complete'
    BY <1>1, <1>2, <1>s, <2>1 DEF Complete, Inserting, Growing, Stored
  <2>5. Pending'
    BY <1>1, <1>m, <1>2, <2>1 DEF Pending, Inserting, Growing
  <2> QED
    BY <1>3, <2>2, <2>3, <2>4, <2>5, Zenon DEF TableInv
<1>5. CASE ~Crowded
  <2>1. doing' = "place" /\ idx' = bucket(key, mask) /\ UNCHANGED <<slots, mask, old, at>>
    BY <1>5, Zenon DEF FindMiss
  <2>2. InternTypeOK'
    BY <1>1, <1>m, <1>2, <1>n, <2>1, Zenon DEF TableInv, InternTypeOK, InternPC
  <2>3. Chained'
    <3>1. \A p \in 0 .. mask :
            slots[p] # 0 => slots[p] \in 1 .. Len(nodes)
      BY <1>1
    <3> QED
      BY <1>m, <1>2, <2>1, <3>1 DEF TableInv, Chained, Run, bucket
  <2>4. Probed'
    BY <1>1, <1>m, <2>1, SMTT(30) DEF Probed, Run, bucket
  <2>5. Complete'
    <3>1. Len(nodes') - 1 = Len(nodes)
      BY <1>1, <1>2
    <3>2. \A i : Stored(i)' = Stored(i)
      BY <2>1, Zenon DEF Stored
    <3> QED
      BY <1>s, <2>1, <3>1, <3>2, Zenon DEF Complete, Inserting, Growing
  <2>6. Pending'
    BY <1>1, <1>m, <1>2, <2>1, SMTT(30) DEF Pending, Inserting, Growing
  <2> QED
    BY <1>3, <2>2, <2>3, <2>4, <2>5, <2>6 DEF TableInv
<1> QED
  BY <1>4, <1>5, Zenon

(* intern.rs 85-87: a filled slot is passed.                               *)
LEMMA PlaceNextStep ==
  ASSUME TableInv, PlaceNext
  PROVE  TableInv'
<1> DEFINE k == IF doing = "place" THEN key ELSE nodes[old[at]]
<1>1. k \in Keys
  <2>1. CASE doing = "place"
    BY <2>1, Zenon DEF TableInv, InternTypeOK
  <2>2. CASE doing = "regrow"
    <3>1. old[at] \in 1 .. Len(nodes)
      BY <2>2 DEF TableInv, InternTypeOK, Probed
    <3> QED
      BY <2>2, <3>1 DEF TableInv, InternTypeOK
  <2> QED
    BY <2>1, <2>2, Zenon DEF PlaceNext, Placing
<1>2. /\ bucket(k, mask) \in 0 .. mask /\ mask \in Nat /\ idx \in 0 .. mask
      /\ Following(idx) \in 0 .. mask
      /\ \A q \in Run(bucket(k, mask), Following(idx)) :
           q \in Run(bucket(k, mask), idx) \/ q = idx
  BY <1>1, BucketInTable, RunGrows, Zenon DEF TableInv, InternTypeOK
<1>3. InternTypeOK'
  BY <1>2, Zenon DEF TableInv, InternTypeOK, PlaceNext, table
<1>4. Distinct' /\ Chained' /\ \A i : Stored(i)' = Stored(i)
  BY TableKept, Zenon DEF PlaceNext
<1>5. Complete'
  BY <1>4, Zenon DEF TableInv, Complete, Inserting, Growing, PlaceNext
<1>6. Probed'
  <2>1. \A q \in Run(bucket(k, mask), Following(idx)) : slots[q] # 0
    BY <1>2, Zenon DEF TableInv, Probed, PlaceNext, Placing
  <2> QED
    BY <2>1 DEF TableInv, Probed, PlaceNext, Placing, Run, bucket, table
<1>7. Pending'
  BY Zenon DEF TableInv, Pending, Inserting, Growing, PlaceNext
<1> QED
  BY <1>3, <1>4, <1>5, <1>6, <1>7, Zenon DEF TableInv

(* intern.rs 88: filling an empty slot at the end of a run of filled ones  *)
(* keeps every node in reach.                                              *)
LEMMA FillKeepsChains ==
  ASSUME TableInv, NEW i \in 1 .. Len(nodes), slots[idx] = 0,
         \A q \in Run(bucket(nodes[i], mask), idx) : slots[q] # 0,
         slots' = [slots EXCEPT ![idx] = i], UNCHANGED <<hash, nodes, mask>>
  PROVE  /\ slots' \in [0 .. mask -> 0 .. Len(nodes)]
         /\ Chained'
         /\ Stored(i)' /\ \A j \in 1 .. Len(nodes) : Stored(j) => Stored(j)'
<1>1. /\ slots \in [0 .. mask -> 0 .. Len(nodes)] /\ idx \in 0 .. mask
      /\ nodes \in Seq(Keys) /\ mask \in Nat
  BY Zenon DEF TableInv, InternTypeOK
<1>2. /\ slots'[idx] = i
      /\ \A p \in 0 .. mask : p # idx => slots'[p] = slots[p]
      /\ \A p \in 0 .. mask : slots[p] # 0 => slots'[p] # 0
  BY <1>1, Zenon
<1>3. slots' \in [0 .. mask -> 0 .. Len(nodes)]
  BY <1>1
<1>4. \A b, p : Run(b, p)' = Run(b, p) /\ Run(b, p) \subseteq 0 .. mask
  BY Zenon DEF Run
<1>5. \A k, m : bucket(k, m)' = bucket(k, m)
  BY Zenon DEF bucket
<1>6. ASSUME NEW p \in 0 .. mask, slots'[p] # 0,
             NEW q \in Run(bucket(nodes[slots'[p]], mask), p)
      PROVE  slots'[q] # 0
  BY <1>1, <1>2, <1>4, <1>6, Zenon DEF TableInv, Chained
<1>7. Chained'
  BY <1>4, <1>5, <1>6 DEF Chained
<1>8. Stored(i)' /\ \A j \in 1 .. Len(nodes) : Stored(j) => Stored(j)'
  BY <1>1, <1>2 DEF Stored
<1> QED
  BY <1>3, <1>7, <1>8, Zenon

(* intern.rs 98: a node is moved to the new table.                         *)
LEMMA PlaceMovedStep ==
  ASSUME TableInv, PlaceMoved
  PROVE  TableInv'
<1>1. /\ doing = "regrow" /\ doing' = "grow" /\ slots[idx] = 0
      /\ slots' = [slots EXCEPT ![idx] = old[at]] /\ idx' = 0 /\ at' = at + 1
      /\ UNCHANGED <<hash, nodes, mask, len, key, old, answer>>
  BY Zenon DEF PlaceMoved
<1>2. PICK i \in 1 .. Len(nodes) : i = old[at]
  BY <1>1, SMTT(30) DEF TableInv, InternTypeOK, Probed
<1>0. at \in Nat /\ mask \in Nat
  BY Zenon DEF TableInv, InternTypeOK
<1>3. /\ slots' \in [0 .. mask -> 0 .. Len(nodes)] /\ Chained'
      /\ Stored(i)' /\ \A j \in 1 .. Len(nodes) : Stored(j) => Stored(j)'
  BY <1>1, <1>2, FillKeepsChains, Zenon DEF TableInv, Probed
<1>4. InternTypeOK'
  <2>1. 0 \in 0 .. mask /\ at + 1 \in Nat
    BY <1>0
  <2> QED
    BY <1>1, <1>3, <2>1, Zenon DEF TableInv, InternTypeOK, InternPC
<1>5. Distinct'
  BY <1>1, Zenon DEF TableInv, Distinct
<1>6. Probed'
  BY <1>1, Zenon DEF Probed
<1>7. Complete'
  <2>1. ASSUME NEW j \in 1 .. Len(nodes) - 1
        PROVE  Stored(j)' \/ \E p \in DOMAIN old : at + 1 <= p /\ old[p] = j
    <3>1. CASE Stored(j)
      BY <1>3, <3>1 DEF TableInv, InternTypeOK
    <3>2. CASE ~Stored(j)
      <4>1. PICK p \in DOMAIN old : at <= p /\ old[p] = j
        BY <1>1, <3>2 DEF TableInv, Complete, Growing
      <4>2. p \in Nat
        BY <1>0 DEF TableInv, InternTypeOK
      <4> QED
        BY <1>0, <1>2, <1>3, <4>1, <4>2
    <3> QED
      BY <3>1, <3>2, Zenon
  <2> QED
    BY <1>1, <2>1, Zenon DEF Complete, Inserting, Growing
<1>8. Pending'
  <2>1. PICK m \in Nat : DOMAIN old = 0 .. m /\ at \in 0 .. m
    BY <1>1, Zenon DEF TableInv, Pending, Probed, Growing
  <2>2. DOMAIN old' = 0 .. m /\ at' \in 0 .. m + 1
    BY <1>1, <2>1
  <2> QED
    BY <1>1, <2>2, Zenon DEF TableInv, Pending, Inserting, Growing
<1> QED
  BY <1>3, <1>4, <1>5, <1>6, <1>7, <1>8, Zenon DEF TableInv

(* intern.rs 78-79: the new node is in the table, and the call returns.    *)
LEMMA PlaceNewStep ==
  ASSUME TableInv, PlaceNew
  PROVE  TableInv'
<1> DEFINE i == Len(nodes)
<1>1. /\ doing = "place" /\ doing' = "idle" /\ slots[idx] = 0
      /\ slots' = [slots EXCEPT ![idx] = i] /\ idx' = 0 /\ len' = len + 1
      /\ UNCHANGED <<hash, nodes, mask, key, old, at>>
  BY Zenon DEF PlaceNew, Return
<1>2. i \in 1 .. Len(nodes) /\ nodes[i] = key /\ mask \in Nat
  BY <1>1 DEF TableInv, InternTypeOK, Pending, Inserting
<1>3. /\ slots' \in [0 .. mask -> 0 .. Len(nodes)] /\ Chained'
      /\ Stored(i)' /\ \A j \in 1 .. Len(nodes) : Stored(j) => Stored(j)'
  BY <1>1, <1>2, FillKeepsChains, Zenon DEF TableInv, Probed
<1>4. InternTypeOK'
  BY <1>1, <1>2, <1>3, SMTT(30) DEF TableInv, InternTypeOK, InternPC
<1>5. Distinct'
  BY <1>1 DEF TableInv, Distinct
<1>6. Probed' /\ Pending'
  BY <1>1, Zenon DEF Probed, Pending, Inserting, Growing
<1>7. Complete'
  <2>1. ASSUME NEW j \in 1 .. Len(nodes) PROVE Stored(j)'
    BY <1>1, <1>2, <1>3, <2>1 DEF TableInv, Complete
  <2> QED
    BY <1>1, <2>1, Zenon DEF Complete, Inserting, Growing
<1> QED
  BY <1>3, <1>4, <1>5, <1>6, <1>7, Zenon DEF TableInv

(* intern.rs 96-101: the loop over the old slots misses none of them.      *)
LEMMA GrowStep ==
  ASSUME TableInv, GrowSkip \/ GrowMove \/ GrowDone
  PROVE  TableInv'
<1>1. Distinct' /\ Chained' /\ \A i : Stored(i)' = Stored(i)
  BY TableKept, Zenon DEF GrowSkip, GrowMove, GrowDone
<1>2. PICK m \in Nat : DOMAIN old = 0 .. m /\ at \in 0 .. m + 1
  BY Zenon DEF TableInv, Pending, Growing, GrowSkip, GrowMove, GrowDone
<1>3. mask \in Nat /\ key \in Keys /\ bucket(key, mask) \in 0 .. mask
  BY BucketInTable, Zenon DEF TableInv, InternTypeOK
<1>4. CASE GrowSkip
  <2>0. at' \in Nat
    BY <1>2, <1>4 DEF GrowSkip
  <2>1. InternTypeOK'
    BY <1>4, <2>0, Zenon DEF TableInv, InternTypeOK, GrowSkip, table
  <2>2. Probed'
    BY <1>4, Zenon DEF Probed, GrowSkip
  <2>3. Complete'
    BY <1>1, <1>2, <1>4 DEF TableInv, Complete, Inserting, Growing, GrowSkip
  <2>4. Pending'
    BY <1>2, <1>4 DEF TableInv, Pending, Inserting, Growing, GrowSkip
  <2> QED
    BY <1>1, <2>1, <2>2, <2>3, <2>4, Zenon DEF TableInv
<1>5. CASE GrowMove
  <2>1. old[at] \in 1 .. Len(nodes) /\ nodes[old[at]] \in Keys
    BY <1>5 DEF TableInv, InternTypeOK, GrowMove
  <2>2. bucket(nodes[old[at]], mask) \in 0 .. mask
    BY <1>3, <2>1, BucketInTable, Zenon DEF TableInv
  <2>3. InternTypeOK'
    BY <1>5, <2>2, Zenon DEF TableInv, InternTypeOK, GrowMove, table, InternPC
  <2>4. Probed'
    <3>1. /\ doing' = "regrow" /\ at' \in DOMAIN old' /\ old'[at'] # 0
          /\ idx' = bucket(nodes[old[at]], mask)
          /\ bucket(nodes[old[at]], mask)' = idx'
      BY <1>5, Zenon DEF GrowMove, bucket, table
    <3>2. Run(idx, idx)' = {}
      BY <1>3, <2>2, <3>1 DEF Run
    <3> QED BY <3>1, <3>2, Zenon DEF Probed
  <2>5. Complete' /\ Pending'
    BY <1>1, <1>5, Zenon DEF TableInv, Complete, Pending, Inserting, Growing, GrowMove
  <2> QED
    BY <1>1, <2>3, <2>4, <2>5, Zenon DEF TableInv
<1>6. CASE GrowDone
  <2>1. InternTypeOK'
    BY <1>3, <1>6 DEF TableInv, InternTypeOK, GrowDone, table, InternPC
  <2>2. Probed'
    BY <1>3, <1>6, SMTT(30) DEF Probed, GrowDone, Run, bucket, table
  <2>3. Complete'
    BY <1>1, <1>2, <1>6 DEF TableInv, Complete, Inserting, Growing, GrowDone
  <2>4. Pending'
    BY <1>6 DEF TableInv, Pending, Inserting, Growing, GrowDone
  <2> QED
    BY <1>1, <2>1, <2>2, <2>3, <2>4, Zenon DEF TableInv
<1> QED
  BY <1>4, <1>5, <1>6

(* Every step keeps the invariant.                                         *)
LEMMA NextInv == TableInv /\ [InternNext]_internVars => TableInv'
<1> SUFFICES ASSUME TableInv, [InternNext]_internVars PROVE TableInv'
  BY Zenon
<1>1. CASE UNCHANGED internVars
  <2>1. Distinct' /\ Chained' /\ \A i : Stored(i)' = Stored(i)
    BY <1>1, TableKept, Zenon DEF internVars
  <2>2. InternTypeOK'
    BY <1>1, Zenon DEF internVars, table, TableInv, InternTypeOK
  <2>3. Probed'
    BY <1>1, Zenon DEF internVars, table, TableInv, Probed, Run, bucket
  <2>4. Complete'
    BY <1>1, <2>1, Zenon DEF internVars, table, TableInv, Complete, Inserting, Growing
  <2>5. Pending'
    BY <1>1, Zenon DEF internVars, table, TableInv, Pending, Inserting, Growing
  <2> QED
    BY <2>1, <2>2, <2>3, <2>4, <2>5, Zenon DEF TableInv
<1>2. CASE InternNext
  BY <1>2, InternStep, FindNextStep, FindHitStep, FindMissStep, PlaceNextStep,
    PlaceMovedStep, PlaceNewStep, GrowStep, Zenon DEF InternNext, Step
<1> QED
  BY <1>1, <1>2, Zenon

(* Types are kept, every node stays in reach of the probes for its key,    *)
(* and no key gets a second node.                                          *)
THEOREM TableCorrect == InternSpec => []TableInv
BY InitInv, NextInv, PTL DEF InternSpec


-----------------------------------------------------------------------------
(* Sequences of one length with the same members are the same.             *)
LEMMA SameSequence ==
  ASSUME NEW s \in Seq(Keys), NEW t \in Seq(Keys), Len(s) = Len(t),
         \A i \in 1 .. Len(s) : s[i] = t[i]
  PROVE  s = t
OBVIOUS

(* The nodes before the last, and how they make up all of them.            *)
LEMMA FrontOfNodes ==
  ASSUME NEW s \in Seq(Keys), Len(s) > 0
  PROVE  LET f == SubSeq(s, 1, Len(s) - 1)
         IN /\ f \in Seq(Keys) /\ Len(f) = Len(s) - 1
            /\ \A i \in 1 .. Len(s) - 1 : f[i] = s[i]
            /\ Append(f, s[Len(s)]) = s
<1> DEFINE f == SubSeq(s, 1, Len(s) - 1)
<1>1. Len(s) \in Nat /\ \A i \in 1 .. Len(s) : s[i] \in Keys
  OBVIOUS
<1>2. f \in Seq(Keys) /\ Len(f) = Len(s) - 1 /\ \A i \in 1 .. Len(s) - 1 : f[i] = s[i]
  <2>1. PICK n \in Nat : n = Len(s) /\ n > 0
    BY <1>1
  <2>2. SubSeq(s, 1, n - 1) \in Seq(Keys)
    BY <2>1
  <2>3. Len(SubSeq(s, 1, n - 1)) = n - 1
    BY <2>1
  <2>4. \A i \in 1 .. n - 1 : SubSeq(s, 1, n - 1)[i] = s[i]
    BY <2>1
  <2> QED
    BY <2>1, <2>2, <2>3, <2>4, Zenon
<1>3. Append(f, s[Len(s)]) = s
  <2> DEFINE g == Append(f, s[Len(s)])
  <2>1. g \in Seq(Keys) /\ Len(g) = Len(s) /\ \A i \in 1 .. Len(s) : g[i] = s[i]
    <3> HIDE DEF f
    <3> QED
      BY <1>1, <1>2
  <2> HIDE DEF g
  <2>2. g = s
    BY <1>1, <2>1, SameSequence, Zenon
  <2> QED
    BY <2>2, Zenon DEF g
<1> QED
  BY <1>2, <1>3, Zenon

(* intern.rs 67: a hit answers with the node that the key has.             *)
LEMMA HitIsIntern ==
  ASSUME TableInv, FindHit
  PROVE  Map!Next
<1>1. /\ Known = nodes /\ Known' = nodes /\ key \in Keys
      /\ slots[idx] \in 1 .. Len(nodes) /\ nodes[slots[idx]] = key
      /\ answer' = <<key, slots[idx]>>
  BY DEF TableInv, InternTypeOK, FindHit, Return, Known, Matches
<1>2. DOMAIN nodes = 1 .. Len(nodes)
  BY DEF TableInv, InternTypeOK
<1>3. Map!Knows(key)
  BY <1>1, <1>2, Zenon DEF Map!Knows
<1>4. Map!Intern(key)
  BY <1>1, <1>2, <1>3, Zenon DEF Map!Intern
<1> QED
  BY <1>1, <1>4, Zenon DEF Map!Next

(* intern.rs 78-79: the new node becomes known as the call returns.        *)
LEMMA NewIsIntern ==
  ASSUME TableInv, PlaceNew
  PROVE  Map!Next
<1>1. /\ doing = "place" /\ doing' = "idle" /\ nodes' = nodes
      /\ answer' = <<key, Len(nodes)>> /\ Len(nodes) > 0
      /\ nodes \in Seq(Keys) /\ key \in Keys /\ nodes[Len(nodes)] = key
  BY Zenon DEF TableInv, InternTypeOK, Pending, Inserting, PlaceNew, Return
<1>2. Known = SubSeq(nodes, 1, Len(nodes) - 1) /\ Known' = nodes
  BY <1>1, Zenon DEF Known
<1>3. /\ Known \in Seq(Keys) /\ Len(Known) = Len(nodes) - 1
      /\ \A i \in 1 .. Len(nodes) - 1 : Known[i] = nodes[i]
      /\ Append(Known, key) = nodes
  BY <1>1, <1>2, FrontOfNodes, Zenon
<1>4. ~Map!Knows(key)
  <2>1. \A i \in 1 .. Len(nodes) - 1 : /\ i \in 1 .. Len(nodes) /\ i # Len(nodes)
                                       /\ Len(nodes) \in 1 .. Len(nodes)
    BY <1>1
  <2>2. \A i \in 1 .. Len(Known) : Known[i] # key
    BY <1>1, <1>3, <2>1, Zenon DEF TableInv, Distinct
  <2> QED
    BY <1>3, <2>2 DEF Map!Knows
<1>5. Map!Intern(key)
  BY <1>1, <1>2, <1>3, <1>4 DEF Map!Intern
<1> QED
  BY <1>1, <1>5, Zenon DEF Map!Next

(* Every other step leaves the map and the answer alone.                   *)
LEMMA OthersStutter ==
  ASSUME TableInv, [InternNext]_internVars, ~FindHit, ~PlaceNew
  PROVE  UNCHANGED <<Known, answer>>
<1>1. CASE UNCHANGED internVars
  BY <1>1, Zenon DEF internVars, Known
<1>2. CASE \E k \in Keys : Intern(k)
  BY <1>2, Zenon DEF Intern, Known
<1>3. CASE FindNext \/ PlaceNext \/ PlaceMoved \/ GrowSkip \/ GrowMove \/ GrowDone
  BY <1>3, Zenon DEF FindNext, PlaceNext, PlaceMoved, GrowSkip, GrowMove, GrowDone,
    Known, Placing
<1>4. CASE FindMiss
  <2>1. /\ nodes \in Seq(Keys) /\ key \in Keys /\ nodes' = Append(nodes, key)
        /\ doing = "find" /\ doing' \in {"grow", "place"} /\ answer' = answer
    BY <1>4, Zenon DEF FindMiss, TableInv, InternTypeOK
  <2>2. nodes' \in Seq(Keys) /\ Len(nodes') = Len(nodes) + 1 /\ Len(nodes) \in Nat
        /\ \A i \in 1 .. Len(nodes) : nodes'[i] = nodes[i]
    BY <2>1
  <2>3. Known' = SubSeq(nodes', 1, Len(nodes') - 1) /\ Known = nodes
    BY <2>1, Zenon DEF Known
  <2>4. Known' \in Seq(Keys) /\ Len(Known') = Len(nodes') - 1
        /\ \A i \in 1 .. Len(nodes') - 1 : Known'[i] = nodes'[i]
    <3>1. \A s \in Seq(Keys) : Len(s) > 0 =>
            LET f == SubSeq(s, 1, Len(s) - 1)
            IN f \in Seq(Keys) /\ Len(f) = Len(s) - 1
               /\ \A i \in 1 .. Len(s) - 1 : f[i] = s[i]
      BY FrontOfNodes
    <3> QED
      BY <2>2, <2>3, <3>1
  <2>5. Known' = Known
    BY <2>1, <2>2, <2>3, <2>4, SameSequence
  <2> QED
    BY <2>1, <2>5, Zenon
<1> QED
  BY <1>1, <1>2, <1>3, <1>4 DEF InternNext, Step

(* intern.rs 1: the table implements the map from keys to nodes, whatever  *)
(* the hash function does.                                                 *)
THEOREM TableIsMap == InternSpec => ImplementsMap
<1>1. InternInit => Map!Init
  BY DEF InternInit, Map!Init, Known
<1>2. TableInv /\ [InternNext]_internVars => [Map!Next]_<<Known, answer>>
  BY HitIsIntern, NewIsIntern, OthersStutter, Zenon
<1> QED
  BY <1>1, <1>2, TableCorrect, PTL DEF InternSpec, ImplementsMap, Map!Spec

-----------------------------------------------------------------------------
(* The filled slots that grow has not moved yet.                           *)
Left == {p \in DOMAIN old : at <= p /\ old[p] # 0}

(* The filled slots and those to be moved are as many as the table counts, *)
(* and while a node is inserted there is room for it below one half.       *)
LoadInv ==
  /\ mask >= 1
  /\ ~Growing => Cardinality(Filled) = len
  /\ Growing => Cardinality(Filled) + Cardinality(Left) = len
  /\ ~Inserting => 2 * len <= mask + 1
  /\ Inserting => 2 * (len + 1) <= mask + 1

(* Both sets are finite.                                                   *)
LEMMA FiniteLoad ==
  ASSUME InternTypeOK
  PROVE  /\ IsFiniteSet(Filled) /\ Cardinality(Filled) \in Nat
         /\ IsFiniteSet(Left) /\ Cardinality(Left) \in Nat
<1>1. IsFiniteSet(0 .. mask)
  BY FS_Interval DEF InternTypeOK
<1>2. Filled \in SUBSET (0 .. mask) /\ Left \in SUBSET (0 .. mask)
  BY Zenon DEF InternTypeOK, Filled, Left
<1>3. IsFiniteSet(Filled) /\ IsFiniteSet(Left)
  BY <1>1, <1>2, FS_Subset, Zenon
<1> QED
  BY <1>3, FS_CardinalityType, Zenon

(* intern.rs 88: placing a node fills one slot more.                       *)
LEMMA FillAddsOne ==
  ASSUME InternTypeOK, NEW i \in 1 .. Len(nodes), slots[idx] = 0,
         slots' = [slots EXCEPT ![idx] = i]
  PROVE  Cardinality(Filled') = Cardinality(Filled) + 1
<1>1. Filled' = Filled \cup {idx} /\ idx \notin Filled
  BY DEF InternTypeOK, Filled
<1> QED
  BY <1>1, FiniteLoad, FS_AddElement, Zenon

(* The invariant of the load holds at first and is kept.                   *)
LEMMA InitLoad == InternInit => LoadInv
<1> SUFFICES ASSUME InternInit PROVE LoadInv
  BY Zenon
<1>1. Filled = {}
  BY Zenon DEF InternInit, Filled, Slots
<1>2. Cardinality(Filled) = 0
  BY <1>1, FS_EmptySet, Zenon
<1> QED
  BY <1>2, InternerAssumption DEF InternInit, LoadInv, Growing, Inserting

(* Steps that neither fill a slot nor change the stage of a call.          *)
LEMMA LoadKept ==
  ASSUME LoadInv, UNCHANGED <<slots, mask, len, old, at>>,
         Growing' = Growing, Inserting' = Inserting
  PROVE  LoadInv'
BY Zenon DEF LoadInv, Filled, Left

(* intern.rs 75: before a node is placed there is room for it below half.  *)
LEMMA MissLoad ==
  ASSUME InternTypeOK, LoadInv, FindMiss
  PROVE  LoadInv'
<1>1. mask \in Nat /\ len \in Nat /\ ~Growing /\ ~Inserting
  BY Zenon DEF InternTypeOK, FindMiss, Growing, Inserting
<1>2. CASE Crowded
  <2>1. /\ doing' = "grow" /\ len' = len /\ at' = 0 /\ old' = slots
        /\ slots' = [i \in 0 .. 2 * (mask + 1) - 1 |-> 0] /\ mask' = 2 * mask + 1
    BY <1>2, Zenon DEF FindMiss, Slots
  <2>2. Filled' = {} /\ Left' = Filled
    BY <2>1 DEF InternTypeOK, Filled, Left
  <2>3. Cardinality(Filled') = 0 /\ Cardinality(Left') = Cardinality(Filled)
    BY <2>2, FS_EmptySet, Zenon
  <2>4. 2 * (len + 1) <= 2 * mask + 2 /\ 2 * mask + 1 >= 1
    BY <1>1 DEF LoadInv
  <2> QED
    BY <1>1, <2>1, <2>3, <2>4 DEF LoadInv, Growing, Inserting
<1>3. CASE ~Crowded
  <2>1. doing' = "place" /\ UNCHANGED <<slots, mask, len>>
    BY <1>3, Zenon DEF FindMiss
  <2>2. Filled' = Filled
    BY <2>1, Zenon DEF Filled
  <2> QED
    BY <1>1, <1>3, <2>1, <2>2 DEF LoadInv, Growing, Inserting, Crowded
<1> QED
  BY <1>2, <1>3, Zenon

(* intern.rs 96-99: moving a node fills one slot and leaves one less.      *)
LEMMA MovedLoad ==
  ASSUME TableInv, LoadInv, PlaceMoved
  PROVE  LoadInv'
<1>1. /\ Growing /\ Growing' /\ Inserting /\ Inserting' /\ at' = at + 1
      /\ slots' = [slots EXCEPT ![idx] = old[at]]
      /\ UNCHANGED <<mask, len, old>>
  BY Zenon DEF PlaceMoved, Growing, Inserting
<1>2. PICK i \in 1 .. Len(nodes) : i = old[at]
  BY SMTT(30) DEF TableInv, InternTypeOK, Probed, PlaceMoved
<1>3. Cardinality(Filled') = Cardinality(Filled) + 1
  BY <1>1, <1>2, FillAddsOne, Zenon DEF TableInv, PlaceMoved
<1>a. /\ at \in Nat /\ at \in DOMAIN old /\ old[at] # 0
      /\ DOMAIN old \subseteq 0 .. mask /\ mask \in Nat
  BY Zenon DEF TableInv, InternTypeOK, Probed, PlaceMoved
<1>b. \A p \in DOMAIN old : at + 1 <= p <=> at <= p /\ p # at
  BY <1>a
<1>4. Left' = Left \ {at} /\ at \in Left
  <2>1. at <= at
    BY <1>a
  <2> QED
    BY <1>1, <1>a, <1>b, <2>1, Zenon DEF Left
<1>5. Cardinality(Left') = Cardinality(Left) - 1
  BY <1>4, FiniteLoad, FS_RemoveElement, Zenon DEF TableInv
<1> QED
  BY <1>1, <1>3, <1>5, FiniteLoad, SMTT(30) DEF LoadInv, TableInv

(* intern.rs 79: the count takes the new node in.                          *)
LEMMA NewLoad ==
  ASSUME TableInv, LoadInv, PlaceNew
  PROVE  LoadInv'
<1>1. /\ ~Growing /\ ~Growing' /\ Inserting /\ ~Inserting'
      /\ slots' = [slots EXCEPT ![idx] = Len(nodes)]
      /\ len' = len + 1 /\ mask' = mask
  BY Zenon DEF PlaceNew, Return, Growing, Inserting
<1>2. PICK i \in 1 .. Len(nodes) : i = Len(nodes)
  BY <1>1 DEF TableInv, InternTypeOK, Pending
<1>3. Cardinality(Filled') = Cardinality(Filled) + 1
  BY <1>1, <1>2, FillAddsOne, Zenon DEF TableInv, PlaceNew
<1> QED
  BY <1>1, <1>3, Zenon DEF LoadInv, TableInv, InternTypeOK

(* intern.rs 96-101: an empty slot is not counted, and at the end of the   *)
(* loop none is left.                                                      *)
LEMMA GrowLoad ==
  ASSUME TableInv, LoadInv, GrowSkip \/ GrowDone
  PROVE  LoadInv'
<1>1. UNCHANGED <<slots, mask, len>> /\ Growing /\ Inserting /\ Inserting'
  BY Zenon DEF GrowSkip, GrowDone, Growing, Inserting, table
<1>2. Filled' = Filled
  BY <1>1, Zenon DEF Filled
<1>3. CASE GrowSkip
  <2>1. Growing' /\ Left' = Left
    BY <1>3, SMTT(30) DEF GrowSkip, Growing, Left, TableInv, InternTypeOK
  <2> QED
    BY <1>1, <1>2, <2>1, Zenon DEF LoadInv
<1>4. CASE GrowDone
  <2>1. PICK m \in Nat : DOMAIN old = 0 .. m /\ at \in 0 .. m + 1
    BY <1>1 DEF TableInv, Pending
  <2>2. Left = {} /\ ~Growing'
    BY <1>4, <2>1, SMTT(30) DEF GrowDone, Growing, Left
  <2>3. Cardinality(Left) = 0
    BY <2>2, FS_EmptySet, Zenon
  <2> QED
    BY <1>1, <1>2, <2>2, <2>3, FiniteLoad DEF LoadInv, TableInv
<1> QED
  BY <1>3, <1>4

(* intern.rs 47, 75: the count is right, the table is at most half full    *)
(* between calls, and always has an empty slot.                            *)
THEOREM LoadIsHalved == InternSpec => []LoadHalved
<1>1. TableInv /\ LoadInv /\ [InternNext]_internVars => LoadInv'
  <2> SUFFICES ASSUME TableInv, LoadInv, [InternNext]_internVars PROVE LoadInv'
    BY Zenon
  <2>1. CASE UNCHANGED internVars
    BY <2>1, LoadKept, Zenon DEF internVars, table, Growing, Inserting
  <2>2. CASE \E k \in Keys : Intern(k)
    BY <2>2, LoadKept, SMTT(30) DEF Intern, table, Growing, Inserting
  <2>3. CASE FindNext \/ FindHit \/ PlaceNext \/ GrowMove
    BY <2>3, LoadKept, SMTT(30) DEF FindNext, FindHit, Return, PlaceNext, Placing, GrowMove,
      table, Growing, Inserting
  <2>4. CASE FindMiss
    BY <2>4, MissLoad DEF TableInv
  <2> QED
    BY <2>1, <2>2, <2>3, <2>4, MovedLoad, NewLoad, GrowLoad, Zenon DEF InternNext, Step
<1>2. TableInv /\ LoadInv => LoadHalved
  <2> SUFFICES ASSUME TableInv, LoadInv PROVE LoadHalved
    BY Zenon
  <2>1. /\ Cardinality(Filled) \in Nat /\ Cardinality(Left) \in Nat
        /\ mask \in Nat /\ len \in Nat /\ DOMAIN slots = 0 .. mask
    BY FiniteLoad, Zenon DEF TableInv, InternTypeOK
  <2>2. Cardinality(Filled) <= len /\ len < mask + 1
    BY <2>1 DEF LoadInv
  <2>3. Cardinality(DOMAIN slots) = mask + 1
    BY <2>1, FS_Interval
  <2>4. Filled # DOMAIN slots
    BY <2>1, <2>2, <2>3
  <2>5. doing \in {"idle", "find"} =>
          Cardinality(Filled) = len /\ 2 * len <= mask + 1
    BY Zenon DEF LoadInv, Growing, Inserting
  <2> QED
    BY <2>4, <2>5, Zenon DEF LoadHalved
<1> QED
  BY <1>1, <1>2, InitLoad, TableCorrect, PTL DEF InternSpec
=============================================================================
