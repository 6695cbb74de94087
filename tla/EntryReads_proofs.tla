------------------------- MODULE EntryReads_proofs --------------------------
(***************************************************************************)
(* Proofs about EntryReads, for any number of threads, handles and blocks: *)
(* first the verdicts and the targets, then the order of the reads and     *)
(* the changes of the archive.                                             *)
(***************************************************************************)
EXTENDS EntryReads, TLAPS

(* A thread that reads has a handle, and a block that is not past the end. *)
(* A checksum that is complete takes no more blocks.                       *)
Places ==
  /\ \A t \in Threads :
       /\ pc[t] \in {"state", "pread", "observe"} => handle[t] \in Handles
       /\ pc[t] \in {"pread", "observe"} => off[t] < Blocks
  /\ \A h \in Handles : sv[h].pos = Blocks => sv[h].disabled

(* Until the archive changes, all bytes come from the mounted one.         *)
AllMounted ==
  content = "mounted" =>
    /\ start # "altered"
    /\ \A h \in Handles : loc[h] = "mounted" /\ sv[h].clean
    /\ \A t \in Threads : buf[t] = "mounted"

(* A target is stored after it was verified.                               *)
TargetVerified ==
  verify => \A t \in Threads : pc[t] = "linkset" => buf[t] = "mounted" /\ good

ReadsInv ==
  /\ TypeOK /\ Places
  /\ AllMounted /\ VerdictRight
  /\ TargetVerified /\ TargetsAgree

-----------------------------------------------------------------------------
(* The types, in four parts.                                               *)

CallTypes ==
  /\ pc \in [Threads -> PC]
  /\ handle \in [Threads -> Handles \cup {NoHandle}]
  /\ off \in [Threads -> 0 .. Blocks]
  /\ buf \in [Threads -> Bytes]
  /\ reply \in [Threads -> Replies]

BeganTypes == began \in [Threads -> {"fresh", "shown", "stale"}]

FileTypes ==
  /\ fresh \in SUBSET Handles /\ table \in SUBSET (Handles \ fresh)
  /\ loc \in [Handles -> Bytes]
  /\ sv \in [Handles -> [pos : 0 .. Blocks, disabled : BOOLEAN, clean : BOOLEAN]]
  /\ orderly \in [Handles -> -1 .. Blocks]

PlainTypes ==
  /\ content \in Bytes /\ shown \in BOOLEAN /\ stale \in BOOLEAN
  /\ kind \in {"file", "link"} /\ good \in BOOLEAN /\ verify \in BOOLEAN
  /\ entry \in Entries /\ state \in Verdicts
  /\ start \in Bytes \cup {"unset"}
  /\ slot \in Bytes \cup {"unset"}

(* The parts make up TypeOK.                                               *)
LEMMA TypeParts ==
  TypeOK <=> CallTypes /\ BeganTypes /\ FileTypes /\ PlainTypes
BY Zenon DEF TypeOK, CallTypes, BeganTypes, FileTypes, PlainTypes

(* The ways of a thread to go on or to reply keep the types.               *)
LEMMA Moves ==
  ASSUME CallTypes, NEW t \in Threads, NEW from, NEW to \in PC,
         NEW v \in Bytes, NEW r \in Replies
  PROVE  /\ Continue(t, from, to) => CallTypes'
         /\ Fetch(t, from, to, v) => CallTypes'
         /\ Reply(t, from, r) => CallTypes'
         /\ Begin(t, to) /\ UNCHANGED call => CallTypes'
<1>1. "ready" \in PC /\ "mounted" \in Bytes /\ "none" \in Replies
  BY Zenon DEF PC, Bytes, Replies
<1>2. 0 \in 0 .. Blocks
  BY ReadsAssumption
<1>3. Continue(t, from, to) => CallTypes'
  BY Zenon DEF CallTypes, Continue, Goto, call
<1>4. Fetch(t, from, to, v) => CallTypes'
  BY DEF CallTypes, Fetch, Goto, call
<1>5. Reply(t, from, r) => CallTypes'
  BY <1>1, <1>2 DEF CallTypes, Reply, Goto, call
<1>6. Begin(t, to) /\ UNCHANGED call => CallTypes'
  BY <1>1 DEF CallTypes, Begin, Goto, call
<1> QED
  BY <1>3, <1>4, <1>5, <1>6, Zenon

(* They leave the other threads alone, and do this to the thread's own     *)
(* state.                                                                  *)
Others(t) ==
  \A u \in Threads \ {t} :
    /\ pc'[u] = pc[u] /\ handle'[u] = handle[u] /\ off'[u] = off[u]
    /\ buf'[u] = buf[u] /\ reply'[u] = reply[u]

Went(t, from, to) ==
  /\ pc[t] = from /\ pc'[t] = to
  /\ handle'[t] = handle[t] /\ off'[t] = off[t]

Replied(t, from, r) ==
  /\ pc[t] = from /\ pc'[t] = "ready" /\ reply'[t] = r /\ buf'[t] = "mounted"

(* What each of the ways does to the thread, and to no other.              *)
LEMMA Effects ==
  ASSUME CallTypes, NEW t \in Threads
  PROVE  /\ \A from, to : Continue(t, from, to) =>
              Went(t, from, to) /\ buf'[t] = buf[t] /\ reply'[t] = reply[t] /\ Others(t)
         /\ \A from, to, v : Fetch(t, from, to, v) =>
              Went(t, from, to) /\ buf'[t] = v /\ reply'[t] = reply[t] /\ Others(t)
         /\ \A from, r : Reply(t, from, r) => Replied(t, from, r) /\ Others(t)
         /\ \A to : Begin(t, to) /\ UNCHANGED call =>
              /\ Went(t, "ready", to) /\ Others(t)
              /\ buf'[t] = buf[t] /\ reply'[t] = "none"
<1> USE DEF CallTypes, Others, Goto, call
<1>1. ASSUME NEW from, NEW to, Continue(t, from, to)
      PROVE  Went(t, from, to) /\ buf'[t] = buf[t] /\ reply'[t] = reply[t] /\ Others(t)
  BY <1>1, Zenon DEF Continue, Went
<1>2. ASSUME NEW from, NEW to, NEW v, Fetch(t, from, to, v)
      PROVE  Went(t, from, to) /\ buf'[t] = v /\ reply'[t] = reply[t] /\ Others(t)
  BY <1>2, Zenon DEF Fetch, Went
<1>3. ASSUME NEW from, NEW r, Reply(t, from, r)
      PROVE  Replied(t, from, r) /\ Others(t)
  BY <1>3, Zenon DEF Reply, Replied
<1>4. ASSUME NEW to, Begin(t, to), UNCHANGED call
      PROVE  /\ Went(t, "ready", to) /\ Others(t)
             /\ buf'[t] = buf[t] /\ reply'[t] = "none"
  BY <1>4, Zenon DEF Begin, Went
<1> QED
  BY <1>1, <1>2, <1>3, <1>4, Zenon

(* The steps of a thread that are no part of a read.                       *)
Away(t) ==
  \/ Open(t) \/ Release(t) \/ Readlink(t) \/ Insert(t)
  \/ LocateCached(t) \/ LocateUnset(t) \/ Header(t) \/ StoreStart(t)
  \/ LinkState(t) \/ LinkTooLong(t) \/ LinkRead(t)
  \/ LinkVerify(t) \/ LinkSet(t) \/ Diagnose(t)

(* None of them leads to one of the places of a read.                      *)
LEMMA Elsewhere ==
  ASSUME CallTypes, NEW t \in Threads, Away(t)
  PROVE  Others(t) /\ pc'[t] \notin {"state", "pread", "observe"}
<1>1. CASE Open(t) \/ Release(t) \/ Readlink(t) \/ Insert(t)
  <2>1. pc'[t] \notin {"state", "pread", "observe"}
    BY <1>1, Effects, SMTT(30) DEF Open, Release, Readlink, Insert, Went, Replied
  <2>2. Others(t)
    BY <1>1, Effects, Zenon DEF Open, Release, Readlink, Insert
  <2> QED
    BY <2>1, <2>2
<1>2. CASE LocateCached(t) \/ LocateUnset(t) \/ Header(t) \/ StoreStart(t)
  <2>1. pc'[t] \notin {"state", "pread", "observe"}
    BY <1>2, Effects, SMTT(30) DEF LocateCached, LocateUnset, Header, StoreStart,
                                   Located, Went, Replied
  <2>2. Others(t)
    BY <1>2, Effects, Zenon DEF LocateCached, LocateUnset, Header, StoreStart
  <2> QED
    BY <2>1, <2>2
<1>3. CASE LinkState(t) \/ LinkTooLong(t) \/ LinkRead(t)
  <2>1. pc'[t] \notin {"state", "pread", "observe"}
    BY <1>3, Effects, SMTT(30) DEF LinkState, LinkTooLong, LinkRead, Went, Replied
  <2>2. Others(t)
    BY <1>3, Effects, Zenon DEF LinkState, LinkTooLong, LinkRead
  <2> QED
    BY <2>1, <2>2
<1>4. CASE LinkVerify(t) \/ LinkSet(t) \/ Diagnose(t)
  <2>1. pc'[t] \notin {"state", "pread", "observe"}
    BY <1>4, Effects, SMTT(30) DEF LinkVerify, LinkSet, Diagnose, Went, Replied
  <2>2. Others(t)
    BY <1>4, Effects, Zenon DEF LinkVerify, LinkSet, Diagnose
  <2> QED
    BY <2>1, <2>2
<1> QED
  BY <1>1, <1>2, <1>3, <1>4, Zenon DEF Away

(* Each step keeps the types of the calls.                                 *)
LEMMA CallsTyped ==
  ASSUME TypeOK, Places, Next
  PROVE  CallTypes'
<1> USE ReadsAssumption, TypeParts, Moves
<1>0. CallTypes
  BY Zenon
<1>w. /\ PC = {"ready", "state", "pread", "observe", "diagnose", "locate", "header",
                "store", "insert", "linkstate", "linkread", "linkverify", "linkset"}
      /\ {"none", "opened", "data", "empty", "eio", "estale", "ebadf", "refused",
          "released"} \cup Bytes \subseteq Replies
      /\ Located \in PC
  BY Zenon DEF PC, Replies, Located
<1>v. /\ content \in Bytes /\ start \in Bytes \cup {"unset"} /\ slot \in Bytes \cup {"unset"}
      /\ \A t \in Threads : buf[t] \in Bytes
      /\ \A w \in Bytes : BytesAt(w) \in Bytes
      /\ \A h \in Handles : loc[h] \in Bytes
  BY Zenon DEF PlainTypes, CallTypes, FileTypes, BytesAt, Bytes
<1>1. CASE Alter \/ Show
  BY <1>0, <1>1, Zenon DEF Alter, Show, CallTypes, call
<1>2. ASSUME NEW t \in Threads, Open(t) \/ Release(t) \/ Readlink(t)
      PROVE  CallTypes'
  BY <1>0, <1>w, <1>v, <1>2, ZenonT(40) DEF Open, Release, Readlink
<1>4. ASSUME NEW t \in Threads, LocateCached(t) \/ LocateUnset(t) \/ StoreStart(t)
      PROVE  CallTypes'
  BY <1>0, <1>w, <1>v, <1>4, Zenon DEF LocateCached, LocateUnset, StoreStart
<1>5. ASSUME NEW t \in Threads, Header(t) \/ Insert(t) \/ ReadState(t) \/ Diagnose(t)
      PROVE  CallTypes'
  BY <1>0, <1>w, <1>v, <1>5, ZenonT(40) DEF Header, Insert, ReadState, Diagnose
<1>9. ASSUME NEW t \in Threads, LinkState(t) \/ LinkTooLong(t) \/ LinkVerify(t) \/ LinkSet(t)
      PROVE  CallTypes'
  BY <1>0, <1>w, <1>v, <1>9, ZenonT(40) DEF LinkState, LinkTooLong, LinkVerify, LinkSet
<1>10. ASSUME NEW t \in Threads, LinkRead(t)
      PROVE  CallTypes'
  BY <1>0, <1>w, <1>v, <1>10, Zenon DEF LinkRead
<1>11. ASSUME NEW t \in Threads, Read(t)
      PROVE  CallTypes'
  <2>1. PICK h \in Handles \ fresh, o \in 0 .. Blocks :
          \/ Reply(t, "ready", "ebadf")
          \/ Reply(t, "ready", "estale")
          \/ /\ Begin(t, "state")
             /\ handle' = [handle EXCEPT ![t] = h] /\ off' = [off EXCEPT ![t] = o]
    BY <1>11, Zenon DEF Read
  <2>2. CASE Begin(t, "state") /\ handle' = [handle EXCEPT ![t] = h]
             /\ off' = [off EXCEPT ![t] = o]
    BY <1>0, <1>w, <2>2, Zenon DEF CallTypes, Begin, Goto
  <2> QED
    BY <1>0, <1>w, <1>v, <2>1, <2>2, Zenon
<1>12. ASSUME NEW t \in Threads, Pread(t)
      PROVE  CallTypes'
  <2>1. pc[t] = "pread"
    BY <1>12, Zenon DEF Pread, Fetch, Reply, Continue, Goto
  <2>2. handle[t] \in Handles
    BY <2>1, Zenon DEF Places
  <2> QED
    BY <1>0, <1>w, <1>v, <1>12, <2>2, Zenon DEF Pread
<1>13. ASSUME NEW t \in Threads, Observe(t)
      PROVE  CallTypes'
  <2>1. Reply(t, "observe", "data") \/ Continue(t, "observe", "diagnose")
    BY <1>13, Zenon DEF Observe, Delivered
  <2> QED
    BY <1>0, <1>w, <1>v, <2>1, Zenon
<1> QED
  BY <1>1, <1>2, <1>4, <1>5, <1>9, <1>10, <1>11, <1>12, <1>13, Zenon DEF Next, Proceed

(* Each step keeps the types of what is remembered of the beginnings.      *)
LEMMA BeganTyped ==
  ASSUME BeganTypes, Next
  PROVE  BeganTypes'
<1>1. ASSUME NEW t \in Threads,
             \/ GuardFinds \/ GuardFails(t) \/ GuardPasses
             \/ Request(t, "file") \/ Request(t, "link")
             \/ UNCHANGED began
      PROVE  BeganTypes'
  BY <1>1, Zenon DEF GuardFinds, GuardFails, GuardPasses, Request, BeganTypes
<1>2. CASE Alter \/ Show
  BY <1>2, Zenon DEF Alter, Show, BeganTypes
<1>3. ASSUME NEW t \in Threads,
             Open(t) \/ Release(t) \/ Readlink(t) \/ Read(t)
      PROVE  BeganTypes'
  BY <1>1, <1>3, Zenon DEF Open, Release, Readlink, Read
<1>4. ASSUME NEW t \in Threads,
             Header(t) \/ Pread(t) \/ LinkRead(t) \/ Diagnose(t)
      PROVE  BeganTypes'
  BY <1>1, <1>4, Zenon DEF Header, Pread, LinkRead, Diagnose
<1>5. ASSUME NEW t \in Threads,
             \/ LocateCached(t) \/ LocateUnset(t) \/ StoreStart(t) \/ Insert(t)
             \/ ReadState(t) \/ Observe(t)
             \/ LinkState(t) \/ LinkTooLong(t) \/ LinkVerify(t) \/ LinkSet(t)
      PROVE  UNCHANGED began
  BY <1>5, Zenon
  DEF LocateCached, LocateUnset, StoreStart, Insert, ReadState, Observe,
      LinkState, LinkTooLong, LinkVerify, LinkSet
<1> QED
  BY <1>1, <1>2, <1>3, <1>4, <1>5, Zenon DEF Next, Proceed

(* The steps of a thread that leave the open files alone.                  *)
FilesAlone(t) ==
  \/ Open(t) \/ Readlink(t)
  \/ LocateCached(t) \/ LocateUnset(t) \/ Header(t) \/ StoreStart(t)
  \/ ReadState(t) \/ Pread(t) \/ Diagnose(t)
  \/ LinkState(t) \/ LinkTooLong(t) \/ LinkRead(t) \/ LinkVerify(t) \/ LinkSet(t)

(* These steps change nothing of the open files.                           *)
LEMMA FilesSame ==
  ASSUME NEW t \in Threads, FilesAlone(t)
  PROVE  UNCHANGED files
BY Zenon
DEF FilesAlone, Open, Readlink, LocateCached, LocateUnset, Header, StoreStart,
    ReadState, Pread, Diagnose, LinkState, LinkTooLong, LinkRead, LinkVerify, LinkSet

(* The checksum of the entry with the block thread t holds, and that block *)
(* taken into it.                                                          *)
Clean(t) ==
  sv[handle[t]].clean /\ off[t] = sv[handle[t]].pos /\ buf[t] = "mounted"

Taken(t) ==
  /\ verify /\ Awaited(handle[t], off[t])
  /\ sv' = [sv EXCEPT ![handle[t]] =
              [pos |-> @.pos + 1, disabled |-> Complete(handle[t]), clean |-> Clean(t)]]

(* The ways Observe can go.                                                *)
Unverified(t) == ~verify /\ Delivered(t, handle[t]) /\ UNCHANGED <<sv, state>>

GivenUp(t) ==
  /\ verify /\ ~Awaited(handle[t], off[t])
  /\ sv' = [sv EXCEPT ![handle[t]].disabled = TRUE]
  /\ Delivered(t, handle[t]) /\ UNCHANGED state

TakenMore(t) ==
  Taken(t) /\ ~Complete(handle[t]) /\ Delivered(t, handle[t]) /\ UNCHANGED state

TakenOk(t) ==
  /\ Taken(t) /\ Complete(handle[t]) /\ Clean(t) /\ good /\ state' = "ok"
  /\ Delivered(t, handle[t])

TakenBad(t) ==
  /\ Taken(t) /\ Complete(handle[t]) /\ ~(Clean(t) /\ good) /\ state' = "bad"
  /\ Continue(t, "observe", "diagnose")
  /\ orderly' = [orderly EXCEPT ![handle[t]] = -1]

(* Observe goes one of these ways, and changes nothing else.               *)
LEMMA ObserveWays ==
  ASSUME NEW t \in Threads, Observe(t)
  PROVE  /\ pc[t] = "observe"
         /\ \/ Unverified(t) \/ GivenUp(t)
            \/ TakenMore(t) \/ TakenOk(t) \/ TakenBad(t)
         /\ UNCHANGED <<archive, stale, constant, start, slot, fresh, table, loc, began>>
BY Zenon DEF Observe, Unverified, GivenUp, TakenMore, TakenOk, TakenBad, Taken, Clean

(* What a block taken into a checksum does to it.                          *)
LEMMA TakenEffect ==
  ASSUME FileTypes, NEW t \in Threads, handle[t] \in Handles, Taken(t)
  PROVE  /\ sv'[handle[t]].pos = sv[handle[t]].pos + 1
         /\ sv'[handle[t]].disabled <=> Complete(handle[t])
         /\ sv'[handle[t]].clean <=> Clean(t)
         /\ \A g \in Handles \ {handle[t]} : sv'[g] = sv[g]
<1>1. sv'[handle[t]] = [pos |-> sv[handle[t]].pos + 1, disabled |-> Complete(handle[t]),
                        clean |-> Clean(t)]
  BY Zenon DEF Taken, FileTypes
<1>2. \A g \in Handles \ {handle[t]} : sv'[g] = sv[g]
  BY Zenon DEF Taken, FileTypes
<1>3. /\ sv'[handle[t]].pos = sv[handle[t]].pos + 1
      /\ sv'[handle[t]].disabled = Complete(handle[t])
      /\ sv'[handle[t]].clean = Clean(t)
  BY <1>1, SMT
<1>4. ASSUME NEW b, NEW c, b = c
      PROVE  b <=> c
  BY <1>4, Zenon
<1> QED
  BY <1>2, <1>3, <1>4, Zenon

(* Each step keeps the types of the open files.                            *)
LEMMA FilesTyped ==
  ASSUME TypeOK, Places, Next
  PROVE  FileTypes'
<1>0. CallTypes /\ FileTypes /\ PlainTypes
  BY TypeParts, Zenon
<1>1. CASE UNCHANGED files
  BY <1>0, <1>1, Zenon DEF files, FileTypes
<1>2. CASE Alter \/ Show
  BY <1>1, <1>2, Zenon DEF Alter, Show
<1>3. ASSUME NEW t \in Threads, Insert(t)
      PROVE  FileTypes'
  BY <1>0, <1>3 DEF Insert, FileTypes, CallTypes
<1>4. ASSUME NEW t \in Threads, Release(t)
      PROVE  FileTypes'
  BY <1>0, <1>4, Zenon DEF Release, FileTypes
<1>5. ASSUME NEW t \in Threads, Read(t)
      PROVE  FileTypes'
  <2>1. UNCHANGED <<fresh, table, loc, sv>>
    BY <1>5, Zenon DEF Read
  <2>2. PICK h \in Handles :
          UNCHANGED orderly \/ orderly' = [orderly EXCEPT ![h] = -1]
    BY <1>5, Zenon DEF Read
  <2>3. -1 \in -1 .. Blocks
    BY ReadsAssumption
  <2> QED
    BY <1>0, <2>1, <2>2, <2>3, Zenon DEF FileTypes
<1>6. ASSUME NEW t \in Threads, Observe(t)
      PROVE  FileTypes'
  <2> DEFINE h == handle[t]
  <2>1. /\ h \in Handles /\ off[t] < Blocks /\ off[t] \in 0 .. Blocks
        /\ sv[h] \in [pos : 0 .. Blocks, disabled : BOOLEAN, clean : BOOLEAN]
    BY <1>0, <1>6, ObserveWays, Zenon DEF Places, CallTypes, FileTypes
  <2>2. UNCHANGED <<fresh, table, loc>>
    BY <1>6, ObserveWays, Zenon
  <2>3. orderly' \in [Handles -> -1 .. Blocks]
    <3>1. \/ orderly' = [orderly EXCEPT ![h] = -1]
          \/ orderly' = [orderly EXCEPT ![h] = IF @ = -1 THEN -1 ELSE off[t] + 1]
      BY <1>6, ObserveWays, Zenon
      DEF Unverified, GivenUp, TakenMore, TakenOk, TakenBad, Delivered
    <3> QED
      BY <1>0, <2>1, <3>1, ReadsAssumption DEF FileTypes
  <2>4. sv' \in [Handles -> [pos : 0 .. Blocks, disabled : BOOLEAN, clean : BOOLEAN]]
    <3>1. CASE UNCHANGED sv
      BY <1>0, <3>1, Zenon DEF FileTypes
    <3>2. CASE sv' = [sv EXCEPT ![h].disabled = TRUE]
      BY <1>0, <2>1, <3>2, Zenon DEF FileTypes
    <3>3. CASE Taken(t)
      <4>1. sv[h].pos + 1 \in 0 .. Blocks
        BY <2>1, <3>3, ReadsAssumption DEF Taken, Awaited
      <4>2. Complete(h) \in BOOLEAN /\ Clean(t) \in BOOLEAN
        BY <2>1 DEF Complete, Clean
      <4> QED
        BY <1>0, <2>1, <3>3, <4>1, <4>2, Zenon DEF FileTypes, Taken
    <3> QED
      BY <1>6, <3>1, <3>2, <3>3, ObserveWays, Zenon
      DEF Unverified, GivenUp, TakenMore, TakenOk, TakenBad
  <2> QED
    BY <1>0, <2>2, <2>3, <2>4, Zenon DEF FileTypes
<1> QED
  BY <1>1, <1>2, <1>3, <1>4, <1>5, <1>6, FilesSame, Zenon DEF Next, Proceed, FilesAlone

(* No step of a thread changes the archive, the entry or the settings, or  *)
(* resets GuardedFile::stale.                                              *)
Stays == UNCHANGED <<archive, constant>> /\ (UNCHANGED stale \/ stale' = TRUE)

(* fs.rs 121-448, guard.rs 278-329: every step of a call is one of those. *)
LEMMA ThreadStays ==
  ASSUME NEW t \in Threads,
         Open(t) \/ Release(t) \/ Read(t) \/ Readlink(t) \/ Proceed(t)
  PROVE  Stays
<1>1. CASE Open(t) \/ Release(t) \/ Read(t) \/ Readlink(t)
  BY <1>1, Zenon DEF Open, Release, Read, Readlink, Stays
<1>2. CASE LocateCached(t) \/ LocateUnset(t) \/ StoreStart(t) \/ Insert(t)
           \/ ReadState(t) \/ Observe(t)
  BY <1>2, Zenon
  DEF LocateCached, LocateUnset, StoreStart, Insert, ReadState, Observe, Stays
<1>3. CASE Header(t) \/ Pread(t) \/ LinkRead(t) \/ Diagnose(t)
  BY <1>3, Zenon
  DEF Header, Pread, LinkRead, Diagnose, GuardFinds, GuardFails, GuardPasses, Stays
<1>4. CASE LinkState(t) \/ LinkTooLong(t) \/ LinkVerify(t) \/ LinkSet(t)
  BY <1>4, Zenon DEF LinkState, LinkTooLong, LinkVerify, LinkSet, Stays
<1> QED
  BY <1>1, <1>2, <1>3, <1>4, Zenon DEF Proceed

(* The entry and the settings never change.                                *)
LEMMA ConstantSame ==
  ASSUME Next
  PROVE  UNCHANGED <<kind, good, entry, verify>>
BY ThreadStays, Zenon DEF Next, Alter, Show, Stays, constant

(* A thread leaves the archive alone.                                      *)
LEMMA ArchiveSame ==
  ASSUME Next
  PROVE  Alter \/ Show \/ UNCHANGED <<content, shown>>
BY ThreadStays, Zenon DEF Next, Stays, archive

(* GuardedFile::stale is set and never reset.                              *)
LEMMA StaleStays ==
  ASSUME Next
  PROVE  UNCHANGED stale \/ stale' = TRUE
BY ThreadStays, Zenon DEF Next, Alter, Show, Stays

(* The steps that change what the index remembers.                         *)
LEMMA IndexSteps ==
  ASSUME Next
  PROVE  \/ UNCHANGED <<state, start, slot>>
         \/ \E t \in Threads :
              StoreStart(t) \/ Observe(t) \/ LinkVerify(t) \/ LinkSet(t)
<1>1. ASSUME NEW t \in Threads,
             \/ Open(t) \/ Release(t) \/ Read(t) \/ Readlink(t)
             \/ LocateCached(t) \/ LocateUnset(t) \/ Header(t) \/ Insert(t)
      PROVE  UNCHANGED index
  BY <1>1, Zenon
  DEF Open, Release, Read, Readlink, LocateCached, LocateUnset, Header, Insert
<1>2. ASSUME NEW t \in Threads,
             \/ ReadState(t) \/ Pread(t) \/ LinkState(t) \/ LinkTooLong(t)
             \/ LinkRead(t) \/ Diagnose(t)
      PROVE  UNCHANGED index
  BY <1>2, Zenon DEF ReadState, Pread, LinkState, LinkTooLong, LinkRead, Diagnose
<1> QED
  BY <1>1, <1>2, Zenon DEF Next, Proceed, Alter, Show, index

(* Each step keeps the types of the rest.                                  *)
LEMMA PlainTyped ==
  ASSUME TypeOK, Next
  PROVE  PlainTypes'
<1>0. CallTypes /\ PlainTypes
  BY TypeParts, Zenon
<1>1. /\ kind' \in {"file", "link"} /\ good' \in BOOLEAN /\ verify' \in BOOLEAN
      /\ entry' \in Entries
  BY <1>0, ConstantSame, Zenon DEF PlainTypes
<1>2. content' \in Bytes /\ shown' \in BOOLEAN
  BY <1>0, ArchiveSame, Zenon DEF PlainTypes, Alter, Show, Bytes
<1>3. stale' \in BOOLEAN
  BY <1>0, StaleStays, Zenon DEF PlainTypes
<1> DEFINE IndexTyped == /\ state' \in Verdicts
                         /\ start' \in Bytes \cup {"unset"}
                         /\ slot' \in Bytes \cup {"unset"}
<1>4. IndexTyped
  <2>1. ASSUME NEW t \in Threads, StoreStart(t) \/ LinkSet(t)
        PROVE  IndexTyped
    BY <1>0, <2>1, Zenon DEF StoreStart, LinkSet, PlainTypes, CallTypes
  <2>2. ASSUME NEW t \in Threads, LinkVerify(t)
        PROVE  IndexTyped
    BY <1>0, <2>2, Zenon DEF LinkVerify, PlainTypes, Verdicts
  <2>3. ASSUME NEW t \in Threads, Observe(t)
        PROVE  IndexTyped
    <3>1. UNCHANGED <<start, slot>>
      BY <2>3, ObserveWays, Zenon
    <3>2. UNCHANGED state \/ state' = "ok" \/ state' = "bad"
      BY <2>3, ObserveWays, Zenon DEF Unverified, GivenUp, TakenMore, TakenOk, TakenBad
    <3> QED
      BY <1>0, <3>1, <3>2, Zenon DEF PlainTypes, Verdicts
  <2>4. CASE UNCHANGED <<state, start, slot>>
    BY <1>0, <2>4, Zenon DEF PlainTypes
  <2> QED
    BY <2>1, <2>2, <2>3, <2>4, IndexSteps, Zenon
<1> QED
  BY <1>1, <1>2, <1>3, <1>4, Zenon DEF PlainTypes

-----------------------------------------------------------------------------
(* A thread at one of the places of a read keeps its handle and its block, *)
(* and gets there by Read, ReadState and Pread.                            *)
LEMMA PlacesKept ==
  ASSUME TypeOK, Places, Next
  PROVE  Places'
<1>0. CallTypes /\ FileTypes
  BY TypeParts, Zenon
<1> DEFINE Placed == \A u \in Threads :
              /\ pc'[u] \in {"state", "pread", "observe"} => handle'[u] \in Handles
              /\ pc'[u] \in {"pread", "observe"} => off'[u] < Blocks
<1>a. ASSUME NEW t \in Threads, NEW from, NEW to, Went(t, from, to), Others(t),
             \/ to \notin {"state", "pread", "observe"}
             \/ from = "pread" /\ to = "observe"
             \/ from = "state" /\ to = "pread" /\ off[t] < Blocks
      PROVE  Placed
  BY <1>a DEF Went, Others, Places
<1>b. ASSUME NEW t \in Threads, NEW from, NEW r, Replied(t, from, r), Others(t)
      PROVE  Placed
  BY <1>b, Zenon DEF Replied, Others, Places
<1>2. ASSUME Alter \/ Show
      PROVE  Placed
  BY <1>2, Zenon DEF Alter, Show, call, Places
<1>3. ASSUME NEW t \in Threads, Read(t)
      PROVE  Placed
  <2>1. PICK h \in Handles, o \in 0 .. Blocks :
          \/ \E r : Reply(t, "ready", r)
          \/ /\ Begin(t, "state")
             /\ handle' = [handle EXCEPT ![t] = h] /\ off' = [off EXCEPT ![t] = o]
    BY <1>3, Zenon DEF Read
  <2>2. CASE Begin(t, "state") /\ handle' = [handle EXCEPT ![t] = h]
             /\ off' = [off EXCEPT ![t] = o]
    <3>1. pc'[t] = "state" /\ handle'[t] = h /\ Others(t)
      BY <1>0, <2>2, Zenon DEF Begin, Goto, CallTypes, Others
    <3> QED
      BY <3>1, Zenon DEF Others, Places
  <2> QED
    BY <1>0, <1>b, <2>1, <2>2, Effects, Zenon
<1>5. ASSUME NEW t \in Threads, Away(t)
      PROVE  Placed
  BY <1>0, <1>5, Elsewhere, Zenon DEF Others, Places
<1>4. ASSUME NEW t \in Threads, ReadState(t) \/ Pread(t)
      PROVE  Placed
  BY <1>0, <1>a, <1>b, <1>4, Effects DEF ReadState, Pread
<1>7. ASSUME NEW t \in Threads, Observe(t)
      PROVE  Placed
  <2>1. Reply(t, "observe", "data") \/ Continue(t, "observe", "diagnose")
    BY <1>7, ObserveWays, ZenonT(40)
    DEF Unverified, GivenUp, TakenMore, TakenOk, TakenBad, Delivered
  <2> QED
    BY <1>0, <1>a, <1>b, <2>1, Effects
<1>8. Placed
  BY <1>2, <1>3, <1>4, <1>5, <1>7, Zenon DEF Next, Proceed, Away
<1> DEFINE Ended == \A h \in Handles : sv'[h].pos = Blocks => sv'[h].disabled
<1>9. Ended
  <2>1. CASE UNCHANGED sv
    BY <2>1, Zenon DEF Places
  <2>2. ASSUME NEW t \in Threads, Observe(t)
        PROVE  Ended
    <3>1. /\ handle[t] \in Handles
          /\ sv[handle[t]] \in [pos : 0 .. Blocks, disabled : BOOLEAN, clean : BOOLEAN]
      BY <1>0, <2>2, ObserveWays, Zenon DEF Places, FileTypes
    <3>2. CASE sv' = [sv EXCEPT ![handle[t]].disabled = TRUE]
      BY <1>0, <3>1, <3>2, Zenon DEF Places, FileTypes
    <3>3. CASE Taken(t)
      <4>1. /\ sv'[handle[t]].pos = sv[handle[t]].pos + 1
            /\ sv'[handle[t]].disabled <=> Complete(handle[t])
            /\ \A g \in Handles \ {handle[t]} : sv'[g] = sv[g]
        BY <1>0, <3>1, <3>3, TakenEffect, Zenon
      <4>2. sv'[handle[t]].pos = Blocks => Complete(handle[t])
        BY <3>1, <4>1, ReadsAssumption DEF Complete
      <4> QED
        BY <4>1, <4>2, Zenon DEF Places
    <3> QED
      BY <2>1, <2>2, <3>2, <3>3, ObserveWays, Zenon
      DEF Unverified, GivenUp, TakenMore, TakenOk, TakenBad
  <2>3. ASSUME NEW t \in Threads, Insert(t) \/ Release(t) \/ Read(t) \/ FilesAlone(t)
        PROVE  UNCHANGED sv
    BY <2>3, FilesSame, Zenon DEF Insert, Release, Read, files
  <2>4. CASE Alter \/ Show
    BY <2>1, <2>4, Zenon DEF Alter, Show, files
  <2> QED
    BY <2>1, <2>2, <2>3, <2>4, Zenon DEF Next, Proceed, FilesAlone
<1> QED
  BY <1>8, <1>9, Zenon DEF Places

-----------------------------------------------------------------------------
(* Until the archive changes, no step brings in other bytes than the       *)
(* mounted ones, and no verdict is wrong.                                  *)
LEMMA MountedKept ==
  ASSUME TypeOK, Places, AllMounted, VerdictRight, Next
  PROVE  AllMounted' /\ VerdictRight'
<1> SUFFICES ASSUME content' = "mounted"
             PROVE  /\ start' # "altered"
                    /\ \A h \in Handles : loc'[h] = "mounted" /\ sv'[h].clean
                    /\ \A t \in Threads : buf'[t] = "mounted"
                    /\ (state' = "ok" => good') /\ (state' = "bad" => ~good')
  BY Zenon DEF AllMounted, VerdictRight
<1>0. CallTypes /\ FileTypes /\ PlainTypes
  BY TypeParts, Zenon
<1>1. content = "mounted"
  BY ArchiveSame, Zenon DEF Alter, Show
<1>2. /\ start # "altered"
      /\ \A h \in Handles : loc[h] = "mounted" /\ sv[h].clean
      /\ \A t \in Threads : buf[t] = "mounted"
      /\ (state = "ok" => good) /\ (state = "bad" => ~good)
  BY <1>1, Zenon DEF AllMounted, VerdictRight
<1>3. start' # "altered"
  <2>1. ASSUME NEW t \in Threads, StoreStart(t)
        PROVE  start' # "altered"
    BY <1>2, <2>1, Zenon DEF StoreStart
  <2>2. ASSUME NEW t \in Threads, Observe(t) \/ LinkVerify(t) \/ LinkSet(t)
        PROVE  UNCHANGED start
    BY <2>2, ObserveWays, ZenonT(40) DEF LinkVerify, LinkSet
  <2> QED
    BY <1>2, <2>1, <2>2, IndexSteps, Zenon
<1> DEFINE MountedFiles == \A h \in Handles : loc'[h] = "mounted" /\ sv'[h].clean
<1>4. MountedFiles
  <2>1. ASSUME UNCHANGED <<loc, sv>>
        PROVE  MountedFiles
    BY <1>2, <2>1, Zenon
  <2>2. ASSUME NEW t \in Threads, Insert(t)
        PROVE  MountedFiles
    BY <1>0, <1>2, <2>2 DEF Insert, FileTypes
  <2>3. ASSUME NEW t \in Threads, Observe(t)
        PROVE  MountedFiles
    <3>1. handle[t] \in Handles /\ UNCHANGED loc
      BY <2>3, ObserveWays, Zenon DEF Places
    <3>2. CASE Taken(t)
      <4>1. Clean(t)
        BY <1>2, <3>1, <3>2, Zenon DEF Clean, Taken, Awaited
      <4> QED
        BY <1>0, <1>2, <3>1, <3>2, <4>1, TakenEffect, Zenon
    <3>3. CASE sv' = [sv EXCEPT ![handle[t]].disabled = TRUE]
      BY <1>0, <1>2, <3>1, <3>3 DEF FileTypes
    <3> QED
      BY <2>1, <2>3, <3>1, <3>2, <3>3, ObserveWays, Zenon
      DEF Unverified, GivenUp, TakenMore, TakenOk, TakenBad
  <2>4. ASSUME NEW t \in Threads, Release(t) \/ Read(t) \/ FilesAlone(t)
        PROVE  UNCHANGED <<loc, sv>>
    BY <2>4, FilesSame, Zenon DEF Release, Read, files
  <2>5. ASSUME Alter \/ Show
        PROVE  UNCHANGED <<loc, sv>>
    BY <2>5, Zenon DEF Alter, Show, files
  <2> QED
    BY <2>1, <2>2, <2>3, <2>4, <2>5, Zenon DEF Next, Proceed, FilesAlone
<1> DEFINE MountedBuf == \A t \in Threads : buf'[t] = "mounted"
<1>5. MountedBuf
  <2>1. ASSUME NEW t \in Threads, Others(t), buf'[t] = "mounted"
        PROVE  MountedBuf
    BY <1>2, <2>1, Zenon DEF Others
  <2>2. ASSUME UNCHANGED buf
        PROVE  MountedBuf
    BY <1>2, <2>2, Zenon
  <2>3. ASSUME NEW t \in Threads, NEW from, NEW to, NEW v, NEW r,
               \/ Continue(t, from, to) \/ Reply(t, from, r) \/ Begin(t, to)
               \/ Fetch(t, from, to, v) /\ v = "mounted"
        PROVE  MountedBuf
    BY <1>0, <1>2, <2>1, <2>2, <2>3, Effects DEF Replied, Begin
  <2>4. BytesAt("mounted") = "mounted"
    BY <1>1, Zenon DEF BytesAt
  <2>5. ASSUME NEW t \in Threads,
               Open(t) \/ Release(t) \/ Readlink(t) \/ Read(t)
        PROVE  MountedBuf
    BY <2>3, <2>5, Zenon DEF Open, Release, Readlink, Read
  <2>6. ASSUME NEW t \in Threads,
               LocateCached(t) \/ LocateUnset(t) \/ Header(t) \/ StoreStart(t)
        PROVE  MountedBuf
    BY <1>0, <1>1, <1>2, <2>3, <2>6, Zenon
    DEF LocateCached, LocateUnset, Header, StoreStart, PlainTypes, Bytes
  <2>7. ASSUME NEW t \in Threads, Insert(t) \/ ReadState(t) \/ Diagnose(t)
        PROVE  MountedBuf
    BY <2>3, <2>7, Zenon DEF Insert, ReadState, Diagnose
  <2>8. ASSUME NEW t \in Threads, Pread(t)
        PROVE  MountedBuf
    <3>1. pc[t] = "pread"
      BY <2>8, Zenon DEF Pread, Fetch, Reply, Continue, Goto
    <3>2. loc[handle[t]] = "mounted"
      BY <1>2, <3>1, Zenon DEF Places
    <3> QED
      BY <2>3, <2>4, <2>8, <3>2, Zenon DEF Pread
  <2>9. ASSUME NEW t \in Threads, LinkRead(t)
        PROVE  MountedBuf
    BY <1>2, <2>3, <2>4, <2>9, Zenon DEF LinkRead
  <2>10. ASSUME NEW t \in Threads,
                LinkState(t) \/ LinkTooLong(t) \/ LinkVerify(t) \/ LinkSet(t)
         PROVE  MountedBuf
    BY <2>3, <2>10, Zenon DEF LinkState, LinkTooLong, LinkVerify, LinkSet
  <2>11. ASSUME NEW t \in Threads, Observe(t)
         PROVE  MountedBuf
    BY <2>3, <2>11, ObserveWays, Zenon
    DEF Unverified, GivenUp, TakenMore, TakenOk, TakenBad, Delivered
  <2>12. ASSUME Alter \/ Show
         PROVE  MountedBuf
    BY <2>2, <2>12, Zenon DEF Alter, Show
  <2> QED
    BY <2>5, <2>6, <2>7, <2>8, <2>9, <2>10, <2>11, <2>12, Zenon DEF Next, Proceed
<1> DEFINE Right == (state' = "ok" => good') /\ (state' = "bad" => ~good')
<1>6. Right
  <2>0. good' = good
    BY ConstantSame, Zenon
  <2>1. ASSUME UNCHANGED state
        PROVE  Right
    BY <1>2, <2>0, <2>1, Zenon
  <2>2. ASSUME NEW t \in Threads, LinkVerify(t)
        PROVE  Right
    BY <1>2, <2>0, <2>1, <2>2, Zenon DEF LinkVerify
  <2>3. ASSUME NEW t \in Threads, Observe(t)
        PROVE  Right
    <3>1. handle[t] \in Handles
      BY <2>3, ObserveWays, Zenon DEF Places
    <3>2. CASE TakenBad(t)
      <4>1. Clean(t)
        BY <1>2, <3>1, <3>2, Zenon DEF Clean, Taken, TakenBad, Awaited
      <4> QED
        BY <2>0, <3>2, <4>1, Zenon DEF TakenBad
    <3>3. CASE TakenOk(t)
      BY <2>0, <3>3, Zenon DEF TakenOk
    <3> QED
      BY <2>1, <2>3, <3>2, <3>3, ObserveWays, Zenon DEF Unverified, GivenUp, TakenMore
  <2>4. ASSUME NEW t \in Threads, StoreStart(t) \/ LinkSet(t)
        PROVE  UNCHANGED state
    BY <2>4, Zenon DEF StoreStart, LinkSet
  <2> QED
    BY <2>1, <2>2, <2>3, <2>4, IndexSteps, Zenon
<1> QED
  BY <1>3, <1>4, <1>5, <1>6, Zenon

-----------------------------------------------------------------------------
(* A thread gets to where a target is stored by verifying it.              *)
LEMMA VerifiedKept ==
  ASSUME TypeOK, TargetVerified, Next
  PROVE  TargetVerified'
<1> SUFFICES ASSUME verify
             PROVE  \A u \in Threads : pc'[u] = "linkset" => buf'[u] = "mounted" /\ good
  <2>1. verify' = verify /\ good' = good
    BY ConstantSame, Zenon
  <2> QED
    BY <2>1, Zenon DEF TargetVerified
<1>0. CallTypes
  BY TypeParts, Zenon
<1> DEFINE Verified ==
             \A u \in Threads : pc'[u] = "linkset" => buf'[u] = "mounted" /\ good
<1>1. ASSUME NEW t \in Threads, Others(t), pc'[t] # "linkset"
      PROVE  Verified
  BY <1>1, Zenon DEF TargetVerified, Others
<1>2. ASSUME NEW t \in Threads, NEW from, NEW to, NEW v, NEW r,
             \/ Reply(t, from, r)
             \/ /\ to # "linkset"
                /\ \/ Continue(t, from, to) \/ Fetch(t, from, to, v)
                   \/ Begin(t, to) /\ UNCHANGED call
      PROVE  Verified
  BY <1>0, <1>1, <1>2, Effects DEF Replied, Went
<1>3. ASSUME Alter \/ Show
      PROVE  Verified
  BY <1>3, Zenon DEF Alter, Show, TargetVerified
<1>4. ASSUME NEW t \in Threads, Open(t) \/ Release(t) \/ Readlink(t)
      PROVE  Verified
  BY <1>2, <1>4, Zenon DEF Open, Release, Readlink
<1>5. ASSUME NEW t \in Threads, Read(t)
      PROVE  Verified
  <2>1. (\E r : Reply(t, "ready", r)) \/ Begin(t, "state")
    BY <1>5, Zenon DEF Read
  <2>2. CASE Begin(t, "state")
    BY <1>0, <2>2, Zenon DEF Begin, Goto, CallTypes, TargetVerified
  <2> QED
    BY <1>2, <2>1, <2>2, Zenon
<1>6. ASSUME NEW t \in Threads,
             LocateCached(t) \/ LocateUnset(t) \/ Header(t) \/ StoreStart(t)
      PROVE  Verified
  BY <1>2, <1>6, Zenon DEF LocateCached, LocateUnset, Header, StoreStart, Located
<1>7. ASSUME NEW t \in Threads,
             Insert(t) \/ ReadState(t) \/ Pread(t) \/ Diagnose(t)
      PROVE  Verified
  BY <1>2, <1>7, Zenon DEF Insert, ReadState, Pread, Diagnose
<1>8. ASSUME NEW t \in Threads,
             LinkState(t) \/ LinkTooLong(t) \/ LinkRead(t) \/ LinkSet(t)
      PROVE  Verified
  BY <1>2, <1>8, Zenon DEF LinkState, LinkTooLong, LinkRead, LinkSet
<1>9. ASSUME NEW t \in Threads, Observe(t)
      PROVE  Verified
  BY <1>2, <1>9, ObserveWays, Zenon
  DEF Unverified, GivenUp, TakenMore, TakenOk, TakenBad, Delivered
<1>10. ASSUME NEW t \in Threads, LinkVerify(t)
       PROVE  Verified
  <2>1. CASE buf[t] = "mounted" /\ good /\ Continue(t, "linkverify", "linkset")
    BY <1>0, <2>1, Effects, ZenonT(40) DEF Others, TargetVerified
  <2> QED
    BY <1>2, <1>10, <2>1, ZenonT(40) DEF LinkVerify
<1> QED
  BY <1>3, <1>4, <1>5, <1>6, <1>7, <1>8, <1>9, <1>10, ZenonT(40) DEF Next, Proceed

(* A target that is set stays.                                             *)
LEMMA SlotStays ==
  ASSUME Next, slot # "unset"
  PROVE  slot' = slot
<1>1. ASSUME NEW t \in Threads, LinkSet(t)
      PROVE  slot' = slot
  BY <1>1, Zenon DEF LinkSet
<1>2. ASSUME NEW t \in Threads, StoreStart(t) \/ Observe(t) \/ LinkVerify(t)
      PROVE  slot' = slot
  BY <1>2, ObserveWays, Zenon DEF StoreStart, LinkVerify
<1> QED
  BY <1>1, <1>2, IndexSteps, Zenon

(* The first target stays, and no reply differs from it.                   *)
LEMMA TargetsKept ==
  ASSUME TypeOK, TargetVerified, TargetsAgree, Next
  PROVE  TargetsAgree'
<1>0. CallTypes /\ PlainTypes /\ "unset" \notin Bytes
  BY TypeParts, Zenon DEF Bytes
<1>1. slot # "unset" => slot' = slot
  BY SlotStays, Zenon
<1> DEFINE Agree == \A u \in Threads : reply'[u] \in Bytes => reply'[u] = slot'
<1>2. ASSUME NEW t \in Threads, Others(t), reply'[t] \in Bytes => reply'[t] = slot'
      PROVE  Agree
  BY <1>0, <1>1, <1>2, Zenon DEF Others, TargetsAgree
<1>3. ASSUME UNCHANGED reply
      PROVE  Agree
  BY <1>0, <1>1, <1>3, Zenon DEF TargetsAgree
<1>4. ASSUME NEW t \in Threads, NEW from, NEW to, NEW v, NEW r,
             \/ Reply(t, from, r) /\ (r \in Bytes => r = slot')
             \/ Continue(t, from, to) \/ Fetch(t, from, to, v)
             \/ Begin(t, to) /\ UNCHANGED call
      PROVE  Agree
  <2>1. CASE Reply(t, from, r) /\ (r \in Bytes => r = slot')
    BY <1>0, <1>2, <2>1, Effects, SMTT(30) DEF Replied
  <2>2. CASE Begin(t, to) /\ UNCHANGED call
    BY <1>0, <1>2, <2>2, Effects, Zenon DEF Bytes
  <2> QED
    BY <1>3, <1>4, <2>1, <2>2, Zenon DEF Continue, Fetch
<1>5. ASSUME Alter \/ Show
      PROVE  Agree
  BY <1>3, <1>5, Zenon DEF Alter, Show
<1>w. \A r \in {"opened", "data", "empty", "eio", "estale", "ebadf", "refused",
               "released"} : r \notin Bytes
  BY Zenon DEF Bytes
<1>6. ASSUME NEW t \in Threads, Open(t) \/ Release(t)
      PROVE  Agree
  BY <1>4, <1>6, <1>w, Zenon DEF Open, Release
<1>7. ASSUME NEW t \in Threads, Read(t)
      PROVE  Agree
  <2>1. \/ Reply(t, "ready", "ebadf") \/ Reply(t, "ready", "estale")
        \/ Begin(t, "state")
    BY <1>7, Zenon DEF Read
  <2>2. CASE Begin(t, "state")
    BY <1>0, <1>1, <2>2, Zenon DEF Begin, CallTypes, TargetsAgree, Bytes
  <2> QED
    BY <1>4, <1>w, <2>1, <2>2, Zenon
<1>8. ASSUME NEW t \in Threads, Readlink(t)
      PROVE  Agree
  BY <1>0, <1>1, <1>4, <1>8, Zenon DEF Readlink
<1>9. ASSUME NEW t \in Threads,
             LocateCached(t) \/ LocateUnset(t) \/ Header(t) \/ StoreStart(t)
      PROVE  Agree
  BY <1>4, <1>9, Zenon DEF LocateCached, LocateUnset, Header, StoreStart
<1>10. ASSUME NEW t \in Threads,
              Insert(t) \/ ReadState(t) \/ Pread(t) \/ Diagnose(t)
       PROVE  Agree
  BY <1>4, <1>10, <1>w, Zenon DEF Insert, ReadState, Pread, Diagnose
<1>11. ASSUME NEW t \in Threads,
              LinkState(t) \/ LinkTooLong(t) \/ LinkRead(t) \/ LinkVerify(t) \/ LinkSet(t)
       PROVE  Agree
  BY <1>4, <1>11, <1>w, Zenon DEF LinkState, LinkTooLong, LinkRead, LinkVerify, LinkSet
<1>12. ASSUME NEW t \in Threads, Observe(t)
       PROVE  Agree
  BY <1>4, <1>12, <1>w, ObserveWays, Zenon
  DEF Unverified, GivenUp, TakenMore, TakenOk, TakenBad, Delivered
<1>13. Agree
  BY <1>5, <1>6, <1>7, <1>8, <1>9, <1>10, <1>11, <1>12, Zenon DEF Next, Proceed
<1>14. verify' /\ slot' # "unset" => slot' = "mounted" /\ good'
  <2>0. verify' = verify /\ good' = good
    BY ConstantSame, Zenon
  <2>1. ASSUME NEW t \in Threads, LinkSet(t), verify, slot' # "unset"
        PROVE  slot' = "mounted" /\ good
    <3>1. pc[t] = "linkset"
      BY <2>1, Zenon DEF LinkSet, Reply, Goto
    <3>2. buf[t] = "mounted" /\ good
      BY <2>1, <3>1, Zenon DEF TargetVerified
    <3> QED
      BY <2>1, <3>2, Zenon DEF LinkSet, TargetsAgree
  <2>2. ASSUME NEW t \in Threads, StoreStart(t) \/ Observe(t) \/ LinkVerify(t)
        PROVE  slot' = slot
    BY <2>2, ObserveWays, Zenon DEF StoreStart, LinkVerify
  <2> QED
    BY <2>0, <2>1, <2>2, IndexSteps, Zenon DEF TargetsAgree
<1> QED
  BY <1>13, <1>14, Zenon DEF TargetsAgree

-----------------------------------------------------------------------------
(* A mount begins in the invariant.                                        *)
LEMMA InitInv ==
  Init => ReadsInv
<1> SUFFICES ASSUME Init
             PROVE  ReadsInv
  BY Zenon
<1>1. CallTypes /\ BeganTypes
  BY ReadsAssumption DEF Init, CallTypes, BeganTypes, PC, Bytes, Replies
<1>2. FileTypes
  BY ReadsAssumption DEF Init, FileTypes, Bytes
<1>3. PlainTypes
  BY Zenon DEF Init, PlainTypes, Bytes, Verdicts
<1>4. TypeOK
  BY <1>1, <1>2, <1>3, TypeParts, Zenon
<1>5. \A h \in Handles :
        sv[h].pos = 0 /\ ~sv[h].disabled /\ sv[h].clean
  BY Zenon DEF Init
<1>6. \A t \in Threads :
        pc[t] = "ready" /\ buf[t] = "mounted" /\ reply[t] = "none"
  BY Zenon DEF Init
<1>7. Places
  BY <1>5, <1>6, ReadsAssumption, Zenon DEF Places
<1>8. AllMounted /\ VerdictRight
  BY <1>5, <1>6, Zenon DEF Init, AllMounted, VerdictRight
<1>9. TargetVerified /\ TargetsAgree
  BY <1>6, Zenon DEF Init, TargetVerified, TargetsAgree, Bytes
<1> QED
  BY <1>4, <1>7, <1>8, <1>9, Zenon DEF ReadsInv

(* Each step keeps the invariant.                                          *)
LEMMA Inductive ==
  ReadsInv /\ [Next]_vars => ReadsInv'
<1> SUFFICES ASSUME ReadsInv, [Next]_vars
             PROVE  ReadsInv'
  BY Zenon
<1>1. CASE Next
  <2>1. TypeOK'
    <3>1. CallTypes' /\ BeganTypes' /\ FileTypes' /\ PlainTypes'
      BY <1>1, CallsTyped, BeganTyped, FilesTyped, PlainTyped, TypeParts, Zenon DEF ReadsInv
    <3> QED
      BY <3>1, Zenon DEF TypeOK, CallTypes, BeganTypes, FileTypes, PlainTypes
  <2>2. Places' /\ AllMounted' /\ VerdictRight'
    BY <1>1, PlacesKept, MountedKept, Zenon DEF ReadsInv
  <2>3. TargetVerified' /\ TargetsAgree'
    BY <1>1, VerifiedKept, TargetsKept, Zenon DEF ReadsInv
  <2> QED
    BY <2>1, <2>2, <2>3, Zenon DEF ReadsInv
<1>2. CASE UNCHANGED vars
  <2>1. /\ UNCHANGED <<content, shown, stale, kind, good, entry, verify, state, start>>
        /\ UNCHANGED <<slot, fresh, table, loc, sv, orderly, pc, handle, off, buf>>
        /\ UNCHANGED <<began, reply>>
    BY <1>2, Zenon DEF vars, archive, constant, index, files, call
  <2>2. TypeOK' /\ Places'
    BY <2>1, ZenonT(40) DEF ReadsInv, TypeOK, Places
  <2>3. AllMounted' /\ VerdictRight' /\ TargetVerified' /\ TargetsAgree'
    BY <2>1, Zenon DEF ReadsInv, AllMounted, VerdictRight, TargetVerified, TargetsAgree
  <2> QED
    BY <2>2, <2>3, Zenon DEF ReadsInv
<1> QED
  BY <1>1, <1>2, Zenon

(* The invariant holds in every state a mount reaches.                     *)
LEMMA AlwaysInv ==
  Spec => []ReadsInv
BY InitInv, Inductive, PTL DEF Spec

(* The types are kept: offsets, positions and verdicts stay in range for   *)
(* any number of threads and blocks.                                       *)
THEOREM TypesKept ==
  Spec => []TypeOK
<1>1. ReadsInv => TypeOK
  BY Zenon DEF ReadsInv
<1> QED
  BY <1>1, AlwaysInv, PTL

(* handle.rs 42-56, fs.rs 205-222: whatever the order in which any number  *)
(* of threads reads any number of blocks through any number of handles, no *)
(* verdict on the mounted archive is wrong.                                *)
THEOREM VerdictsAreRight ==
  Spec => []VerdictRight
<1>1. ReadsInv => VerdictRight
  BY Zenon DEF ReadsInv
<1> QED
  BY <1>1, AlwaysInv, PTL

(* index.rs 227-234: threads that race to read a link agree on its target, *)
(* and with verification it is the archive's.                              *)
THEOREM OneTarget ==
  Spec => []TargetsAgree
<1>1. ReadsInv => TargetsAgree
  BY Zenon DEF ReadsInv
<1> QED
  BY <1>1, AlwaysInv, PTL

-----------------------------------------------------------------------------
(* The order of the reads and the changes of the archive.                  *)

Reading(t, h) == pc[t] \in {"state", "pread", "observe"} /\ handle[t] = h

(* As long as a file is read in order, one thread at most reads it, and    *)
(* the checksum has taken what was delivered.                              *)
InOrder ==
  \A h \in Handles : orderly[h] # -1 =>
    /\ \A t \in Threads : Reading(t, h) => off[t] = orderly[h]
    /\ \A t, u \in Threads : Reading(t, h) /\ Reading(u, h) => t = u
    /\ verify => /\ sv[h].pos = orderly[h]
                 /\ sv[h].disabled => orderly[h] = Blocks

(* The stamps show only what is so.  What was shown or found stays so, and *)
(* a thread that began after it is not yet, or no longer, at bytes of the  *)
(* archive.                                                                *)
Since ==
  /\ shown => content = "altered"
  /\ \A t \in Threads :
       /\ began[t] = "shown" => shown \/ stale
       /\ began[t] = "stale" => stale /\ pc[t] \in {"ready", "linkstate", "diagnose"}
       /\ pc[t] = "observe" => began[t] = "fresh"

OrderInv == InOrder /\ OrderlyReadChecked /\ Since /\ ChangeIsNamed

-----------------------------------------------------------------------------
(* What Since and ChangeIsNamed say of one thread.                         *)
Named(u) ==
  /\ began[u] = "shown" => (shown \/ stale) /\ reply[u] \notin {"data", "eio"}
  /\ began[u] = "stale" =>
       /\ stale /\ pc[u] \in {"ready", "linkstate", "diagnose"}
       /\ reply[u] \in {"none", "estale", "ebadf", "released", slot}
  /\ pc[u] = "observe" => began[u] = "fresh"

(* Named, for all the threads, is Since and ChangeIsNamed.                 *)
LEMMA NamedParts ==
  Since /\ ChangeIsNamed <=>
    (shown => content = "altered") /\ \A u \in Threads : Named(u)
BY Zenon DEF Since, ChangeIsNamed, Named

(* A change that was shown or found stays so, and a target stays the one.  *)
LEMMA Lasting ==
  ASSUME TypeOK, shown => content = "altered", Next
  PROVE  /\ shown' => content' = "altered"
         /\ shown => shown'
         /\ stale => stale'
         /\ slot # "unset" => slot' = slot
<1>1. PlainTypes
  BY TypeParts, Zenon
<1>2. /\ shown' => content' = "altered"
      /\ shown => shown'
  <2>1. CASE UNCHANGED <<content, shown>>
    BY <2>1, Zenon
  <2>2. CASE Alter
    BY <2>2, Zenon DEF Alter
  <2>3. CASE Show
    BY <2>3, Zenon DEF Show
  <2> QED
    BY <2>1, <2>2, <2>3, ArchiveSame, Zenon
<1>3. stale => stale'
  BY StaleStays, Zenon
<1>4. slot # "unset" => slot' = slot
  BY SlotStays, Zenon
<1> QED
  BY <1>2, <1>3, <1>4, Zenon

(* A call that begins, in the ways the four operations have of it.         *)
LEMMA RequestNamed ==
  ASSUME TypeOK, NEW t \in Threads, NEW k, Request(t, k), Others(t),
         stale' = stale, shown' = shown, slot' = slot,
         pc'[t] \in PC \ {"observe"},
         reply'[t] \notin {"data", "eio"},
         stale => /\ pc'[t] \in {"ready", "linkstate", "diagnose"}
                  /\ reply'[t] \in {"none", "estale", "ebadf", "released", slot},
         \A u \in Threads : Named(u)
  PROVE  \A u \in Threads : Named(u)'
<1>0. BeganTypes /\ PlainTypes
  BY TypeParts, Zenon
<1>1. /\ began'[t] = IF stale THEN "stale" ELSE IF shown THEN "shown" ELSE "fresh"
      /\ \A u \in Threads \ {t} : began'[u] = began[u]
  BY <1>0, Zenon DEF Request, BeganTypes
<1>2. Named(t)'
  <2>1. CASE stale
    BY <1>1, <2>1, Zenon DEF Named
  <2>2. CASE ~stale
    BY <1>1, <2>2, Zenon DEF Named
  <2> QED
    BY <2>1, <2>2, Zenon
<1>3. ASSUME NEW u \in Threads \ {t}
      PROVE  Named(u)'
  <2>1. /\ pc'[u] = pc[u] /\ reply'[u] = reply[u] /\ began'[u] = began[u]
        /\ Named(u)
    BY <1>1, Zenon DEF Others
  <2> QED
    BY <2>1, Zenon DEF Named
<1> QED
  BY <1>2, <1>3, Zenon

(* Each step names a change as Named says.                                 *)
LEMMA NamedKept ==
  ASSUME TypeOK, shown => content = "altered", \A u \in Threads : Named(u), Next
  PROVE  \A u \in Threads : Named(u)'
<1> DEFINE AllNamed == \A u \in Threads : Named(u)'
<1>0. CallTypes /\ BeganTypes /\ PlainTypes
  BY TypeParts, ZenonT(40)
<1>w. /\ \A r \in Replies : r # "unset"
      /\ slot \notin {"data", "eio"}
      /\ Located \notin {"ready", "observe", "linkstate", "diagnose"}
  BY <1>0, Zenon DEF Replies, Bytes, PlainTypes, Located
<1>1. (shown => shown') /\ (stale => stale') /\ (slot # "unset" => slot' = slot)
  BY Lasting, Zenon
<1>2. ASSUME NEW u \in Threads, pc'[u] = pc[u], reply'[u] = reply[u], began'[u] = began[u]
      PROVE  Named(u)'
  <2>1. Named(u) /\ reply[u] # "unset"
    BY <1>0, <1>w, Zenon DEF CallTypes
  <2> QED
    BY <1>1, <1>2, <2>1, Zenon DEF Named
<1>3. ASSUME Alter \/ Show
      PROVE  AllNamed
  BY <1>2, <1>3, Zenon DEF Alter, Show
<1>4. ASSUME NEW t \in Threads, Open(t)
      PROVE  AllNamed
  <2>1. /\ Request(t, "file") /\ stale' = stale /\ shown' = shown /\ slot' = slot
    BY <1>4, Zenon DEF Open, archive, index
  <2>2. \/ stale /\ Reply(t, "ready", "estale")
        \/ ~stale /\ Reply(t, "ready", "refused")
        \/ ~stale /\ (Begin(t, "locate") \/ Begin(t, "diagnose")) /\ UNCHANGED call
    BY <1>4, Zenon DEF Open
  <2>3. /\ Others(t) /\ pc'[t] \in {"ready", "locate", "diagnose"}
        /\ reply'[t] \notin {"data", "eio"}
        /\ stale => pc'[t] = "ready" /\ reply'[t] = "estale"
    BY <1>0, <2>2, Effects DEF Replied, Went
  <2> QED
    BY <2>1, <2>3, RequestNamed, Zenon DEF PC
<1>5. ASSUME NEW t \in Threads, Release(t)
      PROVE  AllNamed
  <2>1. /\ Request(t, "file") /\ stale' = stale /\ shown' = shown /\ slot' = slot
        /\ Reply(t, "ready", "released")
    BY <1>5, Zenon DEF Release, archive, index
  <2>2. Others(t) /\ pc'[t] = "ready" /\ reply'[t] = "released"
    BY <1>0, <2>1, Effects, ZenonT(40) DEF Replied
  <2> QED
    BY <2>1, <2>2, RequestNamed, Zenon DEF PC
<1>6. ASSUME NEW t \in Threads, Read(t)
      PROVE  AllNamed
  <2>1. /\ Request(t, "file") /\ stale' = stale /\ shown' = shown /\ slot' = slot
    BY <1>6, Zenon DEF Read, archive, index
  <2>2. \/ Reply(t, "ready", "ebadf")
        \/ Reply(t, "ready", "estale")
        \/ /\ ~stale /\ Begin(t, "state")
           /\ \E h, o : /\ handle' = [handle EXCEPT ![t] = h]
                        /\ off' = [off EXCEPT ![t] = o]
    BY <1>6, Zenon DEF Read
  <2>3. /\ Others(t) /\ pc'[t] \in {"ready", "state"}
        /\ reply'[t] \in {"none", "ebadf", "estale"}
        /\ stale => pc'[t] = "ready"
    <3>1. CASE Reply(t, "ready", "ebadf") \/ Reply(t, "ready", "estale")
      BY <1>0, <3>1, Effects DEF Replied
    <3>2. CASE ~stale /\ Begin(t, "state")
               /\ \E h, o : /\ handle' = [handle EXCEPT ![t] = h]
                            /\ off' = [off EXCEPT ![t] = o]
      BY <1>0, <3>2 DEF Begin, Goto, CallTypes, Others
    <3> QED
      BY <2>2, <3>1, <3>2, Zenon
  <2> QED
    BY <2>1, <2>3, RequestNamed, Zenon DEF PC
<1>7. ASSUME NEW t \in Threads, Readlink(t)
      PROVE  AllNamed
  <2>1. /\ Request(t, "link") /\ stale' = stale /\ shown' = shown /\ slot' = slot
    BY <1>7, Zenon DEF Readlink, archive, index
  <2>2. Reply(t, "ready", slot) \/ (Begin(t, "linkstate") /\ UNCHANGED call)
    BY <1>7, Zenon DEF Readlink
  <2>3. /\ Others(t) /\ pc'[t] \in {"ready", "linkstate"}
        /\ reply'[t] \in {"none", slot}
    BY <1>0, <2>2, Effects, SMTT(30) DEF Replied, Went
  <2>4. reply'[t] \notin {"data", "eio"}
    BY <1>w, <2>3, Zenon
  <2> QED
    BY <2>1, <2>3, <2>4, RequestNamed, Zenon DEF PC
<1>8. ASSUME NEW t \in Threads, Others(t), Named(t)',
             \A u \in Threads \ {t} : began'[u] = began[u]
      PROVE  AllNamed
  BY <1>2, <1>8, Zenon DEF Others
<1>9. ASSUME NEW t \in Threads, Others(t),
             pc[t] \notin {"ready", "linkstate", "diagnose"}, pc'[t] # "observe",
             reply'[t] \in {reply[t], "opened", "empty", "estale", slot'},
             \/ UNCHANGED began \/ GuardFails(t)
      PROVE  AllNamed
  <2>1. Named(t) /\ began[t] # "stale"
    BY <1>9, Zenon DEF Named
  <2>2. /\ began'[t] \in {began[t], "fresh"}
        /\ \A u \in Threads \ {t} : began'[u] = began[u]
    BY <1>0, <1>9, Zenon DEF GuardFails, BeganTypes
  <2>3. slot' \notin {"data", "eio"}
    BY PlainTyped, Zenon DEF PlainTypes, Bytes
  <2>4. Named(t)'
    BY <1>1, <1>9, <2>1, <2>2, <2>3, Zenon DEF Named
  <2> QED
    BY <1>8, <1>9, <2>2, <2>4, Zenon
<1>10. ASSUME NEW t \in Threads,
              LocateCached(t) \/ LocateUnset(t) \/ StoreStart(t) \/ Insert(t)
       PROVE  AllNamed
  <2>1. /\ Others(t) /\ pc[t] \notin {"ready", "linkstate", "diagnose"}
        /\ pc'[t] # "observe" /\ reply'[t] \in {reply[t], "opened"}
    BY <1>0, <1>10, <1>w, Effects, SMTT(30)
    DEF LocateCached, LocateUnset, StoreStart, Insert, Went, Replied
  <2>2. UNCHANGED began
    BY <1>10, Zenon DEF LocateCached, LocateUnset, StoreStart, Insert
  <2> QED
    BY <1>9, <2>1, <2>2, Zenon
<1>11. ASSUME NEW t \in Threads,
              ReadState(t) \/ LinkTooLong(t) \/ LinkVerify(t) \/ LinkSet(t)
       PROVE  AllNamed
  <2>1. /\ Others(t) /\ pc[t] \notin {"ready", "linkstate", "diagnose"}
        /\ pc'[t] # "observe" /\ reply'[t] \in {reply[t], "empty", slot'}
    BY <1>0, <1>11, Effects, SMTT(30) DEF ReadState, LinkTooLong, LinkVerify, LinkSet, Went, Replied
  <2>2. UNCHANGED began
    BY <1>11, Zenon DEF ReadState, LinkTooLong, LinkVerify, LinkSet
  <2> QED
    BY <1>9, <2>1, <2>2, Zenon
<1>12. ASSUME NEW t \in Threads, Header(t) \/ LinkRead(t)
       PROVE  AllNamed
  <2>1. /\ Others(t) /\ pc[t] \notin {"ready", "linkstate", "diagnose"}
        /\ pc'[t] # "observe" /\ reply'[t] = reply[t]
    BY <1>0, <1>12, Effects, SMTT(30) DEF Header, LinkRead, Went
  <2>2. UNCHANGED began \/ GuardFails(t)
    BY <1>12, Zenon DEF Header, LinkRead, GuardPasses, GuardFinds
  <2> QED
    BY <1>9, <2>1, <2>2, Zenon
<1>13. ASSUME NEW t \in Threads, Pread(t)
       PROVE  AllNamed
  <2>1. CASE GuardPasses /\ Fetch(t, "pread", "observe", BytesAt(loc[handle[t]]))
    <3>1. ~stale /\ ~shown /\ UNCHANGED began
      BY <2>1, Zenon DEF GuardPasses
    <3>2. pc[t] = "pread" /\ Others(t)
      BY <1>0, <2>1, Effects, Zenon DEF Went
    <3>3. began[t] = "fresh"
      BY <1>0, <3>1, <3>2, Zenon DEF Named, BeganTypes
    <3> QED
      BY <1>8, <3>1, <3>2, <3>3, Zenon DEF Named
  <2>2. CASE GuardFinds /\ Reply(t, "pread", "estale")
    BY <1>0, <1>9, <2>2, Effects, ZenonT(40) DEF GuardFinds, Replied
  <2>3. CASE GuardFails(t) /\ Continue(t, "pread", "diagnose")
    BY <1>0, <1>9, <2>3, Effects, SMTT(30) DEF Went
  <2> QED
    BY <1>13, <2>1, <2>2, <2>3, Zenon DEF Pread
<1>14. ASSUME NEW t \in Threads, Observe(t)
       PROVE  AllNamed
  <2>1. pc[t] = "observe" /\ UNCHANGED began
    BY <1>14, ObserveWays, Zenon
  <2>2. began[t] = "fresh"
    BY <2>1, Zenon DEF Named
  <2>3. Others(t) /\ pc'[t] # "observe"
    <3>1. Reply(t, "observe", "data") \/ Continue(t, "observe", "diagnose")
      BY <1>14, ObserveWays, Zenon
      DEF Unverified, GivenUp, TakenMore, TakenOk, TakenBad, Delivered
    <3> QED
      BY <1>0, <3>1, Effects DEF Went, Replied
  <2> QED
    BY <1>8, <2>1, <2>2, <2>3, Zenon DEF Named
<1>15. ASSUME NEW t \in Threads, LinkState(t)
       PROVE  AllNamed
  <2>1. UNCHANGED began /\ stale' = stale
    BY <1>15, Zenon DEF LinkState
  <2>2. \/ Continue(t, "linkstate", "diagnose")
        \/ stale /\ Reply(t, "linkstate", "estale")
        \/ ~stale /\ Reply(t, "linkstate", "refused")
        \/ ~stale /\ Continue(t, "linkstate", "locate")
    BY <1>15, Zenon DEF LinkState
  <2>3. /\ Others(t)
        /\ \/ pc'[t] = "diagnose" /\ reply'[t] = reply[t]
           \/ pc'[t] = "ready" /\ reply'[t] = "estale"
           \/ ~stale /\ pc'[t] \in {"ready", "locate"} /\ reply'[t] \in {reply[t], "refused"}
    BY <1>0, <2>2, Effects, SMTT(30) DEF Went, Replied
  <2>4. Named(t) /\ reply[t] # "unset"
    BY <1>0, <1>w, Zenon DEF CallTypes
  <2>5. Named(t)'
    BY <1>1, <2>1, <2>3, <2>4, Zenon DEF Named
  <2> QED
    BY <1>8, <2>1, <2>3, <2>5, Zenon
<1>16. ASSUME NEW t \in Threads, Diagnose(t)
       PROVE  AllNamed
  <2>1. CASE GuardFinds /\ Reply(t, "diagnose", "estale")
    <3>1. /\ Others(t) /\ pc'[t] = "ready" /\ reply'[t] = "estale"
          /\ stale' = TRUE /\ UNCHANGED began
      BY <1>0, <2>1, Effects, ZenonT(40) DEF Replied, GuardFinds
    <3> QED
      BY <1>8, <3>1, Zenon DEF Named
  <2>2. CASE GuardFails(t) /\ Reply(t, "diagnose", "eio")
    <3>1. /\ Others(t) /\ pc'[t] = "ready" /\ began'[t] = "fresh"
          /\ \A u \in Threads \ {t} : began'[u] = began[u]
      BY <1>0, <2>2, Effects, Zenon DEF Replied, GuardFails, BeganTypes
    <3> QED
      BY <1>8, <3>1, Zenon DEF Named
  <2>3. CASE GuardPasses /\ Reply(t, "diagnose", "eio")
    <3>1. Others(t) /\ pc'[t] = "ready" /\ UNCHANGED began
      BY <1>0, <2>3, Effects, Zenon DEF Replied, GuardPasses
    <3>2. ~stale /\ ~shown
      BY <2>3, Zenon DEF GuardPasses
    <3>3. began[t] = "fresh"
      BY <1>0, <3>2, Zenon DEF Named, BeganTypes
    <3> QED
      BY <1>8, <3>1, <3>3, Zenon DEF Named
  <2> QED
    BY <1>16, <2>1, <2>2, <2>3, Zenon DEF Diagnose
<1> QED
  BY <1>3, <1>4, <1>5, <1>6, <1>7, <1>10, <1>11, <1>12, <1>13, <1>14, <1>15, <1>16, Zenon
  DEF Next, Proceed

-----------------------------------------------------------------------------
(* What InOrder and OrderlyReadChecked say of one handle.                  *)
Ordered(h) ==
  /\ orderly[h] # -1 =>
       /\ \A t \in Threads : Reading(t, h) => off[t] = orderly[h]
       /\ \A t, u \in Threads : Reading(t, h) /\ Reading(u, h) => t = u
       /\ verify => /\ sv[h].pos = orderly[h]
                    /\ sv[h].disabled => orderly[h] = Blocks
  /\ verify => (orderly[h] = Blocks => good /\ sv[h].clean)

(* Ordered, for all the handles, is InOrder and OrderlyReadChecked.        *)
LEMMA OrderedParts ==
  InOrder /\ OrderlyReadChecked <=> \A h \in Handles : Ordered(h)
BY Zenon DEF InOrder, OrderlyReadChecked, Ordered

(* A handle none of whose reads begins or ends stays as it is.             *)
LEMMA OrderedSame ==
  ASSUME NEW h \in Handles, Ordered(h),
         orderly'[h] = orderly[h], sv'[h] = sv[h], verify' = verify, good' = good,
         \A u \in Threads : Reading(u, h)' => Reading(u, h) /\ off'[u] = off[u]
  PROVE  Ordered(h)'
<1>1. orderly'[h] # -1 =>
        /\ \A t \in Threads : Reading(t, h)' => off'[t] = orderly'[h]
        /\ \A t, u \in Threads : Reading(t, h)' /\ Reading(u, h)' => t = u
  BY Zenon DEF Ordered
<1>2. orderly'[h] # -1 =>
        (verify' => sv'[h].pos = orderly'[h] /\ (sv'[h].disabled => orderly'[h] = Blocks))
  BY Zenon DEF Ordered
<1>3. verify' => (orderly'[h] = Blocks => good' /\ sv'[h].clean)
  BY Zenon DEF Ordered
<1> QED
  BY <1>1, <1>2, <1>3, Zenon DEF Ordered

(* Each step keeps the order of the reads.                                 *)
LEMMA OrderKept ==
  ASSUME TypeOK, Places, \A h \in Handles : Ordered(h), Next
  PROVE  \A h \in Handles : Ordered(h)'
<1> DEFINE AllOrdered == \A h \in Handles : Ordered(h)'
<1>0. CallTypes /\ FileTypes
  BY TypeParts, Zenon
<1>c. verify' = verify /\ good' = good
  BY ConstantSame, Zenon
<1>1. ASSUME NEW t \in Threads, Others(t), UNCHANGED <<sv, orderly>>,
             \/ pc'[t] \notin {"state", "pread", "observe"}
             \/ pc[t] \in {"state", "pread"} /\ \E to : Went(t, pc[t], to)
      PROVE  AllOrdered
  <2> SUFFICES ASSUME NEW h \in Handles
               PROVE  Ordered(h)'
    BY Zenon
  <2>1. \A u \in Threads : Reading(u, h)' => Reading(u, h) /\ off'[u] = off[u]
    BY <1>1, Zenon DEF Reading, Others, Went
  <2> QED
    BY <1>1, <1>c, <2>1, OrderedSame, Zenon
<1>2. ASSUME Alter \/ Show
      PROVE  AllOrdered
  <2>1. UNCHANGED <<sv, orderly, pc, handle, off>>
    BY <1>2, Zenon DEF Alter, Show, files, call
  <2> SUFFICES ASSUME NEW h \in Handles
               PROVE  Ordered(h)'
    BY Zenon
  <2>2. \A u \in Threads : Reading(u, h)' => Reading(u, h) /\ off'[u] = off[u]
    BY <2>1, Zenon DEF Reading
  <2> QED
    BY <1>c, <2>1, <2>2, OrderedSame, Zenon
<1>3. ASSUME NEW t \in Threads, Away(t)
      PROVE  AllOrdered
  <2>1. Others(t) /\ pc'[t] \notin {"state", "pread", "observe"}
    BY <1>0, <1>3, Elsewhere, Zenon
  <2>2. UNCHANGED <<sv, orderly>>
    BY <1>3, FilesSame, Zenon DEF Away, FilesAlone, Release, Insert, files
  <2> QED
    BY <1>1, <2>1, <2>2, Zenon
<1>5. ASSUME NEW t \in Threads, ReadState(t) \/ Pread(t)
      PROVE  AllOrdered
  <2>1. /\ Others(t)
        /\ \/ pc'[t] \notin {"state", "pread", "observe"}
           \/ pc[t] \in {"state", "pread"} /\ \E to : Went(t, pc[t], to)
    BY <1>0, <1>5, Effects, ZenonT(40) DEF ReadState, Pread, Went, Replied
  <2>2. UNCHANGED <<sv, orderly>>
    BY <1>5, Zenon DEF ReadState, Pread, files
  <2> QED
    BY <1>1, <2>1, <2>2, Zenon
<1>o. ASSUME NEW h \in Handles, orderly'[h] = -1
      PROVE  Ordered(h)'
  <2>1. orderly'[h] # Blocks
    BY <1>o, ReadsAssumption
  <2> QED
    BY <1>o, <2>1, Zenon DEF Ordered
<1>6. ASSUME NEW t \in Threads, Read(t)
      PROVE  AllOrdered
  <2>1. PICK h \in Handles \ fresh, o \in 0 .. Blocks :
          \/ (\E r : Reply(t, "ready", r)) /\ UNCHANGED orderly
          \/ /\ Begin(t, "state")
             /\ handle' = [handle EXCEPT ![t] = h] /\ off' = [off EXCEPT ![t] = o]
             /\ orderly' = IF o = orderly[h] /\ ~Busy(h) THEN orderly
                           ELSE [orderly EXCEPT ![h] = -1]
    BY <1>6, Zenon DEF Read
  <2>2. UNCHANGED sv
    BY <1>6, Zenon DEF Read
  <2>3. CASE (\E r : Reply(t, "ready", r)) /\ UNCHANGED orderly
    BY <1>0, <1>1, <2>2, <2>3, Effects, Zenon DEF Replied
  <2>4. CASE /\ Begin(t, "state")
             /\ handle' = [handle EXCEPT ![t] = h] /\ off' = [off EXCEPT ![t] = o]
             /\ orderly' = IF o = orderly[h] /\ ~Busy(h) THEN orderly
                           ELSE [orderly EXCEPT ![h] = -1]
    <3>1. /\ Others(t) /\ pc[t] = "ready" /\ pc'[t] = "state"
          /\ handle'[t] = h /\ off'[t] = o
      BY <1>0, <2>4, Zenon DEF Begin, Goto, CallTypes, Others
    <3>2. ASSUME NEW g \in Handles, g # h
          PROVE  Ordered(g)'
      <4>1. orderly'[g] = orderly[g]
        BY <1>0, <2>4, <3>2, Zenon DEF FileTypes
      <4>2. \A u \in Threads : Reading(u, g)' => Reading(u, g) /\ off'[u] = off[u]
        BY <3>1, <3>2, Zenon DEF Reading, Others
      <4> QED
        BY <1>c, <2>2, <4>1, <4>2, OrderedSame, Zenon
    <3>3. CASE o = orderly[h] /\ ~Busy(h)
      <4>1. orderly' = orderly /\ Ordered(h)
        BY <2>4, <3>3, Zenon
      <4>2. \A u \in Threads : Reading(u, h)' => u = t
        BY <3>1, <3>3, Zenon DEF Reading, Others, Busy
      <4>3. \A u \in Threads : Reading(u, h)' => off'[u] = orderly'[h]
        BY <3>1, <3>3, <4>1, <4>2, Zenon
      <4>4. \A u, x \in Threads : Reading(u, h)' /\ Reading(x, h)' => u = x
        BY <4>2, Zenon
      <4>5. /\ orderly'[h] # -1 =>
                (verify' => sv'[h].pos = orderly'[h]
                            /\ (sv'[h].disabled => orderly'[h] = Blocks))
            /\ verify' => (orderly'[h] = Blocks => good' /\ sv'[h].clean)
        BY <1>c, <2>2, <4>1, Zenon DEF Ordered
      <4>6. Ordered(h)'
        BY <4>3, <4>4, <4>5, Zenon DEF Ordered
      <4> QED
        BY <3>2, <4>6, Zenon
    <3>4. CASE orderly' = [orderly EXCEPT ![h] = -1]
      BY <1>0, <1>o, <3>2, <3>4, Zenon DEF FileTypes
    <3> QED
      BY <2>4, <3>3, <3>4, Zenon
  <2> QED
    BY <2>1, <2>3, <2>4, Zenon
<1>7. ASSUME NEW t \in Threads, Observe(t)
      PROVE  AllOrdered
  <2>h. PICK h \in Handles : h = handle[t]
    BY <1>7, ObserveWays, Zenon DEF Places
  <2>1. /\ pc[t] = "observe" /\ h = handle[t]
        /\ off[t] \in 0 .. Blocks /\ off[t] < Blocks /\ Reading(t, h)
    BY <1>0, <1>7, <2>h, ObserveWays, Zenon DEF Places, CallTypes, Reading
  <2>2. Others(t) /\ pc'[t] \notin {"state", "pread", "observe"}
    <3>1. Reply(t, "observe", "data") \/ Continue(t, "observe", "diagnose")
      BY <1>7, ObserveWays, Zenon
      DEF Unverified, GivenUp, TakenMore, TakenOk, TakenBad, Delivered
    <3> QED
      BY <1>0, <3>1, Effects DEF Went, Replied
  <2>3. \A g \in Handles \ {h} : orderly'[g] = orderly[g] /\ sv'[g] = sv[g]
    <3>1. \A g \in Handles \ {h} : orderly'[g] = orderly[g]
      BY <1>0, <1>7, <2>1, ObserveWays, ZenonT(40)
      DEF Unverified, GivenUp, TakenMore, TakenOk, TakenBad, Delivered, FileTypes
    <3>2. \A g \in Handles \ {h} : sv'[g] = sv[g]
      BY <1>0, <1>7, <2>1, ObserveWays, TakenEffect, ZenonT(40)
      DEF Unverified, GivenUp, TakenMore, TakenOk, TakenBad, FileTypes
    <3> QED
      BY <3>1, <3>2, Zenon
  <2>4. ASSUME NEW g \in Handles \ {h}
        PROVE  Ordered(g)'
    <3>1. \A u \in Threads : Reading(u, g)' => Reading(u, g) /\ off'[u] = off[u]
      BY <2>2, Zenon DEF Reading, Others
    <3> QED
      BY <1>c, <2>3, <3>1, OrderedSame, Zenon
  <2>5. Ordered(h)'
    <3>1. CASE orderly'[h] = -1
      BY <1>o, <2>1, <3>1, Zenon
    <3>2. CASE orderly'[h] # -1
      <4>1. orderly[h] # -1 /\ orderly'[h] = off[t] + 1 /\ Delivered(t, h)
        BY <1>0, <1>7, <2>1, <3>2, ObserveWays, ZenonT(40)
        DEF Unverified, GivenUp, TakenMore, TakenOk, TakenBad, Delivered, FileTypes
      <4>2. off[t] = orderly[h] /\ \A u \in Threads : Reading(u, h) => u = t
        BY <2>1, <4>1, Zenon DEF Ordered
      <4>3. \A u \in Threads : ~Reading(u, h)'
        BY <2>2, <4>2, Zenon DEF Reading, Others
      <4>4. CASE ~verify
        BY <1>c, <4>3, <4>4, Zenon DEF Ordered
      <4>5. CASE verify
        <5>1. sv[h].pos = off[t] /\ ~sv[h].disabled
          BY <2>1, <4>1, <4>2, <4>5, SMTT(30) DEF Ordered
        <5>2. Awaited(h, off[t])
          BY <5>1, Zenon DEF Awaited
        <5>3. Taken(t) /\ (Complete(h) => Clean(t) /\ good)
          BY <1>7, <3>2, <4>5, <5>2, <1>0, <2>1, ObserveWays, ZenonT(40)
          DEF Unverified, GivenUp, TakenMore, TakenOk, TakenBad, FileTypes
        <5>4. /\ sv'[h].pos = sv[h].pos + 1
              /\ sv'[h].disabled <=> Complete(h)
              /\ sv'[h].clean <=> Clean(t)
          BY <1>0, <2>1, <5>3, TakenEffect, Zenon
        <5>5. Complete(h) <=> orderly'[h] = Blocks
          BY <2>1, <4>1, <5>1, ReadsAssumption DEF Complete
        <5>6. /\ sv'[h].pos = orderly'[h]
              /\ sv'[h].disabled => orderly'[h] = Blocks
              /\ orderly'[h] = Blocks => good' /\ sv'[h].clean
          BY <1>c, <4>1, <5>1, <5>3, <5>4, <5>5, Zenon
        <5> QED
          BY <4>3, <5>6, Zenon DEF Ordered
      <4> QED
        BY <4>4, <4>5, Zenon
    <3> QED
      BY <3>1, <3>2, Zenon
  <2> QED
    BY <2>4, <2>5, Zenon
<1> QED
  BY <1>2, <1>3, <1>5, <1>6, <1>7, Zenon DEF Next, Proceed, Away

-----------------------------------------------------------------------------
(* A mount begins in the invariant.                                        *)
LEMMA InitOrder ==
  Init => OrderInv
<1> SUFFICES ASSUME Init
             PROVE  OrderInv
  BY Zenon
<1>1. \A h \in Handles :
        orderly[h] = 0 /\ sv[h].pos = 0 /\ ~sv[h].disabled /\ sv[h].clean
  BY Zenon DEF Init
<1>2. \A t \in Threads :
        pc[t] = "ready" /\ reply[t] = "none" /\ began[t] = "fresh"
  BY Zenon DEF Init
<1>3. InOrder /\ OrderlyReadChecked
  BY <1>1, <1>2, ReadsAssumption DEF InOrder, OrderlyReadChecked, Reading
<1>4. Since /\ ChangeIsNamed
  BY <1>2, Zenon DEF Init, Since, ChangeIsNamed
<1> QED
  BY <1>3, <1>4, Zenon DEF OrderInv

(* Each step keeps the invariant.                                          *)
LEMMA OrderInductive ==
  ReadsInv /\ OrderInv /\ [Next]_vars => OrderInv'
<1> SUFFICES ASSUME ReadsInv, OrderInv, [Next]_vars
             PROVE  OrderInv'
  BY Zenon
<1>1. CASE Next
  <2>1. InOrder' /\ OrderlyReadChecked'
    <3>1. \A h \in Handles : Ordered(h)'
      BY <1>1, OrderedParts, OrderKept, Zenon DEF ReadsInv, OrderInv
    <3> QED
      BY <3>1, Zenon DEF Ordered, InOrder, OrderlyReadChecked
  <2>2. Since' /\ ChangeIsNamed'
    <3>1. (shown => content = "altered") /\ \A u \in Threads : Named(u)
      BY NamedParts, Zenon DEF OrderInv
    <3>2. \A u \in Threads : Named(u)'
      BY <1>1, <3>1, NamedKept, Zenon DEF ReadsInv
    <3>3. shown' => content' = "altered"
      BY <1>1, <3>1, Lasting, Zenon DEF ReadsInv
    <3> QED
      BY <3>2, <3>3, Zenon DEF Named, Since, ChangeIsNamed
  <2> QED
    BY <2>1, <2>2, Zenon DEF OrderInv
<1>2. CASE UNCHANGED vars
  <2>1. /\ UNCHANGED <<content, shown, stale, good, verify, slot, sv, orderly>>
        /\ UNCHANGED <<pc, handle, off, began, reply>>
    BY <1>2, Zenon DEF vars, archive, constant, index, files, call
  <2> QED
    BY <2>1, ZenonT(40)
    DEF OrderInv, InOrder, Reading, OrderlyReadChecked, Since, ChangeIsNamed
<1> QED
  BY <1>1, <1>2, Zenon

(* The invariant holds in every state a mount reaches.                     *)
LEMMA AlwaysOrder ==
  Spec => []OrderInv
BY InitOrder, OrderInductive, AlwaysInv, PTL DEF Spec

(* fs.rs 415-416: the last block of a file read in order is delivered only *)
(* if the whole matches its checksum, also if the archive changes between  *)
(* two of the reads.                                                       *)
THEOREM ReadInOrderIsChecked ==
  Spec => []OrderlyReadChecked
<1>1. OrderInv => OrderlyReadChecked
  BY Zenon DEF OrderInv
<1> QED
  BY <1>1, AlwaysOrder, PTL

(* fs.rs 121-125: a call that begins after a change was shown or found     *)
(* never replies data of the archive, nor EIO for it.                      *)
THEOREM StalenessIsNamed ==
  Spec => []ChangeIsNamed
<1>1. OrderInv => ChangeIsNamed
  BY Zenon DEF OrderInv
<1> QED
  BY <1>1, AlwaysOrder, PTL
=============================================================================
