----------------------------- MODULE EntryReads -----------------------------
(***************************************************************************)
(* What the kernel sees of one stored entry, a file or a symbolic link:    *)
(* open, read, release and readlink of src/fs.rs, with the checksum a      *)
(* handle follows (src/handle.rs), the position of an entry's data that    *)
(* the archive remembers (src/archive.rs), and the verdicts and targets    *)
(* the index remembers (src/index.rs).  All of these are shared by threads *)
(* that interleave between any two accesses.                               *)
(*                                                                         *)
(* What open and readlink answer from the kind of the node and the access  *)
(* mode alone is left out, and the entry has at least one byte.            *)
(*                                                                         *)
(* The archive is what GuardedFile promises of it: a guarded read or check *)
(* finds a change if the stamps show it, may fail for a while, and         *)
(* otherwise gives the bytes that are there.  The bytes can change before  *)
(* the stamps show it (an attribute cache, a coarse clock).                *)
(***************************************************************************)
EXTENDS Integers, FiniteSets

CONSTANTS
  Threads,   \* the FUSE worker threads
  Handles,   \* file handles
  Blocks,    \* the number of blocks of the file, read one at a time
  NoHandle

ASSUME ReadsAssumption == Blocks \in Nat \ {0} /\ NoHandle \notin Handles

Bytes == {"mounted", "altered"}
Verdicts == {"unknown", "ok", "bad"}
(* A readlink that succeeds replies the target, as whose bytes it is.      *)
Replies == {"none", "opened", "data", "empty", "eio", "estale", "ebadf",
            "refused", "released"} \cup Bytes
(* An entry can be served, or is encrypted or compressed by a method that  *)
(* is not supported, or is stored with two sizes that differ, or is a link *)
(* longer than MAX_SYMLINK.                                                *)
Entries == {"fit", "refused", "uneven", "long"}
PC == {"ready", "state", "pread", "observe", "diagnose", "locate", "header",
       "store", "insert", "linkstate", "linkread", "linkverify", "linkset"}

VARIABLES
  content,   \* the bytes the archive holds
  shown,     \* the stamps show that they changed
  stale,     \* GuardedFile::stale
  kind,      \* the kind of the entry's node
  good,      \* the mounted bytes of the entry match its crc32
  entry,     \* whether the entry can be served
  verify,    \* Config::verify
  state,     \* EntryMeta::verify_state
  start,     \* EntryMeta::data_start, as whose bytes it leads to
  slot,      \* Index::symlinks, as whose bytes the target is
  fresh, table,  \* HandleTable::next and the keys of map
  loc,       \* the data_start an open file was made with
  sv,        \* the StoreVerify of an open file
  orderly,   \* history: blocks read so far, if one at a time and in order,
             \* and -1 otherwise, or once the checksum failed
  pc, handle, off,   \* what each thread is doing, and to what
  buf,       \* whose bytes it read, or whose the position leads to
  began,     \* history: whether a change was shown or found as it began,
             \* shown only as long as the archive can be examined
  reply

archive == <<content, shown>>
index == <<state, start, slot>>
files == <<fresh, table, loc, sv, orderly>>
constant == <<kind, good, entry, verify>>
call == <<handle, off>>
vars == <<archive, stale, constant, index, files, pc, call, buf, began, reply>>

TypeOK ==
  /\ content \in Bytes /\ shown \in BOOLEAN /\ stale \in BOOLEAN
  /\ kind \in {"file", "link"} /\ good \in BOOLEAN /\ verify \in BOOLEAN
  /\ entry \in Entries /\ state \in Verdicts
  /\ start \in Bytes \cup {"unset"}
  /\ slot \in Bytes \cup {"unset"}
  /\ fresh \in SUBSET Handles /\ table \in SUBSET (Handles \ fresh)
  /\ loc \in [Handles -> Bytes]
  /\ sv \in [Handles -> [pos : 0 .. Blocks, disabled : BOOLEAN, clean : BOOLEAN]]
  /\ orderly \in [Handles -> -1 .. Blocks]
  /\ pc \in [Threads -> PC]
  /\ handle \in [Threads -> Handles \cup {NoHandle}]
  /\ off \in [Threads -> 0 .. Blocks] /\ buf \in [Threads -> Bytes]
  /\ began \in [Threads -> {"fresh", "shown", "stale"}]
  /\ reply \in [Threads -> Replies]

Init ==
  /\ content = "mounted" /\ shown = FALSE /\ stale = FALSE
  /\ kind \in {"file", "link"} /\ good \in BOOLEAN /\ verify \in BOOLEAN
  /\ entry \in Entries /\ (entry = "long" => kind = "link")
  /\ state = "unknown" /\ start = "unset" /\ slot = "unset"
  /\ fresh = Handles /\ table = {}
  /\ loc = [h \in Handles |-> "mounted"]
  /\ sv = [h \in Handles |-> [pos |-> 0, disabled |-> FALSE, clean |-> TRUE]]
  /\ orderly = [h \in Handles |-> 0]
  /\ pc = [t \in Threads |-> "ready"]
  /\ handle = [t \in Threads |-> NoHandle]
  /\ off = [t \in Threads |-> 0] /\ buf = [t \in Threads |-> "mounted"]
  /\ began = [t \in Threads |-> "fresh"]
  /\ reply = [t \in Threads |-> "none"]

-----------------------------------------------------------------------------
(* Another process changes the archive; the stamps show it then or later.  *)

Alter ==
  /\ content = "mounted"
  /\ content' = "altered" /\ shown' \in BOOLEAN
  /\ UNCHANGED <<stale, constant, index, files, pc, call, buf, began, reply>>

Show ==
  /\ content = "altered" /\ ~shown
  /\ shown' = TRUE
  /\ UNCHANGED <<content, stale, constant, index, files, pc, call, buf, began,
                 reply>>

-----------------------------------------------------------------------------
Goto(t, from, to) == pc[t] = from /\ pc' = [pc EXCEPT ![t] = to]

Continue(t, from, to) == Goto(t, from, to) /\ UNCHANGED <<call, buf, reply>>

(* The thread goes on with the bytes of v.                                 *)
Fetch(t, from, to, v) ==
  /\ Goto(t, from, to)
  /\ buf' = [buf EXCEPT ![t] = v]
  /\ UNCHANGED <<call, reply>>

(* What was read is gone once the call has returned.                       *)
Reply(t, from, r) ==
  /\ Goto(t, from, "ready")
  /\ reply' = [reply EXCEPT ![t] = r]
  /\ buf' = [buf EXCEPT ![t] = "mounted"]
  /\ handle' = [handle EXCEPT ![t] = NoHandle] /\ off' = [off EXCEPT ![t] = 0]

(* The thread takes a request for an entry of kind k.                      *)
Request(t, k) ==
  /\ pc[t] = "ready" /\ kind = k
  /\ began' = [began EXCEPT ![t] = IF stale THEN "stale"
                                   ELSE IF shown THEN "shown" ELSE "fresh"]

Begin(t, to) ==
  /\ Goto(t, "ready", to)
  /\ reply' = [reply EXCEPT ![t] = "none"]
  /\ UNCHANGED buf

(* The outcomes of a guarded read or check: what GuardedFile promises.     *)
GuardFinds == (stale \/ shown) /\ stale' = TRUE /\ UNCHANGED began

GuardFails(t) ==
  /\ ~stale /\ UNCHANGED stale
  /\ began' = [began EXCEPT ![t] = "fresh"]

GuardPasses == ~stale /\ ~shown /\ UNCHANGED <<stale, began>>

(* The bytes at a position that leads to those of v.                       *)
BytesAt(v) == IF v = "altered" THEN "altered" ELSE content

Diagnose_Plain(t) ==
  /\ Reply(t, "diagnose", "eio")
  /\ UNCHANGED <<archive, stale, constant, index, files, began>>

(* diagnose(EIO) examines the archive again.                               *)
Diagnose(t) ==
  /\ \/ GuardFinds /\ Reply(t, "diagnose", "estale")
     \/ (GuardFails(t) \/ GuardPasses) /\ Reply(t, "diagnose", "eio")
  /\ UNCHANGED <<archive, constant, index, files>>

-----------------------------------------------------------------------------
(* locate and Archive::data_start, for open and for readlink.              *)

Located == IF kind = "file" THEN "insert" ELSE "linkread"

LocateCached(t) ==
  /\ start # "unset"
  /\ Fetch(t, "locate", Located, start)
  /\ UNCHANGED <<archive, stale, constant, index, files, began>>

LocateUnset(t) ==
  /\ start = "unset"
  /\ Continue(t, "locate", "header")
  /\ UNCHANGED <<archive, stale, constant, index, files, began>>

(* The local header is read.  One that changed leads to other bytes, or is *)
(* not a header that fits the entry.                                       *)
Header(t) ==
  /\ \/ GuardPasses /\ Fetch(t, "header", "store", content)
     \/ GuardPasses /\ content = "altered" /\ Continue(t, "header", "diagnose")
     \/ (GuardFinds \/ GuardFails(t)) /\ Continue(t, "header", "diagnose")
  /\ UNCHANGED <<archive, constant, index, files>>

StoreStart(t) ==
  /\ Continue(t, "store", Located)
  /\ start' = buf[t]
  /\ UNCHANGED <<archive, stale, constant, state, slot, files, began>>

-----------------------------------------------------------------------------
(* open and release.                                                       *)

(* The handle numbers the model has left bound the opens.                  *)
Opening == {u \in Threads : pc[u] \in {"locate", "header", "store", "insert"}}

Open(t) ==
  /\ Cardinality(Opening) < Cardinality(fresh)
  /\ Request(t, "file")
  /\ \/ stale /\ Reply(t, "ready", "estale")
     \/ ~stale /\ entry = "refused" /\ Reply(t, "ready", "refused")
     \/ ~stale /\ entry = "uneven" /\ Begin(t, "diagnose") /\ UNCHANGED call
     \/ /\ ~stale /\ entry \notin {"refused", "uneven"}
        /\ Begin(t, "locate") /\ UNCHANGED call
  /\ UNCHANGED <<archive, stale, constant, index, files>>

Insert_SameNumber(t) ==
  /\ \E h \in fresh :
       /\ table' = table \cup {h} /\ fresh' = fresh
       /\ loc' = [loc EXCEPT ![h] = buf[t]]
  /\ Reply(t, "insert", "opened")
  /\ UNCHANGED <<archive, stale, constant, index, sv, orderly, began>>

(* OpenFile::new and HandleTable::insert.                                  *)
Insert(t) ==
  /\ \E h \in fresh :
       /\ table' = table \cup {h} /\ fresh' = fresh \ {h}
       /\ loc' = [loc EXCEPT ![h] = buf[t]]
  /\ Reply(t, "insert", "opened")
  /\ UNCHANGED <<archive, stale, constant, index, sv, orderly, began>>

Release(t) ==
  /\ Request(t, "file")
  /\ \E h \in table : table' = table \ {h}
  /\ Reply(t, "ready", "released")
  /\ UNCHANGED <<archive, stale, constant, index, fresh, loc, sv, orderly>>

-----------------------------------------------------------------------------
(* read of one block.                                                      *)

Busy(h) ==
  \E u \in Threads : pc[u] \in {"state", "pread", "observe"} /\ handle[u] = h

Read(t) ==
  /\ Request(t, "file")
  /\ \E h \in Handles \ fresh, o \in 0 .. Blocks :
       /\ \/ h \notin table /\ Reply(t, "ready", "ebadf") /\ UNCHANGED orderly
          \/ /\ h \in table /\ stale
             /\ Reply(t, "ready", "estale") /\ UNCHANGED orderly
          \/ /\ h \in table /\ ~stale
             /\ Begin(t, "state")
             /\ handle' = [handle EXCEPT ![t] = h] /\ off' = [off EXCEPT ![t] = o]
             /\ orderly' = IF o = orderly[h] /\ ~Busy(h) THEN orderly
                           ELSE [orderly EXCEPT ![h] = -1]
  /\ UNCHANGED <<archive, stale, constant, index, fresh, table, loc, sv>>

(* A bad entry is not read again, and nothing is beyond the end.           *)
ReadState(t) ==
  /\ \/ state = "bad" /\ Continue(t, "state", "diagnose")
     \/ state # "bad" /\ off[t] >= Blocks /\ Reply(t, "state", "empty")
     \/ state # "bad" /\ off[t] < Blocks /\ Continue(t, "state", "pread")
  /\ UNCHANGED <<archive, stale, constant, index, files, began>>

(* read_direct.                                                            *)
Pread(t) ==
  /\ \/ GuardPasses /\ Fetch(t, "pread", "observe", BytesAt(loc[handle[t]]))
     \/ GuardFinds /\ Reply(t, "pread", "estale")
     \/ GuardFails(t) /\ Continue(t, "pread", "diagnose")
  /\ UNCHANGED <<archive, constant, index, files>>

Awaited_AnyOffset(h, o) == ~sv[h].disabled

(* The block is the one the checksum waits for.                            *)
Awaited(h, o) == ~sv[h].disabled /\ o = sv[h].pos

Complete_OffByOne(h) == sv[h].pos + 1 > Blocks

(* The block is the last.                                                  *)
Complete(h) == sv[h].pos + 1 >= Blocks

Delivered(t, h) ==
  /\ Reply(t, "observe", "data")
  /\ orderly' = [orderly EXCEPT ![h] = IF @ = -1 THEN -1 ELSE off[t] + 1]

(* StoreVerify::observe under its lock, then the reply.                    *)
Observe(t) ==
  /\ pc[t] = "observe"
  /\ LET h == handle[t]
         clean == sv[h].clean /\ off[t] = sv[h].pos /\ buf[t] = "mounted"
         matches == clean /\ good
     IN \/ ~verify /\ Delivered(t, h) /\ UNCHANGED <<sv, state>>
        \/ /\ verify /\ ~Awaited(h, off[t])
           /\ sv' = [sv EXCEPT ![h].disabled = TRUE]
           /\ Delivered(t, h) /\ UNCHANGED state
        \/ /\ verify /\ Awaited(h, off[t])
           /\ sv' = [sv EXCEPT ![h] = [pos |-> @.pos + 1, disabled |-> Complete(h),
                                       clean |-> clean]]
           /\ \/ ~Complete(h) /\ Delivered(t, h) /\ UNCHANGED state
              \/ Complete(h) /\ matches /\ state' = "ok" /\ Delivered(t, h)
              \/ /\ Complete(h) /\ ~matches /\ state' = "bad"
                 /\ Continue(t, "observe", "diagnose")
                 /\ orderly' = [orderly EXCEPT ![h] = -1]
  /\ UNCHANGED <<archive, stale, constant, start, slot, fresh, table, loc, began>>

-----------------------------------------------------------------------------
(* readlink and read_all.                                                  *)

Readlink(t) ==
  /\ Request(t, "link")
  /\ \/ slot # "unset" /\ Reply(t, "ready", slot)
     \/ slot = "unset" /\ Begin(t, "linkstate") /\ UNCHANGED call
  /\ UNCHANGED <<archive, stale, constant, index, files>>

LinkState(t) ==
  /\ \/ state = "bad" /\ Continue(t, "linkstate", "diagnose")
     \/ state # "bad" /\ stale /\ Reply(t, "linkstate", "estale")
     \/ /\ state # "bad" /\ ~stale /\ entry = "refused"
        /\ Reply(t, "linkstate", "refused")
     \/ /\ state # "bad" /\ ~stale /\ entry = "uneven"
        /\ Continue(t, "linkstate", "diagnose")
     \/ /\ state # "bad" /\ ~stale /\ entry \notin {"refused", "uneven"}
        /\ Continue(t, "linkstate", "locate")
  /\ UNCHANGED <<archive, stale, constant, index, files, began>>

LinkTooLong(t) ==
  /\ entry = "long" /\ Continue(t, "linkread", "diagnose")
  /\ UNCHANGED <<archive, stale, constant, index, files, began>>

LinkRead(t) ==
  /\ entry # "long"
  /\ \/ GuardPasses /\ Fetch(t, "linkread", "linkverify", BytesAt(buf[t]))
     \/ (GuardFinds \/ GuardFails(t)) /\ Continue(t, "linkread", "diagnose")
  /\ UNCHANGED <<archive, constant, index, files>>

(* verify_stored.                                                          *)
LinkVerify(t) ==
  /\ LET matches == buf[t] = "mounted" /\ good
     IN \/ ~verify /\ Continue(t, "linkverify", "linkset") /\ UNCHANGED state
        \/ /\ verify /\ matches /\ state' = "ok"
           /\ Continue(t, "linkverify", "linkset")
        \/ /\ verify /\ ~matches /\ state' = "bad"
           /\ Continue(t, "linkverify", "diagnose")
  /\ UNCHANGED <<archive, stale, constant, start, slot, files, began>>

LinkSet_Overwrites(t) ==
  /\ slot' = buf[t]
  /\ Reply(t, "linkset", slot')
  /\ UNCHANGED <<archive, stale, constant, state, start, files, began>>

(* set_symlink: the first target stays, and every caller gets that one.    *)
LinkSet(t) ==
  /\ slot' = IF slot = "unset" THEN buf[t] ELSE slot
  /\ Reply(t, "linkset", slot')
  /\ UNCHANGED <<archive, stale, constant, state, start, files, began>>

-----------------------------------------------------------------------------
Proceed(t) ==
  \/ LocateCached(t) \/ LocateUnset(t) \/ Header(t) \/ StoreStart(t) \/ Insert(t)
  \/ ReadState(t) \/ Pread(t) \/ Observe(t)
  \/ LinkState(t) \/ LinkTooLong(t) \/ LinkRead(t) \/ LinkVerify(t) \/ LinkSet(t)
  \/ Diagnose(t)

Next ==
  \/ Alter \/ Show
  \/ \E t \in Threads : Open(t) \/ Release(t) \/ Read(t) \/ Readlink(t) \/ Proceed(t)

Spec == Init /\ [][Next]_vars

(* A worker that has a request goes on with it.                            *)
FairSpec == Spec /\ \A t \in Threads : WF_vars(Proceed(t))

-----------------------------------------------------------------------------
(* Properties.                                                             *)

(* handle.rs 42-56, fs.rs 205-222: while the archive is the mounted one,   *)
(* no order in which blocks are read, repeated, lost to failures or handed *)
(* to several threads and handles makes a verdict wrong.                   *)
VerdictRight ==
  content = "mounted" => (state = "ok" => good) /\ (state = "bad" => ~good)

(* fs.rs 415-416, "the failure surfaces on the read that completes it":    *)
(* if a file is read block by block in order, with reads that the archive  *)
(* failed repeated, the last block is delivered only if all the blocks     *)
(* together have the declared checksum, even if the archive changed        *)
(* unnoticed.  A read repeated after the checksum failed is not covered:   *)
(* another handle may meanwhile have turned the verdict (StateIsSticky).   *)
OrderlyReadChecked ==
  verify => \A h \in Handles : orderly[h] = Blocks => good /\ sv[h].clean

(* fs.rs 121-125: a call that begins once the stamps show a change gets no *)
(* data, and gets EIO only if the archive could not be examined.  One that *)
(* begins once a change was found gets ESTALE, or a target read before.    *)
ChangeIsNamed ==
  \A t \in Threads :
    /\ began[t] = "shown" => reply[t] \notin {"data", "eio"}
    /\ began[t] = "stale" =>
         reply[t] \in {"none", "estale", "ebadf", "released", slot}

(* index.rs 229-234: all readlinks of a link give the same target, also if *)
(* they raced to read it; with verification it is the archive's.  The      *)
(* comment above the code has it that "a racing writer keeps its own       *)
(* value"; the code gives it the value that was set first, and without     *)
(* verification the two may differ.                                        *)
TargetsAgree ==
  /\ \A t \in Threads : reply[t] \in Bytes => reply[t] = slot
  /\ verify /\ slot # "unset" => slot = "mounted" /\ good

(* index.rs 109: verify_state is "Sticky once it is not `UNKNOWN`".        *)
StateIsSticky == [][state # "unknown" => state' = state]_vars
=============================================================================
