# A verification of zipfs

zipfs mounts a zip archive as a read-only FUSE file system. It serves requests
on several worker threads, keeps decompressors alive between reads, verifies
checksums as it goes, notices when the archive changes under it, and can leave
its caller and go on as a daemon. This directory has TLA+ models of those parts,
TLC configurations that check them on small instances, and proofs that TLAPS
checks for instances of any size.
`PROJECT.json` maps every definition to the lines it models.

Source paths below are relative to `src/src/` unless they say otherwise.

## The system and its parts

A worker thread takes one request at a time from the kernel (`fs.rs`). What the
workers share, and how it is protected:

| part | source | shared state | protection |
| --- | --- | --- | --- |
| handle table | `handle.rs` | open files by number | `RwLock`, atomic counter, `Arc` |
| decoder pool | `pool.rs` | idle decoders of a file; retained counter and spare parts of the mount | a mutex for each list, an atomic |
| decoder, source, codec | `decode.rs`, `source.rs`, `codec.rs`, `codec/` | none: owned by one thread while it reads | the pool |
| stored checksums | `handle.rs` | `StoreVerify` of an open file | mutex |
| archive guard | `guard.rs` | `stale`, `unsure` | relaxed atomics |
| archive access | `archive.rs` | remembered position of an entry's data | relaxed atomic |
| index in use | `index.rs` | verdicts (`verify_state`), link targets | relaxed atomics, `OnceLock` |
| index builder, interner | `index/build.rs`, `index/intern.rs`, `hash.rs` | none: built before the mount | one thread |
| attributes, configuration, errors | `attr.rs`, `config.rs`, `lib.rs` | none | pure |
| command line | `cli.rs` | none | pure |
| process | `main.rs` | pipe between caller and daemon; counters of the syslog writer | fork, atomics |

A read goes through them in this order: the handle is looked up, `stale` and the
verdict are consulted, and then either the bytes are read from the archive and
fed to the file's checksum (stored entries), or a decoder is checked out of the
file's pool, reads the archive through its source and its codec, and is given
back. Each read of the archive is followed by the guard's comparison of stamps.
An operation that would fail with EIO examines the archive once more, and fails
with ESTALE if it changed.

## The modules

Every module has the state of its component as variables, one action for each
step between two accesses to shared state, and named program points (`pc`) where
a thread can be preempted. Operators keep the source's names where they can.
Definitions whose name has an underscore and a suffix (`Checkout_Shared`,
`Start_Cursor`) are plausible bugs: each stands before the definition it
corrupts, and is there to show that a property would notice.

### DecoderPool

`pool.rs`, and of `handle.rs` and `fs.rs` what decides which thread may touch a
pool. A request is an open, a read, a release or a readlink; a readlink has a
private pool. `checkout` is the step under the list lock (`Checkout`,
`CheckoutEmpty`) and what follows it (`ReleaseRetain` with `reinit`, or
`TakeCore`). `give_back` takes its slot (`GiveBackRetain`) and pushes
(`GiveBackPush`) in two steps with the lock held, since the counter it touches
is not protected by that lock. The destructor of a pool is run by whoever drops
the last reference (`DropLast` and what follows). A decoder is its position and
whether its stream ended; `ReadAt` may leave both anywhere that Decoder allows,
and may fail. A list is a set, as `swap_remove` keeps no order; decoders at one
position are interchangeable. Left out: poisoned locks, which `lock` ignores,
and the weak memory order of the counter, whose every access is a
read-modify-write or a plain report.

### GuardedFile

`guard.rs`: `read_exact_at` is `Pread` and then `verify`; `check` is `verify`
and a look at the flag. `verify` is `LoadStale`, `Fstat`, `FstatAt` (where the
name was found) and one of `Mark`, `Clear`, `Unsure`, which swap a flag. The
thread that changed the flag writes the message in a step of its own (`LogMark`,
`LogClear`, `LogUnsure`), so messages of several threads can come in another
order than the swaps; `warned` counts warnings less recoveries. The definitions that every
module has are named for the guard here (`GuardInit`, `GuardNext`, `at` for
`pc`), as its proofs stand beside those of Decoder; so are those of Syslog
(`LogInit`, `LogNext`), beside Process, and of Interner (`InternInit`, `doing`
for `pc`), beside DecoderPool. The other process writes (first the new time,
later the data, as the kernel does), truncates, sets the old time again,
renames, removes; a CIFS client reconnects. The history variable `blind` records
that one of the limits was met that the header of `guard.rs` documents: a write
that leaves the time as it was, a tool that sets the time back, a descriptor
that moved where the name is not known. The attribute caches of NFS and CIFS are
not modelled here; EntryReads allows what they do.

### Decoder

`decode.rs`, `source.rs` and what the codecs promise. Bytes are positions: the
codec consumes the compressed bytes in order and produces the uncompressed bytes
in order, and how many of each a call moves is its own choice (`Outcomes`). An
entry is described by where its stream ends, where it is rejected, how long it
really is and how long it is said to be. `PumpStep` is one turn of `Pump::step`;
`End` is `verify` up to its look for one byte more, which goes through the same
pump. Reads of the archive fail at any time (`ReadFails`), and parts are
recycled for other entries (`Renew`).

### EntryReads

One entry, a stored file or a link, as the kernel sees it through `fs.rs`, with
`StoreVerify`, the position that `archive.rs` remembers and the verdict and
target that `index.rs` remembers. The entry can be served (`fit`), or it is
encrypted or of a method that is not supported (`refused`), or stored with two
sizes that differ (`uneven`), or a link that is too long (`long`). The guard
appears by what it promises (`GuardFinds`, `GuardFails`, `GuardPasses`), and the
bytes of the archive may change some time before the stamps show it.

### IndexBuild

`index/build.rs` from the first record to the finished tree, then `lookup`,
`opendir`, `readdir` and `readdirplus` on it. A path is a sequence of pieces, a
name is a number in the order of the bytes. `Builder::add` is four actions by
its outcome. The interner is the map it implements. `finish` (siblings sorted,
nodes numbered breadth first) is one action. `file_attr` gives the kind, the
size, the permissions and the link count that the kernel gets for an inode; a
mode is a set of bits.

### InternMap and Interner

InternMap is what IndexBuild takes the interner for: a map from a parent and a
name to the number of a node, which is given once and for good. Interner is the
table of `index/intern.rs` that implements it, under `Builder::intern`: slots, a
mask, linear probing and growth. Each probe is a step, in a lookup (`FindNext`,
`FindHit`, `FindMiss`), in an insertion (`PlaceNext`, `PlaceMoved`, `PlaceNew`)
and while the table grows (`GrowSkip`, `GrowMove`, `GrowDone`). The hash is any
function of the key, chosen at the start. In the refinement a node counts as
known once the call that adds it returns.

### Syslog

`Syslog::send_record` of `main.rs`, in which the worker threads share `DROPPED`
and `REPORTED` without a lock. Each access to either and each datagram is a
step, and the daemon takes or refuses each datagram. A refused line has a name
and a `fate`: it is in the counter, or with the thread that took it out in order
to report it, or free to be used again, once a report of it was taken. Seconds
are compared only for equality, so a clock that goes around is enough, with a
value for those that are over. `main.rs:73` says that the number is reported at
most once each second. The code compares `REPORTED` with a `now` that it read
when the record began, so a thread that was slow may set `REPORTED` back and let
a second report out in the same second. The model has that behaviour, and no
property depends on it.

### Settings and Process

Settings has the options of `cli.rs`, the lists of `mount(8)`, and the defaults
and the clamping of `config.rs`, as operators. Process is the program around
them: it takes arguments one by one (`Parse`), checks them, mounts, and then
either serves or forks. From there on there are two processes and a pipe. The
child detaches in six steps, each of which may fail, and sends the verdict or
the reason in pieces of any length; the first process reads in pieces of at most
`Buf` bytes, and leaves with the exit code. Either may be killed between any two
steps (`KillFirst`, `KillChild`), after which the other finds the pipe closed.
A signal interrupts a read or a write of the pipe, and the call is made again
(`Interrupted`). Other errors of these calls are left out: for a pipe that the
process has open there are none. The mount is live as long as a process has the
session and does not drop it.

## The runs

| run | instance | checks | distinct states |
| --- | --- | --- | --- |
| `pool_safety` | 2 threads, 2 files and the pools of readlink, 5 decoders, budget 2, cap 1, 2 methods | `TypeOK`, `RetainedExact`, `OneOwner`, `NothingStranded`, `HandedOutUsable`, `IdleBounded` | 351,252 |
| `pool_live` | 2 threads, 1 file, 3 decoders, budget 1, cap 1 | `EveryRequestEnds` | 167,235 |
| `guard` | 2 readers, 2 writes | `OnlyMountedBytes`, `ShortFileIsChange`, `StaleIsPermanent`, `NoFalseAlarm`, `MessagesAddUp` | 2,764,340 |
| `decoder` | 13 entries of up to 3 bytes, buffers of 2 and 1 | `TypeOK`, `RightBytes`, `SoundReadsWhole`, `NoFalseBad`, `LastByteVerified`, `VerdictRecorded`, `ReadEnds` | 18,908 |
| `reads` | 2 threads, 2 handles, 2 blocks | `TypeOK`, `VerdictRight`, `OrderlyReadChecked`, `ChangeIsNamed`, `TargetsAgree` | 1,487,867 |
| `index` | up to 4 of 15 records, 2 names, depth 3, replies of up to 2 names | `MemoRight`, `SyntheticExact`, `TreeRight`, `EntriesRight`, `ListingRight` | 732,730 |
| `interner` | 4 keys, hashes 0, 3 and 7, tables of 2, 4 and 8 slots | `LoadHalved`, `ImplementsMap`, `InternEnds` | 174,513 |
| `syslog` | 2 threads, records of up to 2 lines, 2 refused lines at once, a period of 3 seconds | `Ledger`, `DroppedIsTold` | 95,070 |
| `process` | up to 3 of 28 arguments, a reason of 3 bytes, reads of 2 | `SettingsAsGiven`, `ExitIsVerdict`, `MessageWhole`, `ServedIsMounted`, `CallerHears`, `FailureLeavesNoMount` | 189,098 |

What they show, in short: whatever the order of the threads' steps, the budget
is exact, no decoder is shared, lost or handed out for an offset it has passed,
and every request returns; bytes of a changed archive are not delivered, unless
a limit that the code documents was met, and a change gets its own error; the
bytes of a decoder are those of the offset asked for and its verdicts are true;
the tree is the one that the records define; the interner is a map; no dropped
line is lost or counted twice; and the caller of a mount is told the truth.

Three more runs check sentences of the documentation that the code does not
keep; TLC finds a behaviour for each.

| run | sentence | what the code does |
| --- | --- | --- |
| `decoder_short` | `decode.rs:125`: `read_at` fails if "the entry is truncated" | a stream that ends before its declared size gives a short read without an error, and the entry is never marked bad, since verification starts only at the declared size |
| `reads_sticky` | `index.rs:109`: the verdict is "Sticky once it is not `UNKNOWN`" | `set_verify_state` stores without looking, so readers on both sides of an unnoticed change overwrite each other's verdict; with two open files even bad turns to ok |
| `index_dir_kept` | `src/README.md:57`: "Where one path is a file and another makes it a directory, the directory is kept" | a directory record that comes after a file record is dropped as a duplicate |

Two more sentences differ from the code, and a property that holds says what the
code does instead.

| run, property | sentence | what the code does |
| --- | --- | --- |
| `reads`, `TargetsAgree` | `index.rs:227`: "A racing writer keeps its own value" | every readlink gives the target that was set first; without verification the one that lost the race may have read another |
| `process`, `SettingsAsGiven` | `cli.rs:142` and `src/man/zipfs.1:129`: a umask has the "bits to take away from both modes above" (`fmask` and `dmask` alike) | a mask sets the modes to 666 and 777 without its bits, whatever the modes were |

`index/intern.rs:47`, "Keep the load factor under one half", is meant loosely: a
table that is exactly half full does not grow, and `LoadHalved` allows it.

The count of `index/build.rs:31`, "Entries indexed, not counting synthetic
directories", differs from what it says in one case, for which there is no run:
`take_over_as_dir` drops an entry and leaves the count.

### Bounds

* Two threads give every race of two accesses; the decoders are one more than
  `MemoryBound` allows, so a leak has room to show. In `pool_safety` the cap of
  a file binds, and the budget is smaller than what all pools may keep together;
  in `pool_live` two threads contend for one lock and one slot. For more
  threads, files and decoders, and other limits, there are the proofs.
* Two writes let the time change, be set back and change again around a read.
* Three bytes through buffers of two and one let a read begin, end and refill
  inside an entry, skip, and leave a partial buffer; the entries are sound ones
  and one of each way to be bad.
* Two blocks are the least that can be read out of order, and two handles the
  least that can give one entry two verdicts.
* Four records over two names reach a file, a directory, an implied directory
  and a link at one path in every order, with one record to spare below or
  beside them.
* Four keys make the table grow twice. Hashes 3 and 7 share the last bucket of
  the tables of 2 and 4 slots, so that probes go around the end, and part in the
  table of 8.
* Two lines let one be counted while another is reported, and a record have one
  line refused and one taken. A clock with a period of three tells the present,
  an earlier and a later second apart.
* Three arguments let a setting be given, taken back and given again, beside an
  error or a switch; three bytes through reads of two need two reads.

Symmetry is used for threads, decoders and handles in the safety runs only. The
deadlock check is switched off in `process` only, where both processes end.

### Fairness

`DecoderPool!FairSpec`: a thread inside a request keeps running (weak fairness),
and one that waits for a list lock gets it if it is free again and again (strong
fairness; the standard mutex wakes its waiters). Nothing makes the kernel send a
request. `Decoder!FairSpec`, `EntryReads!FairSpec` and
`Interner!InternFairSpec`: the thread in a call keeps running.
`Process!FairSpec`: a process that can go on does so; nothing kills it, and
nothing ends the service. `Syslog!LogFairSpec`: time passes and threads run;
beyond that, `DroppedIsTold` assumes of the surroundings that records keep
coming and that the daemon does not refuse every line, nor every report of a
given line (strong fairness of `Log`, `TakeLine` and `TakeReport`). The code
promises no more than that a later record tells: if no record ever gets through
again, there is nothing that could.

## The proofs

Every invariant and action property that a run checks and that holds is proved
for all values of the constants, under the assumptions that the modules state
about them (`PoolAssumption`, `DecoderAssumption` and so on; TLC evaluates them
on the instances). Eight modules have the proofs.

| module | about | theorems |
| --- | --- | --- |
| `Counts_proofs` | DecoderPool; Interner, InternMap | `TypeCorrect`, `SingleOwner`, `BudgetExact`, `CheckoutUsable`, `LimitsHold`, `MemoryBounded`, `NoDecoderStranded`; `TableIsMap`, `LoadIsHalved` |
| `Bytes_proofs` | GuardedFile, Decoder | `MountedBytes`, `ShortFileReported`, `StaleForGood`, `AlarmsFounded`, `MessagesBalance`; `BytesAreRight`, `SoundIsWhole`, `BadIsBad`, `LastByteIsVerified`, `VerdictIsRecorded` |
| `EntryReads_proofs` | EntryReads | `VerdictsAreRight`, `OneTarget`, `ReadInOrderIsChecked`, `StalenessIsNamed` |
| `IndexTree_proofs` | operators of IndexBuild | lemmas only |
| `IndexBuild_proofs` | the builder | `MemoIsRight`, `SyntheticIsExact` |
| `IndexRecords_proofs` | what the builder's tree says | lemmas only |
| `IndexServe_proofs` | the index in use | `TreeIsRight`, `EntriesAreRight`, `ListingIsRight` |
| `Process_proofs` | Process, Settings, Syslog | `VerdictIsTrue`, `ReasonArrives`, `MountStays`, `SettingsAreGiven`, `LedgerBalances` |

### Counts_proofs

DecoderPool, for any finite set of threads, any files, decoders, methods and limits
(`PoolAssumption`). The invariant has layers, and each rests on those before.

1. `Structure` = `Types`, `Stages`, `OneOwner`: what a thread holds follows from
   where it is, and no decoder is in two places. It does not count, and is
   inductive by itself (`StructureInvariant`, `SingleOwner`).
2. `Ledger`: the counter equals the number of charged decoders and is within its
   limit. Every step is shown to charge one decoder that was not charged, repay
   one that was, or leave the set alone (`Charged`); the counter moves with it.
   `OneOwner` is what makes the decoder new to the set. This gives
   `BudgetExact`, and with it `TypeCorrect`: the unsigned counter never wraps.
3. `Picked`: between the choice and the read nobody moves the decoder; it gives
   `CheckoutUsable`.
4. `Room`: a thread between `try_retain` and the push has room in the list,
   since it alone has the lock; with `Ledger` this gives `LimitsHold` and
   `MemoryBounded`.
5. `Alive`: decoders lie only in pools that someone can still reach, so
   `NoDecoderStranded`.

Interner, for any keys, any hash and any first size of the table. `TableIsMap`
says that every behaviour of Interner is one of InternMap: a hit and the end of
an insertion are `Intern` steps, and all others stutter. That a miss means a new
key is not evident from one step, and `TableInv` says why: every node lies in a
slot that a run of filled slots joins to its bucket (`Chained`, with `Run` going
around the end of the table), the probe in progress has seen nothing but filled
slots with other keys (`Probed`), and every node is in the table, or still to be
moved or placed (`Complete`). A slot that is free where the probe stands would
break the run of the key, so the key has no node. `LoadIsHalved` adds the count:
the filled slots, and while the table grows those still to be moved, are `len`
(`LoadInv`), so a free slot remains for the probe to find.

### Bytes_proofs

GuardedFile, for any set of readers and any number of writes. `OnlyMountedBytes`
is not inductive: it needs what the disk shows (`Shows`: unless blind, changed
bytes have a changed time), what a buffer leaves behind (`Traces`: whoever holds
bytes of another version got them after the time had moved, and unless blind it
does not move back), and the thread that has compared the stamps (`Cleared`).
That is the argument of the header of `guard.rs`, that the time is updated
before the data and compared after the read. `Barred` gives `StaleForGood`,
`Founded` gives `AlarmsFounded`. For `MessagesBalance`, `Books` counts: the
messages of a change and the threads that owe one are together as many as
`stale` says, and the warnings with those owed, less the recoveries with those
owed, as many as `unsure` says. A swap that changes the flag adds a debtor, and
a message pays for one, so it is inductive; a flag that was stored and not
swapped would give two debtors for one change. When nobody owes a message it is
`MessagesAddUp`.

Decoder, for any entries, any lengths of the buffers, and any choice of how much
a codec takes and gives. `DecoderInv` says that the source hands the codec the
bytes that follow those it has had, through refills and retargeting (`Fed`);
that position, checksum and output go together (`Counted`); that `out` is filled
from its first byte, which is the one at the offset (`Progress`); and when a
decoder is verified (`AtEnd`). `Judged` and `Returned` are what verdicts and
results then say. A by-product: in the loop and at its end a decoder is never
verified yet, and its position is then the declared size, so the early return of
`verify` and its comparison of `pos` with `uncompressed_size` are never decisive.

`MemoryBound` of DecoderPool and the type invariants of GuardedFile, Interner,
Syslog and Process are proved for all instances and need no run.

### EntryReads_proofs

For any number of threads, handles and blocks. `ReadsInv`: as long as the
archive has not changed, every position, buffer and checksum is of the mounted
bytes (`AllMounted`), so no verdict is wrong (`VerdictsAreRight`); and with
verification only a target that was verified is set (`TargetVerified`), so all
readers of a link see one (`OneTarget`). `OrderInv`: as long as a file is read
in order, one thread at most reads it, and its checksum has taken what was
delivered (`InOrder`), which gives `ReadInOrderIsChecked`; and a change that was
shown or found stays so, and a thread that began after it is not at bytes of the
archive (`Since`), which gives `StalenessIsNamed`.

### The four proof modules of the index

For any names, records and limits (`BuildAssumption`). The properties compare
what loops leave behind with definitions that read all records at once, so the
proofs need induction. The induction theorems of the library take a predicate,
which the provers cannot instantiate. A set in its place does as well: numbers
are well-founded, so a set of them has a least member (`LeastOf`), which gives
induction up to a number (`UpTo`), that a loop runs (`Loop`), and that it does
nothing else (`LoopOnce`). The recursive functions of the model are such loops.

IndexTree_proofs has what the operators compute, in whatever state:

* the path of a node is that of its parent and its name (`Rooted`), and no two
  nodes of a `Tree` have one path;
* sorting a set gives its members once and in order (`InOrder`);
* the breadth-first order has every node once, and the children of a node in a
  row (`Ordered`, `InARow`), so in the finished index exactly the children of a
  directory stand in its row, sorted by name, and its directories are counted
  (`Laid`);
* a turn of the binary search of `lookup` loses no node that has the name
  (`Seeks`), so `lookup` finds a name if and only if it is there;
* the replies to a listing are pieces of one sequence, the dots and the row.

IndexBuild_proofs follows `Builder::add`. `BuilderInv`: the nodes are a tree, the
counter is exact, and the remembered parent is what a walk from the root gives.
It is inductive, and gives `MemoIsRight` and `SyntheticIsExact`.

IndexRecords_proofs puts `Knows` on top of it, the part that could go wrong with
the order of the records: every node fits what the records read so far say of
its path, and every path that a record has or lies under has a node (`Told`).
`Fits` says whose metadata a node shows: that of the first record with its path,
if nothing lies below; else that of the first directory record that was not
dropped because a file stood there (`Owners`), or none, and then the node is
synthetic. One more record matters to the nodes on the way to it, which become
directories (`Turned`), and to its own path, where it `Wins` or is `Lost`; these
are the changes that `resolve_parent`, `take_over_as_dir` and `attach` make.
`Slots` says that no two links have one place for their target. `IndexInv` adds
that the index is the builder's nodes as `finish` orders them.

IndexServe_proofs is about the index in use. A path that is looked up name by
name leads to the node with that path (`Reaches`), which gives `TreeIsRight`,
and that node fits the records, which gives `EntriesAreRight`. For listings,
`ListingInv` says that what was given so far is the front of the whole, up to
the cursor (`Given`), however the replies were cut; at the end it is the whole,
in which every child is once (`ListingIsRight`).

### Process_proofs

For any arguments, any message and any size of a read. `ProcessInv` says who
exists and holds which end of the pipe (`Stages`), and what is on its way
(`OnTheWay`): if the child has detached, the one byte `READY` is to be sent or
in the pipe; if not, what was heard, what is in the pipe and what is still to be
sent make the message. It gives `VerdictIsTrue`, `ReasonArrives` and
`MountStays`.

`SettingsAreGiven` is another induction. An option says the same of the fields
that it is about, whatever the configuration was, and leaves the others
(`SetSays`), so after a list a field has what the last option about it says
(`ListSays`), and after the arguments what the last argument about it says
(`SettingsInv`). What `clamp` makes of it is the same, or the limit that it is
beyond (`Clamped`). `ArgumentsAssumption` says what an option can be: a value that
reads as a number or as a mode where the setting takes one, or that does not.

For the log, for any number of threads and lines, `LedgerBalances`: `DROPPED` is
the number of counted lines, and a thread has as many as it took out. With the
types that is inductive by itself. The steps that matter are `Swap`, where a
thread gets whatever was counted and others go on counting, and `Readd`, where it
gives back what it could not report.

### Only model-checked

* Liveness, which is out of the prover's reach: `EveryRequestEnds`, `ReadEnds`,
  `InternEnds`, `DroppedIsTold`, `CallerHears`, `FailureLeavesNoMount`.
* The sentences in the table of divergences.

## Not modelled

* What EntryReads takes for granted of the guard is stated in its actions and is
  not shown by a refinement from GuardedFile: the two differ in what a call of
  the guard is, one step or six.
* The times of an entry, which are conversions of one number in its record, and
  the answers of `statfs`, `access` and the xattr calls, which are constants or
  sums. The text of errors, help and log messages.
* The limits of the index at 2^32 nodes, which end the build with an error, and
  the hash function itself.
* The decompression libraries, the zip reader and FUSE, beyond what a call of
  them may do.
* Panics, other than as a read that fails anywhere.
