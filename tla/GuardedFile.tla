----------------------------- MODULE GuardedFile -----------------------------
(***************************************************************************)
(* The archive file and the check that follows every read: src/guard.rs.   *)
(*                                                                         *)
(* Threads read the archive and then compare its stamp (length and         *)
(* modification time) with the stamp taken at mount time.  Meanwhile       *)
(* another process may write to the file, truncate it, set its times,      *)
(* rename another file over it or remove it.  The kernel gives a write its *)
(* new time before it copies the data in.  On CIFS a reconnect can move    *)
(* the descriptor to the file that has the name now, so there the name is  *)
(* compared too.                                                           *)
(*                                                                         *)
(* blind records that something happened which the header of guard.rs      *)
(* names as out of the check's reach: a write that leaves the time alone,  *)
(* a tool that sets the old time again, a descriptor that moved where the  *)
(* name cannot be examined.                                                *)
(***************************************************************************)
EXTENDS Integers

CONSTANTS
  Threads,    \* threads that read the archive
  MaxWrites   \* bound on the writes of the other process

ASSUME GuardAssumption == MaxWrites \in Nat

(* The bytes of the replacement, which no version of the archive has.      *)
Foreign == -1

Answers == {"none", "ok", "eof", "current", "stale", "unknown"}
Places == {"ready", "loadstale", "fstat", "fstatat", "mark", "clear", "unsure",
           "logmark", "logclear", "logunsure", "reload"}

VARIABLES
  named,    \* GuardedFile::named is set; only where the descriptor follows
  follows,  \* descriptor_follows_path: the archive is on CIFS
  data,     \* the version of the archive's bytes, 0 when mounted
  mtime,    \* the archive's modification time, 0 when mounted
  whole,    \* the archive has the length it had when mounted
  pending,  \* a write has its time and has not copied its data yet
  name,     \* what the path names
  twin,     \* the replacement has the length and time of the archive
  target,   \* what the descriptor reads
  blind,    \* history, see above
  changed,  \* history: the archive or, on CIFS, its name changed
  stale, unsure,            \* the two flags of GuardedFile
  errors,   \* times mark logged that the archive changed
  warned,   \* warnings in the log that it cannot be examined, less the
            \* messages that it can be examined again
  at,       \* where each thread is in read_exact_at or in check
  reading,  \* the thread is in read_exact_at
  seen,     \* the version of the bytes the pread put into the buffer
  eof,      \* the pread failed because the file is too short
  late,     \* history: the read began after a change had been found
  answer    \* what the thread's last call returned

flags == <<stale, unsure>>
logs  == <<errors, warned>>
disk  == <<data, mtime, whole, pending, name, twin, target>>
mount == <<named, follows>>
buffers == <<reading, seen, eof, late>>
guardVars ==
  <<mount, disk, blind, changed, flags, logs, at, buffers, answer>>

GuardTypeOK ==
  /\ named \in BOOLEAN /\ follows \in BOOLEAN
  /\ data \in Nat /\ mtime \in Nat
  /\ whole \in BOOLEAN /\ pending \in BOOLEAN
  /\ name \in {"archive", "replacement", "gone"} /\ twin \in BOOLEAN
  /\ target \in {"archive", "replacement"}
  /\ blind \in BOOLEAN /\ changed \in BOOLEAN
  /\ stale \in BOOLEAN /\ unsure \in BOOLEAN
  /\ errors \in Nat /\ warned \in Int
  /\ at \in [Threads -> Places]
  /\ reading \in [Threads -> BOOLEAN]
  /\ seen \in [Threads -> Nat \cup {Foreign}]
  /\ eof \in [Threads -> BOOLEAN] /\ late \in [Threads -> BOOLEAN]
  /\ answer \in [Threads -> Answers]

(* GuardedFile::open: the name is only looked for on CIFS, and may not be  *)
(* found there.                                                            *)
GuardInit ==
  /\ follows \in BOOLEAN
  /\ named \in (IF follows THEN BOOLEAN ELSE {FALSE})
  /\ data = 0 /\ mtime = 0 /\ whole = TRUE /\ pending = FALSE
  /\ name = "archive" /\ twin = FALSE /\ target = "archive"
  /\ blind = FALSE /\ changed = FALSE
  /\ stale = FALSE /\ unsure = FALSE
  /\ errors = 0 /\ warned = 0
  /\ at = [t \in Threads |-> "ready"]
  /\ reading = [t \in Threads |-> FALSE]
  /\ seen = [t \in Threads |-> 0]
  /\ eof = [t \in Threads |-> FALSE] /\ late = [t \in Threads |-> FALSE]
  /\ answer = [t \in Threads |-> "none"]

-----------------------------------------------------------------------------
(* The other process and the kernel.                                       *)

Environment == UNCHANGED <<mount, flags, logs, at, buffers, answer>>

(* A clock with large steps may give the write the time the file has.      *)
WriteStart ==
  /\ ~pending /\ mtime < MaxWrites /\ data < MaxWrites
  /\ pending' = TRUE
  /\ \/ mtime' = mtime + 1 /\ blind' = blind
     \/ mtime' = mtime /\ blind' = (blind \/ mtime = 0)
  /\ changed' = TRUE
  /\ UNCHANGED <<data, whole, name, twin, target>>
  /\ Environment

WriteCopy ==
  /\ pending
  /\ pending' = FALSE
  /\ data' = data + 1
  /\ UNCHANGED <<mtime, whole, name, twin, target, blind, changed>>
  /\ Environment

Truncate ==
  /\ whole /\ mtime < MaxWrites
  /\ whole' = FALSE /\ mtime' = mtime + 1 /\ changed' = TRUE
  /\ UNCHANGED <<data, pending, name, twin, target, blind>>
  /\ Environment

SetOldTime ==
  /\ mtime # 0
  /\ mtime' = 0 /\ blind' = TRUE
  /\ UNCHANGED <<data, whole, pending, name, twin, target, changed>>
  /\ Environment

(* A new file takes the name, or nothing does.                             *)
Rename ==
  /\ name = "archive"
  /\ name' \in {"replacement", "gone"}
  /\ twin' \in (IF name' = "gone" THEN {FALSE} ELSE BOOLEAN)
  /\ changed' = (changed \/ follows)
  /\ UNCHANGED <<data, mtime, whole, pending, target, blind>>
  /\ Environment

(* A CIFS client reconnects and opens the path again.                      *)
Reconnect ==
  /\ follows /\ name # "gone" /\ target # name
  /\ target' = name
  /\ blind' = (blind \/ ~named)
  /\ UNCHANGED <<data, mtime, whole, pending, name, twin, changed>>
  /\ Environment

-----------------------------------------------------------------------------
(* A read is a pread and then verify; a check is verify alone.             *)

Step(t, from, to) == at[t] = from /\ at' = [at EXCEPT ![t] = to]

Return(t, r) == answer' = [answer EXCEPT ![t] = r]

Pread_FailsEarly(t) ==
  /\ Step(t, "ready", IF target = "archive" /\ ~whole THEN "ready"
                      ELSE "loadstale")
  /\ reading' = [reading EXCEPT ![t] = TRUE]
  /\ seen' = [seen EXCEPT ![t] = IF target = "archive" THEN data ELSE Foreign]
  /\ eof' = [eof EXCEPT ![t] = target = "archive" /\ ~whole]
  /\ late' = [late EXCEPT ![t] = stale]
  /\ Return(t, IF target = "archive" /\ ~whole THEN "eof" ELSE "none")
  /\ UNCHANGED <<mount, disk, blind, changed, flags, logs>>

Pread(t) ==
  /\ Step(t, "ready", "loadstale")
  /\ reading' = [reading EXCEPT ![t] = TRUE]
  /\ seen' = [seen EXCEPT ![t] = IF target = "archive" THEN data ELSE Foreign]
  /\ eof' = [eof EXCEPT ![t] = target = "archive" /\ ~whole]
  /\ late' = [late EXCEPT ![t] = stale]
  /\ Return(t, "none")
  /\ UNCHANGED <<mount, disk, blind, changed, flags, logs>>

(* diagnose: an operation that fails with EIO has the archive examined     *)
(* again, be it because the read failed or because what it read is wrong.  *)
Check(t) ==
  /\ Step(t, "ready", "loadstale")
  /\ answer[t] \in {"ok", "eof", "unknown"}
  /\ reading' = [reading EXCEPT ![t] = FALSE]
  /\ late' = [late EXCEPT ![t] = stale]
  /\ Return(t, "none")
  /\ UNCHANGED <<mount, disk, blind, changed, flags, logs, seen, eof>>

(* verify fails with e: a read returns e, check looks at the flag again.   *)
Fail(t, from, e) ==
  \/ reading[t] /\ Step(t, from, "ready") /\ Return(t, e)
  \/ ~reading[t] /\ Step(t, from, "reload") /\ UNCHANGED answer

LoadStale_Ignored(t) ==
  /\ Step(t, "loadstale", "fstat") /\ UNCHANGED answer
  /\ UNCHANGED <<mount, disk, blind, changed, flags, logs, buffers>>

(* is_stale at the start of verify.                                        *)
LoadStale(t) ==
  /\ \/ stale /\ Fail(t, "loadstale", "stale")
     \/ ~stale /\ Step(t, "loadstale", "fstat") /\ UNCHANGED answer
  /\ UNCHANGED <<mount, disk, blind, changed, flags, logs, buffers>>

OpenFileUnchanged_LengthOnly == IF target = "archive" THEN whole ELSE twin

(* Stamp::unchanged of the open file; the device and the inode are not     *)
(* part of it.                                                             *)
OpenFileUnchanged == IF target = "archive" THEN whole /\ mtime = 0 ELSE twin

Fstat_ErrorIsChange(t) ==
  /\ \/ OpenFileUnchanged
          /\ Step(t, "fstat", IF named THEN "fstatat" ELSE "clear")
     \/ Step(t, "fstat", "mark")
  /\ UNCHANGED <<mount, disk, blind, changed, flags, logs, buffers, answer>>

(* The open file is examined first; the name only where it was found.      *)
Fstat(t) ==
  /\ \/ OpenFileUnchanged
          /\ Step(t, "fstat", IF named THEN "fstatat" ELSE "clear")
     \/ ~OpenFileUnchanged /\ Step(t, "fstat", "mark")
     \/ Step(t, "fstat", "unsure")
  /\ UNCHANGED <<mount, disk, blind, changed, flags, logs, buffers, answer>>

(* Removed, Replaced, Modified, or the same file with the same stamp.      *)
NameUnchanged == name = "archive" /\ whole /\ mtime = 0

FstatAt(t) ==
  /\ \/ NameUnchanged /\ Step(t, "fstatat", "clear")
     \/ ~NameUnchanged /\ Step(t, "fstatat", "mark")
     \/ Step(t, "fstatat", "unsure")
  /\ UNCHANGED <<mount, disk, blind, changed, flags, logs, buffers, answer>>

(* Ok(Some(change)): mark swaps the flag, and the thread that set it logs. *)
Mark(t) ==
  /\ stale' = TRUE
  /\ \/ stale /\ Fail(t, "mark", "stale")
     \/ ~stale /\ Step(t, "mark", "logmark") /\ UNCHANGED answer
  /\ UNCHANGED <<mount, disk, blind, changed, unsure, logs, buffers>>

(* error!, which another thread may come before.                           *)
LogMark(t) ==
  /\ Fail(t, "logmark", "stale")
  /\ errors' = errors + 1
  /\ UNCHANGED <<mount, disk, blind, changed, flags, warned, buffers>>

(* verify passes: a read returns what its pread did.                       *)
Pass(t, from) ==
  /\ Step(t, from, "ready")
  /\ Return(t, IF ~reading[t] THEN "current"
               ELSE IF eof[t] THEN "eof" ELSE "ok")

(* Ok(None): unsure is loaded and, if set, swapped.  A load that finds it  *)
(* clear changes nothing and one that finds it set counts when the swap    *)
(* does, so the two are one step.                                          *)
Clear(t) ==
  /\ unsure' = FALSE
  /\ \/ ~unsure /\ Pass(t, "clear")
     \/ unsure /\ Step(t, "clear", "logclear") /\ UNCHANGED answer
  /\ UNCHANGED <<mount, disk, blind, changed, stale, logs, buffers>>

(* info!                                                                   *)
LogClear(t) ==
  /\ Pass(t, "logclear")
  /\ warned' = warned - 1
  /\ UNCHANGED <<mount, disk, blind, changed, flags, errors, buffers>>

Unsure_Stores(t) ==
  /\ unsure' = TRUE
  /\ Step(t, "unsure", "logunsure") /\ UNCHANGED answer
  /\ UNCHANGED <<mount, disk, blind, changed, stale, logs, buffers>>

(* The stamps could not be read: the bytes are not used.                   *)
Unsure(t) ==
  /\ unsure' = TRUE
  /\ \/ unsure /\ Fail(t, "unsure", "unknown")
     \/ ~unsure /\ Step(t, "unsure", "logunsure") /\ UNCHANGED answer
  /\ UNCHANGED <<mount, disk, blind, changed, stale, logs, buffers>>

(* warn!                                                                   *)
LogUnsure(t) ==
  /\ Fail(t, "logunsure", "unknown")
  /\ warned' = warned + 1
  /\ UNCHANGED <<mount, disk, blind, changed, flags, errors, buffers>>

(* check: a failure is Stale or Unknown by the flag as it is now.          *)
Reload(t) ==
  /\ Step(t, "reload", "ready")
  /\ Return(t, IF stale THEN "stale" ELSE "unknown")
  /\ UNCHANGED <<mount, disk, blind, changed, flags, logs, buffers>>

Advance(t) ==
  \/ Pread(t) \/ Check(t) \/ LoadStale(t) \/ Fstat(t) \/ FstatAt(t)
  \/ Mark(t) \/ LogMark(t) \/ Clear(t) \/ LogClear(t)
  \/ Unsure(t) \/ LogUnsure(t) \/ Reload(t)

GuardNext ==
  \/ WriteStart \/ WriteCopy \/ Truncate \/ SetOldTime \/ Rename \/ Reconnect
  \/ \E t \in Threads : Advance(t)

GuardSpec == GuardInit /\ [][GuardNext]_guardVars

-----------------------------------------------------------------------------
(* Properties.                                                             *)

(* guard.rs 1-2, 9-18: a read that returns bytes returns bytes of the      *)
(* version that was mounted, whatever the other process did before, during *)
(* or after the pread, unless one of the limits the header names was met.  *)
OnlyMountedBytes ==
  \A t \in Threads : answer[t] = "ok" /\ ~blind => seen[t] = 0

(* guard.rs 354-356: a read that fails because the file became shorter is  *)
(* never reported as that failure; the change is reported instead.         *)
ShortFileIsChange == \A t \in Threads : answer[t] = "eof" => blind

(* guard.rs 129, 320-322: a change is permanent.  A call that begins after *)
(* one was found never succeeds, even if the old time was set again.       *)
StaleIsPermanent ==
  \A t \in Threads : late[t] => answer[t] \notin {"ok", "eof", "current"}

(* guard.rs 13-15: no call reports a change when nothing changed that the  *)
(* descriptor can read.  On a local file system a rename, a removal and a  *)
(* new file at the path are no change, and a failed stat never is one.     *)
NoFalseAlarm ==
  (stale \/ \E t \in Threads : answer[t] = "stale") => changed

(* guard.rs 297-329: each thread writes its message some time after its    *)
(* swap, so a recovery may come before its warning in the log.  Still no   *)
(* message is lost and none is doubled: once every thread that took a      *)
(* message upon itself has written it, the log has the change one time if  *)
(* it was found, and one warning more than recoveries exactly if the last  *)
(* check could not finish.                                                 *)
MessagesAddUp ==
  (\A t \in Threads : at[t] \notin {"logmark", "logclear", "logunsure"}) =>
    /\ errors = (IF stale THEN 1 ELSE 0)
    /\ warned = (IF unsure THEN 1 ELSE 0)
=============================================================================
