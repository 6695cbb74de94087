------------------------------- MODULE Process -------------------------------
(***************************************************************************)
(* The process of src/main.rs from its arguments to its exit code.  It     *)
(* reads the arguments, mounts, and serves the mount itself or forks a     *)
(* child that does.  The child detaches from the caller and says through a *)
(* pipe how that went; the first process waits for it and leaves with the  *)
(* exit code that the caller sees.                                         *)
(*                                                                         *)
(* Every system call after the mount is a step, and may fail where the     *)
(* code looks for a failure; read and write of the pipe fail only at its   *)
(* end or for a signal, after which they are called again: other errors    *)
(* (EBADF, EFAULT, EIO) a pipe of the process's own does not give.  Either *)
(* process may be killed between any two steps.  The mount is live as long *)
(* as a process that has the session does not drop it.  A mount that       *)
(* nobody has the session of is dead, unless fusermount3 watches it        *)
(* (auto_unmount).                                                         *)
(***************************************************************************)
EXTENDS Settings

CONSTANTS
  Arguments,   \* the arguments that a caller may give, besides the paths
  MaxArgs,     \* how many of them
  Message,     \* the bytes of the reason why the child could not detach
  Buf          \* how many bytes the first process reads at once

READY == 0

ASSUME ProcessAssumption ==
  /\ MaxArgs \in Nat /\ Buf \in Nat \ {0}
  /\ Message \in Seq(Nat) /\ Message # <<>> /\ Message[1] # READY

(* An option as the command line can have it: with no value, or with one   *)
(* that reads as a number or as a mode, where the setting takes that.      *)
IsOption(o) ==
  /\ find(o.key) \in DOMAIN Numbers =>
       o.value = <<>> \/ (o.value = <<o.value[1]>> /\ o.value[1] \in Nat \cup {-1})
  /\ find(o.key) \in DOMAIN Modes \cup DOMAIN Masks =>
       \/ o.value = <<>>
       \/ o.value = <<o.value[1]>> /\ (o.value[1] \subseteq 0 .. 15 \/ o.value[1] = {16})

ASSUME ArgumentsAssumption ==
  \A a \in Arguments :
    /\ a.kind \in {"long", "list", "switch"}
    /\ a.kind # "switch" =>
         /\ Len(a.opts) \in Nat /\ DOMAIN a.opts = 1 .. Len(a.opts)
         /\ \A j \in DOMAIN a.opts : IsOption(a.opts[j])
    /\ a.kind = "long" => Len(a.opts) = 1

(* setsid, chdir, open of /dev/null, and dup2 for three streams.           *)
Detached == 6

VARIABLES
  helper,      \* started by mount(8), under a name that begins with mount.
  given,       \* history: the arguments so far
  config, foreground, fake, paths,   \* Args
  first, child,   \* where the two processes are
  exit,        \* the exit code of the first
  mount,       \* none, live or dead
  auto,        \* fusermount3 watches the mount
  done,        \* the steps of detach that the child has behind it
  out,         \* what the child has to send
  pipe, writers, readers,   \* the pipe, and who has which end open
  heard        \* what the first process read from it, and prints if it fails

args == <<helper, given, config, foreground, fake, paths>>
pipeVars == <<pipe, writers, readers>>
childVars == <<child, done, out>>
vars == <<args, first, childVars, exit, mount, auto, pipeVars, heard>>

Init ==
  /\ helper \in BOOLEAN /\ given = <<>> /\ config = Default
  /\ foreground = FALSE /\ fake = FALSE /\ paths = 0
  /\ first = "parse" /\ child = "none" /\ exit = "none"
  /\ mount = "none" /\ auto = FALSE /\ done = 0 /\ out = <<>>
  /\ pipe = <<>> /\ writers = {} /\ readers = {} /\ heard = <<>>

-----------------------------------------------------------------------------
(* An argument is a setting by its long option, a list of options (-o), or *)
(* a switch, which a mount helper may read in another way.                 *)

Ignored == IF helper THEN {"-s", "-n", "-t", "-v"} ELSE {"-v"}

(* An argument that ends the program with an error.                        *)
Bad(a) ==
  CASE a.kind = "long" -> find(a.opts[1].key) \notin SETTINGS \/ Misused(a.opts[1])
    [] a.kind = "list" -> Refused(a.opts)
    [] a.kind = "switch" ->
         a.word \notin Ignored \cup {"-f", "-s", "-h", "--foreground"}

(* The settings that an argument has.                                      *)
Asked(a) ==
  IF a.kind # "switch" THEN a.opts
  ELSE IF a.word = "-s" /\ ~helper
       THEN <<[key |-> "threads", value |-> <<1>>]>> ELSE <<>>

Is(a, word) == a.kind = "switch" /\ a.word = word

Take(a) ==
  /\ first = "parse" /\ Len(given) < MaxArgs /\ ~Bad(a) /\ ~Is(a, "-h")
  /\ config' = apply(config, Asked(a)) /\ given' = Append(given, a)
  /\ fake' = (fake \/ (Is(a, "-f") /\ helper))
  /\ foreground' = (foreground \/ Is(a, "--foreground") \/ (Is(a, "-f") /\ ~helper))
  /\ UNCHANGED <<helper, paths, first, childVars, exit, mount, auto, pipeVars,
                 heard>>

(* The archive, and then the mount point.                                  *)
TakePath ==
  /\ first = "parse" /\ paths < 2 /\ paths' = paths + 1
  /\ UNCHANGED <<helper, given, config, foreground, fake, first, childVars,
                 exit, mount, auto, pipeVars, heard>>

(* The first process ends, having no session.                              *)
Leave(code) ==
  /\ first' = "gone" /\ exit' = code
  /\ UNCHANGED <<args, childVars, mount, auto, pipeVars, heard>>

(* A path too many or one too few, or a bad argument.                      *)
Usage == first = "parse" /\ Leave("failed")

(* -h, and -V, which leaves in the same way.                               *)
Help == first = "parse" /\ (\E a \in Arguments : Is(a, "-h")) /\ Leave("ok")

Parsed ==
  /\ first = "parse" /\ paths = 2 /\ first' = "run"
  /\ UNCHANGED <<args, childVars, exit, mount, auto, pipeVars, heard>>

-----------------------------------------------------------------------------
(* run, until the mount is there.                                          *)

AutoUnmountAllowed ==
  config.auto_unmount => config.allow_other \/ config.allow_root

(* The mount point or the archive is not fit for a mount, or the settings  *)
(* do not go together.                                                     *)
RunFails == first = "run" /\ Leave("failed")

(* ZipFs::new fits the configuration, and indexes the archive.             *)
Index ==
  /\ first = "run" /\ AutoUnmountAllowed
  /\ first' = "mount" /\ config' = clamp(config)
  /\ UNCHANGED <<helper, given, foreground, fake, paths, childVars, exit,
                 mount, auto, pipeVars, heard>>

DryRun == first = "mount" /\ fake /\ Leave("ok")

MountFails == first = "mount" /\ ~fake /\ Leave("failed")

(* Session::new.  Nothing looks at the settings any more, and the model    *)
(* forgets them.                                                           *)
Mount ==
  /\ first = "mount" /\ ~fake
  /\ mount' = "live" /\ auto' = config.auto_unmount
  /\ first' = IF foreground THEN "serve" ELSE "pipe"
  /\ given' = <<>> /\ config' = Default
  /\ UNCHANGED <<helper, foreground, fake, paths, childVars, exit, pipeVars,
                 heard>>

-----------------------------------------------------------------------------
(* The first process returns from run, and drops the session.              *)
Return(code) ==
  /\ first' = "gone" /\ exit' = code /\ mount' = "none"
  /\ UNCHANGED <<args, childVars, auto, heard>>

PipeFails == first = "pipe" /\ Return("failed") /\ UNCHANGED pipeVars

Pipe ==
  /\ first = "pipe" /\ first' = "fork"
  /\ writers' = {"first"} /\ readers' = {"first"}
  /\ UNCHANGED <<args, childVars, exit, mount, auto, pipe, heard>>

ForkFails ==
  /\ first = "fork" /\ Return("failed")
  /\ writers' = {} /\ readers' = {} /\ UNCHANGED pipe

Fork ==
  /\ first = "fork" /\ first' = "close" /\ child' = "start"
  /\ writers' = {"first", "child"} /\ readers' = {"first", "child"}
  /\ UNCHANGED <<args, done, out, exit, mount, auto, pipe, heard>>

CloseWrite_Never ==
  /\ first = "close" /\ first' = "await"
  /\ UNCHANGED <<args, childVars, exit, mount, auto, pipeVars, heard>>

CloseWrite ==
  /\ first = "close" /\ first' = "await" /\ writers' = writers \ {"first"}
  /\ UNCHANGED <<args, childVars, exit, mount, auto, pipe, readers, heard>>

(* A process ends and drops nothing.  The session is gone with the last    *)
(* process that has it.                                                    *)
Abandon(other) ==
  /\ mount' = IF other \notin {"none", "gone", "killed"} \/ mount # "live"
              THEN mount ELSE IF auto THEN "none" ELSE "dead"
  /\ UNCHANGED <<args, auto>>

(* _exit of the first process.                                             *)
Exit(code) ==
  /\ first' = "gone" /\ exit' = code /\ Abandon(child)
  /\ readers' = readers \ {"first"} /\ UNCHANGED <<childVars, writers>>

IsReady(bytes) == heard = <<>> /\ bytes[1] = READY

AwaitReady_Drops ==
  /\ first = "await" /\ pipe # <<>> /\ IsReady(pipe)
  /\ Return("ok") /\ UNCHANGED pipeVars

AwaitReady ==
  /\ first = "await" /\ pipe # <<>> /\ IsReady(pipe)
  /\ Exit("ok") /\ UNCHANGED <<pipe, heard>>

AwaitMore ==
  /\ first = "await" /\ pipe # <<>> /\ ~IsReady(pipe)
  /\ LET n == IF Len(pipe) < Buf THEN Len(pipe) ELSE Buf
     IN  heard' = heard \o SubSeq(pipe, 1, n) /\ pipe' = SubSeq(pipe, n + 1, Len(pipe))
  /\ UNCHANGED <<args, first, childVars, exit, mount, auto, writers, readers>>

(* The end of the pipe; an error that is not a signal would do the same.   *)
AwaitEnd ==
  /\ first = "await" /\ pipe = <<>> /\ writers = {}
  /\ Exit("failed") /\ UNCHANGED <<pipe, heard>>

-----------------------------------------------------------------------------
CloseRead ==
  /\ child = "start" /\ child' = "detach" /\ readers' = readers \ {"child"}
  /\ UNCHANGED <<args, first, done, out, exit, mount, auto, pipe, writers, heard>>

Detach ==
  /\ child = "detach" /\ done < Detached /\ done' = done + 1
  /\ child' = (IF done' = Detached THEN "send" ELSE "detach")
  /\ out' = (IF done' = Detached THEN <<READY>> ELSE <<>>)
  /\ UNCHANGED <<args, first, exit, mount, auto, pipeVars, heard>>

DetachFails ==
  /\ child = "detach" /\ child' = "send" /\ out' = Message
  /\ UNCHANGED <<args, first, done, exit, mount, auto, pipeVars, heard>>

Send_Once ==
  /\ child = "send" /\ out # <<>> /\ readers # {}
  /\ \E n \in 1 .. Len(out) : pipe' = pipe \o SubSeq(out, 1, n) /\ out' = <<>>
  /\ UNCHANGED <<args, first, child, done, exit, mount, auto, writers, readers,
                 heard>>

(* write may take only some of the bytes.                                  *)
Send ==
  /\ child = "send" /\ out # <<>> /\ readers # {}
  /\ \E n \in 1 .. Len(out) : /\ pipe' = pipe \o SubSeq(out, 1, n)
                             /\ out' = SubSeq(out, n + 1, Len(out))
  /\ UNCHANGED <<args, first, child, done, exit, mount, auto, writers, readers,
                 heard>>

(* Nobody reads the pipe any more.                                         *)
SendBroken ==
  /\ child = "send" /\ out # <<>> /\ readers = {} /\ out' = <<>>
  /\ UNCHANGED <<args, first, child, done, exit, mount, auto, pipeVars, heard>>

Sent ==
  /\ child = "send" /\ out = <<>> /\ writers' = writers \ {"child"}
  /\ child' = IF done = Detached THEN "serve" ELSE "drop"
  /\ UNCHANGED <<args, first, done, out, exit, mount, auto, pipe, readers, heard>>

Drop_Never ==
  /\ child = "drop" /\ child' = "gone" /\ Abandon(first)
  /\ UNCHANGED <<first, done, out, exit, pipeVars, heard>>

(* DetachError::Reported: run returns, and drops the session.              *)
Drop ==
  /\ child = "drop" /\ child' = "gone" /\ mount' = "none"
  /\ UNCHANGED <<args, first, done, out, exit, auto, pipeVars, heard>>

-----------------------------------------------------------------------------
(* Session::run ends with the mount, or with an error.                     *)
ServeEnds ==
  \/ /\ first = "serve" /\ \E code \in {"ok", "failed"} : Return(code)
     /\ UNCHANGED pipeVars
  \/ /\ child = "serve" /\ child' = "gone" /\ mount' = "none"
     /\ UNCHANGED <<args, first, done, out, exit, auto, pipeVars, heard>>

Interrupted_Ends ==
  /\ first = "await" /\ Exit("failed") /\ UNCHANGED <<pipe, heard>>

(* A signal comes while a process reads or writes the pipe: EINTR, and the *)
(* call is made again for what is still to read or to write.               *)
Interrupted ==
  /\ first = "await" \/ (child = "send" /\ out # <<>>)
  /\ UNCHANGED vars

KillFirst ==
  /\ first # "gone" /\ first' = "gone" /\ exit' = "killed" /\ Abandon(child)
  /\ writers' = writers \ {"first"} /\ readers' = readers \ {"first"}
  /\ UNCHANGED <<childVars, pipe, heard>>

KillChild ==
  /\ child \notin {"none", "gone", "killed"} /\ child' = "killed"
  /\ Abandon(first)
  /\ writers' = writers \ {"child"} /\ readers' = readers \ {"child"}
  /\ UNCHANGED <<first, done, out, exit, pipe, heard>>

Parse == (\E a \in Arguments : Take(a)) \/ TakePath \/ Usage \/ Help \/ Parsed

FirstStep ==
  \/ RunFails \/ Index \/ DryRun \/ MountFails \/ Mount
  \/ PipeFails \/ Pipe \/ ForkFails \/ Fork \/ CloseWrite
  \/ AwaitReady \/ AwaitMore \/ AwaitEnd

ChildStep ==
  \/ CloseRead \/ Detach \/ DetachFails \/ Send \/ SendBroken \/ Sent \/ Drop

Next ==
  \/ Parse \/ FirstStep \/ ChildStep \/ ServeEnds
  \/ Interrupted \/ KillFirst \/ KillChild

Spec == Init /\ [][Next]_vars

(* A process that can go on does so.                                       *)
FairSpec == Spec /\ WF_vars(FirstStep) /\ WF_vars(ChildStep)

-----------------------------------------------------------------------------
FirstPC == {"parse", "run", "mount", "pipe", "fork", "close", "await",
            "serve", "gone"}
ChildPC == {"none", "start", "detach", "send", "drop", "serve", "gone", "killed"}

(* The processes and their pipe.                                           *)
TypeOK ==
  /\ first \in FirstPC /\ child \in ChildPC
  /\ exit \in {"none", "ok", "failed", "killed"}
  /\ mount \in {"none", "live", "dead"} /\ done \in 0 .. Detached
  /\ out \in Seq(Nat) /\ pipe \in Seq(Nat) /\ heard \in Seq(Nat)
  /\ writers \subseteq {"first", "child"} /\ readers \subseteq {"first", "child"}

(* The fields of the configuration that an option is about.                *)
About(o) ==
  LET s == find(o.key)
  IN  IF s \in DOMAIN Flags THEN {Flags[s]}
      ELSE IF s \in DOMAIN Numbers THEN {Numbers[s]}
      ELSE IF s \in DOMAIN Modes THEN {Modes[s]}
      ELSE IF s \in DOMAIN Masks THEN Masks[s] ELSE {}

Latest(S) == CHOOSE n \in S : \A k \in S : k <= n

(* What the last option of a list about a field makes of it, whatever came *)
(* before: c if there is none.                                             *)
LastIn(c, opts, f) ==
  LET about == {j \in DOMAIN opts : f \in About(opts[j])}
  IN  IF about = {} THEN c ELSE set(Default, opts[Latest(about)])[f]

(* The same for the lists of options that the arguments have.              *)
LastOf(lists, f) ==
  LET about == {i \in DOMAIN lists : \E j \in DOMAIN lists[i] : f \in About(lists[i][j])}
  IN  IF about = {} THEN Default[f] ELSE LastIn(Default[f], lists[Latest(about)], f)

LastWord(f) == LastOf([i \in DOMAIN given |-> Asked(given[i])], f)

(* y is x, or the end of the range that x is beyond.                       *)
Within(y, x, low, high) ==
  /\ y \in low .. high
  /\ y # x => (x < low /\ y = low) \/ (x > high /\ y = high)

(* "The option list from mount(8) is applied where it appears, so a long   *)
(* option after it still wins": every field has its last word, whichever   *)
(* way it was given.  The mount gets it as it is, unless it is out of      *)
(* range, and then the limit that it is beyond; a count of 0 becomes 1.    *)
(* The last word of a mask is 666 or 777 without its bits, whatever mode   *)
(* was given before; the help has it that it takes them "from both modes   *)
(* above".                                                                 *)
SettingsAsGiven ==
  /\ first = "run" =>
       config \in Config /\ \A f \in DOMAIN Default : config[f] = LastWord(f)
  /\ first = "mount" =>
       /\ Within(config.source_buffer, LastWord("source_buffer"),
                 MIN_SOURCE_BUFFER, MAX_SOURCE_BUFFER)
       /\ Within(config.decoders_per_file, LastWord("decoders_per_file"),
                 1, config.max_retained_decoders)
       /\ \A f \in {"threads", "max_retained_decoders"} :
            config[f] = IF LastWord(f) = 0 THEN 1 ELSE LastWord(f)
       /\ \A f \in DOMAIN Default \ {"source_buffer", "decoders_per_file",
                                     "threads", "max_retained_decoders"} :
            config[f] = LastWord(f)

(* "The exit code the caller sees is the child's verdict": after a success *)
(* the child has nothing of its detaching left to do, and after a failure  *)
(* it does not serve, whichever of the two was slow, killed or interrupted *)
(* in between.                                                             *)
ExitIsVerdict ==
  child # "none" =>
    /\ exit = "ok" => done = Detached
    /\ exit = "failed" =>
         child = "killed" \/ (child \in {"drop", "gone"} /\ done < Detached)

(* The caller gets the reason of a failure in whole, in however many       *)
(* pieces it went down the pipe, and loses a part of it only if the child  *)
(* was killed.                                                             *)
MessageWhole ==
  (child # "none" /\ exit = "failed") =>
    \/ heard = Message
    \/ child = "killed" /\ \E n \in 0 .. Len(Message) : heard = SubSeq(Message, 1, n)

(* "A normal return would drop the session, and dropping it unmounts what  *)
(* the child is serving": from the fork on, the mount is live as long as   *)
(* the child is to serve it.                                               *)
ServedIsMounted ==
  child \in {"start", "detach", "send", "serve"} => mount = "live"

(* The first process leaves, with an exit code, or serves itself: it waits *)
(* for a child that is alive and never for one that is not.                *)
CallerHears == first \notin {"parse", "serve"} ~> first \in {"serve", "gone"}

(* After a failure there is no mount in the end, unless the child was      *)
(* killed and nobody watched it.                                           *)
FailureLeavesNoMount ==
  exit = "failed" ~> mount = "none" \/ (mount = "dead" /\ child = "killed" /\ ~auto)
=============================================================================
