--------------------------- MODULE Process_proofs ---------------------------
(***************************************************************************)
(* Proofs about Process, for any message, read size and arguments, and     *)
(* about its log, Syslog, for any number of threads and lines.             *)
(***************************************************************************)
EXTENDS Process, Syslog, TLAPS, SequenceTheorems, FiniteSetTheorems,
        WellFoundedInduction

(* The first process has not left since the fork, so it will read what is  *)
(* in the pipe.                                                            *)
Listening == first \in {"close", "await"}

(* Where the processes are tells who exists, who holds what, and how far   *)
(* the child has come.                                                     *)
Stages ==
  /\ first = "gone" <=> exit # "none"
  /\ child # "none" => first \in {"close", "await", "gone"}
  /\ first \in {"pipe", "fork", "serve"} => mount = "live"
  /\ child \in {"start", "detach"} => done < Detached
  /\ child = "drop" => done < Detached
  /\ child = "serve" => done = Detached
  /\ child \in {"start", "detach", "send"} => "child" \in writers
  /\ Listening => child # "none" /\ "first" \in readers
  /\ child = "none" => done = 0

(* The pieces of the message, of which the child has rest to send.         *)
Reason(rest) ==
  /\ heard \o (pipe \o rest) = Message
  /\ child \in {"none", "start", "detach"} => heard = <<>> /\ pipe = <<>>
  /\ child = "send" => rest = out
  /\ child \in {"drop", "gone"} => rest = <<>>

(* READY is to be sent, or in the pipe.                                    *)
Verdict ==
  /\ heard = <<>>
  /\ (pipe = <<>> /\ child = "send" /\ out = <<READY>>)
     \/ (pipe = <<READY>> /\ out = <<>>) \/ (pipe = <<>> /\ child = "killed")

(* What is on its way to the first process.                                *)
OnTheWay ==
  /\ first \notin {"close", "await", "gone"} => heard = <<>> /\ pipe = <<>>
  /\ Listening =>
       IF done = Detached THEN Verdict ELSE \E rest \in Seq(Nat) : Reason(rest)

ProcessInv ==
  /\ TypeOK /\ Stages /\ OnTheWay
  /\ ExitIsVerdict /\ MessageWhole /\ ServedIsMounted

-----------------------------------------------------------------------------
(* main.rs 713, 742: bytes that are cut off the front are not lost.        *)
LEMMA Cut ==
  ASSUME NEW s \in Seq(Nat), NEW n \in 1 .. Len(s)
  PROVE  /\ SubSeq(s, 1, n) \in Seq(Nat) /\ SubSeq(s, n + 1, Len(s)) \in Seq(Nat)
         /\ SubSeq(s, 1, n) \o SubSeq(s, n + 1, Len(s)) = s
<1>1. s = SubSeq(s, 1, Len(s))
  BY SubSeqFull, Zenon
<1>2. SubSeq(s, 1, n) \o SubSeq(s, n + 1, Len(s)) = SubSeq(s, 1, Len(s))
  BY ConcatAdjacentSubSeq
<1>3. SubSeq(s, 1, n) \in Seq(Nat) /\ SubSeq(s, n + 1, Len(s)) \in Seq(Nat)
  <2>1. /\ n \in 1 - 1 .. Len(s) /\ n + 1 \in 1 .. Len(s) + 1
        /\ Len(s) \in n + 1 - 1 .. Len(s)
    OBVIOUS
  <2> QED
    BY <2>1, SubSeqProperties
<1> QED
  BY <1>1, <1>2, <1>3, Zenon

(* What is added behind s can be added in two pieces.                      *)
LEMMA TwoPieces ==
  ASSUME NEW s \in Seq(Nat), NEW a \in Seq(Nat), NEW b \in Seq(Nat)
  PROVE  (s \o a) \o b = s \o (a \o b)
BY SMTT(30)

(* What was read, what is in the pipe and what is left to send make up the *)
(* message.                                                                *)
Whole(h, p, rest) == h \o (p \o rest) = Message

(* It does not matter where the bytes between the two ends are.            *)
LEMMA Moved ==
  ASSUME NEW h \in Seq(Nat), NEW a \in Seq(Nat), NEW b \in Seq(Nat),
         NEW rest \in Seq(Nat)
  PROVE  Whole(h, a \o b, rest) => Whole(h \o a, b, rest)
<1>1. b \o rest \in Seq(Nat)
  BY ConcatProperties, Zenon
<1>2. (h \o a) \o (b \o rest) = h \o (a \o (b \o rest))
  BY <1>1, TwoPieces, ZenonT(40)
<1>3. a \o (b \o rest) = (a \o b) \o rest
  BY TwoPieces, ZenonT(40)
<1> QED
  BY <1>2, <1>3, Zenon DEF Whole

(* Moving the front of the pipe to the reader keeps the message whole.     *)
LEMMA Passed ==
  ASSUME NEW h \in Seq(Nat), NEW p \in Seq(Nat), NEW rest \in Seq(Nat),
         NEW n \in 1 .. Len(p), Whole(h, p, rest)
  PROVE  Whole(h \o SubSeq(p, 1, n), SubSeq(p, n + 1, Len(p)), rest)
<1>1. PICK a \in Seq(Nat), b \in Seq(Nat) :
        a = SubSeq(p, 1, n) /\ b = SubSeq(p, n + 1, Len(p)) /\ a \o b = p
  BY Cut, ZenonT(40)
<1>2. Whole(h, a \o b, rest)
  BY <1>1, Zenon
<1>3. Whole(h \o a, b, rest)
  BY <1>2, Moved, Zenon
<1> QED
  BY <1>1, <1>3, Zenon

(* main.rs 699: a read of a pipe that is not empty takes some of it.       *)
LEMMA ReadSome ==
  ASSUME pipe \in Seq(Nat), pipe # <<>>
  PROVE  (IF Len(pipe) < Buf THEN Len(pipe) ELSE Buf) \in 1 .. Len(pipe)
<1>1. Len(pipe) \in Nat \ {0}
  BY EmptySeq, LenProperties, Zenon
<1> QED
  BY <1>1, ProcessAssumption

(* The steps of Next that change something: all but an interrupted call.   *)
Acts == Parse \/ FirstStep \/ ChildStep \/ ServeEnds \/ KillFirst \/ KillChild

(* main.rs 701 and 734: after a signal the call is made again.             *)
LEMMA SignalsChangeNothing == Next => Acts \/ UNCHANGED vars
  BY Zenon DEF Next, Acts, Interrupted

(* Each step keeps the types.                                              *)
LEMMA TypesKept ==
  ASSUME TypeOK, Acts
  PROVE  TypeOK'
<1> USE DEF TypeOK, FirstPC, ChildPC, Detached, childVars, pipeVars, args
<1>1. CASE Parse
  BY <1>1, ZenonT(40) DEF Parse, Take, TakePath, Usage, Help, Parsed, Leave
<1>2. CASE RunFails \/ Index \/ DryRun \/ MountFails \/ Mount
  BY <1>2, ZenonT(40) DEF RunFails, Index, DryRun, MountFails, Mount, Leave
<1>3. CASE PipeFails \/ Pipe \/ ForkFails \/ Fork \/ CloseWrite
  BY <1>3, ZenonT(40) DEF PipeFails, Pipe, ForkFails, Fork, CloseWrite, Return
<1>4. CASE AwaitReady \/ AwaitEnd
  BY <1>4, Zenon DEF AwaitReady, AwaitEnd, Exit, Abandon
<1>5. CASE AwaitMore
  <2>1. PICK n \in 1 .. Len(pipe) :
          heard' = heard \o SubSeq(pipe, 1, n) /\ pipe' = SubSeq(pipe, n + 1, Len(pipe))
    BY <1>5, ReadSome, Zenon DEF AwaitMore
  <2>2. heard' \in Seq(Nat) /\ pipe' \in Seq(Nat)
    BY <2>1, Cut, ConcatProperties, Zenon
  <2> QED
    BY <1>5, <2>2, Zenon DEF AwaitMore
<1>e. <<READY>> \in Seq(Nat) /\ <<>> \in Seq(Nat) /\ Message \in Seq(Nat)
  BY ProcessAssumption DEF READY
<1>6. CASE CloseRead \/ SendBroken
  BY <1>6, <1>e, ZenonT(40) DEF CloseRead, SendBroken
<1>10. CASE Sent \/ Drop
  BY <1>10, ZenonT(40) DEF Sent, Drop
<1>9. CASE DetachFails
  BY <1>9, <1>e, Zenon DEF DetachFails
<1>11. CASE Detach
  <2>1. done' \in 0 .. Detached /\ child' \in ChildPC /\ out' \in Seq(Nat)
    BY <1>11, <1>e DEF Detach
  <2> QED
    BY <1>11, <2>1, Zenon DEF Detach
<1>7. CASE Send
  <2>1. PICK n \in 1 .. Len(out) : /\ pipe' = pipe \o SubSeq(out, 1, n)
                                   /\ out' = SubSeq(out, n + 1, Len(out))
    BY <1>7, Zenon DEF Send
  <2>2. pipe' \in Seq(Nat) /\ out' \in Seq(Nat)
    BY <2>1, Cut, ConcatProperties, Zenon
  <2> QED
    BY <1>7, <2>2, Zenon DEF Send
<1>8. CASE ServeEnds \/ KillFirst \/ KillChild
  BY <1>8, ZenonT(40) DEF ServeEnds, KillFirst, KillChild, Return, Abandon
<1> QED
  BY <1>1, <1>2, <1>3, <1>4, <1>5, <1>6, <1>7, <1>8, <1>9, <1>10, <1>11, ZenonT(40)
  DEF Acts, FirstStep, ChildStep

(* Each step keeps the stages.                                             *)
LEMMA StagesKept ==
  ASSUME TypeOK, Stages, Acts
  PROVE  Stages'
<1> USE DEF TypeOK, Stages, Listening, FirstPC, ChildPC, Detached, childVars, pipeVars
<1>1. CASE Parse
  BY <1>1, ZenonT(40) DEF Parse, Take, TakePath, Usage, Help, Parsed, Leave
<1>2. CASE RunFails \/ Index \/ DryRun \/ MountFails \/ Mount
  BY <1>2, Zenon DEF RunFails, Index, DryRun, MountFails, Mount, Leave
<1>3. CASE PipeFails \/ Pipe \/ ForkFails \/ Fork \/ CloseWrite
  BY <1>3 DEF PipeFails, Pipe, ForkFails, Fork, CloseWrite, Return
<1>4. CASE AwaitReady \/ AwaitMore \/ AwaitEnd
  <2>1. CASE AwaitReady
    BY <2>1, Zenon DEF AwaitReady, Exit
  <2>2. CASE AwaitMore
    BY <2>2, Zenon DEF AwaitMore
  <2>3. CASE AwaitEnd
    BY <2>3, Zenon DEF AwaitEnd, Exit
  <2> QED BY <1>4, <2>1, <2>2, <2>3, Zenon
<1>5. CASE CloseRead \/ Detach \/ DetachFails
  BY <1>5 DEF CloseRead, Detach, DetachFails
<1>6. CASE Send \/ SendBroken \/ Drop
  BY <1>6, SMTT(30) DEF Send, SendBroken, Drop
<1>10. CASE Sent
  BY <1>10 DEF Sent
<1>7. CASE ServeEnds
  BY <1>7, Zenon DEF ServeEnds, Return
<1>8. CASE KillFirst
  BY <1>8, Zenon DEF KillFirst, Abandon
<1>9. CASE KillChild
  BY <1>9, Zenon DEF KillChild, Abandon
<1> QED
  BY <1>1, <1>2, <1>3, <1>4, <1>5, <1>6, <1>7, <1>8, <1>9, <1>10, Zenon
  DEF Acts, FirstStep, ChildStep

(* main.rs 692: the mount stays while the child is to serve it.            *)
LEMMA MountKept ==
  ASSUME TypeOK, Stages, ServedIsMounted, Acts
  PROVE  ServedIsMounted'
<1> USE DEF TypeOK, Stages, Listening, ServedIsMounted, childVars
<1>1. CASE Parse
  BY <1>1, ZenonT(40) DEF Parse, Take, TakePath, Usage, Help, Parsed, Leave
<1>2. CASE RunFails \/ Index \/ DryRun \/ MountFails \/ Mount
  BY <1>2, Zenon DEF RunFails, Index, DryRun, MountFails, Mount, Leave
<1>3. CASE PipeFails \/ Pipe \/ ForkFails \/ Fork \/ CloseWrite
  BY <1>3, Zenon DEF PipeFails, Pipe, ForkFails, Fork, CloseWrite, Return
<1>4. CASE AwaitReady \/ AwaitMore \/ AwaitEnd
  BY <1>4, Zenon DEF AwaitReady, AwaitMore, AwaitEnd, Exit, Abandon
<1>5. CASE CloseRead \/ Detach \/ DetachFails
  BY <1>5, Zenon DEF CloseRead, Detach, DetachFails
<1>6. CASE Send \/ SendBroken \/ Sent \/ Drop
  BY <1>6, Zenon DEF Send, SendBroken, Sent, Drop
<1>7. CASE ServeEnds \/ KillFirst \/ KillChild
  BY <1>7, Zenon DEF ServeEnds, KillFirst, KillChild, Return, Abandon
<1> QED
  BY <1>1, <1>2, <1>3, <1>4, <1>5, <1>6, <1>7, SMTT(30) DEF Acts, FirstStep, ChildStep

(* main.rs 732: a short write keeps the message together.                  *)
LEMMA SendKeepsOrder ==
  ASSUME TypeOK, Stages, OnTheWay, Send, Listening
  PROVE  OnTheWay'
<1> USE DEF TypeOK
<1>1. PICK n \in 1 .. Len(out) : /\ pipe' = pipe \o SubSeq(out, 1, n)
                                 /\ out' = SubSeq(out, n + 1, Len(out))
  BY Zenon DEF Send
<1>2. UNCHANGED <<first, child, done, heard>> /\ child = "send" /\ out # <<>>
  BY Zenon DEF Send
<1>3. CASE done = Detached
  <2>1. pipe = <<>> /\ out = <<READY>> /\ heard = <<>>
    BY <1>2, <1>3, Zenon DEF OnTheWay, Verdict, Listening
  <2>2. n = 1 /\ n = Len(out)
    BY <2>1
  <2>3. pipe' = <<READY>>
    <3>1. SubSeq(out, 1, n) = out
      BY <2>2, SubSeqFull, Zenon
    <3> QED
      BY <1>1, <2>1, <3>1, ConcatEmptySeq, Zenon
  <2>4. out' = <<>>
    <3>0. n + 1 = 2 /\ Len(out) = 1
      BY <2>2
    <3>1. out' = SubSeq(out, 2, 1)
      BY <1>1, <3>0, Zenon
    <3>2. SubSeq(out, 2, 1) = <<>>
      BY SubSeqEmpty
    <3> QED
      BY <3>1, <3>2, Zenon
  <2> QED
    BY <1>2, <1>3, <2>1, <2>3, <2>4, SMTT(30) DEF OnTheWay, Verdict, Listening
<1>4. CASE done # Detached
  <2>1. heard \o (pipe \o out) = Message
    BY <1>2, <1>4, Zenon DEF OnTheWay, Reason, Listening
  <2>2. /\ SubSeq(out, 1, n) \in Seq(Nat) /\ out' \in Seq(Nat)
        /\ SubSeq(out, 1, n) \o out' = out
    BY <1>1, Cut, Zenon
  <2>3. pipe' \o out' = pipe \o out
    <3>1. pipe' \o out' = pipe \o (SubSeq(out, 1, n) \o out')
      BY <1>1, <2>2, TwoPieces, ZenonT(40)
    <3> QED
      BY <2>2, <3>1, Zenon
  <2>4. PICK rest \in Seq(Nat) : rest = out'
    BY <2>2, Zenon
  <2>5. Reason(rest)'
    BY <1>2, <2>1, <2>3, <2>4, Zenon DEF Reason
  <2> QED
    BY <1>2, <1>4, <2>5, Zenon DEF OnTheWay, Listening
<1> QED
  BY <1>3, <1>4, Zenon

(* main.rs 713: and so does a short read.                                  *)
LEMMA ReadKeepsOrder ==
  ASSUME TypeOK, Stages, OnTheWay, AwaitMore
  PROVE  OnTheWay'
<1> USE DEF TypeOK
<1>1. PICK n \in 1 .. Len(pipe) :
        heard' = heard \o SubSeq(pipe, 1, n) /\ pipe' = SubSeq(pipe, n + 1, Len(pipe))
  BY ReadSome, Zenon DEF AwaitMore
<1>2. /\ UNCHANGED <<first, child, done, out>> /\ first = "await" /\ pipe # <<>>
      /\ ~IsReady(pipe)
  BY Zenon DEF AwaitMore, childVars
<1>3. done # Detached
  BY <1>2 DEF OnTheWay, Verdict, Listening, IsReady
<1>4. PICK rest \in Seq(Nat) : Reason(rest)
  BY <1>2, <1>3, Zenon DEF OnTheWay, Listening
<1>5. Whole(heard, pipe, rest)
  BY <1>4, Zenon DEF Reason, Whole
<1>6. Whole(heard', pipe', rest)
  <2>1. Whole(heard \o SubSeq(pipe, 1, n), SubSeq(pipe, n + 1, Len(pipe)), rest)
    BY <1>5, Passed, Zenon
  <2> QED
    BY <1>1, <2>1, Zenon
<1>7. Reason(rest)'
  BY <1>2, <1>4, <1>6, Zenon DEF Reason, Whole
<1> QED
  BY <1>2, <1>3, <1>7, Zenon DEF OnTheWay, Listening

(* Each step keeps what is on its way.                                     *)
LEMMA WayKept ==
  ASSUME TypeOK, Stages, OnTheWay, Acts
  PROVE  OnTheWay'
<1> USE DEF Listening
<1>u. ASSUME UNCHANGED <<first, child, done, out, pipe, heard>> PROVE OnTheWay'
  BY <1>u, ZenonT(40) DEF OnTheWay, Verdict, Reason
<1>g. ASSUME first' = "gone" PROVE OnTheWay'
  BY <1>g, Zenon DEF OnTheWay
<1>e. ASSUME first \notin {"close", "await", "gone"}, UNCHANGED <<heard, pipe>>,
             first' \notin {"close", "await"}
      PROVE  OnTheWay'
  BY <1>e, Zenon DEF OnTheWay
<1>1. CASE Parse
  BY <1>1, <1>e, <1>g, Zenon DEF Parse, Take, TakePath, Usage, Help, Parsed, Leave, pipeVars
<1>2. CASE RunFails \/ Index \/ DryRun \/ MountFails \/ Mount
  BY <1>2, <1>e, <1>g, Zenon DEF RunFails, Index, DryRun, MountFails, Mount, Leave, pipeVars
<1>3. CASE PipeFails \/ Pipe \/ ForkFails \/ AwaitReady \/ AwaitEnd \/ KillFirst
  BY <1>3, <1>e, <1>g, Zenon
  DEF PipeFails, Pipe, ForkFails, AwaitReady, AwaitEnd, KillFirst, Return, Exit
<1>4. CASE Fork
  <2>1. /\ child = "none" /\ heard = <<>> /\ pipe = <<>> /\ done = 0
        /\ child' = "start" /\ UNCHANGED <<heard, pipe, done>> /\ first' = "close"
    BY <1>4, Zenon DEF Fork, Stages, OnTheWay, TypeOK, ChildPC
  <2>2. heard \o (pipe \o Message) = Message
    BY <2>1, ProcessAssumption, ConcatEmptySeq, Zenon
  <2>3. Reason(Message)'
    BY <2>1, <2>2, Zenon DEF Reason
  <2> QED
    BY <2>1, <2>3, ProcessAssumption DEF OnTheWay, Detached
<1>5. CASE CloseWrite
  BY <1>5, Zenon DEF CloseWrite, OnTheWay, Verdict, Reason, childVars
<1>6. CASE AwaitMore
  BY <1>6, ReadKeepsOrder, Zenon
<1>gone. ASSUME ~Listening, UNCHANGED first, child # "none" PROVE OnTheWay'
  BY <1>gone, <1>g, Zenon DEF Stages
<1>7. CASE ChildStep \/ KillChild \/ ServeEnds
  <2>0. ASSUME ~Listening PROVE OnTheWay'
    <3>1. CASE ChildStep \/ KillChild
      <4>1. UNCHANGED first /\ child # "none"
        BY <3>1, Zenon DEF ChildStep, KillChild, CloseRead, Detach, DetachFails,
                           Send, SendBroken, Sent, Drop
      <4> QED
        BY <2>0, <4>1, <1>gone, Zenon
    <3>2. CASE ServeEnds
      <4>1. first' = "gone" \/ (UNCHANGED first /\ child # "none")
        BY <3>2, Zenon DEF ServeEnds, Return
      <4> QED
        BY <2>0, <4>1, <1>gone, <1>g, Zenon
    <3> QED
      BY <1>7, <3>1, <3>2, Zenon
  <2> SUFFICES ASSUME Listening PROVE OnTheWay'
    BY <2>0, Zenon
  <2>1. CASE CloseRead
    BY <2>1, Zenon DEF CloseRead, OnTheWay, Verdict, Reason
  <2>2. CASE Detach
    <3>1. /\ done < Detached /\ done' = done + 1 /\ UNCHANGED <<first, pipe, heard>>
          /\ child = "detach"
      BY <2>2, Zenon DEF Detach, pipeVars
    <3>2. PICK rest \in Seq(Nat) : Reason(rest)
      BY <3>1 DEF OnTheWay, Detached
    <3>3. CASE done' = Detached
      BY <2>2, <3>1, <3>2, <3>3, Zenon DEF Detach, OnTheWay, Verdict, Reason
    <3>4. CASE done' # Detached
      <4>1. Reason(rest)'
        BY <2>2, <3>1, <3>2, <3>4, SMTT(30) DEF Detach, Reason
      <4> QED
        BY <3>1, <3>4, <4>1, Zenon DEF OnTheWay
    <3> QED
      BY <3>3, <3>4, Zenon
  <2>3. CASE DetachFails
    <3>1. done # Detached /\ UNCHANGED <<first, done, pipe, heard>> /\ child = "detach"
      BY <2>3 DEF DetachFails, pipeVars, Stages, Detached, TypeOK
    <3>2. PICK rest \in Seq(Nat) : Reason(rest)
      BY <3>1, Zenon DEF OnTheWay
    <3>3. heard = <<>> /\ pipe = <<>>
      BY <3>1, <3>2, Zenon DEF Reason
    <3>4. heard \o (pipe \o Message) = Message
      BY <3>3, ProcessAssumption, ConcatEmptySeq, SMTT(30)
    <3>5. Reason(Message)'
      BY <2>3, <3>1, <3>4, ZenonT(40) DEF DetachFails, Reason
    <3> QED
      BY <3>1, <3>5, ProcessAssumption, ZenonT(40) DEF OnTheWay
  <2>4. CASE Send
    BY <2>4, SendKeepsOrder, Zenon
  <2>5. CASE SendBroken
    BY <2>5, Zenon DEF SendBroken, Stages
  <2>6. CASE Sent \/ Drop \/ KillChild \/ ServeEnds
    <3>1. UNCHANGED <<first, done, out, pipe, heard>>
      BY <2>6, Zenon DEF Sent, Drop, KillChild, ServeEnds, pipeVars
    <3>2. CASE done = Detached
      BY <2>6, <3>1, <3>2, Zenon
      DEF Sent, Drop, KillChild, ServeEnds, OnTheWay, Verdict, Stages, Detached
    <3>3. CASE done # Detached
      <4>1. PICK rest \in Seq(Nat) : Reason(rest)
        BY <3>3, Zenon DEF OnTheWay
      <4>2. Reason(rest)'
        BY <2>6, <3>1, <3>3, <4>1, ZenonT(40)
        DEF Sent, Drop, KillChild, ServeEnds, Reason, Stages
      <4> QED
        BY <3>1, <3>3, <4>2, Zenon DEF OnTheWay
    <3> QED
      BY <3>2, <3>3, Zenon
  <2> QED
    BY <1>7, <2>1, <2>2, <2>3, <2>4, <2>5, <2>6, SMTT(30) DEF ChildStep
<1> QED
  BY <1>1, <1>2, <1>3, <1>4, <1>5, <1>6, <1>7, SMTT(30) DEF Acts, FirstStep

(* The front of a message is a prefix of it.                               *)
LEMMA FrontIsPrefix ==
  ASSUME NEW s \in Seq(Nat), NEW rest \in Seq(Nat), s \o rest = Message
  PROVE  \E n \in 0 .. Len(Message) : s = SubSeq(Message, 1, n)
<1>1. Message \in Seq(Nat) /\ Len(Message) = Len(s) + Len(rest)
  BY ProcessAssumption
<1>2. SubSeq(s \o rest, 1, Len(s)) = s /\ SubSeq(s, 1, Len(s)) = s
  BY SubSeqFull
<1>3. Len(s) \in 0 .. Len(Message)
  BY <1>1
<1>4. s = SubSeq(Message, 1, Len(s))
  BY <1>2, Zenon
<1> QED
  BY <1>3, <1>4, Zenon

(* main.rs 709-712, 715-721: when the first process has read the verdict,  *)
(* it is the child's.                                                      *)
LEMMA ReadyIsTrue ==
  ASSUME TypeOK, Stages, OnTheWay, AwaitReady
  PROVE  done = Detached
<1>1. first = "await" /\ pipe # <<>> /\ heard = <<>> /\ pipe[1] = READY
  BY Zenon DEF AwaitReady, IsReady
<1>2. SUFFICES ASSUME done # Detached PROVE FALSE
  BY Zenon
<1>3. PICK rest \in Seq(Nat) : heard \o (pipe \o rest) = Message
  BY <1>1, <1>2, Zenon DEF OnTheWay, Reason, Listening
<1>4. pipe \in Seq(Nat) /\ pipe \o rest = Message
  BY <1>1, <1>3 DEF TypeOK
<1>5. (pipe \o rest)[1] = pipe[1]
  <2>1. 1 \in 1 .. Len(pipe)
    BY <1>1, <1>4, EmptySeq, LenProperties
  <2> QED
    BY <1>4, <2>1, ConcatProperties
<1> QED
  BY <1>1, <1>4, <1>5, ProcessAssumption, Zenon

(* The same when the first process has met the end of the pipe.            *)
LEMMA EndIsTrue ==
  ASSUME TypeOK, Stages, OnTheWay, AwaitEnd
  PROVE  /\ child = "killed" \/ (child \in {"drop", "gone"} /\ done < Detached)
         /\ \/ heard = Message
            \/ child = "killed" /\ \E n \in 0 .. Len(Message) : heard = SubSeq(Message, 1, n)
<1>1. first = "await" /\ pipe = <<>> /\ writers = {}
  BY Zenon DEF AwaitEnd
<1>2. child \in {"drop", "serve", "gone", "killed"}
  BY <1>1, Zenon DEF TypeOK, ChildPC, Stages, Listening
<1>3. CASE done = Detached
  <2>1. child = "killed" /\ heard = <<>>
    BY <1>1, <1>2, <1>3, SMTT(30) DEF OnTheWay, Verdict, Listening
  <2>2. heard \o Message = Message
    BY <2>1, ProcessAssumption, ConcatEmptySeq, Zenon
  <2> QED
    BY <2>1, <2>2, ProcessAssumption, FrontIsPrefix, ZenonT(40) DEF TypeOK
<1>4. CASE done # Detached
  <2>1. PICK rest \in Seq(Nat) : Reason(rest)
    BY <1>1, <1>4, ZenonT(40) DEF OnTheWay, Listening
  <2>2. heard \in Seq(Nat) /\ heard \o rest = Message
    BY <1>1, <2>1, ConcatEmptySeq, Zenon DEF Reason, TypeOK
  <2>3. CASE child = "killed"
    BY <2>2, <2>3, FrontIsPrefix, SMTT(30)
  <2>4. CASE child \in {"drop", "gone"}
    <3>1. rest = <<>>
      BY <2>1, <2>4, Zenon DEF Reason
    <3>2. heard = Message
      BY <2>2, <3>1, ConcatEmptySeq, SMTT(30)
    <3> QED
      BY <2>4, <3>2, <1>4 DEF TypeOK, Detached
  <2> QED
    BY <1>2, <1>4, <2>3, <2>4, Zenon DEF Stages
<1> QED
  BY <1>3, <1>4, Zenon

(* Each step keeps what the exit code and the message say.                 *)
LEMMA OutcomeKept ==
  ASSUME TypeOK, Stages, OnTheWay, ExitIsVerdict, MessageWhole, Acts
  PROVE  ExitIsVerdict' /\ MessageWhole'
<1> USE DEF ExitIsVerdict, MessageWhole
<1>n. ASSUME first \notin {"close", "await", "gone"}, UNCHANGED child
      PROVE  ExitIsVerdict' /\ MessageWhole'
  BY <1>n, ZenonT(40) DEF Stages
<1>k. ASSUME exit' \in {"none", "killed"} PROVE ExitIsVerdict' /\ MessageWhole'
  BY <1>k, Zenon
<1>1. CASE Parse
  BY <1>1, <1>n, Zenon DEF Parse, Take, TakePath, Usage, Help, Parsed, Leave, childVars
<1>2. CASE RunFails \/ Index \/ DryRun \/ MountFails \/ Mount
  BY <1>2, <1>n, Zenon DEF RunFails, Index, DryRun, MountFails, Mount, Leave, childVars
<1>3. CASE PipeFails \/ Pipe \/ ForkFails
  BY <1>3, <1>n, SMTT(30) DEF PipeFails, Pipe, ForkFails, Return, childVars
<1>4. CASE Fork \/ CloseWrite \/ AwaitMore \/ KillFirst
  BY <1>4, <1>k, Zenon DEF Fork, CloseWrite, AwaitMore, KillFirst, Stages
<1>5. CASE AwaitReady
  BY <1>5, ReadyIsTrue, Zenon DEF AwaitReady, Exit, childVars
<1>6. CASE AwaitEnd
  BY <1>6, EndIsTrue, Zenon DEF AwaitEnd, Exit, childVars
<1>7. CASE CloseRead \/ Detach \/ DetachFails
  <2>1. child \in {"start", "detach"} /\ UNCHANGED exit /\ done < Detached
    BY <1>7, ZenonT(40) DEF CloseRead, Detach, DetachFails, Stages
  <2>2. exit \notin {"ok", "failed"}
    BY <2>1 DEF TypeOK, Detached
  <2> QED
    BY <2>1, <2>2, <1>k, Zenon DEF TypeOK
<1>8. CASE Send \/ SendBroken \/ Sent
  <2>1. child = "send" /\ UNCHANGED <<exit, done>>
    BY <1>8, Zenon DEF Send, SendBroken, Sent
  <2> QED
    BY <2>1, Zenon
<1>9. CASE Drop
  BY <1>9, Zenon DEF Drop, Stages
<1>10. CASE ServeEnds
  BY <1>10, <1>n, Zenon DEF ServeEnds, Return, childVars
<1>11. CASE KillChild
  BY <1>11, Zenon DEF KillChild
<1> QED
  BY <1>1, <1>2, <1>3, <1>4, <1>5, <1>6, <1>7, <1>8, <1>9, <1>10, <1>11, ZenonT(40)
  DEF Acts, FirstStep, ChildStep

(* Before main looks at its arguments there is no process and no mount.    *)
LEMMA InitInv == Init => ProcessInv
<1> SUFFICES ASSUME Init PROVE ProcessInv
  BY Zenon
<1>1. <<>> \in Seq(Nat)
  OBVIOUS
<1>2. TypeOK
  BY <1>1 DEF Init, TypeOK, FirstPC, ChildPC, Detached
<1>3. Stages /\ OnTheWay
  BY Zenon DEF Init, Stages, OnTheWay, Listening
<1> QED
  BY <1>2, <1>3, Zenon DEF Init, ProcessInv, ExitIsVerdict, MessageWhole, ServedIsMounted

(* The invariant that the theorems follow from.                            *)
LEMMA Inductive == Spec => []ProcessInv
<1>1. ProcessInv /\ [Next]_vars => ProcessInv'
  <2> SUFFICES ASSUME ProcessInv, [Next]_vars PROVE ProcessInv'
    BY Zenon
  <2>1. CASE Acts
    BY <2>1, TypesKept, StagesKept, MountKept, WayKept, OutcomeKept, SMTT(30) DEF ProcessInv
  <2>2. CASE UNCHANGED vars
    BY <2>2, ZenonT(40)
    DEF vars, args, pipeVars, childVars, ProcessInv, TypeOK, Stages, OnTheWay,
        Reason, Verdict, Listening, ExitIsVerdict, MessageWhole, ServedIsMounted
  <2> QED
    BY <2>1, <2>2, SignalsChangeNothing, Zenon
<1> QED
  BY <1>1, InitInv, PTL DEF Spec

(* "The exit code the caller sees is the child's verdict" (main.rs 639),   *)
(* in every interleaving and whichever process is killed.                  *)
THEOREM VerdictIsTrue == Spec => []ExitIsVerdict
BY Inductive, PTL DEF ProcessInv

(* The reason of a failure arrives in whole (await_child and send, main.rs *)
(* 694-744), for every message and however reads and writes cut it.        *)
THEOREM ReasonArrives == Spec => []MessageWhole
BY Inductive, PTL DEF ProcessInv

(* The first process never unmounts what the child is to serve (main.rs    *)
(* 690-692).                                                               *)
THEOREM MountStays == Spec => []ServedIsMounted
BY Inductive, PTL DEF ProcessInv

-----------------------------------------------------------------------------
(* Syslog: the log of the process, for any number of threads and lines.    *)

(* The number of refused lines that a thread has in its hands.             *)
Share(t) == CASE pc[t] = "count" -> 1
              [] pc[t] \in {"report", "readd"} -> taken[t]
              [] OTHER -> 0

LedgerInv == LogTypeOK /\ Ledger

-----------------------------------------------------------------------------
(* Every fate divides the lines into finite sets.                          *)
LEMMA FiniteParts ==
  /\ IsFiniteSet(Counted) /\ Cardinality(Counted) \in Nat
  /\ \A t : IsFiniteSet(With(t)) /\ Cardinality(With(t)) \in Nat
<1>1. Counted \in SUBSET Lines /\ \A t : With(t) \in SUBSET Lines
  BY ZenonT(40) DEF Counted, With
<1>2. IsFiniteSet(Counted) /\ \A t : IsFiniteSet(With(t))
  BY <1>1, SyslogAssumption, FS_Subset, Zenon
<1> QED
  BY <1>2, FS_CardinalityType, Zenon

(* main.rs 264, 232: what a thread has goes to the count.                  *)
LEMMA HandedBack ==
  ASSUME LedgerInv, NEW t \in Threads, Move(With(t), "counted")
  PROVE  /\ Cardinality(Counted') = dropped + Cardinality(With(t))
         /\ Cardinality(With(t)') = 0
         /\ \A u \in Threads \ {t} : With(u)' = With(u)
<1>1. t # "counted" /\ \A u \in Threads : u # "counted"
  BY SyslogAssumption, Zenon
<1>2. /\ Counted' = Counted \cup With(t) /\ Counted \cap With(t) = {}
      /\ With(t)' = {} /\ \A u \in Threads \ {t} : With(u)' = With(u)
  BY <1>1, Zenon DEF Move, Counted, With
<1>3. /\ Cardinality(Counted \cup With(t))
           = Cardinality(Counted) + Cardinality(With(t)) - Cardinality({})
      /\ Cardinality({}) = 0
  BY <1>2, FiniteParts, FS_Union, FS_EmptySet
<1> QED
  BY <1>2, <1>3, FiniteParts DEF LedgerInv, Ledger

LocalsTyped ==
  /\ pc \in [Threads -> PC] /\ now \in [Threads -> Seconds \cup {Past}]
  /\ todo \in [Threads -> 0 .. MaxLines] /\ sent \in [Threads -> BOOLEAN]
  /\ last \in [Threads -> Seconds \cup {Past}]
  /\ taken \in [Threads -> Nat]

(* What a thread keeps has its type after a return or a jump.              *)
LEMMA LocalsKept ==
  ASSUME LogTypeOK, NEW t \in Threads, NEW p \in PC, LogReturn(t) \/ Goto(t, p)
  PROVE  LocalsTyped'
<1>1. CASE LogReturn(t)
  BY <1>1, SyslogAssumption DEF LogReturn, LogTypeOK, LocalsTyped, PC
<1>2. CASE Goto(t, p)
  BY <1>2, Zenon DEF Goto, locals, LogTypeOK, LocalsTyped
<1> QED
  BY <1>1, <1>2, Zenon

(* Each step keeps the types.                                              *)
LEMMA LogTypesKept ==
  ASSUME LogTypeOK, LogNext
  PROVE  LogTypeOK'
<1> USE SyslogAssumption
<1>1. CASE Tick
  <2>1. (clock + 1) % Period \in Seconds
    BY DEF LogTypeOK, Seconds
  <2> QED
    BY <1>1, <2>1, Zenon DEF Tick, LogTypeOK
<1>2. ASSUME NEW t \in Threads, NEW n \in 0 .. MaxLines, Log(t, n)
      PROVE  LogTypeOK'
  BY <1>2, Zenon DEF Log, LogTypeOK, PC, counters
<1>3. ASSUME NEW t \in Threads, Step(t) PROVE LogTypeOK'
  <2> USE LocalsKept DEF LogTypeOK, LocalsTyped, counters
  <2>p. {"lines", "check", "load", "cas", "swap", "report", "readd"} \subseteq PC
    BY DEF PC
  <2>1. CASE TakeLine(t)
    BY <2>1, SMTT(30) DEF TakeLine
  <2>2. CASE RefuseLine(t)
    BY <2>2, SMTT(30) DEF RefuseLine, Move, PC
  <2>3. CASE CountLine(t)
    BY <2>3, <2>p DEF CountLine, Move
  <2>4. CASE LinesDone(t)
    BY <2>4, <2>p, Zenon DEF LinesDone
  <2>5. CASE Check(t)
    BY <2>5, <2>p, Zenon DEF Check
  <2>6. CASE Load(t)
    <3>1. LocalsTyped'
      BY <2>6, <2>p DEF Load
    <3> QED
      BY <2>6, <3>1, Zenon DEF Load
  <2>7. CASE Cas(t)
    BY <2>7, <2>p DEF Cas
  <2>8. CASE Swap(t)
    <3>1. LocalsTyped'
      BY <2>8, <2>p DEF Swap
    <3> QED
      BY <2>8, <3>1, Zenon DEF Swap, Move
  <2>9. CASE TakeReport(t)
    BY <2>9, <2>p, Zenon DEF TakeReport, Move
  <2>10. CASE RefuseReport(t)
    BY <2>10, <2>p, Zenon DEF RefuseReport
  <2>11. CASE Readd(t)
    BY <2>11, <2>p DEF Readd, Move
  <2> QED
    BY <1>3, <2>1, <2>2, <2>3, <2>4, <2>5, <2>6, <2>7, <2>8, <2>9, <2>10, <2>11, Zenon
    DEF Step
<1> QED
  BY <1>1, <1>2, <1>3, Zenon DEF LogNext

(* Steps that touch neither the count nor the lines in any hand.           *)
LEMMA NothingMoves ==
  ASSUME LedgerInv, UNCHANGED <<dropped, fate>>,
         \A t \in Threads : Share(t)' = Share(t)
  PROVE  Ledger'
<1>1. Counted' = Counted /\ \A t \in Threads : With(t)' = With(t)
  BY ZenonT(40) DEF Counted, With
<1> QED
  BY <1>1, Zenon DEF LedgerInv, Ledger, Share

(* A step of t leaves the other threads' shares alone.                     *)
LEMMA OthersKeep ==
  ASSUME LogTypeOK, NEW t \in Threads, Step(t)
  PROVE  \A u \in Threads \ {t} : Share(u)' = Share(u)
<1> SUFFICES ASSUME NEW u \in Threads \ {t}
             PROVE  pc'[u] = pc[u] /\ taken'[u] = taken[u]
  BY Zenon DEF Share
<1> QED
  BY DEF Step, TakeLine, RefuseLine, CountLine, LinesDone, Check, Load, Cas,
         Swap, TakeReport, RefuseReport, Readd, Goto, LogReturn, locals, LogTypeOK

(* Every step of a thread keeps the ledger.                                *)
LEMMA StepKeepsLedger ==
  ASSUME LedgerInv, NEW t \in Threads, Step(t)
  PROVE  Ledger'
<1> USE DEF LedgerInv
<1>others. \A u \in Threads \ {t} : Share(u)' = Share(u)
  BY OthersKeep, Zenon
<1>own. Cardinality(With(t)) = Share(t) /\ dropped = Cardinality(Counted)
  BY Zenon DEF Ledger, Share
<1>done. ASSUME dropped' = Cardinality(Counted'),
                Cardinality(With(t)') = Share(t)',
                \A u \in Threads \ {t} : With(u)' = With(u)
         PROVE  Ledger'
  <2>1. \A u \in Threads : Cardinality(With(u)') = Share(u)'
    BY <1>done, <1>others, Zenon DEF Ledger, Share
  <2> QED
    BY <1>done, <2>1, Zenon DEF Ledger, Share
<1>names. \A u \in Threads : u # "free" /\ u # "counted"
  BY SyslogAssumption, Zenon
<1>1. CASE TakeLine(t) \/ LinesDone(t) \/ Check(t) \/ Load(t) \/ Cas(t)
           \/ RefuseReport(t)
  <2>1. UNCHANGED <<dropped, fate>> /\ Share(t)' = Share(t)
    BY <1>1 DEF TakeLine, LinesDone, Check, Load, Cas, RefuseReport, Goto,
                LogReturn, Share, counters, locals, LogTypeOK
  <2> QED
    BY <2>1, <1>others, NothingMoves, Zenon
<1>2. CASE RefuseLine(t)
  <2>1. PICK l \in Lines : fate[l] = "free" /\ Move({l}, t)
    BY <1>2, Zenon DEF RefuseLine
  <2>2. Share(t) = 0 /\ Share(t)' = 1 /\ dropped' = dropped
    BY <1>2, Zenon DEF RefuseLine, Share, counters, LogTypeOK
  <2>3. With(t) = {}
    BY <2>2, <1>own, FiniteParts, FS_EmptySet, Zenon
  <2>4. /\ With(t)' = {l} /\ Counted' = Counted
        /\ \A u \in Threads \ {t} : With(u)' = With(u)
    BY <2>1, <2>3, <1>names DEF Move, With, Counted, LogTypeOK
  <2> QED
    BY <2>2, <2>4, <1>own, <1>done, FS_Singleton, Zenon
<1>3. CASE CountLine(t) \/ Readd(t)
  <2>1. Move(With(t), "counted") /\ Share(t)' = 0 /\ dropped' = dropped + Share(t)
    BY <1>3, Zenon DEF CountLine, Readd, Goto, LogReturn, Share, locals, LogTypeOK
  <2> QED
    BY <2>1, <1>own, <1>done, HandedBack, Zenon
<1>4. CASE Swap(t)
  <2>1. dropped' = 0 /\ Move(Counted, t) /\ Share(t) = 0 /\ Share(t)' = dropped
    BY <1>4 DEF Swap, LogReturn, Share, LogTypeOK
  <2>2. With(t) = {}
    BY <2>1, <1>own, FiniteParts, FS_EmptySet, Zenon
  <2>3. /\ With(t)' = Counted /\ Counted' = {}
        /\ \A u \in Threads \ {t} : With(u)' = With(u)
    BY <2>1, <2>2, <1>names, Zenon DEF Move, With, Counted, LogTypeOK
  <2> QED
    BY <2>1, <2>3, <1>own, <1>done, FS_EmptySet, Zenon
<1>5. CASE TakeReport(t)
  <2>1. dropped' = dropped /\ Move(With(t), "free") /\ Share(t)' = 0
    BY <1>5, Zenon DEF TakeReport, LogReturn, Share, counters, LogTypeOK
  <2>2. /\ With(t)' = {} /\ Counted' = Counted
        /\ \A u \in Threads \ {t} : With(u)' = With(u)
    BY <2>1, <1>names, Zenon DEF Move, With, Counted, LogTypeOK
  <2> QED
    BY <2>1, <2>2, <1>own, <1>done, FS_EmptySet, Zenon
<1> QED
  BY <1>1, <1>2, <1>3, <1>4, <1>5, Zenon DEF Step

(* At first no line was refused.                                           *)
LEMMA InitLedger == LogInit => LedgerInv
<1> SUFFICES ASSUME LogInit PROVE LedgerInv
  BY Zenon
<1>1. LogTypeOK
  <2>1. 0 \in Seconds /\ 0 \in 0 .. MaxLines
    BY SyslogAssumption DEF Seconds
  <2> QED
    BY <2>1, Zenon DEF LogInit, LogTypeOK, PC
<1>2. Counted = {} /\ \A t \in Threads : With(t) = {}
  BY SyslogAssumption, Zenon DEF LogInit, Counted, With
<1> QED
  BY <1>1, <1>2, FS_EmptySet, Zenon DEF LogInit, LedgerInv, Ledger

(* main.rs 232, 258, 264: for any number of threads, the count and the     *)
(* numbers about to be reported have every refused line once.              *)
THEOREM LedgerBalances == LogSpec => []Ledger
<1>1. LedgerInv /\ [LogNext]_logVars => LedgerInv'
  <2> SUFFICES ASSUME LedgerInv, [LogNext]_logVars PROVE LedgerInv'
    BY Zenon
  <2>1. CASE Tick
    BY <2>1, NothingMoves, LogTypesKept, Zenon DEF Tick, Share, LogNext, LedgerInv
  <2>2. ASSUME NEW t \in Threads, NEW n \in 0 .. MaxLines, Log(t, n)
        PROVE  LedgerInv'
    <3>1. UNCHANGED <<dropped, fate>> /\ \A u \in Threads : Share(u)' = Share(u)
      BY <2>2, Zenon DEF Log, Share, counters, LedgerInv, LogTypeOK
    <3>2. LogNext
      BY <2>2, Zenon DEF LogNext
    <3> QED
      BY <3>1, <3>2, NothingMoves, LogTypesKept, Zenon DEF LedgerInv
  <2>3. ASSUME NEW t \in Threads, Step(t) PROVE LedgerInv'
    BY <2>3, StepKeepsLedger, LogTypesKept, Zenon DEF LedgerInv, LogNext
  <2>4. CASE UNCHANGED logVars
    BY <2>4, Zenon DEF logVars, counters, locals, LedgerInv, LogTypeOK, Ledger, Counted, With
  <2> QED
    BY <2>1, <2>2, <2>3, <2>4, Zenon DEF LogNext
<1>2. LedgerInv => Ledger
  BY Zenon DEF LedgerInv
<1> QED
  BY InitLedger, <1>1, <1>2, PTL DEF LogSpec

-----------------------------------------------------------------------------
(* Settings.  A field has what the last option about it says, since an     *)
(* option says the same of the fields that it is about whatever they were, *)
(* and leaves the others (SetSays): by induction over a list (ListSays),   *)
(* then over the arguments (SettingsInv).                                  *)

(* The prover of the steps that name no other.                             *)
USE Zenon

(* A configuration whose modes are permission bits.                        *)
Settled == {c \in Config : c.file_mode \subseteq 0 .. 11 /\ c.dir_mode \subseteq 0 .. 11}

(* An option that is not refused.                                          *)
Fit(o) == IsOption(o) /\ ~Misused(o)

(* config.rs 25-86: a configuration has the fields that the default has.   *)
LEMMA ConfigFields ==
  ASSUME NEW c \in Config
  PROVE  DOMAIN c = DOMAIN Default
  BY SMT DEF Config, Default

(* config.rs 61-86: the default is a configuration with such modes.        *)
LEMMA DefaultSettled == Default \in Settled
  BY SettingsAssumption, SMT DEF Settled, Config, Default, MIN_SOURCE_BUFFER

(* cli.rs 56-65, 180-200: a flag leaves a configuration.                   *)
LEMMA FlagKept ==
  ASSUME NEW c \in Settled, NEW s \in DOMAIN Flags, NEW b \in BOOLEAN
  PROVE  [c EXCEPT ![Flags[s]] = b] \in Settled
<1>1. CASE s \in {"no-verify", "verify"}
  <2>1. [c EXCEPT !.verify = b] \in Settled
    BY SMT DEF Settled, Config
  <2>2. Flags[s] = "verify"
    BY <1>1, SMT DEF Flags
  <2> QED BY <2>1, <2>2
<1>2. CASE s = "allow-other"
  <2>1. [c EXCEPT !.allow_other = b] \in Settled
    BY SMT DEF Settled, Config
  <2>2. Flags[s] = "allow_other"
    BY <1>2, SMT DEF Flags
  <2> QED BY <2>1, <2>2
<1>3. CASE s = "allow-root"
  <2>1. [c EXCEPT !.allow_root = b] \in Settled
    BY SMT DEF Settled, Config
  <2>2. Flags[s] = "allow_root"
    BY <1>3, SMT DEF Flags
  <2> QED BY <2>1, <2>2
<1>4. CASE s = "auto-unmount"
  <2>1. [c EXCEPT !.auto_unmount = b] \in Settled
    BY SMT DEF Settled, Config
  <2>2. Flags[s] = "auto_unmount"
    BY <1>4, SMT DEF Flags
  <2> QED BY <2>1, <2>2
<1> QED BY <1>1, <1>2, <1>3, <1>4, SMT DEF Flags

(* cli.rs 43-51, 66-115, 170-179: so does a number.                        *)
LEMMA NumberKept ==
  ASSUME NEW c \in Settled, NEW s \in DOMAIN Numbers, NEW n \in Nat
  PROVE  [c EXCEPT ![Numbers[s]] = n] \in Settled
<1>1. CASE s = "threads"
  <2>1. [c EXCEPT !.threads = n] \in Settled
    BY SMT DEF Settled, Config
  <2>2. Numbers[s] = "threads"
    BY <1>1, SMT DEF Numbers
  <2> QED BY <2>1, <2>2
<1>2. CASE s = "source-buffer-size"
  <2>1. [c EXCEPT !.source_buffer = n] \in Settled
    BY SMT DEF Settled, Config
  <2>2. Numbers[s] = "source_buffer"
    BY <1>2, SMT DEF Numbers
  <2> QED BY <2>1, <2>2
<1>3. CASE s = "decoders-per-file"
  <2>1. [c EXCEPT !.decoders_per_file = n] \in Settled
    BY SMT DEF Settled, Config
  <2>2. Numbers[s] = "decoders_per_file"
    BY <1>3, SMT DEF Numbers
  <2> QED BY <2>1, <2>2
<1>4. CASE s = "max-retained-decoders"
  <2>1. [c EXCEPT !.max_retained_decoders = n] \in Settled
    BY SMT DEF Settled, Config
  <2>2. Numbers[s] = "max_retained_decoders"
    BY <1>4, SMT DEF Numbers
  <2> QED BY <2>1, <2>2
<1>5. CASE s = "uid"
  <2>1. [c EXCEPT !.uid = n] \in Settled
    BY SMT DEF Settled, Config
  <2>2. Numbers[s] = "uid"
    BY <1>5, SMT DEF Numbers
  <2> QED BY <2>1, <2>2
<1>6. CASE s = "gid"
  <2>1. [c EXCEPT !.gid = n] \in Settled
    BY SMT DEF Settled, Config
  <2>2. Numbers[s] = "gid"
    BY <1>6, SMT DEF Numbers
  <2> QED BY <2>1, <2>2
<1>7. CASE s = "attr-ttl"
  <2>1. [c EXCEPT !.attr_ttl = n] \in Settled
    BY SMT DEF Settled, Config
  <2>2. Numbers[s] = "attr_ttl"
    BY <1>7, SMT DEF Numbers
  <2> QED BY <2>1, <2>2
<1> QED BY <1>1, <1>2, <1>3, <1>4, <1>5, <1>6, <1>7, SMT DEF Numbers

(* cli.rs 116-135: and a mode.                                             *)
LEMMA ModeKept ==
  ASSUME NEW c \in Settled, NEW s \in DOMAIN Modes, NEW v \in SUBSET (0 .. 11)
  PROVE  [c EXCEPT ![Modes[s]] = v] \in Settled
<1>1. CASE s = "file-mode"
  <2>1. [c EXCEPT !.file_mode = v] \in Settled
    BY SMT DEF Settled, Config
  <2>2. Modes[s] = "file_mode"
    BY <1>1, SMT DEF Modes
  <2> QED BY <2>1, <2>2
<1>2. CASE s = "dir-mode"
  <2>1. [c EXCEPT !.dir_mode = v] \in Settled
    BY SMT DEF Settled, Config
  <2>2. Modes[s] = "dir_mode"
    BY <1>2, SMT DEF Modes
  <2> QED BY <2>1, <2>2
<1> QED BY <1>1, <1>2, SMT DEF Modes

(* cli.rs 136-169: and a mask, which may be about both modes.              *)
LEMMA MaskKept ==
  ASSUME NEW c \in Settled, NEW s \in DOMAIN Masks, NEW v
  PROVE  [f \in DOMAIN c |-> IF f \in Masks[s] THEN Unmasked(f) \ v ELSE c[f]] \in Settled
<1> DEFINE d == [f \in DOMAIN c |-> IF f \in Masks[s] THEN Unmasked(f) \ v ELSE c[f]]
<1>1. /\ "file_mode" \in DOMAIN c /\ "dir_mode" \in DOMAIN c
      /\ c.file_mode \subseteq 0 .. 11 /\ c.dir_mode \subseteq 0 .. 11
  BY SMT DEF Settled, Config
<1>2. Masks[s] \subseteq {"file_mode", "dir_mode"}
  BY SMT DEF Masks
<1>3. Unmasked("file_mode") \subseteq 0 .. 11 /\ Unmasked("dir_mode") \subseteq 0 .. 11
  BY SMT DEF Unmasked
<1>4. d.file_mode \subseteq 0 .. 11 /\ d.dir_mode \subseteq 0 .. 11
  BY <1>1, <1>3
<1> DEFINE e == [c EXCEPT !["file_mode"] = d.file_mode]
           g == [e EXCEPT !["dir_mode"] = d.dir_mode]
<1>5. d = g
  <2>1. DOMAIN d = DOMAIN c /\ DOMAIN g = DOMAIN c
    OBVIOUS
  <2>2. ASSUME NEW f \in DOMAIN c PROVE d[f] = g[f]
    <3>1. CASE f = "file_mode" BY <3>1, <1>1
    <3>2. CASE f = "dir_mode" BY <3>2, <1>1
    <3>3. CASE f \notin {"file_mode", "dir_mode"} BY <3>3, <1>1, <1>2
    <3> QED BY <3>1, <3>2, <3>3
  <2> QED BY <2>1, <2>2
<1> HIDE DEF d
<1>6. e \in Settled
  BY <1>4, SMT DEF Settled, Config
<1> HIDE DEF e
<1>7. g \in Settled
  BY <1>4, <1>6, SMT DEF Settled, Config
<1> QED BY <1>5, <1>7 DEF d

(* cli.rs 402-452: an option that is not refused makes a configuration of  *)
(* a configuration.                                                        *)
LEMMA SetKept ==
  ASSUME NEW c \in Settled, NEW o, Fit(o)
  PROVE  apply_one(c, o) \in Settled
<1> DEFINE s == find(o.key)
<1> HIDE DEF s
<1>1. CASE s \in DOMAIN Flags
  <2>1. apply_one(c, o) = [c EXCEPT ![Flags[s]] = s # "no-verify"]
    BY <1>1 DEF apply_one, set, SETTINGS, s
  <2>2. (s # "no-verify") \in BOOLEAN
    OBVIOUS
  <2>3. [c EXCEPT ![Flags[s]] = s # "no-verify"] \in Settled
    BY <1>1, <2>2, FlagKept, ZenonT(40)
  <2> QED BY <2>1, <2>3
<1>2. CASE s \in DOMAIN Numbers /\ s \notin DOMAIN Flags
  <2>1. apply_one(c, o) = [c EXCEPT ![Numbers[s]] = o.value[1]]
    BY <1>2 DEF apply_one, set, SETTINGS, s
  <2>2. o.value[1] \in Nat
    BY <1>2, SMT DEF Fit, IsOption, Misused, SETTINGS, s
  <2>3. [c EXCEPT ![Numbers[s]] = o.value[1]] \in Settled
    BY <1>2, <2>2, NumberKept
  <2> QED BY <2>1, <2>3
<1>3. CASE s \in DOMAIN Modes /\ s \notin DOMAIN Flags /\ s \notin DOMAIN Numbers
  <2>1. apply_one(c, o) = [c EXCEPT ![Modes[s]] = mode(o.value[1])]
    BY <1>3 DEF apply_one, set, SETTINGS, s
  <2>2. mode(o.value[1]) \in SUBSET (0 .. 11)
    BY DEF mode
  <2>3. [c EXCEPT ![Modes[s]] = mode(o.value[1])] \in Settled
    BY <1>3, <2>2, ModeKept
  <2> QED BY <2>1, <2>3
<1>4. CASE /\ s \in DOMAIN Masks /\ s \notin DOMAIN Flags /\ s \notin DOMAIN Numbers
           /\ s \notin DOMAIN Modes
  <2>1. apply_one(c, o) = [f \in DOMAIN c |-> IF f \in Masks[s]
                             THEN Unmasked(f) \ mode(o.value[1]) ELSE c[f]]
    BY <1>4 DEF apply_one, set, SETTINGS, s
  <2>2. [f \in DOMAIN c |-> IF f \in Masks[s]
           THEN Unmasked(f) \ mode(o.value[1]) ELSE c[f]] \in Settled
    BY <1>4, MaskKept
  <2> QED BY <2>1, <2>2
<1>5. CASE s \notin SETTINGS
  BY <1>5 DEF apply_one, s
<1> QED BY <1>1, <1>2, <1>3, <1>4, <1>5 DEF SETTINGS

Says(c, d, o, f) ==
  apply_one(c, o)[f] = IF f \in About(o) THEN set(d, o)[f] ELSE c[f]

(* An option says the same of the fields that it is about, whatever the    *)
(* configuration was, and leaves the others.                               *)
LEMMA SetSays ==
  ASSUME NEW c \in Settled, NEW d \in Settled, NEW o, NEW f \in DOMAIN Default
  PROVE  Says(c, d, o, f)
<1> USE DEF Says
<1> DEFINE s == find(o.key)
<1>1. f \in DOMAIN c /\ f \in DOMAIN d
  BY ConfigFields DEF Settled
<1> HIDE DEF s
<1>2. CASE s \in DOMAIN Flags
  BY <1>1, <1>2 DEF apply_one, set, SETTINGS, About, s
<1>3. CASE s \in DOMAIN Numbers /\ s \notin DOMAIN Flags
  BY <1>1, <1>3 DEF apply_one, set, SETTINGS, About, s
<1>4. CASE s \in DOMAIN Modes /\ s \notin DOMAIN Flags /\ s \notin DOMAIN Numbers
  BY <1>1, <1>4 DEF apply_one, set, SETTINGS, About, s
<1>5. CASE /\ s \in DOMAIN Masks /\ s \notin DOMAIN Flags /\ s \notin DOMAIN Numbers
           /\ s \notin DOMAIN Modes
  BY <1>1, <1>5 DEF apply_one, set, SETTINGS, About, s
<1>6. CASE s \notin SETTINGS
  BY <1>6 DEF apply_one, SETTINGS, About, s
<1> QED BY <1>2, <1>3, <1>4, <1>5, <1>6 DEF SETTINGS

-----------------------------------------------------------------------------
(* Applying a list.                                                        *)

(* A set of numbers that is not empty has a least one.                     *)
LEMMA LeastOf ==
  ASSUME NEW T, T \subseteq Nat, T # {}
  PROVE  \E x \in T : \A y \in T : ~(y < x)
<1> DEFINE R == OpToRel(<, Nat)
<1>1. IsWellFoundedOn(R, Nat)
  BY NatLessThanWellFounded
<1>2. PICK x \in T : \A y \in T : ~ (<<y, x>> \in R)
  <2> HIDE DEF R
  <2> QED BY <1>1, WFMin
<1>3. \A y \in T : y < x => <<y, x>> \in R
  BY DEF OpToRel
<1> QED BY <1>2, <1>3

(* Induction up to m, for a set of numbers in the place of a predicate.    *)
LEMMA UpTo ==
  ASSUME NEW m \in Nat, NEW T, 0 \in T, \A n \in 0 .. m - 1 : n \in T => n + 1 \in T
  PROVE  \A n \in 0 .. m : n \in T
<1> DEFINE bad == {n \in 0 .. m : n \notin T}
<1>1. SUFFICES ASSUME bad # {} PROVE FALSE
  OBVIOUS
<1>2. bad \subseteq Nat
  BY SMT
<1>3. PICK x \in bad : \A y \in bad : ~(y < x)
  BY <1>1, <1>2, LeastOf
<1>4. x \in 1 .. m /\ x \notin T
  BY <1>3, SMT
<1>5. x - 1 \in 0 .. m - 1 /\ x - 1 < x /\ (x - 1) + 1 = x
  BY <1>4, SMT
<1>6. x - 1 \in T
  BY <1>3, <1>5, SMT
<1> QED BY <1>4, <1>5, <1>6

(* What a loop of m turns does, each taking a state of S to another; and f *)
(* gives the state after each turn, from c on.                             *)
Turns(m, S) == [1 .. m -> [S -> S]]

Runs(f, m, S, c, turn) ==
  /\ f \in [0 .. m -> S] /\ f[0] = c
  /\ \A i \in 1 .. m : f[i] = turn[i][f[i - 1]]

(* Every loop runs.                                                        *)
LEMMA Loop ==
  ASSUME NEW m \in Nat, NEW S, NEW c \in S, NEW turn \in Turns(m, S)
  PROVE  \E f : Runs(f, m, S, c, turn)
<1> USE DEF Turns
<1> DEFINE some == {n \in 0 .. m : \E f : Runs(f, n, S, c, turn)}
<1>1. 0 \in some
  <2> DEFINE f == [i \in 0 .. 0 |-> c]
  <2>1. Runs(f, 0, S, c, turn)
    BY SMT DEF Runs
  <2> HIDE DEF f
  <2> QED BY <2>1, SMT
<1>2. ASSUME NEW n \in 0 .. m - 1, n \in some PROVE n + 1 \in some
  <2>1. PICK f : Runs(f, n, S, c, turn)
    BY <1>2
  <2> DEFINE g == [i \in 0 .. n + 1 |-> IF i = n + 1 THEN turn[n + 1][f[n]] ELSE f[i]]
  <2>2. f[n] \in S /\ turn[n + 1] \in [S -> S]
    BY <2>1, SMT DEF Runs
  <2>3. g \in [0 .. n + 1 -> S]
    BY <2>1, <2>2, SMT DEF Runs
  <2>4. g[0] = c
    BY <2>1, SMT DEF Runs
  <2>5. ASSUME NEW i \in 1 .. n + 1 PROVE g[i] = turn[i][g[i - 1]]
    <3>1. g[i - 1] = f[i - 1]
      BY SMT
    <3> QED BY <2>1, <3>1, SMTT(30) DEF Runs
  <2>6. Runs(g, n + 1, S, c, turn)
    BY <2>3, <2>4, <2>5 DEF Runs
  <2> HIDE DEF g
  <2>7. n + 1 \in 0 .. m
    BY SMT
  <2> QED BY <2>6, <2>7
<1>3. \A n \in 0 .. m : n \in some
  <2> HIDE DEF some
  <2> QED BY <1>1, <1>2, UpTo
<1>4. m \in some
  BY <1>3, SMT
<1> QED BY <1>4

(* The loop of apply, option by option.                                    *)
Applied(c, opts) ==
  CHOOSE f : f = [n \in 0 .. Len(opts) |->
                    IF n = 0 THEN c ELSE apply_one(f[n - 1], opts[n])]

(* A list of options that are not refused.                                 *)
FitList(opts) ==
  /\ Len(opts) \in Nat /\ DOMAIN opts = 1 .. Len(opts)
  /\ \A j \in DOMAIN opts : Fit(opts[j])

Steps(c, opts, states) ==
  /\ apply(c, opts) = states[Len(opts)] /\ states[0] = c
  /\ \A n \in 0 .. Len(opts) : states[n] \in Settled
  /\ \A n \in 1 .. Len(opts) : states[n] = apply_one(states[n - 1], opts[n])

(* cli.rs 382-400: the loop takes one configuration to the next.           *)
LEMMA AppliedRuns ==
  ASSUME NEW c \in Settled, NEW opts, FitList(opts)
  PROVE  Steps(c, opts, Applied(c, opts))
<1> DEFINE m == Len(opts)
           turn == [i \in 1 .. m |-> [d \in Settled |-> apply_one(d, opts[i])]]
<1>1. m \in Nat /\ \A i \in 1 .. m : Fit(opts[i])
  BY DEF FitList
<1>2. turn \in Turns(m, Settled)
  BY <1>1, SetKept DEF Turns
<1>3. PICK f : Runs(f, m, Settled, c, turn)
  <2> HIDE DEF turn, m
  <2> QED BY <1>1, <1>2, Loop
<1>4. f \in [0 .. m -> Settled] /\ f[0] = c
  BY <1>3 DEF Runs
<1>5. ASSUME NEW i \in 1 .. m PROVE f[i] = apply_one(f[i - 1], opts[i])
  <2>1. i - 1 \in 0 .. m
    BY <1>1, SMT
  <2>2. f[i] = turn[i][f[i - 1]] /\ f[i - 1] \in Settled
    BY <1>3, <1>4, <2>1 DEF Runs
  <2> QED BY <2>2
<1>6. f = [n \in 0 .. m |-> IF n = 0 THEN c ELSE apply_one(f[n - 1], opts[n])]
  <2> DEFINE g == [n \in 0 .. m |-> IF n = 0 THEN c ELSE apply_one(f[n - 1], opts[n])]
  <2>1. ASSUME NEW n \in 0 .. m PROVE f[n] = g[n]
    <3>1. CASE n = 0 BY <1>4, <3>1
    <3>2. CASE n # 0
      <4>1. n \in 1 .. m
        BY <1>1, <3>2, SMT
      <4> QED BY <1>5, <3>2, <4>1
    <3> QED BY <3>1, <3>2
  <2>2. DOMAIN f = 0 .. m /\ f = [n \in DOMAIN f |-> f[n]]
    BY <1>4
  <2> QED BY <2>1, <2>2
<1>7. Applied(c, opts) = [n \in 0 .. m |->
        IF n = 0 THEN c ELSE apply_one(Applied(c, opts)[n - 1], opts[n])]
  BY <1>6 DEF Applied
<1> HIDE DEF m, turn
<1>8. Applied(c, opts)[0] = c
  <2>1. 0 \in 0 .. m
    BY <1>1, SMT
  <2> QED BY <1>7, <2>1
<1>9. \A n \in 1 .. m : Applied(c, opts)[n] = apply_one(Applied(c, opts)[n - 1], opts[n])
  <2>1. \A n \in 1 .. m : n \in 0 .. m /\ n # 0
    BY <1>1, SMT
  <2> QED BY <1>7, <2>1
<1>10. \A n \in 0 .. m : Applied(c, opts)[n] \in Settled
  <2> DEFINE T == {n \in 0 .. m : Applied(c, opts)[n] \in Settled}
  <2>1. 0 \in T
    BY <1>1, <1>8, SMT
  <2>2. ASSUME NEW n \in 0 .. m - 1, n \in T PROVE n + 1 \in T
    <3>1. n + 1 \in 1 .. m /\ n + 1 \in 0 .. m /\ (n + 1) - 1 = n
      BY <1>1, SMT
    <3>2. Applied(c, opts)[n + 1] = apply_one(Applied(c, opts)[n], opts[n + 1])
      BY <1>9, <3>1
    <3> QED BY <1>1, <2>2, <3>1, <3>2, SetKept
  <2>3. \A n \in 0 .. m : n \in T
    <3> HIDE DEF T
    <3> QED BY <1>1, <2>1, <2>2, UpTo
  <2> QED BY <2>3
<1>11. apply(c, opts) = Applied(c, opts)[m]
  BY DEF apply, Applied, m
<1> QED BY <1>8, <1>9, <1>10, <1>11 DEF m, Steps

(* A set of numbers up to n that is not empty has a greatest one.          *)
LEMMA GreatestOf ==
  ASSUME NEW n \in Nat, NEW S, S \subseteq 1 .. n, S # {}
  PROVE  \E x \in S : \A y \in S : y <= x
<1> DEFINE T == {n - x : x \in S}
<1>1. T \subseteq Nat
  BY SMT
<1>5. T # {}
  OBVIOUS
<1>2. PICK t \in T : \A u \in T : ~(u < t)
  <2> HIDE DEF T
  <2> QED BY <1>1, <1>5, LeastOf
<1>3. PICK x \in S : t = n - x
  BY <1>2
<1>4. ASSUME NEW y \in S PROVE y <= x
  <2>1. n - y \in T
    OBVIOUS
  <2>2. ~(n - y < n - x)
    BY <1>2, <1>3, <2>1
  <2> QED BY <2>2, SMT
<1> QED BY <1>4

(* The greatest number of a set is the latest.                             *)
LEMMA LatestIs ==
  ASSUME NEW S, S \subseteq Nat, NEW n \in S, \A k \in S : k <= n
  PROVE  Latest(S) = n
<1>1. Latest(S) \in S /\ n <= Latest(S)
  BY DEF Latest
<1>2. Latest(S) <= n /\ Latest(S) \in Nat /\ n \in Nat
  BY <1>1
<1> QED BY <1>1, <1>2, SMT

(* What a list says of a field, of which the first n options are read.     *)
Spoken(opts, f, n) == {j \in 1 .. n : f \in About(opts[j])}

SaidBy(c, opts, f, n) ==
  IF Spoken(opts, f, n) = {} THEN c ELSE set(Default, opts[Latest(Spoken(opts, f, n))])[f]

(* cli.rs 382-400: a field gets what the last option about it says.        *)
LEMMA ListSays ==
  ASSUME NEW c \in Settled, NEW opts, FitList(opts), NEW f \in DOMAIN Default
  PROVE  apply(c, opts)[f] = LastIn(c[f], opts, f)
<1> DEFINE m == Len(opts)
           A == Applied(c, opts)
           T == {n \in 0 .. m : A[n][f] = SaidBy(c[f], opts, f, n)}
<1>1. m \in Nat /\ DOMAIN opts = 1 .. m
  BY DEF FitList
<1>8. Steps(c, opts, A)
  BY AppliedRuns
<1> HIDE DEF A
<1>2. /\ apply(c, opts) = A[m] /\ A[0] = c
      /\ \A n \in 0 .. m : A[n] \in Settled
      /\ \A n \in 1 .. m : A[n] = apply_one(A[n - 1], opts[n])
  BY <1>8 DEF Steps
<1>3. 0 \in T
  <2>1. Spoken(opts, f, 0) = {}
    BY SMT DEF Spoken
  <2>2. 0 \in 0 .. m
    BY <1>1, SMT
  <2> QED BY <1>2, <2>1, <2>2 DEF SaidBy
<1>4. ASSUME NEW n \in 0 .. m - 1, n \in T PROVE n + 1 \in T
  <2>1. /\ n + 1 \in 1 .. m /\ n \in 0 .. m /\ n + 1 \in 0 .. m /\ (n + 1) - 1 = n
        /\ n + 1 \in 1 .. n + 1 /\ 1 .. n + 1 \subseteq Nat
        /\ \A k \in 1 .. n + 1 : k <= n + 1 /\ (k = n + 1 \/ k \in 1 .. n)
        /\ 1 .. n \subseteq 1 .. n + 1
    BY <1>1, SMT
  <2>2. A[n + 1] = apply_one(A[n], opts[n + 1]) /\ A[n] \in Settled
    BY <1>2, <2>1
  <2>3. A[n][f] = SaidBy(c[f], opts, f, n)
    BY <1>4
  <2>6. Says(A[n], Default, opts[n + 1], f)
    BY <2>2, SetSays, DefaultSettled
  <2>4. CASE f \in About(opts[n + 1])
    <3>1. A[n + 1][f] = set(Default, opts[n + 1])[f]
      BY <2>2, <2>4, <2>6 DEF Says
    <3>2. n + 1 \in Spoken(opts, f, n + 1) /\ Spoken(opts, f, n + 1) \subseteq 1 .. n + 1
      BY <2>1, <2>4 DEF Spoken
    <3>3. Latest(Spoken(opts, f, n + 1)) = n + 1
      BY <2>1, <3>2, LatestIs
    <3> QED BY <2>1, <3>1, <3>2, <3>3 DEF SaidBy
  <2>5. CASE f \notin About(opts[n + 1])
    <3>1. A[n + 1][f] = A[n][f]
      BY <2>2, <2>5, <2>6 DEF Says
    <3>2. Spoken(opts, f, n + 1) = Spoken(opts, f, n)
      BY <2>1, <2>5 DEF Spoken
    <3> QED BY <2>1, <2>3, <3>1, <3>2 DEF SaidBy
  <2> QED BY <2>4, <2>5
<1>5. \A n \in 0 .. m : n \in T
  <2> HIDE DEF T, m
  <2> QED BY <1>1, <1>3, <1>4, UpTo
<1>6. m \in T
  <2>1. m \in 0 .. m
    BY <1>1, SMT
  <2> QED BY <1>5, <2>1
<1>7. SaidBy(c[f], opts, f, m) = LastIn(c[f], opts, f)
  BY <1>1 DEF SaidBy, Spoken, LastIn
<1> QED BY <1>2, <1>6, <1>7

(* A list that is read after others has the last word on what it is about. *)
LEMMA LastOfAppended ==
  ASSUME NEW n \in Nat, NEW lists, DOMAIN lists = 1 .. n,
         NEW more, DOMAIN more = 1 .. n + 1, \A i \in 1 .. n : more[i] = lists[i],
         NEW f
  PROVE  LastOf(more, f) = LastIn(LastOf(lists, f), more[n + 1], f)
<1> DEFINE speaks(i) == \E j \in DOMAIN more[i] : f \in About(more[i][j])
           old == {i \in DOMAIN lists : \E j \in DOMAIN lists[i] : f \in About(lists[i][j])}
           new == {i \in DOMAIN more : speaks(i)}
<1>1. /\ n + 1 \in 1 .. n + 1 /\ 1 .. n + 1 \subseteq Nat /\ 1 .. n \subseteq 1 .. n + 1
      /\ \A k \in 1 .. n + 1 : k <= n + 1 /\ (k = n + 1 \/ k \in 1 .. n)
  BY SMT
<1>2. old = {i \in 1 .. n : speaks(i)}
  OBVIOUS
<1>3. LastOf(lists, f) =
        IF old = {} THEN Default[f] ELSE LastIn(Default[f], lists[Latest(old)], f)
  BY DEF LastOf
<1>4. LastOf(more, f) =
        IF new = {} THEN Default[f] ELSE LastIn(Default[f], more[Latest(new)], f)
  BY DEF LastOf
<1>5. CASE speaks(n + 1)
  <2>1. n + 1 \in new /\ new \subseteq 1 .. n + 1
    BY <1>1, <1>5
  <2>2. Latest(new) = n + 1
    <3> HIDE DEF new
    <3> QED BY <1>1, <2>1, LatestIs
  <2>3. {j \in DOMAIN more[n + 1] : f \in About(more[n + 1][j])} # {}
    BY <1>5
  <2>4. LastIn(Default[f], more[n + 1], f) = LastIn(LastOf(lists, f), more[n + 1], f)
    BY <2>3 DEF LastIn
  <2> HIDE DEF new
  <2> QED BY <1>4, <2>1, <2>2, <2>4
<1>6. CASE ~speaks(n + 1)
  <2>1. new = old
    BY <1>1, <1>2, <1>6
  <2>2. {j \in DOMAIN more[n + 1] : f \in About(more[n + 1][j])} = {}
    BY <1>6
  <2>3. LastIn(LastOf(lists, f), more[n + 1], f) = LastOf(lists, f)
    BY <2>2 DEF LastIn
  <2>4. old # {} => Latest(old) \in 1 .. n
    <3>1. old \subseteq 1 .. n
      OBVIOUS
    <3>2. old # {} => \E i \in old : \A k \in old : k <= i
      <4> HIDE DEF old
      <4> QED BY <3>1, GreatestOf
    <3> HIDE DEF old
    <3> QED BY <3>1, <3>2 DEF Latest
  <2>5. old # {} => more[Latest(old)] = lists[Latest(old)]
    <3> HIDE DEF old
    <3> QED BY <2>4
  <2> HIDE DEF old, new
  <2> QED BY <1>3, <1>4, <2>1, <2>3, <2>5
<1> QED BY <1>5, <1>6

-----------------------------------------------------------------------------
(* The arguments.                                                          *)

(* main.rs 379-424: the options of an argument that is not bad are fit.    *)
LEMMA AskedFit ==
  ASSUME NEW a \in Arguments, ~Bad(a)
  PROVE  FitList(Asked(a))
<1>1. /\ a.kind \in {"long", "list", "switch"}
      /\ a.kind # "switch" =>
           /\ Len(a.opts) \in Nat /\ DOMAIN a.opts = 1 .. Len(a.opts)
           /\ \A j \in DOMAIN a.opts : IsOption(a.opts[j])
      /\ a.kind = "long" => Len(a.opts) = 1
  BY ArgumentsAssumption
<1>2. CASE a.kind = "long"
  <2>1. ~Misused(a.opts[1])
    BY <1>2, SMT DEF Bad
  <2>2. DOMAIN a.opts = {1}
    BY <1>1, <1>2, SMT
  <2> QED BY <1>1, <1>2, <2>1, <2>2 DEF FitList, Fit, Asked
<1>3. CASE a.kind = "list"
  <2>1. ~Refused(a.opts)
    BY <1>3, SMT DEF Bad
  <2>2. \A j \in DOMAIN a.opts : ~Misused(a.opts[j])
    BY <2>1 DEF Refused
  <2> QED BY <1>1, <1>3, <2>2 DEF FitList, Fit, Asked
<1>4. CASE a.kind = "switch"
  <2> DEFINE o == [key |-> "threads", value |-> <<1>>]
  <2>1. CASE a.word = "-s" /\ ~helper
    <3>1. Asked(a) = <<o>>
      BY <1>4, <2>1 DEF Asked
    <3>2. find(o.key) = "threads"
      BY SMT DEF find
    <3>3. o.value = <<1>> /\ o.value[1] = 1
      BY SMT
    <3>4. /\ "threads" \in DOMAIN Numbers /\ "threads" \notin DOMAIN Flags
          /\ "threads" \notin DOMAIN Modes /\ "threads" \notin DOMAIN Masks
      BY SMT DEF Flags, Numbers, Modes, Masks
    <3>5. <<1>> # <<>> /\ <<1>> # <<-1>> /\ 1 \in Nat \cup {-1}
      BY SMT
    <3>6. Fit(o)
      BY <3>2, <3>3, <3>4, <3>5 DEF Fit, IsOption, Misused
    <3>7. Len(<<o>>) = 1 /\ DOMAIN <<o>> = 1 .. 1 /\ 1 .. 1 = {1} /\ <<o>>[1] = o /\ 1 \in Nat
      BY SMT
    <3> HIDE DEF o
    <3> QED BY <3>1, <3>6, <3>7 DEF FitList
  <2>2. CASE ~(a.word = "-s" /\ ~helper)
    <3>1. Asked(a) = <<>>
      BY <1>4, <2>2 DEF Asked
    <3>2. Len(<<>>) = 0 /\ DOMAIN <<>> = 1 .. 0 /\ 1 .. 0 = {} /\ 0 \in Nat
      BY SMT
    <3> QED BY <3>1, <3>2 DEF FitList
  <2> QED BY <2>1, <2>2
<1> QED BY <1>1, <1>2, <1>3, <1>4

(* Every field has its last word until the mount.                          *)
LastWords == config \in Settled /\ \A f \in DOMAIN Default : config[f] = LastWord(f)

(* The fields that are fitted.                                             *)
Limited == {"source_buffer", "decoders_per_file", "threads", "max_retained_decoders"}

Fitted ==
  /\ Within(config.source_buffer, LastWord("source_buffer"),
            MIN_SOURCE_BUFFER, MAX_SOURCE_BUFFER)
  /\ Within(config.decoders_per_file, LastWord("decoders_per_file"),
            1, config.max_retained_decoders)
  /\ \A f \in {"threads", "max_retained_decoders"} :
       config[f] = IF LastWord(f) = 0 THEN 1 ELSE LastWord(f)
  /\ \A f \in DOMAIN Default \ Limited : config[f] = LastWord(f)

SettingsInv ==
  /\ first \in {"parse", "run"} => LastWords
  /\ first = "mount" => Fitted
  /\ given \in Seq(Arguments)

(* main.rs 379-421: an argument has the last word on what it is about.     *)
LEMMA TakeKept ==
  ASSUME SettingsInv, NEW a \in Arguments, Take(a)
  PROVE  SettingsInv'
<1> DEFINE n == Len(given)
           lists == [i \in DOMAIN given |-> Asked(given[i])]
           more == [i \in DOMAIN given' |-> Asked(given'[i])]
<1>1. /\ first = "parse" /\ first' = "parse" /\ ~Bad(a) /\ helper' = helper
      /\ config' = apply(config, Asked(a)) /\ given' = Append(given, a)
  BY DEF Take
<1>2. given \in Seq(Arguments) /\ LastWords
  BY <1>1 DEF SettingsInv
<1>3. /\ n \in Nat /\ DOMAIN given = 1 .. n /\ DOMAIN given' = 1 .. n + 1
      /\ given'[n + 1] = a /\ n + 1 \in 1 .. n + 1
      /\ \A i \in 1 .. n : given'[i] = given[i] /\ i \in 1 .. n + 1
      /\ given' \in Seq(Arguments)
  BY <1>1, <1>2, SMT
<1>4. /\ DOMAIN lists = 1 .. n /\ DOMAIN more = 1 .. n + 1 /\ more[n + 1] = Asked(a)
      /\ \A i \in 1 .. n : more[i] = lists[i]
  BY <1>3
<1>5. FitList(Asked(a))
  BY <1>1, AskedFit
<1>6. config \in Settled
  BY <1>2 DEF LastWords
<1>7. config' \in Settled
  <2>1. Steps(config, Asked(a), Applied(config, Asked(a)))
    BY <1>5, <1>6, AppliedRuns
  <2>2. Len(Asked(a)) \in Nat
    BY <1>5 DEF FitList
  <2>3. Len(Asked(a)) \in 0 .. Len(Asked(a))
    BY <2>2, SMT
  <2> QED BY <1>1, <2>1, <2>3 DEF Steps
<1>8. ASSUME NEW f \in DOMAIN Default PROVE config'[f] = LastWord(f)'
  <2>1. config[f] = LastOf(lists, f)
    BY <1>2 DEF LastWords, LastWord
  <2>2. LastWord(f)' = LastOf(more, f)
    BY <1>1 DEF LastWord, Asked
  <2>3. LastOf(more, f) = LastIn(LastOf(lists, f), more[n + 1], f)
    <3>1. n \in Nat
      BY <1>3
    <3> HIDE DEF lists, more, n
    <3>2. DOMAIN lists = 1 .. n /\ DOMAIN more = 1 .. n + 1
      BY <1>4
    <3> QED BY <1>4, <3>1, <3>2, LastOfAppended, ZenonT(40)
  <2>4. apply(config, Asked(a))[f] = LastIn(config[f], Asked(a), f)
    BY <1>5, <1>6, ListSays
  <2> HIDE DEF lists, more
  <2> QED BY <1>1, <1>4, <2>1, <2>2, <2>3, <2>4
<1>9. LastWords'
  BY <1>7, <1>8 DEF LastWords
<1> QED BY <1>1, <1>3, <1>9 DEF SettingsInv

(* config.rs 91-98: a value is fitted, and changed only if it is outside.  *)
LEMMA ClampFits ==
  ASSUME NEW x \in Nat, NEW low \in Nat, NEW high \in Nat, low <= high
  PROVE  Within(Clamp(x, low, high), x, low, high)
  BY SMT DEF Clamp, Within

(* What a fitted configuration d has of the one that was given.            *)
InLimits(c, d) ==
  /\ Within(d.source_buffer, c.source_buffer, MIN_SOURCE_BUFFER, MAX_SOURCE_BUFFER)
  /\ Within(d.decoders_per_file, c.decoders_per_file, 1, d.max_retained_decoders)
  /\ d.threads = (IF c.threads = 0 THEN 1 ELSE c.threads)
  /\ d.max_retained_decoders
       = (IF c.max_retained_decoders = 0 THEN 1 ELSE c.max_retained_decoders)
  /\ \A f \in DOMAIN Default \ Limited : d[f] = c[f]

(* config.rs 88-101: clamp changes what is out of its limits only.         *)
LEMMA Clamped ==
  ASSUME NEW c \in Settled
  PROVE  InLimits(c, clamp(c))
<1> DEFINE d == clamp(c)
           most == AtLeastOne(c.max_retained_decoders)
<1>1. /\ c.decoders_per_file \in Nat /\ c.max_retained_decoders \in Nat
      /\ c.threads \in Nat /\ c.source_buffer \in Nat
      /\ c.file_mode \subseteq 0 .. 11 /\ c.dir_mode \subseteq 0 .. 11
  BY SMT DEF Settled, Config
<1>2. d.threads = AtLeastOne(c.threads)
  BY SMT DEF Settled, Config, clamp
<1>3. d.source_buffer = Clamp(c.source_buffer, MIN_SOURCE_BUFFER, MAX_SOURCE_BUFFER)
  BY SMT DEF Settled, Config, clamp
<1>4. d.max_retained_decoders = most
  BY SMT DEF Settled, Config, clamp
<1>5. d.decoders_per_file = Clamp(c.decoders_per_file, 1, most)
  BY SMT DEF Settled, Config, clamp
<1>6. ASSUME NEW f \in DOMAIN Default \ Limited
      PROVE  d[f] = c[f]
  <2>1. f \in DOMAIN c
    BY ConfigFields DEF Settled
  <2>2. CASE f \notin {"file_mode", "dir_mode"}
    BY <1>6, <2>1, <2>2 DEF clamp, Limited
  <2>3. mode(c.file_mode) = c.file_mode /\ mode(c.dir_mode) = c.dir_mode
    BY <1>1 DEF mode
  <2>4. d.file_mode = mode(c.file_mode) /\ d.dir_mode = mode(c.dir_mode)
    BY SMT DEF Settled, Config, clamp
  <2> QED BY <2>2, <2>3, <2>4
<1> HIDE DEF d
<1>7. most \in Nat /\ 1 <= most /\ 1 \in Nat
  BY <1>1, SMT DEF AtLeastOne
<1>8. /\ AtLeastOne(c.threads) = (IF c.threads = 0 THEN 1 ELSE c.threads)
      /\ most = (IF c.max_retained_decoders = 0 THEN 1 ELSE c.max_retained_decoders)
  BY <1>1, SMT DEF AtLeastOne
<1>9. /\ MIN_SOURCE_BUFFER \in Nat /\ MAX_SOURCE_BUFFER \in Nat
      /\ MIN_SOURCE_BUFFER <= MAX_SOURCE_BUFFER
  BY SMT DEF MIN_SOURCE_BUFFER, MAX_SOURCE_BUFFER
<1> HIDE DEF most
<1>10. Within(d.source_buffer, c.source_buffer, MIN_SOURCE_BUFFER, MAX_SOURCE_BUFFER)
  BY <1>1, <1>3, <1>9, ClampFits
<1>11. Within(d.decoders_per_file, c.decoders_per_file, 1, d.max_retained_decoders)
  BY <1>1, <1>4, <1>5, <1>7, ClampFits
<1>12. InLimits(c, d)
  BY <1>2, <1>4, <1>6, <1>8, <1>10, <1>11 DEF InLimits
<1> QED BY <1>12 DEF d

(* main.rs: the fitted configuration has the last words that fit.          *)
LEMMA IndexKept ==
  ASSUME SettingsInv, Index
  PROVE  SettingsInv'
<1>1. /\ first = "run" /\ first' = "mount" /\ config' = clamp(config)
      /\ helper' = helper /\ given' = given
  BY DEF Index
<1>2. LastWords /\ given \in Seq(Arguments)
  BY <1>1 DEF SettingsInv
<1>3. config \in Settled /\ \A f \in DOMAIN Default : config[f] = LastWord(f)
  BY <1>2 DEF LastWords
<1>4. InLimits(config, config')
  BY <1>1, <1>3, Clamped
<1>5. \A f : LastWord(f)' = LastWord(f)
  BY <1>1 DEF LastWord, Asked
<1>6. Limited \subseteq DOMAIN Default
  BY SMTT(30) DEF Default, Limited
<1>7. /\ config.source_buffer = LastWord("source_buffer")'
      /\ config.decoders_per_file = LastWord("decoders_per_file")'
      /\ config.threads = LastWord("threads")'
      /\ config.max_retained_decoders = LastWord("max_retained_decoders")'
  BY <1>3, <1>5, <1>6 DEF Limited
<1>8. Fitted'
  BY <1>3, <1>4, <1>5, <1>7 DEF Fitted, InLimits
<1> QED BY <1>1, <1>2, <1>8 DEF SettingsInv

(* Nothing but the arguments and Index sets the configuration, and nothing *)
(* looks at it after the mount.                                            *)
LEMMA SettingsStay ==
  ASSUME SettingsInv, helper' = helper, given' = given, config' = config,
         \/ first' = first \/ (first = "parse" /\ first' = "run")
         \/ first' \notin {"parse", "run", "mount"}
  PROVE  SettingsInv'
<1>1. \A f : LastWord(f)' = LastWord(f)
  BY DEF LastWord, Asked
<1>2. LastWords => LastWords'
  BY <1>1 DEF LastWords
<1>3. Fitted => Fitted'
  BY <1>1 DEF Fitted
<1> QED BY <1>2, <1>3 DEF SettingsInv

(* What the other steps leave.                                             *)
Leaves ==
  /\ helper' = helper /\ given' = given /\ config' = config
  /\ \/ first' = first \/ (first = "parse" /\ first' = "run")
     \/ first' \notin {"parse", "run", "mount"}

(* A step of the first process, of the child or of the caller takes an     *)
(* argument, fits the configuration, mounts, or leaves the settings.       *)
LEMMA OthersLeave ==
  ASSUME Acts
  PROVE  (\E a \in Arguments : Take(a)) \/ Index \/ Mount \/ Leaves
<1> USE DEF Leaves, args
<1>1. CASE TakePath \/ Usage \/ Help \/ Parsed
  BY <1>1 DEF TakePath, Usage, Help, Parsed, Leave
<1>2. CASE RunFails \/ DryRun \/ MountFails
  BY <1>2 DEF RunFails, DryRun, MountFails, Leave
<1>3. CASE PipeFails \/ Pipe \/ ForkFails \/ Fork \/ CloseWrite
  BY <1>3 DEF PipeFails, Pipe, ForkFails, Fork, CloseWrite, Return
<1>4. CASE AwaitReady \/ AwaitMore \/ AwaitEnd
  BY <1>4 DEF AwaitReady, AwaitMore, AwaitEnd, Exit, Abandon
<1>5. CASE ChildStep
  BY <1>5 DEF ChildStep, CloseRead, Detach, DetachFails, Send, SendBroken, Sent, Drop
<1>6. CASE ServeEnds \/ KillFirst \/ KillChild
  BY <1>6 DEF ServeEnds, KillFirst, KillChild, Return, Abandon
<1> QED BY <1>1, <1>2, <1>3, <1>4, <1>5, <1>6 DEF Acts, Parse, FirstStep

(* main.rs, cli.rs and config.rs: the settings that a mount gets are those *)
(* that were given last, whatever the arguments, in lists and by long      *)
(* options, of any number and in any order.  Each is the one given, or the *)
(* limit that the one given is beyond.                                     *)
THEOREM SettingsAreGiven == Spec => []SettingsAsGiven
<1>1. Init => SettingsInv
  <2> SUFFICES ASSUME Init PROVE SettingsInv
    OBVIOUS
  <2>1. given = <<>> /\ config = Default /\ first = "parse"
    BY DEF Init
  <2>2. DOMAIN given = {} /\ given \in Seq(Arguments)
    BY <2>1, SMT
  <2>3. \A f : LastWord(f) = Default[f]
    BY <2>2 DEF LastWord, LastOf
  <2>4. LastWords
    BY <2>1, <2>3, DefaultSettled DEF LastWords
  <2> QED BY <2>1, <2>2, <2>4 DEF SettingsInv
<1>2. SettingsInv /\ [Next]_vars => SettingsInv'
  <2> SUFFICES ASSUME SettingsInv, [Next]_vars PROVE SettingsInv'
    OBVIOUS
  <2>1. CASE Mount
    <3>1. given' = <<>> /\ first' \notin {"parse", "run", "mount"}
      BY <2>1 DEF Mount
    <3>2. given' \in Seq(Arguments)
      BY <3>1, SMT
    <3> QED BY <3>1, <3>2 DEF SettingsInv
  <2>2. CASE Leaves
    BY <2>2, SettingsStay DEF Leaves
  <2>3. CASE UNCHANGED vars
    BY <2>3, SettingsStay DEF vars, args
  <2> QED BY <2>1, <2>2, <2>3, SignalsChangeNothing, OthersLeave, TakeKept, IndexKept
<1>3. SettingsInv => SettingsAsGiven
  BY DEF SettingsInv, LastWords, Fitted, Limited, Settled, SettingsAsGiven
<1> QED BY <1>1, <1>2, <1>3, PTL DEF Spec
=============================================================================
