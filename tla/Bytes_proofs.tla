---------------------------- MODULE Bytes_proofs ----------------------------
(***************************************************************************)
(* Proofs about the bytes of the archive: how they are read (GuardedFile)  *)
(* and how they are decompressed (Decoder).                                *)
(*                                                                         *)
(* GuardedFile, for every set of threads and every bound on the writes.    *)
(* The argument for OnlyMountedBytes is the one of the header of guard.rs: *)
(* a write changes the time before it changes the data, so a pread that    *)
(* saw new data is followed by a stamp that shows it (Traces), and a       *)
(* thread that has found the stamps unchanged holds bytes of the mounted   *)
(* version (Cleared).                                                      *)
(*                                                                         *)
(* Decoder, for any entries, any lengths of the two buffers and any way in *)
(* which a codec takes its input and gives its output.                     *)
(***************************************************************************)
EXTENDS GuardedFile, Decoder, FiniteSetTheorems, TLAPS

-----------------------------------------------------------------------------
(* GuardedFile.                                                            *)

(* What the archive shows of its history.                                  *)
Shows ==
  /\ named => follows
  /\ target = "replacement" => follows /\ name # "archive"
  /\ mtime # 0 \/ ~whole \/ (follows /\ name # "archive") => changed
  /\ ~blind => (data # 0 \/ pending \/ ~whole => mtime # 0)
  /\ ~blind => (target = "replacement" => named)

(* What a buffer's content leaves behind for the stamps to show.           *)
Traces ==
  ~blind => \A t \in Threads :
    /\ seen[t] = Foreign => named /\ name # "archive"
    /\ seen[t] \notin {0, Foreign} => mtime # 0
    /\ eof[t] => mtime # 0

(* Where a thread that found no change holds the mounted bytes.            *)
Cleared ==
  ~blind => \A t \in Threads :
    /\ at[t] \in {"clear", "logclear"} /\ reading[t] => seen[t] = 0 /\ ~eof[t]
    /\ answer[t] = "ok" => seen[t] = 0
    /\ answer[t] # "eof"

(* A call that began after a change was found gets no further than the     *)
(* load of the flag.                                                       *)
Barred ==
  \A t \in Threads : late[t] =>
    /\ stale
    /\ at[t] \in {"ready", "loadstale", "reload"}
    /\ answer[t] \in {"none", "stale", "unknown"}

(* What has been or is about to be reported as a change is one.            *)
Founded ==
  /\ stale => changed
  /\ \A t \in Threads :
       at[t] \in {"mark", "logmark"} \/ answer[t] = "stale" => changed
  /\ \A t \in Threads : at[t] = "fstatat" => named

(* The threads at a place, of which some owe the log a message.            *)
Owing(p) == {t \in Threads : at[t] = p}

Duties == {"logmark", "logclear", "logunsure"}

(* What is in the log and what is owed to it make up the flags.            *)
Books ==
  /\ \A p \in Duties : IsFiniteSet(Owing(p))
  /\ errors + Cardinality(Owing("logmark")) = (IF stale THEN 1 ELSE 0)
  /\ (warned + Cardinality(Owing("logunsure"))) - Cardinality(Owing("logclear"))
       = (IF unsure THEN 1 ELSE 0)

(* Every step keeps the types.                                             *)
LEMMA NextTypes == GuardTypeOK /\ [GuardNext]_guardVars => GuardTypeOK'
<1> SUFFICES ASSUME GuardTypeOK, [GuardNext]_guardVars PROVE GuardTypeOK'
  BY Zenon
<1> USE GuardAssumption
<1> USE DEF GuardTypeOK, Answers, Places, Foreign,
           mount, disk, flags, logs, buffers, Environment, Step, Return
<1>1. CASE UNCHANGED guardVars
  BY <1>1 DEF guardVars
<1>2. CASE WriteStart
  <2>1. data' \in Nat /\ mtime' \in Nat
    BY <1>2 DEF WriteStart
  <2>2. blind' \in BOOLEAN /\ pending' \in BOOLEAN /\ changed' \in BOOLEAN
    BY <1>2, ZenonT(40) DEF WriteStart
  <2> QED
    BY <1>2, <2>1, <2>2, ZenonT(40) DEF WriteStart
<1>3. CASE WriteCopy
  <2>1. data' \in Nat
    BY <1>3 DEF WriteCopy
  <2> QED
    BY <1>3, <2>1, ZenonT(90) DEF WriteCopy
<1>4. CASE Truncate
  <2>1. mtime' \in Nat
    BY <1>4 DEF Truncate
  <2> QED
    BY <1>4, <2>1, ZenonT(40) DEF Truncate
<1>5. CASE SetOldTime
  BY <1>5 DEF SetOldTime
<1>6. CASE Rename
  BY <1>6, ZenonT(40) DEF Rename
<1>7. CASE Reconnect
  BY <1>7 DEF Reconnect
<1>8. ASSUME NEW t \in Threads, Pread(t) PROVE GuardTypeOK'
  BY <1>8 DEF Pread
<1>9. ASSUME NEW t \in Threads, Check(t) PROVE GuardTypeOK'
  BY <1>9 DEF Check
<1>10. ASSUME NEW t \in Threads, LoadStale(t) PROVE GuardTypeOK'
  BY <1>10 DEF LoadStale, Fail
<1>11. ASSUME NEW t \in Threads, Fstat(t) PROVE GuardTypeOK'
  BY <1>11 DEF Fstat, OpenFileUnchanged
<1>12. ASSUME NEW t \in Threads, FstatAt(t) PROVE GuardTypeOK'
  BY <1>12 DEF FstatAt, NameUnchanged
<1>13. ASSUME NEW t \in Threads, Mark(t) PROVE GuardTypeOK'
  BY <1>13 DEF Mark, Fail
<1>p. ASSUME NEW t \in Threads, NEW from, Pass(t, from)
      PROVE  at' \in [Threads -> Places] /\ answer' \in [Threads -> Answers]
  <2> DEFINE r == IF ~reading[t] THEN "current" ELSE IF eof[t] THEN "eof" ELSE "ok"
  <2>1. answer' = [answer EXCEPT ![t] = r] /\ r \in Answers
    BY <1>p, ZenonT(40) DEF Pass
  <2> HIDE DEF r
  <2> QED
    BY <1>p, <2>1, Zenon DEF Pass
<1>14. ASSUME NEW t \in Threads, Clear(t) PROVE GuardTypeOK'
  <2>1. at' \in [Threads -> Places] /\ answer' \in [Threads -> Answers]
    BY <1>14, <1>p, Zenon DEF Clear
  <2> QED
    BY <1>14, <2>1, ZenonT(90) DEF Clear
<1>15. ASSUME NEW t \in Threads, Unsure(t) PROVE GuardTypeOK'
  BY <1>15 DEF Unsure, Fail
<1>16. ASSUME NEW t \in Threads, Reload(t) PROVE GuardTypeOK'
  BY <1>16 DEF Reload
<1>f. ASSUME NEW t \in Threads, NEW from, NEW e \in Answers, Fail(t, from, e)
      PROVE  at' \in [Threads -> Places] /\ answer' \in [Threads -> Answers]
  <2>1. CASE reading[t] /\ Step(t, from, "ready") /\ Return(t, e)
    BY <1>f, <2>1, Zenon
  <2>2. CASE ~reading[t] /\ Step(t, from, "reload") /\ UNCHANGED answer
    BY <2>2, Zenon
  <2> QED BY <1>f, <2>1, <2>2, Zenon DEF Fail
<1>17. ASSUME NEW t \in Threads, LogMark(t) PROVE GuardTypeOK'
  <2>1. errors' \in Nat
    BY <1>17 DEF LogMark
  <2>2. at' \in [Threads -> Places] /\ answer' \in [Threads -> Answers]
    BY <1>17, <1>f, Zenon DEF LogMark
  <2> HIDE DEF Answers, Places, Foreign, Step, Return
  <2> QED
    BY <1>17, <2>1, <2>2, ZenonT(90) DEF LogMark
<1>18. ASSUME NEW t \in Threads, LogClear(t) PROVE GuardTypeOK'
  <2>1. warned' \in Int
    BY <1>18 DEF LogClear
  <2>2. at' \in [Threads -> Places] /\ answer' \in [Threads -> Answers]
    BY <1>18, <1>p, Zenon DEF LogClear
  <2> HIDE DEF Answers, Places, Foreign, Step, Return
  <2> QED
    BY <1>18, <2>1, <2>2, ZenonT(90) DEF LogClear
<1>19. ASSUME NEW t \in Threads, LogUnsure(t) PROVE GuardTypeOK'
  <2>1. warned' \in Int
    BY <1>19 DEF LogUnsure
  <2>2. at' \in [Threads -> Places] /\ answer' \in [Threads -> Answers]
    BY <1>19, <1>f, Zenon DEF LogUnsure
  <2> HIDE DEF Answers, Places, Foreign, Step, Return
  <2> QED
    BY <1>19, <2>1, <2>2, ZenonT(90) DEF LogUnsure
<1> QED
  BY <1>1, <1>2, <1>3, <1>4, <1>5, <1>6, <1>7, <1>8,
     <1>9, <1>10, <1>11, <1>12, <1>13, <1>14, <1>15, <1>16,
     <1>17, <1>18, <1>19, ZenonT(40)
  DEF GuardNext, Advance

(* Every step of the other process leaves its trace in the stamps, or is   *)
(* one of the limits.                                                      *)
LEMMA NextShows == GuardTypeOK /\ Shows /\ [GuardNext]_guardVars => Shows'
<1> SUFFICES ASSUME GuardTypeOK /\ Shows, [GuardNext]_guardVars PROVE Shows'
  BY Zenon
<1> USE GuardAssumption
<1> USE DEF GuardTypeOK, Shows,
           mount, disk, flags, logs, buffers, Environment, Step, Return
<1>1. CASE UNCHANGED guardVars
  BY <1>1, Zenon DEF guardVars
<1>2. CASE WriteStart
  BY <1>2 DEF WriteStart
<1>3. CASE WriteCopy
  BY <1>3, Zenon DEF WriteCopy
<1>4. CASE Truncate
  BY <1>4 DEF Truncate
<1>5. CASE SetOldTime
  BY <1>5, Zenon DEF SetOldTime
<1>6. CASE Rename
  BY <1>6, Zenon DEF Rename
<1>7. CASE Reconnect
  BY <1>7, Zenon DEF Reconnect
<1>8. ASSUME NEW t \in Threads, Pread(t) PROVE Shows'
  BY <1>8, Zenon DEF Pread
<1>9. ASSUME NEW t \in Threads, Check(t) PROVE Shows'
  BY <1>9, Zenon DEF Check
<1>10. ASSUME NEW t \in Threads, LoadStale(t) PROVE Shows'
  BY <1>10, Zenon DEF LoadStale, Fail
<1>11. ASSUME NEW t \in Threads, Fstat(t) PROVE Shows'
  BY <1>11, Zenon DEF Fstat, OpenFileUnchanged
<1>12. ASSUME NEW t \in Threads, FstatAt(t) PROVE Shows'
  BY <1>12, Zenon DEF FstatAt, NameUnchanged
<1>13. ASSUME NEW t \in Threads, Mark(t) PROVE Shows'
  BY <1>13, Zenon DEF Mark, Fail
<1>14. ASSUME NEW t \in Threads, Clear(t) PROVE Shows'
  BY <1>14, Zenon DEF Clear, Pass
<1>15. ASSUME NEW t \in Threads, Unsure(t) PROVE Shows'
  BY <1>15, Zenon DEF Unsure, Fail
<1>16. ASSUME NEW t \in Threads, Reload(t) PROVE Shows'
  BY <1>16, Zenon DEF Reload
<1>17. ASSUME NEW t \in Threads, LogMark(t) PROVE Shows'
  BY <1>17, Zenon DEF LogMark, Fail
<1>18. ASSUME NEW t \in Threads, LogClear(t) PROVE Shows'
  BY <1>18, Zenon DEF LogClear, Pass
<1>19. ASSUME NEW t \in Threads, LogUnsure(t) PROVE Shows'
  BY <1>19, Zenon DEF LogUnsure, Fail
<1> QED
  BY <1>1, <1>2, <1>3, <1>4, <1>5, <1>6, <1>7, <1>8,
     <1>9, <1>10, <1>11, <1>12, <1>13, <1>14, <1>15, <1>16,
     <1>17, <1>18, <1>19, ZenonT(40)
  DEF GuardNext, Advance

(* What a pread saw stays visible in the stamps.                           *)
LEMMA NextTraces == GuardTypeOK /\ Shows /\ Traces /\ [GuardNext]_guardVars => Traces'
<1> SUFFICES ASSUME GuardTypeOK /\ Shows /\ Traces, [GuardNext]_guardVars PROVE Traces'
  BY Zenon
<1> USE GuardAssumption
<1> USE DEF GuardTypeOK, Shows, Traces, Foreign,
           mount, disk, flags, logs, buffers, Environment, Step, Return
<1>1. CASE UNCHANGED guardVars
  BY <1>1, Zenon DEF guardVars
<1>2. CASE WriteStart
  BY <1>2 DEF WriteStart
<1>3. CASE WriteCopy
  BY <1>3, Zenon DEF WriteCopy
<1>4. CASE Truncate
  BY <1>4 DEF Truncate
<1>5. CASE SetOldTime
  BY <1>5, Zenon DEF SetOldTime
<1>6. CASE Rename
  BY <1>6, Zenon DEF Rename
<1>7. CASE Reconnect
  BY <1>7, Zenon DEF Reconnect
<1>8. ASSUME NEW t \in Threads, Pread(t) PROVE Traces'
  BY <1>8 DEF Pread
<1>9. ASSUME NEW t \in Threads, Check(t) PROVE Traces'
  BY <1>9, Zenon DEF Check
<1>10. ASSUME NEW t \in Threads, LoadStale(t) PROVE Traces'
  BY <1>10, Zenon DEF LoadStale, Fail
<1>11. ASSUME NEW t \in Threads, Fstat(t) PROVE Traces'
  BY <1>11, Zenon DEF Fstat, OpenFileUnchanged
<1>12. ASSUME NEW t \in Threads, FstatAt(t) PROVE Traces'
  BY <1>12, Zenon DEF FstatAt, NameUnchanged
<1>13. ASSUME NEW t \in Threads, Mark(t) PROVE Traces'
  BY <1>13, Zenon DEF Mark, Fail
<1>14. ASSUME NEW t \in Threads, Clear(t) PROVE Traces'
  BY <1>14, Zenon DEF Clear, Pass
<1>15. ASSUME NEW t \in Threads, Unsure(t) PROVE Traces'
  BY <1>15, Zenon DEF Unsure, Fail
<1>16. ASSUME NEW t \in Threads, Reload(t) PROVE Traces'
  BY <1>16, Zenon DEF Reload
<1>17. ASSUME NEW t \in Threads, LogMark(t) PROVE Traces'
  BY <1>17, Zenon DEF LogMark, Fail
<1>18. ASSUME NEW t \in Threads, LogClear(t) PROVE Traces'
  BY <1>18, Zenon DEF LogClear, Pass
<1>19. ASSUME NEW t \in Threads, LogUnsure(t) PROVE Traces'
  BY <1>19, Zenon DEF LogUnsure, Fail
<1> QED
  BY <1>1, <1>2, <1>3, <1>4, <1>5, <1>6, <1>7, <1>8,
     <1>9, <1>10, <1>11, <1>12, <1>13, <1>14, <1>15, <1>16,
     <1>17, <1>18, <1>19, ZenonT(40)
  DEF GuardNext, Advance

(* Only a thread with mounted bytes passes both comparisons.               *)
LEMMA NextCleared ==
  GuardTypeOK /\ Shows /\ Traces /\ Cleared /\ [GuardNext]_guardVars => Cleared'
<1> SUFFICES ASSUME GuardTypeOK /\ Shows /\ Traces /\ Cleared, [GuardNext]_guardVars
             PROVE  Cleared'
  BY Zenon
<1> USE GuardAssumption
<1> USE DEF GuardTypeOK, Shows, Traces, Foreign, Cleared,
           mount, disk, flags, logs, buffers, Environment, Step, Return
<1>1. CASE UNCHANGED guardVars
  BY <1>1, Zenon DEF guardVars
<1>2. CASE WriteStart
  BY <1>2 DEF WriteStart
<1>3. CASE WriteCopy
  BY <1>3, Zenon DEF WriteCopy
<1>4. CASE Truncate
  BY <1>4, Zenon DEF Truncate
<1>5. CASE SetOldTime
  BY <1>5, Zenon DEF SetOldTime
<1>6. CASE Rename
  BY <1>6, Zenon DEF Rename
<1>7. CASE Reconnect
  BY <1>7, Zenon DEF Reconnect
<1>8. ASSUME NEW t \in Threads, Pread(t) PROVE Cleared'
  BY <1>8, Zenon DEF Pread
<1>9. ASSUME NEW t \in Threads, Check(t) PROVE Cleared'
  BY <1>9, Zenon DEF Check
<1>10. ASSUME NEW t \in Threads, LoadStale(t) PROVE Cleared'
  BY <1>10 DEF LoadStale, Fail
<1>11. ASSUME NEW t \in Threads, Fstat(t) PROVE Cleared'
  BY <1>11 DEF Fstat, OpenFileUnchanged
<1>12. ASSUME NEW t \in Threads, FstatAt(t) PROVE Cleared'
  BY <1>12 DEF FstatAt, NameUnchanged
<1>13. ASSUME NEW t \in Threads, Mark(t) PROVE Cleared'
  BY <1>13 DEF Mark, Fail
<1>14. ASSUME NEW t \in Threads, Clear(t) PROVE Cleared'
  BY <1>14, Zenon DEF Clear, Pass
<1>15. ASSUME NEW t \in Threads, Unsure(t) PROVE Cleared'
  BY <1>15 DEF Unsure, Fail
<1>16. ASSUME NEW t \in Threads, Reload(t) PROVE Cleared'
  BY <1>16, Zenon DEF Reload
<1>17. ASSUME NEW t \in Threads, LogMark(t) PROVE Cleared'
  BY <1>17, Zenon DEF LogMark, Fail
<1>18. ASSUME NEW t \in Threads, LogClear(t) PROVE Cleared'
  BY <1>18, Zenon DEF LogClear, Pass
<1>19. ASSUME NEW t \in Threads, LogUnsure(t) PROVE Cleared'
  BY <1>19, Zenon DEF LogUnsure, Fail
<1> QED
  BY <1>1, <1>2, <1>3, <1>4, <1>5, <1>6, <1>7, <1>8,
     <1>9, <1>10, <1>11, <1>12, <1>13, <1>14, <1>15, <1>16,
     <1>17, <1>18, <1>19, ZenonT(40)
  DEF GuardNext, Advance

(* The flag stays set, and a late call meets it.                           *)
LEMMA NextBarred == GuardTypeOK /\ Barred /\ [GuardNext]_guardVars => Barred'
<1> SUFFICES ASSUME GuardTypeOK /\ Barred, [GuardNext]_guardVars PROVE Barred'
  BY Zenon
<1> USE DEF GuardTypeOK, Places, Answers, Barred,
           mount, disk, flags, logs, buffers, Environment, Step, Return
<1>1. CASE UNCHANGED guardVars
  BY <1>1, Zenon DEF guardVars
<1>2. CASE WriteStart
  BY <1>2, Zenon DEF WriteStart
<1>3. CASE WriteCopy
  BY <1>3, Zenon DEF WriteCopy
<1>4. CASE Truncate
  BY <1>4, Zenon DEF Truncate
<1>5. CASE SetOldTime
  BY <1>5, Zenon DEF SetOldTime
<1>6. CASE Rename
  BY <1>6, Zenon DEF Rename
<1>7. CASE Reconnect
  BY <1>7, Zenon DEF Reconnect
<1>8. ASSUME NEW t \in Threads, Pread(t) PROVE Barred'
  BY <1>8, Zenon DEF Pread
<1>9. ASSUME NEW t \in Threads, Check(t) PROVE Barred'
  BY <1>9, Zenon DEF Check
<1>10. ASSUME NEW t \in Threads, LoadStale(t) PROVE Barred'
  BY <1>10 DEF LoadStale, Fail
<1>11. ASSUME NEW t \in Threads, Fstat(t) PROVE Barred'
  BY <1>11, Zenon DEF Fstat, OpenFileUnchanged
<1>12. ASSUME NEW t \in Threads, FstatAt(t) PROVE Barred'
  BY <1>12, Zenon DEF FstatAt, NameUnchanged
<1>13. ASSUME NEW t \in Threads, Mark(t) PROVE Barred'
  BY <1>13 DEF Mark, Fail
<1>14. ASSUME NEW t \in Threads, Clear(t) PROVE Barred'
  BY <1>14, Zenon DEF Clear, Pass
<1>15. ASSUME NEW t \in Threads, Unsure(t) PROVE Barred'
  BY <1>15 DEF Unsure, Fail
<1>16. ASSUME NEW t \in Threads, Reload(t) PROVE Barred'
  BY <1>16, Zenon DEF Reload
<1>17. ASSUME NEW t \in Threads, LogMark(t) PROVE Barred'
  BY <1>17, Zenon DEF LogMark, Fail
<1>18. ASSUME NEW t \in Threads, LogClear(t) PROVE Barred'
  BY <1>18, Zenon DEF LogClear, Pass
<1>19. ASSUME NEW t \in Threads, LogUnsure(t) PROVE Barred'
  BY <1>19, Zenon DEF LogUnsure, Fail
<1> QED
  BY <1>1, <1>2, <1>3, <1>4, <1>5, <1>6, <1>7, <1>8,
     <1>9, <1>10, <1>11, <1>12, <1>13, <1>14, <1>15, <1>16,
     <1>17, <1>18, <1>19, ZenonT(40)
  DEF GuardNext, Advance

(* Only a real difference sends a thread to mark.                          *)
LEMMA NextFounded == GuardTypeOK /\ Shows /\ Founded /\ [GuardNext]_guardVars => Founded'
<1> SUFFICES ASSUME GuardTypeOK /\ Shows /\ Founded, [GuardNext]_guardVars PROVE Founded'
  BY Zenon
<1> USE DEF GuardTypeOK, Places, Answers, Shows, Founded,
           mount, disk, flags, logs, buffers, Environment, Step, Return
<1>1. CASE UNCHANGED guardVars
  BY <1>1, Zenon DEF guardVars
<1>2. CASE WriteStart
  BY <1>2, Zenon DEF WriteStart
<1>3. CASE WriteCopy
  BY <1>3, Zenon DEF WriteCopy
<1>4. CASE Truncate
  BY <1>4, Zenon DEF Truncate
<1>5. CASE SetOldTime
  BY <1>5, Zenon DEF SetOldTime
<1>6. CASE Rename
  BY <1>6, Zenon DEF Rename
<1>7. CASE Reconnect
  BY <1>7, Zenon DEF Reconnect
<1>8. ASSUME NEW t \in Threads, Pread(t) PROVE Founded'
  BY <1>8, Zenon DEF Pread
<1>9. ASSUME NEW t \in Threads, Check(t) PROVE Founded'
  BY <1>9, Zenon DEF Check
<1>10. ASSUME NEW t \in Threads, LoadStale(t) PROVE Founded'
  BY <1>10, Zenon DEF LoadStale, Fail
<1>11. ASSUME NEW t \in Threads, Fstat(t) PROVE Founded'
  BY <1>11 DEF Fstat, OpenFileUnchanged
<1>12. ASSUME NEW t \in Threads, FstatAt(t) PROVE Founded'
  BY <1>12, Zenon DEF FstatAt, NameUnchanged
<1>13. ASSUME NEW t \in Threads, Mark(t) PROVE Founded'
  <2>1. changed /\ changed' /\ named' = named
    BY <1>13, Zenon DEF Mark, Fail
  <2>2. \A u \in Threads : at'[u] = "fstatat" => at[u] = "fstatat"
    BY <1>13 DEF Mark, Fail
  <2> QED BY <2>1, <2>2, Zenon
<1>14. ASSUME NEW t \in Threads, Clear(t) PROVE Founded'
  <2>1. UNCHANGED <<stale, changed, named>>
    BY <1>14, Zenon DEF Clear
  <2>2. \A u \in Threads : at'[u] # at[u] => at'[u] \in {"ready", "logclear"}
    BY <1>14, Zenon DEF Clear, Pass
  <2>3. \A u \in Threads : answer'[u] = answer[u] \/ answer'[u] # "stale"
    BY <1>14, Zenon DEF Clear, Pass
  <2> QED BY <2>1, <2>2, <2>3, Zenon
<1>15. ASSUME NEW t \in Threads, Unsure(t) PROVE Founded'
  BY <1>15 DEF Unsure, Fail
<1>16. ASSUME NEW t \in Threads, Reload(t) PROVE Founded'
  BY <1>16, Zenon DEF Reload
<1>17. ASSUME NEW t \in Threads, LogMark(t) PROVE Founded'
  BY <1>17, Zenon DEF LogMark, Fail
<1>18. ASSUME NEW t \in Threads, LogClear(t) PROVE Founded'
  BY <1>18, Zenon DEF LogClear, Pass
<1>19. ASSUME NEW t \in Threads, LogUnsure(t) PROVE Founded'
  BY <1>19, Zenon DEF LogUnsure, Fail
<1> QED
  BY <1>1, <1>2, <1>3, <1>4, <1>5, <1>6, <1>7, <1>8,
     <1>9, <1>10, <1>11, <1>12, <1>13, <1>14, <1>15, <1>16,
     <1>17, <1>18, <1>19, ZenonT(40)
  DEF GuardNext, Advance

(* A thread that goes from one place to another leaves the first and joins *)
(* the second.                                                             *)
LEMMA StepMoves ==
  ASSUME GuardTypeOK, NEW t \in Threads, NEW from, NEW to, Step(t, from, to), from # to
  PROVE  /\ t \in Owing(from) /\ Owing(from)' = Owing(from) \ {t}
         /\ t \notin Owing(to) /\ Owing(to)' = Owing(to) \cup {t}
         /\ \A p : p # from /\ p # to => Owing(p)' = Owing(p)
<1>1. at \in [Threads -> Places] /\ at[t] = from /\ at' = [at EXCEPT ![t] = to]
  BY Zenon DEF GuardTypeOK, Step
<1>2. at'[t] = to /\ \A u \in Threads : u # t => at'[u] = at[u]
  BY <1>1, Zenon
<1> QED
  BY <1>1, <1>2, Zenon DEF Owing

(* The number of threads at a place changes by one.                        *)
LEMMA CountJoined ==
  ASSUME NEW S, IsFiniteSet(S), NEW t, t \notin S
  PROVE  /\ IsFiniteSet(S \cup {t}) /\ Cardinality(S) \in Nat
         /\ Cardinality(S \cup {t}) = Cardinality(S) + 1
  BY FS_AddElement, FS_CardinalityType, Zenon

LEMMA CountLeft ==
  ASSUME NEW S, IsFiniteSet(S), NEW t, t \in S
  PROVE  IsFiniteSet(S \ {t}) /\ Cardinality(S \ {t}) = Cardinality(S) - 1
  BY FS_RemoveElement, Zenon

(* A swap tells exactly one thread that it changed the flag, and that one  *)
(* owes the log a message.                                                 *)
LEMMA NextBooks == GuardTypeOK /\ Books /\ [GuardNext]_guardVars => Books'
<1> SUFFICES ASSUME GuardTypeOK, Books, [GuardNext]_guardVars PROVE Books'
  BY Zenon
<1>k. ASSUME UNCHANGED <<flags, logs>>, \A p \in Duties : Owing(p)' = Owing(p)
      PROVE  Books'
  BY <1>k, Zenon DEF Books, Duties, flags, logs
<1>e. ASSUME UNCHANGED <<flags, logs, at>> PROVE Books'
  BY <1>e, <1>k, Zenon DEF Owing
<1>s. ASSUME NEW t \in Threads, NEW from, from \notin Duties, NEW to, to \notin Duties,
             Step(t, from, to)
      PROVE  \A p \in Duties : Owing(p)' = Owing(p)
  <2>1. CASE from = to
    BY <1>s, <2>1, Zenon DEF Step, Owing, GuardTypeOK
  <2>2. CASE from # to
    BY <1>s, <2>2, StepMoves, Zenon
  <2> QED BY <2>1, <2>2, Zenon
<1>f. ASSUME NEW t \in Threads, NEW from, from \notin Duties, NEW e, Fail(t, from, e)
      PROVE  \A p \in Duties : Owing(p)' = Owing(p)
  BY <1>f, <1>s, Zenon DEF Fail, Duties
<1>t. /\ IsFiniteSet(Owing("logmark")) /\ IsFiniteSet(Owing("logclear"))
      /\ IsFiniteSet(Owing("logunsure"))
  BY Zenon DEF Books, Duties
<1>n. /\ Cardinality(Owing("logmark")) \in Nat /\ Cardinality(Owing("logclear")) \in Nat
      /\ Cardinality(Owing("logunsure")) \in Nat
      /\ errors \in Nat /\ warned \in Int /\ unsure \in BOOLEAN
  BY <1>t, FS_CardinalityType, Zenon DEF GuardTypeOK
<1>b. /\ errors + Cardinality(Owing("logmark")) = (IF stale THEN 1 ELSE 0)
      /\ (warned + Cardinality(Owing("logunsure"))) - Cardinality(Owing("logclear"))
           = (IF unsure THEN 1 ELSE 0)
  BY Zenon DEF Books
<1>q. ASSUME IsFiniteSet(Owing("logmark")'), IsFiniteSet(Owing("logclear")'),
             IsFiniteSet(Owing("logunsure")'),
             errors' + Cardinality(Owing("logmark")') = (IF stale' THEN 1 ELSE 0),
             (warned' + Cardinality(Owing("logunsure")')) - Cardinality(Owing("logclear")')
               = (IF unsure' THEN 1 ELSE 0)
      PROVE  Books'
  BY <1>q, Zenon DEF Books, Duties
<1>1. CASE UNCHANGED guardVars
  BY <1>1, <1>e, Zenon DEF guardVars
<1>2. CASE WriteStart \/ WriteCopy \/ Truncate \/ SetOldTime \/ Rename \/ Reconnect
  BY <1>2, <1>e, Zenon
  DEF WriteStart, WriteCopy, Truncate, SetOldTime, Rename, Reconnect, Environment
<1>3. ASSUME NEW t \in Threads, Pread(t) \/ Check(t) \/ Reload(t) PROVE Books'
  BY <1>3, <1>k, <1>s, Zenon DEF Pread, Check, Reload, Duties
<1>4. ASSUME NEW t \in Threads, LoadStale(t) PROVE Books'
  BY <1>4, <1>k, <1>s, <1>f, Zenon DEF LoadStale, Duties
<1>5. ASSUME NEW t \in Threads, Fstat(t) \/ FstatAt(t) PROVE Books'
  BY <1>5, <1>k, <1>s, Zenon DEF Fstat, FstatAt, Duties
<1>6. ASSUME NEW t \in Threads, Mark(t) PROVE Books'
  <2>1. CASE stale
    <3>1. (\E e : Fail(t, "mark", e)) /\ UNCHANGED <<flags, logs>>
      BY <1>6, <2>1, Zenon DEF Mark, flags
    <3> QED BY <1>k, <1>f, <3>1, Zenon DEF Duties
  <2>2. CASE ~stale
    <3>1. Step(t, "mark", "logmark") /\ stale' = TRUE /\ UNCHANGED <<unsure, logs>>
      BY <1>6, <2>2, Zenon DEF Mark
    <3>m. /\ t \notin Owing("logmark") /\ Owing("logmark")' = Owing("logmark") \cup {t}
          /\ \A p : p # "mark" /\ p # "logmark" => Owing(p)' = Owing(p)
      BY <3>1, StepMoves
    <3>2. /\ t \notin Owing("logmark")
          /\ Owing("logmark")' = Owing("logmark") \cup {t}
          /\ Owing("logunsure")' = Owing("logunsure")
          /\ Owing("logclear")' = Owing("logclear")
      BY <3>m, Zenon
    <3>3. /\ IsFiniteSet(Owing("logmark")')
          /\ Cardinality(Owing("logmark")') = Cardinality(Owing("logmark")) + 1
      BY <3>2, <1>t, CountJoined, Zenon
    <3>4. /\ IsFiniteSet(Owing("logmark")') /\ IsFiniteSet(Owing("logclear")')
          /\ IsFiniteSet(Owing("logunsure")')
      BY <1>t, <3>1, <3>2, <3>3, Zenon
    <3>5. /\ errors' + Cardinality(Owing("logmark")') = (IF stale' THEN 1 ELSE 0)
          /\ (warned' + Cardinality(Owing("logunsure")')) - Cardinality(Owing("logclear")')
               = (IF unsure' THEN 1 ELSE 0)
      BY <1>b, <1>n, <2>2, <3>1, <3>2, <3>3, SMT DEF logs
    <3> QED BY <1>q, <3>4, <3>5, Zenon
  <2> QED BY <2>1, <2>2, Zenon
<1>7. ASSUME NEW t \in Threads, LogMark(t) PROVE Books'
  <2>1. PICK to \in {"ready", "reload"} : Step(t, "logmark", to)
    BY <1>7, Zenon DEF LogMark, Fail
  <2>2. errors' = errors + 1 /\ UNCHANGED <<flags, warned>>
    BY <1>7, Zenon DEF LogMark
  <2>m. /\ t \in Owing("logmark") /\ Owing("logmark")' = Owing("logmark") \ {t}
        /\ \A p : p # "logmark" /\ p # to => Owing(p)' = Owing(p)
    <3>1. "logmark" # to
      BY <2>1
    <3> QED BY <2>1, <3>1, StepMoves
  <2>3. /\ t \in Owing("logmark")
        /\ Owing("logmark")' = Owing("logmark") \ {t}
        /\ Owing("logunsure")' = Owing("logunsure")
        /\ Owing("logclear")' = Owing("logclear")
    BY <2>1, <2>m
  <2>4. /\ IsFiniteSet(Owing("logmark")')
        /\ Cardinality(Owing("logmark")') = Cardinality(Owing("logmark")) - 1
    BY <2>3, <1>t, CountLeft, Zenon
  <2>5. /\ IsFiniteSet(Owing("logmark")') /\ IsFiniteSet(Owing("logclear")')
        /\ IsFiniteSet(Owing("logunsure")')
    BY <1>t, <2>2, <2>3, <2>4, Zenon
  <2>6. /\ errors' + Cardinality(Owing("logmark")') = (IF stale' THEN 1 ELSE 0)
        /\ (warned' + Cardinality(Owing("logunsure")')) - Cardinality(Owing("logclear")')
             = (IF unsure' THEN 1 ELSE 0)
    BY <1>b, <1>n, <2>2, <2>3, <2>4, SMT DEF flags
  <2> QED BY <1>q, <2>5, <2>6, Zenon
<1>8. ASSUME NEW t \in Threads, Clear(t) PROVE Books'
  <2>1. CASE ~unsure
    <3>1. Step(t, "clear", "ready") /\ UNCHANGED <<flags, logs>>
      BY <1>8, <1>n, <2>1, Zenon DEF Clear, Pass, flags
    <3> QED BY <1>k, <1>s, <3>1, Zenon DEF Duties
  <2>2. CASE unsure
    <3>1. Step(t, "clear", "logclear") /\ unsure' = FALSE /\ UNCHANGED <<stale, logs>>
      BY <1>8, <2>2, Zenon DEF Clear
    <3>m. /\ t \notin Owing("logclear") /\ Owing("logclear")' = Owing("logclear") \cup {t}
          /\ \A p : p # "clear" /\ p # "logclear" => Owing(p)' = Owing(p)
      BY <3>1, StepMoves
    <3>2. /\ t \notin Owing("logclear")
          /\ Owing("logclear")' = Owing("logclear") \cup {t}
          /\ Owing("logmark")' = Owing("logmark")
          /\ Owing("logunsure")' = Owing("logunsure")
      BY <3>m, Zenon
    <3>3. /\ IsFiniteSet(Owing("logclear")')
          /\ Cardinality(Owing("logclear")') = Cardinality(Owing("logclear")) + 1
      BY <3>2, <1>t, CountJoined, Zenon
    <3>4. /\ IsFiniteSet(Owing("logmark")') /\ IsFiniteSet(Owing("logclear")')
          /\ IsFiniteSet(Owing("logunsure")')
      BY <1>t, <3>1, <3>2, <3>3, Zenon
    <3>5. /\ errors' + Cardinality(Owing("logmark")') = (IF stale' THEN 1 ELSE 0)
          /\ (warned' + Cardinality(Owing("logunsure")')) - Cardinality(Owing("logclear")')
               = (IF unsure' THEN 1 ELSE 0)
      BY <1>b, <1>n, <2>2, <3>1, <3>2, <3>3, SMT DEF logs
    <3> QED BY <1>q, <3>4, <3>5, Zenon
  <2> QED BY <2>1, <2>2, Zenon
<1>9. ASSUME NEW t \in Threads, LogClear(t) PROVE Books'
  <2>1. PICK to \in {"ready", "reload"} : Step(t, "logclear", to)
    BY <1>9, Zenon DEF LogClear, Pass
  <2>2. warned' = warned - 1 /\ UNCHANGED <<flags, errors>>
    BY <1>9, Zenon DEF LogClear
  <2>m. /\ t \in Owing("logclear") /\ Owing("logclear")' = Owing("logclear") \ {t}
        /\ \A p : p # "logclear" /\ p # to => Owing(p)' = Owing(p)
    <3>1. "logclear" # to
      BY <2>1
    <3> QED BY <2>1, <3>1, StepMoves
  <2>3. /\ t \in Owing("logclear")
        /\ Owing("logclear")' = Owing("logclear") \ {t}
        /\ Owing("logmark")' = Owing("logmark")
        /\ Owing("logunsure")' = Owing("logunsure")
    BY <2>1, <2>m
  <2>4. /\ IsFiniteSet(Owing("logclear")')
        /\ Cardinality(Owing("logclear")') = Cardinality(Owing("logclear")) - 1
    BY <2>3, <1>t, CountLeft, Zenon
  <2>5. /\ IsFiniteSet(Owing("logmark")') /\ IsFiniteSet(Owing("logclear")')
        /\ IsFiniteSet(Owing("logunsure")')
    BY <1>t, <2>2, <2>3, <2>4, Zenon
  <2>6. /\ errors' + Cardinality(Owing("logmark")') = (IF stale' THEN 1 ELSE 0)
        /\ (warned' + Cardinality(Owing("logunsure")')) - Cardinality(Owing("logclear")')
             = (IF unsure' THEN 1 ELSE 0)
    BY <1>b, <1>n, <2>2, <2>3, <2>4, SMT DEF flags
  <2> QED BY <1>q, <2>5, <2>6, Zenon
<1>10. ASSUME NEW t \in Threads, Unsure(t) PROVE Books'
  <2>1. CASE unsure
    <3>1. (\E e : Fail(t, "unsure", e)) /\ UNCHANGED <<flags, logs>>
      BY <1>10, <2>1, Zenon DEF Unsure, flags
    <3> QED BY <1>k, <1>f, <3>1, Zenon DEF Duties
  <2>2. CASE ~unsure
    <3>1. Step(t, "unsure", "logunsure") /\ unsure' = TRUE /\ UNCHANGED <<stale, logs>>
      BY <1>10, <2>2, Zenon DEF Unsure
    <3>m. /\ t \notin Owing("logunsure") /\ Owing("logunsure")' = Owing("logunsure") \cup {t}
          /\ \A p : p # "unsure" /\ p # "logunsure" => Owing(p)' = Owing(p)
      BY <3>1, StepMoves
    <3>2. /\ t \notin Owing("logunsure")
          /\ Owing("logunsure")' = Owing("logunsure") \cup {t}
          /\ Owing("logmark")' = Owing("logmark")
          /\ Owing("logclear")' = Owing("logclear")
      BY <3>m, Zenon
    <3>3. /\ IsFiniteSet(Owing("logunsure")')
          /\ Cardinality(Owing("logunsure")') = Cardinality(Owing("logunsure")) + 1
      BY <3>2, <1>t, CountJoined, Zenon
    <3>4. /\ IsFiniteSet(Owing("logmark")') /\ IsFiniteSet(Owing("logclear")')
          /\ IsFiniteSet(Owing("logunsure")')
      BY <1>t, <3>1, <3>2, <3>3, Zenon
    <3>5. /\ errors' + Cardinality(Owing("logmark")') = (IF stale' THEN 1 ELSE 0)
          /\ (warned' + Cardinality(Owing("logunsure")')) - Cardinality(Owing("logclear")')
               = (IF unsure' THEN 1 ELSE 0)
      <4>1. (warned + Cardinality(Owing("logunsure"))) - Cardinality(Owing("logclear")) = 0
        BY <1>b, <2>2, Zenon
      <4>2. warned' = warned /\ errors' = errors
        BY <3>1, Zenon DEF logs
      <4>3. (warned' + Cardinality(Owing("logunsure")')) - Cardinality(Owing("logclear")') = 1
        BY <1>n, <3>2, <3>3, <4>1, <4>2, SMT
      <4> QED BY <1>b, <3>1, <3>2, <4>2, <4>3, Zenon
    <3> QED BY <1>q, <3>4, <3>5, Zenon
  <2> QED BY <2>1, <2>2, Zenon
<1>11. ASSUME NEW t \in Threads, LogUnsure(t) PROVE Books'
  <2>1. PICK to \in {"ready", "reload"} : Step(t, "logunsure", to)
    BY <1>11, Zenon DEF LogUnsure, Fail
  <2>2. warned' = warned + 1 /\ UNCHANGED <<flags, errors>>
    BY <1>11, Zenon DEF LogUnsure
  <2>m. /\ t \in Owing("logunsure") /\ Owing("logunsure")' = Owing("logunsure") \ {t}
        /\ \A p : p # "logunsure" /\ p # to => Owing(p)' = Owing(p)
    <3>1. "logunsure" # to
      BY <2>1
    <3> QED BY <2>1, <3>1, StepMoves
  <2>3. /\ t \in Owing("logunsure")
        /\ Owing("logunsure")' = Owing("logunsure") \ {t}
        /\ Owing("logmark")' = Owing("logmark")
        /\ Owing("logclear")' = Owing("logclear")
    BY <2>1, <2>m
  <2>4. /\ IsFiniteSet(Owing("logunsure")')
        /\ Cardinality(Owing("logunsure")') = Cardinality(Owing("logunsure")) - 1
    BY <2>3, <1>t, CountLeft, Zenon
  <2>5. /\ IsFiniteSet(Owing("logmark")') /\ IsFiniteSet(Owing("logclear")')
        /\ IsFiniteSet(Owing("logunsure")')
    BY <1>t, <2>2, <2>3, <2>4, Zenon
  <2>6. /\ errors' + Cardinality(Owing("logmark")') = (IF stale' THEN 1 ELSE 0)
        /\ (warned' + Cardinality(Owing("logunsure")')) - Cardinality(Owing("logclear")')
             = (IF unsure' THEN 1 ELSE 0)
    BY <1>b, <1>n, <2>2, <2>3, <2>4, SMT DEF flags
  <2> QED BY <1>q, <2>5, <2>6, Zenon
<1> QED
  BY <1>1, <1>2, <1>3, <1>4, <1>5, <1>6, <1>7, <1>8, <1>9, <1>10, <1>11, ZenonT(40)
  DEF GuardNext, Advance

(* The mounted archive has every variable of its type.                     *)
LEMMA InitTypes == GuardInit => GuardTypeOK
<1> SUFFICES ASSUME GuardInit PROVE GuardTypeOK
  BY Zenon
<1> USE DEF GuardInit
<1>1. /\ at \in [Threads -> Places] /\ answer \in [Threads -> Answers]
      /\ seen \in [Threads -> Nat \cup {Foreign}]
  BY Zenon DEF Places, Answers
<1>2. /\ eof \in [Threads -> BOOLEAN] /\ late \in [Threads -> BOOLEAN]
      /\ reading \in [Threads -> BOOLEAN]
  BY Zenon
<1>3. follows \in BOOLEAN /\ named \in BOOLEAN
  BY Zenon
<1>4. data \in Nat /\ mtime \in Nat /\ errors \in Nat /\ warned \in Int
  OBVIOUS
<1> QED
  BY <1>1, <1>2, <1>3, <1>4, ZenonT(40) DEF GuardTypeOK

(* Init gives each conjunct of the argument.                               *)
LEMMA InitArgument ==
  GuardInit => Shows /\ Traces /\ Cleared /\ Barred /\ Founded /\ Books
<1> SUFFICES ASSUME GuardInit
             PROVE Shows /\ Traces /\ Cleared /\ Barred /\ Founded /\ Books
  BY Zenon
<1> USE DEF GuardInit
<1>1. Shows
  BY ZenonT(40) DEF Shows
<1>2. Traces /\ Barred
  BY DEF Traces, Barred, Foreign
<1>3. Cleared /\ Founded
  BY Zenon DEF Cleared, Founded
<1>4. Books
  <2>1. \A p \in Duties : Owing(p) = {}
    BY Zenon DEF Owing, Duties
  <2>2. IsFiniteSet({}) /\ Cardinality({}) = 0
    BY FS_EmptySet, Zenon
  <2>3. errors = 0 /\ warned = 0 /\ ~stale /\ ~unsure
    BY Zenon
  <2> HIDE DEF GuardInit
  <2> QED BY <2>1, <2>2, <2>3 DEF Books, Duties
<1> QED
  BY <1>1, <1>2, <1>3, <1>4, Zenon

(* guard.rs, all operations: every variable keeps its type.                *)
THEOREM TypeCorrect == GuardSpec => []GuardTypeOK
  BY InitTypes, InitArgument, NextTypes, PTL DEF GuardSpec

(* guard.rs 357-368, read_at and read_exact_at: bytes that are returned    *)
(* are those of the mounted version, for any number of readers and writes, *)
(* unless a limit the header names was met.                                *)
THEOREM MountedBytes == GuardSpec => []OnlyMountedBytes
<1>1. Cleared => OnlyMountedBytes
  BY Zenon DEF Cleared, OnlyMountedBytes
<1> QED
  BY InitTypes, <1>1, InitArgument, NextTypes, NextShows, NextTraces,
     NextCleared, PTL
  DEF GuardSpec

(* guard.rs 354-356: the failure of a pread on a file that became shorter  *)
(* is never what the caller sees.                                          *)
THEOREM ShortFileReported == GuardSpec => []ShortFileIsChange
<1>1. Cleared /\ GuardTypeOK => ShortFileIsChange
  BY Zenon DEF Cleared, ShortFileIsChange, GuardTypeOK
<1> QED
  BY InitTypes, <1>1, InitArgument, NextTypes, NextShows, NextTraces,
     NextCleared, PTL
  DEF GuardSpec

(* guard.rs 291-293, 320: no call that begins after a change was found     *)
(* succeeds.                                                               *)
THEOREM StaleForGood == GuardSpec => []StaleIsPermanent
<1>1. Barred => StaleIsPermanent
  BY Zenon DEF Barred, StaleIsPermanent
<1> QED
  BY InitTypes, <1>1, InitArgument, NextTypes, NextBarred, PTL DEF GuardSpec

(* guard.rs 331-350, compare_stamps: a reported change is a real one.      *)
THEOREM AlarmsFounded == GuardSpec => []NoFalseAlarm
<1>1. Founded => NoFalseAlarm
  BY Zenon DEF Founded, NoFalseAlarm
<1> QED
  BY InitTypes, <1>1, InitArgument, NextTypes, NextShows,
     NextFounded, PTL DEF GuardSpec

(* guard.rs 297-329: when every message that is owed has been written,     *)
(* the log has one for each time that a flag was changed, for any number   *)
(* of threads and whatever the order of the messages.                      *)
THEOREM MessagesBalance == GuardSpec => []MessagesAddUp
<1>1. GuardTypeOK /\ Books => MessagesAddUp
  <2> SUFFICES ASSUME GuardTypeOK, Books, \A t \in Threads : at[t] \notin Duties
               PROVE  /\ errors = (IF stale THEN 1 ELSE 0)
                      /\ warned = (IF unsure THEN 1 ELSE 0)
    BY Zenon DEF MessagesAddUp, Duties
  <2>1. \A p \in Duties : Owing(p) = {}
    BY Zenon DEF Owing
  <2>2. Cardinality({}) = 0 /\ errors \in Nat /\ warned \in Int
    BY FS_EmptySet, Zenon DEF GuardTypeOK
  <2> QED BY <2>1, <2>2 DEF Books, Duties
<1> QED
  BY <1>1, InitTypes, InitArgument, NextTypes, NextBooks, PTL DEF GuardSpec

-----------------------------------------------------------------------------
(* Decoder.                                                                *)

(* source.rs 69-92: the source hands out the bytes of the range one after  *)
(* the other, and the codec has had those before its position.             *)
Fed ==
  /\ ~garbled
  /\ src.pos <= src.filled /\ src.consumed + src.filled <= entry.clen
  /\ src.filled > 0 => src.at = src.consumed
  /\ cin = src.consumed + src.pos

(* decode.rs 274-311: the position and the checksum go with the output of  *)
(* the codec, and the end is found behind the last byte.                   *)
Counted ==
  /\ pos = cout /\ cout <= entry.slen
  /\ withCrc => crc = pos
  /\ broken => entry.bad <= entry.cend
  /\ finished => cout = entry.slen

(* decode.rs 155-174: out is filled from its first byte, which is the one  *)
(* at offset, and is only left early where the stream ends.                *)
Progress ==
  pc # "idle" =>
    /\ offset + want <= entry.total /\ written <= want /\ result = "none"
    /\ written > 0 => first = offset
    /\ pos = offset + written \/ (pc = "fill" /\ written = 0 /\ pos < offset)
    /\ pc # "fill" => written = want \/ finished

(* decode.rs 183-226: a decoder is verified at the end of its entry, once, *)
(* and never while it is between two ends.                                 *)
AtEnd ==
  /\ verified => pos >= entry.total
  /\ pc \in {"fill", "end"} \/ (pc = "idle" /\ result = "none") => ~verified
  /\ pc = "extra" => pos = entry.total /\ withCrc /\ verified /\ sum = pos
  /\ pc # "extra" /\ withCrc /\ verified => verdict # "unknown"

(* What a verdict says of the entry.                                       *)
Judged ==
  /\ verdict = "ok" => Correct
  /\ NoFalseBad

(* What a read that succeeded says of the bytes and of the entry.          *)
Returned ==
  result = "ok" =>
    /\ pc = "idle"
    /\ written > 0 => first = offset /\ cout = offset + written
    /\ Sound => written = want
    /\ withCrc /\ offset + written = entry.total => Correct

DecoderInv ==
  TypeOK /\ Fed /\ Counted /\ Progress /\ AtEnd /\ Judged /\ Returned

-----------------------------------------------------------------------------
(* The constants as the proofs use them.                                   *)
LEMMA EntryFields ==
  ASSUME NEW e \in Entries
  PROVE  /\ e.clen \in Nat /\ e.inFile \in Nat /\ e.cend \in Nat /\ e.bad \in Nat
         /\ e.slen \in Nat /\ e.total \in Nat /\ e.sumOk \in BOOLEAN
BY DecoderAssumption, Zenon DEF EntryType

(* The fields of the source are numbers.                                   *)
LEMMA SourceFields ==
  ASSUME NEW s \in SourceType
  PROVE  s.consumed \in Nat /\ s.filled \in Nat /\ s.pos \in Nat /\ s.at \in Nat
BY Zenon DEF SourceType

(* A minimum is no more than either.                                       *)
LEMMA LeastBounds ==
  ASSUME NEW m \in Nat, NEW n \in Nat
  PROVE  /\ Least(m, n) \in Nat /\ Least(m, n) <= m /\ Least(m, n) <= n
         /\ m > 0 /\ n > 0 => Least(m, n) > 0
BY DEF Least

(* source.rs 70-73: emptying a buffer that was read to its end keeps the   *)
(* place in the range.                                                     *)
LEMMA DiscardedStands ==
  ASSUME TypeOK, Fed, Refills
  PROVE  /\ Discarded \in SourceType
         /\ Discarded.filled = 0 /\ Discarded.pos = 0
         /\ Discarded.consumed = cin /\ cin <= entry.clen
         /\ Remaining = entry.clen - cin /\ Remaining \in Nat
<1>1. src \in SourceType /\ entry \in Entries
  BY Zenon DEF TypeOK
<1>2. entry.clen \in Nat
  BY <1>1, EntryFields, Zenon
<1>3. /\ src.consumed \in Nat /\ src.filled \in Nat /\ src.at \in Nat
      /\ src.consumed + src.filled = cin /\ cin <= entry.clen
  BY <1>1, SourceFields, Zenon DEF Fed, Refills
<1>4. Discarded \in SourceType
  BY <1>3 DEF Discarded, SourceType
<1>5. Discarded.consumed = cin /\ Discarded.filled = 0 /\ Discarded.pos = 0
  BY <1>3, Zenon DEF Discarded
<1>6. Remaining = entry.clen - cin
  BY <1>5, Zenon DEF Remaining
<1> QED
  BY <1>2, <1>3, <1>4, <1>5, <1>6

(* source.rs 69-88: after fill_buf the buffer holds the bytes that follow  *)
(* those the codec has had, and is empty only at the end of the range.     *)
LEMMA FilledStands ==
  ASSUME TypeOK, Fed
  PROVE  /\ Filled \in SourceType
         /\ Filled.pos <= Filled.filled
         /\ Filled.consumed + Filled.filled <= entry.clen
         /\ Filled.filled > 0 => Filled.at = Filled.consumed
         /\ cin = Filled.consumed + Filled.pos
         /\ Filled.filled = Filled.pos => cin = entry.clen
<1>1. src \in SourceType /\ entry.clen \in Nat /\ cin \in Nat
  BY EntryFields, Zenon DEF TypeOK
<1>2. CASE ~Refills
  <2>1. Filled = src /\ src.pos # src.filled
    BY <1>2, Zenon DEF Filled, Refills
  <2> QED
    BY <1>1, <2>1, Zenon DEF Fed
<1>3. CASE Refills /\ Remaining = 0
  <2>1. Filled = Discarded
    BY <1>3, Zenon DEF Filled
  <2> QED
    BY <1>1, <1>3, <2>1, DiscardedStands
<1>4. CASE Refills /\ Remaining # 0
  <2>1. /\ Discarded \in SourceType /\ Discarded.consumed = cin /\ Discarded.pos = 0
        /\ Remaining = entry.clen - cin /\ Remaining \in Nat
    BY <1>4, DiscardedStands, Zenon
  <2>2. Chunk \in Nat /\ Chunk > 0 /\ Chunk <= Remaining
    BY <1>4, <2>1, LeastBounds, DecoderAssumption DEF Chunk
  <2>3. Filled = [consumed |-> cin, filled |-> Chunk, pos |-> 0, at |-> cin]
    BY <1>4, <2>1, Zenon DEF Filled, SourceType
  <2> QED
    BY <1>1, <2>1, <2>2, <2>3 DEF SourceType
<1> QED
  BY <1>2, <1>3, <1>4, Zenon

(* The codec is handed the bytes that follow those it has had.             *)
LEMMA InputStands ==
  ASSUME TypeOK, Fed
  PROVE  /\ Input \in Nat /\ Filled.pos + Input = Filled.filled
         /\ ~Misfed
         /\ Input = 0 => cin = entry.clen
<1>1. /\ Filled.consumed \in Nat /\ Filled.filled \in Nat
      /\ Filled.pos \in Nat /\ Filled.at \in Nat
  BY FilledStands, SourceFields, Zenon
<1>2. /\ Filled.pos <= Filled.filled
      /\ Filled.filled > 0 => Filled.at = Filled.consumed
      /\ cin = Filled.consumed + Filled.pos
      /\ Filled.filled = Filled.pos => cin = entry.clen
  BY FilledStands, Zenon
<1>3. Input \in Nat /\ Filled.pos + Input = Filled.filled
  BY <1>1, <1>2 DEF Input
<1>4. Input = 0 => cin = entry.clen
  BY <1>1, <1>2 DEF Input
<1>5. ~Misfed
  BY <1>1, <1>2 DEF Input, Misfed
<1> QED
  BY <1>3, <1>4, <1>5, Zenon

(* What the caller of a step has room for.                                 *)
LEMMA RoomStands ==
  ASSUME TypeOK, InPump
  PROVE  /\ Room \in Nat
         /\ Skipping => pos + Room <= offset
         /\ Writing => written + Room <= want
<1>1. /\ pos \in Nat /\ offset \in Nat /\ want \in Nat /\ written \in Nat
      /\ entry.total \in Nat /\ SkipLen \in Nat
  BY EntryFields, DecoderAssumption, Zenon DEF TypeOK
<1>2. CASE pc = "extra"
  BY <1>2, Zenon DEF Room, Skipping, Writing
<1>3. CASE Skipping
  <2>1. offset - pos \in Nat /\ pos < offset /\ pc # "extra"
    BY <1>1, <1>3 DEF Skipping
  <2>2. Room = Least(offset - pos, SkipLen)
    BY <2>1, Zenon DEF Room
  <2>3. ~Writing
    BY <1>1, <2>1 DEF Writing
  <2> QED
    BY <1>1, <2>1, <2>2, <2>3, LeastBounds
<1>4. CASE Writing
  <2>1. /\ want - written \in Nat /\ entry.total - pos \in Nat
        /\ ~(pos < offset) /\ pc # "extra"
    BY <1>1, <1>4 DEF Writing
  <2>2. Room = Least(entry.total - pos, want - written)
    BY <2>1, Zenon DEF Room
  <2>3. ~Skipping
    BY <2>1, Zenon DEF Skipping
  <2>4. Room \in Nat /\ Room <= want - written
    BY <2>1, <2>2, LeastBounds, Zenon
  <2> QED
    BY <1>1, <2>3, <2>4
<1> QED
  BY <1>2, <1>3, <1>4, Zenon DEF InPump

-----------------------------------------------------------------------------
(* decode.rs 96-105: a decoder that was made or rewound stands at zero.    *)
LEMMA ResetStands ==
  ASSUME TypeOK, Reset, entry' \in Entries, UNCHANGED withCrc
  PROVE  /\ src' \in SourceType /\ Fed' /\ Counted'
         /\ cin' \in Nat /\ cout' \in Nat /\ pos' \in Nat /\ crc' \in Nat
         /\ ~verified' /\ ~broken' /\ ~garbled' /\ ~finished'
<1>1. /\ src'.consumed = 0 /\ src'.filled = 0 /\ src'.pos = 0
      /\ src' \in SourceType
  BY SourceFields, Zenon DEF TypeOK, Reset, Retargeted, SourceType
<1>2. entry.clen' \in Nat /\ entry.slen' \in Nat
  BY EntryFields, Zenon
<1>3. Fed'
  BY <1>1, <1>2 DEF Reset, Fed
<1>4. Counted'
  BY <1>2 DEF Reset, Counted
<1> QED
  BY <1>1, <1>3, <1>4, Zenon DEF Reset

(* pool.rs 132-151, 153-200: making and rewinding keep the invariant.      *)
LEMMA RenewStep ==
  ASSUME DecoderInv, Renew \/ Rewind
  PROVE  DecoderInv'
<1>1. /\ Reset /\ entry' \in Entries /\ pc = "idle" /\ result' = "none"
      /\ verdict' = "unknown" \/ UNCHANGED <<verdict, entry>>
      /\ UNCHANGED <<withCrc, sum, pc, offset, want, written, first>>
  BY Zenon DEF DecoderInv, TypeOK, Renew, Rewind, request
<1>2. /\ src' \in SourceType /\ Fed' /\ Counted'
      /\ cin' \in Nat /\ cout' \in Nat /\ pos' \in Nat /\ crc' \in Nat
      /\ ~verified' /\ ~broken' /\ ~garbled' /\ ~finished'
  BY <1>1, ResetStands, Zenon DEF DecoderInv
<1>3. TypeOK'
  BY <1>1, <1>2, Zenon DEF DecoderInv, TypeOK, Reset, Results
<1>4. Progress' /\ Returned'
  BY <1>1, Zenon DEF Progress, Returned
<1>5. AtEnd'
  BY <1>1, <1>2, Zenon DEF AtEnd
<1>6. Judged'
  BY <1>1, Zenon DEF DecoderInv, Judged, NoFalseBad, Correct, Sound
<1> QED
  BY <1>2, <1>3, <1>4, <1>5, <1>6, Zenon DEF DecoderInv

(* decode.rs 128-136: a read begins with a decoder that is not past it and *)
(* has not verified its entry.                                             *)
LEMMA BeginStep ==
  ASSUME DecoderInv, NEW o \in 0 .. entry.total, NEW n \in 0 .. entry.total,
         Begin(o, n)
  PROVE  DecoderInv'
<1>1. /\ pc = "idle" /\ offset' = o /\ want' = n /\ written' = 0
      /\ UNCHANGED <<entry, withCrc, src, cin, cout, broken, garbled, pos,
                     finished, verified, crc, sum, verdict, first>>
  BY Zenon DEF Begin, codec
<1>2. /\ pos' \in Nat /\ entry.total \in Nat /\ o \in Nat /\ n \in Nat
      /\ o + n <= entry.total /\ (n = 0 => entry.total = 0 /\ result = "none")
  BY <1>1, EntryFields DEF DecoderInv, TypeOK, Begin
<1>3. Fed' /\ Counted' /\ Judged'
  BY <1>1, Zenon DEF DecoderInv, Fed, Counted, Judged, NoFalseBad, Correct, Sound
<1>4. CASE pos > o /\ Finish("behind")
  <2>1. pc' = "idle" /\ result' = "behind"
    BY <1>4, Zenon DEF Finish
  <2>2. TypeOK'
    BY <1>1, <1>2, <2>1, Zenon DEF DecoderInv, TypeOK, Results, PC
  <2>3. Progress' /\ Returned'
    BY <2>1, Zenon DEF Progress, Returned
  <2>4. AtEnd'
    BY <1>1, <2>1, Zenon DEF DecoderInv, AtEnd
  <2> QED
    BY <1>3, <2>2, <2>3, <2>4, Zenon DEF DecoderInv
<1>5. CASE pos <= o /\ pc' = "fill" /\ result' = "none"
  <2>1. TypeOK'
    BY <1>1, <1>2, <1>5, Zenon DEF DecoderInv, TypeOK, Results, PC
  <2>2. Progress'
    BY <1>1, <1>2, <1>5 DEF Progress
  <2>3. Returned'
    BY <1>5, Zenon DEF Returned
  <2>4. ~verified
    <3>1. CASE n = 0
      BY <1>1, <1>2, <3>1, Zenon DEF DecoderInv, AtEnd
    <3>2. CASE n # 0
      <4>1. pos < entry.total
        BY <1>1, <1>2, <1>5, <3>2
      <4> QED
        BY <1>1, <1>2, <4>1 DEF DecoderInv, AtEnd
    <3> QED
      BY <3>1, <3>2, Zenon
  <2>5. AtEnd'
    BY <1>1, <1>5, <2>4, Zenon DEF AtEnd
  <2> QED
    BY <1>3, <2>1, <2>2, <2>3, <2>5, Zenon DEF DecoderInv
<1> QED
  BY <1>4, <1>5, Zenon DEF Begin

(* An error ends the read; only one that proves the entry bad may change   *)
(* its verdict, and only from within verify.                               *)
LEMMA FailsStep ==
  ASSUME DecoderInv, NEW e \in {"invalid", "pastend", "io"}, PumpFails(e), InPump,
         src' \in SourceType, Fed', broken' \in BOOLEAN,
         broken' => entry.bad <= entry.cend,
         ProvesBad(e) => ~Sound
  PROVE  DecoderInv'
<1>0. e # "ok" /\ e # "none"
  BY Zenon
<1>1. /\ pc' = "idle" /\ result' = e
      /\ UNCHANGED <<entry, withCrc, cin, cout, garbled, pos, finished, crc, sum,
                     offset, want, written, first>>
  BY Zenon DEF PumpFails, Finish, request
<1>a. pc = "extra" => /\ verified' = ProvesBad(e)
                      /\ verdict' = IF ProvesBad(e) THEN "bad" ELSE verdict
  BY Zenon DEF PumpFails, StaysVerified
<1>b. pc # "extra" => verified' = verified /\ verdict' = verdict
  BY Zenon DEF PumpFails
<1>2. Counted'
  BY <1>1, Zenon DEF DecoderInv, Counted
<1>3. verdict' \in {"unknown", "ok", "bad"} /\ verified' \in BOOLEAN
  <2>1. verdict \in {"unknown", "ok", "bad"} /\ verified \in BOOLEAN
    BY Zenon DEF DecoderInv, TypeOK
  <2>2. CASE pc = "extra"
    BY <1>a, <2>1, <2>2 DEF ProvesBad
  <2>3. CASE pc # "extra"
    BY <1>b, <2>1, <2>3, Zenon
  <2> QED
    BY <2>2, <2>3, Zenon
<1>4. TypeOK'
  BY <1>1, <1>3, Zenon DEF DecoderInv, TypeOK, Results, PC
<1>5. Progress' /\ Returned'
  BY <1>0, <1>1, Zenon DEF Progress, Returned
<1>6. AtEnd'
  <2>1. CASE pc = "extra"
    BY <1>0, <1>1, <1>a, <2>1, Zenon DEF DecoderInv, AtEnd
  <2>2. CASE pc # "extra"
    BY <1>0, <1>1, <1>b, <2>2 DEF DecoderInv, AtEnd
  <2> QED
    BY <2>1, <2>2, Zenon
<1>7. Judged'
  <2>1. Correct' = Correct /\ Sound' = Sound
    BY <1>1, Zenon DEF Correct, Sound
  <2> QED
    BY <1>a, <1>b, <2>1, Zenon DEF DecoderInv, Judged, NoFalseBad
<1> QED
  BY <1>2, <1>4, <1>5, <1>6, <1>7, Zenon DEF DecoderInv

(* source.rs 70-86: a read of the archive that fails leaves the source     *)
(* empty and in place, so that the next one goes on there.  A chunk past   *)
(* the end of the archive shows that the entry is.                         *)
LEMMA ReadFailsStep ==
  ASSUME DecoderInv, ReadFails
  PROVE  DecoderInv'
<1>1. /\ src' = Discarded /\ broken' = broken /\ Refills /\ Remaining > 0 /\ InPump
      /\ (PastEnd /\ PumpFails("pastend")) \/ PumpFails("io")
  BY Zenon DEF ReadFails
<1>2. UNCHANGED <<entry, cin, garbled>>
  BY <1>1, Zenon DEF PumpFails
<1>3. /\ Discarded \in SourceType /\ Discarded.filled = 0 /\ Discarded.pos = 0
      /\ Discarded.consumed = cin /\ cin <= entry.clen
      /\ Remaining = entry.clen - cin /\ Remaining \in Nat
  BY <1>1, DiscardedStands, Zenon DEF DecoderInv
<1>4. cin \in Nat /\ entry.clen \in Nat /\ entry.inFile \in Nat
  BY EntryFields, Zenon DEF DecoderInv, TypeOK
<1>5. src' \in SourceType /\ broken' \in BOOLEAN
      /\ (broken' => entry.bad <= entry.cend)
  BY <1>1, <1>3, Zenon DEF DecoderInv, TypeOK, Counted
<1>6. Fed'
  <2>1. src'.pos = 0 /\ src'.filled = 0 /\ src'.consumed = cin
    BY <1>1, <1>3, Zenon
  <2>2. ~garbled
    BY Zenon DEF DecoderInv, Fed
  <2> QED
    BY <1>2, <1>3, <1>4, <2>1, <2>2 DEF Fed
<1>7. PastEnd => ~Sound
  <2>1. Chunk \in Nat /\ Chunk <= Remaining
    BY <1>3, LeastBounds, DecoderAssumption, Zenon DEF Chunk
  <2>2. Discarded.consumed + Chunk <= entry.clen
    BY <1>3, <1>4, <2>1
  <2>3. PastEnd => ~(entry.clen <= entry.inFile)
    BY <1>3, <1>4, <2>1, <2>2 DEF PastEnd
  <2> QED
    BY <2>3, Zenon DEF Sound
<1>8. CASE PastEnd /\ PumpFails("pastend")
  BY <1>1, <1>5, <1>6, <1>7, <1>8, FailsStep, Zenon
<1>9. CASE PumpFails("io")
  <2>1. ~ProvesBad("io")
    BY Zenon DEF ProvesBad
  <2> QED
    BY <1>1, <1>5, <1>6, <1>9, <2>1, FailsStep, Zenon
<1> QED
  BY <1>1, <1>8, <1>9, Zenon

(* codec.rs: fed in order, a codec rejects nothing but a bad stream.       *)
LEMMA CodecFailsStep ==
  ASSUME DecoderInv, CodecFails
  PROVE  DecoderInv'
<1>1. /\ src' = Filled /\ broken' = TRUE /\ Rejects /\ InPump
      /\ PumpFails("invalid")
  BY Zenon DEF CodecFails
<1>2. UNCHANGED <<entry, cin, garbled>>
  BY <1>1, Zenon DEF PumpFails
<1>3. entry.bad <= entry.cend
  BY <1>1, InputStands, Zenon DEF DecoderInv, Fed, Counted, Rejects
<1>4. entry.bad \in Nat /\ entry.cend \in Nat
  BY EntryFields, Zenon DEF DecoderInv, TypeOK
<1>5. ~Sound
  <2>1. ~(entry.bad > entry.cend)
    BY <1>3, <1>4
  <2> QED
    BY <2>1, Zenon DEF Sound
<1>6. Fed' /\ src' \in SourceType
  <2>1. ~garbled
    BY Zenon DEF DecoderInv, Fed
  <2> QED
    BY <1>1, <1>2, <2>1, FilledStands, Zenon DEF DecoderInv, Fed
<1> QED
  BY <1>1, <1>3, <1>5, <1>6, FailsStep, Zenon

-----------------------------------------------------------------------------
(* A step that gave n bytes, or found the end of the stream.               *)
Gave(n) ==
  /\ InPump /\ n \in 0 .. Room /\ Used(n)
  /\ pos' = pos + n /\ (n = 0 => finished')
  /\ Fed' /\ Counted'
  /\ UNCHANGED <<entry, withCrc, verified, sum, offset, want>>

Kept == Progress' /\ AtEnd' /\ Judged' /\ Returned'

(* The numbers of a read.                                                  *)
LEMMA ReadNumbers ==
  ASSUME TypeOK
  PROVE  /\ pos \in Nat /\ cout \in Nat /\ offset \in Nat /\ want \in Nat
         /\ written \in Nat /\ first \in Nat /\ sum \in Nat
         /\ entry.total \in Nat /\ entry.slen \in Nat
BY EntryFields, Zenon DEF TypeOK

(* decode.rs 155-162: skipped bytes bring the decoder no further than the  *)
(* offset.                                                                 *)
LEMMA SkippingGave ==
  ASSUME DecoderInv, NEW n, Gave(n), Skipping
  PROVE  Kept
<1>1. /\ pos \in Nat /\ offset \in Nat /\ want \in Nat /\ written \in Nat
      /\ entry.total \in Nat /\ n \in Nat /\ n <= Room /\ Room \in Nat
  BY ReadNumbers, RoomStands DEF DecoderInv, Gave
<1>2. pos + n <= offset
  BY <1>1, RoomStands DEF DecoderInv, Gave
<1>3. /\ pc = "fill" /\ pos < offset /\ pos' = pos + n
      /\ UNCHANGED <<entry, withCrc, verified, sum, offset, want>>
  BY Zenon DEF Gave, Skipping
<1>4. ~Writing
  BY <1>1, <1>3 DEF Writing
<1>5. /\ n = 0 => pc' = "idle" /\ result' = "truncated"
      /\ n # 0 => pc' = pc /\ result' = result
      /\ UNCHANGED <<written, first, verdict>>
  BY <1>3, <1>4, Zenon DEF Gave, Used, Finish
<1>6. /\ offset + want <= entry.total /\ written <= want /\ result = "none"
      /\ pos = offset + written \/ (pc = "fill" /\ written = 0 /\ pos < offset)
  BY <1>3, Zenon DEF DecoderInv, Progress
<1>7. written = 0
  BY <1>1, <1>3, <1>6
<1>8. result' # "ok" /\ ~verified
  BY <1>3, <1>5, <1>6, Zenon DEF DecoderInv, AtEnd
<1>9. Progress'
  BY <1>1, <1>2, <1>3, <1>5, <1>6, <1>7 DEF Progress
<1>10. AtEnd'
  BY <1>3, <1>5, <1>8, Zenon DEF AtEnd
<1>11. Judged' /\ Returned'
  BY <1>3, <1>5, <1>8, Zenon DEF DecoderInv, Judged, NoFalseBad, Returned, Correct, Sound
<1> QED
  BY <1>9, <1>10, <1>11, Zenon DEF Kept

(* decode.rs 164-174: the bytes that are written follow the ones before,   *)
(* and the loop is left early only where the stream ends.                  *)
LEMMA WritingGave ==
  ASSUME DecoderInv, NEW n, Gave(n), Writing
  PROVE  Kept
<1>1. /\ pos \in Nat /\ offset \in Nat /\ want \in Nat /\ written \in Nat
      /\ entry.total \in Nat /\ n \in Nat /\ n <= Room /\ Room \in Nat
  BY ReadNumbers, RoomStands DEF DecoderInv, Gave
<1>2. written + n <= want
  BY <1>1, RoomStands DEF DecoderInv, Gave
<1>3. /\ pc = "fill" /\ pos >= offset /\ pos' = pos + n /\ (n = 0 => finished')
      /\ UNCHANGED <<entry, withCrc, verified, sum, offset, want>>
  BY Zenon DEF Gave, Writing
<1>4. ~Skipping
  BY <1>1, <1>3 DEF Skipping
<1>5. /\ pc' = IF n = 0 THEN "end" ELSE pc
      /\ written' = written + n
      /\ first' = IF written = 0 THEN cout ELSE first
      /\ UNCHANGED <<result, verdict>>
  BY <1>3, <1>4, Zenon DEF Gave, Used
<1>6. /\ offset + want <= entry.total /\ written <= want /\ result = "none"
      /\ written > 0 => first = offset
      /\ pos = offset + written \/ (pc = "fill" /\ written = 0 /\ pos < offset)
  BY <1>3, Zenon DEF DecoderInv, Progress
<1>7. pos = offset + written
  BY <1>1, <1>3, <1>6
<1>8. cout = pos /\ ~verified
  BY <1>3, Zenon DEF DecoderInv, Counted, AtEnd
<1>9. first' = offset \/ written' = 0
  BY <1>1, <1>5, <1>6, <1>7, <1>8
<1>10. Progress'
  BY <1>1, <1>2, <1>3, <1>5, <1>6, <1>7, <1>9 DEF Progress
<1>11. AtEnd'
  BY <1>3, <1>5, <1>8, Zenon DEF AtEnd
<1>12. result' # "ok"
  BY <1>5, <1>6, Zenon
<1>13. Judged' /\ Returned'
  BY <1>3, <1>5, <1>12, Zenon DEF DecoderInv, Judged, NoFalseBad, Returned, Correct, Sound
<1> QED
  BY <1>10, <1>11, <1>13, Zenon DEF Kept

(* decode.rs 215-236: the entry is accepted exactly if it is what the      *)
(* central directory says.                                                 *)
LEMMA ExtraGave ==
  ASSUME DecoderInv, NEW n, Gave(n), pc = "extra"
  PROVE  Kept
<1>1. /\ pos \in Nat /\ offset \in Nat /\ want \in Nat /\ written \in Nat
      /\ entry.total \in Nat /\ entry.slen \in Nat /\ n \in Nat
  BY ReadNumbers, RoomStands DEF DecoderInv, Gave
<1>2. /\ pos' = pos + n /\ (n = 0 => finished')
      /\ UNCHANGED <<entry, withCrc, verified, sum, offset, want>>
  BY Zenon DEF Gave
<1>3. /\ verdict' = IF Accepted(n) THEN "ok" ELSE "bad"
      /\ pc' = "idle" /\ result' = IF Accepted(n) THEN "ok" ELSE "invalid"
      /\ UNCHANGED <<written, first>>
  BY Zenon DEF Gave, Used, Finish, Skipping, Writing
<1>4. /\ offset + want <= entry.total /\ written <= want
      /\ written > 0 => first = offset
      /\ pos = offset + written
  BY Zenon DEF DecoderInv, Progress
<1>5. pos = entry.total /\ withCrc /\ verified /\ sum = pos
  BY Zenon DEF DecoderInv, AtEnd
<1>6. /\ cout' = pos' /\ cout' <= entry.slen /\ (finished' => cout' = entry.slen)
      /\ ~garbled
  BY <1>2, Zenon DEF DecoderInv, Gave, Counted, Fed
<1>7. Accepted(n) <=> Correct
  <2>1. CASE n = 0
    BY <1>1, <1>2, <1>5, <1>6, <2>1 DEF Accepted, Correct
  <2>2. CASE n # 0
    <3>1. entry.slen # entry.total
      BY <1>1, <1>2, <1>5, <1>6, <2>2
    <3> QED
      BY <2>2, <3>1, Zenon DEF Accepted, Correct
  <2> QED
    BY <2>1, <2>2, Zenon
<1>8. Correct' = Correct /\ Sound' = Sound /\ (Sound => Correct)
  BY <1>2, Zenon DEF Correct, Sound
<1>9. Accepted(n) => n = 0 /\ cout' = offset + written /\ written = want
  <2>1. Accepted(n) => n = 0
    BY Zenon DEF Accepted
  <2> QED
    BY <1>1, <1>2, <1>4, <1>5, <1>6, <2>1
<1>10. Progress'
  BY <1>3, Zenon DEF Progress
<1>11. AtEnd'
  BY <1>1, <1>2, <1>3, <1>5 DEF AtEnd
<1>12. Judged'
  BY <1>3, <1>7, <1>8, Zenon DEF Judged, NoFalseBad
<1>13. Returned'
  BY <1>2, <1>3, <1>4, <1>7, <1>8, <1>9, Zenon DEF Returned
<1> QED
  BY <1>10, <1>11, <1>12, <1>13, Zenon DEF Kept

(* Whatever the caller of a step is, what it does keeps the invariant.     *)
LEMMA GaveKeeps ==
  ASSUME DecoderInv, NEW n, Gave(n)
  PROVE  /\ Kept
         /\ pc' \in PC /\ result' \in Results /\ verdict' \in {"unknown", "ok", "bad"}
         /\ written' \in Nat /\ first' \in Nat
<1>1. Kept
  BY SkippingGave, WritingGave, ExtraGave, Zenon DEF Gave, InPump
<1>2. /\ written \in Nat /\ first \in Nat /\ cout \in Nat /\ n \in Nat
      /\ pc \in PC /\ result \in Results /\ verdict \in {"unknown", "ok", "bad"}
  BY RoomStands DEF DecoderInv, TypeOK, Gave
<1>3. written' \in Nat /\ first' \in Nat
  BY <1>2 DEF Gave, Used
<1>4. pc' \in PC /\ result' \in Results /\ verdict' \in {"unknown", "ok", "bad"}
  BY <1>2, Zenon DEF Gave, Used, Finish, PC, Results
<1> QED
  BY <1>1, <1>3, <1>4, Zenon

(* decode.rs 275-277: behind the end a step gives nothing.                 *)
LEMMA PumpAtEndStep ==
  ASSUME DecoderInv, PumpAtEnd
  PROVE  DecoderInv'
<1>1. /\ InPump /\ finished /\ Used(0)
      /\ UNCHANGED <<entry, withCrc, src, cin, cout, broken, garbled, pos,
                     finished, verified, crc, sum, offset, want>>
  BY Zenon DEF PumpAtEnd, codec, request
<1>2. Fed' /\ Counted'
  BY <1>1, Zenon DEF DecoderInv, Fed, Counted
<1>3. 0 \in 0 .. Room /\ pos' = pos + 0
  BY <1>1, RoomStands DEF DecoderInv, TypeOK
<1>4. Gave(0)
  BY <1>1, <1>2, <1>3, Zenon DEF Gave
<1>5. TypeOK'
  BY <1>1, <1>4, GaveKeeps, Zenon DEF DecoderInv, TypeOK
<1> QED
  BY <1>2, <1>4, <1>5, GaveKeeps, Zenon DEF DecoderInv, Kept

(* decode.rs 278-310: a turn of the loop takes from the source what the    *)
(* codec consumed, and counts what it produced.  It ends the stream only   *)
(* behind its last byte.                                                   *)
LEMMA TurnStands ==
  ASSUME DecoderInv, InPump, NEW m \in Outcomes,
         src' = [Filled EXCEPT !.pos = @ + m.c],
         cin' = cin + m.c, cout' = cout + m.p,
         garbled' = (garbled \/ (m.c > 0 /\ Misfed)),
         pos' = pos + m.p, crc' = IF withCrc THEN crc + m.p ELSE crc,
         finished' = Ends(m), UNCHANGED <<entry, withCrc, broken>>
  PROVE  /\ Fed' /\ Counted'
         /\ m.p \in 0 .. Room
         /\ src' \in SourceType /\ cin' \in Nat /\ cout' \in Nat /\ pos' \in Nat
         /\ crc' \in Nat /\ garbled' \in BOOLEAN /\ finished' \in BOOLEAN
<1>1. Input \in Nat /\ Filled.pos + Input = Filled.filled /\ ~Misfed
      /\ (Input = 0 => cin = entry.clen)
  BY InputStands, Zenon DEF DecoderInv
<1>2. m.c \in 0 .. Input /\ m.p \in 0 .. Room /\ m.done \in BOOLEAN /\ Possible(m)
  <2>1. m \in Moves /\ Possible(m)
    BY Zenon DEF Outcomes
  <2>2. PICK c \in 0 .. Input, p \in 0 .. Room, d \in BOOLEAN :
               m = [c |-> c, p |-> p, done |-> d]
    BY <2>1 DEF Moves
  <2> QED
    BY <2>1, <2>2, Zenon
<1>3. m.c \in Nat /\ m.p \in Nat /\ m.c <= Input
  BY <1>1, <1>2, RoomStands DEF DecoderInv
<1>4. /\ cin \in Nat /\ cout \in Nat /\ pos \in Nat /\ crc \in Nat
      /\ entry.clen \in Nat /\ entry.slen \in Nat /\ entry.cend \in Nat
  BY EntryFields, Zenon DEF DecoderInv, TypeOK
<1>5. /\ Filled \in SourceType /\ Filled.pos <= Filled.filled
      /\ Filled.consumed + Filled.filled <= entry.clen
      /\ Filled.filled > 0 => Filled.at = Filled.consumed
      /\ cin = Filled.consumed + Filled.pos
  BY FilledStands, Zenon DEF DecoderInv
<1>6. /\ Filled.consumed \in Nat /\ Filled.filled \in Nat
      /\ Filled.pos \in Nat /\ Filled.at \in Nat
  BY <1>5, SourceFields, Zenon
<1>7. src' = [consumed |-> Filled.consumed, filled |-> Filled.filled,
              pos |-> Filled.pos + m.c, at |-> Filled.at]
  BY <1>5, Zenon DEF SourceType
<1>8. src' \in SourceType
  <2>1. Filled.pos + m.c \in Nat
    BY <1>3, <1>6
  <2> QED
    BY <1>6, <1>7, <2>1, Zenon DEF SourceType
<1>9. ~garbled' /\ garbled' \in BOOLEAN
  BY <1>1, Zenon DEF DecoderInv, Fed
<1>10. Fed'
  <2>1. /\ src'.consumed = Filled.consumed /\ src'.filled = Filled.filled
        /\ src'.pos = Filled.pos + m.c /\ src'.at = Filled.at
    BY <1>7, Zenon
  <2>2. /\ src'.pos <= src'.filled /\ src'.consumed + src'.filled <= entry.clen
        /\ src'.filled > 0 => src'.at = src'.consumed
        /\ cin' = src'.consumed + src'.pos
    BY <1>1, <1>3, <1>5, <1>6, <2>1
  <2> QED
    BY <1>9, <2>2, Zenon DEF Fed
<1>11. /\ cout + m.p <= entry.slen
       /\ m.done => cout + m.p = entry.slen
       /\ m.c = 0 /\ m.p = 0 /\ ~m.done =>
            Input = 0 /\ (cin < entry.clen \/ cout = entry.slen)
  BY <1>2, Zenon DEF Possible
<1>12. finished' => cout' = entry.slen
  <2>1. CASE m.done
    BY <1>11, <2>1, Zenon
  <2>2. CASE m.c = 0 /\ m.p = 0 /\ ~m.done
    BY <1>1, <1>3, <1>4, <1>11, <2>2
  <2> QED
    BY <2>1, <2>2, Zenon DEF Ends
<1>13. finished' \in BOOLEAN /\ entry' = entry /\ withCrc' = withCrc /\ broken' = broken
  BY <1>2, Zenon DEF Ends
<1>14. cin' \in Nat /\ cout' \in Nat /\ pos' \in Nat /\ crc' \in Nat
  BY <1>3, <1>4
<1>15. Counted'
  <2>1. pos = cout /\ (withCrc => crc = pos) /\ (broken => entry.bad <= entry.cend)
    BY Zenon DEF DecoderInv, Counted
  <2>2. pos' = cout' /\ cout' <= entry.slen
    BY <1>11, <2>1, Zenon
  <2>3. withCrc => crc' = pos'
    BY <2>1, Zenon
  <2> QED
    BY <1>12, <1>13, <2>1, <2>2, <2>3 DEF Counted
<1> QED
  BY <1>2, <1>8, <1>9, <1>10, <1>13, <1>14, <1>15, Zenon

(* A turn that gave nothing goes round again.                              *)
LEMMA SilentTurn ==
  ASSUME DecoderInv, InPump, pos' = pos, Fed', Counted', ~finished,
         UNCHANGED <<entry, withCrc, verified, sum, offset, want, pc, written,
                     first, result, verdict>>
  PROVE  Kept
<1>1. Progress'
  BY Zenon DEF DecoderInv, Progress
<1>2. AtEnd'
  BY Zenon DEF DecoderInv, AtEnd
<1>3. Judged'
  BY Zenon DEF DecoderInv, Judged, NoFalseBad, Correct, Sound
<1>4. Returned'
  <2>1. cout' = cout
    BY Zenon DEF DecoderInv, Counted
  <2> QED
    BY <2>1, Zenon DEF DecoderInv, Returned, Correct, Sound
<1> QED
  BY <1>1, <1>2, <1>3, <1>4, Zenon DEF Kept

(* decode.rs 274-311: a turn of the loop in step keeps the invariant.      *)
LEMMA PumpStepStep ==
  ASSUME DecoderInv, PumpStep
  PROVE  DecoderInv'
<1>1. /\ InPump /\ ~finished
      /\ UNCHANGED <<entry, withCrc, broken, verified, sum, offset, want>>
  BY Zenon DEF PumpStep, request
<1>2. PICK m \in Outcomes :
        /\ src' = [Filled EXCEPT !.pos = @ + m.c]
        /\ cin' = cin + m.c /\ cout' = cout + m.p
        /\ garbled' = (garbled \/ (m.c > 0 /\ Misfed))
        /\ pos' = pos + m.p
        /\ crc' = IF withCrc THEN crc + m.p ELSE crc
        /\ finished' = Ends(m)
        /\ \/ (m.p > 0 \/ finished') /\ Used(m.p)
           \/ /\ m.p = 0 /\ ~finished'
              /\ UNCHANGED <<pc, written, first, result, verdict>>
  BY Zenon DEF PumpStep
<1>3. /\ Fed' /\ Counted' /\ m.p \in 0 .. Room
      /\ src' \in SourceType /\ cin' \in Nat /\ cout' \in Nat /\ pos' \in Nat
      /\ crc' \in Nat /\ garbled' \in BOOLEAN /\ finished' \in BOOLEAN
  BY <1>1, <1>2, TurnStands, Zenon
<1>4. CASE (m.p > 0 \/ finished') /\ Used(m.p)
  <2>1. m.p = 0 => finished'
    BY <1>4
  <2>2. Gave(m.p)
    BY <1>1, <1>2, <1>3, <1>4, <2>1, Zenon DEF Gave
  <2>3. TypeOK'
    BY <1>1, <1>3, <2>2, GaveKeeps, Zenon DEF DecoderInv, TypeOK
  <2> QED
    BY <1>3, <2>2, <2>3, GaveKeeps, Zenon DEF DecoderInv, Kept
<1>5. CASE m.p = 0 /\ ~finished' /\ UNCHANGED <<pc, written, first, result, verdict>>
  <2>1. pos' = pos
    BY <1>2, <1>5 DEF DecoderInv, TypeOK
  <2>2. Kept
    BY <1>1, <1>3, <1>5, <2>1, SilentTurn, Zenon
  <2>3. TypeOK'
    BY <1>1, <1>3, <1>5, Zenon DEF DecoderInv, TypeOK
  <2> QED
    BY <1>3, <2>2, <2>3, Zenon DEF DecoderInv, Kept
<1> QED
  BY <1>2, <1>4, <1>5, Zenon

(* decode.rs 155-174: the loops are left with all that was asked for, or   *)
(* at the declared end, which is no nearer.                                *)
LEMMA LeaveLoopsStep ==
  ASSUME DecoderInv, LeaveLoops
  PROVE  DecoderInv'
<1>1. /\ pc = "fill" /\ ~Skipping /\ ~Writing /\ pc' = "end"
      /\ UNCHANGED <<entry, withCrc, src, cin, cout, broken, garbled, pos, finished,
                     verified, crc, sum, verdict, offset, want, written, first, result>>
  BY Zenon DEF LeaveLoops, codec, request
<1>2. /\ pos \in Nat /\ offset \in Nat /\ want \in Nat /\ written \in Nat
      /\ entry.total \in Nat
  BY ReadNumbers, Zenon DEF DecoderInv
<1>3. TypeOK' /\ Fed' /\ Counted'
  BY <1>1, Zenon DEF DecoderInv, TypeOK, Fed, Counted, PC
<1>4. Judged'
  BY <1>1, Zenon DEF DecoderInv, Judged, NoFalseBad, Correct, Sound
<1>5. /\ offset + want <= entry.total /\ written <= want /\ result = "none"
      /\ written > 0 => first = offset
      /\ pos = offset + written \/ (written = 0 /\ pos < offset)
  BY <1>1, Zenon DEF DecoderInv, Progress
<1>6. ~(pos < offset) /\ ~(pos >= offset /\ written < want /\ pos < entry.total)
  BY <1>1, Zenon DEF Skipping, Writing
<1>7. pos = offset + written /\ written = want
  BY <1>2, <1>5, <1>6
<1>8. Progress'
  BY <1>1, <1>5, <1>7, Zenon DEF Progress
<1>9. AtEnd'
  BY <1>1, Zenon DEF DecoderInv, AtEnd
<1>10. Returned'
  BY <1>1, <1>5, Zenon DEF Returned
<1> QED
  BY <1>3, <1>4, <1>8, <1>9, <1>10, Zenon DEF DecoderInv

(* decode.rs 176-195: a read ends before the declared end, or goes on to   *)
(* verify its entry there.                                                 *)
LEMMA EndStep ==
  ASSUME DecoderInv, End
  PROVE  DecoderInv'
<1>1. /\ pc = "end"
      /\ UNCHANGED <<entry, withCrc, src, cin, cout, broken, garbled, pos, finished,
                     crc, offset, want, written, first>>
  BY Zenon DEF End, codec, request
<1>2. /\ pos \in Nat /\ offset \in Nat /\ want \in Nat /\ written \in Nat
      /\ entry.total \in Nat /\ entry.slen \in Nat /\ crc \in Nat
  BY ReadNumbers, Zenon DEF DecoderInv, TypeOK
<1>3. Fed' /\ Counted'
  BY <1>1, Zenon DEF DecoderInv, Fed, Counted
<1>4. /\ offset + want <= entry.total /\ written <= want /\ result = "none"
      /\ written > 0 => first = offset
      /\ pos = offset + written /\ (written = want \/ finished) /\ ~verified
  BY <1>1, Zenon DEF DecoderInv, Progress, AtEnd
<1>5. /\ pos = cout /\ (finished => cout = entry.slen) /\ (withCrc => crc = pos)
      /\ pos <= entry.total
  BY <1>2, <1>4 DEF DecoderInv, Counted
<1>6. Correct' = Correct /\ Sound' = Sound
  BY <1>1, Zenon DEF Correct, Sound
<1>7. CASE pos < entry.total /\ Finish("ok") /\ UNCHANGED <<verified, verdict, sum>>
  <2>1. pc' = "idle" /\ result' = "ok" /\ UNCHANGED <<verified, verdict, sum>>
    BY <1>7, Zenon DEF Finish
  <2>2. TypeOK'
    BY <1>1, <2>1, Zenon DEF DecoderInv, TypeOK, PC, Results
  <2>3. Progress' /\ AtEnd'
    BY <1>4, <2>1, Zenon DEF Progress, AtEnd
  <2>4. Judged'
    BY <1>6, <2>1, Zenon DEF DecoderInv, Judged, NoFalseBad
  <2>5. Sound => written = want
    BY <1>2, <1>4, <1>5, <1>7 DEF Sound, Correct
  <2>6. offset + written # entry.total
    BY <1>2, <1>4, <1>7
  <2>7. Returned'
    BY <1>1, <1>4, <1>5, <1>6, <2>1, <2>5, <2>6, Zenon DEF Returned
  <2> QED
    BY <1>3, <2>2, <2>3, <2>4, <2>7, Zenon DEF DecoderInv
<1>8. CASE pos = entry.total
  <2>1. ~(pos < entry.total) /\ written = want
    BY <1>2, <1>4, <1>8
  <2>2. CASE ~withCrc
    <3>1. /\ pc' = "idle" /\ result' = "ok" /\ verified' = TRUE
          /\ UNCHANGED <<verdict, sum>>
      BY <1>4, <1>8, <2>1, <2>2, Zenon DEF End, Finish
    <3>2. TypeOK'
      BY <1>1, <3>1, Zenon DEF DecoderInv, TypeOK, PC, Results
    <3>3. Progress' /\ AtEnd'
      BY <1>1, <1>2, <1>8, <2>2, <3>1 DEF Progress, AtEnd
    <3>4. Judged'
      BY <1>6, <3>1, Zenon DEF DecoderInv, Judged, NoFalseBad
    <3>5. Returned'
      BY <1>1, <1>4, <1>5, <2>1, <2>2, <3>1, Zenon DEF Returned
    <3> QED
      BY <1>3, <3>2, <3>3, <3>4, <3>5, Zenon DEF DecoderInv
  <2>3. CASE withCrc
    <3>1. /\ pc' = "extra" /\ sum' = crc /\ verified' = TRUE
          /\ UNCHANGED <<verdict, result>>
      BY <1>4, <1>8, <2>1, <2>3, Zenon DEF End
    <3>2. TypeOK'
      BY <1>1, <1>2, <3>1, Zenon DEF DecoderInv, TypeOK, PC
    <3>3. Progress'
      BY <1>1, <1>4, <2>1, <3>1, Zenon DEF Progress
    <3>4. AtEnd'
      BY <1>1, <1>2, <1>5, <1>8, <2>3, <3>1, Zenon DEF AtEnd
    <3>5. Judged'
      BY <1>6, <3>1, Zenon DEF DecoderInv, Judged, NoFalseBad
    <3>6. Returned'
      BY <1>4, <3>1, Zenon DEF Returned
    <3> QED
      BY <1>3, <3>2, <3>3, <3>4, <3>5, <3>6, Zenon DEF DecoderInv
  <2> QED
    BY <2>2, <2>3, Zenon
<1>9. pos < entry.total \/ pos = entry.total
  BY <1>2, <1>5
<1> QED
  BY <1>2, <1>4, <1>7, <1>8, <1>9 DEF End

-----------------------------------------------------------------------------
(* A new decoder satisfies the invariant.                                  *)
LEMMA InitInv == Init => DecoderInv
<1> SUFFICES ASSUME Init PROVE DecoderInv
  BY Zenon
<1>1. entry.clen \in Nat /\ entry.slen \in Nat
  BY EntryFields, Zenon DEF Init
<1>2. TypeOK
  BY Zenon DEF Init, TypeOK, SourceType, PC, Results
<1>3. Fed /\ Counted
  BY <1>1 DEF Init, Fed, Counted
<1>4. Progress /\ AtEnd /\ Judged /\ Returned
  BY Zenon DEF Init, Progress, AtEnd, Judged, NoFalseBad, Returned
<1> QED
  BY <1>2, <1>3, <1>4, Zenon DEF DecoderInv

(* Every step keeps it.                                                    *)
LEMMA NextInv == DecoderInv /\ [Next]_vars => DecoderInv'
<1> SUFFICES ASSUME DecoderInv, [Next]_vars PROVE DecoderInv'
  BY Zenon
<1>1. CASE UNCHANGED vars
  <2>1. UNCHANGED <<entry, withCrc, src, cin, cout, broken, garbled, pos, finished,
                    verified, crc, sum, verdict, pc, offset, want, written, first,
                    result>>
    BY <1>1, Zenon DEF vars, codec, request
  <2>2. TypeOK' /\ Fed' /\ Counted'
    BY <2>1, Zenon DEF DecoderInv, TypeOK, Fed, Counted
  <2>3. Progress' /\ AtEnd'
    BY <2>1, Zenon DEF DecoderInv, Progress, AtEnd
  <2>4. Judged' /\ Returned'
    BY <2>1, Zenon DEF DecoderInv, Judged, NoFalseBad, Returned, Correct, Sound
  <2> QED
    BY <2>2, <2>3, <2>4, Zenon DEF DecoderInv
<1>2. CASE Next
  BY <1>2, RenewStep, BeginStep, ReadFailsStep, CodecFailsStep, PumpAtEndStep,
     PumpStepStep, LeaveLoopsStep, EndStep, Zenon DEF Next, ReadAt
<1> QED
  BY <1>1, <1>2, Zenon

(* The invariant holds in every state a decoder reaches.                   *)
LEMMA AlwaysInv == Spec => []DecoderInv
BY InitInv, NextInv, PTL DEF Spec

(* decode.rs 39-51: positions, counts and verdicts keep their types; the   *)
(* source never counts below zero.                                         *)
THEOREM TypesKept == Spec => []TypeOK
<1>1. DecoderInv => TypeOK
  BY Zenon DEF DecoderInv
<1> QED
  BY <1>1, AlwaysInv, PTL

(* decode.rs 117-180: whatever lengths the buffers have and however the    *)
(* codec divides its input and output, a read that succeeds delivers the   *)
(* bytes from its offset on, in order.                                     *)
THEOREM BytesAreRight == Spec => []RightBytes
<1>1. DecoderInv => RightBytes
  BY Zenon DEF DecoderInv, Fed, Returned, RightBytes
<1> QED
  BY <1>1, AlwaysInv, PTL

(* decode.rs 281-283: no read of a sound entry is short, whatever output a *)
(* codec holds back.                                                       *)
THEOREM SoundIsWhole == Spec => []SoundReadsWhole
<1>1. DecoderInv => SoundReadsWhole
  BY Zenon DEF DecoderInv, Returned, SoundReadsWhole
<1> QED
  BY <1>1, AlwaysInv, PTL

(* decode.rs 240-251: an entry that is marked bad is bad.                  *)
THEOREM BadIsBad == Spec => []NoFalseBad
<1>1. DecoderInv => NoFalseBad
  BY Zenon DEF DecoderInv, Judged
<1> QED
  BY <1>1, AlwaysInv, PTL

(* decode.rs 183-237: an entry that is marked good is good, and with       *)
(* verification its last byte is delivered only if it is.                  *)
THEOREM LastByteIsVerified == Spec => []LastByteVerified
<1>1. DecoderInv => LastByteVerified
  BY Zenon DEF DecoderInv, Judged, Returned, LastByteVerified
<1> QED
  BY <1>1, AlwaysInv, PTL

(* decode.rs 217-225: a decoder counts its entry as verified only once the *)
(* verdict is written.                                                     *)
THEOREM VerdictIsRecorded == Spec => []VerdictRecorded
<1>1. DecoderInv => VerdictRecorded
  BY Zenon DEF DecoderInv, AtEnd, VerdictRecorded
<1> QED
  BY <1>1, AlwaysInv, PTL
=============================================================================
