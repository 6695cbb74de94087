------------------------------- MODULE Syslog -------------------------------
(***************************************************************************)
(* Syslog::send_record of src/main.rs, which every worker thread runs with *)
(* no lock.  A line that the syslog daemon does not take is counted in     *)
(* DROPPED, and a record that gets through in a later second reports the   *)
(* count and takes it back to zero.  Each access to DROPPED and REPORTED,  *)
(* and each datagram, is a step.                                           *)
(*                                                                         *)
(* The code compares seconds only for equality.  A second is a number that *)
(* is used again after Period seconds; what still has it then is Past.     *)
(* Any step may take long, so it makes no difference which of the two      *)
(* sockets a line goes through.                                            *)
(***************************************************************************)
EXTENDS Integers, FiniteSets

CONSTANTS
  Threads,
  Lines,      \* names for the lines that were refused and not yet reported
  MaxLines,   \* the lines of a record
  Period      \* a record takes less than this many seconds

ASSUME SyslogAssumption ==
  /\ IsFiniteSet(Lines) /\ MaxLines \in Nat /\ Period \in Nat \ {0}
  /\ Threads \cap {"free", "counted"} = {}

Seconds == 0 .. Period - 1
Past == Period

PC == {"idle", "lines", "count", "check", "load", "cas", "swap",
       "report", "readd"}

VARIABLES
  clock,              \* what time(2) answers
  dropped, reported,  \* DROPPED and REPORTED
  pc, now, todo, sent, last, taken,   \* a thread in send_record
  fate                \* history: a refused line is counted or with a thread

counters == <<dropped, reported>>
locals == <<now, todo, sent, last, taken>>
logVars == <<clock, counters, pc, locals, fate>>

Counted == {l \in Lines : fate[l] = "counted"}
With(t) == {l \in Lines : fate[l] = t}

(* The lines S get the fate f.                                             *)
Move(S, f) == fate' = [l \in Lines |-> IF l \in S THEN f ELSE fate[l]]

LogInit ==
  /\ clock = 0 /\ dropped = 0 /\ reported = Past
  /\ pc = [t \in Threads |-> "idle"] /\ now = [t \in Threads |-> Past]
  /\ todo = [t \in Threads |-> 0] /\ sent = [t \in Threads |-> FALSE]
  /\ last = [t \in Threads |-> Past] /\ taken = [t \in Threads |-> 0]
  /\ fate = [l \in Lines |-> "free"]

-----------------------------------------------------------------------------
(* A second passes.  The number of the new one is free to be used again.   *)
Tick ==
  LET next == (clock + 1) % Period
      age(s) == IF s = next THEN Past ELSE s
  IN  /\ \A t \in Threads : now[t] # next
      /\ clock' = next /\ reported' = age(reported)
      /\ last' = [t \in Threads |-> age(last[t])]
      /\ UNCHANGED <<dropped, pc, now, todo, sent, taken, fate>>

Goto(t, p) == pc' = [pc EXCEPT ![t] = p] /\ UNCHANGED locals

(* send_record returns.                                                    *)
LogReturn(t) ==
  /\ pc' = [pc EXCEPT ![t] = "idle"] /\ now' = [now EXCEPT ![t] = Past]
  /\ todo' = [todo EXCEPT ![t] = 0] /\ sent' = [sent EXCEPT ![t] = FALSE]
  /\ last' = [last EXCEPT ![t] = Past] /\ taken' = [taken EXCEPT ![t] = 0]

(* A record of n lines.                                                    *)
Log(t, n) ==
  /\ pc[t] = "idle" /\ pc' = [pc EXCEPT ![t] = "lines"]
  /\ now' = [now EXCEPT ![t] = clock] /\ todo' = [todo EXCEPT ![t] = n]
  /\ UNCHANGED <<clock, counters, sent, last, taken, fate>>

TakeLine(t) ==
  /\ pc[t] = "lines" /\ todo[t] > 0
  /\ sent' = [sent EXCEPT ![t] = TRUE]
  /\ todo' = [todo EXCEPT ![t] = @ - 1]
  /\ UNCHANGED <<clock, counters, pc, now, last, taken, fate>>

(* The daemon is away, is busy, or stayed busy for the second of a wait.   *)
RefuseLine(t) ==
  /\ pc[t] = "lines" /\ todo[t] > 0 /\ pc' = [pc EXCEPT ![t] = "count"]
  /\ todo' = [todo EXCEPT ![t] = @ - 1]
  /\ \E l \in Lines : fate[l] = "free" /\ Move({l}, t)
  /\ UNCHANGED <<clock, counters, now, sent, last, taken>>

(* fetch_add.                                                              *)
CountLine(t) ==
  /\ pc[t] = "count" /\ Goto(t, "lines")
  /\ dropped' = dropped + 1 /\ Move(With(t), "counted")
  /\ UNCHANGED <<clock, reported>>

LinesDone(t) ==
  /\ pc[t] = "lines" /\ todo[t] = 0
  /\ IF sent[t] THEN Goto(t, "check") ELSE LogReturn(t)
  /\ UNCHANGED <<clock, counters, fate>>

Check(t) ==
  /\ pc[t] = "check"
  /\ IF dropped = 0 THEN LogReturn(t) ELSE Goto(t, "load")
  /\ UNCHANGED <<clock, counters, fate>>

Load_Inverted(t) ==
  /\ pc[t] = "load"
  /\ IF reported # now[t]
     THEN LogReturn(t)
     ELSE /\ pc' = [pc EXCEPT ![t] = "cas"]
          /\ last' = [last EXCEPT ![t] = reported]
          /\ UNCHANGED <<now, todo, sent, taken>>
  /\ UNCHANGED <<clock, counters, fate>>

(* This second has its report.                                             *)
Load(t) ==
  /\ pc[t] = "load"
  /\ IF reported = now[t]
     THEN LogReturn(t)
     ELSE /\ pc' = [pc EXCEPT ![t] = "cas"]
          /\ last' = [last EXCEPT ![t] = reported]
          /\ UNCHANGED <<now, todo, sent, taken>>
  /\ UNCHANGED <<clock, counters, fate>>

Cas(t) ==
  /\ pc[t] = "cas"
  /\ IF reported = last[t]
     THEN reported' = now[t] /\ Goto(t, "swap")
     ELSE UNCHANGED reported /\ LogReturn(t)
  /\ UNCHANGED <<clock, dropped, fate>>

(* The count is this thread's to report.                                   *)
Swap(t) ==
  /\ pc[t] = "swap" /\ dropped' = 0 /\ Move(Counted, t)
  /\ IF dropped = 0
     THEN LogReturn(t)
     ELSE /\ pc' = [pc EXCEPT ![t] = "report"]
          /\ taken' = [taken EXCEPT ![t] = dropped]
          /\ UNCHANGED <<now, todo, sent, last>>
  /\ UNCHANGED <<clock, reported>>

TakeReport(t) ==
  /\ pc[t] = "report" /\ LogReturn(t) /\ Move(With(t), "free")
  /\ UNCHANGED <<clock, counters>>

RefuseReport(t) ==
  /\ pc[t] = "report" /\ Goto(t, "readd")
  /\ UNCHANGED <<clock, counters, fate>>

Readd_Stores(t) ==
  /\ pc[t] = "readd" /\ LogReturn(t)
  /\ dropped' = taken[t] /\ Move(With(t), "counted")
  /\ UNCHANGED <<clock, reported>>

(* Lines that were dropped since the swap are counted already.             *)
Readd(t) ==
  /\ pc[t] = "readd" /\ LogReturn(t)
  /\ dropped' = dropped + taken[t] /\ Move(With(t), "counted")
  /\ UNCHANGED <<clock, reported>>

Step(t) ==
  \/ TakeLine(t) \/ RefuseLine(t) \/ CountLine(t) \/ LinesDone(t)
  \/ Check(t) \/ Load(t) \/ Cas(t) \/ Swap(t)
  \/ TakeReport(t) \/ RefuseReport(t) \/ Readd(t)

LogNext ==
  \/ Tick
  \/ \E t \in Threads : Step(t) \/ \E n \in 0 .. MaxLines : Log(t, n)

LogSpec == LogInit /\ [][LogNext]_logVars

(* Time passes, threads run, and a datagram is taken or refused in a       *)
(* second.  Records keep coming, and the daemon refuses neither every line *)
(* nor every report of a line.                                             *)
LogFairSpec ==
  /\ LogSpec /\ WF_logVars(Tick) /\ \A t \in Threads : WF_logVars(Step(t))
  /\ SF_logVars(\E t \in Threads, n \in 1 .. MaxLines : Log(t, n))
  /\ SF_logVars(\E t \in Threads : TakeLine(t))
  /\ \A l \in Lines : SF_logVars(\E t \in Threads : fate[l] = t /\ TakeReport(t))

-----------------------------------------------------------------------------
LogTypeOK ==
  /\ clock \in Seconds /\ dropped \in Nat /\ reported \in Seconds \cup {Past}
  /\ pc \in [Threads -> PC] /\ now \in [Threads -> Seconds \cup {Past}]
  /\ todo \in [Threads -> 0 .. MaxLines] /\ sent \in [Threads -> BOOLEAN]
  /\ last \in [Threads -> Seconds \cup {Past}]
  /\ taken \in [Threads -> Nat]
  /\ fate \in [Lines -> Threads \cup {"free", "counted"}]

(* No refused line is lost from the count and none is counted twice: it is *)
(* in DROPPED, or in the number that one thread is about to report, and    *)
(* only there, however the threads' accesses to DROPPED interleave.        *)
Ledger ==
  /\ dropped = Cardinality(Counted)
  /\ \A t \in Threads :
       Cardinality(With(t)) = CASE pc[t] = "count" -> 1
                                [] pc[t] \in {"report", "readd"} -> taken[t]
                                [] OTHER -> 0

(* "A line that the daemon cannot take at once is dropped, and a later     *)
(* record tells how many were dropped": every refused line is in a report  *)
(* that the daemon takes, in the end.                                      *)
DroppedIsTold == \A l \in Lines : fate[l] # "free" ~> fate[l] = "free"
=============================================================================
