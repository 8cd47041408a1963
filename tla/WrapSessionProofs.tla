-------------------------- MODULE WrapSessionProofs --------------------------
(***************************************************************************)
(* Theorems about WrapSession for all exit codes and signals of the child, *)
(* any number of pieces of stderr and of interrupts, and every             *)
(* interleaving of the five processes.                                     *)
(*                                                                         *)
(* The argument: the step of wrapWith bounds what the child and the copier *)
(* may be doing (StageInv); every piece written is in the pipe, in the tee *)
(* or shown until Wait gives up or a signal ends longpole (PieceInv); a    *)
(* graph at the user's path that the build has not written is the one      *)
(* statGraph found (GraphInv).                                             *)
(***************************************************************************)
EXTENDS WrapSession, TLAPS

\* SessionTypeOK, a kind of variable at a time, with no bound on the pieces but
\* that on what is written.
FlagKind ==
  /\ explain \in BOOLEAN /\ holder \in BOOLEAN /\ notified \in BOOLEAN
  /\ owed \in BOOLEAN /\ tmp \in BOOLEAN /\ gaveUp \in BOOLEAN
  /\ reported \in BOOLEAN

ProcessKind ==
  /\ graphArg \in {"none", "path", "empty"}
  /\ main \in Labels
  /\ probe \in {"off", "running", "sent"}
  /\ child \in {"none", "running", "exited"}
  /\ copier \in {"off", "on", "done"}
  /\ setup \in {"ok", "failed"}
  /\ why \in {"", "rejected", "not started", "wait failed"}

CountKind ==
  /\ pipe \in Nat /\ held \in Nat /\ shown \in Nat
  /\ written \in 0..MaxWrites
  /\ sigs \in 0..1
  /\ interrupts \in 0..MaxInterrupts

GraphKind ==
  {file, before} \subseteq [exists : BOOLEAN, stamp : 0..2, mine : BOOLEAN]

ExitKind ==
  /\ status \in [code : ExitCodes \cup {0}, signal : Signals \cup {0, 2}]
  /\ code \in Nat

KindInv == FlagKind /\ ProcessKind /\ CountKind /\ GraphKind /\ ExitKind

\* wrapWith has passed cmd.Start, respectively cmd.Wait and tee.Flush.
Started == main \in {"notify", "wait", "drain", "stop", "flush", "version", "graph"}
Waited == main \in {"stop", "flush", "version", "graph"}
Unstarted == why \in {"rejected", "not started"}

\* Where the child and its copier can be at each step of wrapWith.
StageInv ==
  /\ main \in {"check", "setup", "start"} =>
       child = "none" /\ why = ""
  /\ Started => child # "none" /\ why = ""
  /\ main \in {"drain"} \/ Waited => child = "exited"
  /\ Waited => copier # "on"
  /\ main = "killed" => why = ""
  /\ main = "gone" /\ Unstarted => child = "none"
  /\ main = "gone" /\ ~ Unstarted => child = "exited" /\ copier # "on"
  /\ child = "none" => ~ holder /\ copier = "off"
  /\ explain /\ child # "none" => copier # "off"
  /\ ~ explain => copier = "off"

\* Where the pieces are that have been written.
PieceInv ==
  /\ child = "none" => written = 0
  /\ ~ explain => pipe = 0 /\ held = 0 /\ shown = written
  /\ shown + held + pipe <= written
  /\ explain /\ ~ gaveUp /\ main # "killed" => shown + held + pipe = written
  /\ copier = "done" => pipe = 0
  /\ copier = "done" /\ ~ gaveUp /\ main # "killed" =>
       child = "exited" /\ ~ holder
  /\ main \in {"version", "graph", "gone"} => held = 0

\* What is at the path the user gave for the graph.
GraphInv ==
  graphArg = "path" =>
    /\ ~ tmp
    /\ main = "start" \/ Started =>
         before = StatError \/ file = before \/ file.mine

SInv ==
  /\ KindInv
  /\ StageInv
  /\ PieceInv
  /\ GraphInv
  /\ ExitIsChilds
  /\ NoStaleReport
-----------------------------------------------------------------------------
\* No step gives a variable a value of another kind.
LEMMA CountKindPreserved == KindInv /\ [Next]_vars => CountKind'
<1> SUFFICES ASSUME KindInv, [Next]_vars PROVE CountKind'
  OBVIOUS
<1>0. CountKind /\ MaxWrites \in Nat /\ MaxInterrupts \in Nat
  BY BoundsAssumption DEF KindInv
<1> USE DEF CountKind
<1>1. CASE UNCHANGED <<pipe, held, shown, written, sigs, interrupts>>
  BY <1>0, <1>1
<1>2. CASE StopForwarding
  BY <1>0, <1>2 DEF StopForwarding, stderrVars
<1>3. CASE Forward
  BY <1>0, <1>3 DEF Forward, stderrVars
<1>4. CASE UserInterrupts
  BY <1>0, <1>4 DEF UserInterrupts, Capacity
<1>5. CASE WaitDelay
  BY <1>0, <1>5 DEF WaitDelay, signalVars
<1>6. CASE Flush
  <2>1. /\ shown' = shown + held /\ held' = 0
        /\ UNCHANGED <<pipe, written, sigs, interrupts>>
    BY <1>6, Zenon DEF Flush, Flushed, signalVars
  <2> QED
    BY <1>0, <2>1
<1>7. CASE Copy
  BY <1>0, <1>7 DEF Copy, signalVars
<1>8. CASE ChildWrites
  BY <1>0, <1>8 DEF ChildWrites, signalVars
<1> QED
  BY <1>1, <1>2, <1>3, <1>4, <1>5, <1>6, <1>7, <1>8
  DEF Next, MainStep, vars, stderrVars, signalVars, Check, Setup, Start,
      Notify, WaitChild, WaitCopier, Version, SkipAnalysis, Analyze,
      ProbeEnds, CopyEnds, ChildWritesGraph, ChildExits, DescendantEnds

\* The types of the flags are preserved,
LEMMA FlagKindPreserved == KindInv /\ [Next]_vars => FlagKind'
<1> SUFFICES ASSUME KindInv, [Next]_vars PROVE FlagKind'
  OBVIOUS
<1>0. FlagKind /\ file.exists \in BOOLEAN
  BY DEF KindInv, GraphKind
<1> USE DEF FlagKind, stderrVars, signalVars, graphVars, endVars
<1>1. CASE UNCHANGED <<explain, holder, notified, owed, tmp, gaveUp, reported>>
  BY <1>0, <1>1
<1>2. CASE UNCHANGED <<explain, holder, notified, owed, gaveUp, reported>>
           /\ tmp' \in {FALSE, tmp}
  BY <1>0, <1>2
<1>3. CASE Setup
  <2>1. tmp' \in {TRUE, FALSE, tmp}
    BY <1>0, <1>3, KindInv DEF Setup, KindInv, ProcessKind
  <2> QED
    BY <1>0, <1>3, <2>1, Zenon DEF Setup
<1>4. CASE Notify
  BY <1>0, <1>4, Zenon DEF Notify
<1>5. CASE WaitDelay
  BY <1>0, <1>5, Zenon DEF WaitDelay
<1>6. CASE StopForwarding
  BY <1>0, <1>6, Zenon DEF StopForwarding
<1>7. CASE Analyze
  BY <1>0, <1>7, Zenon DEF Analyze, Return
<1>8. CASE Forward
  BY <1>0, <1>8, Zenon DEF Forward
<1>9. CASE ChildExits
  BY <1>0, <1>9, Zenon DEF ChildExits
<1>10. CASE DescendantEnds
  BY <1>0, <1>10, Zenon DEF DescendantEnds
<1>11. CASE UserInterrupts
  BY <1>0, <1>11, Zenon DEF UserInterrupts
<1>12. CASE Check \/ Start \/ Flush \/ SkipAnalysis
  BY <1>2, <1>12 DEF Check, Start, Flush, SkipAnalysis, Return
<1> QED
  BY <1>1, <1>3, <1>4, <1>5, <1>6, <1>7, <1>8, <1>9, <1>10, <1>11, <1>12
  DEF Next, MainStep, vars, WaitChild, WaitCopier, Version, ProbeEnds, Copy,
      CopyEnds, ChildWrites, ChildWritesGraph

\* of the goroutines and processes,
LEMMA ProcessKindPreserved == KindInv /\ [Next]_vars => ProcessKind'
<1> SUFFICES ASSUME KindInv, [Next]_vars PROVE ProcessKind'
  OBVIOUS
<1>0. ProcessKind
  BY DEF KindInv
<1>1. CASE UNCHANGED <<graphArg, main, probe, child, copier, setup, why>>
  BY <1>0, <1>1 DEF ProcessKind
<1>2. ASSUME main' \in Labels, UNCHANGED <<graphArg, probe, child, setup, why>>,
             copier' \in {copier, "done"}
      PROVE  ProcessKind'
  BY <1>0, <1>2 DEF ProcessKind
<1>3. ASSUME child' \in {child, "exited"},
             UNCHANGED <<graphArg, main, probe, copier, setup, why>>
      PROVE  ProcessKind'
  BY <1>0, <1>3 DEF ProcessKind
<1>4. CASE Check
  BY <1>0, <1>4 DEF Check, Return, ProcessKind, Labels, stderrVars, graphVars
<1>5. CASE Setup
  BY <1>0, <1>5 DEF Setup, ProcessKind, Labels, stderrVars, endVars
<1>6. CASE Start
  BY <1>0, <1>6 DEF Start, Return, ProcessKind, Labels, graphVars
<1>7. CASE Notify \/ WaitChild \/ WaitCopier \/ WaitDelay \/ StopForwarding
           \/ Version
  BY <1>2, <1>7 DEF Notify, WaitChild, WaitCopier, WaitDelay, StopForwarding,
                    Version, Labels, stderrVars, graphVars, endVars
<1>8. CASE Flush
  BY <1>0, <1>8 DEF Flush, Return, ProcessKind, Labels, graphVars
<1>9. CASE SkipAnalysis \/ Analyze
  BY <1>0, <1>9 DEF SkipAnalysis, Analyze, Return, ProcessKind, Labels,
                    stderrVars
<1>10. CASE ProbeEnds
  BY <1>0, <1>10 DEF ProbeEnds, ProcessKind, stderrVars, graphVars, endVars
<1>11. CASE CopyEnds
  BY <1>0, <1>2, <1>11 DEF CopyEnds, ProcessKind, graphVars, endVars
<1>12. CASE Forward \/ ChildExits
  BY <1>3, <1>12 DEF Forward, ChildExits, stderrVars, graphVars, endVars
<1>13. CASE UserInterrupts
  BY <1>0, <1>13, Zenon DEF UserInterrupts, ProcessKind, Labels, graphVars, endVars
<1> QED
  BY <1>1, <1>4, <1>5, <1>6, <1>7, <1>8, <1>9, <1>10, <1>11, <1>12, <1>13
  DEF Next, MainStep, vars, stderrVars, graphVars, endVars, Copy, ChildWrites,
      ChildWritesGraph, DescendantEnds

\* of the graph file,
LEMMA GraphKindPreserved == KindInv /\ [Next]_vars => GraphKind'
<1> SUFFICES ASSUME KindInv, [Next]_vars PROVE GraphKind'
  OBVIOUS
<1> DEFINE Files == [exists : BOOLEAN, stamp : 0..2, mine : BOOLEAN]
<1>0. file \in Files /\ before \in Files
  BY DEF KindInv, GraphKind
<1>1. Absent \in Files /\ StatError \in Files
  BY DEF Absent, StatError
<1>2. ASSUME file' \in Files, before' \in Files PROVE GraphKind'
  BY <1>2 DEF GraphKind
<1> HIDE DEF Files
<1>3. CASE UNCHANGED <<file, before>>
  BY <1>0, <1>2, <1>3
<1>4. ASSUME NEW c, NEW reason, Return(c, reason) PROVE GraphKind'
  BY <1>0, <1>1, <1>2, <1>4 DEF Return
<1>5. CASE Setup
  <2>1. UNCHANGED file /\ before' \in {file, StatError, before}
    BY <1>5 DEF Setup, KindInv, ProcessKind
  <2> QED
    BY <1>0, <1>1, <1>2, <2>1
<1>6. CASE ChildWritesGraph
  <2>1. PICK stamp \in 0..1 :
          file' = [exists |-> TRUE, stamp |-> stamp, mine |-> TRUE]
    BY <1>6 DEF ChildWritesGraph
  <2>2. file' \in Files
    BY <2>1 DEF Files
  <2> QED
    BY <1>0, <1>2, <1>6, <2>2 DEF ChildWritesGraph
<1> QED
  BY <1>3, <1>4, <1>5, <1>6
  DEF Next, MainStep, vars, graphVars, Check, Start, Notify, WaitChild,
      WaitCopier, WaitDelay, StopForwarding, Flush, Version, SkipAnalysis,
      Analyze, ProbeEnds, Copy, CopyEnds, Forward, ChildWrites, ChildExits,
      DescendantEnds, UserInterrupts

\* of the exit code and status,
LEMMA ExitKindPreserved == KindInv /\ [Next]_vars => ExitKind'
<1> SUFFICES ASSUME KindInv, [Next]_vars PROVE ExitKind'
  OBVIOUS
<1>0. /\ status \in [code : ExitCodes \cup {0}, signal : Signals \cup {0, 2}]
      /\ code \in Nat /\ ExitCodes \subseteq Nat /\ Signals \subseteq Nat
  BY CodesAssumption DEF KindInv, ExitKind
<1>1. CASE UNCHANGED <<status, code>>
  BY <1>0, <1>1 DEF ExitKind
<1>2. ASSUME NEW c \in Nat, NEW reason, Return(c, reason), UNCHANGED status
      PROVE  ExitKind'
  BY <1>0, <1>2 DEF ExitKind, Return
<1>3. CASE SkipAnalysis \/ Analyze
  <2>a. status.code \in ExitCodes \cup {0} /\ status.signal \in Signals \cup {0, 2}
    BY <1>0
  <2>b. status.code \in Nat /\ status.signal \in Nat
    <3>1. /\ \A x \in ExitCodes \cup {0} : x \in Nat
          /\ \A x \in Signals \cup {0, 2} : x \in Nat
      BY <1>0
    <3> QED
      BY <2>a, <3>1, Zenon
  <2>c. \A n \in Nat : 128 + n \in Nat
    OBVIOUS
  <2>1. ExitCode(status) \in Nat
    BY <2>b, <2>c, Zenon DEF ExitCode
  <2>2. Return(ExitCode(status), "") /\ UNCHANGED status
    BY <1>3 DEF SkipAnalysis, Analyze, SkipCode
  <2> QED
    BY <1>2, <2>1, <2>2
<1>4. CASE Forward
  <2>1. status' \in {status, Interrupted} /\ UNCHANGED code
    BY <1>4 DEF Forward, endVars
  <2> QED
    BY <1>0, <2>1 DEF ExitKind, Interrupted
<1>5. CASE ChildExits
  BY <1>0, <1>5 DEF ChildExits, ExitKind, endVars
<1> QED
  BY <1>1, <1>2, <1>3, <1>4, <1>5
  DEF Next, MainStep, vars, endVars, Check, Setup, Start, Notify, WaitChild,
      WaitCopier, WaitDelay, StopForwarding, Flush, Version, ProbeEnds, Copy,
      CopyEnds, ChildWrites, ChildWritesGraph, DescendantEnds, UserInterrupts

\* and so all of them.
LEMMA KindPreserved == KindInv /\ [Next]_vars => KindInv'
BY FlagKindPreserved, ProcessKindPreserved, CountKindPreserved,
   GraphKindPreserved, ExitKindPreserved DEF KindInv
-----------------------------------------------------------------------------
\* The child is started once and ends once, and wrapWith passes cmd.Wait only
\* when it has ended and nothing copies its stderr any more.
LEMMA StagePreserved == SInv /\ [Next]_vars => StageInv'
<1> SUFFICES ASSUME SInv, [Next]_vars PROVE StageInv'
  OBVIOUS
<1>0. StageInv
  BY DEF SInv
<1> USE DEF StageInv, Started, Waited, Unstarted
<1>1. CASE UNCHANGED <<explain, main, child, holder, copier, why>>
  BY <1>0, <1>1
<1>2. CASE Check
  BY <1>0, <1>2 DEF Check, Return, stderrVars
<1>3. CASE Setup
  BY <1>0, <1>3 DEF Setup, stderrVars, endVars
<1>4. CASE Start
  BY <1>0, <1>4 DEF Start, Return
<1>5. CASE Notify
  BY <1>0, <1>5 DEF Notify, stderrVars, endVars
<1>6. CASE WaitChild
  BY <1>0, <1>6 DEF WaitChild, stderrVars, endVars
<1>7. CASE WaitCopier
  BY <1>0, <1>7 DEF WaitCopier, stderrVars, endVars
<1>8. CASE WaitDelay
  BY <1>0, <1>8 DEF WaitDelay, WaitDelayed
<1>9. CASE StopForwarding
  BY <1>0, <1>9 DEF StopForwarding, stderrVars, endVars
<1>10. CASE Flush
  BY <1>0, <1>10 DEF Flush, Return
<1>11. CASE Version
  BY <1>0, <1>11 DEF Version, stderrVars, endVars
<1>12. CASE SkipAnalysis \/ Analyze
  <2>1. /\ main = "graph" /\ main' = "gone" /\ why' = ""
        /\ UNCHANGED <<explain, child, holder, copier>>
    BY <1>12 DEF SkipAnalysis, Analyze, Return, stderrVars
  <2> QED
    BY <1>0, <2>1
<1>13. CASE CopyEnds
  BY <1>0, <1>13 DEF CopyEnds, endVars
<1>14. CASE Forward
  BY <1>0, <1>14 DEF Forward, stderrVars, endVars
<1>15. CASE ChildExits
  BY <1>0, <1>15 DEF ChildExits, endVars
<1>16. CASE DescendantEnds
  BY <1>0, <1>16 DEF DescendantEnds, endVars
<1>17. CASE UserInterrupts
  <2>1. /\ ~ Ended
        /\ UNCHANGED <<explain, child, holder, why>>
        /\ \/ UNCHANGED <<main, copier>>
           \/ /\ main' = "killed"
              /\ copier' = copier \/ (copier = "on" /\ copier' = "done")
    BY <1>17 DEF UserInterrupts, endVars
  <2>2. main \in Labels \ {"gone", "killed"}
    BY <2>1 DEF SInv, KindInv, ProcessKind, Ended
  <2>3. why = ""
    BY <1>0, <2>2 DEF Labels
  <2> QED
    BY <1>0, <2>1, <2>2, <2>3
<1> HIDE DEF StageInv
<1> QED
  BY <1>1, <1>2, <1>3, <1>4, <1>5, <1>6, <1>7, <1>8, <1>9, <1>10, <1>11,
     <1>12, <1>13, <1>14, <1>15, <1>16, <1>17
  DEF Next, MainStep, vars, stderrVars, endVars, ProbeEnds, Copy,
      ChildWrites, ChildWritesGraph

\* A piece is written into the pipe, copied into the tee and shown, in this
\* order; the copier ends of itself only on an empty pipe that nobody writes to.
LEMMA PiecePreserved == SInv /\ [Next]_vars => PieceInv'
<1> SUFFICES ASSUME SInv, [Next]_vars PROVE PieceInv'
  OBVIOUS
<1>0. PieceInv /\ StageInv /\ CountKind
  BY DEF SInv, KindInv
<1>n. /\ pipe \in Nat /\ held \in Nat /\ shown \in Nat /\ written \in Nat
  BY <1>0, BoundsAssumption DEF CountKind
<1> USE DEF PieceInv
<1>a. ASSUME UNCHANGED <<explain, child, stderrVars, gaveUp>>,
             main' \in {"version", "graph", "gone"} =>
               main \in {"version", "graph", "gone"} \/ child = "none",
             main' = "killed" <=> main = "killed"
      PROVE  PieceInv'
  <2>1. main' \in {"version", "graph", "gone"} => held = 0
    BY <1>0, <1>n, <1>a
  <2> QED
    BY <1>0, <1>a, <2>1 DEF stderrVars
<1>1. CASE UNCHANGED <<explain, main, child, stderrVars, gaveUp>>
  BY <1>a, <1>1
<1>2. CASE Check
  BY <1>0, <1>a, <1>2 DEF Check, Return, StageInv
<1>3. CASE Setup
  BY <1>a, <1>3 DEF Setup, endVars
<1>4. CASE Start
  <2>1. child = "none" /\ main = "start"
    BY <1>0, <1>4 DEF Start, StageInv
  <2>2. CASE Return(1, "not started") /\ UNCHANGED <<child, copier>>
    BY <1>a, <1>4, <2>1, <2>2 DEF Start, Return, stderrVars
  <2>3. CASE ~ (Return(1, "not started") /\ UNCHANGED <<child, copier>>)
    <3>1. /\ main' = "notify" /\ copier' # "done"
          /\ UNCHANGED <<explain, pipe, held, shown, written, gaveUp>>
      BY <1>4, <2>3 DEF Start
    <3>2. child' # "none"
      BY <1>4, <2>3 DEF Start
    <3> QED
      BY <1>0, <2>1, <3>1, <3>2
  <2> QED
    BY <2>2, <2>3
<1>5. CASE Notify \/ WaitChild \/ WaitCopier \/ StopForwarding \/ Version
  BY <1>a, <1>5 DEF Notify, WaitChild, WaitCopier, StopForwarding, Version,
                    endVars
<1>6. CASE WaitDelay
  BY <1>0, <1>n, <1>6 DEF WaitDelay
<1>7. CASE Flush
  <2>1. /\ main = "flush" /\ main' \in {"version", "gone"}
        /\ shown' = shown + held /\ held' = 0
        /\ UNCHANGED <<explain, child, holder, pipe, copier, written, gaveUp>>
    BY <1>7 DEF Flush, Flushed, Return
  <2> QED
    BY <1>0, <1>n, <2>1
<1>8. CASE SkipAnalysis \/ Analyze
  BY <1>a, <1>8 DEF SkipAnalysis, Analyze, Return
<1>9. CASE Copy
  <2>1. /\ copier = "on" /\ pipe > 0 /\ pipe' = pipe - 1
        /\ UNCHANGED <<explain, main, child, holder, copier, written, gaveUp>>
    BY <1>9 DEF Copy, endVars
  <2>2. explain /\ child # "none" /\ main \notin {"version", "graph"}
    BY <1>0, <2>1 DEF StageInv, Waited
  <2>3. main # "gone"
    BY <1>0, <2>1, <2>2 DEF StageInv, Unstarted
  <2>4. pipe \in Nat \ {0}
    BY <1>n, <2>1
  <2>5. CASE shown' = shown + held + 1 /\ held' = 0
    <3>1. shown' + held' + pipe' = shown + held + pipe
      BY <1>n, <2>1, <2>4, <2>5
    <3> QED
      BY <1>0, <2>1, <2>2, <2>3, <3>1
  <2>6. CASE held' = held + 1 /\ shown' = shown
    <3>1. shown' + held' + pipe' = shown + held + pipe
      BY <1>n, <2>1, <2>4, <2>6
    <3> QED
      BY <1>0, <2>1, <2>2, <2>3, <3>1
  <2> QED
    BY <1>9, <2>5, <2>6 DEF Copy
<1>10. CASE CopyEnds
  BY <1>0, <1>10 DEF CopyEnds, endVars
<1>11. CASE Forward
  BY <1>0, <1>11 DEF Forward, stderrVars, endVars
<1>12. CASE ChildWrites
  <2>1. /\ child = "running" \/ holder
        /\ written' = written + 1
        /\ UNCHANGED <<explain, main, child, holder, held, copier, gaveUp>>
    BY <1>12 DEF ChildWrites, endVars
  <2>2. child # "none"
    BY <1>0, <2>1 DEF StageInv
  <2>3. CASE ~ explain
    <3>1. shown' = shown + 1 /\ pipe' = pipe
      BY <1>12, <2>3 DEF ChildWrites
    <3> QED
      BY <1>0, <1>n, <2>1, <2>2, <2>3, <3>1
  <2>4. CASE explain /\ copier = "on"
    <3>1. shown' = shown /\ pipe' = pipe + 1
      BY <1>12, <2>4 DEF ChildWrites
    <3> QED
      BY <1>0, <1>n, <2>1, <2>2, <2>4, <3>1
  <2>5. CASE explain /\ copier # "on"
    <3>1. shown' = shown /\ pipe' = pipe
      BY <1>12, <2>5 DEF ChildWrites
    <3>2. copier = "done" /\ (gaveUp \/ main = "killed")
      BY <1>0, <2>1, <2>2, <2>5 DEF StageInv, SInv, KindInv, ProcessKind
    <3> QED
      BY <1>0, <1>n, <2>1, <2>2, <2>5, <3>1, <3>2
  <2> QED
    BY <2>3, <2>4, <2>5
<1>13. CASE ChildExits
  BY <1>0, <1>13 DEF ChildExits, endVars
<1>14. CASE DescendantEnds
  BY <1>0, <1>14 DEF DescendantEnds, endVars
<1>15. CASE UserInterrupts
  <2>1. /\ ~ Ended
        /\ UNCHANGED <<explain, child, holder, held, shown, written, gaveUp>>
        /\ \/ UNCHANGED <<main, copier, pipe>>
           \/ main' = "killed" /\ pipe' = 0
    BY <1>15 DEF UserInterrupts, endVars
  <2> QED
    BY <1>0, <1>n, <2>1
<1> HIDE DEF PieceInv
<1> QED
  BY <1>1, <1>2, <1>3, <1>4, <1>5, <1>6, <1>7, <1>8, <1>9, <1>10, <1>11,
     <1>12, <1>13, <1>14, <1>15
  DEF Next, MainStep, vars, endVars, ProbeEnds, ChildWritesGraph

\* A graph at the user's path that the build has not written is the one that
\* statGraph found; longpole itself never removes it.
LEMMA GraphPreserved == SInv /\ [Next]_vars => GraphInv'
<1> SUFFICES ASSUME SInv, [Next]_vars, graphArg' = "path"
             PROVE  /\ ~ tmp'
                    /\ main' = "start" \/ Started' =>
                         before' = StatError \/ file' = before' \/ file'.mine
  BY DEF GraphInv
<1>0. graphArg = "path"
  BY DEF Next, MainStep, vars, Check, Setup, Start, Notify, WaitChild,
         WaitCopier, WaitDelay, StopForwarding, Flush, Version, SkipAnalysis,
         Analyze, ProbeEnds, Copy, CopyEnds, Forward, ChildWrites,
         ChildWritesGraph, ChildExits, DescendantEnds, UserInterrupts
<1>1. /\ ~ tmp
      /\ main = "start" \/ Started =>
           before = StatError \/ file = before \/ file.mine
  BY <1>0 DEF SInv, GraphInv
<1>2. CASE /\ UNCHANGED <<file, before, tmp>>
           /\ main' = "start" \/ Started' => main = "start" \/ Started
  BY <1>1, <1>2
<1>3. CASE \E c, reason : Return(c, reason)
  BY <1>1, <1>3 DEF Return, Started
<1>4. CASE Check
  BY <1>1, <1>3, <1>4 DEF Check, graphVars, Started
<1>5. CASE Setup
  BY <1>0, <1>1, <1>5 DEF Setup
<1>6. CASE ChildWritesGraph
  BY <1>1, <1>6 DEF ChildWritesGraph
<1>7. CASE Start \/ Flush \/ SkipAnalysis \/ Analyze
  BY <1>2, <1>3, <1>7 DEF Start, Flush, SkipAnalysis, Analyze, graphVars,
                          Started
<1>8. CASE Notify \/ WaitChild \/ WaitCopier \/ WaitDelay \/ StopForwarding
           \/ Version
  BY <1>2, <1>8 DEF Notify, WaitChild, WaitCopier, WaitDelay, StopForwarding,
                    Version, graphVars, Started
<1>9. CASE UserInterrupts
  BY <1>2, <1>9 DEF UserInterrupts, graphVars, Started
<1> QED
  BY <1>2, <1>4, <1>5, <1>6, <1>7, <1>8, <1>9
  DEF Next, MainStep, vars, graphVars, Started, ProbeEnds, Copy, CopyEnds,
      Forward, ChildWrites, ChildExits, DescendantEnds

\* The exit code is computed from the status of a child that has ended, and a
\* status is never set again.
LEMMA ExitPreserved == SInv /\ [Next]_vars => ExitIsChilds'
<1> SUFFICES ASSUME SInv, [Next]_vars PROVE ExitIsChilds'
  OBVIOUS
<1>0. ExitIsChilds /\ StageInv
  BY DEF SInv
<1>1. ASSUME main = "gone", UNCHANGED <<main, child, status, code, why>>
      PROVE  ExitIsChilds'
  BY <1>0, <1>1 DEF ExitIsChilds
<1>2. CASE main' # "gone"
  BY <1>2 DEF ExitIsChilds
<1>3. CASE main = "gone"
  <2>1. why = "" => child = "exited"
    BY <1>0, <1>3 DEF StageInv, Unstarted
  <2>2. CASE Forward
    BY <1>0, <1>3, <2>1, <2>2 DEF ExitIsChilds, Forward, endVars
  <2>3. CASE ChildExits
    BY <1>0, <1>3, <2>1, <2>3 DEF ExitIsChilds, ChildExits, endVars
  <2> QED
    BY <1>1, <1>3, <2>2, <2>3
    DEF Next, MainStep, vars, endVars, Check, Setup, Start, Notify, WaitChild,
        WaitCopier, WaitDelay, StopForwarding, Flush, Version, SkipAnalysis,
        Analyze, ProbeEnds, Copy, CopyEnds, ChildWrites, ChildWritesGraph,
        DescendantEnds, UserInterrupts, Ended
<1>4. CASE main # "gone" /\ main' = "gone"
  <2>1. CASE SkipAnalysis \/ Analyze
    <3>1. /\ main = "graph" /\ code' = ExitCode(status)
          /\ UNCHANGED <<child, status>>
      BY <2>1 DEF SkipAnalysis, Analyze, SkipCode, Return
    <3>2. child = "exited"
      BY <1>0, <3>1 DEF StageInv, Waited
    <3> QED
      BY <3>1, <3>2 DEF ExitIsChilds, ExitCode
  <2>2. why' # "" \/ SkipAnalysis \/ Analyze
    BY <1>4 DEF Next, MainStep, vars, Check, Setup, Start, Notify, WaitChild,
       WaitCopier, WaitDelay, StopForwarding, Flush, Version, Return,
       ProbeEnds, Copy, CopyEnds, Forward, ChildWrites, ChildWritesGraph,
       ChildExits, DescendantEnds, UserInterrupts
  <2> QED
    BY <2>1, <2>2 DEF ExitIsChilds
<1> QED
  BY <1>2, <1>3, <1>4

\* updatedBy tells a graph of this build from the one statGraph found.
LEMMA ReportPreserved == SInv /\ [Next]_vars => NoStaleReport'
<1> SUFFICES ASSUME SInv, [Next]_vars, reported', graphArg' = "path"
             PROVE  file'.mine
  BY DEF NoStaleReport
<1>0. NoStaleReport /\ GraphInv
  BY DEF SInv
<1>1. graphArg = "path"
  BY DEF Next, MainStep, vars, Check, Setup, Start, Notify, WaitChild,
         WaitCopier, WaitDelay, StopForwarding, Flush, Version, SkipAnalysis,
         Analyze, ProbeEnds, Copy, CopyEnds, Forward, ChildWrites,
         ChildWritesGraph, ChildExits, DescendantEnds, UserInterrupts
<1>2. ~ tmp
  BY <1>0, <1>1 DEF GraphInv
<1>3. CASE Analyze
  <2>1. /\ main = "graph" /\ before # StatError /\ UpdatedBy(before, file)
        /\ file' = file
    BY <1>1, <1>2, <1>3 DEF Analyze, Analyzable, Return
  <2>2. file = before \/ file.mine
    BY <1>0, <1>1, <2>1 DEF GraphInv, Started
  <2>3. file # before
    BY <2>1 DEF UpdatedBy
  <2> QED
    BY <2>1, <2>2, <2>3
<1>4. CASE ChildWritesGraph
  BY <1>4 DEF ChildWritesGraph
<1>5. CASE ~ Analyze /\ ~ ChildWritesGraph
  <2>1. reported /\ file' = file
    BY <1>2, <1>5 DEF Next, MainStep, vars, graphVars, endVars, Check, Setup,
       Start, Notify, WaitChild, WaitCopier, WaitDelay, StopForwarding, Flush,
       Version, SkipAnalysis, Return, ProbeEnds, Copy, CopyEnds, Forward,
       ChildWrites, ChildExits, DescendantEnds, UserInterrupts
  <2> QED
    BY <1>0, <1>1, <2>1 DEF NoStaleReport
<1> QED
  BY <1>3, <1>4, <1>5

\* A session that has not started.
LEMMA InitSInv == Init => SInv
<1> SUFFICES ASSUME Init PROVE SInv
  OBVIOUS
<1>a. /\ pipe = 0 /\ held = 0 /\ shown = 0 /\ written = 0 /\ sigs = 0
      /\ interrupts = 0
  BY Zenon DEF Init
<1>b. /\ main = "check" /\ child = "none" /\ copier = "off" /\ ~ holder /\ why = ""
  BY Zenon DEF Init
<1>1. FlagKind
  BY Zenon DEF Init, FlagKind
<1>2. ProcessKind
  BY DEF Init, ProcessKind, Labels
<1>3. CountKind
  BY <1>a, BoundsAssumption DEF CountKind
<1>4. GraphKind
  <2>1. file \in {Absent, Old} /\ before = Absent
    BY DEF Init
  <2>2. Absent \in [exists : BOOLEAN, stamp : 0..2, mine : BOOLEAN]
    BY DEF Absent
  <2>3. Old \in [exists : BOOLEAN, stamp : 0..2, mine : BOOLEAN]
    BY DEF Old
  <2> QED
    BY <2>1, <2>2, <2>3, Zenon DEF GraphKind
<1>5. ExitKind
  BY DEF Init, ExitKind
<1>6. StageInv
  BY <1>b DEF StageInv, Started, Waited
<1>7. PieceInv
  <2>1. shown + held + pipe = written /\ written <= written
    BY <1>a
  <2> QED
    BY <1>a, <1>b, <2>1, Zenon DEF PieceInv
<1>8. GraphInv
  BY DEF Init, GraphInv, Started
<1>9. ExitIsChilds /\ NoStaleReport
  BY DEF Init, ExitIsChilds, NoStaleReport
<1> QED
  BY <1>1, <1>2, <1>3, <1>4, <1>5, <1>6, <1>7, <1>8, <1>9 DEF SInv, KindInv

\* SInv is inductive.
LEMMA SessionInductive == Spec => []SInv
<1>1. SInv /\ [Next]_vars => SInv'
  BY KindPreserved, StagePreserved, PiecePreserved, GraphPreserved,
     ExitPreserved, ReportPreserved DEF SInv
<1> QED
  BY InitSInv, <1>1, PTL DEF Spec
-----------------------------------------------------------------------------
\* Every variable of a run of longpole holds a value of its kind; no more
\* pieces of stderr are in the pipe, in the tee or shown than were written.
THEOREM SessionTypeCorrect == Spec => []SessionTypeOK
<1>1. SInv => SessionTypeOK
  <2> SUFFICES ASSUME SInv PROVE SessionTypeOK
    OBVIOUS
  <2>1. FlagKind /\ ProcessKind /\ GraphKind /\ ExitKind
    BY DEF SInv, KindInv
  <2>2. CountKind /\ shown + held + pipe <= written
    BY DEF SInv, KindInv, PieceInv
  <2>3. {pipe, held, written, shown} \subseteq 0..MaxWrites
    BY <2>2, BoundsAssumption DEF CountKind
  <2> QED
    BY <2>1, <2>2, <2>3, Zenon
    DEF SessionTypeOK, FlagKind, ProcessKind, GraphKind, ExitKind, CountKind
<1> QED
  BY <1>1, SessionInductive, PTL

\* Whatever fails in the profiling, longpole exits with the go command's code,
\* 128 + signal when a signal ended it (runWrap, processExitCode).
THEOREM ExitCodeIsChilds == Spec => []ExitIsChilds
<1>1. SInv => ExitIsChilds
  BY DEF SInv
<1> QED
  BY <1>1, SessionInductive, PTL

\* A graph file that an earlier build left at the user's path is never the one
\* a report is about (graphFileState.updatedBy).
THEOREM ReportsOwnGraph == Spec => []NoStaleReport
<1>1. SInv => NoStaleReport
  BY DEF SInv
<1> QED
  BY <1>1, SessionInductive, PTL

\* When longpole goes on to its report the child has ended and every piece of
\* its stderr has been shown, unless Wait gave up on a descendant (tee.Flush,
\* cmd.WaitDelay).
THEOREM OutputComesFirst == Spec => []OutputBeforeReport
<1>1. SInv => OutputBeforeReport
  <2> SUFFICES ASSUME SInv, main \in {"version", "graph", "gone"}, ~ Unstarted
               PROVE  /\ child = "exited" /\ copier # "on"
                      /\ explain /\ ~ gaveUp => shown = written
    BY DEF OutputBeforeReport, Unstarted
  <2>1. StageInv /\ PieceInv /\ ProcessKind
    BY DEF SInv, KindInv
  <2>2. child = "exited" /\ copier # "on"
    BY <2>1 DEF StageInv, Waited
  <2>3. ASSUME explain, ~ gaveUp PROVE shown = written
    <3>1. held = 0 /\ pipe = 0 /\ shown + held + pipe = written
      BY <2>1, <2>2, <2>3 DEF PieceInv, StageInv, ProcessKind
    <3>2. shown \in Nat
      BY DEF SInv, KindInv, CountKind
    <3> QED
      BY <3>1, <3>2
  <2> QED
    BY <2>2, <2>3
<1> QED
  BY <1>1, SessionInductive, PTL
=============================================================================
