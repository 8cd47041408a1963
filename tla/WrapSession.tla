----------------------------- MODULE WrapSession -----------------------------
(***************************************************************************)
(* One `longpole go build ...` from start to exit: wrapWith in             *)
(* cmd/longpole/main.go and Run in internal/wrap.                          *)
(*                                                                         *)
(* Five processes act at once: the main goroutine, the goroutine that asks *)
(* the toolchain for its version, the goroutine that forwards interrupts,  *)
(* os/exec's goroutine that copies the child's stderr into the tee (only   *)
(* under `longpole why`), and the child with the descendants that inherit  *)
(* its stderr.  The user may press Ctrl-C or signal longpole alone.        *)
(***************************************************************************)
EXTENDS Naturals

CONSTANTS
  ExitCodes,      \* codes the child may exit with
  Signals,        \* signals the child may die of
  MaxWrites,      \* bound: pieces of stderr the child and descendants write
  MaxInterrupts   \* bound: interrupts the user sends

ASSUME CodesAssumption == ExitCodes \subseteq Nat /\ Signals \subseteq Nat \ {0}
ASSUME BoundsAssumption == MaxWrites \in Nat /\ MaxInterrupts \in Nat

VARIABLES
  explain,    \* stderr goes through the tee
  graphArg,   \* -debug-actiongraph in argv: "none", "path" or "empty"
  main,       \* the next step of wrapWith
  probe,      \* the version goroutine: "off", "running", "sent"
  child,      \* "none", "running", "exited"
  status,     \* how the child ended: its exit code and the signal, 0 if none
  holder,     \* a descendant holds the child's stderr after its exit
  pipe,       \* pieces in the pipe between child and copier
  copier,     \* the copying goroutine: "off", "on", "done"
  held,       \* pieces of an unfinished line in the tee
  written,    \* pieces written to the child's stderr so far
  shown,      \* pieces that reached longpole's own stderr
  notified,   \* signal.Notify is in force
  sigs,       \* the channel of capacity 1
  interrupts, \* interrupts the user has sent
  owed,       \* one of them is caught and not yet passed on to the child
  file,       \* the action graph file
  before,     \* graphBefore, or what statGraph returned instead
  tmp,        \* the temporary directory exists
  setup,      \* setupErr: "ok" or "failed"
  gaveUp,     \* Wait closed the pipe after WaitDelay
  reported,   \* the report was printed
  code,       \* longpole's exit code
  why         \* why there is no exit code of a child to return, or ""

stderrVars == <<holder, pipe, copier, held, written, shown>>
signalVars == <<notified, sigs, interrupts, owed>>
graphVars == <<file, before, tmp, setup>>
endVars == <<gaveUp, reported, code, why>>
vars == <<explain, graphArg, main, probe, child, status, stderrVars,
          signalVars, graphVars, endVars>>

Absent == [exists |-> FALSE, stamp |-> 0, mine |-> FALSE]
Old == [exists |-> TRUE, stamp |-> 0, mine |-> FALSE]
StatError == [exists |-> FALSE, stamp |-> 2, mine |-> FALSE]

Init ==
  /\ explain \in BOOLEAN
  /\ graphArg \in {"none", "path", "empty"}
  /\ main = "check"
  /\ probe = "off"
  /\ child = "none"
  /\ status = [code |-> 0, signal |-> 0]
  /\ holder = FALSE
  /\ pipe = 0
  /\ copier = "off"
  /\ held = 0
  /\ written = 0
  /\ shown = 0
  /\ notified = FALSE
  /\ sigs = 0
  /\ interrupts = 0
  /\ owed = FALSE
  /\ file \in IF graphArg = "path" THEN {Absent, Old} ELSE {Absent}
  /\ before = Absent
  /\ tmp = FALSE
  /\ setup = "ok"
  /\ gaveUp = FALSE
  /\ reported = FALSE
  /\ code = 0
  /\ why = ""

-----------------------------------------------------------------------------
(* The main goroutine.                                                     *)

\* processExitCode: a signalled child counts as 128 + signal.
ExitCode(s) == IF s.signal = 0 THEN s.code ELSE 128 + s.signal

\* wrapWith returns: the deferred RemoveAll takes the temporary directory
\* away, and main exits with the code.
Return(c, reason) ==
  /\ main' = "gone"
  /\ code' = c
  /\ why' = reason
  /\ tmp' = FALSE
  /\ file' = IF tmp THEN Absent ELSE file
  /\ UNCHANGED <<before, setup>>

\* wrap.Check, then the version goroutine starts.
Check ==
  /\ main = "check"
  /\ \/ /\ Return(2, "rejected")
        /\ UNCHANGED probe
     \/ /\ main' = "setup"
        /\ probe' = "running"
        /\ UNCHANGED <<graphVars, code, why>>
  /\ UNCHANGED <<explain, graphArg, child, status, stderrVars, signalVars,
                 gaveUp, reported>>

\* The user's graph is looked at; otherwise a temporary one is arranged.
Setup ==
  /\ main = "setup"
  /\ main' = "start"
  /\ CASE graphArg = "path" ->
            before' \in {file, StatError} /\ UNCHANGED <<tmp, setup>>
       [] graphArg = "empty" -> UNCHANGED <<before, tmp, setup>>
       [] graphArg = "none" ->
            /\ \/ tmp' = TRUE /\ setup' = "ok"
               \/ tmp' = FALSE /\ setup' = "failed"
            /\ UNCHANGED before
  /\ UNCHANGED <<explain, graphArg, probe, child, status, stderrVars,
                 signalVars, file, endVars>>

\* cmd.Start.  With a tee stderr is a pipe with a copying goroutine.
Start ==
  /\ main = "start"
  /\ \/ /\ main' = "notify"
        /\ child' = "running"
        /\ copier' = IF explain THEN "on" ELSE "off"
        /\ UNCHANGED <<graphVars, code, why>>
     \/ /\ Return(1, "not started")
        /\ UNCHANGED <<child, copier>>
  /\ UNCHANGED <<explain, graphArg, probe, status, holder, pipe, held,
                 written, shown, signalVars, gaveUp, reported>>

\* forwardInterrupts, after Start has returned.
Notify ==
  /\ main = "notify"
  /\ notified' = TRUE
  /\ main' = "wait"
  /\ UNCHANGED <<explain, graphArg, probe, child, status, stderrVars, sigs,
                 interrupts, owed, graphVars, endVars>>

\* cmd.Wait: the child has ended.
WaitChild ==
  /\ main = "wait"
  /\ child = "exited"
  /\ main' = "drain"
  /\ UNCHANGED <<explain, graphArg, probe, child, status, stderrVars,
                 signalVars, graphVars, endVars>>

\* cmd.Wait: the copier is done, or there is none.
WaitCopier ==
  /\ main = "drain"
  /\ copier # "on"
  /\ main' = "stop"
  /\ UNCHANGED <<explain, graphArg, probe, child, status, stderrVars,
                 signalVars, graphVars, endVars>>

\* Mutant of WaitDelayed: cmd.WaitDelay = 0.
WaitDelayed_Never == FALSE

\* WaitDelay has passed since the child's exit and someone holds its stderr.
WaitDelayed == copier = "on"

\* cmd.Wait closes the pipe and what is in it is lost.
WaitDelay ==
  /\ main = "drain"
  /\ WaitDelayed
  /\ copier' = "done"
  /\ pipe' = 0
  /\ gaveUp' = TRUE
  /\ main' = "stop"
  /\ UNCHANGED <<explain, graphArg, probe, child, status, holder, held,
                 written, shown, signalVars, graphVars, reported, code, why>>

\* stopForwarding: signal.Stop and close(done).
StopForwarding ==
  /\ main = "stop"
  /\ notified' = FALSE
  /\ sigs' = 0
  /\ main' = "flush"
  /\ UNCHANGED <<explain, graphArg, probe, child, status, stderrVars,
                 interrupts, owed, graphVars, endVars>>

\* Mutant of Flushed: the tee's last unfinished line stays in its buffer.
Flushed_Nothing == 0

\* What tee.Flush writes.
Flushed == held

\* tee.Flush; Run has failed when the child's state is not known.
Flush ==
  /\ main = "flush"
  /\ shown' = shown + Flushed
  /\ held' = 0
  /\ \/ main' = "version" /\ UNCHANGED <<graphVars, code, why>>
     \/ Return(1, "wait failed")
  /\ UNCHANGED <<explain, graphArg, probe, child, status, holder, pipe,
                 copier, written, signalVars, gaveUp, reported>>

\* goVersion := <-goVersionCh; an old or new version is only warned about.
Version ==
  /\ main = "version"
  /\ probe = "sent"
  /\ main' = "graph"
  /\ UNCHANGED <<explain, graphArg, probe, child, status, stderrVars,
                 signalVars, graphVars, endVars>>

\* Mutant of UpdatedBy: the file is there.
UpdatedBy_Exists(b, a) == a.exists

\* graphFileState.updatedBy
UpdatedBy(b, a) == a.exists /\ (~b.exists \/ b.stamp # a.stamp)

\* Mutant of SkipCode: a profiler that failed fails the build.
SkipCode_Failure == 1

\* "From here on, nothing may change the exit code."
SkipCode == ExitCode(status)

\* No graph to analyse: there is no temporary directory, the path is empty,
\* one of the two statGraph calls fails or they found the same file.
SkipAnalysis ==
  /\ main = "graph"
  /\ setup = "failed" \/ graphArg # "none"
  /\ Return(SkipCode, "")
  /\ UNCHANGED <<explain, graphArg, probe, child, status, stderrVars,
                 signalVars, gaveUp, reported>>

Analyzable ==
  /\ setup = "ok"
  /\ graphArg # "empty"
  /\ graphArg = "path" => before # StatError /\ UpdatedBy(before, file)

\* analyze: a missing or broken graph is a warning; a store that fails is
\* another one, and the report is printed either way.
Analyze ==
  /\ main = "graph"
  /\ Analyzable
  /\ \/ reported' = file.exists
     \/ reported' = FALSE                      \* the graph does not parse
  /\ Return(ExitCode(status), "")
  /\ UNCHANGED <<explain, graphArg, probe, child, status, stderrVars,
                 signalVars, gaveUp>>

-----------------------------------------------------------------------------
(* The other goroutines.                                                   *)

Ended == main \in {"gone", "killed"}

\* CommandVersion has an answer or an error; the channel holds one.
ProbeEnds ==
  /\ probe = "running"
  /\ ~Ended
  /\ probe' = "sent"
  /\ UNCHANGED <<explain, graphArg, main, child, status, stderrVars,
                 signalVars, graphVars, endVars>>

\* The copier hands a piece to the tee, which shows whole lines only.
Copy ==
  /\ copier = "on"
  /\ pipe > 0
  /\ pipe' = pipe - 1
  /\ \/ shown' = shown + held + 1 /\ held' = 0
     \/ held' = held + 1 /\ UNCHANGED shown
  /\ UNCHANGED <<explain, graphArg, main, probe, child, status, holder,
                 copier, written, signalVars, graphVars, endVars>>

\* End of file: nobody holds the other end of the pipe.
CopyEnds ==
  /\ copier = "on"
  /\ pipe = 0
  /\ child = "exited"
  /\ ~holder
  /\ copier' = "done"
  /\ UNCHANGED <<explain, graphArg, main, probe, child, status, holder, pipe,
                 held, written, shown, signalVars, graphVars, endVars>>

Interrupted == [code |-> 0, signal |-> 2]

\* The forwarder takes a signal from the channel and signals the child, which
\* may die of it or go on.
Forward ==
  /\ notified
  /\ sigs > 0
  /\ sigs' = sigs - 1
  /\ owed' = FALSE
  /\ \/ /\ child = "running"
        /\ child' = "exited"
        /\ status' = Interrupted
     \/ UNCHANGED <<child, status>>
  /\ UNCHANGED <<explain, graphArg, main, probe, stderrVars, notified,
                 interrupts, graphVars, endVars>>

-----------------------------------------------------------------------------
(* The child, its descendants and the user.                                *)

\* A piece of stderr, from the child or from a descendant that outlives it.
ChildWrites ==
  /\ child = "running" \/ holder
  /\ written < MaxWrites
  /\ written' = written + 1
  /\ IF explain
     THEN /\ pipe' = IF copier = "on" THEN pipe + 1 ELSE pipe
          /\ UNCHANGED shown
     ELSE shown' = shown + 1 /\ UNCHANGED pipe
  /\ UNCHANGED <<explain, graphArg, main, probe, child, status, holder, held,
                 copier, signalVars, graphVars, endVars>>

\* The go command writes the graph; a coarse clock may leave the stamp alone.
ChildWritesGraph ==
  /\ child = "running"
  /\ graphArg = "path" \/ tmp
  /\ ~file.mine
  /\ \E stamp \in 0..1 : file' = [exists |-> TRUE, stamp |-> stamp, mine |-> TRUE]
  /\ UNCHANGED <<explain, graphArg, main, probe, child, status, stderrVars,
                 signalVars, before, tmp, setup, endVars>>

ChildExits ==
  /\ child = "running"
  /\ child' = "exited"
  /\ \/ \E c \in ExitCodes : status' = [code |-> c, signal |-> 0]
     \/ \E s \in Signals : status' = [code |-> 0, signal |-> s]
  /\ holder' \in BOOLEAN
  /\ UNCHANGED <<explain, graphArg, main, probe, pipe, copier, held, written,
                 shown, signalVars, graphVars, endVars>>

DescendantEnds ==
  /\ holder
  /\ holder' = FALSE
  /\ UNCHANGED <<explain, graphArg, main, probe, child, status, pipe, copier,
                 held, written, shown, signalVars, graphVars, endVars>>

\* Mutants of Capacity: an unbuffered channel, and one slot too many.
Capacity_None == 0
Capacity_Two == 2

\* make(chan os.Signal, 1)
Capacity == 1

\* SIGINT for longpole: into the channel if it has room, else dropped; without
\* Notify the runtime's default disposition ends the process at once.
UserInterrupts ==
  /\ ~Ended
  /\ interrupts < MaxInterrupts
  /\ interrupts' = interrupts + 1
  /\ IF notified
     THEN /\ sigs' = IF sigs < Capacity THEN sigs + 1 ELSE sigs
          /\ owed' = (child = "running")
          /\ UNCHANGED <<main, copier, pipe>>
     ELSE /\ main' = "killed"
          /\ copier' = IF copier = "on" THEN "done" ELSE copier
          /\ pipe' = 0
          /\ UNCHANGED <<sigs, owed>>
  /\ UNCHANGED <<explain, graphArg, probe, child, status, holder, held,
                 written, shown, notified, graphVars, endVars>>

-----------------------------------------------------------------------------
MainStep ==
  \/ Check \/ Setup \/ Start \/ Notify \/ WaitChild \/ WaitCopier \/ WaitDelay
  \/ StopForwarding \/ Flush \/ Version \/ SkipAnalysis \/ Analyze

Next ==
  \/ MainStep
  \/ ProbeEnds \/ Copy \/ CopyEnds \/ Forward
  \/ ChildWrites \/ ChildWritesGraph \/ ChildExits \/ DescendantEnds
  \/ UserInterrupts

Spec == Init /\ [][Next]_vars

\* The Go runtime runs every runnable goroutine, the timers fire and
\* "go version" ends.  Nothing is assumed of the user, of the child and of its
\* descendants.
FairSpec ==
  /\ Spec
  /\ WF_vars(MainStep)
  /\ WF_vars(Copy \/ CopyEnds)
  /\ WF_vars(Forward)
  /\ WF_vars(ProbeEnds)

-----------------------------------------------------------------------------
Labels == {"check", "setup", "start", "notify", "wait", "drain", "stop",
           "flush", "version", "graph", "gone", "killed"}

\* Every variable holds a value of its kind.
SessionTypeOK ==
  /\ explain \in BOOLEAN
  /\ graphArg \in {"none", "path", "empty"}
  /\ main \in Labels
  /\ probe \in {"off", "running", "sent"}
  /\ child \in {"none", "running", "exited"}
  /\ status \in [code : ExitCodes \cup {0}, signal : Signals \cup {0, 2}]
  /\ holder \in BOOLEAN
  /\ copier \in {"off", "on", "done"}
  /\ {pipe, held, written, shown} \subseteq 0..MaxWrites
  /\ notified \in BOOLEAN
  /\ sigs \in 0..1
  /\ interrupts \in 0..MaxInterrupts
  /\ owed \in BOOLEAN
  /\ {file, before} \subseteq
       [exists : BOOLEAN, stamp : 0..2, mine : BOOLEAN]
  /\ tmp \in BOOLEAN
  /\ setup \in {"ok", "failed"}
  /\ gaveUp \in BOOLEAN
  /\ reported \in BOOLEAN
  /\ code \in Nat
  /\ why \in {"", "rejected", "not started", "wait failed"}

\* runWrap's contract: whatever failed in the profiling (the temporary
\* directory, the graph, the parse, the pipe, the store), longpole exits with
\* the go command's code, 128 + signal when a signal ended it.
ExitIsChilds ==
  main = "gone" /\ why = "" =>
    /\ child = "exited"
    /\ status.signal = 0 => code = status.code
    /\ status.signal # 0 => code = 128 + status.signal

\* A report is about the build that was run: a graph file the user named and
\* an earlier build left behind is not analysed, however the new build ended.
NoStaleReport == reported /\ graphArg = "path" => file.mine

\* The report comes after the build's own stderr: the child has ended, and
\* every piece written for longpole to copy was shown before, the unfinished
\* last line included, unless Wait gave up on a descendant.
OutputBeforeReport ==
  main \in {"version", "graph", "gone"} /\ why # "rejected" /\ why # "not started" =>
    /\ child = "exited"
    /\ copier # "on"
    /\ explain /\ ~gaveUp => shown = written

\* Longpole exits when the child has, although descendants may hold its
\* stderr open for ever (WaitDelay).
ExitsAfterChild == child = "exited" ~> Ended

\* An interrupt that longpole catches while the child runs reaches the child,
\* also when it comes while the forwarder is busy.
InterruptIsForwarded == owed ~> (~owed \/ child = "exited")
=============================================================================
