----------------------------- MODULE BuildTimes -----------------------------
(***************************************************************************)
(* The times of a build and what longpole makes of them (internal/model):  *)
(* the go command runs an action graph on its workers and writes when each *)
(* action was ready, started and done and how long its command took; New,  *)
(* Span and Summarize turn that into the numbers of the report, of which   *)
(* some are bounds for others.  The go command is external.                *)
(***************************************************************************)
EXTENDS Integers, FiniteSets

CONSTANTS
  Tasks,   \* the actions of the graph
  Waits,   \* the actions each waits for
  KindOf,  \* "compile" (a link is no different), "vet" or "test"
  Cores,   \* workers of the go command
  MaxTime  \* bound: the clock

ASSUME TimesAssumption ==
  /\ IsFiniteSet(Tasks) /\ Waits \in [Tasks -> SUBSET Tasks]
  /\ KindOf \in [Tasks -> {"compile", "vet", "test"}]
  /\ Cores \in Nat \ {0} /\ MaxTime \in Nat \ {0}

VARIABLES
  now,        \* the clock, from 1
  readyAt,    \* TimeReady of each action, 0 for the zero time
  startedAt,  \* TimeStart
  doneAt,     \* TimeDone
  cmdReal,    \* CmdReal, -1 when Cmd is nil
  failed,     \* the actions that failed
  exitedAt    \* when the go command exited, 0 before

timeVars == <<now, readyAt, startedAt, doneAt, cmdReal, failed, exitedAt>>
-----------------------------------------------------------------------------
NotRun ==
  /\ now = 1
  /\ readyAt = [t \in Tasks |-> IF Waits[t] = {} THEN 1 ELSE 0]
  /\ startedAt = [t \in Tasks |-> 0]
  /\ doneAt = [t \in Tasks |-> 0]
  /\ cmdReal = [t \in Tasks |-> -1]
  /\ failed = {}

TimesInit == NotRun /\ exitedAt = 0

Running == {t \in Tasks : startedAt[t] # 0 /\ doneAt[t] = 0}

Tick ==
  /\ exitedAt = 0 /\ now < MaxTime
  /\ now' = now + 1
  /\ UNCHANGED <<readyAt, startedAt, doneAt, cmdReal, failed, exitedAt>>

\* A worker takes an action that is ready.
Start(t) ==
  /\ exitedAt = 0
  /\ readyAt[t] # 0 /\ startedAt[t] = 0
  /\ Cardinality(Running) < Cores
  /\ startedAt' = [startedAt EXCEPT ![t] = now]
  /\ UNCHANGED <<now, readyAt, doneAt, cmdReal, failed, exitedAt>>

Poisoned(t) == Waits[t] \cap failed # {}

\* How an action ends.  What waits for a failed one fails with it; any other may
\* fail before it has a command (a package with only test files), have nothing to
\* do, or be the execution of a test, for which the graph has no command.  Or its
\* command took w and perhaps failed.
Ends(t) ==
  \/ /\ failed' \in IF Poisoned(t) THEN {failed \cup {t}} ELSE {failed, failed \cup {t}}
     /\ UNCHANGED cmdReal
  \/ /\ ~Poisoned(t) /\ KindOf[t] # "test"
     /\ failed' \in {failed, failed \cup {t}}
     /\ \E w \in 1..(now - startedAt[t]) : cmdReal' = [cmdReal EXCEPT ![t] = w]

\* It is done, and what waited for it last is ready.
Finish(t) ==
  /\ t \in Running
  /\ Ends(t)
  /\ doneAt' = [doneAt EXCEPT ![t] = now]
  /\ readyAt' = [u \in Tasks |->
       IF readyAt[u] = 0 /\ \A d \in Waits[u] : doneAt'[d] # 0
       THEN now ELSE readyAt[u]]
  /\ UNCHANGED <<now, startedAt, exitedAt>>

Exit ==
  /\ exitedAt = 0 /\ \A t \in Tasks : doneAt[t] # 0
  /\ exitedAt' = now
  /\ UNCHANGED <<now, readyAt, startedAt, doneAt, cmdReal, failed>>

TimesNext ==
  Tick \/ Exit \/ \E t \in Tasks : Start(t) \/ Finish(t)

TimesSpec == TimesInit /\ [][TimesNext]_timeVars
-----------------------------------------------------------------------------
(* What longpole makes of it                                               *)

IsWork(t) == KindOf[t] = "compile"
RanIt(t) == IsWork(t) /\ cmdReal[t] # -1
CachedIt(t) == IsWork(t) /\ ~RanIt(t)
WorkNs == [t \in Tasks |-> IF cmdReal[t] = -1 THEN 0 ELSE cmdReal[t]]
WallNs(t) == doneAt[t] - startedAt[t]
QueueNs(t) == startedAt[t] - readyAt[t]

\* Mutant of Span: from when the first action is done.
Span_FirstDone ==
  LET ends == {doneAt[t] : t \in Tasks} \ {0}
  IN  IF ends = {} THEN 0
      ELSE (CHOOSE e \in ends : \A f \in ends : f <= e) -
           (CHOOSE e \in ends : \A f \in ends : e <= f)

\* From the first action that is ready to the last that is done.
Span ==
  LET begins == {readyAt[t] : t \in Tasks} \ {0}
      ends == {doneAt[t] : t \in Tasks} \ {0}
  IN  IF ends = {} THEN 0
      ELSE (CHOOSE e \in ends : \A f \in ends : f <= e) -
           (CHOOSE b \in begins : \A c \in begins : b <= c)

\* The sums of f over the sets of tasks.
SumOf(f) ==
  LET sum[S \in SUBSET Tasks] ==
        IF S = {} THEN 0
        ELSE LET t == CHOOSE u \in S : TRUE
             IN  f[t] + sum[S \ {t}]
  IN  sum

\* Summarize's WorkNs.
TotalWork == SumOf(WorkNs)[Tasks]

\* Mutant of FullyCached: only compiles and links count.
FullyCached_CompilesOnly ==
  (\E t \in Tasks : CachedIt(t)) /\ \A t \in Tasks : ~RanIt(t)

FullyCached ==
  /\ \E t \in Tasks : CachedIt(t)
  /\ \A t \in Tasks : ~RanIt(t)
  /\ TotalWork = 0
  /\ \A t \in Tasks : KindOf[t] = "test" => WallNs(t) = 0

\* critpath.Find on a graph without cycles: the heaviest chain that ends at t.
Chain ==
  LET h[t \in Tasks] ==
        LET below == {h[d] : d \in Waits[t]}
        IN  WorkNs[t] + IF below = {} THEN 0
                        ELSE CHOOSE c \in below : \A e \in below : e <= c
  IN  h
-----------------------------------------------------------------------------
\* The types; an action goes through its three times in order.
TimesTypeOK ==
  /\ now \in 1..MaxTime /\ exitedAt \in 0..MaxTime
  /\ \A times \in {readyAt, startedAt, doneAt} : times \in [Tasks -> 0..MaxTime]
  /\ cmdReal \in [Tasks -> -1..MaxTime]
  /\ failed \subseteq Tasks
  /\ \A t \in Tasks :
       /\ startedAt[t] # 0 => readyAt[t] \in 1..startedAt[t]
       /\ doneAt[t] # 0 => startedAt[t] \in 1..doneAt[t]

\* "That chain is the floor on build time" (package critpath) and "Parallelism
\* is WorkNs/WallNs: the average number of actions in flight" (Summary):
\* whatever failed or waited for a worker, the critical path is never longer
\* than the span, the work fits into it on the workers there are, no action
\* worked and queued for longer, and the build took no less.
SpanIsBound ==
  exitedAt # 0 =>
    /\ \A t \in Tasks : Chain[t] <= Span /\ WorkNs[t] + QueueNs(t) <= Span
    /\ TotalWork <= Cores * Span
    /\ Span <= exitedAt - 1

\* "Nothing to optimize -- everything came from cache" (report.Run) is said of
\* no build in which a command ran, of whatever kind; and of one that failed only
\* if its first failures came before there was a command or a test to execute.
FullyCachedRanNothing ==
  exitedAt # 0 /\ FullyCached =>
    /\ \A t \in Tasks : cmdReal[t] = -1
    /\ failed # {} =>
         \E t \in failed :
           /\ ~Poisoned(t) /\ cmdReal[t] = -1
           /\ KindOf[t] = "test" => WallNs(t) = 0

\* "longpole says what actually happened" (README): of a build that failed it
\* does not say that everything came from cache, what a failure kept from
\* running being no cache hit.
FullyCachedIsTrue == exitedAt # 0 /\ FullyCached => failed = {}
=============================================================================
