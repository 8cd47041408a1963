------------------------------- MODULE CIGate -------------------------------
(***************************************************************************)
(* The gate on build regressions across CI jobs: action.yml, which carries *)
(* the run history from job to job in the Actions cache, with              *)
(* `longpole diff --fail-over` (runDiffFrom) and report.Gate deciding      *)
(* whether a job passes.  Workflow runs overlap; the jobs of one run share *)
(* its cache key.                                                          *)
(***************************************************************************)
EXTENDS Integers, FiniteSets, SequencesExt

CONSTANTS
  MaxWorkflows, \* bound: workflow runs (and attempts of one)
  Names,        \* the jobs of a workflow, each profiling its own command
  Works,        \* work times of a build, in tenths of a second
  LimitPct,     \* --fail-over
  KeepRuns      \* keepRuns, the runs a history keeps

ASSUME GateAssumption ==
  /\ MaxWorkflows \in Nat /\ Works \subseteq Nat
  /\ LimitPct \in Nat /\ KeepRuns \in Nat \ {0}
  /\ "none" \notin Names

VARIABLES
  cache,    \* the entries of the Actions cache, in the order they were saved
  pc,       \* pc[j]: the next step of job j
  history,  \* history[j]: the runs in j's store, oldest first
  built,    \* built[j]: history variable, j's build and whether it is recorded
  passed,   \* history variable: the recorded runs of the jobs that passed
  against   \* against[j]: history variable, Len(passed) when j was restored

vars == <<cache, pc, history, built, passed, against>>

Jobs == (1..MaxWorkflows) \X Names
Runs == [command : Names, work : Works]
None == [command |-> "none", work |-> 0]
NoBuild == [run |-> None, recorded |-> FALSE]
-----------------------------------------------------------------------------
(* report.Gate                                                             *)

MinRegression == 10

\* failed: at least a second, and past the limit; any such increase is past it
\* when the baseline did no work.
Over(before, after) ==
  LET delta == after - before
  IN  /\ delta >= MinRegression
      /\ before > 0 => delta * 100 > LimitPct * before

\* The last run of a command, None when there is none.
LastOf(runs, command) ==
  LET mine == {k \in DOMAIN runs : runs[k].command = command}
  IN  IF mine = {} THEN None
      ELSE runs[CHOOSE k \in mine : \A i \in mine : i <= k]

\* runDiffFrom without arguments: the newest run, and the newest before it of
\* the same command.
Baseline(runs) == LastOf(Front(runs), Last(runs).command)

\* Mutant of Fails: a baseline that did no work has no percentage.
Fails_WithoutNoWork(runs) ==
  /\ runs # <<>>
  /\ Baseline(runs).work > 0
  /\ Over(Baseline(runs).work, Last(runs).work)

\* The Compare step fails.  A history without a baseline skips the gate; a
\* build that failed has ended its job before.
Fails(runs) ==
  /\ runs # <<>>
  /\ Baseline(runs) # None
  /\ Over(Baseline(runs).work, Last(runs).work)
-----------------------------------------------------------------------------
(* The Actions cache: an entry never changes, and a key is saved once.     *)

Key(j) == j[1]

\* The entry with the key, else the newest (restore-keys).
Restored(key) ==
  LET exact == {i \in DOMAIN cache : cache[i].key = key}
  IN  IF exact # {} THEN cache[CHOOSE i \in exact : TRUE].history
      ELSE IF cache # <<>> THEN Last(cache).history
      ELSE <<>>

Init ==
  /\ cache = <<>>
  /\ pc = [j \in Jobs |-> "restore"]
  /\ history = [j \in Jobs |-> <<>>]
  /\ built = [j \in Jobs |-> NoBuild]
  /\ passed = <<>>
  /\ against = [j \in Jobs |-> 0]

Goto(j, step) == pc' = [pc EXCEPT ![j] = step]

\* Workflow runs start in order; later ones need not wait for earlier ones.
Restore(j) ==
  /\ pc[j] = "restore"
  /\ \A i \in Jobs : i[1] < j[1] => pc[i] # "restore"
  /\ history' = [history EXCEPT ![j] = Restored(Key(j))]
  /\ against' = [against EXCEPT ![j] = Len(passed)]
  /\ Goto(j, "profile")
  /\ UNCHANGED <<cache, built, passed>>

\* Mutant of Recorded: nothing is pruned.
Recorded_All(runs, r) == Append(runs, r)

\* saveRun: the run is appended and the oldest are pruned.
Recorded(runs, r) ==
  LET all == Append(runs, r)
  IN  SubSeq(all, 1 + (IF Len(all) > KeepRuns THEN Len(all) - KeepRuns ELSE 0),
             Len(all))

\* The build; a build that longpole could not record is not a failed one.
Profile(j) ==
  /\ pc[j] = "profile"
  /\ \/ \E work \in Works, recorded \in BOOLEAN :
          LET r == [command |-> j[2], work |-> work]
          IN  /\ built' = [built EXCEPT ![j] = [run |-> r, recorded |-> recorded]]
              /\ history' = [history EXCEPT ![j] =
                                IF recorded THEN Recorded(@, r) ELSE @]
              /\ Goto(j, "compare")
     \/ /\ Goto(j, "failed")          \* the build failed
        /\ UNCHANGED <<history, built>>
  /\ UNCHANGED <<cache, passed, against>>

\* Mutant of Verdict: the exit code of diff is lost.
Verdict_Lost(j) == "save"

Verdict(j) == IF Fails(history[j]) THEN "failed" ELSE "save"

Compare(j) ==
  /\ pc[j] = "compare"
  /\ Goto(j, Verdict(j))
  /\ UNCHANGED <<cache, history, built, passed, against>>

\* Another step of the job fails, or it is cancelled.
JobFails(j) ==
  /\ pc[j] = "save"
  /\ Goto(j, "failed")
  /\ UNCHANGED <<cache, history, built, passed, against>>

\* The cache action's post step saves unless the key is there.
Saves(j) == \A i \in DOMAIN cache : cache[i].key # Key(j)

JobPasses(j) ==
  /\ pc[j] = "save"
  /\ Goto(j, "passed")
  /\ cache' = IF Saves(j)
              THEN Append(cache, [key |-> Key(j), history |-> history[j]])
              ELSE cache
  /\ passed' = IF built[j].recorded THEN Append(passed, built[j].run)
                ELSE passed
  /\ UNCHANGED <<history, built, against>>

Next ==
  \E j \in Jobs :
    Restore(j) \/ Profile(j) \/ Compare(j) \/ JobFails(j) \/ JobPasses(j)

Spec == Init /\ [][Next]_vars
-----------------------------------------------------------------------------
\* The types; every key of the cache is one workflow run's, and is there once.
GateTypeOK ==
  /\ \A i \in DOMAIN cache :
       /\ cache[i].key \in 1..MaxWorkflows
       /\ \A k \in DOMAIN cache[i].history : cache[i].history[k] \in Runs
       /\ Len(cache[i].history) \in 0..KeepRuns
       /\ \A k \in DOMAIN cache : cache[i].key = cache[k].key => i = k
  /\ \A j \in Jobs : \A k \in DOMAIN history[j] : history[j][k] \in Runs
  /\ \A k \in DOMAIN passed : passed[k] \in Runs
  /\ \A j \in Jobs : pc[j] = "save" => built[j].run \in Runs

\* "A failed job does not save, so a regression never becomes the next job's
\* baseline" (action.yml): in no saved history does a run exceed the limit
\* over the run of its command before it, whatever jobs overlap.
NoRegressionIsSaved ==
  \A i \in DOMAIN cache :
    LET h == cache[i].history
    IN  \A k \in DOMAIN h :
          LET before == LastOf(SubSeq(h, 1, k - 1), h[k].command)
          IN  before # None => ~Over(before.work, h[k].work)

\* The run j's build is to be compared with: the last of its command recorded
\* by a job that passed before j began.
LastPassed(j) == LastOf(SubSeq(passed, 1, against[j]), j[2])

Regressed(j) ==
  LastPassed(j) # None /\ Over(LastPassed(j).work, built[j].run.work)

\* "Fail when work time grew more than this percentage since the last run"
\* (action.yml): where every build so far is recorded, a job passes the
\* comparison only if its build is within the limit of the last that passed.
CatchesRegressions ==
  (\A j \in Jobs : built[j] # NoBuild => built[j].recorded) =>
    \A j \in Jobs : pc[j] \in {"save", "passed"} => ~Regressed(j)
=============================================================================
