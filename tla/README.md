# A TLA+ model of longpole

longpole wraps a go command (`longpole go build ./...`), passes the command's
output and exit code through, and afterwards reports where the build's time
went. Each build is recorded in a SQLite file, so that `longpole diff` can
compare two of them and a CI job can fail when builds become slower. This
directory models the parts of longpole whose correctness depends on the order in
which things happen: several processes on one database, goroutines and signals
around a child process, output in chunks, CI jobs that overlap; and the algorithms
by which it turns an action graph, a build log and two recorded builds into claims
about a build.

Contents: [inventory](#the-system), [modules](#modules),
[runs](#what-the-runs-check), [fairness](#fairness), [proofs](#proofs),
[divergences](#where-code-and-documentation-disagree),
[what is left out](#what-is-not-modelled), [plan](#plan).

## The system

| Component (source) | State | Operations | Interacts with | Hard behaviour | Correct when |
|---|---|---|---|---|---|
| run store: recording (`internal/store/write.go`, `read.go`, `saveRun` in `cmd/longpole/main.go`) | tables `runs`, `actions`, the AUTOINCREMENT sequence, SQLite's write lock | Save, Previous, Prune, PruneGlobal, Load, Recent | every longpole process of the user, through one file | processes interleave, any call fails, processes are killed, waits for the lock time out | builds are whole, `prev` is the neighbour, retention deletes only what newer builds supersede |
| run store: opening (`internal/store/store.go`) | schema, columns of `actions` | Open, migrateActions | the same | two processes migrate at once, one dies half-way, an old release's rows | no row loses its identity, an opened store has its columns |
| `longpole diff` (`runDiffFrom`) | two ids, two loaded builds | choose, load, check, compare, gate | run store, with recorders beside it | a build is pruned between the choice and the load, or between the two queries of a load | whole builds of one command, neighbours |
| `longpole log` | none | one Recent query | run store | none | |
| wrapped session (`wrapWith`, `wrap.Run`, `forwardInterrupts`, `CommandVersion`) | five goroutines or processes, the graph file, the signal channel | Start, Wait, WaitDelay, forward, Flush, probe, analyse | the go command, its descendants, the user's signals | signals at any time, descendants that keep the pipe open, the profiling failing anywhere | the exit code is the child's, the report is of this build and after its output, longpole ends |
| command line (`Check`, `Inject`, `ExistingGraphPath`, `commandParts`) | argv | read and rewrite argv | the go command's own parser | two parsers of one language | the go command still takes it and writes the graph where longpole reads |
| scope (`internal/wrap/scope.go`) | none | CurrentScope, CommandDir, ResolvePath, modulePath | command line, go.mod, `go list -m` | `-C` moves the go command, longpole computes where to | a build's scope and a relative graph path are those of the directory the go command runs in |
| stderr tee and hash collector (`internal/wrap/stderr.go`, `internal/hashlog`) | line buffer, write error, blocks, ambiguous names | Write, Flush, Line | os/exec's copier, concurrent hashes of the go command | chunks end inside lines, hashes of one name interleave, the terminal goes away | messages pass unchanged, hash lines do not, no block mixes two hashes |
| gate and CI action (`internal/report/gate.go`, `action.yml`) | the history in the Actions cache | restore, profile, compare, save | run store, diff | jobs overlap, a key is saved once, builds fail | a regression fails its job and never becomes a baseline |
| diff report (`internal/report/diff.go`, `slowerActions` in `gate.go`) | none | findChanges, splitChanges, writeIdentityNote, dependenciesStable, slowerActions | diff, gate | a package and its test variant share name and mode; builds make different variants, fail, run or reuse them | what is listed did run and did not before, nothing is missed or in both lists, the candidate root was edited |
| action graph and model (`internal/actiongraph`, `internal/model`) | none | Parse, New, Span, Summarize | go command's JSON | zero times, actions never run, failed builds | work, span, critical path and cached bound one another as the report says |
| critical path, blast radius (`internal/critpath`) | marks and memo of a recursive walk | Find, BlastRadiusFor | model | shared subgraphs, cycles, indexes out of range | ends; heaviest path; each dependent once |
| rebuild roots (`internal/cause`) | none | Roots and its helpers | hash collector, model | blocks cut, ambiguous or of another action | no action is left out of the roots without evidence |
| report rendering (`internal/report`) | none | text | | | |
| workflows (`.github/workflows`) | | build scripts | | | |

How they interact, in the order of one wrapped build: the command line is checked
and the graph flag injected; the session starts the child and, for `--explain`,
copies its stderr through the tee into the collector; when the child has ended
and the tee is flushed, the graph is parsed and analysed; the store is opened
(and migrated), the build saved, its predecessor looked up, the store pruned; the
report is printed; longpole exits with the child's code. `longpole diff` is
another process that reads the same store at any moment; `action.yml` runs both
in a CI job and carries the store to the next job.

## Modules

| Module | Models | Extends or uses |
|---|---|---|
| `RunHistory` | what the store promises, without a database: whole builds enter one at a time, and leave only when superseded | |
| `RunStore` | Save, Previous, Prune, PruneGlobal, saveRun by several processes | refines `RunHistory` |
| `RunDiff` | runDiffFrom's choice and its two Loads beside the recorders | composes with `RunStore` |
| `RunStoreProofs` | theorems about `RunStore`, the refinement among them, and about `RunDiff` | `RunDiff` |
| `StoreMigration` | Open and migrateActions, with saves | |
| `StoreMigrationProofs` | theorems about `StoreMigration` | `StoreMigration` |
| `WrapSession` | wrapWith and wrap.Run from start to exit | |
| `WrapSessionProofs` | theorems about `WrapSession` | `WrapSession` |
| `GoArgv` | Check, Inject, ExistingGraphPath, CommandDir, ResolvePath, beside the go command's reading and directory | |
| `GoArgvProofs` | theorems about `GoArgv` | `GoArgv`, `NaturalFacts` |
| `BuildLog` | StderrTee and hashlog.Collector over concurrent hashes | |
| `BuildCause` | Roots over the blocks of a log in progress | extends `BuildLog` |
| `BuildLogProofs` | theorems about `BuildLog` and `BuildCause` | `BuildCause`, `NaturalFacts` |
| `CritPath` | Find and BlastRadiusFor | |
| `DiffReport` | findChanges, writeIdentityNote, slowerActions' pairing over two builds | |
| `BuildTimes` | New, Span, Summarize over the graphs of a scheduler | |
| `CIGate` | report.Gate and the history's life in the Actions cache | |
| `CIGateProofs` | theorems about `CIGate` | `CIGate`, `NaturalFacts` |
| `AnalysisProofs` | theorems about `CritPath`, `DiffReport`, `BuildTimes` and their composition | `MCAnalysis`, `NaturalFacts` |
| `NaturalFacts` | least and greatest elements, induction up to and down from a bound and iteration, stated for sets so that they can be cited | |
| `MC...` | conditions on the bounds, symmetry sets, instances; `MCAnalysis` joins `CritPath`, `DiffReport` and `BuildTimes`, `MCWrap` joins `GoArgv` and `WrapSession` | the module or modules |

Every definition that models code has an entry in `PROJECT.json` with the lines
it stands for. Operators named `X_Something` just before an operator `X` are
mutants: the form that operator would have with a plausible bug. Each property
has one that breaks it (`mutants` in `PROJECT.json`). No module has a `RECURSIVE`
operator: recursion is a recursive function or a state machine's stack.

### RunStore and RunHistory

`runs`, `rows`, `seq` are the committed tables `runs` and `actions` and SQLite's
`sqlite_sequence`. `writer`, `staged`, `doomed` are the one open write
transaction: who has the lock, the action rows it has inserted, the runs it has
deleted. `pc[p]`, `job[p]`, `next[p]`, `id[p]`, `prev[p]` are the place and the
locals of saveRun in process p. `prunedAt` and `prunedGlobalAt` are history
variables that only `HistoryBounded` reads. A run's row also carries `acts`, the
number of actions the build really had, which is not a column: it is what
`RunsAreWhole` compares the action rows with. A build whose work came from the cache
(`cached`) is recorded like any other; `Advertised` is what report.Run prints of the
ids in its footer, which it does not reach for such a build or one without actions.

Actions follow the statements: `InsertRun` (takes the lock), `InsertAction` once
per action, `CommitSave`, `Previous` (a read after the commit, when others may
have written), `Prune` and `CommitPrune` (a transaction), `PruneGlobal` (one
statement that commits by itself), `Close`, `Report`. `IoError` is any call
failing, with the rollback and saveRun's early return; `BusyTimeout` is a wait for
the lock that lasts longer than `busy_timeout`; `Crash` is the death of the
process at any point. SQLite itself is external: one writer, a transaction's
changes become visible at COMMIT, the lock dies with its process, the cascade
deletes action rows of deleted runs.

A slot in `Recorders` is reused by one process after another, so two slots give
any number of processes over time, two at once.

### RunDiff

The variables of one diff (`dpc`, `ask`, `want`, `snap`, `loaded`, `said`) beside
RunStore's, interleaved with it. `Recent` is one query and the choice in main.go;
`LoadRun` and `LoadActions` are the two queries of Load's transaction, the second
over the snapshot `snap` of the first. `due` is a history variable that only
`MissesOnlySuperseded` reads: the ids among the two chosen ones that enough newer
builds have superseded at some moment since the choice (`Overdue`). It has to be
remembered: a prune of the scope that supersedes a build is often followed by the
prune of another scope, after which fewer newer builds than KeepGlobal are left.

### StoreMigration

`db` is what is committed: whether table `actions` exists, which of the added
columns it has and the `graph_id` of every row. A row named after its process is
one it saved. `seen[p]` is the version p's deferred transaction reads: since it
reads (`table_info`) before it writes, its first write is refused at once, not
after the busy timeout, when another holds the lock or has committed meanwhile.

### WrapSession

`main` is the place in wrapWith and Run; `probe`, `copier` and the forwarder
(`notified`, `sigs`) are the other goroutines; `child`, `status`, `holder` are the
go command and a descendant that keeps its stderr open. Stderr is counted in
pieces: `written` by the child, in the `pipe`, `held` in the tee as an unfinished
line, `shown`. A graph file is present or not, has a stamp (size and modification
time) and is or is not this build's; the stamp may stay what it was after a
rewrite. Each failure that main.go tolerates is a branch: no temporary directory,
a stat error, a graph that does not parse or was not updated, a failing probe.

### GoArgv

The state is the command line, and grows one argument at a time, so that TLC
visits every command line of up to `MaxArgs` tokens. `GoReads` is the go
command's reading (external): the change-directory flag first, then the
subcommand's flags, the last value of a repeated flag counting. (A comment of
Inject says the go command rejects a repeated flag; it takes the last.) go test reads
on behind its packages, but only until the first argument behind a list of packages
that a flag has ended: that one and what follows are the test's (`Lists`).
`Arguments` are the tokens that stand for the arguments either reader tells apart;
none is empty.

`PartsFrom(args)[i]` is what the loop of commandParts makes of the arguments from i
on, `FlagsFrom(args)[i][list]` what the go command makes of the subcommand's flags from
i on, when the packages before i are none, begun or ended. Both are functions of the position, defined from the end of the command line
to its front; a position past the end stands for a value that is missing.

A path is the sequence of names it is made of. `CommandDir` and `GraphPath` are
longpole's idea of where the go command runs and which file it reads afterwards;
`GoDir` and `GoWrites` are where it does run and which file it writes.

### BuildLog

A line is two pieces, the second with the newline, and a chunk is any prefix of
the pipe, so chunks end inside lines. Lines are of one of two hashes of one of two
names, or messages. `buf` and `writeErr` are the tee's fields, `blocks` and
`ambiguous` the collector's. Hash lines are written whole (the go command writes
each with one call) and a message may be unfinished only at the end of the build.

### BuildCause

Each hash of BuildLog belongs to one action, so a log in progress is a build in
progress and `BlockFor`, `Matches`, `Referenced`, `Joined`, `Roots`, `Followed`
read the very blocks the tee and the collector made of it, whatever was lost. A
block without a digest, of another action, or of an ambiguous name is no evidence.
`Read` is the truth: which output an action has read. `Ran` is every action that
was hashed to the end, the most that can have run.

### CritPath

`stack` is the call stack of `walk`, a call with its loop over the dependencies
(`todo`) and its best so far; `state`, `cost`, `next` are Find's slices. `Enter`,
`Look`, `Told`, `Return` are a call, a turn of its loop, the answer of a callee
and the end of a call. The loop takes dependencies in any order, so one graph
stands for all orders of its `Deps`. `Visit` and `Collect` are Find's loops over
the actions and over the path. BlastRadiusFor's stack is a set: its order does not
matter for what is counted, and TLC takes any.

### DiffReport

A *variant* is an action as the go command knows it. The graph gives a package's
build and its test variant the same package and mode, so findChanges has to guess
at the variant; the model keeps it in order to say whether the guess was right.
`BuildBefore`, `Edit`, `BuildAfter` are the environment: any set of variants with
what they depend on, any of them run or cached, one of them failing; an edit
changes the ActionID of what is edited and of some of what depends on it. The
functions of `diff.go` and `gate.go` are operators over the two builds.

### BuildTimes

`Start`, `Finish`, `Exit` and the clock are the go command's scheduler (external):
an action is ready when what it waits for is done, starts when a worker is free,
runs a command for part of its time or none, and fails because of what it waits for or
by itself, with its command or before it has one; one command at a time per action. `Span`, `TotalWork`, `FullyCached`
and the per-action times are `internal/model`'s over the times it leaves. `Chain`
is what CritPath shows Find to return on a graph without cycles.

### CIGate

A job restores the newest cached history, builds, records (or cannot), compares
and, if it passes, saves under a key that names its workflow run. `Over` is
report.Gate's rule in tenths of a second. `passed` and `against` are history
variables. Every workflow run restores from the newest entry: the cache's
separation by branch is left out.

## What the runs check

All bounds are constants of the `.cfg` files. Deadlock is not checked: the users
may stop building, and each model stops at its bounds. Each module's type invariant is
in its run as well.

| Run | Bounds | What it shows |
|---|---|---|
| `run_store` | 2 processes at once, 2 scopes, builds of 0 or 1 action, none cached, Keep 1, KeepGlobal 2, 3 recordings | `RunsAreWhole`: no half build and no orphaned action; `PrevIsNeighbour`: prev is the build before this one although it is read after the commit; `HistoryBounded`: what a prune leaves is within both limits; `KeepsHistory`: RunStore implements RunHistory; `RecordingEnds`: whatever fails, every recording ends, and without the write lock |
| `run_store_footer` | 1 process, builds of 1 action that ran or was cached, no failure needed | violated: `AdvertisedBuildsExist` |
| `run_diff` | 1 recorder, 2 scopes, 2 commands, Keep 2, KeepGlobal 3, 4 recordings | `ComparesWholeBuilds`, `ComparesNeighbours`; `MissesOnlySuperseded`: a build that a diff has chosen and then does not find was superseded by enough newer ones in the meantime |
| `store_migration` | 4 processes, every kind of old database | `IdentitiesKept`: no backfill overwrites an identity and no crash leaves the default; `OpenedIsMigrated` |
| `store_migration_waits` | 3 processes | violated: `ContentionWaits` |
| `wrap` | every command line of up to 5 of 14 tokens; and sessions with 2 pieces of stderr, 2 interrupts, exit codes 0 and 1, signals 2 and 9 | `GraphIsWritten`: the file longpole reads is the one the go command writes; `ScopeIsWhereGoRuns`; `HonorsUsersGraph`: a graph the user named, and no argument of the program, is the one read; these three for the command lines on which the two readings agree (`Plainly`). `ExitIsChilds`, `NoStaleReport`, `OutputBeforeReport`; `ExitsAfterChild`: longpole ends although a descendant keeps stderr open; `InterruptIsForwarded` |
| `go_argv_chdir` | up to 4 of 4 tokens | violated: `NeverRejected` |
| `build_cause` | 2 hashes of each of 2 names (a package and its test variant, and the programs linked with them), 2 inputs, 1 message and an unfinished last line, 4 pieces in the pipe | `OnlyRemovesItsOwn`: the user sees the messages and nothing else; `BlocksAreTrue`: no block mixes two hashes, and what arrives is collected; `RootsAreHonest`: whatever is lost, an action is left out of the roots only if it read what was built; `RootsAreTight`: of a log that arrived, only ambiguous names yield a root too many |
| `ci_gate` | 3 overlapping workflow runs of one job, 5 work times around both thresholds, a history of 2 | `NoRegressionIsSaved`, `CatchesRegressions` where every build is recorded |
| `ci_gate_jobs` | 2 workflow runs of 2 jobs | violated: `CatchesRegressions` |
| `analysis` | graphs of 4 actions: all with cycles (at most one self-loop) through three of them, all without, work 0 to 2; two builds of a package, its test variant, a program and what they depend on; 4 actions on 2 workers for 5 ticks | `AnalysisTypeOK` (with `WalkIsSimple`: no action is walked twice at once), `PathIsAChain`, `FindsHeaviest`, `BlastIsReach`, `AnalysisEnds`; `ListsAreTrue`, `NothingIsMissed`, `CandidateRootIsEdited`; `SpanIsBound`; `FullyCachedRanNothing`: a build said to be fully cached ran no command, and if it failed, an action failed before it had one |
| `analysis_failed` | 2 actions on 1 worker, one waiting for the other | violated: `FullyCachedIsTrue` |

Why the bounds are enough. In the store one process writes at a time, so what can
go wrong needs a writer, one interfering process and a build old enough to be
pruned: two processes and one recording more than the larger limit. Two scopes
make the limits bind independently: with Keep 1 and KeepGlobal 2 (Keep 2 and
KeepGlobal 3 for the diff, which needs two builds) a build is pruned by its own
scope in some behaviours and by other scopes' builds in others. An action count of
0 and 1 distinguishes a missing action row from a build without any. The safety
properties of all passing runs are moreover proved for all constants ([proofs](#proofs)),
so that the bounds matter to liveness only. The ids on a diff's command line
are two, one that is soon pruned and one that is not; neither need exist when it
is asked for. The diff's builds all succeed: the gate's skip after a failed build is
in the module, but no property of the run depends on it. In a migration the interesting step needs a process that migrates,
one that has seen the old columns and one that saves; a fourth dies. The
shortest command line on which a flag ends a list of packages and the program's first
argument hides the graph flag has five tokens. The signal
channel holds one, so two interrupts fill it. One piece of output in the pipe and
one held in the tee need two pieces. In the log, mixing needs two hashes of one
name beside a name that is not ambiguous, and an order needs two inputs. Of the graphs, a
diamond, a cycle with a chain into it and one out of it, and a self-loop all fit
into four actions; two work values and 0 make both equal and different chains. Two
variants of one key are the least that can be confused. Two workers and three
actions that compete for them make one queue. A third
workflow run is the first that can restore a history in which two others overlap;
`BothThresholdsMatter` in `MCCIGate` states what the work times must include.

Symmetry is used only in runs without liveness properties, over model values that
no definition distinguishes: the processes of StoreMigration, the scopes and the
commands of RunDiff.

## Fairness

* `RunStore!FairSpec`: weak fairness of `Progress(p)` for each process. The
  operating system runs every process, and a process that waits for the lock gives
  up after `busy_timeout` (`store.go` sets it for every connection), so a wait is a
  step that is taken in the end. Nothing makes builds, errors or crashes happen.
* `WrapSession!FairSpec`: weak fairness of the main goroutine's step, of the
  copier, of the forwarder (the Go scheduler runs every runnable goroutine, and
  WaitDelay's timer fires) and of the end of `go version`. Nothing is assumed of
  the child, of its descendants or of the user: a child that runs for ever is not
  required to end, and `ExitsAfterChild` begins with its exit. That `go version`
  ends is an assumption about the toolchain; see below.
* `MCWrap!WrapSpec`: that of `FairSpec`, in behaviours in which nothing is typed.
* `MCAnalysis!Spec`: weak fairness of `CritNext`. Find and BlastRadiusFor are
  sequential functions that wait for nothing.

## Proofs

TLAPS proves the following for all values of the constants that satisfy the named
assumptions. Each theorem has the form `Spec => []P`, where `P` is the property of
the run; the last column is the invariant it follows from, as none of these
properties is inductive by itself. `OnlyChdirIsRejected` states the property of a run
that finds it violated, with the condition under which it holds.

| Module | Theorem | States | From |
|---|---|---|---|
| `RunStoreProofs` | `TypeCorrect` | `TypeOK` | `IInv` |
| | `WholeRuns` | `RunsAreWhole` | |
| | `NeighbourPrev` | `PrevIsNeighbour` | |
| | `BoundedHistory` | `HistoryBounded` | |
| | `Refinement` | `Spec => KeepsHistory`, that is `History!Spec` | |
| | `DiffTypeCorrect` | `DiffTypeOK` | `IInv`, `BoundInv`, `DiffInv` |
| | `WholeComparison` | `ComparesWholeBuilds` | |
| | `NeighbourComparison` | `ComparesNeighbours` | |
| | `OnlyRetentionMisses` | `MissesOnlySuperseded` | |
| `StoreMigrationProofs` | `MigrationTypeCorrect` | `MigrationTypeOK` | `MInv`, `CountInv` |
| | `RowsKeepIdentities` | `IdentitiesKept` | `MInv` |
| | `OpenedMeansMigrated` | `OpenedIsMigrated` | `MInv` |
| `WrapSessionProofs` | `SessionTypeCorrect` | `SessionTypeOK` | `SInv` |
| | `ExitCodeIsChilds` | `ExitIsChilds` | |
| | `ReportsOwnGraph` | `NoStaleReport` | |
| | `OutputComesFirst` | `OutputBeforeReport` | |
| `CIGateProofs` | `GateTypeCorrect` | `GateTypeOK` | `GateInv` |
| | `RegressionsAreNotSaved` | `NoRegressionIsSaved` | `GateInv` |
| | `RegressionsAreCaught` | `CatchesRegressions`, given `OneJob` | `GateInv`, `TrackInv` |
| `AnalysisProofs` | `PathIsReal` | `PathIsAChain` | `WalkInv` |
| | `PathIsHeaviest` | `FindsHeaviest` | `WalkInv`, `HeaviestInv` |
| | `BlastIsCounted` | `BlastIsReach` | `WalkInv`, `BlastInv` |
| | `CritTypeCorrect` | `CritTypeOK` | `WalkInv`, `BlastInv` |
| | `ConfirmedIsTrue` | `ListsAreTrue` | `DiffInv` |
| | `NewlyRunIsListed` | `NothingIsMissed` | |
| | `RootIsEdited` | `CandidateRootIsEdited` | |
| | `DiffTypeCorrect` | `DiffReportTypeOK` | |
| | `TimesTypeCorrect` | `TimesTypeOK` | `TimesInv` |
| | `FullyCachedIsNoWork` | `FullyCachedRanNothing` | `TimesInv`, `RanInv`, `OrderInv` |
| | `SpanBounds` | `SpanIsBound` | `WorkInv` |
| | `AnalysisTypeCorrect` | `AnalysisTypeOK` of `MCAnalysis!Spec` | all of them |
| `BuildLogProofs` | `LogTypeCorrect` | `LogTypeOK` | `LogInv` |
| | `RemovesOnlyItsOwn` | `OnlyRemovesItsOwn` | |
| | `BlocksTrue` | `BlocksAreTrue` | |
| | `RootsHonest` | `RootsAreHonest` | |
| | `RootsTight` | `RootsAreTight` | |
| `GoArgvProofs` | `UsersGraphIsRead` | `HonorsUsersGraph` | `CommandLineType` |
| | `ScopeIsTheBuilds` | `ScopeIsWhereGoRuns` | |
| | `GraphIsWhereItIsRead` | `GraphIsWritten` | |
| | `OnlyChdirIsRejected` | `~ChdirAfterSubcommand => NeverRejected` | |

The theorems about CritPath, DiffReport and BuildTimes are of their own
specifications `CritSpec`, `DiffSpec` and `TimesSpec`; `MCAnalysis!Spec` only runs
one of the three while the others stand still. Those about GoArgv and WrapSession are of
`ArgvSpec` and of WrapSession's `Spec`, which `MCWrap!WrapSpec` runs one at a time.

### Assumptions

* RunStore: both limits are at least 1 (`KeepAssumption`; main.go has 50 and 500), a
  number of actions is a natural number (`ActCountsAssumption`), so is the bound on
  ids (`MaxIdAssumption`), cached or not is a truth value (`AllCachedAssumption`), the value for "nobody" is not a process
  (`NoneAssumption`). RunDiff: ids on the command line are within the bound
  (`AskedIdsAssumption`).
* StoreMigration: finitely many processes, which are not rows of the old database
  (`OpenersAssumption`, `MigrationAssumption`). WrapSession: exit codes are naturals
  and signals positive (`CodesAssumption`), the bounds are naturals
  (`BoundsAssumption`).
* CIGate: work, limit and bounds are naturals, a history keeps at least one run, and
  the value for "no run" is not a command (`GateAssumption`).
* CritPath: a graph is a function to sets of actions, out-of-range indexes (0)
  included, with natural work (`GraphAssumption`); nothing is assumed about cycles.
  DiffReport: finitely many variants with a package, a mode and dependencies among
  them (`VariantAssumption`). BuildTimes: finitely many tasks, one worker at least
  (`TimesAssumption`).
* BuildLog: the bounds are naturals, there are finitely many names, the inputs that are
  kept are inputs, the pipe holds a line, and a message is no hash (`LogAssumption`).
  BuildCause: dependencies are among the actions, an input that names an output is one
  the collector keeps and names a dependency's output, and a block is looked for under
  the action's own name first (`CauseAssumption`). The second is what NewRootsOnly is
  for: it keeps just the `import` and `packagefile` lines, the ones cause.go looks at.
* GoArgv: what is typed is among `Arguments`, and the bound is a natural number
  (`ArgvAssumption`).

No processes, scopes, commands, arguments, hashes or graphs are counted in any of them.

### The store, its history and the diff

`IInv` of RunStoreProofs adds to the three properties:

* `LockInv`: a process is the writer exactly between a transaction's first write
  and its end, and a process that is busy has a job. Without it two processes could
  stage rows into one transaction.
* `IdInv`: `runs` is finite, committed ids are distinct and at most `seq`. Without
  it a new build could get the id of another and inherit its actions.
* `StagedInv`: the staged rows are the actions 0..next-1 of the writer's build,
  whose id is `seq + 1`, and a prune's doomed rows are still the overflow of its
  scope when it commits. At COMMIT the first becomes `RunsAreWhole`, the second
  `HistoryBounded`.
* `SavedInv`: after its commit a process holds an id the store has given out.
* `PrunedInv`: the history variables never run ahead of `seq`.

One lemma per conjunct shows that each action preserves it. The argument for prev:
Previous picks the greatest id below its own among the scope's builds; later builds
of the scope get greater ids, since ids only grow, and prunes only take builds away,
so no build can come to lie between. Two facts about finite sets carry the
arithmetic: what `ORDER BY id DESC LIMIT 1` picks (`NewestOne`,
`PreviousIsNearest`) and that LIMIT k leaves at most k rows (`NewestBound`).

`Refinement` maps CommitSave to `Record`, the two prunes to `Forget` and every other
step, crashes and failures included, to a stutter. The step that needs an argument
is Forget: what a prune deletes is outside the newest k of a set, so at least k
builds of that set are newer, and distinct rows are distinct builds of the history
(`IdInv`), which is what `Superseded` asks (`OverflowIsSuperseded`).

A diff writes nothing, so `IInv` carries over to `DiffSpec`. `DiffInv` says what it
has in hand: the snapshot of an open Load holds all actions of its build (`WholeInv`,
from `RunsAreWhole` at the moment of the first query); Recent's choice stays right
among all rows the diff has seen or can still see (`ChoiceInv`: a later build has a
greater id than both, so none gets between them); a chosen build is still there or
in `due` (`MissInv`). `BoundInv` keeps ids within `MaxId`, which the types of the
diff need.

### Opening and migration

`MInv` relates three versions of the database: what is committed (`db`), what a
deferred transaction has read (`seen`, `columns`; `ReadInv`: they are the committed
ones if nothing was committed since, and a subset in any case) and what the writer
has made of it (`work`; `WorkInv`). `LockInv` says that the writer's read version is
the current one, which is what SQLite's refusal of stale writers guarantees; and
`SavedInv` that a row saved by this release is only in a database that has the
columns. Together: a backfill only runs where the column was missing in the
committed database, so no row had an identity to lose. `CountInv` bounds `version`
by counting the processes that have passed a commit, for the type invariant only.

### The session

`SInv` places the child, its stderr copier and the pieces of output at each step of
wrapWith (`StageInv`, `PieceInv`: shown, held and in the pipe together are what was
written, until Wait has given up on a descendant) and what is at the graph's path
(`GraphInv`: what os.Stat saw before the build, or this build's). The exit code, the
stale graph and the order of output and report follow at the steps that read them.

### The gate

A history is `Steady` when no run exceeds the limit over the last run of its command
before it. `GateInv`: every cached history is steady, and a job's own is but for its
last run while that is still to be compared. Comparing admits it or fails the job;
pruning keeps a suffix, which takes baselines away and so cannot break steadiness.

`RegressionsAreCaught` has a hypothesis: one job per workflow run and a history of
at least two (`OneJob`). Without the first it is false, which is the run
`ci_gate_jobs` and a finding; with a history of one there is nothing to compare
with (main.go keeps 50). `TrackInv` then says that cache entries are those of the
jobs that passed, in their order, each ending in its job's run, so that what a job
restores ends in the last run that passed before it began.

### The walk, the path and the blast radius

* `StackInv`: the calls in progress are of distinct actions, each called for a
  dependency of the next. So a cycle cannot put an action on the stack twice.
* `LinkInv`, `RankInv`: what is done links to something done, and there is a ranking
  of actions that falls along the links. It is the order in which the calls ended;
  the code does not store it, so the invariant says that one exists. From it the
  path repeats no action and Collect ends, on cyclic graphs as well.
* `TotalInv`, `PathInv`: the start is the heaviest of what was visited, and the path
  is the chain of links from it. The cost of an action is its work and the cost of
  its link, so the sum along the path is the total.
* `HeaviestInv`, on graphs without cycles: what is done costs at least its work and
  any dependency's cost. `NoBackEdge` is the lemma that needs the absence of
  cycles: a dependency that is looked at is never in progress, because the calls
  between would close a cycle. Then no chain outweighs the cost of its last action
  (`WeightIsAtMostLast`).
* `BlastInv`: what is seen depends on the root; of what is popped, all dependents are
  seen; the radius is the number of what is seen but the root. At the end nothing is
  left to pop, so what is seen is closed under dependents and contains all of `Above`.

Two of these compare the state with a recursive definition (`Weight`, the sum along a
chain, and `Above`, the actions that depend on one). The library's induction theorems
take an operator as a parameter, which the installed provers cannot instantiate.
`NaturalFacts` therefore states induction over an interval for a *set* (`InductionUpTo`)
and the existence of an iterated function (`Iteration`), both from the
well-foundedness of `<`; `WeightSteps` and `AboveSteps` use them to show that the
recursive function chosen in the definition exists and satisfies its equation.

### The log and the roots

What makes the log hard to reason about is that nothing in the tee or in the collector
says where in the build's output they are. `LogInv` says it for them:

* `OutInv`: what came out is a prefix of the messages, cut at a piece.
* `BlocksInv`: a name has no block and is ambiguous at once, and each block is that of
  the first lines of one hash.
* `StreamInv`, as long as no write failed: what is in the tee's buffer and then in the
  pipe is whole lines and at most half a line after them, and there is a function
  that counts, line by line, how much of each writer has gone by, from what the tee
  has handled to all that was printed. What is out and what is collected are *made of*
  the first of these counts (`Made`): the messages so far; and for each name, no
  block if none of its hashes has a line, the block of its only hash, or none, as
  ambiguous, if there are several (`NameIs`).
* `FlushInv`: once flushed, without a failure, the counts are those of all that was
  printed.

`Cutting` and `StreamTake` show that a chunk, wherever it ends, takes whole lines
off the stream and leaves a stream; `HashLineMade` and `MessageMade` that handling one
line takes what is made of a count to what is made of the next, in particular that
the second hash of a name removes the block and no later line brings one back. After
a failed write only `OutInv` and `BlocksInv` are left. `OnlyRemovesItsOwn` and
`BlocksAreTrue` follow from them and `FlushInv`.

`RootsAreHonest` needs `BlocksInv` alone, which is why it holds whatever is lost: a
block that ends in its action's digest has all of that hash's inputs and no other's, so
each edge that BuildCause draws is an output that was read (`JoinedIsRead`), and fewer
edges reach fewer actions (`ReachedMore`). `RootsAreTight` is `FlushInv` read in
the other direction: the block of a name that is not ambiguous has all its inputs.

`Cut`, `After` and `KeptOf` are recursive functions without a type, as the state they
fold has none before the invariant is known; `CutIs`, `AfterIs` and `KeptIs` show, with
`Induction` over a set, that they exist and satisfy their equations.

### Two builds and the times

`DiffInv`: each build is closed under dependencies, an action in it either ran or was
cached, what ran has an ActionID, ActionIDs are those of the versions at the time, and
a version is new only of what was edited or depends on something new. The three
properties of the diff report then follow by cases on how findChanges matched an
action: by identity, by a one-to-one remainder, or not.

`TimesInv` adds to the types of the times that none lies in the future. `WorkInv` adds:

* `RanInv`: a command took its part of the time between start and done; and where
  something failed, something failed by itself: what an action waits for was done
  before it, so a first failure stays one. A sum that is 0 has only zeros in it
  (`SumType`), hence `FullyCachedRanNothing`.
* `OrderInv`: an action was ready after what it waits for, the first of all at the
  start; and there is an order of what is done along its dependencies. The times do
  not give one, since an action may take no time, and the graph may have cycles as
  long as nothing on them ever starts. By induction along it no chain took longer
  than from the start until its last action was done (`ChainInTime`).
* `CoresInv`: no more actions run than there are workers, and all of them together
  have taken at most Cores times the time until the last was done, or until now if
  some are running. The time that passes after the last action, before the go command
  exits, must not count, or the bound would be the build's and not the span's.

`SumOf`, like `Weight`, is a recursive function that is shown to exist (`SumIs`), over
the subsets of the tasks; `TaskInduction` is induction over them by their size.

### The command line

The state is the command line itself, so `CommandLineType` (it is a sequence of
arguments) is all the invariant there is; the work is in comparing two readings of a
sequence of any length. Each is shown to exist and to satisfy its equation (`PartsIs`,
`FlagsIs`), which is then restated for one argument at a time (`PartsTurn`,
`FlagTurn`). What is said of a reading is proved from the end of the command line to
its front (`Downward` of NaturalFacts):

* a reading finds no graph where none is named, or where `-args` or `--` comes first
  (`NoGraphBehind`, `NoGraphBefore`); and if it accepts the command it finds the one
  that is named (`GraphIsRead`). A package in front of the flag would end the flags of
  run, which is what `ProgramUsesTheFlag` excludes; of test, if a flag has ended the
  packages before it, which is excluded too (`Unended`); the other commands refuse the
  flag after it (`FlagAfterPackage`). Together: `SameGraph`.
* Inject puts the flag behind everything commandParts looks at, so subcommand and
  directories are the user's (`InjectKeepsParts`), and shifts what follows by one
  without changing how it is read (`InjectKeepsFlags`). So the injected command reads
  as the user's did, with longpole's graph if it named none (`InjectedCommand`).
* Where the go command runs depends on its first flag, and commandDir adds up all
  leading ones; a command that is taken has at most one (`Opens`, `FewFlags`), and the
  two agree (`SameDir`).

`OnlyChdirIsRejected` delimits the divergence of `go_argv_chdir`: it needs neither
`NamedOnce` nor a program without look-alike arguments, only that no change-directory
flag follows the subcommand.

### What the proofs found

* An earlier form of `MissesOnlySuperseded` asked that KeepGlobal newer builds *be
  there* when the diff misses one. It held within the bounds of the run and is false:
  a prune of another scope can take newer builds away afterwards. The history
  variable `due` states what is meant.
* `DiffReport!Edit` let `edited` be empty where a build without edits was meant to
  be a separate case (an operator's precedence).
* `GateAssumption` lacked that "none" is no command, `VariantAssumption` that there
  are finitely many variants.
* BuildCause allowed an input to name an output although the collector drops that
  input, and an action to be looked up under other names than its own first;
  `RootsAreTight` is false of both, and the code does neither (`CauseAssumption`).

### Only model-checked

Liveness under fairness (`RecordingEnds`, `ExitsAfterChild`, `InterruptIsForwarded`,
`AnalysisEnds`) and ENABLED are out of the prover's reach. Every invariant that a
passing run checks is proved, and so is the refinement.

## Where code and documentation disagree

Checked, each by a run whose property TLC finds violated:

1. `run_store_footer`. saveRun looks up prev before its own PruneGlobal, which may
   delete that very build; the footer then advertises a comparison that fails.
2. `store_migration_waits`. migrateActions reads before it writes in a deferred
   transaction, so of two processes that migrate one old database at once one is
   refused immediately instead of waiting; its build is not recorded.
3. `go_argv_chdir`. `go build -C dir` is valid; the flag Inject puts right after
   `build` makes it invalid.
4. `ci_gate_jobs`. Two jobs of one workflow share the cache key; only the first to
   end saves its history and the other's gate never has a baseline.
5. `analysis_failed`. An action that fails before it has a command, such as the build
   of a package with only test files, has no Cmd and counts as cached, like what it
   kept from running; if nothing else ran, the report says that the build failed and
   that everything came from cache. `FullyCachedRanNothing` says that this is the
   only way to be wrong.

Met while modelling and excluded by a stated condition:

* an interrupt between cmd.Start and signal.Notify (`wrap.go:164`) ends longpole
  while the child runs. WrapSession has the step (`UserInterrupts` with
  `~notified`); the properties about exits speak of `main = "gone"`, and
  `ExitsAfterChild` counts a killed longpole as ended.
* without fairness of `ProbeEnds`, `ExitsAfterChild` fails: main.go:150 awaits the
  version probe, which has no timeout.
* `--debug-actiongraph=f` (two dashes) is a spelling the go command takes and
  ExistingGraphPath does not know; it is not among the tokens.
* an argument of the program that `go run pkg` starts may look like the graph flag
  and is taken for it; so may one of the test behind a list of packages that a flag has
  ended (`go test pkg -v pkg -debug-actiongraph=user`: the go command writes no graph
  and longpole looks for `user`). `ProgramUsesTheFlag` excludes these command lines.
* a graph named twice: longpole takes the first, the go command the last
  (`NamedOnce`).
* a build that could not be recorded passes the gate, which then compares the two
  newest older runs; `CatchesRegressions` asks that every build be recorded.

* a flag after the subcommand, `go build -C dir -debug-actiongraph=user`: CommandDir
  knows leading `-C` only, so the graph is looked for in, and the build recorded
  for, the directory longpole was started in (`ChdirAfterSubcommand`).
* a build made with a leading `-C` is recorded under that directory's scope
  (`main.go:292`); the `longpole diff P N` its footer advertises takes the scope of
  the directory it is typed in (`main.go:381`) and is refused there as of a
  different scope.
* a remainder of one action on each side is paired (`diff.go:166`) though it may be
  of two variants, one that left the build and one that entered it. The new one can
  then be missed, or be named as candidate root without an edit. The conditions in
  `NothingIsMissed` and `CandidateRootIsEdited` say exactly when.
* `Cached` means that no command ran (`model.go:104`), which is also true of what a
  failed build never reached: a diff with such a build says "cached last time".
* locally, a failed build between two good ones makes the gate skip twice
  (`main.go:501`), and the next build is compared with the one after the failure.
* on a cyclic graph Find's chain depends on the order of the walk; `FindsHeaviest`
  is stated for acyclic graphs, which the go command writes.

## What is not modelled

* `longpole log`, rendering, the workflows: no state and no order to get wrong.
* Windows: `signal_windows.go` forwards nothing and exit codes are plain.
* Of partly modelled components: modulePath (a name from go.mod or `go list -m`),
  decoding the JSON graph, TopByWork and the rollup by kind, DiffBlocks (only tests
  call it), the text of every report.
* In the modelled parts: look-alike hash lines of other programs (`IsHashLine`
  would hide them), the parsing of flags
  (`--fail-over=NaN` passes ParseFloat and turns the gate off), path handling of
  the DSN, an old release that writes while a new one migrates, the branch rules of
  the Actions cache, another writer of the user's graph file, and a failed build in
  a local sequence of gates.

## Plan

Done, in this order: the store and its abstract history, the proofs of its
invariants, the diff beside it, the session, the command line, the log, the
migration, the CI gate; then the critical path, the diff report, the times, the
roots over the log, and the directory of a build. What is left of the code is text,
parsing and path lookup.

Theorems, done in this order: the store's invariants and its refinement of
`RunHistory`; the diff beside it; the migration; the session; the gate; the walk, the
blast radius and the heaviest path; the diff report; the log and the roots over it;
the times and their bounds; the command line. What is left is liveness, which stays
with TLC.
