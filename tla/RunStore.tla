------------------------------ MODULE RunStore ------------------------------
(***************************************************************************)
(* longpole's run store (internal/store) as several longpole processes use *)
(* it at once: each process that wrapped a build opens the shared SQLite   *)
(* file and runs saveRun (cmd/longpole/main.go), that is                   *)
(* Save -> Previous -> Prune -> PruneGlobal, and then reports.             *)
(*                                                                         *)
(* SQLite in WAL mode is modelled from how the code relies on it: at most  *)
(* one connection holds the write lock, a transaction takes the lock at    *)
(* its first write and gives its changes to the others at COMMIT, a        *)
(* rollback or the death of the process drops them, a reader sees the last *)
(* commit, and whoever waits for the lock gives up after busy_timeout.     *)
(***************************************************************************)
EXTENDS Naturals, FiniteSets

CONSTANTS
  Recorders,   \* slots for longpole processes that record a build
  Scopes,      \* module path + directory
  Commands,    \* the recorded go command lines
  ActCounts,   \* bound: how many actions a build may have
  AllCached,   \* bound: whether all of them may come from the cache
  ExitCodes,   \* the exit codes a wrapped go command may end with
  Keep,        \* keepRuns: builds kept per scope
  KeepGlobal,  \* keepRunsGlobal: builds kept over all scopes
  MaxId,       \* bound: no more than MaxId builds are recorded
  None         \* "no process" / "no job"

ASSUME KeepAssumption == Keep \in Nat \ {0} /\ KeepGlobal \in Nat \ {0}
ASSUME ActCountsAssumption == ActCounts \subseteq Nat
ASSUME AllCachedAssumption == AllCached \subseteq BOOLEAN
ASSUME NoneAssumption == None \notin Recorders
ASSUME MaxIdAssumption == MaxId \in Nat

\* The builds.  cached is Summary.FullyCached: there was work, none of it ran.
Jobs ==
  {j \in [scope : Scopes, command : Commands, acts : ActCounts,
          exit : ExitCodes, cached : AllCached] :
     j.cached => j.acts # 0}

VARIABLES
  runs,     \* committed rows of table runs
  rows,     \* committed rows of table actions
  seq,      \* sqlite_sequence: the largest AUTOINCREMENT id committed
  writer,   \* the process whose transaction holds the write lock, or None
  staged,   \* rows the open write transaction has inserted into actions
  doomed,   \* rows the open write transaction has deleted from runs
  pc,       \* pc[p]: the next step of process p
  job,      \* job[p]: the build p records
  next,     \* next[p]: the index of the action p inserts next
  id,       \* id[p]: saveRun's id, 0 when there is none
  prev,     \* prev[p]: saveRun's prev, 0 when there is none
  prunedAt, \* history variable: seq when a scope was last pruned
  prunedGlobalAt  \* history variable: seq at the last PruneGlobal

tables == <<runs, rows, seq>>
ghosts == <<prunedAt, prunedGlobalAt>>
results == <<id, prev>>
vars == <<tables, writer, staged, doomed, pc, job, next, results, ghosts>>

-----------------------------------------------------------------------------
(* The queries.                                                            *)

\* A row of table runs.  acts is not a column: it remembers how many actions
\* the build had, for the properties to compare the action rows with.
RunRow(i, j) ==
  [id |-> i, scope |-> j.scope, command |-> j.command, acts |-> j.acts,
   exit |-> j.exit]

InScope(s) == {r \in runs : r.scope = s}

\* Mutants of Newest: LIMIT off by one, and ORDER BY id without DESC.
Newest_OneMore(S, k) == {r \in S : Cardinality({q \in S : q.id > r.id}) <= k}
Newest_Ascending(S, k) == {r \in S : Cardinality({q \in S : q.id < r.id}) < k}

\* ORDER BY id DESC LIMIT k
Newest(S, k) == {r \in S : Cardinality({q \in S : q.id > r.id}) < k}

\* Mutant of Earlier: "the last run that is not mine".
Earlier_AnyOther(s, i) == {r \in InScope(s) : r.id # i}

\* WHERE scope = ? AND id < ?
Earlier(s, i) == {r \in InScope(s) : r.id < i}

\* ... ORDER BY id DESC LIMIT 1, or 0 when no row matches
PreviousId(s, i) ==
  LET latest == Newest(Earlier(s, i), 1)
  IN  IF latest = {} THEN 0 ELSE (CHOOSE r \in latest : TRUE).id

\* Mutant of Overflow: one row too many goes.
Overflow_OneMore(S, k) == S \ Newest(S, k - 1)

\* The rows DELETE ... WHERE id NOT IN (the newest k) removes from S.
Overflow(S, k) == S \ Newest(S, k)

\* Mutant of Cascade: a connection that does not enforce foreign keys.
Cascade_NoForeignKeys(gone) == rows

\* ON DELETE CASCADE from runs to actions
Cascade(gone) == {x \in rows : \A r \in gone : x.run # r.id}

-----------------------------------------------------------------------------
(* One process: main.go's persist and saveRun, Store.Save, Previous, Prune *)
(* and PruneGlobal.                                                        *)

Goto(p, label) == pc' = [pc EXCEPT ![p] = label]

\* The write lock is free, so a first write takes it without waiting.
LockFree == writer = None

Saving == {q \in Recorders : pc[q] \in {"insertRun", "insertAction"}}

\* Mutant of NextId: the last id instead of the one after it.
NextId_Reused == seq

\* The value AUTOINCREMENT gives the next row of runs.
NextId == seq + 1

\* The wrapped build has ended and persist opens the store.  MaxId bounds the
\* number of recordings the model explores.
Begin(p) ==
  /\ pc[p] = "idle"
  /\ seq + Cardinality(Saving) < MaxId
  /\ \E j \in Jobs : job' = [job EXCEPT ![p] = j]
  /\ Goto(p, "insertRun")
  /\ UNCHANGED <<tables, writer, staged, doomed, next, results, ghosts>>

\* INSERT INTO runs: the transaction's first write takes the lock and the
\* next AUTOINCREMENT value.
InsertRun(p) ==
  /\ pc[p] = "insertRun"
  /\ LockFree
  /\ writer' = p
  /\ id' = [id EXCEPT ![p] = NextId]
  /\ next' = [next EXCEPT ![p] = 0]
  /\ Goto(p, "insertAction")
  /\ UNCHANGED <<tables, staged, doomed, job, prev, ghosts>>

\* One turn of the loop over acts.
InsertAction(p) ==
  /\ pc[p] = "insertAction"
  /\ next[p] < job[p].acts
  /\ staged' = staged \cup {[run |-> id[p], idx |-> next[p]]}
  /\ next' = [next EXCEPT ![p] = @ + 1]
  /\ UNCHANGED <<tables, writer, doomed, pc, job, results, ghosts>>

\* Save's COMMIT, once the loop is over.
CommitSave(p) ==
  /\ pc[p] = "insertAction"
  /\ next[p] = job[p].acts
  /\ runs' = runs \cup {RunRow(id[p], job[p])}
  /\ rows' = rows \cup staged
  /\ seq' = id[p]
  /\ staged' = {}
  /\ writer' = None
  /\ Goto(p, "previous")
  /\ UNCHANGED <<doomed, job, next, results, ghosts>>

\* A read: it needs no lock and sees the last commit.
Previous(p) ==
  /\ pc[p] = "previous"
  /\ prev' = [prev EXCEPT ![p] = PreviousId(job[p].scope, id[p])]
  /\ Goto(p, "prune")
  /\ UNCHANGED <<tables, writer, staged, doomed, job, next, id, ghosts>>

\* Prune's DELETE, inside its transaction.
Prune(p) ==
  /\ pc[p] = "prune"
  /\ LockFree
  /\ writer' = p
  /\ doomed' = Overflow(InScope(job[p].scope), Keep)
  /\ Goto(p, "commitPrune")
  /\ UNCHANGED <<tables, staged, job, next, results, ghosts>>

CommitPrune(p) ==
  /\ pc[p] = "commitPrune"
  /\ runs' = runs \ doomed
  /\ rows' = Cascade(doomed)
  /\ doomed' = {}
  /\ writer' = None
  /\ prunedAt' = [prunedAt EXCEPT ![job[p].scope] = seq]
  /\ Goto(p, "pruneGlobal")
  /\ UNCHANGED <<seq, staged, job, next, results, prunedGlobalAt>>

\* One autocommitted DELETE: lock, delete and commit are one step.
PruneGlobal(p) ==
  /\ pc[p] = "pruneGlobal"
  /\ LockFree
  /\ LET gone == Overflow(runs, KeepGlobal)
     IN  runs' = runs \ gone /\ rows' = Cascade(gone)
  /\ prunedGlobalAt' = seq
  /\ Goto(p, "close")
  /\ UNCHANGED <<seq, writer, staged, doomed, job, next, results, prunedAt>>

\* persist's deferred Close; the report then has id and prev.
Close(p) ==
  /\ pc[p] = "close"
  /\ Goto(p, "report")
  /\ UNCHANGED <<tables, writer, staged, doomed, job, next, results, ghosts>>

\* The process's memory is gone; its slot is free for the next one.
Forgotten(p) ==
  /\ Goto(p, "idle")
  /\ job' = [job EXCEPT ![p] = None]
  /\ next' = [next EXCEPT ![p] = 0]
  /\ id' = [id EXCEPT ![p] = 0]
  /\ prev' = [prev EXCEPT ![p] = 0]

\* The two builds whose comparison the report's footer advertises.  report.Run
\* returns before its footer where there was no action and where everything
\* came from the cache; writeFooter advertises nothing without an earlier build.
Advertised(p) ==
  IF job[p].acts = 0 \/ job[p].cached \/ id[p] = 0 \/ prev[p] = 0 THEN {}
  ELSE {prev[p], id[p]}

\* report.Run prints the report, Advertised(p) in it, and longpole exits.
Report(p) ==
  /\ pc[p] = "report"
  /\ Forgotten(p)
  /\ UNCHANGED <<tables, writer, staged, doomed, ghosts>>

-----------------------------------------------------------------------------
(* Faults.                                                                 *)

\* Whatever p's open transaction did is undone: tx.Rollback, or SQLite's
\* recovery when p died.
Abort(p) ==
  /\ writer' = IF writer = p THEN None ELSE writer
  /\ staged' = IF writer = p THEN {} ELSE staged
  /\ doomed' = IF writer = p THEN {} ELSE doomed

Recording(p) == pc[p] \notin {"idle", "report"}

\* A store call returns an error: saveRun and persist return 0, 0 and the
\* error, and the report is printed without a footer.
Fail(p) ==
  /\ Abort(p)
  /\ id' = [id EXCEPT ![p] = 0]
  /\ prev' = [prev EXCEPT ![p] = 0]
  /\ Goto(p, "report")
  /\ UNCHANGED <<tables, job, next, ghosts>>

\* Any call may fail: a full disk, a permission, an I/O error.
IoError(p) == Recording(p) /\ Fail(p)

\* Mutant of Waiting: no busy_timeout, whoever waits waits for ever.
Waiting_ForEver(p) == FALSE

\* The first write of a transaction waits for another process's lock.
Waiting(p) ==
  /\ pc[p] \in {"insertRun", "prune", "pruneGlobal"}
  /\ ~LockFree

\* busy_timeout(30000) has passed: SQLITE_BUSY.
BusyTimeout(p) == Waiting(p) /\ Fail(p)

\* The process is killed between two statements.
Crash(p) ==
  /\ pc[p] # "idle"
  /\ Abort(p)
  /\ Forgotten(p)
  /\ UNCHANGED <<tables, ghosts>>

-----------------------------------------------------------------------------
Init ==
  /\ runs = {}
  /\ rows = {}
  /\ seq = 0
  /\ writer = None
  /\ staged = {}
  /\ doomed = {}
  /\ pc = [p \in Recorders |-> "idle"]
  /\ job = [p \in Recorders |-> None]
  /\ next = [p \in Recorders |-> 0]
  /\ id = [p \in Recorders |-> 0]
  /\ prev = [p \in Recorders |-> 0]
  /\ prunedAt = [s \in Scopes |-> 0]
  /\ prunedGlobalAt = 0

\* What a process does next by itself: a statement of its program, or giving
\* up a wait.
Progress(p) ==
  \/ InsertRun(p)
  \/ InsertAction(p)
  \/ CommitSave(p)
  \/ Previous(p)
  \/ Prune(p)
  \/ CommitPrune(p)
  \/ PruneGlobal(p)
  \/ Close(p)
  \/ Report(p)
  \/ BusyTimeout(p)

Next ==
  \E p \in Recorders : Begin(p) \/ Progress(p) \/ IoError(p) \/ Crash(p)

\* The operating system runs every process; builds, errors and crashes need
\* not happen.
Fairness == \A p \in Recorders : WF_vars(Progress(p))

Spec == Init /\ [][Next]_vars

FairSpec == Spec /\ Fairness

-----------------------------------------------------------------------------
Labels == {"idle", "insertRun", "insertAction", "previous", "prune",
           "commitPrune", "pruneGlobal", "close", "report"}

RunRows == [id : Nat \ {0}, scope : Scopes, command : Commands,
            acts : ActCounts, exit : ExitCodes]

ActionRows == [run : Nat \ {0}, idx : Nat]

\* Every variable holds a value of its kind.
TypeOK ==
  /\ runs \subseteq RunRows
  /\ rows \subseteq ActionRows
  /\ seq \in Nat
  /\ writer \in Recorders \cup {None}
  /\ staged \subseteq ActionRows
  /\ doomed \subseteq RunRows
  /\ pc \in [Recorders -> Labels]
  /\ job \in [Recorders -> Jobs \cup {None}]
  /\ next \in [Recorders -> Nat]
  /\ id \in [Recorders -> Nat]
  /\ prev \in [Recorders -> Nat]
  /\ prunedAt \in [Scopes -> Nat]
  /\ prunedGlobalAt \in Nat

ActionsOf(i) == {x.idx : x \in {y \in rows : y.run = i}}

\* A build that is in the store is there with all of its actions, and no
\* action is left behind by a build that is gone, whatever the interleaving
\* of writers, prunes, failures and crashes (Save's transaction, the cascade).
RunsAreWhole ==
  /\ \A r \in runs : ActionsOf(r.id) = 0..(r.acts - 1)
  /\ \A x \in rows : \E r \in runs : x.run = r.id

\* saveRun looks prev up after its own COMMIT, while others commit and prune:
\* prev is still an older build of the same scope with none of that scope
\* recorded in between, and 0 only when no older one is left.
PrevIsNeighbour ==
  \A p \in Recorders :
    pc[p] \in {"prune", "commitPrune", "pruneGlobal", "close"} =>
      /\ prev[p] < id[p]
      /\ \A r \in runs :
           r.scope = job[p].scope => ~(prev[p] < r.id /\ r.id < id[p])

\* A prune leaves at most Keep of the builds that were recorded before it, in
\* its scope (Prune) and at most KeepGlobal over all (PruneGlobal), though
\* others save and prune between the two.
HistoryBounded ==
  /\ \A s \in Scopes :
       Cardinality({r \in InScope(s) : r.id <= prunedAt[s]}) <= Keep
  /\ Cardinality({r \in runs : r.id <= prunedGlobalAt}) <= KeepGlobal

\* The builds a reader can load, with the actions it finds for each.
LoadedHistory ==
  {[id |-> r.id, scope |-> r.scope, command |-> r.command, acts |-> r.acts,
    exit |-> r.exit, found |-> ActionsOf(r.id)] : r \in runs}

History == INSTANCE RunHistory WITH history <- LoadedHistory, last <- seq

\* The store keeps RunHistory's promise: builds enter whole, one at a time and
\* with growing ids, and leave only when enough newer ones superseded them.
KeepsHistory == History!Spec

\* A recording that has begun ends, since every wait is bounded by busy_timeout,
\* and without the write lock, even if it failed or was killed in the middle of
\* its transaction: the others go on.
RecordingEnds ==
  \A p \in Recorders : Recording(p) ~> ~Recording(p) /\ writer # p

\* The footer's "compare: longpole diff PREV ID" (internal/report) names two
\* builds that can be compared: the ones it names are still in the store.
AdvertisedBuildsExist ==
  \A p \in Recorders :
    pc[p] = "report" => Advertised(p) \subseteq {r.id : r \in runs}
=============================================================================
