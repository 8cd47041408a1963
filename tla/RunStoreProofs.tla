--------------------------- MODULE RunStoreProofs ---------------------------
(***************************************************************************)
(* Theorems about RunStore and its reader RunDiff, for every number of     *)
(* processes, scopes, commands and actions, every Keep and KeepGlobal.     *)
(*                                                                         *)
(* The invariants are not inductive by themselves: that a committed build  *)
(* is whole needs to know what the transaction has staged, and that prev   *)
(* is the neighbour of id needs to know that ids are given out under the   *)
(* write lock, in the order of the commits.  IInv says so.                 *)
(***************************************************************************)
EXTENDS RunDiff, FiniteSetTheorems, FunctionTheorems, SequenceTheorems,
        WellFoundedInduction, TLAPS

\* The write lock is held exactly between a transaction's first write and its
\* end, and a busy process has a job.
LockInv ==
  /\ \A p \in Recorders :
       writer = p <=> pc[p] \in {"insertAction", "commitPrune"}
  /\ \A p \in Recorders : pc[p] # "idle" => job[p] \in Jobs

\* Committed ids are distinct and at most seq.
IdInv ==
  /\ IsFiniteSet(runs)
  /\ \A r \in runs : r.id <= seq
  /\ \A r, q \in runs : r.id = q.id => r = q

\* What the open transaction has done so far.
StagedInv ==
  /\ \A p \in Recorders :
       pc[p] = "insertAction" =>
         /\ id[p] = seq + 1
         /\ next[p] <= job[p].acts
         /\ staged = {[run |-> id[p], idx |-> i] : i \in 0..(next[p] - 1)}
  /\ (\A p \in Recorders : pc[p] # "insertAction") => staged = {}
  /\ \A p \in Recorders :
       pc[p] = "commitPrune" =>
         doomed = Overflow(InScope(job[p].scope), Keep)

\* A process past its COMMIT has an id the store has given out.
SavedInv ==
  \A p \in Recorders :
    pc[p] \in {"previous", "prune", "commitPrune", "pruneGlobal", "close"} =>
      id[p] # 0 /\ id[p] <= seq

\* The ghosts lie in the past.
PrunedInv ==
  /\ \A s \in Scopes : prunedAt[s] <= seq
  /\ prunedGlobalAt <= seq

IInv ==
  /\ TypeOK
  /\ LockInv
  /\ IdInv
  /\ StagedInv
  /\ SavedInv
  /\ PrunedInv
  /\ RunsAreWhole
  /\ PrevIsNeighbour
  /\ HistoryBounded

-----------------------------------------------------------------------------
\* No step gives a variable a value of another kind.
LEMMA TypePreserved == IInv /\ [Next]_vars => TypeOK'
<1> SUFFICES ASSUME IInv, [Next]_vars PROVE TypeOK'
  OBVIOUS
<1> USE DEF TypeOK, Labels, Goto, tables, ghosts, results
<1>0. TypeOK /\ LockInv /\ StagedInv
  BY DEF IInv
<1>1. CASE UNCHANGED vars
  BY <1>0, <1>1 DEF vars
<1>2. ASSUME NEW p \in Recorders, Begin(p) PROVE TypeOK'
  BY <1>0, <1>2 DEF Begin
<1>3. ASSUME NEW p \in Recorders, InsertRun(p) PROVE TypeOK'
  BY <1>0, <1>3 DEF InsertRun, NextId
<1>4. ASSUME NEW p \in Recorders, InsertAction(p) PROVE TypeOK'
  <2>1. id[p] \in Nat \ {0}
    BY <1>0, <1>4 DEF InsertAction, StagedInv
  <2>2. [run |-> id[p], idx |-> next[p]] \in ActionRows
    BY <1>0, <2>1 DEF ActionRows
  <2> QED BY <1>0, <1>4, <2>2 DEF InsertAction
<1>5. ASSUME NEW p \in Recorders, CommitSave(p) PROVE TypeOK'
  <2>1. id[p] \in Nat \ {0} /\ job[p] \in Jobs
    BY <1>0, <1>5 DEF CommitSave, StagedInv, LockInv
  <2>2. RunRow(id[p], job[p]) \in RunRows
    BY <2>1 DEF RunRow, RunRows, Jobs
  <2> QED BY <1>0, <1>5, <2>1, <2>2 DEF CommitSave
<1>6. ASSUME NEW p \in Recorders, Previous(p) PROVE TypeOK'
  <2>1. PreviousId(job[p].scope, id[p]) \in Nat
    BY <1>0 DEF PreviousId, Newest, Earlier, InScope, RunRows
  <2> QED BY <1>0, <1>6, <2>1 DEF Previous
<1>7. ASSUME NEW p \in Recorders, Prune(p) PROVE TypeOK'
  BY <1>0, <1>7 DEF Prune, Overflow, InScope
<1>8. ASSUME NEW p \in Recorders, CommitPrune(p) PROVE TypeOK'
  BY <1>0, <1>8 DEF CommitPrune, Cascade
<1>9. ASSUME NEW p \in Recorders, PruneGlobal(p) PROVE TypeOK'
  BY <1>0, <1>9 DEF PruneGlobal, Cascade, Overflow
<1>10. ASSUME NEW p \in Recorders, Close(p) PROVE TypeOK'
  BY <1>0, <1>10 DEF Close
<1>11. ASSUME NEW p \in Recorders, Report(p) PROVE TypeOK'
  BY <1>0, <1>11 DEF Report, Forgotten
<1>12. ASSUME NEW p \in Recorders, Fail(p) PROVE TypeOK'
  BY <1>0, <1>12 DEF Fail, Abort
<1>13. ASSUME NEW p \in Recorders, Crash(p) PROVE TypeOK'
  BY <1>0, <1>13 DEF Crash, Forgotten, Abort
<1> HIDE DEF TypeOK, Labels, Goto, tables, ghosts, results
<1>14. ASSUME Next PROVE TypeOK'
  BY <1>2, <1>3, <1>4, <1>5, <1>6, <1>7, <1>8, <1>9, <1>10, <1>11, <1>12,
     <1>13, <1>14 DEF Next, Progress, IoError, BusyTimeout
<1> QED
  BY <1>1, <1>14

\* The lock is held exactly inside a transaction that has written.
LEMMA LockPreserved == IInv /\ [Next]_vars => LockInv'
<1> SUFFICES ASSUME IInv, [Next]_vars PROVE LockInv'
  OBVIOUS
<1> USE NoneAssumption DEF LockInv, Goto, tables, ghosts, results
<1>0. TypeOK /\ LockInv
  BY DEF IInv
<1>a. pc \in [Recorders -> Labels] /\ job \in [Recorders -> Jobs \cup {None}]
  BY <1>0 DEF TypeOK
<1>1. CASE UNCHANGED vars
  BY <1>0, <1>1 DEF vars
<1>2. ASSUME NEW p \in Recorders, Begin(p) PROVE LockInv'
  BY <1>0, <1>a, <1>2 DEF Begin
<1>3. ASSUME NEW p \in Recorders, InsertRun(p) PROVE LockInv'
  BY <1>0, <1>a, <1>3 DEF InsertRun, LockFree
<1>4. ASSUME NEW p \in Recorders, InsertAction(p) PROVE LockInv'
  BY <1>0, <1>a, <1>4 DEF InsertAction
<1>5. ASSUME NEW p \in Recorders, CommitSave(p) PROVE LockInv'
  BY <1>0, <1>a, <1>5 DEF CommitSave
<1>6. ASSUME NEW p \in Recorders, Previous(p) PROVE LockInv'
  BY <1>0, <1>a, <1>6 DEF Previous
<1>7. ASSUME NEW p \in Recorders, Prune(p) PROVE LockInv'
  BY <1>0, <1>a, <1>7 DEF Prune, LockFree
<1>8. ASSUME NEW p \in Recorders, CommitPrune(p) PROVE LockInv'
  BY <1>0, <1>a, <1>8 DEF CommitPrune
<1>9. ASSUME NEW p \in Recorders, PruneGlobal(p) PROVE LockInv'
  BY <1>0, <1>a, <1>9 DEF PruneGlobal
<1>10. ASSUME NEW p \in Recorders, Close(p) PROVE LockInv'
  BY <1>0, <1>a, <1>10 DEF Close
<1>11. ASSUME NEW p \in Recorders, Report(p) PROVE LockInv'
  BY <1>0, <1>a, <1>11 DEF Report, Forgotten
<1>12. ASSUME NEW p \in Recorders, pc[p] \notin {"idle", "report"}, Fail(p)
       PROVE LockInv'
  BY <1>0, <1>a, <1>12 DEF Fail, Abort
<1>13. ASSUME NEW p \in Recorders, Crash(p) PROVE LockInv'
  BY <1>0, <1>a, <1>13 DEF Crash, Forgotten, Abort
<1> HIDE DEF LockInv, Goto, tables, ghosts, results
<1>14. ASSUME Next PROVE LockInv'
  BY <1>2, <1>3, <1>4, <1>5, <1>6, <1>7, <1>8, <1>9, <1>10, <1>11, <1>12,
     <1>13, <1>14
  DEF Next, Progress, IoError, BusyTimeout, Waiting, Recording
<1> QED
  BY <1>1, <1>14

\* Ids stay distinct and at most seq: CommitSave adds seq + 1 and nothing else
\* adds a run.
LEMMA IdPreserved == IInv /\ [Next]_vars => IdInv'
<1> SUFFICES ASSUME IInv, [Next]_vars PROVE IdInv'
  OBVIOUS
<1>0. TypeOK /\ LockInv /\ IdInv /\ StagedInv
  BY DEF IInv
<1>1. ASSUME NEW p \in Recorders, CommitSave(p) PROVE IdInv'
  <2>1. id[p] = seq + 1 /\ seq \in Nat
    BY <1>0, <1>1 DEF CommitSave, StagedInv, TypeOK
  <2>2. IsFiniteSet(runs')
    BY <1>0, <1>1, FS_AddElement DEF CommitSave, IdInv
  <2>3. \A r \in runs : r.id \in Nat /\ r.id <= seq
    BY <1>0 DEF IdInv, TypeOK, RunRows
  <2>4. RunRow(id[p], job[p]).id = seq + 1
    BY <2>1 DEF RunRow
  <2>5. runs' = runs \cup {RunRow(id[p], job[p])} /\ seq' = seq + 1
    BY <1>1, <2>1 DEF CommitSave
  <2>6. \A r \in runs' : r.id <= seq'
    BY <2>1, <2>3, <2>4, <2>5
  <2>7. \A r, q \in runs' : r.id = q.id => r = q
    BY <1>0, <2>1, <2>3, <2>4, <2>5 DEF IdInv
  <2> QED
    BY <2>2, <2>6, <2>7 DEF IdInv
<1>2. ASSUME runs' \subseteq runs, seq' = seq PROVE IdInv'
  BY <1>0, <1>2, FS_Subset DEF IdInv
<1>3. \/ \E p \in Recorders : CommitSave(p)
      \/ runs' \subseteq runs /\ seq' = seq
  BY DEF Next, Progress, IoError, BusyTimeout, vars, tables, Begin, InsertRun,
         InsertAction, Previous, Prune, CommitPrune, PruneGlobal, Close,
         Report, Fail, Crash
<1> QED
  BY <1>1, <1>2, <1>3

\* The ghosts and the ids of saved builds never exceed seq, which only grows.
LEMMA SavedPreserved == IInv /\ [Next]_vars => SavedInv' /\ PrunedInv'
<1> SUFFICES ASSUME IInv, [Next]_vars PROVE SavedInv' /\ PrunedInv'
  OBVIOUS
<1>0. TypeOK /\ LockInv /\ StagedInv /\ SavedInv /\ PrunedInv
  BY DEF IInv
<1>a. /\ pc \in [Recorders -> Labels] /\ seq \in Nat
      /\ id \in [Recorders -> Nat]
      /\ prunedAt \in [Scopes -> Nat] /\ prunedGlobalAt \in Nat
  BY <1>0 DEF TypeOK
<1> USE DEF SavedInv, PrunedInv, Goto, tables, ghosts, results
<1>1. CASE UNCHANGED vars
  BY <1>0, <1>1 DEF vars
<1>2. ASSUME NEW p \in Recorders, Begin(p) PROVE SavedInv' /\ PrunedInv'
  BY <1>0, <1>a, <1>2 DEF Begin
<1>3. ASSUME NEW p \in Recorders, InsertRun(p) PROVE SavedInv' /\ PrunedInv'
  BY <1>0, <1>a, <1>3 DEF InsertRun
<1>4. ASSUME NEW p \in Recorders, InsertAction(p)
      PROVE  SavedInv' /\ PrunedInv'
  BY <1>0, <1>a, <1>4 DEF InsertAction
<1>5. ASSUME NEW p \in Recorders, CommitSave(p) PROVE SavedInv' /\ PrunedInv'
  <2>1. seq' = seq + 1 /\ id[p] = seq + 1
    BY <1>0, <1>5 DEF CommitSave, StagedInv
  <2>2. PrunedInv'
    BY <1>0, <1>a, <1>5, <2>1 DEF CommitSave
  <2>3. SavedInv'
    BY <1>0, <1>a, <1>5, <2>1 DEF CommitSave
  <2> QED BY <2>2, <2>3
<1>6. ASSUME NEW p \in Recorders, Previous(p) PROVE SavedInv' /\ PrunedInv'
  BY <1>0, <1>a, <1>6 DEF Previous
<1>7. ASSUME NEW p \in Recorders, Prune(p) PROVE SavedInv' /\ PrunedInv'
  BY <1>0, <1>a, <1>7 DEF Prune
<1>8. ASSUME NEW p \in Recorders, CommitPrune(p)
      PROVE  SavedInv' /\ PrunedInv'
  BY <1>0, <1>a, <1>8 DEF CommitPrune
<1>9. ASSUME NEW p \in Recorders, PruneGlobal(p)
      PROVE  SavedInv' /\ PrunedInv'
  BY <1>0, <1>a, <1>9 DEF PruneGlobal
<1>10. ASSUME NEW p \in Recorders, Close(p) PROVE SavedInv' /\ PrunedInv'
  BY <1>0, <1>a, <1>10 DEF Close
<1>11. ASSUME NEW p \in Recorders, Report(p) PROVE SavedInv' /\ PrunedInv'
  BY <1>0, <1>a, <1>11 DEF Report, Forgotten
<1>12. ASSUME NEW p \in Recorders, Fail(p) PROVE SavedInv' /\ PrunedInv'
  BY <1>0, <1>a, <1>12 DEF Fail
<1>13. ASSUME NEW p \in Recorders, Crash(p) PROVE SavedInv' /\ PrunedInv'
  BY <1>0, <1>a, <1>13 DEF Crash, Forgotten
<1> HIDE DEF SavedInv, PrunedInv, Goto, tables, ghosts, results
<1>14. ASSUME Next PROVE SavedInv' /\ PrunedInv'
  BY <1>2, <1>3, <1>4, <1>5, <1>6, <1>7, <1>8, <1>9, <1>10, <1>11, <1>12,
     <1>13, <1>14 DEF Next, Progress, IoError, BusyTimeout
<1> QED
  BY <1>1, <1>14

\* What a transaction has staged is its own work: while it holds the lock no
\* other process commits, and when it ends nothing of it remains.
LEMMA StagedPreserved == IInv /\ [Next]_vars => StagedInv'
<1> SUFFICES ASSUME IInv, [Next]_vars PROVE StagedInv'
  OBVIOUS
<1>0. TypeOK /\ LockInv /\ StagedInv
  BY DEF IInv
<1>a. /\ pc \in [Recorders -> Labels] /\ seq \in Nat
      /\ id \in [Recorders -> Nat] /\ next \in [Recorders -> Nat]
      /\ job \in [Recorders -> Jobs \cup {None}]
      /\ writer \in Recorders \cup {None}
  BY <1>0 DEF TypeOK
<1>b. \A q \in Recorders : pc[q] # "idle" => job[q].acts \in Nat
  BY <1>0, ActCountsAssumption DEF LockInv, Jobs
<1>c. \A q \in Recorders :
        writer = q <=> pc[q] \in {"insertAction", "commitPrune"}
  BY <1>0 DEF LockInv
<1> USE NoneAssumption
    DEF StagedInv, Goto, tables, ghosts, results, InScope, Overflow, Newest
<1>d. ASSUME UNCHANGED <<seq, staged, doomed>>,
             \A q \in Recorders :
               pc'[q] \in {"insertAction", "commitPrune"} =>
                 /\ pc'[q] = pc[q] /\ id'[q] = id[q] /\ next'[q] = next[q]
                 /\ job'[q] = job[q] /\ runs' = runs,
             \A q \in Recorders :
               pc[q] = "insertAction" => pc'[q] = "insertAction"
      PROVE  StagedInv'
  <2>1. \A q \in Recorders :
          pc'[q] = "insertAction" =>
            /\ id'[q] = seq' + 1
            /\ next'[q] <= job'[q].acts
            /\ staged' = {[run |-> id'[q], idx |-> i] : i \in 0..(next'[q] - 1)}
    BY <1>0, <1>d
  <2>2. (\A q \in Recorders : pc'[q] # "insertAction") => staged' = {}
    BY <1>0, <1>d
  <2>3. ASSUME NEW q \in Recorders, pc'[q] = "commitPrune"
        PROVE  doomed' = Overflow(InScope(job[q].scope), Keep)'
    <3>1. doomed = Overflow(InScope(job[q].scope), Keep)
      BY <1>0, <1>d, <2>3
    <3>2. runs' = runs /\ job'[q] = job[q] /\ doomed' = doomed
      BY <1>d, <2>3
    <3> QED
      BY <3>1, <3>2
  <2> QED
    BY <2>1, <2>2, <2>3
<1>1. CASE UNCHANGED vars
  BY <1>0, <1>1 DEF vars
<1>2. ASSUME NEW p \in Recorders, Begin(p) PROVE StagedInv'
  BY <1>a, <1>d, <1>2 DEF Begin
<1>3. ASSUME NEW p \in Recorders, InsertRun(p) PROVE StagedInv'
  <2>1. \A q \in Recorders : pc[q] \notin {"insertAction", "commitPrune"}
    BY <1>c, <1>3 DEF InsertRun, LockFree
  <2>2. job[p].acts \in Nat /\ staged = {}
    BY <1>0, <1>b, <1>3, <2>1 DEF InsertRun
  <2> QED
    BY <1>a, <1>3, <2>1, <2>2 DEF InsertRun, NextId
<1>4. ASSUME NEW p \in Recorders, InsertAction(p) PROVE StagedInv'
  <2>1. /\ pc[p] = "insertAction" /\ writer = p
        /\ next[p] \in Nat /\ job[p].acts \in Nat /\ next[p] < job[p].acts
        /\ next'[p] = next[p] + 1
        /\ UNCHANGED <<runs, seq, pc, job, id, doomed>>
    BY <1>a, <1>b, <1>c, <1>4 DEF InsertAction
  <2>2. 0..(next'[p] - 1) = 0..(next[p] - 1) \cup {next[p]}
    BY <2>1
  <2>3. staged' = {[run |-> id[p], idx |-> i] : i \in 0..(next'[p] - 1)}
    BY <1>0, <1>4, <2>1, <2>2 DEF InsertAction
  <2>4. \A q \in Recorders : q # p => pc[q] # "insertAction"
    BY <1>c, <2>1
  <2>5. next'[p] <= job[p].acts
    BY <2>1
  <2> QED
    BY <1>0, <1>c, <2>1, <2>3, <2>4, <2>5
<1>5. ASSUME NEW p \in Recorders, CommitSave(p) PROVE StagedInv'
  <2>1. \A q \in Recorders :
          q # p => pc[q] \notin {"insertAction", "commitPrune"}
    BY <1>c, <1>5 DEF CommitSave
  <2> QED
    BY <1>a, <1>5, <2>1 DEF CommitSave
<1>6. ASSUME NEW p \in Recorders, Previous(p) PROVE StagedInv'
  BY <1>0, <1>a, <1>6 DEF Previous
<1>7. ASSUME NEW p \in Recorders, Prune(p) PROVE StagedInv'
  <2>1. \A q \in Recorders : pc[q] \notin {"insertAction", "commitPrune"}
    BY <1>c, <1>7 DEF Prune, LockFree
  <2> QED
    BY <1>0, <1>a, <1>7, <2>1 DEF Prune
<1>8. ASSUME NEW p \in Recorders, CommitPrune(p) PROVE StagedInv'
  <2>1. \A q \in Recorders :
          q # p => pc[q] \notin {"insertAction", "commitPrune"}
    BY <1>c, <1>8 DEF CommitPrune
  <2>2. staged = {}
    BY <1>0, <1>8, <2>1 DEF CommitPrune
  <2> QED
    BY <1>a, <1>8, <2>1, <2>2 DEF CommitPrune
<1>9. ASSUME NEW p \in Recorders, PruneGlobal(p) PROVE StagedInv'
  <2>1. \A q \in Recorders : pc[q] \notin {"insertAction", "commitPrune"}
    BY <1>c, <1>9 DEF PruneGlobal, LockFree
  <2> QED
    BY <1>a, <1>d, <1>9, <2>1 DEF PruneGlobal
<1>10. ASSUME NEW p \in Recorders, Close(p) PROVE StagedInv'
  BY <1>0, <1>a, <1>10 DEF Close
<1>11. ASSUME NEW p \in Recorders, Report(p) PROVE StagedInv'
  BY <1>a, <1>d, <1>11 DEF Report, Forgotten
<1>12. ASSUME NEW p \in Recorders, Abort(p),
              \/ Goto(p, "idle")
              \/ Goto(p, "report"),
              \A q \in Recorders : q # p =>
                id'[q] = id[q] /\ next'[q] = next[q] /\ job'[q] = job[q],
              UNCHANGED tables
       PROVE  StagedInv'
  <2>1. pc' \in [Recorders -> Labels \cup {"idle", "report"}]
        /\ pc'[p] \in {"idle", "report"}
        /\ \A q \in Recorders : q # p => pc'[q] = pc[q]
    BY <1>a, <1>12
  <2>2. CASE writer = p
    <3>1. \A q \in Recorders : pc'[q] \notin {"insertAction", "commitPrune"}
      BY <1>c, <2>1, <2>2
    <3> QED BY <1>12, <2>2, <3>1 DEF Abort
  <2>3. CASE writer # p
    <3>1. staged' = staged /\ doomed' = doomed
      BY <1>12, <2>3 DEF Abort
    <3>2. pc[p] \notin {"insertAction", "commitPrune"}
      BY <1>c, <2>3
    <3> QED BY <1>12, <1>d, <2>1, <3>1, <3>2
  <2> QED BY <2>2, <2>3
<1>13. ASSUME NEW p \in Recorders, Fail(p) PROVE StagedInv'
  BY <1>a, <1>12, <1>13 DEF Fail
<1>14. ASSUME NEW p \in Recorders, Crash(p) PROVE StagedInv'
  BY <1>a, <1>12, <1>14 DEF Crash, Forgotten
<1> HIDE DEF StagedInv, Goto, tables, ghosts, results, InScope, Overflow,
             Newest
<1>15. ASSUME Next PROVE StagedInv'
  BY <1>2, <1>3, <1>4, <1>5, <1>6, <1>7, <1>8, <1>9, <1>10, <1>11, <1>13,
     <1>14, <1>15 DEF Next, Progress, IoError, BusyTimeout
<1> QED
  BY <1>1, <1>15

-----------------------------------------------------------------------------
(* ORDER BY id DESC LIMIT k: what Newest returns.                          *)

\* A non-empty set of numbers has a least element.
LEMMA LeastNumber ==
  ASSUME NEW T \in SUBSET Nat, T # {}
  PROVE  \E m \in T : \A k \in T : m <= k
<1> DEFINE less == OpToRel(<, Nat)
<1>1. IsWellFoundedOn(less, Nat)
  BY NatLessThanWellFounded
<1>2. \A k, m \in Nat : k < m => <<k, m>> \in less
  BY DEF OpToRel
<1> HIDE DEF less
<1>3. T \subseteq Nat
  OBVIOUS
<1>4. PICK m \in T : \A k \in T : ~ (<<k, m>> \in less)
  BY <1>1, <1>3, WFMin
<1>5. ASSUME NEW k \in T PROVE m <= k
  <2>1. k \in Nat /\ m \in Nat
    BY <1>3
  <2>2. ~ (k < m)
    BY <1>2, <1>4, <2>1
  <2> QED
    BY <2>1, <2>2
<1> QED
  BY <1>5

\* A non-empty set of numbers that are at most n has a greatest element.
LEMMA GreatestNumber ==
  ASSUME NEW T \in SUBSET Nat, T # {}, NEW n \in Nat, \A k \in T : k <= n
  PROVE  \E m \in T : \A k \in T : k <= m
<1> DEFINE U == {n - k : k \in T}
<1>1. U \in SUBSET Nat /\ U # {}
  <2>1. ASSUME NEW k \in T PROVE n - k \in Nat
    OBVIOUS
  <2>2. U \in SUBSET Nat
    BY <2>1
  <2>3. PICK k \in T : TRUE
    OBVIOUS
  <2>4. n - k \in U
    OBVIOUS
  <2> QED
    BY <2>2, <2>4
<1>2. PICK u \in U : \A v \in U : u <= v
  BY <1>1, LeastNumber
<1>3. PICK m \in T : u = n - m
  OBVIOUS
<1>4. \A k \in T : n - m <= n - k
  BY <1>2, <1>3
<1> QED
  BY <1>4

\* Newest(S, 1) is the one row with the largest id, if there is any row.
LEMMA NewestOne ==
  ASSUME NEW S, IsFiniteSet(S), NEW n \in Nat,
         \A r \in S : r.id \in Nat /\ r.id <= n
  PROVE  /\ S # {} => Newest(S, 1) # {}
         /\ \A r \in Newest(S, 1) : r \in S /\ \A q \in S : q.id <= r.id
<1>1. ASSUME NEW r \in S
      PROVE  Cardinality({q \in S : q.id > r.id}) < 1
             <=> {q \in S : q.id > r.id} = {}
  <2> DEFINE N == {q \in S : q.id > r.id}
  <2>1. IsFiniteSet(N)
    BY FS_Subset
  <2>2. Cardinality(N) \in Nat
    BY <2>1, FS_CardinalityType
  <2>3. Cardinality(N) = 0 <=> N = {}
    BY <2>1, FS_EmptySet
  <2> QED
    BY <2>2, <2>3
<1>2. ASSUME S # {} PROVE Newest(S, 1) # {}
  <2> DEFINE T == {r.id : r \in S}
  <2>1. T \in SUBSET Nat /\ T # {} /\ \A k \in T : k <= n
    BY <1>2
  <2>2. \A r \in S : r.id \in T
    OBVIOUS
  <2>3. PICK r \in S : \A k \in T : k <= r.id
    <3> HIDE DEF T
    <3>1. PICK m \in T : \A k \in T : k <= m
      BY <2>1, GreatestNumber
    <3> QED
      BY <3>1 DEF T
  <2>4. \A q \in S : q.id <= r.id /\ q.id \in Nat /\ r.id \in Nat
    BY <2>2, <2>3
  <2>5. {q \in S : q.id > r.id} = {}
    BY <2>4
  <2> QED
    BY <1>1, <2>5 DEF Newest
<1>3. ASSUME NEW r \in Newest(S, 1), NEW q \in S PROVE r \in S /\ q.id <= r.id
  <2>1. r \in S
    BY DEF Newest
  <2>2. {x \in S : x.id > r.id} = {}
    BY <1>1, <2>1 DEF Newest
  <2> QED
    BY <2>1, <2>2
<1> QED
  BY <1>2, <1>3 DEF Newest

\* Newest(S, k) has at most k rows when the ids are distinct: all of its rows
\* but the oldest are newer than the oldest.
LEMMA NewestBound ==
  ASSUME NEW S, IsFiniteSet(S), NEW k \in Nat, \A r \in S : r.id \in Nat,
         \A r, q \in S : r.id = q.id => r = q
  PROVE  /\ IsFiniteSet(Newest(S, k))
         /\ Cardinality(Newest(S, k)) <= k
<1> DEFINE N == Newest(S, k)
<1>1. N \subseteq S /\ IsFiniteSet(N) /\ Cardinality(N) \in Nat
  <2>1. N \in SUBSET S
    BY DEF Newest
  <2>2. IsFiniteSet(N)
    BY <2>1, FS_Subset
  <2> HIDE DEF N
  <2> QED
    BY <2>1, <2>2, FS_CardinalityType
<1>2. CASE N = {}
  BY <1>2, FS_EmptySet
<1>3. CASE N # {}
  <2> DEFINE T == {r.id : r \in N}
  <2>1. T \in SUBSET Nat /\ T # {} /\ \A r \in N : r.id \in T
    BY <1>1, <1>3
  <2>2. PICK old \in N : \A r \in N : old.id <= r.id
    <3> HIDE DEF T, N
    <3>1. PICK m \in T : \A j \in T : m <= j
      BY <2>1, LeastNumber
    <3> QED
      BY <2>1, <3>1 DEF T
  <2> HIDE DEF T
  <2> DEFINE newer == {q \in S : q.id > old.id}
  <2>3. N \ {old} \in SUBSET newer
    <3>1. ASSUME NEW r \in N, r # old PROVE r \in S /\ r.id > old.id
      <4>1. r \in S /\ old \in S /\ old.id <= r.id
        BY <1>1, <2>2
      <4> QED
        BY <3>1, <4>1
    <3> QED
      BY <3>1
  <2>4. IsFiniteSet(newer) /\ Cardinality(newer) \in Nat
    <3>1. newer \in SUBSET S
      OBVIOUS
    <3>2. IsFiniteSet(newer)
      BY <3>1, FS_Subset
    <3> HIDE DEF newer
    <3> QED
      BY <3>2, FS_CardinalityType
  <2>5. Cardinality(newer) < k
    BY <2>2 DEF Newest
  <2>6. Cardinality(N \ {old}) <= Cardinality(newer)
    <3> HIDE DEF newer, N
    <3> QED
      BY <2>3, <2>4, FS_Subset
  <2>7. Cardinality(N \ {old}) = Cardinality(N) - 1
    <3> HIDE DEF newer, N
    <3> QED
      BY <1>1, <2>2, FS_RemoveElement
  <2> QED
    <3> HIDE DEF newer, N
    <3>1. IsFiniteSet(N) /\ Cardinality(N) <= k
      BY <1>1, <2>4, <2>5, <2>6, <2>7
    <3> QED
      BY <3>1 DEF N
<1> QED
  BY <1>1, <1>2, <1>3

-----------------------------------------------------------------------------
\* The query of Previous finds the newest earlier build, and 0 only when there
\* is none.
LEMMA PreviousIsNearest ==
  ASSUME TypeOK, IdInv, NEW s, NEW i \in Nat \ {0}
  PROVE  /\ PreviousId(s, i) < i
         /\ \A r \in Earlier(s, i) : r.id <= PreviousId(s, i)
<1> DEFINE S == Earlier(s, i)
           found == CHOOSE r \in Newest(S, 1) : TRUE
<1>1. S \in SUBSET runs
  BY DEF Earlier, InScope
<1>2. \A r \in S : r.id \in Nat /\ r.id <= seq /\ r.id < i
  BY <1>1 DEF IdInv, TypeOK, RunRows, Earlier
<1>3. IsFiniteSet(S) /\ seq \in Nat
  BY <1>1, FS_Subset DEF IdInv, TypeOK
<1>4. /\ S # {} => Newest(S, 1) # {}
      /\ \A r \in Newest(S, 1) : r \in S /\ \A q \in S : q.id <= r.id
  <2> HIDE DEF S
  <2> QED
    BY <1>2, <1>3, NewestOne
<1>5. CASE Newest(S, 1) = {}
  BY <1>4, <1>5 DEF PreviousId
<1>6. CASE Newest(S, 1) # {}
  <2>1. found \in Newest(S, 1)
    BY <1>6
  <2>2. PreviousId(s, i) = found.id
    BY <1>6 DEF PreviousId
  <2> QED
    BY <1>2, <1>4, <2>1, <2>2
<1> QED
  BY <1>5, <1>6

\* A step that commits no build leaves the builds it keeps, and their
\* neighbours, alone; a build committed later has a larger id.
LEMMA NeighbourPreserved == IInv /\ [Next]_vars => PrevIsNeighbour'
<1> SUFFICES ASSUME IInv, [Next]_vars PROVE PrevIsNeighbour'
  OBVIOUS
<1> DEFINE After == {"prune", "commitPrune", "pruneGlobal", "close"}
<1>0. TypeOK /\ LockInv /\ IdInv /\ StagedInv /\ SavedInv /\ PrevIsNeighbour
  BY DEF IInv
<1>a. /\ pc \in [Recorders -> Labels] /\ seq \in Nat
      /\ id \in [Recorders -> Nat] /\ prev \in [Recorders -> Nat]
      /\ job \in [Recorders -> Jobs \cup {None}]
      /\ \A r \in runs : r.id \in Nat \ {0}
  BY <1>0 DEF TypeOK, RunRows
<1>b. ASSUME \A r \in runs' : r \in runs \/ r.id = seq + 1,
             \A p \in Recorders :
               pc'[p] \in After => /\ pc[p] \in After
                                   /\ id'[p] = id[p] /\ prev'[p] = prev[p]
                                   /\ job'[p] = job[p]
      PROVE  PrevIsNeighbour'
  <2> SUFFICES ASSUME NEW p \in Recorders, pc'[p] \in After
               PROVE  /\ prev'[p] < id'[p]
                      /\ \A r \in runs' :
                           r.scope = job'[p].scope =>
                             ~ (prev'[p] < r.id /\ r.id < id'[p])
    BY DEF PrevIsNeighbour
  <2>1. /\ prev[p] < id[p] /\ id[p] <= seq
        /\ \A r \in runs :
             r.scope = job[p].scope => ~ (prev[p] < r.id /\ r.id < id[p])
    BY <1>0, <1>b DEF PrevIsNeighbour, SavedInv
  <2>2. ASSUME NEW r \in runs', r \notin runs PROVE ~ (r.id < id[p])
    <3>1. r.id = seq + 1 /\ id[p] \in Nat
      BY <1>a, <1>b, <2>2
    <3> QED
      BY <1>a, <2>1, <3>1
  <2> QED
    BY <1>b, <2>1, <2>2
<1>c. ASSUME runs' \subseteq runs,
             NEW p \in Recorders,
             \A q \in Recorders : q # p => /\ pc'[q] = pc[q] /\ id'[q] = id[q]
                                           /\ prev'[q] = prev[q]
                                           /\ job'[q] = job[q],
             \/ pc'[p] \notin After
             \/ /\ pc[p] \in After
                /\ id'[p] = id[p] /\ prev'[p] = prev[p] /\ job'[p] = job[p]
      PROVE  PrevIsNeighbour'
  BY <1>b, <1>c
<1> USE DEF Goto, tables, ghosts, results
<1>1. CASE UNCHANGED vars
  BY <1>0, <1>1 DEF vars, PrevIsNeighbour
<1>2. ASSUME NEW p \in Recorders, Begin(p) PROVE PrevIsNeighbour'
  BY <1>a, <1>c, <1>2 DEF Begin
<1>3. ASSUME NEW p \in Recorders, InsertRun(p) PROVE PrevIsNeighbour'
  BY <1>a, <1>c, <1>3 DEF InsertRun
<1>4. ASSUME NEW p \in Recorders, InsertAction(p) PROVE PrevIsNeighbour'
  BY <1>a, <1>c, <1>4 DEF InsertAction
<1>5. ASSUME NEW p \in Recorders, CommitSave(p) PROVE PrevIsNeighbour'
  <2>1. RunRow(id[p], job[p]).id = seq + 1
    BY <1>0, <1>5 DEF CommitSave, StagedInv, RunRow
  <2>2. \A r \in runs' : r \in runs \/ r.id = seq + 1
    BY <1>a, <1>5, <2>1 DEF CommitSave
  <2> QED
    BY <1>a, <1>b, <1>5, <2>2 DEF CommitSave
<1>6. ASSUME NEW p \in Recorders, Previous(p) PROVE PrevIsNeighbour'
  <2>1. id[p] \in Nat \ {0}
    BY <1>0, <1>a, <1>6 DEF Previous, SavedInv
  <2>2. /\ PreviousId(job[p].scope, id[p]) < id[p]
        /\ \A r \in Earlier(job[p].scope, id[p]) :
             r.id <= PreviousId(job[p].scope, id[p])
    BY <1>0, <2>1, PreviousIsNearest
  <2>3. /\ prev'[p] = PreviousId(job[p].scope, id[p])
        /\ \A q \in Recorders :
             q # p => prev'[q] = prev[q] /\ pc'[q] = pc[q]
        /\ UNCHANGED <<runs, id, job>>
    BY <1>a, <1>6 DEF Previous
  <2>4. ASSUME NEW r \in runs, r.scope = job[p].scope
        PROVE  ~ (prev'[p] < r.id /\ r.id < id[p])
    <3>1. CASE r.id < id[p]
      <4>1. r.id <= prev'[p]
        BY <2>2, <2>3, <2>4, <3>1 DEF Earlier, InScope
      <4>2. prev'[p] \in Nat
        BY <2>3, TypePreserved DEF TypeOK
      <4> QED
        BY <1>a, <4>1, <4>2
    <3> QED
      BY <3>1
  <2> QED
    BY <1>0, <2>2, <2>3, <2>4 DEF PrevIsNeighbour
<1>7. ASSUME NEW p \in Recorders, Prune(p) PROVE PrevIsNeighbour'
  BY <1>a, <1>c, <1>7 DEF Prune
<1>8. ASSUME NEW p \in Recorders, CommitPrune(p) PROVE PrevIsNeighbour'
  BY <1>a, <1>c, <1>8 DEF CommitPrune
<1>9. ASSUME NEW p \in Recorders, PruneGlobal(p) PROVE PrevIsNeighbour'
  BY <1>a, <1>c, <1>9 DEF PruneGlobal
<1>10. ASSUME NEW p \in Recorders, Close(p) PROVE PrevIsNeighbour'
  BY <1>a, <1>c, <1>10 DEF Close
<1>11. ASSUME NEW p \in Recorders, Report(p) PROVE PrevIsNeighbour'
  BY <1>a, <1>c, <1>11 DEF Report, Forgotten
<1>12. ASSUME NEW p \in Recorders, Fail(p) PROVE PrevIsNeighbour'
  BY <1>a, <1>c, <1>12 DEF Fail
<1>13. ASSUME NEW p \in Recorders, Crash(p) PROVE PrevIsNeighbour'
  BY <1>a, <1>c, <1>13 DEF Crash, Forgotten
<1> HIDE DEF Goto, tables, ghosts, results
<1>14. ASSUME Next PROVE PrevIsNeighbour'
  BY <1>2, <1>3, <1>4, <1>5, <1>6, <1>7, <1>8, <1>9, <1>10, <1>11, <1>12,
     <1>13, <1>14 DEF Next, Progress, IoError, BusyTimeout
<1> QED
  BY <1>1, <1>14

-----------------------------------------------------------------------------
\* Deleting builds takes exactly their actions with them (the cascade), and a
\* build is committed together with everything its transaction has staged.
LEMMA WholePreserved == IInv /\ [Next]_vars => RunsAreWhole'
<1> SUFFICES ASSUME IInv, [Next]_vars PROVE RunsAreWhole'
  OBVIOUS
<1>0. TypeOK /\ LockInv /\ IdInv /\ StagedInv /\ RunsAreWhole
  BY DEF IInv
<1>1. CASE runs' = runs /\ rows' = rows
  BY <1>0, <1>1 DEF RunsAreWhole, ActionsOf
<1>2. ASSUME NEW gone \in SUBSET runs,
             runs' = runs \ gone, rows' = Cascade(gone)
      PROVE  RunsAreWhole'
  <2>1. ASSUME NEW r \in runs' PROVE ActionsOf(r.id)' = 0..(r.acts - 1)
    <3>1. r \in runs /\ \A q \in gone : q.id # r.id
      BY <1>0, <1>2, <2>1 DEF IdInv
    <3>2. \A x : x \in rows' /\ x.run = r.id <=> x \in rows /\ x.run = r.id
      BY <1>2, <3>1 DEF Cascade
    <3>3. ActionsOf(r.id)' = ActionsOf(r.id)
      BY <3>2 DEF ActionsOf
    <3> QED
      BY <1>0, <3>1, <3>3 DEF RunsAreWhole
  <2>2. ASSUME NEW x \in rows' PROVE \E r \in runs' : x.run = r.id
    <3>1. x \in rows /\ \A q \in gone : x.run # q.id
      BY <1>2, <2>2 DEF Cascade
    <3>2. PICK r \in runs : x.run = r.id
      BY <1>0, <3>1 DEF RunsAreWhole
    <3> QED
      BY <1>2, <3>1, <3>2
  <2> QED
    BY <2>1, <2>2 DEF RunsAreWhole
<1>3. ASSUME NEW p \in Recorders, CommitSave(p) PROVE RunsAreWhole'
  <2> DEFINE new == RunRow(id[p], job[p])
             n == job[p].acts
  <2>1. /\ id[p] = seq + 1 /\ seq \in Nat
        /\ staged = {[run |-> seq + 1, idx |-> i] : i \in 0..(n - 1)}
        /\ runs' = runs \cup {new} /\ rows' = rows \cup staged
    BY <1>0, <1>3 DEF CommitSave, StagedInv, TypeOK
  <2>2. \A r \in runs : r.id \in Nat /\ r.id <= seq /\ r.id # seq + 1
    BY <1>0, <2>1 DEF TypeOK, RunRows, IdInv
  <2>3. \A x \in rows : x.run # seq + 1
    BY <1>0, <2>2 DEF RunsAreWhole
  <2>4. new.id = seq + 1 /\ new.acts = n
    BY <2>1 DEF RunRow
  <2>5. {x.idx : x \in {y \in rows' : y.run = new.id}} = 0..(n - 1)
    <3>1. {y \in rows' : y.run = new.id} = staged
      BY <2>1, <2>3, <2>4
    <3>2. \A x \in staged : x.idx \in 0..(n - 1)
      BY <2>1
    <3>3. ASSUME NEW i \in 0..(n - 1) PROVE \E x \in staged : x.idx = i
      <4>1. [run |-> seq + 1, idx |-> i] \in staged
        BY <2>1
      <4> QED
        BY <4>1
    <3>4. {x.idx : x \in staged} = 0..(n - 1)
      BY <3>2, <3>3
    <3> QED
      BY <3>1, <3>4
  <2>6. ASSUME NEW r \in runs PROVE ActionsOf(r.id)' = 0..(r.acts - 1)
    <3>1. \A y \in staged : y.run # r.id
      BY <2>1, <2>2
    <3>2. \A y : y \in rows' /\ y.run = r.id <=> y \in rows /\ y.run = r.id
      BY <2>1, <3>1
    <3>3. ActionsOf(r.id)' = ActionsOf(r.id)
      BY <3>2 DEF ActionsOf
    <3> QED
      BY <1>0, <3>3 DEF RunsAreWhole
  <2>7. \A x \in rows' : \E r \in runs' : x.run = r.id
    BY <1>0, <2>1, <2>4 DEF RunsAreWhole
  <2>8. ASSUME NEW r \in runs' PROVE ActionsOf(r.id)' = 0..(r.acts - 1)
    <3>1. CASE r \in runs
      BY <2>6, <3>1
    <3>2. CASE r = new
      BY <2>4, <2>5, <3>2 DEF ActionsOf
    <3> HIDE DEF new
    <3> QED
      BY <2>1, <3>1, <3>2
  <2> QED
    BY <2>7, <2>8 DEF RunsAreWhole
<1>4. \/ \E p \in Recorders : CommitSave(p)
      \/ \E gone \in SUBSET runs : runs' = runs \ gone /\ rows' = Cascade(gone)
      \/ runs' = runs /\ rows' = rows
  <2>1. ASSUME NEW p \in Recorders, CommitPrune(p)
        PROVE  doomed \in SUBSET runs
    BY <1>0, <2>1 DEF CommitPrune, StagedInv, Overflow, InScope
  <2>2. \A p \in Recorders : CommitPrune(p) =>
          \E gone \in SUBSET runs : runs' = runs \ gone /\ rows' = Cascade(gone)
    BY <2>1 DEF CommitPrune
  <2>3. \A p \in Recorders : PruneGlobal(p) =>
          \E gone \in SUBSET runs : runs' = runs \ gone /\ rows' = Cascade(gone)
    <3>1. Overflow(runs, KeepGlobal) \in SUBSET runs
      BY DEF Overflow
    <3> QED
      BY <3>1 DEF PruneGlobal
  <2> QED
    BY <2>2, <2>3
    DEF Next, Progress, IoError, BusyTimeout, vars, tables, Begin, InsertRun,
        InsertAction, Previous, Prune, Close, Report, Fail, Crash
<1> QED
  BY <1>1, <1>2, <1>3, <1>4

\* Between two prunes the builds recorded before the first one can only
\* become fewer: a new build is younger than the ghosts.
LEMMA BoundedPreserved == IInv /\ [Next]_vars => HistoryBounded'
<1> SUFFICES ASSUME IInv, [Next]_vars PROVE HistoryBounded'
  OBVIOUS
<1>0. TypeOK /\ LockInv /\ IdInv /\ StagedInv /\ PrunedInv /\ HistoryBounded
  BY DEF IInv
<1> DEFINE Old(S, n) == {r \in S : r.id <= n}
<1>a. /\ seq \in Nat /\ prunedGlobalAt \in Nat /\ prunedAt \in [Scopes -> Nat]
      /\ \A r \in runs : r.id \in Nat /\ r.id <= seq
      /\ IsFiniteSet(runs) /\ Keep \in Nat /\ KeepGlobal \in Nat
  BY <1>0, KeepAssumption DEF TypeOK, IdInv, RunRows
<1>b. ASSUME NEW S, NEW T, NEW n \in Nat, NEW k \in Nat,
             IsFiniteSet(T), Cardinality(Old(T, n)) <= k,
             \A r \in S : r \in T \/ ~ (r.id <= n)
      PROVE  Cardinality(Old(S, n)) <= k
  <2>1. Old(S, n) \in SUBSET Old(T, n) /\ Old(T, n) \in SUBSET T
    BY <1>b
  <2>2. IsFiniteSet(Old(T, n))
    <3> HIDE DEF Old
    <3> QED BY <1>b, <2>1, FS_Subset
  <2>3. /\ Cardinality(Old(S, n)) <= Cardinality(Old(T, n))
        /\ Cardinality(Old(S, n)) \in Nat /\ Cardinality(Old(T, n)) \in Nat
    <3> HIDE DEF Old
    <3> QED BY <2>1, <2>2, FS_Subset, FS_CardinalityType
  <2> HIDE DEF Old
  <2> QED
    BY <1>b, <2>3
<1>c. ASSUME NEW n \in Nat, n <= seq, \A r \in runs' : r \in runs \/ r.id = seq + 1
      PROVE  \A r \in runs' : r \in runs \/ ~ (r.id <= n)
  BY <1>a, <1>c
<1>d. ASSUME NEW s \in Scopes, prunedAt'[s] = prunedAt[s],
             \A r \in runs' : r \in runs \/ r.id = seq + 1
      PROVE  Cardinality(Old(InScope(s)', prunedAt'[s])) <= Keep
  <2> DEFINE n == prunedAt[s]
             S == {r \in runs' : r.scope = s}
             T == {r \in runs : r.scope = s}
  <2>1. n \in Nat /\ n <= seq /\ Cardinality(Old(T, n)) <= Keep
    BY <1>0, <1>a DEF HistoryBounded, PrunedInv, InScope
  <2>2. T \in SUBSET runs
    OBVIOUS
  <2>3. IsFiniteSet(T)
    <3> HIDE DEF T
    <3> QED BY <1>a, <2>2, FS_Subset
  <2>4. \A r \in S : r \in T \/ ~ (r.id <= n)
    BY <1>c, <1>d, <2>1
  <2>5. Cardinality(Old(S, n)) <= Keep
    <3> HIDE DEF S, T, n, Old
    <3> QED BY <1>a, <1>b, <2>1, <2>3, <2>4
  <2> QED
    BY <1>d, <2>5 DEF InScope
<1>e. ASSUME prunedGlobalAt' = prunedGlobalAt,
             \A r \in runs' : r \in runs \/ r.id = seq + 1
      PROVE  Cardinality(Old(runs', prunedGlobalAt')) <= KeepGlobal
  <2>1. /\ prunedGlobalAt <= seq
        /\ Cardinality(Old(runs, prunedGlobalAt)) <= KeepGlobal
    BY <1>0 DEF HistoryBounded, PrunedInv
  <2>2. \A r \in runs' : r \in runs \/ ~ (r.id <= prunedGlobalAt)
    BY <1>a, <1>c, <1>e, <2>1
  <2>3. Cardinality(Old(runs', prunedGlobalAt)) <= KeepGlobal
    <3> HIDE DEF Old
    <3> QED BY <1>a, <1>b, <2>1, <2>2
  <2> QED
    BY <1>e, <2>3
<1>f. ASSUME NEW S \in SUBSET runs, NEW T, NEW k \in Nat, NEW n,
             T \subseteq Newest(S, k)
      PROVE  Cardinality(Old(T, n)) <= k
  <2>1. IsFiniteSet(S) /\ \A r \in S : r.id \in Nat
    BY <1>a, FS_Subset
  <2>2. \A r, q \in S : r.id = q.id => r = q
    BY <1>0 DEF IdInv
  <2>3. IsFiniteSet(Newest(S, k)) /\ Cardinality(Newest(S, k)) <= k
    BY <2>1, <2>2, NewestBound
  <2>4. Old(T, n) \in SUBSET Newest(S, k)
    BY <1>f
  <2> HIDE DEF Old
  <2>5. /\ Cardinality(Old(T, n)) <= Cardinality(Newest(S, k))
        /\ Cardinality(Old(T, n)) \in Nat /\ Cardinality(Newest(S, k)) \in Nat
    BY <2>3, <2>4, FS_Subset, FS_CardinalityType
  <2> QED
    BY <2>3, <2>5
<1>1. ASSUME UNCHANGED ghosts, \A r \in runs' : r \in runs \/ r.id = seq + 1
      PROVE  HistoryBounded'
  BY <1>d, <1>e, <1>1 DEF HistoryBounded, ghosts
<1>2. ASSUME NEW p \in Recorders, CommitPrune(p) PROVE HistoryBounded'
  <2> DEFINE s == job[p].scope
  <2>1. /\ doomed = Overflow(InScope(s), Keep) /\ runs' = runs \ doomed
        /\ s \in Scopes
    BY <1>0, <1>2 DEF CommitPrune, StagedInv, LockInv, Jobs
  <2>2. InScope(s) \in SUBSET runs
    BY DEF InScope
  <2>3. {r \in runs' : r.scope = s} \subseteq Newest(InScope(s), Keep)
    BY <2>1 DEF Overflow, InScope
  <2>4. Cardinality(Old({r \in runs' : r.scope = s}, prunedAt'[s])) <= Keep
    <3> HIDE DEF Old, s
    <3> QED BY <1>a, <1>f, <2>2, <2>3
  <2>5. ASSUME NEW t \in Scopes
        PROVE  Cardinality(Old({r \in runs' : r.scope = t}, prunedAt'[t])) <= Keep
    <3>1. CASE t = s
      BY <2>4, <3>1
    <3>2. CASE t # s
      <4>1. prunedAt'[t] = prunedAt[t]
        BY <1>a, <1>2, <3>2 DEF CommitPrune
      <4> QED
        BY <1>d, <2>1, <4>1 DEF InScope
    <3> QED
      BY <3>1, <3>2
  <2>6. Cardinality(Old(runs', prunedGlobalAt')) <= KeepGlobal
    BY <1>e, <1>2, <2>1 DEF CommitPrune
  <2> QED
    BY <2>5, <2>6 DEF HistoryBounded, InScope
<1>3. ASSUME NEW p \in Recorders, PruneGlobal(p) PROVE HistoryBounded'
  <2>1. runs' \subseteq Newest(runs, KeepGlobal) /\ runs' \subseteq runs
    BY <1>3 DEF PruneGlobal, Overflow
  <2>2. Cardinality(Old(runs', prunedGlobalAt')) <= KeepGlobal
    <3> HIDE DEF Old
    <3> QED BY <1>a, <1>f, <2>1
  <2>3. \A s \in Scopes : prunedAt'[s] = prunedAt[s]
    BY <1>3 DEF PruneGlobal
  <2> QED
    BY <1>d, <2>1, <2>2, <2>3 DEF HistoryBounded
<1>4. ASSUME NEW p \in Recorders, CommitSave(p)
      PROVE  UNCHANGED ghosts /\ \A r \in runs' : r \in runs \/ r.id = seq + 1
  BY <1>0, <1>4 DEF CommitSave, StagedInv, RunRow
<1>5. \/ \E p \in Recorders :
           CommitSave(p) \/ CommitPrune(p) \/ PruneGlobal(p)
      \/ UNCHANGED ghosts /\ runs' = runs
  BY DEF Next, Progress, IoError, BusyTimeout, vars, tables, Begin, InsertRun,
         InsertAction, Previous, Prune, Close, Report, Fail, Crash
<1> QED
  BY <1>1, <1>2, <1>3, <1>4, <1>5

-----------------------------------------------------------------------------
(* The theorems.                                                           *)

\* An empty store.
LEMMA InitIInv == Init => IInv
<1> SUFFICES ASSUME Init PROVE IInv
  OBVIOUS
<1> USE DEF Init
<1>1. TypeOK
  BY DEF TypeOK, Labels
<1>2. LockInv /\ StagedInv /\ SavedInv /\ PrunedInv
  BY NoneAssumption DEF LockInv, StagedInv, SavedInv, PrunedInv
<1>3. IdInv /\ RunsAreWhole /\ PrevIsNeighbour
  BY FS_EmptySet DEF IdInv, RunsAreWhole, PrevIsNeighbour
<1>4. HistoryBounded
  <2>1. /\ \A s \in Scopes : {r \in InScope(s) : r.id <= prunedAt[s]} = {}
        /\ {r \in runs : r.id <= prunedGlobalAt} = {}
    BY DEF InScope
  <2> QED
    BY <2>1, FS_EmptySet, KeepAssumption DEF HistoryBounded
<1> QED
  BY <1>1, <1>2, <1>3, <1>4 DEF IInv

\* IInv is inductive.
LEMMA Inductive == Spec => []IInv
<1>1. Init => IInv
  BY InitIInv
<1>2. IInv /\ [Next]_vars => IInv'
  BY TypePreserved, LockPreserved, IdPreserved, StagedPreserved,
     SavedPreserved, WholePreserved, NeighbourPreserved, BoundedPreserved
  DEF IInv
<1> QED
  BY <1>1, <1>2, PTL DEF Spec

\* Type correctness of the store and of every process that uses it.
THEOREM TypeCorrect == Spec => []TypeOK
<1>1. IInv => TypeOK
  BY DEF IInv
<1> QED
  BY <1>1, Inductive, PTL

\* However many processes save, prune, fail and are killed, a build in the
\* store has all of its actions and no action is left without its build
\* (Store.Save's transaction, ON DELETE CASCADE).
THEOREM WholeRuns == Spec => []RunsAreWhole
<1>1. IInv => RunsAreWhole
  BY DEF IInv
<1> QED
  BY <1>1, Inductive, PTL

\* The previous build saveRun hands to the report is the newest older build of
\* the same scope, although it is looked up after the lock was given back.
THEOREM NeighbourPrev == Spec => []PrevIsNeighbour
<1>1. IInv => PrevIsNeighbour
  BY DEF IInv
<1> QED
  BY <1>1, Inductive, PTL

\* A scope never holds more than Keep builds that were there at its last prune,
\* nor the database more than KeepGlobal that were there at the last
\* PruneGlobal.
THEOREM BoundedHistory == Spec => []HistoryBounded
<1>1. IInv => HistoryBounded
  BY DEF IInv
<1> QED
  BY <1>1, Inductive, PTL

-----------------------------------------------------------------------------
(* The refinement: RunStore implements RunHistory.                         *)

\* What a reader loads for the whole build r.
Entry(r) ==
  [id |-> r.id, scope |-> r.scope, command |-> r.command, acts |-> r.acts,
   exit |-> r.exit, found |-> 0..(r.acts - 1)]

\* When every build is whole, the history a reader sees is the table runs.
LEMMA HistoryIsRuns ==
  RunsAreWhole => LoadedHistory = {Entry(r) : r \in runs}
BY DEF RunsAreWhole, LoadedHistory, Entry

\* Rows of the table give distinct entries: a set of rows is no larger than
\* any finite set that has all of their entries.
LEMMA EntriesCount ==
  ASSUME IdInv, NEW S \in SUBSET runs, NEW T, IsFiniteSet(T),
         \A r \in S : Entry(r) \in T
  PROVE  /\ Cardinality(S) <= Cardinality(T)
         /\ Cardinality(S) \in Nat
         /\ Cardinality(T) \in Nat
<1> DEFINE f == [r \in S |-> Entry(r)]
<1>1. f \in [S -> T]
  OBVIOUS
<1>2. \A r, q \in S : f[r] = f[q] => r = q
  BY DEF IdInv, Entry
<1>3. f \in Injection(S, T)
  <2> HIDE DEF f
  <2> QED BY <1>1, <1>2, Fun_IsInj
<1>4. IsFiniteSet(S) /\ Cardinality(S) <= Cardinality(T)
  <2> HIDE DEF f
  <2> QED BY <1>3, FS_Injection
<1> QED
  BY <1>4, FS_CardinalityType

\* RunHistory counts as RunStore does.
LEMMA SameCardinality == \A S : History!Cardinality(S) = Cardinality(S)
BY DEF History!Cardinality, Cardinality

\* A build outside the newest Keep of its scope, or the newest KeepGlobal of
\* all, is superseded in the sense of RunHistory.
LEMMA OverflowIsSuperseded ==
  ASSUME IdInv, RunsAreWhole, NEW r \in runs,
         \/ \E s \in Scopes : r \in Overflow(InScope(s), Keep)
         \/ r \in Overflow(runs, KeepGlobal)
  PROVE  History!Superseded(Entry(r))
<1> DEFINE H == LoadedHistory
<1>1. H = {Entry(q) : q \in runs}
  BY HistoryIsRuns
<1>2. IsFiniteSet(H)
  <2> HIDE DEF H
  <2> DEFINE f == [q \in runs |-> Entry(q)]
  <2>1. f \in [runs -> H] /\ \A h \in H : \E q \in runs : f[q] = h
    BY <1>1
  <2>2. f \in Surjection(runs, H)
    <3> HIDE DEF f
    <3> QED BY <2>1, Fun_IsSurj
  <2>3. IsFiniteSet(runs)
    BY DEF IdInv
  <2> HIDE DEF f
  <2> QED
    BY <2>2, <2>3, FS_Surjection
<1>3. CASE \E s \in Scopes : r \in Overflow(InScope(s), Keep)
  <2> DEFINE S == {q \in InScope(r.scope) : q.id > r.id}
             T == {h \in {g \in H : g.scope = Entry(r).scope} :
                     h.id > Entry(r).id}
  <2>1. ~ (Cardinality(S) < Keep)
    BY <1>3 DEF Overflow, Newest, InScope
  <2>2. S \in SUBSET runs /\ T \in SUBSET H
    BY DEF InScope
  <2>3. \A q \in S : Entry(q) \in T
    BY <1>1 DEF Entry, InScope
  <2>4. IsFiniteSet(T)
    <3> HIDE DEF T, H
    <3> QED BY <1>2, <2>2, FS_Subset
  <2>5. /\ Cardinality(S) <= Cardinality(T)
        /\ Cardinality(S) \in Nat /\ Cardinality(T) \in Nat
    <3> HIDE DEF S, T
    <3> QED BY <2>2, <2>3, <2>4, EntriesCount
  <2>6. Cardinality(T) >= Keep
    <3> HIDE DEF S, T
    <3> QED BY <2>1, <2>5, KeepAssumption
  <2> QED
    BY <2>6, SameCardinality DEF History!Superseded, History!Newer
<1>4. CASE r \in Overflow(runs, KeepGlobal)
  <2> DEFINE S == {q \in runs : q.id > r.id}
             T == {h \in H : h.id > Entry(r).id}
  <2>1. ~ (Cardinality(S) < KeepGlobal)
    BY <1>4 DEF Overflow, Newest
  <2>2. S \in SUBSET runs /\ T \in SUBSET H
    OBVIOUS
  <2>3. \A q \in S : Entry(q) \in T
    BY <1>1 DEF Entry
  <2>4. IsFiniteSet(T)
    <3> HIDE DEF T, H
    <3> QED BY <1>2, <2>2, FS_Subset
  <2>5. /\ Cardinality(S) <= Cardinality(T)
        /\ Cardinality(S) \in Nat /\ Cardinality(T) \in Nat
    <3> HIDE DEF S, T
    <3> QED BY <2>2, <2>3, <2>4, EntriesCount
  <2>6. Cardinality(T) >= KeepGlobal
    <3> HIDE DEF S, T
    <3> QED BY <2>1, <2>5, KeepAssumption
  <2> QED
    BY <2>6, SameCardinality DEF History!Superseded, History!Newer
<1> QED
  BY <1>3, <1>4

\* Every step of the store is a step of the history or leaves it as it is:
\* CommitSave is Record, CommitPrune and PruneGlobal are Forget.
LEMMA StepRefines ==
  IInv /\ IInv' /\ [Next]_vars => [History!Next]_(History!hvars)
<1> SUFFICES ASSUME IInv, IInv', [Next]_vars
             PROVE  [History!Next]_(History!hvars)
  OBVIOUS
<1>0. /\ TypeOK /\ LockInv /\ IdInv /\ StagedInv /\ RunsAreWhole
      /\ RunsAreWhole'
  BY DEF IInv
<1>a. /\ LoadedHistory = {Entry(r) : r \in runs}
      /\ LoadedHistory' = {Entry(r) : r \in runs'}
  <2>1. RunsAreWhole' => LoadedHistory' = {Entry(r) : r \in runs'}
    BY DEF RunsAreWhole, LoadedHistory, Entry, ActionsOf
  <2> QED
    BY <1>0, <2>1, HistoryIsRuns
<1>1. ASSUME NEW p \in Recorders, CommitSave(p) PROVE History!Record
  <2>1. id[p] = seq + 1 /\ job[p] \in Jobs
    BY <1>0, <1>1 DEF CommitSave, StagedInv, LockInv
  <2>2. seq' = seq + 1
    BY <1>1, <2>1 DEF CommitSave
  <2>3. Entry(RunRow(id[p], job[p])) = History!Whole(job[p], seq + 1)
    BY <2>1 DEF Entry, RunRow, History!Whole
  <2>4. runs' = runs \cup {RunRow(id[p], job[p])}
    BY <1>1 DEF CommitSave
  <2>5. LoadedHistory' =
          LoadedHistory \cup {Entry(RunRow(id[p], job[p]))}
    BY <1>a, <2>4
  <2> QED
    BY <2>1, <2>2, <2>3, <2>5 DEF History!Record
<1>2. ASSUME NEW gone \in SUBSET runs, runs' = runs \ gone, seq' = seq,
             \A r \in gone : \/ \E s \in Scopes :
                                  r \in Overflow(InScope(s), Keep)
                             \/ r \in Overflow(runs, KeepGlobal)
      PROVE  History!Forget
  <2>1. LoadedHistory' \subseteq LoadedHistory
    BY <1>a, <1>2
  <2>2. ASSUME NEW h \in LoadedHistory \ LoadedHistory'
        PROVE  History!Superseded(h)
    <3>1. PICK r \in runs : h = Entry(r)
      BY <1>a, <2>2
    <3>2. r \in gone
      BY <1>a, <1>2, <2>2, <3>1
    <3> QED
      BY <1>0, <1>2, <3>1, <3>2, OverflowIsSuperseded
  <2> QED
    BY <1>2, <2>1, <2>2 DEF History!Forget
<1>3. ASSUME NEW p \in Recorders, CommitPrune(p) PROVE History!Forget
  <2>1. doomed = Overflow(InScope(job[p].scope), Keep)
    BY <1>0, <1>3 DEF CommitPrune, StagedInv
  <2>2. job[p].scope \in Scopes
    BY <1>0, <1>3 DEF CommitPrune, LockInv, Jobs
  <2>3. doomed \in SUBSET runs
    BY <2>1 DEF Overflow, InScope
  <2>4. runs' = runs \ doomed /\ seq' = seq
    BY <1>3 DEF CommitPrune
  <2> QED
    BY <1>2, <2>1, <2>2, <2>3, <2>4
<1>4. ASSUME NEW p \in Recorders, PruneGlobal(p) PROVE History!Forget
  <2>1. Overflow(runs, KeepGlobal) \in SUBSET runs
    BY DEF Overflow
  <2>2. runs' = runs \ Overflow(runs, KeepGlobal) /\ seq' = seq
    BY <1>4 DEF PruneGlobal
  <2> QED
    BY <1>2, <2>1, <2>2
<1>5. CASE runs' = runs /\ seq' = seq
  BY <1>a, <1>5 DEF History!hvars
<1>6. \/ \E p \in Recorders : CommitSave(p) \/ CommitPrune(p) \/ PruneGlobal(p)
      \/ runs' = runs /\ seq' = seq
  BY DEF Next, Progress, IoError, BusyTimeout, vars, tables, Begin, InsertRun,
         InsertAction, Previous, Prune, Close, Report, Fail, Crash
<1> QED
  BY <1>1, <1>3, <1>4, <1>5, <1>6 DEF History!Next

\* Seen through what a reader can load, the database is a history of whole
\* builds: Save, with all its statements, failures and crashes, adds one build
\* at once, and Prune and PruneGlobal forget none that is not superseded.
THEOREM Refinement == Spec => KeepsHistory
<1>1. Init => History!Init
  BY DEF Init, History!Init, LoadedHistory
<1>2. IInv /\ IInv' /\ [Next]_vars => [History!Next]_(History!hvars)
  BY StepRefines
<1> QED
  BY <1>1, <1>2, Inductive, PTL DEF Spec, KeepsHistory, History!Spec

-----------------------------------------------------------------------------
(* RunDiff, for every pair of ids on the command line.  The store's own    *)
(* invariant IInv carries over, since a diff writes nothing; what a diff   *)
(* has in hand while the store moves on is DiffInv.                        *)

\* No id exceeds MaxId: a recording that has begun has its id in reserve.
BoundInv ==
  /\ IsFiniteSet(Saving)
  /\ seq + Cardinality(Saving) <= MaxId

\* A diff starts with nothing in hand.
StartInv ==
  /\ dpc = "idle" => ask = NoAsk
  /\ dpc \in {"idle", "recent"} => loaded = <<>> /\ want = <<0, 0>> /\ due = {}

\* How far it is tells how many builds it has loaded and how it ended.
PhaseInv ==
  /\ dpc = "loadRun" => Len(loaded) <= 1
  /\ dpc = "loadActions" => Len(loaded) \in 1..2
  /\ dpc = "verdict" => Len(loaded) = 2
  /\ dpc = "done" /\ said = "no run" => Len(loaded) <= 1
  /\ said # "" => dpc = "done"

\* The snapshot of an open Load has all actions of its build, and so has every
\* build whose Load has ended.
WholeInv ==
  /\ dpc = "loadActions" =>
       LET row == loaded[Len(loaded)].row
       IN  {x.idx : x \in {y \in snap : y.run = row.id}} = 0..(row.acts - 1)
  /\ dpc \in {"loadRun", "loadActions", "verdict"} =>
       \A i \in DOMAIN loaded :
         \/ dpc = "loadActions" /\ i = Len(loaded)
         \/ loaded[i].found = 0..(loaded[i].row.acts - 1)

\* A diff of the newest builds has chosen two and may still read them.
Choosing == ask.latest /\ dpc \in {"loadRun", "loadActions", "verdict"}

\* The rows the diff can see, now or since it loaded them.
Known == runs \cup {loaded[i].row : i \in DOMAIN loaded}

\* The choice Recent made remains right whatever is recorded and pruned after
\* it: ids are not reused, and a build recorded later is younger than both.
ChoiceInv ==
  Choosing =>
    /\ want[1] < want[2] /\ want[2] <= seq
    /\ \A r \in Known : r.id \in {want[1], want[2]} => r.scope = ask.scope
    /\ \A r, q \in Known :
         r.id = want[1] /\ q.id = want[2] => r.command = q.command
    /\ \A r \in runs, q \in Known :
         q.id = want[2] /\ r.scope = ask.scope /\ r.command = q.command =>
           ~ (want[1] < r.id /\ r.id < want[2])

\* A chosen build that is gone was called for by retention.
MissInv ==
  Choosing => \A i \in 1..2 : (\E r \in runs : r.id = want[i]) \/ want[i] \in due

DiffInv ==
  /\ DiffTypeOK
  /\ StartInv
  /\ PhaseInv
  /\ WholeInv
  /\ ChoiceInv
  /\ MissInv
  /\ MissesOnlySuperseded

-----------------------------------------------------------------------------
(* What a step of the store may do to a reader.                            *)

\* The store's step adds at most the build seq + 1, never takes an id back and
\* loses a build only when newer ones supersede it.
LEMMA StoreMoves ==
  IInv /\ IInv' /\ [Next]_vars =>
    /\ seq \in Nat /\ seq' \in Nat /\ seq <= seq'
    /\ \A r \in runs' : r \in runs \/ r.id = seq + 1
    /\ \A r \in runs \ runs' : History!Superseded(Entry(r))
<1> SUFFICES ASSUME IInv, IInv', [Next]_vars
             PROVE  /\ seq \in Nat /\ seq' \in Nat /\ seq <= seq'
                    /\ \A r \in runs' : r \in runs \/ r.id = seq + 1
                    /\ \A r \in runs \ runs' : History!Superseded(Entry(r))
  OBVIOUS
<1>1. /\ LoadedHistory = {Entry(r) : r \in runs}
      /\ LoadedHistory' = {Entry(r) : r \in runs'}
      /\ seq \in Nat /\ seq' \in Nat
  <2>1. RunsAreWhole' => LoadedHistory' = {Entry(r) : r \in runs'}
    BY DEF RunsAreWhole, LoadedHistory, Entry, ActionsOf
  <2> QED
    BY <2>1, HistoryIsRuns DEF IInv, TypeOK
<1>2. \A r \in runs, q \in runs' : Entry(r) = Entry(q) => r = q
  <2>1. \A r \in RunRows, q \in RunRows : Entry(r) = Entry(q) => r = q
    BY DEF Entry, RunRows
  <2> QED
    BY <2>1 DEF IInv, TypeOK
<1>3. ASSUME NEW r \in runs \ runs' PROVE Entry(r) \in LoadedHistory \ LoadedHistory'
  BY <1>1, <1>2
<1>4. ASSUME NEW r \in runs', r \notin runs
      PROVE Entry(r) \in LoadedHistory' \ LoadedHistory
  BY <1>1, <1>2, <1>4
<1>5. CASE History!Record
  <2>1. PICK job_0 \in Jobs :
          LoadedHistory' = LoadedHistory \cup {History!Whole(job_0, seq + 1)}
    BY <1>5 DEF History!Record
  <2>2. \A r \in runs \ runs' : FALSE
    BY <1>3, <2>1
  <2>3. ASSUME NEW r \in runs', r \notin runs PROVE r.id = seq + 1
    <3>1. Entry(r) = History!Whole(job_0, seq + 1)
      BY <1>4, <2>1, <2>3
    <3> QED
      BY <3>1 DEF Entry, History!Whole
  <2>4. seq' = seq + 1
    BY <1>5 DEF History!Record
  <2> QED
    BY <1>1, <2>2, <2>3, <2>4
<1>6. CASE History!Forget
  <2>1. \A r \in runs' : r \in runs
    BY <1>4, <1>6 DEF History!Forget
  <2>2. \A r \in runs \ runs' : History!Superseded(Entry(r))
    BY <1>3, <1>6 DEF History!Forget
  <2> QED
    BY <1>1, <1>6, <2>1, <2>2 DEF History!Forget
<1>7. CASE UNCHANGED History!hvars
  <2>1. LoadedHistory' = LoadedHistory /\ seq' = seq
    BY <1>7 DEF History!hvars
  <2>2. runs \ runs' = {}
    BY <1>3, <2>1
  <2>3. \A r \in runs' : r \in runs
    BY <1>4, <2>1
  <2> QED
    BY <1>1, <2>1, <2>2, <2>3
<1> QED
  BY <1>5, <1>6, <1>7, StepRefines DEF History!Next

\* The recordings that have begun never need more ids than there are left.
LEMMA BoundPreserved == IInv /\ BoundInv /\ [Next]_vars => BoundInv'
<1> SUFFICES ASSUME IInv, BoundInv, [Next]_vars PROVE BoundInv'
  OBVIOUS
<1>0. /\ pc \in [Recorders -> Labels] /\ seq \in Nat
      /\ IsFiniteSet(Saving) /\ Cardinality(Saving) \in Nat
      /\ seq + Cardinality(Saving) <= MaxId
  BY FS_CardinalityType DEF IInv, TypeOK, BoundInv
<1>1. ASSUME Saving' \in SUBSET Saving, seq' = seq PROVE BoundInv'
  <2>1. IsFiniteSet(Saving') /\ Cardinality(Saving') <= Cardinality(Saving)
    BY <1>0, <1>1, FS_Subset
  <2>2. Cardinality(Saving') \in Nat
    BY <2>1, FS_CardinalityType
  <2> QED
    BY <1>0, <1>1, <2>1, <2>2, MaxIdAssumption DEF BoundInv
<1>2. ASSUME NEW p \in Recorders, Begin(p) PROVE BoundInv'
  <2>1. Saving' = Saving \cup {p} /\ seq' = seq /\ seq + Cardinality(Saving) < MaxId
    BY <1>0, <1>2 DEF Begin, Goto, Saving, tables
  <2>2. p \notin Saving
    BY <1>2 DEF Begin, Saving
  <2>3. /\ IsFiniteSet(Saving \cup {p})
        /\ Cardinality(Saving \cup {p}) = Cardinality(Saving) + 1
    BY <1>0, <2>2, FS_AddElement
  <2> QED
    BY <1>0, <2>1, <2>3, MaxIdAssumption DEF BoundInv
<1>3. ASSUME NEW p \in Recorders, CommitSave(p) PROVE BoundInv'
  <2>1. p \in Saving /\ Saving' = Saving \ {p}
    BY <1>0, <1>3 DEF CommitSave, Goto, Saving
  <2>2. seq' = seq + 1
    BY <1>3 DEF CommitSave, IInv, StagedInv
  <2>3. /\ IsFiniteSet(Saving \ {p})
        /\ Cardinality(Saving \ {p}) = Cardinality(Saving) - 1
    BY <1>0, <2>1, FS_RemoveElement
  <2> QED
    BY <1>0, <2>1, <2>2, <2>3, MaxIdAssumption DEF BoundInv
<1>4. \/ \E p \in Recorders : Begin(p) \/ CommitSave(p)
      \/ Saving' \in SUBSET Saving /\ seq' = seq
  <2> USE <1>0 DEF Goto, Saving, tables, Labels
  <2>1. CASE UNCHANGED vars
    BY <2>1 DEF vars
  <2>2. ASSUME NEW p \in Recorders,
               \/ InsertRun(p) \/ InsertAction(p) \/ Previous(p) \/ Prune(p)
               \/ CommitPrune(p) \/ PruneGlobal(p) \/ Close(p) \/ Report(p)
               \/ Fail(p) \/ Crash(p)
        PROVE  Saving' \in SUBSET Saving /\ seq' = seq
    BY <2>2 DEF InsertRun, InsertAction, Previous, Prune, CommitPrune,
                PruneGlobal, Close, Report, Fail, Crash, Forgotten
  <2> HIDE DEF Goto, Saving, tables, Labels
  <2> QED
    BY <2>1, <2>2 DEF Next, Progress, IoError, BusyTimeout
<1> QED
  BY <1>1, <1>2, <1>3, <1>4

-----------------------------------------------------------------------------
(* What the diff's own steps do.                                           *)

\* The first row of a listing is its newest.
LEMMA NewestOfListing ==
  ASSUME TypeOK, IdInv, NEW S \in SUBSET runs, S # {}
  PROVE  /\ NewestOf(S) \in S
         /\ \A q \in S : q.id <= NewestOf(S).id
<1>1. IsFiniteSet(S) /\ seq \in Nat
  BY FS_Subset DEF IdInv, TypeOK
<1>2. \A r \in S : r.id \in Nat /\ r.id <= seq
  BY DEF IdInv, TypeOK, RunRows
<1>3. /\ Newest(S, 1) # {}
      /\ \A r \in Newest(S, 1) : r \in S /\ \A q \in S : q.id <= r.id
  BY <1>1, <1>2, NewestOne
<1>4. NewestOf(S) \in Newest(S, 1)
  BY <1>3 DEF NewestOf
<1> QED
  BY <1>3, <1>4

\* What Recent's LIMIT keeps has no gaps: with a row every newer one is there.
LEMMA ListingHasNoGaps ==
  ASSUME TypeOK, IdInv, NEW S \in SUBSET runs, NEW b \in Newest(S, Keep),
         NEW r \in S, b.id < r.id
  PROVE  r \in Newest(S, Keep)
<1> DEFINE N(x) == {q \in S : q.id > x.id}
<1>1. IsFiniteSet(S) /\ b \in S /\ Cardinality(N(b)) < Keep
  BY FS_Subset DEF IdInv, Newest
<1>2. \A q \in S : q.id \in Nat
  BY DEF TypeOK, RunRows
<1>3. N(r) \in SUBSET N(b) /\ N(b) \in SUBSET S
  BY <1>1, <1>2
<1>4. /\ Cardinality(N(r)) <= Cardinality(N(b))
      /\ Cardinality(N(r)) \in Nat /\ Cardinality(N(b)) \in Nat
  <2> HIDE DEF N
  <2>1. IsFiniteSet(N(b))
    BY <1>1, <1>3, FS_Subset
  <2> QED
    BY <1>3, <2>1, FS_Subset, FS_CardinalityType
<1>5. Cardinality(N(r)) < Keep
  <2> HIDE DEF N
  <2> QED BY <1>1, <1>4, KeepAssumption
<1> QED
  BY <1>5 DEF Newest

\* The two builds Recent chooses: of the scope, of one command, the second
\* newer, and none of that scope and command between them.
LEMMA RecentChooses ==
  ASSUME TypeOK, IdInv, NEW s, NEW listed, listed = Newest(InScope(s), Keep),
         NEW older, older = Comparable(listed), listed # {}, older # {}
  PROVE  /\ NewestOf(older) \in runs /\ NewestOf(listed) \in runs
         /\ NewestOf(older).scope = s /\ NewestOf(listed).scope = s
         /\ NewestOf(older).command = NewestOf(listed).command
         /\ NewestOf(older).id < NewestOf(listed).id
         /\ \A r \in runs :
              r.scope = s /\ r.command = NewestOf(listed).command =>
                ~ (NewestOf(older).id < r.id /\ r.id < NewestOf(listed).id)
<1> DEFINE a == NewestOf(listed)
           b == NewestOf(older)
<1>1. listed \in SUBSET runs /\ listed \subseteq InScope(s)
  BY DEF Newest, InScope
<1>2. older \in SUBSET runs /\ older \subseteq listed
  BY <1>1 DEF Comparable
<1>3. a \in listed /\ \A q \in listed : q.id <= a.id
  BY <1>1, NewestOfListing
<1>4. b \in older /\ \A q \in older : q.id <= b.id
  BY <1>2, NewestOfListing
<1>5. b \in listed /\ b # a /\ b.command = a.command
  BY <1>4 DEF Comparable
<1>6. \A r \in runs : r.id \in Nat
  BY DEF TypeOK, RunRows
<1>7. b.id # a.id
  <2> HIDE DEF a, b
  <2> QED BY <1>1, <1>3, <1>5 DEF IdInv
<1>8. b.id < a.id
  <2> HIDE DEF a, b
  <2> QED BY <1>1, <1>3, <1>5, <1>6, <1>7
<1>9. ASSUME NEW r \in runs, r.scope = s, r.command = a.command,
             b.id < r.id, r.id < a.id
      PROVE  FALSE
  <2>1. r \in InScope(s) /\ InScope(s) \in SUBSET runs
    BY <1>9 DEF InScope
  <2>2. r \in listed
    <3> HIDE DEF a, b
    <3> QED BY <1>5, <1>9, <2>1, ListingHasNoGaps
  <2>3. r # a
    <3> HIDE DEF a
    <3> QED BY <1>3, <1>1, <1>6, <1>9
  <2>4. r \in older
    BY <1>9, <2>2, <2>3 DEF Comparable
  <2> HIDE DEF a, b
  <2> QED
    BY <1>1, <1>4, <1>5, <1>6, <1>9, <2>4
<1>10. a \in runs /\ b \in runs /\ a.scope = s /\ b.scope = s
  <2> HIDE DEF a, b
  <2> QED BY <1>1, <1>3, <1>5 DEF InScope
<1> QED
  BY <1>5, <1>8, <1>9, <1>10

\* A Load's first query adds the row with the wanted id to what is loaded.
LEMMA RunLoads ==
  ASSUME TypeOK, DiffTypeOK, PhaseInv, LoadRun, dpc' = "loadActions"
  PROVE  /\ Len(loaded) \in 0..1 /\ Len(loaded') = Len(loaded) + 1
         /\ loaded' \in Seq([row : RunRows, found : SUBSET Nat])
         /\ \A i \in 1..Len(loaded) : loaded'[i] = loaded[i]
         /\ loaded'[Len(loaded')].row \in runs
         /\ loaded'[Len(loaded')].row.id = want[Len(loaded')]
         /\ snap' = rows
<1> DEFINE r == CHOOSE q \in runs : q.id = Wanted
           T == [row : RunRows, found : SUBSET Nat]
           e == [row |-> r, found |-> {}]
<1>1. /\ dpc = "loadRun" /\ \E q \in runs : q.id = Wanted
      /\ snap' = rows /\ loaded' = Append(loaded, e)
  BY DEF LoadRun, Say
<1>2. r \in runs /\ r.id = Wanted
  BY <1>1
<1>3. loaded \in Seq(T) /\ Len(loaded) \in 0..1 /\ e \in T
  <2> HIDE DEF r
  <2>1. r \in RunRows /\ loaded \in Seq(T)
    BY <1>2 DEF TypeOK, DiffTypeOK
  <2>2. Len(loaded) \in Nat
    <3> HIDE DEF T
    <3> QED BY <2>1, LenProperties
  <2>3. Len(loaded) \in 0..1
    <3>1. Len(loaded) <= 1
      BY <1>1, Zenon DEF PhaseInv
    <3>2. \A k \in Nat : k <= 1 => k \in 0..1
      OBVIOUS
    <3> QED
      BY <2>2, <3>1, <3>2, Zenon
  <2>4. e \in T
    BY <2>1
  <2> QED
    BY <2>1, <2>3, <2>4
<1>4. e.row = r
  OBVIOUS
<1>5. /\ loaded' \in Seq(T) /\ Len(loaded') = Len(loaded) + 1
      /\ \A i \in 1..Len(loaded) : loaded'[i] = loaded[i]
      /\ loaded'[Len(loaded) + 1] = e
  <2> HIDE DEF e, T
  <2> QED BY <1>1, <1>3, AppendProperties
<1> HIDE DEF r, T, e
<1>6. loaded'[Len(loaded')].row = r
  BY <1>4, <1>5
<1> QED
  BY <1>1, <1>2, <1>3, <1>5, <1>6 DEF Wanted, T

\* Its second query fills in the indices found, of the last build loaded.
LEMMA ActionsLoad ==
  ASSUME DiffTypeOK, PhaseInv, LoadActions
  PROVE  LET n == Len(loaded)
         IN  /\ n \in 1..2 /\ Len(loaded') = n
             /\ loaded' \in Seq([row : RunRows, found : SUBSET Nat])
             /\ \A i \in 1..n : loaded'[i].row = loaded[i].row
             /\ \A i \in 1..n : i # n => loaded'[i].found = loaded[i].found
             /\ loaded'[n].found =
                  {x.idx : x \in {y \in snap : y.run = loaded[n].row.id}}
<1> DEFINE T == [row : RunRows, found : SUBSET Nat]
           n == Len(loaded)
           found == {x.idx : x \in {y \in snap : y.run = loaded[n].row.id}}
           e == [loaded[n] EXCEPT !.found = found]
<1>1. n \in 1..2 /\ loaded \in Seq(T) /\ snap \subseteq ActionRows
  BY DEF LoadActions, DiffTypeOK, PhaseInv
<1>2. loaded[n] \in T /\ DOMAIN loaded = 1..n
  <2> HIDE DEF T
  <2> QED BY <1>1, ElementOfSeq, LenProperties
<1>3. found \in SUBSET Nat
  BY <1>1 DEF ActionRows
<1>4. e \in T /\ e.row = loaded[n].row /\ e.found = found
  <2> HIDE DEF found, n
  <2> QED BY <1>2, <1>3
<1>5. loaded' = [loaded EXCEPT ![n] = e]
  BY DEF LoadActions, Seen
<1>6. /\ loaded' \in Seq(T) /\ Len(loaded') = n
      /\ \A j \in 1..n : loaded'[j] = IF j = n THEN e ELSE loaded[j]
  <2> HIDE DEF T, e, found
  <2> QED BY <1>1, <1>4, <1>5, ExceptSeq, SMTT(60)
<1> HIDE DEF e, found
<1>7. /\ n \in 1..2 /\ Len(loaded') = n
      /\ loaded' \in Seq([row : RunRows, found : SUBSET Nat])
      /\ \A i \in 1..n : loaded'[i].row = loaded[i].row
      /\ \A i \in 1..n : i # n => loaded'[i].found = loaded[i].found
      /\ loaded'[n].found = found
  BY <1>1, <1>4, <1>6
<1> QED
  BY <1>7 DEF found

-----------------------------------------------------------------------------
(* DiffInv is preserved, conjunct by conjunct.                             *)

\* A store's step leaves the diff alone but for the history variable.
StoreStep ==
  /\ UNCHANGED dlocals
  /\ \/ Next /\ due' = due \cup Overdue
     \/ UNCHANGED <<vars, due>>

\* Every id in the store is within the bound, and none is 0.
LEMMA IdsInBound ==
  ASSUME IInv, BoundInv, NEW r \in runs
  PROVE  r.id \in 0..MaxId /\ r.id # 0 /\ r \in RunRows
<1>1. r \in RunRows /\ r.id \in Nat \ {0} /\ r.id <= seq /\ seq \in Nat
  BY DEF IInv, TypeOK, RunRows, IdInv
<1>2. Cardinality(Saving) \in Nat /\ seq + Cardinality(Saving) <= MaxId
  BY FS_CardinalityType DEF BoundInv
<1> QED
  BY <1>1, <1>2, MaxIdAssumption

\* Overdue is empty until the diff has chosen its builds.
LEMMA NothingOverdue ==
  ASSUME IInv, StartInv, dpc \in {"idle", "recent"}
  PROVE  Overdue = {}
<1>1. CASE dpc = "idle"
  BY <1>1 DEF StartInv, NoAsk, Overdue
<1>2. CASE dpc = "recent"
  <2>1. want[1] = 0 /\ want[2] = 0
    BY <1>2 DEF StartInv
  <2>2. \A g \in LoadedHistory : g.id # 0
    BY DEF LoadedHistory, IInv, TypeOK, RunRows
  <2> QED
    BY <2>1, <2>2 DEF Overdue
<1> QED
  BY <1>1, <1>2

\* No step of the diff or of the store gives a variable of the diff a value of
\* another kind, and what is loaded is what was asked for.
LEMMA DiffTypePreserved ==
  IInv /\ BoundInv /\ DiffInv /\ (StoreStep \/ (DiffStep /\ UNCHANGED vars))
    => DiffTypeOK'
<1> SUFFICES ASSUME IInv, BoundInv, DiffTypeOK, StartInv, PhaseInv,
                    StoreStep \/ (DiffStep /\ UNCHANGED vars)
             PROVE  DiffTypeOK'
  BY DEF DiffInv
<1> DEFINE T == [row : RunRows, found : SUBSET Nat]
<1>0. /\ dpc \in {"idle", "recent", "loadRun", "loadActions", "verdict", "done"}
      /\ ask \in Asks \cup {NoAsk}
      /\ want \in (0..MaxId) \X (0..MaxId)
      /\ snap \subseteq ActionRows
      /\ loaded \in Seq(T)
      /\ Len(loaded) <= 2
      /\ \A i \in DOMAIN loaded : loaded[i].row.id = want[i]
      /\ due \subseteq {want[1], want[2]}
  BY DEF DiffTypeOK
<1>a. TypeOK /\ IdInv /\ rows \subseteq ActionRows
  BY DEF IInv, TypeOK
<1>b. DOMAIN loaded = 1..Len(loaded) /\ Len(loaded) \in Nat
  <2> HIDE DEF T
  <2> QED BY <1>0, LenProperties
<1>1. CASE StoreStep
  <2>1. UNCHANGED dlocals /\ due' \subseteq due \cup Overdue
    BY <1>1 DEF StoreStep
  <2>2. Overdue \subseteq {want[1], want[2]}
    BY DEF Overdue
  <2> HIDE DEF T
  <2> QED
    BY <1>0, <2>1, <2>2 DEF DiffTypeOK, dlocals, T
<1>2. CASE Ask
  <2>1. loaded = <<>> /\ due = {} /\ UNCHANGED <<loaded, due, snap>>
    BY <1>2 DEF Ask, StartInv
  <2>2. ask' \in Asks /\ dpc' \in {"recent", "loadRun"}
    BY <1>2 DEF Ask
  <2>3. want' \in (0..MaxId) \X (0..MaxId)
    <3>1. AskedIds \subseteq 0..MaxId
      BY AskedIdsAssumption, MaxIdAssumption
    <3>2. \/ want' = want
          \/ \E before, after \in AskedIds : want' = <<before, after>>
      BY <1>2 DEF Ask
    <3> QED
      BY <1>0, <3>1, <3>2
  <2>4. \A i \in DOMAIN loaded' : FALSE
    BY <2>1
  <2> QED
    BY <1>0, <2>1, <2>2, <2>3, <2>4 DEF DiffTypeOK
<1>3. CASE Recent
  <2>1. loaded = <<>> /\ due = {} /\ UNCHANGED <<loaded, due, snap, ask>>
    BY <1>3 DEF Recent, StartInv
  <2>2. dpc' \in {"loadRun", "done"}
    BY <1>3 DEF Recent, Say
  <2>3. want' \in (0..MaxId) \X (0..MaxId)
    <3> DEFINE listed == Newest(InScope(ask.scope), Keep)
               older == IF listed = {} THEN {} ELSE Comparable(listed)
    <3>1. CASE want' = want
      BY <1>0, <3>1
    <3>2. CASE older # {} /\ want' = <<NewestOf(older).id, NewestOf(listed).id>>
      <4>1. listed # {} /\ older = Comparable(listed)
        BY <3>2
      <4>2. NewestOf(older) \in runs /\ NewestOf(listed) \in runs
        <5> HIDE DEF listed, older
        <5>1. listed = Newest(InScope(ask.scope), Keep)
          BY DEF listed
        <5> QED
          BY <1>a, <3>2, <4>1, <5>1, RecentChooses
      <4> HIDE DEF listed, older
      <4> QED
        BY <3>2, <4>2, IdsInBound
    <3> QED
      BY <1>3, <3>1, <3>2 DEF Recent
  <2>4. \A i \in DOMAIN loaded' : FALSE
    BY <2>1
  <2> QED
    BY <1>0, <2>1, <2>2, <2>3, <2>4 DEF DiffTypeOK
<1>4. CASE LoadRun /\ dpc' = "loadActions"
  <2>1. UNCHANGED <<ask, want, due>>
    BY <1>4 DEF LoadRun
  <2>2. /\ Len(loaded) \in 0..1 /\ Len(loaded') = Len(loaded) + 1
        /\ loaded' \in Seq(T) /\ snap' = rows
        /\ \A i \in 1..Len(loaded) : loaded'[i] = loaded[i]
        /\ loaded'[Len(loaded')].row.id = want[Len(loaded')]
    BY <1>a, <1>4, RunLoads
  <2>3. DOMAIN loaded' = 1..Len(loaded')
    <3> HIDE DEF T
    <3> QED BY <2>2, LenProperties
  <2>4. \A i \in DOMAIN loaded' : loaded'[i].row.id = want[i]
    <3> HIDE DEF T
    <3> QED BY <1>0, <1>b, <2>2, <2>3
  <2>5. Len(loaded') <= 2
    <3> HIDE DEF T
    <3> QED BY <2>2
  <2> HIDE DEF T
  <2> QED
    BY <1>0, <1>a, <1>4, <2>1, <2>2, <2>4, <2>5 DEF DiffTypeOK, T
<1>5. CASE LoadRun /\ dpc' # "loadActions"
  <2>1. UNCHANGED <<ask, want, due, snap, loaded>> /\ dpc' = "done"
    BY <1>5 DEF LoadRun, Say
  <2> HIDE DEF T
  <2> QED
    BY <1>0, <2>1 DEF DiffTypeOK, T
<1>6. CASE LoadActions
  <2>1. UNCHANGED <<ask, want, due>> /\ snap' = {} /\ dpc' \in {"loadRun", "verdict"}
    BY <1>6 DEF LoadActions
  <2>2. /\ Len(loaded') = Len(loaded) /\ loaded' \in Seq(T)
        /\ \A i \in 1..Len(loaded) : loaded'[i].row = loaded[i].row
    BY <1>6, ActionsLoad
  <2>3. DOMAIN loaded' = 1..Len(loaded')
    <3> HIDE DEF T
    <3> QED BY <2>2, LenProperties
  <2>4. \A i \in DOMAIN loaded' : loaded'[i].row.id = want[i]
    <3> HIDE DEF T
    <3> QED BY <1>0, <1>b, <2>2, <2>3
  <2> HIDE DEF T
  <2> QED
    BY <1>0, <2>1, <2>2, <2>4 DEF DiffTypeOK, T
<1>7. CASE Verdict \/ DiffError
  <2>1. /\ UNCHANGED <<ask, want, due, loaded>> /\ dpc' = "done"
        /\ snap' \in {snap, {}}
    BY <1>7 DEF Verdict, DiffError, Say
  <2> HIDE DEF T
  <2> QED
    BY <1>0, <2>1 DEF DiffTypeOK, T
<1>8. CASE Exit
  <2>1. /\ dpc' = "idle" /\ ask' = NoAsk /\ want' = <<0, 0>> /\ loaded' = <<>>
        /\ due' = {} /\ snap' = snap
    BY <1>8 DEF Exit
  <2>2. want' \in (0..MaxId) \X (0..MaxId)
    BY <2>1, MaxIdAssumption
  <2>3. Len(loaded') <= 2 /\ loaded' \in Seq(T) /\ \A i \in DOMAIN loaded' : FALSE
    <3> HIDE DEF T
    <3> QED BY <2>1
  <2> HIDE DEF T
  <2> QED
    BY <1>0, <2>1, <2>2, <2>3 DEF DiffTypeOK, T
<1> HIDE DEF T
<1> QED
  BY <1>1, <1>2, <1>3, <1>4, <1>5, <1>6, <1>7, <1>8 DEF DiffStep

\* The diff's own variables move in the order of its program.
LEMMA PhasePreserved ==
  IInv /\ BoundInv /\ DiffInv /\ (StoreStep \/ (DiffStep /\ UNCHANGED vars))
    => StartInv' /\ PhaseInv'
<1> SUFFICES ASSUME IInv, BoundInv, DiffTypeOK, StartInv, PhaseInv,
                    StoreStep \/ (DiffStep /\ UNCHANGED vars)
             PROVE  StartInv' /\ PhaseInv'
  BY DEF DiffInv
<1>0. Len(<<>>) = 0 /\ 0 <= 1
  OBVIOUS
<1>1. CASE StoreStep
  <2>1. UNCHANGED dlocals /\ due' \in {due, due \cup Overdue}
    BY <1>1 DEF StoreStep
  <2>2. PhaseInv'
    BY <2>1, Zenon DEF PhaseInv, dlocals
  <2>3. StartInv'
    BY <2>1, NothingOverdue DEF StartInv, dlocals
  <2> QED
    BY <2>2, <2>3
<1>2. CASE Ask
  <2>1. loaded = <<>> /\ due = {} /\ want = <<0, 0>>
    BY <1>2 DEF Ask, StartInv
  <2>2. said = ""
    BY <1>2, Zenon DEF Ask, PhaseInv
  <2>3. /\ UNCHANGED <<loaded, due, said>> /\ dpc' \in {"recent", "loadRun"}
        /\ dpc' = "recent" => want' = want
    BY <1>2 DEF Ask
  <2>4. StartInv'
    BY <2>1, <2>3 DEF StartInv
  <2>5. Len(loaded') <= 1
    BY <2>1, <2>3
  <2>6. PhaseInv'
    BY <2>2, <2>3, <2>5 DEF PhaseInv
  <2> QED
    BY <2>4, <2>6
<1>3. CASE Recent
  <2>1. loaded = <<>> /\ said = ""
    BY <1>3, Zenon DEF Recent, StartInv, PhaseInv
  <2>2. /\ UNCHANGED loaded
        /\ \/ dpc' = "loadRun" /\ said' = said
           \/ dpc' = "done" /\ said' \in {"gate skipped", "need two runs"}
    BY <1>3 DEF Recent, Say
  <2>3. Len(loaded') <= 1
    <3>1. loaded' = <<>>
      BY <2>1, <2>2
    <3> QED
      BY <1>0, <3>1, Zenon
  <2>4. StartInv'
    BY <2>2 DEF StartInv
  <2>5. PhaseInv'
    BY <2>1, <2>2, <2>3 DEF PhaseInv
  <2> QED
    BY <2>4, <2>5
<1>4. CASE LoadRun /\ dpc' = "loadActions"
  <2>1. Len(loaded') \in 1..2
    <3>1. Len(loaded) \in 0..1 /\ Len(loaded') = Len(loaded) + 1
      BY <1>4, RunLoads DEF IInv
    <3>2. \A k \in 0..1 : k + 1 \in 1..2
      OBVIOUS
    <3> QED
      BY <3>1, <3>2, Zenon
  <2>2. said' = "" /\ dpc' = "loadActions"
    <3>1. dpc = "loadRun" /\ said' = said
      BY <1>4 DEF LoadRun, Say
    <3> QED
      BY <1>4, <3>1, Zenon DEF PhaseInv
  <2> QED
    BY <2>1, <2>2 DEF StartInv, PhaseInv
<1>5. CASE LoadRun /\ dpc' # "loadActions"
  <2>1. dpc = "loadRun" /\ loaded' = loaded /\ dpc' = "done" /\ said' = "no run"
    BY <1>5 DEF LoadRun, Say
  <2>2. Len(loaded) <= 1
    BY <2>1, Zenon DEF PhaseInv
  <2>3. Len(loaded') <= 1
    BY <2>1, <2>2
  <2> QED
    BY <2>1, <2>3 DEF StartInv, PhaseInv
<1>6. CASE LoadActions
  <2>1. /\ dpc = "loadActions" /\ said' = said
        /\ dpc' = IF Len(loaded) = 1 THEN "loadRun" ELSE "verdict"
    BY <1>6 DEF LoadActions
  <2>2. Len(loaded) \in 1..2 /\ Len(loaded') = Len(loaded)
    BY <1>6, ActionsLoad
  <2>3. said' = ""
    BY <2>1, Zenon DEF PhaseInv
  <2>4. /\ dpc' = "loadRun" => Len(loaded') <= 1
        /\ dpc' = "verdict" => Len(loaded') = 2
        /\ dpc' \in {"loadRun", "verdict"}
    BY <2>1, <2>2
  <2> QED
    BY <2>3, <2>4 DEF StartInv, PhaseInv
<1>7. CASE Verdict
  <2>1. dpc' = "done" /\ said' # "no run"
    BY <1>7 DEF Verdict, Say
  <2> QED
    BY <2>1 DEF StartInv, PhaseInv
<1>8. CASE DiffError
  <2>1. dpc' = "done" /\ said' = "error"
    BY <1>8 DEF DiffError, Say
  <2> QED
    BY <2>1 DEF StartInv, PhaseInv
<1>9. CASE Exit
  <2>1. /\ dpc' = "idle" /\ ask' = NoAsk /\ want' = <<0, 0>> /\ loaded' = <<>>
        /\ due' = {} /\ said' = ""
    BY <1>9 DEF Exit
  <2> QED
    BY <2>1 DEF StartInv, PhaseInv
<1> QED
  BY <1>1, <1>2, <1>3, <1>4, <1>5, <1>6, <1>7, <1>8, <1>9 DEF DiffStep

\* Load reads the actions from the snapshot of its first query, which holds
\* the whole build; what is loaded stays as it was read.
LEMMA DiffWholePreserved ==
  IInv /\ BoundInv /\ DiffInv /\ (StoreStep \/ (DiffStep /\ UNCHANGED vars))
    => WholeInv'
<1> SUFFICES ASSUME IInv, BoundInv, DiffTypeOK, StartInv, PhaseInv, WholeInv,
                    StoreStep \/ (DiffStep /\ UNCHANGED vars)
             PROVE  WholeInv'
  BY DEF DiffInv
<1> DEFINE T == [row : RunRows, found : SUBSET Nat]
<1>a. /\ loaded \in Seq(T) /\ DOMAIN loaded = 1..Len(loaded)
      /\ Len(loaded) \in Nat
  <2>1. loaded \in Seq(T)
    BY DEF DiffTypeOK
  <2> HIDE DEF T
  <2> QED
    BY <2>1, LenProperties
<1>1. CASE StoreStep
  <2>1. UNCHANGED <<dpc, snap, loaded>>
    BY <1>1 DEF StoreStep, dlocals
  <2> QED
    BY <2>1, Zenon DEF WholeInv
<1>2. CASE Ask
  <2>1. loaded' = <<>> /\ dpc' # "loadActions"
    BY <1>2 DEF Ask, StartInv
  <2>2. \A i \in DOMAIN loaded' : FALSE
    BY <2>1
  <2> QED
    BY <2>1, <2>2, Zenon DEF WholeInv
<1>3. CASE Recent
  <2>1. loaded' = <<>> /\ dpc' # "loadActions"
    BY <1>3 DEF Recent, Say, StartInv
  <2>2. \A i \in DOMAIN loaded' : FALSE
    BY <2>1
  <2> QED
    BY <2>1, <2>2, Zenon DEF WholeInv
<1>4. CASE LoadRun /\ dpc' = "loadActions"
  <2> DEFINE n == Len(loaded')
             row == loaded'[n].row
  <2>1. /\ n = Len(loaded) + 1 /\ loaded' \in Seq(T) /\ snap' = rows
        /\ \A i \in 1..Len(loaded) : loaded'[i] = loaded[i]
        /\ row \in runs
    BY <1>4, RunLoads DEF IInv
  <2>2. DOMAIN loaded' = 1..n
    <3> HIDE DEF T
    <3> QED BY <2>1, LenProperties
  <2>3. {x.idx : x \in {y \in snap' : y.run = row.id}} = 0..(row.acts - 1)
    <3> HIDE DEF row
    <3>1. ActionsOf(row.id) = 0..(row.acts - 1)
      BY <2>1 DEF IInv, RunsAreWhole
    <3> QED
      BY <2>1, <3>1 DEF ActionsOf
  <2>4. dpc = "loadRun"
    BY <1>4 DEF LoadRun
  <2>5. ASSUME NEW i \in DOMAIN loaded', i # n
        PROVE  loaded'[i].found = 0..(loaded'[i].row.acts - 1)
    <3>1. i \in 1..Len(loaded) /\ loaded'[i] = loaded[i]
      BY <1>a, <2>1, <2>2, <2>5
    <3>2. i \in DOMAIN loaded
      BY <1>a, <3>1
    <3>3. loaded[i].found = 0..(loaded[i].row.acts - 1)
      BY <2>4, <3>2, Zenon DEF WholeInv
    <3> QED
      BY <3>1, <3>3
  <2> QED
    BY <1>4, <2>3, <2>5, Zenon DEF WholeInv
<1>5. CASE LoadActions
  <2> DEFINE n == Len(loaded)
             found == {x.idx : x \in {y \in snap : y.run = loaded[n].row.id}}
  <2>1. /\ n \in 1..2 /\ Len(loaded') = n /\ loaded' \in Seq(T)
        /\ \A i \in 1..n : loaded'[i].row = loaded[i].row
        /\ \A i \in 1..n : i # n => loaded'[i].found = loaded[i].found
        /\ loaded'[n].found = found
    BY <1>5, ActionsLoad
  <2>2. DOMAIN loaded' = 1..n
    <3> HIDE DEF T
    <3> QED BY <2>1, LenProperties
  <2>3. dpc = "loadActions" /\ dpc' # "loadActions"
    BY <1>5 DEF LoadActions
  <2>4. found = 0..(loaded[n].row.acts - 1)
    BY <2>3, Zenon DEF WholeInv
  <2>5. ASSUME NEW i \in DOMAIN loaded'
        PROVE  loaded'[i].found = 0..(loaded'[i].row.acts - 1)
    <3>1. i \in 1..n /\ loaded'[i].row = loaded[i].row
      BY <2>1, <2>2
    <3>2. CASE i = n
      <4> HIDE DEF found
      <4> QED BY <2>1, <2>4, <3>1, <3>2
    <3>3. CASE i # n
      <4>1. loaded[i].found = 0..(loaded[i].row.acts - 1)
        BY <1>a, <2>3, <3>1, <3>3, Zenon DEF WholeInv
      <4> HIDE DEF found
      <4> QED
        BY <2>1, <3>1, <3>3, <4>1
    <3> QED
      BY <3>2, <3>3
  <2> QED
    BY <2>3, <2>5, Zenon DEF WholeInv
<1>6. ASSUME dpc' \in {"done", "idle"} PROVE WholeInv'
  BY <1>6 DEF WholeInv
<1>7. Verdict \/ DiffError \/ Exit \/ (LoadRun /\ dpc' # "loadActions")
        => dpc' \in {"done", "idle"}
  BY DEF Verdict, DiffError, Exit, LoadRun, Say
<1> QED
  BY <1>1, <1>2, <1>3, <1>4, <1>5, <1>6, <1>7 DEF DiffStep

\* The two wanted ids are naturals.
LEMMA WantIsPair ==
  ASSUME DiffTypeOK
  PROVE  want[1] \in Nat /\ want[2] \in Nat
BY MaxIdAssumption DEF DiffTypeOK

\* Whatever is recorded after the choice has a larger id than both builds, and
\* what is loaded are rows of the store: the choice stays the right one.
LEMMA ChoicePreserved ==
  IInv /\ IInv' /\ DiffInv /\ (StoreStep \/ (DiffStep /\ UNCHANGED vars))
    => ChoiceInv'
<1> SUFFICES ASSUME IInv, IInv', DiffTypeOK, StartInv, PhaseInv, ChoiceInv,
                    StoreStep \/ (DiffStep /\ UNCHANGED vars)
             PROVE  ChoiceInv'
  BY DEF DiffInv
<1> DEFINE T == [row : RunRows, found : SUBSET Nat]
           Rows(l) == {l[i].row : i \in DOMAIN l}
<1>a. /\ loaded \in Seq(T) /\ DOMAIN loaded = 1..Len(loaded)
      /\ Len(loaded) \in Nat
  <2>1. loaded \in Seq(T)
    BY DEF DiffTypeOK
  <2> HIDE DEF T
  <2> QED
    BY <2>1, LenProperties
<1>b. want[1] \in Nat /\ want[2] \in Nat
  BY WantIsPair
<1>1. CASE StoreStep
  <2>1. UNCHANGED <<dpc, ask, want, loaded>>
    BY <1>1 DEF StoreStep, dlocals
  <2>2. /\ seq \in Nat /\ seq' \in Nat /\ seq <= seq'
        /\ \A r \in runs' : r \in runs \/ r.id = seq + 1
    BY <1>1, StoreMoves DEF StoreStep
  <2>3. SUFFICES ASSUME Choosing PROVE ChoiceInv'
    BY <2>1 DEF ChoiceInv, Choosing
  <2>4. /\ want[1] < want[2] /\ want[2] <= seq
        /\ \A r \in Known : r.id \in {want[1], want[2]} => r.scope = ask.scope
        /\ \A r, q \in Known :
             r.id = want[1] /\ q.id = want[2] => r.command = q.command
        /\ \A r \in runs, q \in Known :
             q.id = want[2] /\ r.scope = ask.scope /\ r.command = q.command =>
               ~ (want[1] < r.id /\ r.id < want[2])
    BY <2>3 DEF ChoiceInv
  <2>5. \A r \in Known' : r \in Known \/ r.id = seq + 1
    BY <2>1, <2>2 DEF Known
  <2>6. \A r \in Known' : r.id \in {want[1], want[2]} => r \in Known
    BY <1>b, <2>2, <2>4, <2>5
  <2>7. \A r \in runs' : r.id < want[2] => r \in runs
    BY <1>b, <2>2, <2>4
  <2>8. want[2] <= seq'
    BY <1>b, <2>2, <2>4
  <2>9. \A r \in Known' : r.id \in {want[1], want[2]} => r.scope = ask.scope
    BY <2>4, <2>6
  <2>10. \A r, q \in Known' :
           r.id = want[1] /\ q.id = want[2] => r.command = q.command
    BY <2>4, <2>6
  <2>11. \A r \in runs', q \in Known' :
           q.id = want[2] /\ r.scope = ask.scope /\ r.command = q.command =>
             ~ (want[1] < r.id /\ r.id < want[2])
    BY <2>4, <2>6, <2>7
  <2> QED
    BY <2>1, <2>4, <2>8, <2>9, <2>10, <2>11 DEF ChoiceInv
<1>2. CASE Ask
  BY <1>2 DEF Ask, ChoiceInv, Choosing
<1>3. CASE Recent /\ UNCHANGED vars
  <2> DEFINE listed == Newest(InScope(ask.scope), Keep)
             older == IF listed = {} THEN {} ELSE Comparable(listed)
             a == NewestOf(listed)
             b == NewestOf(older)
  <2>1. CASE dpc' = "done"
    BY <2>1 DEF ChoiceInv, Choosing
  <2>2. CASE dpc' # "done"
    <3>1. /\ older # {} /\ want' = <<b.id, a.id>> /\ UNCHANGED <<ask, loaded>>
          /\ loaded = <<>>
      BY <1>3, <2>2 DEF Recent, Say, StartInv
    <3>2. listed # {} /\ older = Comparable(listed)
      BY <3>1
    <3>3. /\ b \in runs /\ a \in runs /\ b.scope = ask.scope /\ a.scope = ask.scope
          /\ b.command = a.command /\ b.id < a.id
          /\ \A r \in runs : r.scope = ask.scope /\ r.command = a.command =>
               ~ (b.id < r.id /\ r.id < a.id)
      <4> HIDE DEF listed, older
      <4>1. listed = Newest(InScope(ask.scope), Keep)
        BY DEF listed
      <4> QED
        BY <3>1, <3>2, <4>1, RecentChooses DEF IInv
    <3> HIDE DEF listed, older, a, b
    <3>4. Known' = runs /\ runs' = runs /\ seq' = seq
      <4>1. {loaded'[i].row : i \in DOMAIN loaded'} = {}
        BY <3>1
      <4> QED
        BY <1>3, <4>1 DEF Known, vars, tables
    <3>5. \A r \in runs : (r.id = a.id => r = a) /\ (r.id = b.id => r = b)
      BY <3>3 DEF IInv, IdInv
    <3>6. want'[1] = b.id /\ want'[2] = a.id /\ ask' = ask /\ a.id <= seq
      BY <3>1, <3>3 DEF IInv, IdInv
    <3>7. /\ want'[1] < want'[2] /\ want'[2] <= seq'
          /\ \A r \in Known' : r.id \in {want'[1], want'[2]} => r.scope = ask'.scope
          /\ \A r, q \in Known' :
               r.id = want'[1] /\ q.id = want'[2] => r.command = q.command
          /\ \A r \in runs', q \in Known' :
               q.id = want'[2] /\ r.scope = ask'.scope /\ r.command = q.command =>
                 ~ (want'[1] < r.id /\ r.id < want'[2])
      BY <3>3, <3>4, <3>5, <3>6
    <3> QED
      BY <3>7 DEF ChoiceInv
  <2> QED
    BY <2>1, <2>2
<1>4. ASSUME UNCHANGED vars, UNCHANGED <<ask, want>>, Known' \subseteq Known,
             Choosing
      PROVE  ChoiceInv'
  <2>1. runs' = runs /\ seq' = seq /\ ask' = ask /\ want' = want
    BY <1>4 DEF vars, tables
  <2> QED
    BY <1>4, <2>1 DEF ChoiceInv
<1>5. CASE LoadRun /\ dpc' = "loadActions" /\ UNCHANGED vars
  <2>1. /\ Len(loaded) \in 0..1 /\ Len(loaded') = Len(loaded) + 1
        /\ loaded' \in Seq(T)
        /\ \A i \in 1..Len(loaded) : loaded'[i] = loaded[i]
        /\ loaded'[Len(loaded')].row \in runs
    BY <1>5, RunLoads DEF IInv
  <2>2. DOMAIN loaded' = 1..Len(loaded')
    <3> HIDE DEF T
    <3> QED BY <2>1, LenProperties
  <2>3. ASSUME NEW i \in DOMAIN loaded' PROVE loaded'[i].row \in Known
    <3>1. i \in 1..Len(loaded) \/ i = Len(loaded')
      BY <1>a, <2>1, <2>2
    <3> QED
      BY <1>a, <2>1, <3>1 DEF Known
  <2>4. runs' = runs
    BY <1>5 DEF vars, tables
  <2>5. Known' \subseteq Known
    BY <2>3, <2>4 DEF Known
  <2>6. UNCHANGED <<ask, want>> /\ dpc = "loadRun"
    BY <1>5 DEF LoadRun
  <2> QED
    BY <1>4, <1>5, <2>5, <2>6 DEF ChoiceInv, Choosing
<1>6. CASE LoadActions /\ UNCHANGED vars
  <2>1. /\ Len(loaded') = Len(loaded) /\ loaded' \in Seq(T)
        /\ \A i \in 1..Len(loaded) : loaded'[i].row = loaded[i].row
    BY <1>6, ActionsLoad
  <2>2. DOMAIN loaded' = 1..Len(loaded')
    <3> HIDE DEF T
    <3> QED BY <2>1, LenProperties
  <2>3. runs' = runs
    BY <1>6 DEF vars, tables
  <2>4. Known' \subseteq Known
    BY <1>a, <2>1, <2>2, <2>3 DEF Known
  <2>5. UNCHANGED <<ask, want>> /\ dpc = "loadActions"
    BY <1>6 DEF LoadActions
  <2> QED
    BY <1>4, <1>6, <2>4, <2>5 DEF ChoiceInv, Choosing
<1>7. Verdict \/ DiffError \/ Exit \/ (LoadRun /\ dpc' # "loadActions")
        => dpc' \in {"done", "idle"}
  BY DEF Verdict, DiffError, Exit, LoadRun, Say
<1>8. ASSUME dpc' \in {"done", "idle"} PROVE ChoiceInv'
  BY <1>8 DEF ChoiceInv, Choosing
<1> QED
  BY <1>1, <1>2, <1>3, <1>5, <1>6, <1>7, <1>8 DEF DiffStep

\* A chosen build is in the store until retention calls for it: the store loses
\* none that is not superseded at that moment.
LEMMA MissPreserved ==
  IInv /\ IInv' /\ DiffInv /\ (StoreStep \/ (DiffStep /\ UNCHANGED vars))
    => MissInv' /\ MissesOnlySuperseded'
<1> SUFFICES ASSUME IInv, IInv', DiffTypeOK, StartInv, PhaseInv, MissInv,
                    MissesOnlySuperseded,
                    StoreStep \/ (DiffStep /\ UNCHANGED vars)
             PROVE  MissInv' /\ MissesOnlySuperseded'
  BY DEF DiffInv
<1>1. CASE StoreStep
  <2>1. UNCHANGED <<dpc, ask, want, loaded, said>> /\ due \subseteq due'
    BY <1>1 DEF StoreStep, dlocals
  <2>2. MissesOnlySuperseded'
    BY <2>1 DEF MissesOnlySuperseded, Wanted
  <2>3. ASSUME Choosing, NEW i \in 1..2,
               ~ \E q \in runs' : q.id = want[i], want[i] \notin due
        PROVE  want[i] \in due'
    <3>1. PICK r \in runs : r.id = want[i]
      BY <2>3 DEF MissInv
    <3>2. r \in runs \ runs'
      BY <2>3, <3>1
    <3>3. ~ UNCHANGED vars
      BY <3>2 DEF vars, tables
    <3>4. Next /\ due' = due \cup Overdue
      BY <1>1, <3>3 DEF StoreStep
    <3>5. History!Superseded(Entry(r))
      BY <3>2, <3>4, StoreMoves
    <3>6. Entry(r) \in LoadedHistory
      BY HistoryIsRuns DEF IInv
    <3>7. Entry(r).id = want[i] /\ want[i] \in {want[1], want[2]} /\ ask.latest
      BY <2>3, <3>1 DEF Entry, Choosing
    <3>8. want[i] \in Overdue
      BY <3>5, <3>6, <3>7 DEF Overdue
    <3> QED
      BY <3>4, <3>8
  <2>4. MissInv'
    BY <2>1, <2>3 DEF MissInv, Choosing
  <2> QED
    BY <2>2, <2>4
<1>2. CASE Ask
  BY <1>2 DEF Ask, MissInv, Choosing, MissesOnlySuperseded
<1>3. CASE Recent /\ UNCHANGED vars
  <2> DEFINE listed == Newest(InScope(ask.scope), Keep)
             older == IF listed = {} THEN {} ELSE Comparable(listed)
             a == NewestOf(listed)
             b == NewestOf(older)
  <2>1. CASE dpc' = "done"
    <3>1. said' # "no run"
      BY <1>3, <2>1 DEF Recent, Say
    <3> QED
      BY <2>1, <3>1 DEF MissInv, Choosing, MissesOnlySuperseded
  <2>2. CASE dpc' # "done"
    <3>1. older # {} /\ want' = <<b.id, a.id>>
      BY <1>3, <2>2 DEF Recent, Say
    <3>2. listed # {} /\ older = Comparable(listed)
      BY <3>1
    <3>3. b \in runs /\ a \in runs
      <4> HIDE DEF listed, older
      <4>1. listed = Newest(InScope(ask.scope), Keep)
        BY DEF listed
      <4> QED
        BY <3>1, <3>2, <4>1, RecentChooses DEF IInv
    <3> HIDE DEF listed, older, a, b
    <3>4. runs' = runs
      BY <1>3 DEF vars, tables
    <3>5. \A i \in 1..2 : \E r \in runs' : r.id = want'[i]
      BY <3>1, <3>3, <3>4
    <3> QED
      BY <2>2, <3>5 DEF MissInv, MissesOnlySuperseded
  <2> QED
    BY <2>1, <2>2
<1>4. CASE (LoadRun \/ LoadActions) /\ dpc' # "done" /\ UNCHANGED vars
  <2>1. /\ UNCHANGED <<ask, want, due>> /\ runs' = runs
        /\ dpc \in {"loadRun", "loadActions"}
    BY <1>4 DEF LoadRun, LoadActions, vars, tables
  <2> QED
    BY <1>4, <2>1 DEF MissInv, Choosing, MissesOnlySuperseded
<1>5. CASE LoadRun /\ dpc' = "done"
  <2>1. /\ dpc = "loadRun" /\ \A r \in runs : r.id # Wanted
        /\ UNCHANGED <<ask, want, loaded, due>>
    BY <1>5 DEF LoadRun, Say
  <2>2. Len(loaded) + 1 \in 1..2
    <3>1. Len(loaded) <= 1
      BY <2>1, Zenon DEF PhaseInv
    <3>2. Len(loaded) \in Nat
      BY LenProperties DEF DiffTypeOK
    <3>3. \A k \in Nat : k <= 1 => k + 1 \in 1..2
      OBVIOUS
    <3> QED
      BY <3>1, <3>2, <3>3, Zenon
  <2>3. ask.latest => Wanted \in due
    BY <2>1, <2>2 DEF MissInv, Choosing, Wanted
  <2> QED
    BY <1>5, <2>1, <2>3 DEF MissInv, Choosing, MissesOnlySuperseded, Wanted
<1>6. CASE Verdict \/ DiffError \/ Exit
  <2>1. dpc' = "idle" \/ (dpc' = "done" /\ said' # "no run")
    BY <1>6 DEF Verdict, DiffError, Exit, Say
  <2> QED
    BY <2>1 DEF MissInv, Choosing, MissesOnlySuperseded
<1>7. LoadActions => dpc' # "done"
  BY DEF LoadActions
<1> QED
  BY <1>1, <1>2, <1>3, <1>4, <1>5, <1>6, <1>7 DEF DiffStep

-----------------------------------------------------------------------------
(* The theorems.                                                           *)

\* An idle diff has nothing in hand.
LEMMA InitDiffInv == DiffInit => IInv /\ BoundInv /\ DiffInv
<1> SUFFICES ASSUME DiffInit PROVE IInv /\ BoundInv /\ DiffInv
  OBVIOUS
<1>1. Init /\ dpc = "idle" /\ ask = NoAsk /\ want = <<0, 0>> /\ snap = {}
      /\ loaded = <<>> /\ said = "" /\ due = {}
  BY DEF DiffInit
<1>2. IInv
  BY <1>1, InitIInv
<1>3. BoundInv
  <2>1. Saving = {} /\ seq = 0
    BY <1>1 DEF Init, Saving
  <2> QED
    BY <2>1, FS_EmptySet, MaxIdAssumption DEF BoundInv
<1>4. DiffTypeOK
  <2> DEFINE T == [row : RunRows, found : SUBSET Nat]
  <2>0. /\ dpc = "idle" /\ ask = NoAsk /\ want = <<0, 0>> /\ snap = {}
        /\ loaded = <<>> /\ due = {}
    BY <1>1
  <2>1. loaded \in Seq(T) /\ Len(loaded) <= 2 /\ \A i \in DOMAIN loaded : FALSE
    <3> HIDE DEF T
    <3> QED BY <2>0
  <2>2. want \in (0..MaxId) \X (0..MaxId)
    BY <2>0, MaxIdAssumption
  <2> HIDE DEF T
  <2> QED
    BY <2>0, <2>1, <2>2 DEF DiffTypeOK, T
<1>5. StartInv /\ PhaseInv /\ WholeInv /\ ChoiceInv /\ MissInv
  BY <1>1 DEF StartInv, PhaseInv, WholeInv, ChoiceInv, MissInv, Choosing
<1>6. MissesOnlySuperseded
  BY <1>1 DEF MissesOnlySuperseded
<1> QED
  BY <1>2, <1>3, <1>4, <1>5, <1>6 DEF DiffInv

\* The store does not notice the diff, and the diff keeps DiffInv.
LEMMA DiffInductive == DiffSpec => [](IInv /\ BoundInv /\ DiffInv)
<1> DEFINE I == IInv /\ BoundInv /\ DiffInv
<1>1. DiffInit => I
  BY InitDiffInv
<1>2. I /\ [DiffNext]_<<vars, dvars>> => I'
  <2> SUFFICES ASSUME I, [DiffNext]_<<vars, dvars>> PROVE I'
    OBVIOUS
  <2>1. StoreStep \/ (DiffStep /\ UNCHANGED vars)
    BY DEF DiffNext, StoreStep, dvars
  <2>2. [Next]_vars
    BY <2>1 DEF StoreStep
  <2>3. IInv'
    BY <2>2, TypePreserved, LockPreserved, IdPreserved, StagedPreserved,
       SavedPreserved, WholePreserved, NeighbourPreserved, BoundedPreserved
    DEF IInv
  <2>4. BoundInv'
    BY <2>2, BoundPreserved
  <2>5. DiffInv'
    BY <2>1, <2>3, DiffTypePreserved, PhasePreserved, DiffWholePreserved,
       ChoicePreserved, MissPreserved DEF DiffInv
  <2> QED
    BY <2>3, <2>4, <2>5
<1> HIDE DEF I
<1>3. DiffSpec => []I
  BY <1>1, <1>2, PTL DEF DiffSpec
<1> QED
  BY <1>3, PTL DEF I

\* Type correctness of the diff; what it has loaded is what it asked for.
THEOREM DiffTypeCorrect == DiffSpec => []DiffTypeOK
<1>1. DiffInv => DiffTypeOK
  BY DEF DiffInv
<1> QED
  BY <1>1, DiffInductive, PTL

\* Both builds of a comparison have all of their actions, whatever is recorded
\* and pruned between Load's two queries and between the two Loads.
THEOREM WholeComparison == DiffSpec => []ComparesWholeBuilds
<1>1. DiffInv => ComparesWholeBuilds
  <2> SUFFICES ASSUME DiffTypeOK, PhaseInv, WholeInv, dpc = "verdict"
               PROVE  \A i \in 1..2 :
                        loaded[i].found = 0..(loaded[i].row.acts - 1)
    BY DEF DiffInv, ComparesWholeBuilds
  <2>1. Len(loaded) = 2
    BY Zenon DEF PhaseInv
  <2>2. DOMAIN loaded = 1..2
    BY <2>1, LenProperties DEF DiffTypeOK
  <2> QED
    BY <2>2, Zenon DEF WholeInv
<1> QED
  BY <1>1, DiffInductive, PTL

\* `longpole diff` without ids compares two builds of one command in its scope,
\* older before newer, and none of them was recorded in between, although
\* others go on recording and pruning until the comparison is made.
THEOREM NeighbourComparison == DiffSpec => []ComparesNeighbours
<1>1. DiffInv => ComparesNeighbours
  <2> SUFFICES ASSUME DiffTypeOK, PhaseInv, ChoiceInv,
                      dpc = "verdict", ask.latest
               PROVE  LET before == loaded[1].row
                          after == loaded[2].row
                      IN  /\ before.scope = ask.scope /\ after.scope = ask.scope
                          /\ before.command = after.command
                          /\ before.id < after.id
                          /\ \A r \in runs :
                               r.scope = after.scope /\ r.command = after.command =>
                                 ~ (before.id < r.id /\ r.id < after.id)
    BY DEF DiffInv, ComparesNeighbours
  <2>1. Len(loaded) = 2
    BY Zenon DEF PhaseInv
  <2>2. DOMAIN loaded = 1..2
    BY <2>1, LenProperties DEF DiffTypeOK
  <2>3. /\ loaded[1].row \in Known /\ loaded[2].row \in Known
        /\ loaded[1].row.id = want[1] /\ loaded[2].row.id = want[2]
    <3>1. 1 \in DOMAIN loaded /\ 2 \in DOMAIN loaded
      BY <2>2
    <3> QED
      BY <3>1 DEF Known, DiffTypeOK
  <2> QED
    BY <2>3 DEF ChoiceInv, Choosing
<1> QED
  BY <1>1, DiffInductive, PTL

\* A diff that finds a build it chose missing lost it to retention: enough
\* newer builds had superseded it.
THEOREM OnlyRetentionMisses == DiffSpec => []MissesOnlySuperseded
<1>1. DiffInv => MissesOnlySuperseded
  BY DEF DiffInv
<1> QED
  BY <1>1, DiffInductive, PTL
=============================================================================
