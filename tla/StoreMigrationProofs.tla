------------------------ MODULE StoreMigrationProofs ------------------------
(***************************************************************************)
(* Theorems about StoreMigration for every number of processes and of rows *)
(* an older release has written, and every database it may have left.      *)
(*                                                                         *)
(* The argument: whoever may write has read the state it writes over       *)
(* (ReadInv), so the writer's database has the identities and columns it   *)
(* will need when it commits (WorkInv); nobody else commits while it has   *)
(* the lock.                                                               *)
(***************************************************************************)
EXTENDS StoreMigration, FiniteSetTheorems, TLAPS

\* Every row of d is known by the identity it was written with.
Right(d) ==
  \A r \in DOMAIN d.ids :
    d.ids[r] = IF r \in Openers THEN "own"
               ELSE IF "graph_id" \in d.columns THEN "idx" ELSE "none"

\* MigrationTypeOK without the bound on version.
KindInv ==
  /\ db \in Database /\ work \in Database
  /\ version \in Nat
  /\ writer \in Openers \cup {None}
  /\ pc \in [Openers -> Steps]
  /\ seen \in [Openers -> Nat]
  /\ columns \in [Openers -> SUBSET Added]
  /\ \A p \in Openers : seen[p] <= version

\* The lock is held from a transaction's first write to its end.
LockInv ==
  \A p \in Openers :
    /\ writer = p => pc[p] \in {"backfill", "deps", "commit"} /\ seen[p] = version
    /\ pc[p] = "backfill" => writer = p
    /\ pc[p] = "deps" /\ "graph_id" \notin columns[p] => writer = p
    /\ pc[p] = "commit" /\ columns[p] # Added => writer = p

\* The columns a transaction has read are those of the database it sees, and
\* columns are never taken away.
ReadInv ==
  \A p \in Openers :
    /\ pc[p] \notin {"schema", "dead"} => db.table
    /\ pc[p] \in {"graph_id", "backfill", "deps", "commit"} =>
         /\ columns[p] \subseteq db.columns
         /\ seen[p] = version => columns[p] = db.columns

\* What the writer has made of the database so far.
WorkInv ==
  \A p \in Openers :
    writer = p =>
      /\ work.table
      /\ "graph_id" \in work.columns
      /\ columns[p] \subseteq work.columns
      /\ pc[p] = "backfill" => DOMAIN work.ids \cap Openers = {}
      /\ pc[p] \in {"deps", "commit"} => Right(work)
      /\ pc[p] = "commit" => work.columns = Added

\* A row saved by this release is only in a database that has its columns, and
\* no row is where the table is not.
SavedInv ==
  /\ DOMAIN db.ids \cap Openers # {} => db.columns = Added
  /\ ~ db.table => DOMAIN db.ids = {}

MInv ==
  /\ KindInv
  /\ LockInv
  /\ ReadInv
  /\ WorkInv
  /\ SavedInv
  /\ IdentitiesKept
  /\ OpenedIsMigrated

\* Each process commits its migration and its save at most once.
Ended == {p \in Openers : pc[p] \in {"saved", "failed", "dead"}}
Past == {p \in Openers : pc[p] \in {"opened", "saved", "failed", "dead"}}

CountInv ==
  /\ ~ db.table => version = 0
  /\ version <= 1 + Cardinality(Past) + Cardinality(Ended)
-----------------------------------------------------------------------------
\* What a database may be, its rows apart.
IdMaps == UNION {[R -> Ids] : R \in SUBSET (OldRows \cup Openers)}

\* An identity for each row of some set of rows.
LEMMA IdMapsType ==
  \A f : f \in IdMaps <=> /\ f \in [DOMAIN f -> Ids]
                          /\ DOMAIN f \subseteq OldRows \cup Openers
<1>1. ASSUME NEW f \in IdMaps
      PROVE  f \in [DOMAIN f -> Ids] /\ DOMAIN f \subseteq OldRows \cup Openers
  <2>1. PICK R \in SUBSET (OldRows \cup Openers) : f \in [R -> Ids]
    BY DEF IdMaps
  <2> QED
    BY <2>1
<1>2. ASSUME NEW f, f \in [DOMAIN f -> Ids], DOMAIN f \subseteq OldRows \cup Openers
      PROVE  f \in IdMaps
  BY <1>2 DEF IdMaps
<1> QED
  BY <1>1, <1>2

\* What the migration's statements make of a database is one.
LEMMA Statements ==
  ASSUME NEW d \in Database
  PROVE  /\ d.table \in BOOLEAN /\ d.columns \subseteq Added
         /\ [d EXCEPT !.table = TRUE, !.columns = Added] \in Database
         /\ [d EXCEPT !.columns = @ \cup {"graph_id"},
                      !.ids = [r \in DOMAIN d.ids |->
                         IF "graph_id" \in d.columns THEN d.ids[r]
                         ELSE "default"]] \in Database
         /\ [d EXCEPT !.ids = [r \in DOMAIN d.ids |-> "idx"]] \in Database
         /\ [d EXCEPT !.columns = @ \cup {"deps"}] \in Database
         /\ \A p \in Openers :
              [d EXCEPT !.ids = [r \in DOMAIN d.ids \cup {p} |->
                 IF r = p THEN "own" ELSE d.ids[r]]] \in Database
<1> DEFINE D == [table : BOOLEAN, columns : SUBSET Added, ids : IdMaps]
<1>1. Database = D /\ d \in D
  BY DEF Database, IdMaps
<1>2. /\ d.ids \in [DOMAIN d.ids -> Ids] /\ DOMAIN d.ids \subseteq OldRows \cup Openers
      /\ d.ids \in IdMaps
  BY <1>1, IdMapsType
<1>3. /\ "default" \in Ids /\ "idx" \in Ids /\ "own" \in Ids
      /\ "graph_id" \in Added /\ "deps" \in Added
  BY DEF Ids, Added
<1>4. [r \in DOMAIN d.ids |-> IF "graph_id" \in d.columns THEN d.ids[r]
                              ELSE "default"] \in IdMaps
  BY <1>2, <1>3, IdMapsType
<1>5. [r \in DOMAIN d.ids |-> "idx"] \in IdMaps
  BY <1>2, <1>3, IdMapsType
<1>6. ASSUME NEW p \in Openers
      PROVE  [r \in DOMAIN d.ids \cup {p} |->
                IF r = p THEN "own" ELSE d.ids[r]] \in IdMaps
  BY <1>2, <1>3, IdMapsType
<1> QED
  BY <1>1, <1>3, <1>4, <1>5, <1>6

\* No step gives a variable a value of another kind, and no transaction reads
\* a version that does not exist yet.
LEMMA KindPreserved == MInv /\ [Next]_vars => KindInv'
<1> SUFFICES ASSUME MInv, [Next]_vars PROVE KindInv'
  OBVIOUS
<1>0. KindInv
  BY DEF MInv
<1> USE DEF KindInv, Goto, Commit
<1>a. /\ "begin" \in Steps /\ "graph_id" \in Steps /\ "backfill" \in Steps
      /\ "deps" \in Steps /\ "commit" \in Steps /\ "opened" \in Steps
      /\ "saved" \in Steps /\ "failed" \in Steps /\ "dead" \in Steps
  BY DEF Steps
<1>1. CASE UNCHANGED vars
  BY <1>0, <1>1 DEF vars
<1>2. ASSUME NEW p \in Openers, Schema(p) PROVE KindInv'
  <2>1. db' \in Database
    BY <1>0, <1>2, Statements DEF Schema
  <2> QED
    BY <1>0, <1>a, <1>2, <2>1 DEF Schema
<1>3. ASSUME NEW p \in Openers, Inspect(p) PROVE KindInv'
  <2>1. db.columns \subseteq Added
    BY <1>0, Statements
  <2> QED
    BY <1>0, <1>a, <1>3, <2>1 DEF Inspect
<1>4. ASSUME NEW p \in Openers, AddGraphId(p) PROVE KindInv'
  <2>1. Current(p) \in Database
    BY <1>0 DEF Current
  <2>2. work' \in Database
    BY <1>0, <1>4, <2>1, Statements DEF AddGraphId, Alter
  <2> QED
    BY <1>0, <1>a, <1>4, <2>2 DEF AddGraphId, Alter
<1>5. ASSUME NEW p \in Openers, Backfill(p) PROVE KindInv'
  <2>1. work' \in Database
    BY <1>0, <1>5, Statements DEF Backfill, Alter
  <2> QED
    BY <1>0, <1>a, <1>5, <2>1 DEF Backfill, Alter
<1>6. ASSUME NEW p \in Openers, AddDeps(p) PROVE KindInv'
  <2>1. Current(p) \in Database
    BY <1>0 DEF Current
  <2>2. work' \in Database
    BY <1>0, <1>6, <2>1, Statements DEF AddDeps, Alter
  <2> QED
    BY <1>0, <1>a, <1>6, <2>2 DEF AddDeps, Alter
<1>7. ASSUME NEW p \in Openers, CommitMigration(p) PROVE KindInv'
  BY <1>0, <1>a, <1>7 DEF CommitMigration, Installed
<1>8. ASSUME NEW p \in Openers, Refused(p) PROVE KindInv'
  BY <1>0, <1>a, <1>8 DEF Refused
<1>9. ASSUME NEW p \in Openers, Crash(p) PROVE KindInv'
  BY <1>0, <1>a, <1>9 DEF Crash, Undone
<1>10. ASSUME NEW p \in Openers, Save(p) PROVE KindInv'
  <2>1. db' \in Database
    BY <1>0, <1>10, Statements DEF Save
  <2> QED
    BY <1>0, <1>a, <1>10, <2>1 DEF Save
<1> HIDE DEF KindInv, Goto, Commit
<1> QED
  BY <1>1, <1>2, <1>3, <1>4, <1>5, <1>6, <1>7, <1>8, <1>9, <1>10
  DEF Next, Step

\* Only a process that has the lock, or that takes it from nobody, writes, and
\* the version it has read cannot change while it does.
LEMMA LockPreserved == MInv /\ [Next]_vars => LockInv'
<1> SUFFICES ASSUME MInv, [Next]_vars PROVE LockInv'
  OBVIOUS
<1>0. /\ LockInv /\ writer \in Openers \cup {None} /\ None \notin Openers
      /\ pc \in [Openers -> Steps] /\ seen \in [Openers -> Nat]
      /\ version \in Nat /\ columns \in [Openers -> SUBSET Added]
      /\ \A p \in Openers : pc[p] = "schema" \/ pc[p] = "dead" \/ db.table
  BY MigrationAssumption DEF MInv, KindInv, ReadInv
<1> USE DEF LockInv, Goto, Commit
<1>1. CASE UNCHANGED vars
  BY <1>0, <1>1 DEF vars
<1>2. ASSUME NEW p \in Openers, Schema(p) PROVE LockInv'
  BY <1>0, <1>2 DEF Schema
<1>3. ASSUME NEW p \in Openers, Inspect(p) PROVE LockInv'
  BY <1>0, <1>3 DEF Inspect
<1>4. ASSUME NEW p \in Openers, AddGraphId(p) PROVE LockInv'
  BY <1>0, <1>4 DEF AddGraphId, Alter, CanWrite, NeedsBackfill
<1>5. ASSUME NEW p \in Openers, Backfill(p) PROVE LockInv'
  BY <1>0, <1>5 DEF Backfill, Alter, CanWrite
<1>6. ASSUME NEW p \in Openers, AddDeps(p) PROVE LockInv'
  <2>1. "deps" \in columns[p] /\ "graph_id" \in columns[p] => columns[p] = Added
    BY <1>0 DEF Added
  <2> QED
    BY <1>0, <1>6, <2>1 DEF AddDeps, Alter, CanWrite
<1>7. ASSUME NEW p \in Openers, CommitMigration(p) PROVE LockInv'
  BY <1>0, <1>7 DEF CommitMigration
<1>8. ASSUME NEW p \in Openers, Refused(p) PROVE LockInv'
  BY <1>0, <1>8 DEF Refused, CanWrite
<1>9. ASSUME NEW p \in Openers, Crash(p) PROVE LockInv'
  BY <1>0, <1>9 DEF Crash
<1>10. ASSUME NEW p \in Openers, Save(p) PROVE LockInv'
  BY <1>0, <1>10 DEF Save
<1> HIDE DEF LockInv, Goto, Commit
<1> QED
  BY <1>1, <1>2, <1>3, <1>4, <1>5, <1>6, <1>7, <1>8, <1>9, <1>10
  DEF Next, Step

\* What is committed while p is in its transaction leaves p with a stale
\* version, and only adds columns.
LEMMA ReadPreserved == MInv /\ [Next]_vars => ReadInv'
<1> SUFFICES ASSUME MInv, [Next]_vars PROVE ReadInv'
  OBVIOUS
<1>0. /\ LockInv /\ ReadInv /\ WorkInv /\ db \in Database /\ version \in Nat
      /\ pc \in [Openers -> Steps] /\ seen \in [Openers -> Nat]
      /\ columns \in [Openers -> SUBSET Added]
      /\ \A p \in Openers : seen[p] <= version
  BY DEF MInv, KindInv
<1> USE DEF ReadInv, Goto
<1>a. ASSUME NEW p \in Openers, UNCHANGED <<db, version, seen, columns>>,
             \A q \in Openers : q # p => pc'[q] = pc[q],
             pc[p] \in {"schema", "dead"} => pc'[p] \in {"dead"} \/ db.table,
             pc'[p] \in {"graph_id", "backfill", "deps", "commit"} =>
               pc[p] \in {"graph_id", "backfill", "deps", "commit"}
      PROVE  ReadInv'
  BY <1>0, <1>a
<1>1. CASE UNCHANGED vars
  BY <1>0, <1>1 DEF vars
<1>2. ASSUME NEW p \in Openers, Schema(p) PROVE ReadInv'
  <2>1. CASE db.table
    BY <1>0, <1>a, <1>2, <2>1 DEF Schema
  <2>2. CASE ~ db.table
    <3>1. db' = [db EXCEPT !.table = TRUE, !.columns = Added] /\ UNCHANGED columns
      BY <1>2, <2>2 DEF Schema, Commit
    <3>2. db'.table
      BY <1>0, <3>1 DEF Database
    <3>3. \A q \in Openers : pc'[q] \in {"schema", "dead", "begin"}
      BY <1>0, <1>2, <2>2 DEF Schema
    <3> QED
      BY <3>2, <3>3
  <2> QED
    BY <2>1, <2>2
<1>3. ASSUME NEW p \in Openers, Inspect(p) PROVE ReadInv'
  BY <1>0, <1>3 DEF Inspect
<1>4. ASSUME NEW p \in Openers, AddGraphId(p) PROVE ReadInv'
  BY <1>0, <1>a, <1>4 DEF AddGraphId, Alter
<1>5. ASSUME NEW p \in Openers, Backfill(p) PROVE ReadInv'
  BY <1>0, <1>a, <1>5 DEF Backfill, Alter
<1>6. ASSUME NEW p \in Openers, AddDeps(p) PROVE ReadInv'
  BY <1>0, <1>a, <1>6 DEF AddDeps, Alter
<1>7. ASSUME NEW p \in Openers, CommitMigration(p) PROVE ReadInv'
  <2>1. CASE writer # p
    BY <1>0, <1>a, <1>7, <2>1 DEF CommitMigration
  <2>2. CASE writer = p
    <3>1. /\ db' = work /\ version' = version + 1 /\ UNCHANGED <<seen, columns>>
          /\ pc' = [pc EXCEPT ![p] = "opened"]
      BY <1>7, <2>2 DEF CommitMigration, Commit, Installed
    <3>2. work.table /\ work.columns = Added
      BY <1>0, <1>7, <2>2 DEF CommitMigration, WorkInv
    <3>3. \A q \in Openers : columns[q] \subseteq Added /\ ~ (seen[q] = version + 1)
      BY <1>0
    <3> QED
      BY <1>0, <3>1, <3>2, <3>3
  <2> QED
    BY <2>1, <2>2
<1>8. ASSUME NEW p \in Openers, Refused(p) PROVE ReadInv'
  BY <1>0, <1>a, <1>8 DEF Refused
<1>9. ASSUME NEW p \in Openers, Crash(p) PROVE ReadInv'
  <2>1. db' = db
    BY <1>9 DEF Crash, Undone
  <2> QED
    BY <1>0, <1>a, <1>9, <2>1 DEF Crash
<1>10. ASSUME NEW p \in Openers, Save(p) PROVE ReadInv'
  <2>1. db'.table = db.table /\ db'.columns = db.columns /\ version' = version + 1
    BY <1>0, <1>10 DEF Save, Commit, Database
  <2>2. \A q \in Openers : ~ (seen[q] = version + 1)
    BY <1>0
  <2>3. pc' = [pc EXCEPT ![p] = "saved"] /\ pc[p] = "opened" /\ UNCHANGED <<seen, columns>>
    BY <1>10 DEF Save
  <2> QED
    BY <1>0, <2>1, <2>2, <2>3
<1> HIDE DEF ReadInv, Goto
<1> QED
  BY <1>1, <1>2, <1>3, <1>4, <1>5, <1>6, <1>7, <1>8, <1>9, <1>10
  DEF Next, Step

\* What AddGraphId, Backfill and AddDeps write.
LEMMA Written ==
  ASSUME NEW d \in Database
  PROVE  /\ LET e == [d EXCEPT !.columns = @ \cup {"graph_id"},
                               !.ids = [r \in DOMAIN d.ids |->
                                  IF "graph_id" \in d.columns THEN d.ids[r]
                                  ELSE "default"]]
            IN  /\ e.table = d.table /\ e.columns = d.columns \cup {"graph_id"}
                /\ DOMAIN e.ids = DOMAIN d.ids
         /\ LET e == [d EXCEPT !.ids = [r \in DOMAIN d.ids |-> "idx"]]
            IN  /\ e.table = d.table /\ e.columns = d.columns
                /\ DOMAIN e.ids = DOMAIN d.ids
                /\ \A r \in DOMAIN e.ids : e.ids[r] = "idx"
         /\ LET e == [d EXCEPT !.columns = @ \cup {"deps"}]
            IN  /\ e.table = d.table /\ e.columns = d.columns \cup {"deps"}
                /\ e.ids = d.ids
BY DEF Database

\* What the writer has made so far keeps every identity, and at its COMMIT has
\* every column.
LEMMA WorkPreserved == MInv /\ [Next]_vars => WorkInv'
<1> SUFFICES ASSUME MInv, [Next]_vars PROVE WorkInv'
  OBVIOUS
<1>0. /\ LockInv /\ ReadInv /\ WorkInv /\ SavedInv /\ Right(db)
      /\ db \in Database /\ work \in Database
      /\ pc \in [Openers -> Steps] /\ columns \in [Openers -> SUBSET Added]
      /\ None \notin Openers
  BY MigrationAssumption DEF MInv, KindInv, IdentitiesKept, Right
<1> USE DEF Goto
<1>a. ASSUME work' = work,
             \A q \in Openers :
               writer' = q => /\ writer = q /\ pc'[q] = pc[q]
                              /\ columns'[q] = columns[q]
      PROVE  WorkInv'
  BY <1>0, <1>a DEF WorkInv, Right
<1>1. CASE UNCHANGED vars
  BY <1>a, <1>1 DEF vars
<1>2. ASSUME NEW p \in Openers, Schema(p) PROVE WorkInv'
  BY <1>0, <1>a, <1>2 DEF Schema, LockInv
<1>3. ASSUME NEW p \in Openers, Inspect(p) PROVE WorkInv'
  BY <1>0, <1>a, <1>3 DEF Inspect, LockInv
<1>4. ASSUME NEW p \in Openers, AddGraphId(p) PROVE WorkInv'
  <2>0. pc[p] = "graph_id" /\ writer # p
    BY <1>0, <1>4 DEF AddGraphId, LockInv
  <2>1. CASE ~ NeedsBackfill(p)
    BY <1>0, <1>a, <1>4, <2>0, <2>1 DEF AddGraphId
  <2>2. CASE NeedsBackfill(p)
    <3>1. /\ Current(p) = db /\ CanWrite(p) /\ writer' = p
          /\ pc' = [pc EXCEPT ![p] = "backfill"] /\ columns' = columns
          /\ work' = [db EXCEPT !.columns = @ \cup {"graph_id"},
                        !.ids = [r \in DOMAIN db.ids |->
                           IF "graph_id" \in db.columns THEN db.ids[r]
                           ELSE "default"]]
      BY <1>4, <2>0, <2>2 DEF AddGraphId, Alter, Current
    <3>2. seen[p] = version /\ db.table /\ columns[p] = db.columns
      BY <1>0, <2>0, <3>1 DEF CanWrite, ReadInv
    <3>3. "graph_id" \notin db.columns /\ DOMAIN db.ids \cap Openers = {}
      BY <1>0, <2>2, <3>2 DEF NeedsBackfill, SavedInv, Added
    <3>4. /\ work'.table /\ "graph_id" \in work'.columns
          /\ columns'[p] \subseteq work'.columns
          /\ DOMAIN work'.ids \cap Openers = {}
      BY <1>0, <3>1, <3>2, <3>3, Written
    <3>5. pc'[p] = "backfill" /\ \A q \in Openers : writer' = q => q = p
      BY <1>0, <3>1
    <3> QED
      BY <3>4, <3>5 DEF WorkInv
  <2> QED
    BY <2>1, <2>2
<1>5. ASSUME NEW p \in Openers, Backfill(p) PROVE WorkInv'
  <2>1. /\ pc[p] = "backfill" /\ writer = p /\ writer' = p
        /\ pc' = [pc EXCEPT ![p] = "deps"] /\ columns' = columns
        /\ work' = [work EXCEPT !.ids = [r \in DOMAIN work.ids |-> "idx"]]
    BY <1>0, <1>5 DEF Backfill, Alter, LockInv
  <2>2. /\ work.table /\ "graph_id" \in work.columns
        /\ columns[p] \subseteq work.columns
        /\ DOMAIN work.ids \cap Openers = {}
    BY <1>0, <2>1 DEF WorkInv
  <2>3. /\ work'.table /\ work'.columns = work.columns
        /\ DOMAIN work'.ids = DOMAIN work.ids
        /\ \A r \in DOMAIN work'.ids : work'.ids[r] = "idx"
    BY <1>0, <2>1, <2>2, Written
  <2>4. Right(work)'
    BY <2>2, <2>3 DEF Right
  <2>5. pc'[p] = "deps" /\ \A q \in Openers : writer' = q => q = p
    BY <1>0, <2>1
  <2> QED
    BY <2>1, <2>2, <2>3, <2>4, <2>5 DEF WorkInv
<1>6. ASSUME NEW p \in Openers, AddDeps(p) PROVE WorkInv'
  <2>1. CASE "deps" \in columns[p]
    <3>1. /\ pc[p] = "deps" /\ pc' = [pc EXCEPT ![p] = "commit"]
          /\ UNCHANGED <<work, writer, columns>>
      BY <1>6, <2>1 DEF AddDeps
    <3>2. CASE writer # p
      BY <1>0, <1>a, <3>1, <3>2
    <3>3. CASE writer = p
      <4>1. /\ work.table /\ Right(work) /\ columns[p] \subseteq work.columns
            /\ "graph_id" \in work.columns
        BY <1>0, <3>1, <3>3 DEF WorkInv
      <4>2. work.columns = Added
        BY <1>0, <2>1, <4>1, Statements DEF Added
      <4>3. \A q \in Openers : writer' = q => q = p
        BY <3>1, <3>3
      <4>4. Right(work)'
        BY <3>1, <4>1 DEF Right
      <4> QED
        BY <3>1, <4>1, <4>2, <4>3, <4>4 DEF WorkInv
    <3> QED
      BY <3>2, <3>3
  <2>2. CASE "deps" \notin columns[p]
    <3>1. /\ pc[p] = "deps" /\ CanWrite(p) /\ writer' = p
          /\ pc' = [pc EXCEPT ![p] = "commit"] /\ columns' = columns
          /\ work' = [Current(p) EXCEPT !.columns = @ \cup {"deps"}]
      BY <1>6, <2>2 DEF AddDeps, Alter
    <3>2. /\ Current(p) \in Database /\ Current(p).table /\ Right(Current(p))
          /\ "graph_id" \in Current(p).columns
      <4>1. CASE writer = p
        BY <1>0, <3>1, <4>1 DEF Current, WorkInv
      <4>2. CASE writer # p
        <5>1. seen[p] = version /\ "graph_id" \in columns[p]
          BY <1>0, <3>1, <4>2 DEF CanWrite, LockInv
        <5>2. columns[p] = db.columns /\ db.table
          BY <1>0, <3>1, <5>1 DEF ReadInv
        <5> QED
          BY <1>0, <4>2, <5>1, <5>2 DEF Current
      <4> QED
        BY <4>1, <4>2
    <3>3. /\ work'.table = Current(p).table /\ work'.ids = Current(p).ids
          /\ work'.columns = Current(p).columns \cup {"deps"}
      BY <3>1, <3>2, Written
    <3>4. work'.columns = Added /\ Right(work)'
      <4>1. Current(p).columns \subseteq Added
        BY <3>2, Statements
      <4>2. work'.columns = Added
        BY <3>2, <3>3, <4>1 DEF Added
      <4> QED
        BY <3>2, <3>3, <4>2 DEF Right, Added
    <3>5. pc'[p] = "commit" /\ \A q \in Openers : writer' = q => q = p
      BY <1>0, <3>1
    <3> QED
      BY <1>0, <3>1, <3>2, <3>3, <3>4, <3>5 DEF WorkInv, Added
  <2> QED
    BY <2>1, <2>2
<1>7. ASSUME NEW p \in Openers, CommitMigration(p) PROVE WorkInv'
  BY <1>0, <1>a, <1>7 DEF CommitMigration
<1>8. ASSUME NEW p \in Openers, Refused(p) PROVE WorkInv'
  BY <1>0, <1>a, <1>8 DEF Refused, CanWrite
<1>9. ASSUME NEW p \in Openers, Crash(p) PROVE WorkInv'
  BY <1>0, <1>a, <1>9 DEF Crash
<1>10. ASSUME NEW p \in Openers, Save(p) PROVE WorkInv'
  BY <1>0, <1>a, <1>10 DEF Save
<1> QED
  BY <1>1, <1>2, <1>3, <1>4, <1>5, <1>6, <1>7, <1>8, <1>9, <1>10
  DEF Next, Step

\* What is committed keeps the identities: the schema's statement finds no
\* row, a migration commits the writer's database, Save adds a row with its own
\* graph_id to a database that has the columns.
LEMMA RowsPreserved ==
  MInv /\ [Next]_vars => SavedInv' /\ IdentitiesKept' /\ OpenedIsMigrated'
<1> SUFFICES ASSUME MInv, [Next]_vars
             PROVE  SavedInv' /\ IdentitiesKept' /\ OpenedIsMigrated'
  OBVIOUS
<1>0. /\ LockInv /\ ReadInv /\ WorkInv /\ SavedInv /\ IdentitiesKept
      /\ OpenedIsMigrated /\ db \in Database /\ work \in Database
      /\ pc \in [Openers -> Steps] /\ columns \in [Openers -> SUBSET Added]
      /\ \A q \in Openers : pc[q] \in {"opened", "saved"} => db.columns = Added
  BY DEF MInv, KindInv, OpenedIsMigrated
<1> USE DEF Goto
<1>a. ASSUME db' = db,
             \A q \in Openers :
               pc'[q] \in {"opened", "saved"} => pc[q] \in {"opened", "saved"}
      PROVE  SavedInv' /\ IdentitiesKept' /\ OpenedIsMigrated'
  BY <1>0, <1>a DEF SavedInv, IdentitiesKept, OpenedIsMigrated
<1>1. CASE UNCHANGED vars
  BY <1>a, <1>1 DEF vars
<1>2. ASSUME NEW p \in Openers, Schema(p)
      PROVE  SavedInv' /\ IdentitiesKept' /\ OpenedIsMigrated'
  <2>1. CASE db.table
    BY <1>0, <1>a, <1>2, <2>1 DEF Schema
  <2>2. CASE ~ db.table
    <3>1. /\ db' = [db EXCEPT !.table = TRUE, !.columns = Added]
          /\ DOMAIN db.ids = {}
      BY <1>0, <1>2, <2>2 DEF Schema, Commit, SavedInv
    <3>2. db'.table /\ db'.columns = Added /\ DOMAIN db'.ids = {}
      BY <1>0, <3>1 DEF Database
    <3> QED
      BY <3>2 DEF SavedInv, IdentitiesKept, OpenedIsMigrated
  <2> QED
    BY <2>1, <2>2
<1>3. ASSUME NEW p \in Openers, Inspect(p)
      PROVE  SavedInv' /\ IdentitiesKept' /\ OpenedIsMigrated'
  BY <1>0, <1>a, <1>3 DEF Inspect
<1>4. ASSUME NEW p \in Openers, AddGraphId(p)
      PROVE  SavedInv' /\ IdentitiesKept' /\ OpenedIsMigrated'
  BY <1>0, <1>a, <1>4 DEF AddGraphId, Alter
<1>5. ASSUME NEW p \in Openers, Backfill(p)
      PROVE  SavedInv' /\ IdentitiesKept' /\ OpenedIsMigrated'
  BY <1>0, <1>a, <1>5 DEF Backfill, Alter
<1>6. ASSUME NEW p \in Openers, AddDeps(p)
      PROVE  SavedInv' /\ IdentitiesKept' /\ OpenedIsMigrated'
  BY <1>0, <1>a, <1>6 DEF AddDeps, Alter
<1>7. ASSUME NEW p \in Openers, CommitMigration(p)
      PROVE  SavedInv' /\ IdentitiesKept' /\ OpenedIsMigrated'
  <2>1. pc[p] = "commit" /\ pc' = [pc EXCEPT ![p] = "opened"]
    BY <1>7 DEF CommitMigration
  <2>2. CASE writer = p
    <3>1. db' = work /\ work.table /\ work.columns = Added /\ Right(work)
      BY <1>0, <1>7, <2>1, <2>2 DEF CommitMigration, Commit, Installed, WorkInv
    <3> QED
      BY <3>1 DEF SavedInv, IdentitiesKept, OpenedIsMigrated, Right
  <2>3. CASE writer # p
    <3>1. db' = db
      BY <1>7, <2>3 DEF CommitMigration
    <3>2. columns[p] = Added /\ columns[p] \subseteq db.columns
      BY <1>0, <2>1, <2>3 DEF LockInv, ReadInv
    <3>3. db.columns = Added
      BY <1>0, <3>2, Statements
    <3>4. OpenedIsMigrated'
      BY <3>1, <3>3 DEF OpenedIsMigrated
    <3> QED
      BY <1>0, <3>1, <3>4 DEF SavedInv, IdentitiesKept
  <2> QED
    BY <2>2, <2>3
<1>8. ASSUME NEW p \in Openers, Refused(p)
      PROVE  SavedInv' /\ IdentitiesKept' /\ OpenedIsMigrated'
  BY <1>0, <1>a, <1>8 DEF Refused
<1>9. ASSUME NEW p \in Openers, Crash(p)
      PROVE  SavedInv' /\ IdentitiesKept' /\ OpenedIsMigrated'
  <2>1. db' = db
    BY <1>9 DEF Crash, Undone
  <2> QED
    BY <1>0, <1>a, <1>9, <2>1 DEF Crash
<1>10. ASSUME NEW p \in Openers, Save(p)
       PROVE  SavedInv' /\ IdentitiesKept' /\ OpenedIsMigrated'
  <2>1. /\ pc[p] = "opened" /\ db.columns = Added
        /\ db' = [db EXCEPT !.ids = [r \in DOMAIN db.ids \cup {p} |->
                    IF r = p THEN "own" ELSE db.ids[r]]]
    BY <1>10 DEF Save, Commit
  <2>2. db.table
    BY <1>0, <2>1 DEF ReadInv
  <2>3. /\ db'.table = db.table /\ db'.columns = Added
        /\ DOMAIN db'.ids = DOMAIN db.ids \cup {p}
        /\ \A r \in DOMAIN db'.ids :
             db'.ids[r] = IF r = p THEN "own" ELSE db.ids[r]
    BY <1>0, <2>1 DEF Database
  <2>4. IdentitiesKept'
    <3>1. \A r \in DOMAIN db.ids :
            db.ids[r] = IF r \in Openers THEN "own"
                        ELSE IF "graph_id" \in db.columns THEN "idx" ELSE "none"
      BY <1>0 DEF IdentitiesKept
    <3>2. \A r \in DOMAIN db'.ids :
            db'.ids[r] = IF r \in Openers THEN "own"
                         ELSE IF "graph_id" \in db'.columns THEN "idx"
                         ELSE "none"
      BY <2>1, <2>3, <3>1
    <3> QED
      BY <3>2 DEF IdentitiesKept
  <2> QED
    BY <2>2, <2>3, <2>4 DEF SavedInv, OpenedIsMigrated
<1> HIDE DEF Goto
<1> QED
  BY <1>1, <1>2, <1>3, <1>4, <1>5, <1>6, <1>7, <1>8, <1>9, <1>10
  DEF Next, Step

\* A database as an older release leaves it keeps the identities.
LEMMA InitMInv == Init => MInv
<1> SUFFICES ASSUME Init PROVE MInv
  OBVIOUS
<1> USE DEF Init
<1>1. /\ db \in Database /\ work = db
      /\ db.table \/ DOMAIN db.ids = {}
      /\ db.table => DOMAIN db.ids = OldRows
      /\ \A r \in DOMAIN db.ids :
           db.ids[r] = IF "graph_id" \in db.columns THEN "idx" ELSE "none"
  BY DEF Databases
<1>2. DOMAIN db.ids \cap Openers = {} /\ None \notin Openers
  BY <1>1, MigrationAssumption
<1>3. KindInv
  BY <1>1 DEF KindInv, Steps
<1>4. LockInv /\ ReadInv /\ WorkInv /\ OpenedIsMigrated
  BY <1>2 DEF LockInv, ReadInv, WorkInv, OpenedIsMigrated
<1>5. SavedInv
  BY <1>1, <1>2 DEF SavedInv
<1>6. IdentitiesKept
  BY <1>1, <1>2 DEF IdentitiesKept
<1> QED
  BY <1>3, <1>4, <1>5, <1>6 DEF MInv

\* MInv is inductive.
LEMMA MigrationInductive == Spec => []MInv
<1>1. MInv /\ [Next]_vars => MInv'
  BY KindPreserved, LockPreserved, ReadPreserved, WorkPreserved, RowsPreserved
  DEF MInv
<1> QED
  BY InitMInv, <1>1, PTL DEF Spec
-----------------------------------------------------------------------------
\* Finitely many processes have ended, or come past their migration.
LEMMA EndedArePast ==
  /\ IsFiniteSet(Past) /\ IsFiniteSet(Ended)
  /\ Cardinality(Past) \in Nat /\ Cardinality(Ended) \in Nat
  /\ Cardinality(Past) <= Cardinality(Openers)
  /\ Cardinality(Ended) <= Cardinality(Openers)
<1>1. Past \subseteq Openers /\ Ended \subseteq Openers
  BY DEF Past, Ended
<1> QED
  BY <1>1, OpenersAssumption, FS_Subset, FS_CardinalityType

\* Every commit but the schema's moves its process on, to where it commits no
\* migration, and no build, again.
LEMMA CountPreserved == MInv /\ MInv' /\ CountInv /\ [Next]_vars => CountInv'
<1> SUFFICES ASSUME MInv, MInv', CountInv, [Next]_vars PROVE CountInv'
  OBVIOUS
<1>0. /\ ReadInv /\ WorkInv /\ version \in Nat /\ db \in Database
      /\ pc \in [Openers -> Steps] /\ CountInv
  BY DEF MInv, KindInv
<1> DEFINE P == Cardinality(Past)
           E == Cardinality(Ended)
<1>b. P \in Nat /\ E \in Nat /\ P' \in Nat /\ E' \in Nat
  <2>1. /\ IsFiniteSet(Past') /\ IsFiniteSet(Ended')
    <3>1. Past' \subseteq Openers /\ Ended' \subseteq Openers
      BY DEF Past, Ended
    <3> QED
      BY <3>1, OpenersAssumption, FS_Subset
  <2> QED
    BY <2>1, EndedArePast, FS_CardinalityType
<1> USE DEF Goto
<1>a. ASSUME \A q \in Openers :
               /\ pc[q] \in {"saved", "failed", "dead"} =>
                    pc'[q] \in {"saved", "failed", "dead"}
               /\ pc[q] = "opened" =>
                    pc'[q] \in {"opened", "saved", "failed", "dead"}
      PROVE  P <= P' /\ E <= E'
  <2>1. Past \subseteq Past' /\ Ended \subseteq Ended'
    BY <1>a DEF Past, Ended
  <2>2. IsFiniteSet(Past') /\ IsFiniteSet(Ended')
    <3>1. Past' \subseteq Openers /\ Ended' \subseteq Openers
      BY DEF Past, Ended
    <3> QED
      BY <3>1, OpenersAssumption, FS_Subset
  <2> QED
    BY <2>1, <2>2, FS_Subset
<1>c. ASSUME P <= P' /\ E <= E', version' = version, db' = db
      PROVE  CountInv'
  BY <1>0, <1>b, <1>c DEF CountInv
<1>1. CASE UNCHANGED vars
  BY <1>a, <1>c, <1>1 DEF vars
<1>2. ASSUME NEW p \in Openers, Schema(p) PROVE CountInv'
  <2>1. P <= P' /\ E <= E'
    BY <1>0, <1>a, <1>2 DEF Schema
  <2>2. CASE db.table
    BY <1>c, <1>2, <2>1, <2>2 DEF Schema
  <2>3. CASE ~ db.table
    <3>1. version = 0 /\ version' = 1
      BY <1>0, <1>2, <2>3 DEF CountInv, Schema, Commit
    <3>2. db'.table
      BY <1>0, <1>2, <2>3 DEF Schema, Commit, Database
    <3> QED
      BY <1>b, <3>1, <3>2 DEF CountInv
  <2> QED
    BY <2>2, <2>3
<1>3. ASSUME NEW p \in Openers, Inspect(p) PROVE CountInv'
  BY <1>0, <1>a, <1>c, <1>3 DEF Inspect
<1>4. ASSUME NEW p \in Openers, AddGraphId(p) PROVE CountInv'
  BY <1>0, <1>a, <1>c, <1>4 DEF AddGraphId, Alter
<1>5. ASSUME NEW p \in Openers, Backfill(p) PROVE CountInv'
  BY <1>0, <1>a, <1>c, <1>5 DEF Backfill, Alter
<1>6. ASSUME NEW p \in Openers, AddDeps(p) PROVE CountInv'
  BY <1>0, <1>a, <1>c, <1>6 DEF AddDeps, Alter
<1>7. ASSUME NEW p \in Openers, CommitMigration(p) PROVE CountInv'
  <2>1. /\ pc[p] = "commit" /\ pc' = [pc EXCEPT ![p] = "opened"]
    BY <1>7 DEF CommitMigration
  <2>2. P <= P' /\ E <= E'
    BY <1>0, <1>a, <2>1
  <2>3. CASE writer # p
    BY <1>c, <1>7, <2>2, <2>3 DEF CommitMigration
  <2>4. CASE writer = p
    <3>1. version' = version + 1 /\ db' = work /\ work.table
      BY <1>0, <1>7, <2>4 DEF CommitMigration, Commit, Installed, WorkInv
    <3>2. Past' = Past \cup {p} /\ p \notin Past
      BY <1>0, <2>1 DEF Past
    <3>3. P' = P + 1
      BY <3>2, EndedArePast, FS_AddElement
    <3> QED
      BY <1>0, <1>b, <2>2, <3>1, <3>3 DEF CountInv
  <2> QED
    BY <2>3, <2>4
<1>8. ASSUME NEW p \in Openers, Refused(p) PROVE CountInv'
  BY <1>0, <1>a, <1>c, <1>8 DEF Refused
<1>9. ASSUME NEW p \in Openers, Crash(p) PROVE CountInv'
  <2>1. db' = db
    BY <1>9 DEF Crash, Undone
  <2> QED
    BY <1>0, <1>a, <1>c, <1>9, <2>1 DEF Crash
<1>10. ASSUME NEW p \in Openers, Save(p) PROVE CountInv'
  <2>1. /\ pc[p] = "opened" /\ pc' = [pc EXCEPT ![p] = "saved"]
        /\ version' = version + 1
    BY <1>10 DEF Save, Commit
  <2>2. P <= P'
    BY <1>0, <1>a, <2>1
  <2>3. Ended' = Ended \cup {p} /\ p \notin Ended
    BY <1>0, <2>1 DEF Ended
  <2>4. E' = E + 1
    BY <2>3, EndedArePast, FS_AddElement
  <2>5. db'.table
    BY <1>0, <1>10, <2>1 DEF Save, Commit, ReadInv, Database
  <2> QED
    BY <1>0, <1>b, <2>1, <2>2, <2>4, <2>5 DEF CountInv
<1> HIDE DEF Goto
<1> QED
  BY <1>1, <1>2, <1>3, <1>4, <1>5, <1>6, <1>7, <1>8, <1>9, <1>10
  DEF Next, Step

\* So is CountInv, given MInv.
LEMMA MigrationCounts == Spec => []CountInv
<1>1. Init => CountInv
  BY EndedArePast DEF Init, CountInv
<1> QED
  BY <1>1, CountPreserved, MigrationInductive, PTL DEF Spec
-----------------------------------------------------------------------------
\* The state of the openings has its types, the write lock is held from a
\* transaction's first write to its end by one process (store.Open and
\* migrateActions under SQLite's locking), and no process commits more than a
\* migration and a build, the schema apart.
THEOREM MigrationTypeCorrect == Spec => []MigrationTypeOK
<1>1. MInv /\ CountInv => MigrationTypeOK
  <2> SUFFICES ASSUME MInv, CountInv PROVE MigrationTypeOK
    OBVIOUS
  <2>1. KindInv /\ LockInv
    BY DEF MInv
  <2>2. Cardinality(Openers) \in Nat
    BY OpenersAssumption, FS_CardinalityType
  <2>3. version \in 0..(2 * Cardinality(Openers) + 1)
    BY <2>1, <2>2, EndedArePast DEF CountInv, KindInv
  <2>4. seen \in [Openers -> 0..version]
    BY <2>1 DEF KindInv
  <2>5. \A p \in Openers :
          pc[p] = "backfill" \/ (pc[p] = "commit" /\ columns[p] # Added) =>
            writer = p
    BY <2>1 DEF LockInv
  <2> QED
    BY <2>1, <2>3, <2>4, <2>5 DEF MigrationTypeOK, KindInv
<1> QED
  BY <1>1, MigrationInductive, MigrationCounts, PTL

\* Every row of the database is known by the identity it was written with, an
\* old one by its idx and a new one by its own graph_id, whichever processes
\* open the store, crash in the migration or save meanwhile (migrateActions).
THEOREM RowsKeepIdentities == Spec => []IdentitiesKept
<1>1. MInv => IdentitiesKept
  BY DEF MInv
<1> QED
  BY <1>1, MigrationInductive, PTL

\* A process whose store.Open succeeded finds the columns Save writes, also
\* when another process did the migration.
THEOREM OpenedMeansMigrated == Spec => []OpenedIsMigrated
<1>1. MInv => OpenedIsMigrated
  BY DEF MInv
<1> QED
  BY <1>1, MigrationInductive, PTL
=============================================================================
