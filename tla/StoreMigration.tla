--------------------------- MODULE StoreMigration ---------------------------
(***************************************************************************)
(* store.Open (internal/store/store.go) by several longpole processes at   *)
(* once, on a database that may be missing or written by an older release: *)
(* the schema, the migration of table actions in one transaction, and the  *)
(* builds saved meanwhile.                                                 *)
(*                                                                         *)
(* The transaction is SQLite's deferred one: its first read fixes the      *)
(* state it sees, its first write takes the write lock, and since it has   *)
(* read by then it is refused at once, without the busy timeout, when      *)
(* another process holds the lock or has committed since.                  *)
(***************************************************************************)
EXTENDS Naturals, FiniteSets

CONSTANTS
  Openers,   \* processes that open the store, each of them once
  OldRows,   \* rows of table actions written by the older release
  None       \* "no process"

ASSUME MigrationAssumption == None \notin Openers /\ OldRows \cap Openers = {}
ASSUME OpenersAssumption == IsFiniteSet(Openers)

VARIABLES
  db,      \* what is committed: see Database
  version, \* how many transactions have committed, at most one Open and one
           \* Save of each process
  writer,  \* the process that holds the write lock, or None
  pc,      \* pc[p]: the next step of process p
  seen,    \* seen[p]: the version p's transaction reads
  columns, \* columns[p]: migrateActions' columns
  work     \* the writer's database, not yet committed

vars == <<db, version, writer, pc, seen, columns, work>>
-----------------------------------------------------------------------------
Added == {"graph_id", "deps"}

\* A row of actions carries the graph_id of its action, the default of the
\* added column, or, where the column is missing, nothing.  An old row's is its
\* idx; a saved row, named after its process, has its own.
Ids == {"none", "default", "idx", "own"}
Database == [table : BOOLEAN, columns : SUBSET Added,
             ids : UNION {[R -> Ids] : R \in SUBSET (OldRows \cup Openers)}]

Databases ==
  {d \in Database :
     /\ d.columns # {"deps"}
     /\ d.table \/ (d.columns = {} /\ DOMAIN d.ids = {})
     /\ d.table => DOMAIN d.ids = OldRows
     /\ \A r \in DOMAIN d.ids :
          d.ids[r] = IF "graph_id" \in d.columns THEN "idx" ELSE "none"}

Steps == {"schema", "begin", "graph_id", "backfill", "deps", "commit",
          "opened", "saved", "failed", "dead"}

Init ==
  /\ db \in Databases
  /\ version = 0
  /\ writer = None
  /\ pc = [p \in Openers |-> "schema"]
  /\ seen = [p \in Openers |-> 0]
  /\ columns = [p \in Openers |-> {}]
  /\ work = db

Commit(d) == db' = d /\ version' = version + 1

Goto(p, step) == pc' = [pc EXCEPT ![p] = step]

\* CREATE TABLE IF NOT EXISTS: waits for the lock (busy_timeout), and does
\* nothing where the table is.
Schema(p) ==
  /\ pc[p] = "schema"
  /\ \/ /\ ~db.table /\ writer = None
        /\ Commit([db EXCEPT !.table = TRUE, !.columns = Added])
     \/ /\ db.table
        /\ UNCHANGED <<db, version>>
  /\ Goto(p, "begin")
  /\ UNCHANGED <<writer, seen, columns, work>>

\* Begin and PRAGMA table_info
Inspect(p) ==
  /\ pc[p] = "begin"
  /\ seen' = [seen EXCEPT ![p] = version]
  /\ columns' = [columns EXCEPT ![p] = db.columns]
  /\ Goto(p, "graph_id")
  /\ UNCHANGED <<db, version, writer, work>>

\* Mutant of CanWrite: a transaction that writes beside another.
CanWrite_NoLock(p) == seen[p] = version

\* A transaction that has read may write at once or not at all.
CanWrite(p) == writer = p \/ (writer = None /\ seen[p] = version)

\* The first write of p's transaction, or a further one.
Alter(p, d, step) ==
  /\ CanWrite(p)
  /\ writer' = p
  /\ work' = d
  /\ Goto(p, step)
  /\ UNCHANGED <<db, version, seen, columns>>

Current(p) == IF writer = p THEN work ELSE db

\* Mutant of NeedsBackfill: columns is not looked at.
NeedsBackfill_Always(p) == TRUE

\* if !columns["graph_id"]
NeedsBackfill(p) == "graph_id" \notin columns[p]

AddGraphId(p) ==
  LET d == Current(p)
  IN  /\ pc[p] = "graph_id"
      /\ \/ /\ NeedsBackfill(p)
            /\ Alter(p, [d EXCEPT !.columns = @ \cup {"graph_id"},
                           !.ids = [r \in DOMAIN d.ids |->
                              IF "graph_id" \in d.columns THEN d.ids[r]
                              ELSE "default"]],
                     "backfill")
         \/ /\ ~NeedsBackfill(p)
            /\ Goto(p, "deps")
            /\ UNCHANGED <<db, version, writer, seen, columns, work>>

\* UPDATE actions SET graph_id = idx
Backfill(p) ==
  /\ pc[p] = "backfill"
  /\ Alter(p, [work EXCEPT !.ids = [r \in DOMAIN work.ids |-> "idx"]], "deps")

\* if !columns["deps"]
AddDeps(p) ==
  /\ pc[p] = "deps"
  /\ \/ /\ "deps" \notin columns[p]
        /\ Alter(p, [Current(p) EXCEPT !.columns = @ \cup {"deps"}], "commit")
     \/ /\ "deps" \in columns[p]
        /\ Goto(p, "commit")
        /\ UNCHANGED <<db, version, writer, seen, columns, work>>

\* Mutant of Installed: the transaction is never committed.
Installed_Nothing == db

\* What Commit leaves.
Installed == work

CommitMigration(p) ==
  /\ pc[p] = "commit"
  /\ \/ /\ writer = p
        /\ Commit(Installed)
        /\ writer' = None
     \/ /\ writer # p
        /\ UNCHANGED <<db, version, writer>>
  /\ Goto(p, "opened")
  /\ UNCHANGED <<seen, columns, work>>

\* A write is refused (SQLITE_BUSY, or SQLITE_BUSY_SNAPSHOT when another has
\* committed): the deferred Rollback, and Open returns the error.
Refused(p) ==
  /\ \/ pc[p] = "graph_id" /\ NeedsBackfill(p)
     \/ pc[p] = "deps" /\ "deps" \notin columns[p]
  /\ ~CanWrite(p)
  /\ Goto(p, "failed")
  /\ UNCHANGED <<db, version, writer, seen, columns, work>>

\* What is left of a transaction that did not commit.
Undone == db

\* The process dies; its transaction is undone.
Crash(p) ==
  /\ pc[p] \notin {"saved", "failed", "dead"}
  /\ \/ /\ writer = p
        /\ writer' = None
        /\ db' = Undone
     \/ /\ writer # p
        /\ UNCHANGED <<db, writer>>
  /\ Goto(p, "dead")
  /\ UNCHANGED <<version, seen, columns, work>>

\* Save: its first statement writes, so it waits for the lock.
Save(p) ==
  /\ pc[p] = "opened"
  /\ writer = None
  /\ db.columns = Added
  /\ Commit([db EXCEPT !.ids =
       [r \in DOMAIN db.ids \cup {p} |->
          IF r = p THEN "own" ELSE db.ids[r]]])
  /\ Goto(p, "saved")
  /\ UNCHANGED <<writer, seen, columns, work>>

Step(p) ==
  \/ Schema(p) \/ Inspect(p) \/ AddGraphId(p) \/ Backfill(p) \/ AddDeps(p)
  \/ CommitMigration(p) \/ Refused(p) \/ Crash(p) \/ Save(p)

Next == \E p \in Openers : Step(p)

Spec == Init /\ [][Next]_vars
-----------------------------------------------------------------------------
\* The types, and the lock: it is held from a transaction's first write to its
\* end, by one process.
MigrationTypeOK ==
  /\ db \in Database /\ work \in Database
  /\ version \in 0..(2 * Cardinality(Openers) + 1)
  /\ writer \in Openers \cup {None}
  /\ pc \in [Openers -> Steps]
  /\ seen \in [Openers -> 0..version]
  /\ columns \in [Openers -> SUBSET Added]
  /\ \A p \in Openers :
       pc[p] = "backfill" \/ (pc[p] = "commit" /\ columns[p] # Added) =>
         writer = p

\* Every row is known by the identity it was written with: an old row by its
\* idx ("retain that identity", migrateActions), a row saved since by its own
\* graph_id, which no migration overwrites.  No crash leaves the column added
\* and the old rows at its default.
IdentitiesKept ==
  \A r \in DOMAIN db.ids :
    db.ids[r] = IF r \in Openers THEN "own"
                ELSE IF "graph_id" \in db.columns THEN "idx" ELSE "none"

\* A process whose Open succeeded finds the columns Save writes, whoever else
\* is opening the store.
OpenedIsMigrated ==
  \A p \in Openers : pc[p] \in {"opened", "saved"} => db.columns = Added

\* "Other longpole processes have independent pools; their contention waits
\* via the DSN's busy timeout" (Open): no Open fails because of another.
ContentionWaits == \A p \in Openers : pc[p] # "failed"
=============================================================================
