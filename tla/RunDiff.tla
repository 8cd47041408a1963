------------------------------- MODULE RunDiff -------------------------------
(***************************************************************************)
(* `longpole diff` (runDiffFrom in cmd/longpole/main.go) reading the run   *)
(* store while other processes record and prune: it picks two builds with  *)
(* Recent, or takes two ids from the command line, loads the one and then  *)
(* the other in two transactions, and only then compares them.             *)
(*                                                                         *)
(* A transaction of a reader sees the state of its first SELECT to its end *)
(* and needs no lock (WAL).                                                *)
(***************************************************************************)
EXTENDS RunStore, Sequences

CONSTANT AskedIds   \* bound: the ids that are named on the command line

ASSUME AskedIdsAssumption == AskedIds \subseteq 1..MaxId

VARIABLES
  dpc,     \* the next step of the diff
  ask,     \* what was asked: scope, the newest builds or two ids, the gate
  want,    \* want[1], want[2]: beforeID and afterID
  snap,    \* action rows the open Load transaction sees
  loaded,  \* the builds loaded so far: their row and the indices found
  said,    \* how the diff ended
  due      \* history variable: the chosen builds retention has called for

dlocals == <<dpc, ask, want, snap, loaded, said>>
dvars == <<dlocals, due>>

Asks == [scope : Scopes, latest : BOOLEAN, gate : BOOLEAN]

\* Mutant of NewestOf: the listing read from its end.
NewestOf_Oldest(S) == CHOOSE r \in S : \A q \in S : r.id <= q.id

\* The first row of a listing ORDER BY id DESC.
NewestOf(S) == CHOOSE r \in Newest(S, 1) : TRUE

-----------------------------------------------------------------------------
Say(words) ==
  /\ said' = words
  /\ dpc' = "done"

\* longpole diff [--fail-over=N] [BEFORE AFTER].  The ids on the command line
\* need not exist, be of one scope or be in order.
Ask ==
  /\ dpc = "idle"
  /\ \E a \in Asks :
       /\ ask' = a
       /\ \/ a.latest /\ dpc' = "recent" /\ want' = want
          \/ /\ ~a.latest
             /\ dpc' = "loadRun"
             /\ \E before, after \in AskedIds : want' = <<before, after>>
  /\ UNCHANGED <<snap, loaded, said, due>>

\* Mutant of Comparable: any older run will do.
Comparable_AnyCommand(listed) == listed \ {NewestOf(listed)}

\* The older runs in Recent's answer with the newest run's command.
Comparable(listed) ==
  {r \in listed \ {NewestOf(listed)} : r.command = NewestOf(listed).command}

\* Recent(scope, keepRuns) and the choice of the two runs.
Recent ==
  /\ dpc = "recent"
  /\ LET listed == Newest(InScope(ask.scope), Keep)
         older == IF listed = {} THEN {} ELSE Comparable(listed)
     IN  \/ /\ older = {}
            /\ Say(IF ask.gate THEN "gate skipped" ELSE "need two runs")
            /\ UNCHANGED want
         \/ /\ older # {}
            /\ want' = <<NewestOf(older).id, NewestOf(listed).id>>
            /\ dpc' = "loadRun"
            /\ UNCHANGED said
  /\ UNCHANGED <<ask, snap, loaded, due>>

\* Mutant of Wanted: Load(beforeID) twice.
Wanted_First == want[1]

\* The id the next Load asks for.
Wanted == want[Len(loaded) + 1]

\* Load: SELECT ... FROM runs WHERE id = ?, the transaction's first read.
LoadRun ==
  /\ dpc = "loadRun"
  /\ \/ /\ \E r \in runs : r.id = Wanted
        /\ snap' = rows
        /\ loaded' = Append(loaded, [row |-> CHOOSE r \in runs : r.id = Wanted,
                                     found |-> {}])
        /\ dpc' = "loadActions"
        /\ UNCHANGED said
     \/ /\ \A r \in runs : r.id # Wanted
        /\ Say("no run")
        /\ UNCHANGED <<snap, loaded>>
  /\ UNCHANGED <<ask, want, due>>

\* Mutant of Seen: the second query runs outside the transaction.
Seen_LastCommit == rows

\* The action rows Load's second query sees.
Seen == snap

\* Load: SELECT ... FROM actions WHERE run_id = ?, and COMMIT.
LoadActions ==
  /\ dpc = "loadActions"
  /\ LET n == Len(loaded)
         found == {x.idx : x \in {y \in Seen : y.run = loaded[n].row.id}}
     IN  /\ loaded' = [loaded EXCEPT ![n].found = found]
         /\ dpc' = IF n = 1 THEN "loadRun" ELSE "verdict"
  /\ snap' = {}
  /\ UNCHANGED <<ask, want, said, due>>

\* The scope checks, the comparison and the gate.  Whether the work grew too
\* much is report.Gate's answer; a failed build has none.
Verdict ==
  /\ dpc = "verdict"
  /\ LET rs == {loaded[1].row, loaded[2].row}
     IN  IF \E r \in rs : r.scope # ask.scope THEN Say("different scope")
         ELSE IF ~ask.gate THEN Say("compared")
         ELSE IF \E r \in rs : r.exit # 0 THEN Say("gate skipped")
         ELSE \E words \in {"gate passed", "gate failed"} : Say(words)
  /\ UNCHANGED <<ask, want, snap, loaded, due>>

\* A store call of the diff fails, and longpole exits.
DiffError ==
  /\ dpc \in {"recent", "loadRun", "loadActions"}
  /\ Say("error")
  /\ snap' = {}
  /\ UNCHANGED <<ask, want, loaded, due>>

NoAsk == [scope |-> None, latest |-> FALSE, gate |-> FALSE]

\* The process is gone and the next diff may start.
Exit ==
  /\ dpc = "done"
  /\ dpc' = "idle"
  /\ ask' = NoAsk
  /\ want' = <<0, 0>>
  /\ loaded' = <<>>
  /\ said' = ""
  /\ due' = {}
  /\ UNCHANGED snap

-----------------------------------------------------------------------------
DiffInit ==
  /\ Init
  /\ dpc = "idle"
  /\ ask = NoAsk
  /\ want = <<0, 0>>
  /\ snap = {}
  /\ loaded = <<>>
  /\ said = ""
  /\ due = {}

DiffStep ==
  Ask \/ Recent \/ LoadRun \/ LoadActions \/ Verdict \/ DiffError \/ Exit

\* The builds Recent chose that enough newer ones supersede now.
Overdue ==
  {h.id : h \in {g \in LoadedHistory : /\ ask.latest
                                       /\ g.id \in {want[1], want[2]}
                                       /\ History!Superseded(g)}}

DiffNext ==
  \/ Next /\ UNCHANGED dlocals /\ due' = due \cup Overdue
  \/ DiffStep /\ UNCHANGED vars

DiffSpec == DiffInit /\ [][DiffNext]_<<vars, dvars>>

-----------------------------------------------------------------------------
\* Every variable of the diff holds a value of its kind, and the builds loaded
\* are those asked for, in that order.
DiffTypeOK ==
  /\ dpc \in {"idle", "recent", "loadRun", "loadActions", "verdict", "done"}
  /\ ask \in Asks \cup {NoAsk}
  /\ want \in (0..MaxId) \X (0..MaxId)
  /\ snap \subseteq ActionRows
  /\ loaded \in Seq([row : RunRows, found : SUBSET Nat])
  /\ Len(loaded) <= 2
  /\ \A i \in DOMAIN loaded : loaded[i].row.id = want[i]
  /\ due \subseteq {want[1], want[2]}

\* Both builds of a comparison are compared with all of their actions, though
\* either may be pruned between Load's two queries, or between the two Loads.
ComparesWholeBuilds ==
  dpc = "verdict" =>
    \A i \in 1..2 : loaded[i].found = 0..(loaded[i].row.acts - 1)

\* Without ids the diff compares builds of one command in the scope it runs
\* in, the older one first, and no such build was recorded in between: the
\* comparison shows one change of the code, not several.
ComparesNeighbours ==
  dpc = "verdict" /\ ask.latest =>
    LET before == loaded[1].row
        after == loaded[2].row
    IN  /\ before.scope = ask.scope /\ after.scope = ask.scope
        /\ before.command = after.command
        /\ before.id < after.id
        /\ \A r \in runs : r.scope = after.scope /\ r.command = after.command =>
             ~ (before.id < r.id /\ r.id < after.id)

\* A diff without ids that finds one of its builds missing (exit 1, which a
\* gate's caller takes for a regression) lost it to a prune: enough newer builds
\* had superseded it by then, though later prunes may have left fewer of them.
MissesOnlySuperseded ==
  dpc = "done" /\ said = "no run" /\ ask.latest => Wanted \in due
=============================================================================
