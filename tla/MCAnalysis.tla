----------------------------- MODULE MCAnalysis -----------------------------
(***************************************************************************)
(* CritPath, DiffReport and BuildTimes in one run.  They share no state: a *)
(* behaviour is of one of them, while the others have been given a build   *)
(* of no actions and have finished.                                        *)
(***************************************************************************)
EXTENDS CritPath, DiffReport, BuildTimes

CONSTANTS q, p, ptest, plink  \* p and its test variant depend on q

(* Variants *)
MCPackage == [v \in {q, p, ptest, plink} |-> IF v = q THEN "q" ELSE "p"]
MCMode == [v \in {q, p, ptest, plink} |-> IF v = plink THEN "link" ELSE "build"]
MCDeps ==
  [v \in {q, p, ptest, plink} |->
     CASE v = q -> {} [] v = plink -> {p} [] OTHER -> {q}]

(* Graphs.  The order in which walk looks at dependencies is free, so a      *)
(* graph stands for all that differ in it.                                 *)

\* Any graph on all actions but the last, with at most one action that
\* depends on itself; the last depends on the first and out of range.
Loops ==
  {[deps |-> [i \in Acts |-> IF i = N THEN {0, 1} ELSE d[i]],
    work |-> [i \in Acts |-> IF i = N THEN 0 ELSE w[i]]] :
     d \in {d \in [1..(N - 1) -> SUBSET (1..(N - 1))] :
              Cardinality({i \in 1..(N - 1) : i \in d[i]}) <= 1},
     w \in [1..(N - 1) -> 0..2]}

\* Graphs without cycles, root first as the go command writes them, and leaf
\* first.
Dags ==
  [deps : {d \in [Acts -> SUBSET Acts] :
             \/ \A i \in Acts : \A j \in d[i] : j < i
             \/ \A i \in Acts : \A j \in d[i] : j > i},
   work : [Acts -> 0..2]]

MCGraphs == Loops \cup Dags

NoGraph == [deps |-> [i \in Acts |-> {}], work |-> [i \in Acts |-> 0]]

(* Tasks: 2 and 3 wait for 1, and the test 4 for 2                          *)
MCWaits ==
  [t \in Tasks |-> CASE t = 1 -> {} [] t = 4 -> {2} [] OTHER -> {1}]
MCKindOf ==
  [t \in Tasks |->
     CASE t = 3 -> "vet" [] t = 4 -> "test" [] OTHER -> "compile"]
-----------------------------------------------------------------------------
NoFind == Analyses(NoGraph) /\ Nothing /\ doing = "counted"
NoDiff == NoBuilds /\ made = 2
NoTimes == NotRun /\ exitedAt = 1

Init ==
  \/ CritInit /\ NoDiff /\ NoTimes
  \/ DiffInit /\ NoFind /\ NoTimes
  \/ TimesInit /\ NoFind /\ NoDiff

CritOnly == CritNext /\ UNCHANGED <<diffVars, timeVars>>

Next ==
  \/ CritOnly
  \/ DiffNext /\ UNCHANGED <<critVars, timeVars>>
  \/ TimesNext /\ UNCHANGED <<critVars, diffVars>>

Spec == Init /\ [][Next]_<<critVars, diffVars, timeVars>> /\ WF_critVars(CritOnly)
-----------------------------------------------------------------------------
\* The types of all three.
AnalysisTypeOK == CritTypeOK /\ DiffReportTypeOK /\ TimesTypeOK
=============================================================================
