----------------------------- MODULE RunHistory -----------------------------
(***************************************************************************)
(* What longpole's run store promises its callers, said without the        *)
(* database: a history of whole builds.  A build enters the history in one *)
(* step, with all of its actions and an identifier larger than every       *)
(* earlier one; it leaves the history only when enough newer builds have   *)
(* superseded it.  RunStore refines this module.                           *)
(***************************************************************************)
EXTENDS Naturals, FiniteSets

CONSTANTS
  Jobs,        \* what a build records: scope, command, number of actions
  Keep,        \* builds kept per scope
  KeepGlobal   \* builds kept over all scopes

VARIABLES
  history,     \* the builds a reader can load
  last         \* the identifier given out last

hvars == <<history, last>>

Init ==
  /\ history = {}
  /\ last = 0

\* The whole build: a reader that finds it finds every one of its actions.
Whole(job, i) ==
  [id |-> i, scope |-> job.scope, command |-> job.command,
   acts |-> job.acts, exit |-> job.exit, found |-> 0..(job.acts - 1)]

Record ==
  /\ last' = last + 1
  /\ \E job \in Jobs : history' = history \cup {Whole(job, last + 1)}

Newer(r, S) == {q \in S : q.id > r.id}

Superseded(r) ==
  \/ Cardinality(Newer(r, {q \in history : q.scope = r.scope})) >= Keep
  \/ Cardinality(Newer(r, history)) >= KeepGlobal

Forget ==
  /\ history' \subseteq history
  /\ \A r \in history \ history' : Superseded(r)
  /\ UNCHANGED last

Next == Record \/ Forget

Spec == Init /\ [][Next]_hvars
=============================================================================
