------------------------------ MODULE CritPath ------------------------------
(***************************************************************************)
(* What the report computes from one action graph (internal/critpath):     *)
(* Find, the heaviest chain of dependent work, by a memoised depth-first   *)
(* walk; and BlastRadiusFor, how many actions depend on one.  The graph is *)
(* what a file says it is, so nothing promises that it has no cycle.       *)
(***************************************************************************)
EXTENDS Integers, FiniteSets, Sequences

CONSTANTS
  N,       \* actions of a graph
  Graphs   \* graphs: the dependencies of each action, 0 for an index out of
           \* range, and its work, 0 when it was cached

Acts == 1..N

ASSUME GraphAssumption ==
  /\ N \in Nat
  /\ \A g \in Graphs :
       g.deps \in [Acts -> SUBSET (Acts \cup {0})] /\ g.work \in [Acts -> Nat]

VARIABLES
  deps,     \* acts[i].Deps
  work,     \* acts[i].WorkNs
  state,    \* Find's state: "unvisited", "in progress" or "done"
  cost,     \* heaviest chain ending at i
  next,     \* the dependency that chain continues into, 0 for none
  stack,    \* the calls of walk in progress, the innermost first
  visiting, \* Find's loop over the actions, then over the path
  start,    \* the action with the heaviest chain
  total,    \* and its cost
  path,     \* Find's result, leaf first
  root,     \* the action BlastRadiusFor counts for
  seen,     \* BlastRadiusFor's seen
  unpopped, \* BlastRadiusFor's stack
  radius,   \* BlastRadiusFor's out[root]
  doing     \* "nothing", "walk", "collect", "count", "found", "counted"

inputs == <<deps, work>>
walkVars == <<state, cost, next, stack, visiting, start, total, path>>
blastVars == <<root, seen, unpopped, radius>>
critVars == <<inputs, walkVars, blastVars, doing>>
-----------------------------------------------------------------------------
Nothing ==
  /\ state = [i \in Acts |-> "unvisited"]
  /\ cost = [i \in Acts |-> 0]
  /\ next = [i \in Acts |-> 0]
  /\ stack = <<>> /\ path = <<>>
  /\ visiting = 1 /\ start = 1 /\ total = 0
  /\ root = 0 /\ radius = 0 /\ seen = {} /\ unpopped = {}

Analyses(g) == deps = g.deps /\ work = g.work

CritInit == (\E g \in Graphs : Analyses(g)) /\ Nothing /\ doing = "nothing"

InRange(ds) == ds \cap Acts

(* Find                                                                    *)

Find ==
  /\ doing = "nothing"
  /\ doing' = "walk"
  /\ UNCHANGED <<inputs, walkVars, blastVars>>

\* A call of walk, at its loop over the dependencies still to look at.
Call(i) == [at |-> i, todo |-> InRange(deps[i]), best |-> 0, bestDep |-> 0]

\* Mutant of Entered: a call in progress is no obstacle.
Entered_Done(i) == state[i] = "done"

\* walk(i) returns at once.
Entered(i) == state[i] # "unvisited"

\* Mutant of Answer: a back edge contributes what is known so far.
Answer_Work(i) == IF state[i] = "done" THEN cost[i] ELSE work[i]

\* What it returns.
Answer(i) == IF state[i] = "done" THEN cost[i] ELSE 0

Enter(i) ==
  /\ ~Entered(i)
  /\ state' = [state EXCEPT ![i] = "in progress"]
  /\ stack' = <<Call(i)>> \o stack

\* Mutant of Rest: the dependency is looked at again.
Rest_Again(todo, d) == todo

Rest(todo, d) == todo \ {d}

\* Mutant of Better: the last dependency wins.
Better_Last(c, best) == c > 0

Better(c, best) == c > best

\* The loop of call f is told c for its dependency d.
Told(f, d, c) ==
  [at |-> f.at,
   todo |-> Rest(f.todo, d),
   best |-> IF Better(c, f.best) THEN c ELSE f.best,
   bestDep |-> IF Better(c, f.best) THEN d ELSE f.bestDep]

\* The innermost call looks at a dependency.
Look(d) ==
  /\ stack # <<>> /\ d \in Head(stack).todo
  /\ \/ Enter(d)
     \/ /\ Entered(d)
        /\ stack' = <<Told(Head(stack), d, Answer(d))>> \o Tail(stack)
        /\ UNCHANGED state
  /\ UNCHANGED <<inputs, blastVars, cost, next, visiting, start, total, path, doing>>

\* It has looked at all of them and returns to its caller.
Return ==
  /\ stack # <<>> /\ Head(stack).todo = {}
  /\ LET f == Head(stack)
         callers == Tail(stack)
     IN  /\ cost' = [cost EXCEPT ![f.at] = work[f.at] + f.best]
         /\ next' = [next EXCEPT ![f.at] = f.bestDep]
         /\ state' = [state EXCEPT ![f.at] = "done"]
         /\ stack' = IF callers = <<>> THEN <<>>
                     ELSE <<Told(Head(callers), f.at, cost'[f.at])>> \o Tail(callers)
  /\ UNCHANGED <<inputs, blastVars, visiting, start, total, path, doing>>

Starts(i) == cost[i] > total

\* Find's loop: walk from each action in turn.
Visit ==
  /\ doing = "walk" /\ stack = <<>> /\ visiting <= N
  /\ \/ /\ Enter(visiting)
        /\ UNCHANGED <<visiting, start, total>>
     \/ /\ Entered(visiting)
        /\ start' = IF Starts(visiting) THEN visiting ELSE start
        /\ total' = IF Starts(visiting) THEN cost[visiting] ELSE total
        /\ visiting' = visiting + 1
        /\ UNCHANGED <<state, stack>>
  /\ UNCHANGED <<inputs, blastVars, cost, next, path, doing>>

Walked ==
  /\ doing = "walk" /\ stack = <<>> /\ visiting > N
  /\ visiting' = IF total = 0 THEN 0 ELSE start
  /\ doing' = "collect"
  /\ UNCHANGED <<inputs, blastVars, state, cost, next, stack, start, total, path>>

\* The path, an action at a time.
Collect ==
  /\ doing = "collect"
  /\ \/ /\ visiting # 0
        /\ path' = <<visiting>> \o path
        /\ visiting' = next[visiting]
        /\ UNCHANGED doing
     \/ /\ visiting = 0
        /\ doing' = "found"
        /\ UNCHANGED <<path, visiting>>
  /\ UNCHANGED <<inputs, blastVars, state, cost, next, stack, start, total>>

(* BlastRadiusFor                                                          *)

Dependents(d) == {i \in Acts : d \in InRange(deps[i])}

\* Mutant of Marked: the action asked about is not marked as seen.
Marked_Nobody(i) == {}

\* What is seen before the count begins.
Marked(i) == {i}

BlastRadiusFor(i) ==
  /\ doing = "nothing"
  /\ doing' = "count"
  /\ root' = i
  /\ seen' = Marked(i)
  /\ unpopped' = {i}
  /\ UNCHANGED <<inputs, walkVars, radius>>

\* Pops an action and counts those of its dependents not seen before.
Pop(i) ==
  /\ doing = "count" /\ i \in unpopped
  /\ LET new == Dependents(i) \ seen
     IN  /\ seen' = seen \cup new
         /\ unpopped' = (unpopped \ {i}) \cup new
         /\ radius' = radius + Cardinality(new)
  /\ UNCHANGED <<inputs, walkVars, root, doing>>

Counted ==
  /\ doing = "count" /\ unpopped = {}
  /\ doing' = "counted"
  /\ UNCHANGED <<inputs, walkVars, blastVars>>

CritNext ==
  \/ Find \/ Visit \/ Return \/ Walked \/ Collect \/ Counted
  \/ \E i \in Acts : Look(i) \/ BlastRadiusFor(i) \/ Pop(i)

CritSpec == CritInit /\ [][CritNext]_critVars

\* The functions are sequential and wait for nothing.
FairCritSpec == CritSpec /\ WF_critVars(CritNext)
-----------------------------------------------------------------------------
Calls == [at : Acts, todo : SUBSET Acts, best : Nat, bestDep : Acts \cup {0}]

\* "In progress is how a cyclic graph is made to terminate" (Find's comment):
\* no action is being walked twice at once, so the recursion is no deeper than
\* the graph.
WalkIsSimple ==
  \A j, k \in DOMAIN stack : stack[j].at = stack[k].at => j = k

\* The types, and the marks: an action is in progress exactly while a call of
\* walk for it is on the stack, and one only.
CritTypeOK ==
  /\ deps \in [Acts -> SUBSET (Acts \cup {0})] /\ work \in [Acts -> Nat]
  /\ state \in [Acts -> {"unvisited", "in progress", "done"}]
  /\ cost \in [Acts -> Nat] /\ next \in [Acts -> Acts \cup {0}]
  /\ stack \in Seq(Calls) /\ WalkIsSimple
  /\ {f.at : f \in {stack[k] : k \in DOMAIN stack}} =
       {i \in Acts : state[i] = "in progress"}
  /\ visiting \in 0..(N + 1) /\ total \in Nat
  /\ {root, start} \subseteq Acts \cup {0, 1}
  /\ path \in Seq(Acts)
  /\ seen \subseteq Acts /\ unpopped \subseteq Acts /\ radius \in 0..N
  /\ doing \in {"nothing", "walk", "collect", "count", "found", "counted"}

\* A chain of dependencies, leaf first, that meets no action twice.
IsChain(s) ==
  /\ \A k \in 1..(Len(s) - 1) : s[k] \in deps[s[k + 1]]
  /\ \A j, k \in DOMAIN s : s[j] = s[k] => j = k

Weight(s) ==
  LET w[k \in 0..Len(s)] == IF k = 0 THEN 0 ELSE w[k - 1] + work[s[k]]
  IN  w[Len(s)]

\* Every sequence of actions without repetition.
Simple ==
  {s \in UNION {[1..k -> Acts] : k \in 0..N} :
     \A j, k \in DOMAIN s : s[j] = s[k] => j = k}

\* What depends on i, itself included when it is on a cycle: the least set
\* that has i's dependents and theirs, reached in N steps.
Above(i) ==
  LET up[k \in 1..N] ==
        IF k = 1 THEN Dependents(i)
        ELSE up[k - 1] \cup UNION {Dependents(j) : j \in up[k - 1]}
  IN  up[N]

Acyclic == \A i \in Acts : i \notin Above(i)

\* What Find returns is a chain of dependencies that repeats no action, its
\* total is the work along it, and no action by itself is heavier -- whatever
\* the graph, cycles included, and whatever the order of the dependencies.
PathIsAChain ==
  doing \in {"collect", "found"} =>
    /\ IsChain(path)
    /\ doing = "found" =>
         /\ Weight(path) = total
         /\ \A i \in Acts : work[i] <= total

\* "The longest chain of dependent work, the floor on build time" (package
\* comment): no chain of a graph without cycles is heavier than Find's, which
\* the memoisation, the order of the walk or a cached action could break.
FindsHeaviest ==
  doing = "found" /\ Acyclic =>
    \A s \in Simple : IsChain(s) => Weight(s) <= total

\* "How many other actions depend on it transitively" (BlastRadius): each one
\* is counted once whatever the number of ways it depends on root, and root
\* itself never, even on a cycle.
BlastIsReach ==
  doing = "counted" => radius = Cardinality(Above(root) \ {root})

\* Both functions end, on every graph.
AnalysisEnds == <>(doing \in {"found", "counted"})
=============================================================================
