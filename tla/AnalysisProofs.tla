--------------------------- MODULE AnalysisProofs ---------------------------
(***************************************************************************)
(* Theorems about the analyses of a build: the walk of CritPath and its    *)
(* count of dependents on every graph, the lists DiffReport makes of any   *)
(* two builds, and what the times BuildTimes reports are bounds for.       *)
(*                                                                         *)
(* The argument for the walk: what is done is linked to what was done      *)
(* before it, so that the links have a rank that falls along them; the     *)
(* path follows the links, so it repeats no action, even on a graph with   *)
(* cycles, and its cost is the work along it.                              *)
(***************************************************************************)
EXTENDS MCAnalysis, NaturalFacts, SequenceTheorems, FiniteSetTheorems

Done(i) == state[i] = "done"

\* Types.
CritKind ==
  /\ deps \in [Acts -> SUBSET (Acts \cup {0})] /\ work \in [Acts -> Nat]
  /\ state \in [Acts -> {"unvisited", "in progress", "done"}]
  /\ cost \in [Acts -> Nat] /\ next \in [Acts -> Acts \cup {0}]
  /\ stack \in Seq(Calls)
  /\ visiting \in 0..(N + 1) /\ total \in Nat
  /\ root \in Acts \cup {0} /\ start \in Acts \cup {1}
  /\ path \in Seq(Acts)
  /\ seen \subseteq Acts /\ unpopped \subseteq Acts /\ radius \in Nat
  /\ doing \in {"nothing", "walk", "collect", "count", "found", "counted"}

\* Who uses which part of the state when.
PhaseInv ==
  /\ doing = "nothing" => visiting = 1
  /\ doing = "walk" => visiting # 0
  /\ doing # "walk" => stack = <<>>
  /\ doing = "found" => visiting = 0
  /\ doing \in {"collect", "found"} => visiting # N + 1
  /\ doing \notin {"collect", "found"} => path = <<>>
  /\ doing \notin {"count", "counted"} => radius = 0

\* What a call in progress has been told so far.
Framed(f) ==
  /\ f.todo \subseteq deps[f.at]
  /\ f.bestDep = 0 => f.best = 0
  /\ f.bestDep # 0 => /\ f.bestDep \in deps[f.at] /\ Done(f.bestDep)
                      /\ f.best = cost[f.bestDep]

\* The calls in progress: of each action one, each made by the one after it
\* for a dependency.
StackInv ==
  /\ \A j, k \in DOMAIN stack : stack[j].at = stack[k].at => j = k
  /\ \A k \in DOMAIN stack : state[stack[k].at] = "in progress"
  /\ \A i \in Acts : state[i] = "in progress" => \E k \in DOMAIN stack : stack[k].at = i
  /\ \A k \in 1..(Len(stack) - 1) : stack[k].at \in deps[stack[k + 1].at]
  /\ \A k \in DOMAIN stack : Framed(stack[k])

\* What is done is linked to what was done before it.
LinkInv ==
  \A i \in Acts : Done(i) =>
    IF next[i] = 0 THEN cost[i] = work[i]
    ELSE next[i] \in deps[i] /\ Done(next[i]) /\ cost[i] = work[i] + cost[next[i]]

\* rank falls along the links, and the path climbs it.
Falls(rank) ==
  /\ \A i \in Acts : Done(i) /\ next[i] # 0 => rank[next[i]] < rank[i]
  /\ \A j, k \in DOMAIN path : j < k => rank[path[j]] < rank[path[k]]
  /\ path # <<>> /\ visiting # 0 =>
       \A k \in DOMAIN path : rank[visiting] < rank[path[k]]

Ranks == [Acts -> Nat]
RankInv == \E rank \in Ranks : Falls(rank)

\* The heaviest of what has been visited.
TotalInv ==
  /\ doing = "walk" => \A i \in 1..(visiting - 1) : Done(i) /\ cost[i] <= total
  /\ doing \in {"collect", "found"} => \A i \in Acts : Done(i) /\ cost[i] <= total
  /\ total # 0 => start \in Acts /\ Done(start) /\ cost[start] = total

PathInv ==
  doing \in {"collect", "found"} =>
    /\ \A k \in 1..(Len(path) - 1) : next[path[k + 1]] = path[k]
    /\ IF path = <<>> THEN visiting = (IF total = 0 THEN 0 ELSE start)
       ELSE next[path[1]] = visiting /\ path[Len(path)] = start /\ total # 0

\* Without cycles, nothing that was looked at was in progress.
HeaviestInv ==
  Acyclic =>
    /\ \A i \in Acts : Done(i) =>
         \A d \in InRange(deps[i]) : Done(d) /\ work[i] + cost[d] <= cost[i]
    /\ \A k \in DOMAIN stack :
         \A d \in InRange(deps[stack[k].at]) \ stack[k].todo :
           Done(d) /\ cost[d] <= stack[k].best

WalkInv ==
  CritKind /\ PhaseInv /\ StackInv /\ LinkInv /\ RankInv /\ TotalInv /\ PathInv

\* What is seen depends on root, and of what is popped all dependents are seen.
BlastInv ==
  doing \in {"count", "counted"} =>
    /\ root \in Acts /\ root \in seen /\ unpopped \subseteq seen
    /\ seen \ {root} \subseteq Above(root)
    /\ \A i \in seen \ unpopped : Dependents(i) \subseteq seen
    /\ radius = Cardinality(seen \ {root})
    /\ doing = "counted" => unpopped = {}

CritInv == WalkInv /\ HeaviestInv /\ BlastInv
-----------------------------------------------------------------------------
(* Sequences used as stacks, the top first.                                *)

\* What a stack, a sequence over S, is made of.
LEMMA Stacked ==
  ASSUME NEW S, NEW s \in Seq(S)
  PROVE  /\ Len(s) \in Nat /\ DOMAIN s = 1..Len(s)
         /\ \A k \in 1..Len(s) : s[k] \in S
         /\ s # <<>> => Len(s) > 0 /\ Head(s) = s[1] /\ s[1] \in S
         /\ s = <<>> => Len(s) = 0
<1>1. Len(s) \in Nat /\ DOMAIN s = 1..Len(s) /\ \A k \in 1..Len(s) : s[k] \in S
  OBVIOUS
<1>2. s # <<>> => Len(s) > 0 /\ Head(s) = s[1]
  BY EmptySeq
<1>3. s = <<>> => Len(s) = 0
  OBVIOUS
<1> QED
  BY <1>1, <1>2, <1>3

\* Pushing puts x first and moves the rest one place.
LEMMA Pushed ==
  ASSUME NEW S, NEW s \in Seq(S), NEW x \in S
  PROVE  LET t == <<x>> \o s
         IN  /\ t \in Seq(S) /\ Len(t) = Len(s) + 1 /\ DOMAIN t = 1..(Len(s) + 1)
             /\ t[1] = x /\ \A k \in 1..Len(s) : t[k + 1] = s[k]
<1> DEFINE t == <<x>> \o s
           u == <<x>>
<1>1. u \in Seq(S) /\ Len(u) = 1 /\ u[1] = x /\ Len(s) \in Nat
  OBVIOUS
<1>2. t = u \o s
  OBVIOUS
<1> HIDE DEF t, u
<1>3. /\ t \in Seq(S) /\ Len(t) = 1 + Len(s)
      /\ \A i \in 1..(1 + Len(s)) : t[i] = IF i <= 1 THEN u[i] ELSE s[i - 1]
  <2>1. /\ t \in Seq(S) /\ Len(t) = Len(u) + Len(s)
        /\ \A i \in 1..(Len(u) + Len(s)) :
             t[i] = IF i <= Len(u) THEN u[i] ELSE s[i - Len(u)]
    BY <1>1, <1>2, ConcatProperties
  <2> QED
    BY <1>1, <2>1
<1>4. t[1] = x
  BY <1>1, <1>3
<1>5. \A k \in 1..Len(s) : t[k + 1] = s[k]
  BY <1>1, <1>3
<1>6. DOMAIN t = 1..(Len(s) + 1) /\ Len(t) = Len(s) + 1
  BY <1>1, <1>3
<1> QED
  BY <1>3, <1>4, <1>5, <1>6 DEF t

\* The top is replaced.
LEMMA Replaced ==
  ASSUME NEW S, NEW s \in Seq(S), NEW x \in S, s # <<>>
  PROVE  LET t == <<x>> \o Tail(s)
         IN  /\ t \in Seq(S) /\ Len(t) = Len(s) /\ DOMAIN t = DOMAIN s
             /\ t[1] = x /\ \A k \in 2..Len(s) : t[k] = s[k]
<1> DEFINE r == Tail(s)
           t == <<x>> \o r
<1>1. /\ r \in Seq(S) /\ Len(r) = Len(s) - 1 /\ Len(s) \in Nat /\ Len(s) > 0
      /\ \A i \in 1..Len(r) : r[i] = s[i + 1]
  BY HeadTailProperties
<1> HIDE DEF r
<1>2. /\ t \in Seq(S) /\ Len(t) = Len(r) + 1 /\ DOMAIN t = 1..(Len(r) + 1)
      /\ t[1] = x /\ \A k \in 1..Len(r) : t[k + 1] = r[k]
  BY <1>1, Pushed
<1> HIDE DEF t
<1>3. Len(t) = Len(s) /\ DOMAIN t = DOMAIN s
  BY <1>1, <1>2
<1>4. ASSUME NEW k \in 2..Len(s) PROVE t[k] = s[k]
  <2>1. k - 1 \in 1..Len(r) /\ k - 1 + 1 = k
    BY <1>1
  <2> QED
    BY <1>1, <1>2, <2>1
<1> QED
  BY <1>2, <1>3, <1>4 DEF t, r

\* The top is taken away and the one below it replaced.
LEMMA Popped ==
  ASSUME NEW S, NEW s \in Seq(S), NEW x \in S, s # <<>>, Tail(s) # <<>>
  PROVE  LET t == <<x>> \o Tail(Tail(s))
         IN  /\ t \in Seq(S) /\ Len(t) = Len(s) - 1 /\ Len(s) > 1
             /\ t[1] = x /\ \A k \in 2..(Len(s) - 1) : t[k] = s[k + 1]
             /\ DOMAIN t = 1..(Len(s) - 1) /\ Head(Tail(s)) = s[2]
<1> DEFINE r == Tail(s)
<1>1. /\ r \in Seq(S) /\ Len(r) = Len(s) - 1 /\ Len(s) \in Nat /\ Len(r) > 0
      /\ \A i \in 1..Len(r) : r[i] = s[i + 1]
  <2>1. /\ r \in Seq(S) /\ Len(r) = Len(s) - 1 /\ Len(s) \in Nat
        /\ \A i \in 1..Len(r) : r[i] = s[i + 1]
    BY HeadTailProperties
  <2> QED
    BY <2>1, EmptySeq
<1> DEFINE t == <<x>> \o Tail(r)
<1>2. r # <<>>
  OBVIOUS
<1>3. Head(Tail(s)) = s[2]
  BY <1>1
<1> HIDE DEF r
<1>4. /\ t \in Seq(S) /\ Len(t) = Len(r) /\ DOMAIN t = DOMAIN r
      /\ t[1] = x /\ \A k \in 2..Len(r) : t[k] = r[k]
  BY <1>1, <1>2, Replaced
<1> HIDE DEF t
<1>5. Len(s) > 1 /\ Len(t) = Len(s) - 1 /\ DOMAIN t = 1..(Len(s) - 1)
  BY <1>1, <1>4
<1>6. \A k \in 2..(Len(s) - 1) : t[k] = s[k + 1]
  BY <1>1, <1>4
<1> QED
  BY <1>3, <1>4, <1>5, <1>6 DEF t, r
-----------------------------------------------------------------------------
(* The steps of the walk.                                                  *)

\* Actions are numbered from 1; 0 stands for none.
LEMMA ActsAre == Acts \subseteq Nat \ {0} /\ 0 \notin Acts /\ N \in Nat
BY GraphAssumption DEF Acts

\* walk(i) begins with all of i's dependencies to look at and no best.
LEMMA CallIs ==
  ASSUME CritKind, NEW i \in Acts
  PROVE  /\ Call(i) \in Calls /\ Call(i).at = i
         /\ Call(i).todo \subseteq deps[i] /\ Call(i).todo = InRange(deps[i])
         /\ Call(i).best = 0 /\ Call(i).bestDep = 0
BY DEF CritKind, Call, Calls, InRange

\* A call takes an answer as its best only if it is greater.
LEMMA ToldIs ==
  ASSUME NEW f \in Calls, NEW d \in Acts, NEW c \in Nat
  PROVE  LET g == Told(f, d, c)
         IN  /\ g \in Calls /\ g.at = f.at /\ g.todo = f.todo \ {d}
             /\ c > f.best => g.best = c /\ g.bestDep = d
             /\ ~ (c > f.best) => g.best = f.best /\ g.bestDep = f.bestDep
<1>1. Told(f, d, c) = [at |-> f.at, todo |-> f.todo \ {d},
                       best |-> IF c > f.best THEN c ELSE f.best,
                       bestDep |-> IF c > f.best THEN d ELSE f.bestDep]
  BY DEF Told, Rest, Better
<1> QED
  BY <1>1 DEF Calls

\* A call is pushed.
LEMMA Entering ==
  ASSUME CritKind, NEW i \in Acts, Enter(i)
  PROVE  /\ state[i] = "unvisited" /\ state' = [state EXCEPT ![i] = "in progress"]
         /\ stack' \in Seq(Calls) /\ Len(stack) \in Nat
         /\ Len(stack') = Len(stack) + 1 /\ DOMAIN stack' = 1..(Len(stack) + 1)
         /\ DOMAIN stack = 1..Len(stack)
         /\ stack'[1] = Call(i)
         /\ \A k \in 1..Len(stack) : stack'[k + 1] = stack[k]
         /\ \A k \in 1..Len(stack) : stack[k] \in Calls
<1>1. stack \in Seq(Calls) /\ Call(i) \in Calls
  BY CallIs DEF CritKind
<1>2. stack' = <<Call(i)>> \o stack
  BY DEF Enter
<1>3. /\ stack' \in Seq(Calls) /\ Len(stack') = Len(stack) + 1
      /\ DOMAIN stack' = 1..(Len(stack) + 1)
      /\ stack'[1] = Call(i) /\ \A k \in 1..Len(stack) : stack'[k + 1] = stack[k]
  BY <1>1, <1>2, Pushed
<1>4. Len(stack) \in Nat /\ DOMAIN stack = 1..Len(stack)
      /\ \A k \in 1..Len(stack) : stack[k] \in Calls
  BY <1>1
<1> QED
  BY <1>3, <1>4 DEF Enter, Entered

\* The innermost call is told what a dependency costs that is not to be entered.
LEMMA Telling ==
  ASSUME CritKind, NEW d \in Acts, stack # <<>>,
         stack' = <<Told(Head(stack), d, Answer(d))>> \o Tail(stack)
  PROVE  /\ stack' \in Seq(Calls) /\ Len(stack') = Len(stack)
         /\ DOMAIN stack' = DOMAIN stack /\ DOMAIN stack = 1..Len(stack)
         /\ Len(stack) \in Nat /\ Len(stack) > 0
         /\ Answer(d) \in Nat
         /\ stack'[1] = Told(stack[1], d, Answer(d)) /\ stack[1] \in Calls
         /\ Head(stack) = stack[1]
         /\ \A k \in 2..Len(stack) : stack'[k] = stack[k]
         /\ \A k \in 1..Len(stack) : stack[k] \in Calls
<1>1. /\ stack \in Seq(Calls) /\ Len(stack) \in Nat /\ Len(stack) > 0
      /\ DOMAIN stack = 1..Len(stack) /\ Head(stack) = stack[1]
      /\ \A k \in 1..Len(stack) : stack[k] \in Calls
  BY Stacked DEF CritKind
<1>2. Answer(d) \in Nat
  BY DEF CritKind, Answer
<1>3. stack[1] \in Calls /\ Told(stack[1], d, Answer(d)) \in Calls
  BY <1>1, <1>2, ToldIs
<1>4. /\ stack' \in Seq(Calls) /\ Len(stack') = Len(stack)
      /\ DOMAIN stack' = DOMAIN stack
      /\ stack'[1] = Told(stack[1], d, Answer(d))
      /\ \A k \in 2..Len(stack) : stack'[k] = stack[k]
  BY <1>1, <1>3, Replaced
<1> QED
  BY <1>1, <1>2, <1>3, <1>4

\* A call returns: its action is done, and its caller is told.
LEMMA Returning ==
  ASSUME CritKind, Return
  PROVE  /\ Len(stack) \in Nat /\ Len(stack) > 0 /\ DOMAIN stack = 1..Len(stack)
         /\ \A k \in 1..Len(stack) : stack[k] \in Calls
         /\ stack[1].todo = {}
         /\ cost' = [cost EXCEPT ![stack[1].at] = work[stack[1].at] + stack[1].best]
         /\ next' = [next EXCEPT ![stack[1].at] = stack[1].bestDep]
         /\ state' = [state EXCEPT ![stack[1].at] = "done"]
         /\ cost'[stack[1].at] = work[stack[1].at] + stack[1].best
         /\ cost'[stack[1].at] \in Nat
         /\ stack' \in Seq(Calls) /\ Len(stack') = Len(stack) - 1
         /\ DOMAIN stack' = 1..(Len(stack) - 1)
         /\ Len(stack) > 1 => stack'[1] = Told(stack[2], stack[1].at, cost'[stack[1].at])
         /\ \A k \in 2..(Len(stack) - 1) : stack'[k] = stack[k + 1]
<1>1. /\ stack \in Seq(Calls) /\ Len(stack) \in Nat /\ Len(stack) > 0
      /\ DOMAIN stack = 1..Len(stack) /\ Head(stack) = stack[1]
      /\ \A k \in 1..Len(stack) : stack[k] \in Calls
      /\ stack # <<>>
  <2>1. stack \in Seq(Calls) /\ stack # <<>>
    BY DEF CritKind, Return
  <2> QED
    BY <2>1, Stacked
<1>2. stack[1] \in Calls
  BY <1>1
<1>3. /\ stack[1].todo = {}
      /\ cost' = [cost EXCEPT ![stack[1].at] = work[stack[1].at] + stack[1].best]
      /\ next' = [next EXCEPT ![stack[1].at] = stack[1].bestDep]
      /\ state' = [state EXCEPT ![stack[1].at] = "done"]
  BY <1>1 DEF Return
<1>4. stack[1].at \in Acts /\ stack[1].best \in Nat
  BY <1>2 DEF Calls
<1>5. /\ cost'[stack[1].at] = work[stack[1].at] + stack[1].best
      /\ cost'[stack[1].at] \in Nat
  <2>1. cost \in [Acts -> Nat] /\ work \in [Acts -> Nat]
    BY DEF CritKind
  <2> QED
    BY <1>3, <1>4, <2>1
<1>6. CASE Tail(stack) = <<>>
  <2>1. Len(stack) = 1
    <3>1. Len(Tail(stack)) = Len(stack) - 1
      <4>1. stack \in Seq(Calls) /\ stack # <<>>
        BY <1>1
      <4> QED
        BY <4>1, HeadTailProperties
    <3>2. Len(Tail(stack)) = 0
      BY <1>6, EmptySeq
    <3>3. Len(stack) \in Nat
      BY <1>1
    <3> QED
      BY <3>1, <3>2, <3>3
  <2>2. stack' = <<>>
    BY <1>6 DEF Return
  <2>3. stack' \in Seq(Calls) /\ Len(stack') = 0 /\ DOMAIN stack' = 1..0
    BY <2>2
  <2> QED
    BY <1>1, <1>3, <1>5, <2>1, <2>3
<1>7. CASE Tail(stack) # <<>>
  <2> DEFINE x == Told(Head(Tail(stack)), stack[1].at, cost'[stack[1].at])
  <2>1. stack' = <<x>> \o Tail(Tail(stack))
    BY <1>1, <1>7 DEF Return
  <2>2. Head(Tail(stack)) \in Calls
    <3>1. Tail(stack) \in Seq(Calls)
      BY <1>1
    <3> QED
      BY <1>7, <3>1
  <2>3. x \in Calls
    BY <1>4, <1>5, <2>2, ToldIs
  <2> HIDE DEF x
  <2>4. /\ stack' \in Seq(Calls) /\ Len(stack') = Len(stack) - 1 /\ Len(stack) > 1
        /\ stack'[1] = x /\ \A k \in 2..(Len(stack) - 1) : stack'[k] = stack[k + 1]
        /\ DOMAIN stack' = 1..(Len(stack) - 1) /\ Head(Tail(stack)) = stack[2]
    BY <1>1, <1>7, <2>1, <2>3, Popped
  <2> QED
    BY <1>1, <1>3, <1>5, <2>4 DEF x
<1> QED
  BY <1>6, <1>7
-----------------------------------------------------------------------------
(* The walk keeps WalkInv.                                                 *)

\* A call of walk preserves the invariant.
LEMMA EnterPreserves ==
  ASSUME WalkInv, NEW i \in Acts, Enter(i), doing = "walk",
         stack = <<>> \/ i \in Head(stack).todo,
         UNCHANGED <<inputs, blastVars, cost, next, visiting, start, total, path, doing>>
  PROVE  WalkInv'
<1>0. CritKind /\ PhaseInv /\ StackInv /\ LinkInv /\ RankInv /\ TotalInv /\ PathInv
  BY DEF WalkInv
<1>u. UNCHANGED <<deps, work, cost, next, visiting, start, total, path, root, seen,
                  unpopped, radius, doing>>
  BY DEF inputs, blastVars
<1>l. Len(stack) \in Nat /\ Len(stack') = Len(stack) + 1
      /\ DOMAIN stack' = 1..(Len(stack) + 1) /\ DOMAIN stack = 1..Len(stack)
  BY <1>0, Entering
<1>d. /\ 1 \in DOMAIN stack'
      /\ \A k \in DOMAIN stack : k + 1 \in DOMAIN stack' /\ k \in 1..Len(stack)
      /\ \A k \in DOMAIN stack' : k = 1 \/ (k - 1 \in 1..Len(stack) /\ k - 1 + 1 = k)
  BY <1>l
<1>1. /\ state[i] = "unvisited" /\ state' = [state EXCEPT ![i] = "in progress"]
      /\ stack' \in Seq(Calls) /\ stack'[1] = Call(i)
      /\ \A k \in DOMAIN stack : stack'[k + 1] = stack[k]
      /\ \A k \in DOMAIN stack : stack[k] \in Calls
  BY <1>0, <1>l, Entering
<1>2. \A k \in DOMAIN stack' :
        k = 1 \/ (k - 1 \in DOMAIN stack /\ stack'[k] = stack[k - 1])
  <2>1. \A k \in 1..Len(stack) : stack'[k + 1] = stack[k]
    BY <1>l, <1>1
  <2> QED
    BY <1>l, <1>d, <2>1
<1>3. Call(i).at = i /\ Call(i).todo \subseteq deps[i] /\ Call(i).best = 0
      /\ Call(i).bestDep = 0
  BY <1>0, CallIs
<1>4. /\ state' \in [Acts -> {"unvisited", "in progress", "done"}]
      /\ state'[i] = "in progress" /\ ~ Done(i)
      /\ \A j \in Acts : j # i => state'[j] = state[j]
      /\ \A j \in Acts : Done(j)' <=> Done(j)
  BY <1>0, <1>1 DEF CritKind, Done
<1>5. CritKind'
  BY <1>0, <1>1, <1>4, <1>u DEF CritKind
<1>6. PhaseInv'
  BY <1>0, <1>u DEF PhaseInv
<1>7. StackInv'
  <2>0. /\ \A j, k \in DOMAIN stack : stack[j].at = stack[k].at => j = k
        /\ \A k \in DOMAIN stack : state[stack[k].at] = "in progress"
        /\ \A a \in Acts : state[a] = "in progress" =>
             \E k \in DOMAIN stack : stack[k].at = a
        /\ \A k \in 1..(Len(stack) - 1) : stack[k].at \in deps[stack[k + 1].at]
        /\ \A k \in DOMAIN stack : Framed(stack[k])
    BY <1>0 DEF StackInv
  <2>1. \A k \in DOMAIN stack : stack[k].at # i /\ stack[k].at \in Acts
    BY <1>1, <2>0 DEF Calls
  <2>2. ASSUME NEW j \in DOMAIN stack', NEW k \in DOMAIN stack',
               stack'[j].at = stack'[k].at
        PROVE  j = k
    <3>1. CASE j = 1 \/ k = 1
      BY <1>1, <1>2, <1>3, <2>1, <2>2, <3>1, ZenonT(60)
    <3>2. CASE j # 1 /\ k # 1
      <4>1. /\ j - 1 \in DOMAIN stack /\ stack'[j] = stack[j - 1]
            /\ k - 1 \in DOMAIN stack /\ stack'[k] = stack[k - 1]
        BY <1>2, <3>2
      <4>2. j - 1 = k - 1
        <5> DEFINE a == j - 1  b == k - 1
        <5>1. a \in DOMAIN stack /\ b \in DOMAIN stack /\ stack[a].at = stack[b].at
          BY <2>2, <4>1
        <5> HIDE DEF a, b
        <5>2. a = b
          BY <2>0, <5>1
        <5> QED
          BY <5>2 DEF a, b
      <4> QED
        BY <1>l, <4>2
    <3> QED
      BY <3>1, <3>2
  <2>3. ASSUME NEW k \in DOMAIN stack' PROVE state'[stack'[k].at] = "in progress"
    <3>1. CASE k = 1
      BY <1>1, <1>3, <1>4, <3>1
    <3>2. CASE k # 1
      <4> DEFINE a == k - 1
      <4>1. a \in DOMAIN stack /\ stack'[k] = stack[a]
        BY <1>2, <3>2
      <4> HIDE DEF a
      <4>2. state[stack[a].at] = "in progress"
        BY <2>0, <4>1
      <4> QED
        BY <1>4, <2>1, <4>1, <4>2
    <3> QED
      BY <3>1, <3>2
  <2>4. ASSUME NEW a \in Acts, state'[a] = "in progress"
        PROVE  \E k \in DOMAIN stack' : stack'[k].at = a
    <3>1. CASE a = i
      BY <1>1, <1>3, <1>d, <3>1
    <3>2. CASE a # i
      <4>1. PICK k \in DOMAIN stack : stack[k].at = a
        BY <1>4, <2>0, <2>4, <3>2
      <4>2. k + 1 \in DOMAIN stack' /\ stack'[k + 1] = stack[k]
        BY <1>1, <1>d
      <4> QED
        BY <4>1, <4>2
    <3> QED
      BY <3>1, <3>2
  <2>5. ASSUME NEW k \in 1..(Len(stack') - 1)
        PROVE  stack'[k].at \in deps'[stack'[k + 1].at]
    <3>1. k \in DOMAIN stack /\ k \in 1..Len(stack) /\ stack'[k + 1] = stack[k]
      <4>1. k \in 1..Len(stack)
        BY <1>l
      <4> QED
        BY <1>l, <1>1, <4>1
    <3>2. CASE k = 1
      <4>1. stack # <<>> /\ Head(stack) = stack[1]
        <5>1. stack \in Seq(Calls)
          BY <1>0 DEF CritKind
        <5> QED
          BY <3>1, <5>1, Stacked
      <4>2. i \in deps[stack[1].at]
        BY <2>0, <3>1, <3>2, <4>1 DEF Framed
      <4> QED
        BY <1>1, <1>3, <1>u, <3>1, <3>2, <4>2
    <3>3. CASE k # 1
      <4>1. k - 1 \in 1..(Len(stack) - 1) /\ k - 1 + 1 = k /\ k \in DOMAIN stack'
        BY <1>l, <3>1, <3>3
      <4>2. stack[k - 1].at \in deps[stack[k].at]
        BY <2>0, <4>1
      <4> QED
        BY <1>2, <1>u, <3>1, <3>3, <4>1, <4>2
    <3> QED
      BY <3>2, <3>3
  <2>6. ASSUME NEW f \in Calls, Framed(f) PROVE Framed(f)'
    BY <1>4, <1>u, <2>6 DEF Framed, Calls
  <2>7. ASSUME NEW k \in DOMAIN stack' PROVE Framed(stack[k])'
    <3>1. CASE k = 1
      BY <1>1, <1>3, <1>u, <3>1 DEF Framed
    <3>2. CASE k # 1
      <4>1. k - 1 \in DOMAIN stack /\ stack'[k] = stack[k - 1]
        BY <1>2, <3>2
      <4>2. Framed(stack[k - 1]) /\ stack[k - 1] \in Calls
        BY <1>1, <2>0, <4>1
      <4> QED
        BY <2>6, <4>1, <4>2 DEF Framed
    <3> QED
      BY <3>1, <3>2
  <2> QED
    BY <2>2, <2>3, <2>4, <2>5, <2>7 DEF StackInv
<1>8. LinkInv'
  BY <1>0, <1>4, <1>u DEF LinkInv, CritKind
<1>9. RankInv'
  BY <1>0, <1>4, <1>u DEF RankInv, Falls
<1>10. TotalInv'
  <2>1. visiting \in 0..(N + 1) /\ start \in Acts \cup {1} /\ 1..N = Acts /\ N \in Nat
    BY <1>0, ActsAre DEF CritKind, Acts
  <2>2. \A j \in 1..(visiting - 1) : j \in Acts
    BY <2>1
  <2> QED
    BY <1>0, <1>4, <1>u, <2>2 DEF TotalInv
<1>11. PathInv'
  BY <1>0, <1>u DEF PathInv
<1> QED
  BY <1>5, <1>6, <1>7, <1>8, <1>9, <1>10, <1>11 DEF WalkInv

\* So does an answer that is there at once.
LEMMA TellPreserves ==
  ASSUME WalkInv, NEW d \in Acts, stack # <<>>, d \in Head(stack).todo,
         stack' = <<Told(Head(stack), d, Answer(d))>> \o Tail(stack),
         UNCHANGED <<inputs, blastVars, state, cost, next, visiting, start, total, path,
                     doing>>
  PROVE  WalkInv'
<1>0. CritKind /\ PhaseInv /\ StackInv /\ LinkInv /\ RankInv /\ TotalInv /\ PathInv
  BY DEF WalkInv
<1>u. UNCHANGED <<deps, work, state, cost, next, visiting, start, total, path, root, seen,
                  unpopped, radius, doing>>
  BY DEF inputs, blastVars
<1>l. /\ Len(stack) \in Nat /\ Len(stack) > 0 /\ Len(stack') = Len(stack)
      /\ DOMAIN stack' = DOMAIN stack /\ DOMAIN stack = 1..Len(stack)
  BY <1>0, Telling
<1>d. 1 \in DOMAIN stack /\ \A k \in DOMAIN stack : k # 1 => k \in 2..Len(stack)
  BY <1>l
<1>1. /\ stack' \in Seq(Calls) /\ Answer(d) \in Nat
      /\ stack'[1] = Told(stack[1], d, Answer(d)) /\ Head(stack) = stack[1]
      /\ \A k \in DOMAIN stack : stack[k] \in Calls
      /\ \A k \in DOMAIN stack : k # 1 => stack'[k] = stack[k]
  BY <1>0, <1>l, <1>d, Telling
<1> DEFINE f == stack[1]
           g == stack'[1]
<1>2. /\ f \in Calls /\ g.at = f.at /\ g.todo = f.todo \ {d}
      /\ Answer(d) > f.best => g.best = Answer(d) /\ g.bestDep = d
      /\ ~ (Answer(d) > f.best) => g.best = f.best /\ g.bestDep = f.bestDep
  BY <1>1, <1>d, ToldIs
<1>3. \A k \in DOMAIN stack : stack'[k].at = stack[k].at
  BY <1>1, <1>2
<1>4. CritKind'
  BY <1>0, <1>1, <1>u DEF CritKind
<1>5. StackInv'
  <2>0. /\ \A j, k \in DOMAIN stack : stack[j].at = stack[k].at => j = k
        /\ \A k \in DOMAIN stack : state[stack[k].at] = "in progress"
        /\ \A a \in Acts : state[a] = "in progress" =>
             \E k \in DOMAIN stack : stack[k].at = a
        /\ \A k \in 1..(Len(stack) - 1) : stack[k].at \in deps[stack[k + 1].at]
        /\ \A k \in DOMAIN stack : Framed(stack[k])
    BY <1>0 DEF StackInv
  <2>1. \A k \in 1..(Len(stack) - 1) : k \in DOMAIN stack /\ k + 1 \in DOMAIN stack
    BY <1>l
  <2>2. \A k \in 1..(Len(stack) - 1) : stack'[k].at \in deps[stack'[k + 1].at]
    BY <1>3, <2>0, <2>1
  <2>3. Framed(stack[1])'
    <3>1. Framed(f)
      BY <1>d, <2>0
    <3>2. d \in f.todo
      BY <1>1
    <3>3. g.todo \subseteq deps[g.at] /\ d \in deps[g.at] /\ d # 0
      BY <1>2, <3>1, <3>2, ActsAre DEF Framed
    <3>4. CASE Answer(d) > f.best
      <4>1. Answer(d) # 0
        BY <1>1, <1>2, <3>4 DEF Calls
      <4>2. Done(d) /\ Answer(d) = cost[d]
        BY <4>1 DEF Answer, Done
      <4> QED
        BY <1>2, <1>u, <3>3, <3>4, <4>2 DEF Framed, Done
    <3>5. CASE ~ (Answer(d) > f.best)
      BY <1>2, <1>u, <3>1, <3>3, <3>5 DEF Framed, Done
    <3> QED
      BY <3>4, <3>5
  <2>4. ASSUME NEW k \in DOMAIN stack PROVE Framed(stack[k])'
    <3>1. CASE k = 1
      BY <2>3, <3>1
    <3>2. CASE k # 1
      <4>1. stack'[k] = stack[k] /\ Framed(stack[k])
        BY <1>1, <2>0, <3>2
      <4> QED
        BY <1>u, <4>1 DEF Framed, Done
    <3> QED
      BY <3>1, <3>2
  <2>5. \A j, k \in DOMAIN stack' : stack'[j].at = stack'[k].at => j = k
    BY <1>3, <1>l, <2>0
  <2>6. \A k \in DOMAIN stack' : state'[stack'[k].at] = "in progress"
    BY <1>3, <1>l, <1>u, <2>0
  <2>7. \A a \in Acts : state'[a] = "in progress" =>
          \E k \in DOMAIN stack' : stack'[k].at = a
    BY <1>3, <1>l, <1>u, <2>0
  <2> QED
    BY <1>l, <1>u, <2>2, <2>4, <2>5, <2>6, <2>7 DEF StackInv
<1>6. doing = "walk"
  BY <1>0 DEF PhaseInv
<1>7. PhaseInv'
  BY <1>0, <1>6, <1>u DEF PhaseInv
<1>8. LinkInv'
  BY <1>0, <1>u DEF LinkInv, Done
<1>9. RankInv'
  BY <1>0, <1>u DEF RankInv, Falls, Done
<1>10. TotalInv'
  BY <1>0, <1>u DEF TotalInv, Done
<1>11. PathInv'
  BY <1>0, <1>u DEF PathInv
<1> QED
  BY <1>4, <1>5, <1>7, <1>8, <1>9, <1>10, <1>11 DEF WalkInv

\* So does the end of a call, which marks its action and gives it a rank above
\* that of its link.
LEMMA ReturnPreserves ==
  ASSUME WalkInv, Return
  PROVE  WalkInv'
<1>0. CritKind /\ PhaseInv /\ StackInv /\ LinkInv /\ RankInv /\ TotalInv /\ PathInv
  BY DEF WalkInv
<1>u. UNCHANGED <<deps, work, visiting, start, total, path, root, seen, unpopped, radius,
                  doing>>
  BY DEF Return, inputs, blastVars
<1>w. doing = "walk" /\ path = <<>>
  BY <1>0 DEF PhaseInv, Return
<1>l. /\ Len(stack) \in Nat /\ Len(stack) > 0 /\ Len(stack') = Len(stack) - 1
      /\ DOMAIN stack' = 1..(Len(stack) - 1) /\ DOMAIN stack = 1..Len(stack)
  BY <1>0, Returning
<1>d. /\ 1 \in DOMAIN stack
      /\ \A k \in DOMAIN stack' : k + 1 \in DOMAIN stack /\ k + 1 # 1
      /\ \A k \in DOMAIN stack : k # 1 => k - 1 \in DOMAIN stack' /\ k - 1 + 1 = k
      /\ \A k \in DOMAIN stack' : k = 1 => Len(stack) > 1 /\ k + 1 = 2
      /\ \A k \in DOMAIN stack' : k # 1 => k \in 2..(Len(stack) - 1)
  BY <1>l
<1>c. \A k \in DOMAIN stack : stack[k] \in Calls
  BY <1>0, <1>l, Returning
<1>f. PICK f \in Calls : f = stack[1]
  BY <1>c, <1>d
<1>a. PICK a \in Acts : a = f.at
  BY DEF Calls
<1>1. /\ \A k \in DOMAIN stack : stack[k] \in Calls
      /\ f.todo = {} /\ stack' \in Seq(Calls)
      /\ Len(stack) > 1 => stack'[1] = Told(stack[2], a, cost'[a])
      /\ \A k \in DOMAIN stack' : k # 1 => stack'[k] = stack[k + 1]
  BY <1>0, <1>l, <1>d, <1>c, <1>f, <1>a, Returning
<1>2. /\ cost' = [cost EXCEPT ![a] = work[a] + f.best]
      /\ next' = [next EXCEPT ![a] = f.bestDep]
      /\ state' = [state EXCEPT ![a] = "done"]
      /\ cost'[a] = work[a] + f.best /\ cost'[a] \in Nat
  BY <1>0, <1>f, <1>a, Returning
<1>3. /\ \A j, k \in DOMAIN stack : stack[j].at = stack[k].at => j = k
      /\ \A k \in DOMAIN stack : state[stack[k].at] = "in progress"
      /\ \A i \in Acts : state[i] = "in progress" =>
           \E k \in DOMAIN stack : stack[k].at = i
      /\ \A k \in 1..(Len(stack) - 1) : stack[k].at \in deps[stack[k + 1].at]
      /\ \A k \in DOMAIN stack : Framed(stack[k])
  BY <1>0 DEF StackInv
<1>4. f \in Calls /\ a \in Acts /\ f.best \in Nat /\ f.bestDep \in Acts \cup {0}
  BY DEF Calls
<1>5. Framed(f) /\ state[a] = "in progress"
  BY <1>3, <1>d, <1>f, <1>a DEF Framed
<1>6. /\ state' \in [Acts -> {"unvisited", "in progress", "done"}]
      /\ cost' \in [Acts -> Nat] /\ next' \in [Acts -> Acts \cup {0}]
  <2>1. /\ state \in [Acts -> {"unvisited", "in progress", "done"}]
        /\ cost \in [Acts -> Nat] /\ next \in [Acts -> Acts \cup {0}]
    BY <1>0 DEF CritKind
  <2>2. work[a] + f.best \in Nat
    BY <1>2
  <2> QED
    BY <1>2, <1>4, <2>1, <2>2
<1>7. /\ state'[a] = "done" /\ next'[a] = f.bestDep
      /\ \A i \in Acts : i # a => /\ state'[i] = state[i] /\ cost'[i] = cost[i]
                                  /\ next'[i] = next[i]
  <2>1. /\ state \in [Acts -> {"unvisited", "in progress", "done"}]
        /\ cost \in [Acts -> Nat] /\ next \in [Acts -> Acts \cup {0}]
    BY <1>0 DEF CritKind
  <2> QED
    BY <1>2, <1>4, <2>1
<1>8. ~ Done(a) /\ Done(a)' /\ \A i \in Acts : i # a => (Done(i)' <=> Done(i))
  BY <1>5, <1>7 DEF Done
<1>9. \A k \in DOMAIN stack' : stack'[k].at = stack[k + 1].at
  <2> TAKE k \in DOMAIN stack'
  <2>1. CASE k # 1
    BY <1>1, <2>1
  <2>2. CASE k = 1
    <3>h. PICK h \in Calls : h = stack[2]
      BY <1>c, <1>d, <2>2
    <3>c. PICK c \in Nat : c = cost'[a]
      BY <1>2
    <3>1. stack'[1] = Told(h, a, c)
      BY <1>1, <1>d, <2>2, <3>h, <3>c
    <3>2. stack'[1].at = stack[2].at
      BY <3>1, <3>h, ToldIs
    <3> QED
      BY <1>d, <2>2, <3>2
  <2> QED
    BY <2>1, <2>2
<1>10. CritKind'
  BY <1>0, <1>1, <1>6, <1>u DEF CritKind
<1>11. PhaseInv'
  BY <1>0, <1>u, <1>w DEF PhaseInv
<1>12. StackInv'
  <2>1. ASSUME NEW j \in DOMAIN stack', NEW k \in DOMAIN stack',
               stack'[j].at = stack'[k].at
        PROVE  j = k
    <3>1. j + 1 = k + 1
      <4> DEFINE x == j + 1  y == k + 1
      <4>1. x \in DOMAIN stack /\ y \in DOMAIN stack /\ stack[x].at = stack[y].at
        BY <1>9, <1>d, <2>1
      <4> HIDE DEF x, y
      <4>2. x = y
        BY <1>3, <4>1
      <4> QED
        BY <4>2 DEF x, y
    <3> QED
      BY <1>l, <3>1
  <2>2. ASSUME NEW k \in DOMAIN stack' PROVE state'[stack'[k].at] = "in progress"
    <3> DEFINE x == k + 1
    <3>1. x \in DOMAIN stack /\ x # 1 /\ stack'[k].at = stack[x].at
      BY <1>9, <1>d
    <3> HIDE DEF x
    <3>2. stack[x].at # a /\ state[stack[x].at] = "in progress" /\ stack[x].at \in Acts
      <4>1. stack[x].at \in Acts
        BY <1>1, <3>1 DEF Calls
      <4>2. stack[x].at # stack[1].at
        BY <1>3, <1>d, <3>1
      <4> QED
        BY <1>3, <3>1, <4>1, <4>2, <1>f, <1>a
    <3> QED
      BY <1>7, <3>1, <3>2
  <2>3. ASSUME NEW i \in Acts, state'[i] = "in progress"
        PROVE  \E k \in DOMAIN stack' : stack'[k].at = i
    <3>1. i # a /\ state[i] = "in progress"
      BY <1>7, <2>3
    <3>2. PICK k \in DOMAIN stack : stack[k].at = i
      BY <1>3, <3>1
    <3>3. k # 1
      BY <3>1, <3>2, <1>f, <1>a
    <3>4. k - 1 \in DOMAIN stack' /\ stack'[k - 1].at = stack[k - 1 + 1].at
          /\ k - 1 + 1 = k
      BY <1>9, <1>d, <3>3
    <3> QED
      BY <3>2, <3>4
  <2>4. ASSUME NEW k \in 1..(Len(stack') - 1)
        PROVE  stack'[k].at \in deps'[stack'[k + 1].at]
    <3> DEFINE x == k + 1
    <3>1. k \in DOMAIN stack' /\ x \in DOMAIN stack' /\ x \in 1..(Len(stack) - 1)
      BY <1>l
    <3>2. stack'[k].at = stack[x].at /\ stack'[x].at = stack[x + 1].at
      BY <1>9, <3>1
    <3>3. stack[x].at \in deps[stack[x + 1].at]
      BY <1>3, <3>1
    <3> QED
      BY <1>u, <3>2, <3>3
  \* What was done before keeps its cost.
  <2>5. ASSUME NEW h \in Calls, Framed(h) PROVE Framed(h)'
    <3>1. h.bestDep # 0 => h.bestDep \in Acts /\ h.bestDep # a
      BY <1>8, <2>5 DEF Framed, Calls
    <3> QED
      BY <1>7, <1>8, <1>u, <2>5, <3>1 DEF Framed
  <2>6. ASSUME NEW k \in DOMAIN stack' PROVE Framed(stack[k])'
    <3> DEFINE x == k + 1
    <3>1. x \in DOMAIN stack
      BY <1>d
    <3>2. Framed(stack[x]) /\ stack[x] \in Calls
      BY <1>1, <1>3, <3>1
    <3>3. CASE k # 1
      <4>1. stack'[k] = stack[x]
        BY <1>1, <3>3
      <4> HIDE DEF x
      <4> QED
        BY <2>5, <3>2, <4>1 DEF Framed
    <3>4. CASE k = 1
      <4>1. x = 2 /\ Len(stack) > 1 /\ 1 \in 1..(Len(stack) - 1)
        BY <1>l, <1>d, <3>4
      <4>h. PICK h \in Calls : h = stack[2]
        BY <3>2, <4>1
      <4>c. PICK c \in Nat : c = cost'[a]
        BY <1>2
      <4> DEFINE g == stack'[1]
      <4>2. h \in Calls /\ Framed(h) /\ a \in deps[h.at]
        <5>1. Framed(h)
          BY <3>2, <4>1, <4>h DEF Framed
        <5>2. stack[1].at \in deps[stack[2].at]
          <6>1. stack[k].at \in deps[stack[k + 1].at]
            BY <1>3, <3>4, <4>1
          <6> QED
            BY <3>4, <4>1, <6>1
        <5> QED
          BY <5>1, <5>2, <4>h, <1>f, <1>a
      <4>3. /\ g.at = h.at /\ g.todo = h.todo \ {a}
            /\ c > h.best => g.best = c /\ g.bestDep = a
            /\ ~ (c > h.best) => g.best = h.best /\ g.bestDep = h.bestDep
        <5>1. g = Told(h, a, c) /\ c \in Nat
          BY <1>1, <4>1, <4>h, <4>c
        <5> HIDE DEF g
        <5> QED
          BY <5>1, ToldIs
      <4>4. CASE c > h.best
        <5>1. g.best = cost'[a] /\ g.bestDep = a /\ a # 0
          BY <4>3, <4>4, <4>c, ActsAre
        <5>2. g.todo \subseteq deps'[g.at] /\ a \in deps'[g.at] /\ Done(a)'
          BY <1>8, <1>u, <4>2, <4>3 DEF Framed
        <5> QED
          BY <3>4, <5>1, <5>2 DEF Framed
      <4>5. CASE ~ (c > h.best)
        <5>1. Framed(h)'
          BY <2>5, <4>2
        <5>2. g.todo \subseteq h.todo /\ g.at = h.at /\ g.best = h.best
              /\ g.bestDep = h.bestDep
          BY <4>3, <4>5
        <5> QED
          BY <3>4, <5>1, <5>2 DEF Framed
      <4> QED
        BY <4>4, <4>5
    <3> QED
      BY <3>3, <3>4
  <2> QED
    BY <2>1, <2>2, <2>3, <2>4, <2>6 DEF StackInv
<1>13. LinkInv'
  <2> SUFFICES ASSUME NEW i \in Acts, Done(i)'
               PROVE  IF next'[i] = 0 THEN cost'[i] = work'[i]
                      ELSE /\ next'[i] \in deps'[i] /\ Done(next[i])'
                           /\ cost'[i] = work'[i] + cost'[next'[i]]
    BY DEF LinkInv
  <2>1. CASE i = a
    <3>1. f.bestDep # 0 => f.bestDep # a
      BY <1>5, <1>8 DEF Framed
    <3>2. CASE f.bestDep = 0
      <4>1. f.best = 0 /\ work[a] \in Nat
        BY <1>0, <1>5, <3>2 DEF Framed, CritKind
      <4>2. cost'[a] = work[a]
        BY <1>2, <4>1
      <4> QED
        BY <1>7, <1>u, <2>1, <3>2, <4>2
    <3>3. CASE f.bestDep # 0
      <4>1. f.bestDep \in Acts /\ f.bestDep \in deps[a] /\ Done(f.bestDep)
            /\ f.best = cost[f.bestDep]
        BY <1>4, <1>5, <1>a, <3>3 DEF Framed
      <4>2. cost'[f.bestDep] = f.best /\ Done(f.bestDep)'
        BY <1>7, <3>1, <3>3, <4>1 DEF Done
      <4> QED
        BY <1>2, <1>7, <1>u, <2>1, <3>3, <4>1, <4>2 DEF Done
    <3> QED
      BY <3>2, <3>3
  <2>2. CASE i # a
    <3>1. Done(i) /\ next'[i] = next[i] /\ cost'[i] = cost[i] /\ next[i] \in Acts \cup {0}
      BY <1>0, <1>7, <1>8, <2>2 DEF CritKind
    <3>2. CASE next[i] = 0
      BY <1>0, <1>u, <3>1, <3>2 DEF LinkInv
    <3>3. CASE next[i] # 0
      <4>1. /\ next[i] \in deps[i] /\ Done(next[i]) /\ next[i] \in Acts
            /\ cost[i] = work[i] + cost[next[i]]
        BY <1>0, <3>1, <3>3 DEF LinkInv
      <4>2. next[i] # a /\ cost'[next[i]] = cost[next[i]]
        BY <1>7, <1>8, <4>1
      <4> QED
        BY <1>7, <1>u, <3>1, <3>3, <4>1, <4>2 DEF Done
    <3> QED
      BY <3>2, <3>3
  <2> QED
    BY <2>1, <2>2
<1>14. RankInv'
  <2>1. PICK rank \in Ranks : Falls(rank)
    BY <1>0 DEF RankInv
  <2> DEFINE b == f.bestDep
             top == IF b = 0 THEN 0 ELSE rank[b] + 1
             rank2 == [rank EXCEPT ![a] = top]
  <2>2. b \in Acts \cup {0} /\ top \in Nat /\ rank \in [Acts -> Nat]
    BY <1>4, <2>1 DEF Ranks
  <2>3. b # 0 => b # a
    BY <1>5, <1>8 DEF Framed
  <2> HIDE DEF b
  <2>4. /\ rank2 \in [Acts -> Nat] /\ rank2[a] = top
        /\ \A i \in Acts : i # a => rank2[i] = rank[i]
    BY <1>4, <2>2
  <2> HIDE DEF rank2
  <2>5. ASSUME NEW i \in Acts, Done(i)', next'[i] # 0
        PROVE  rank2[next'[i]] < rank2[i]
    <3>1. CASE i = a
      <4>1. next'[i] = b /\ b \in Acts /\ b # 0
        BY <1>7, <2>2, <2>5, <3>1 DEF b
      <4>2. rank2[b] = rank[b] /\ rank[b] \in Nat /\ rank2[a] = rank[b] + 1
        BY <2>2, <2>3, <2>4, <4>1
      <4> QED
        BY <3>1, <4>1, <4>2
    <3>2. CASE i # a
      <4>1. Done(i) /\ next'[i] = next[i] /\ next[i] # 0 /\ next[i] \in Acts
        BY <1>0, <1>7, <1>8, <2>5, <3>2 DEF CritKind
      <4>2. next[i] # a
        BY <1>0, <1>8, <4>1 DEF LinkInv
      <4>3. rank[next[i]] < rank[i]
        BY <2>1, <4>1 DEF Falls
      <4> QED
        BY <2>4, <3>2, <4>1, <4>2, <4>3
    <3> QED
      BY <3>1, <3>2
  <2>6. path' = <<>> /\ DOMAIN path' = {}
    BY <1>u, <1>w
  <2> QED
    BY <2>4, <2>5, <2>6 DEF RankInv, Ranks, Falls
<1>15. TotalInv'
  <2>1. visiting \in 0..(N + 1) /\ start \in Acts \cup {1} /\ 1..N = Acts /\ N \in Nat
    BY <1>0, ActsAre DEF CritKind, Acts
  <2>2. \A j \in 1..(visiting - 1) : j \in Acts
    BY <2>1
  <2>3. \A j \in 1..(visiting - 1) : Done(j) /\ cost[j] <= total
    BY <1>0, <1>w DEF TotalInv
  <2>4. \A j \in 1..(visiting - 1) : Done(j)' /\ cost'[j] <= total
    BY <1>7, <1>8, <2>2, <2>3
  <2>5. total # 0 => start \in Acts /\ Done(start)' /\ cost'[start] = total
    BY <1>0, <1>7, <1>8, <1>u DEF TotalInv, Done
  <2> QED
    BY <1>u, <1>w, <2>4, <2>5 DEF TotalInv
<1>16. PathInv'
  BY <1>u, <1>w DEF PathInv
<1> QED
  BY <1>10, <1>11, <1>12, <1>13, <1>14, <1>15, <1>16 DEF WalkInv

\* So does Find's loop, when it starts a walk or finds one done.
LEMMA VisitPreserves ==
  ASSUME WalkInv, Visit
  PROVE  WalkInv'
<1>0. CritKind /\ PhaseInv /\ StackInv /\ LinkInv /\ RankInv /\ TotalInv /\ PathInv
  BY DEF WalkInv
<1>1. /\ doing = "walk" /\ stack = <<>> /\ visiting \in Acts
      /\ UNCHANGED <<inputs, blastVars, cost, next, path, doing>>
  <2>1. doing = "walk" /\ stack = <<>> /\ visiting <= N /\ visiting # 0
        /\ UNCHANGED <<inputs, blastVars, cost, next, path, doing>>
    BY <1>0 DEF Visit, PhaseInv
  <2>2. visiting \in 0..(N + 1) /\ N \in Nat
    BY <1>0, ActsAre DEF CritKind
  <2>3. visiting \in 1..N
    BY <2>1, <2>2
  <2> QED
    BY <2>1, <2>3 DEF Acts
<1>2. CASE Enter(visiting) /\ UNCHANGED <<visiting, start, total>>
  BY <1>1, <1>2, EnterPreserves
<1>3. CASE /\ Entered(visiting)
           /\ start' = IF Starts(visiting) THEN visiting ELSE start
           /\ total' = IF Starts(visiting) THEN cost[visiting] ELSE total
           /\ visiting' = visiting + 1
           /\ UNCHANGED <<state, stack>>
  <2>u. UNCHANGED <<deps, work, state, cost, next, stack, path, root, seen, unpopped,
                    radius, doing>>
    BY <1>1, <1>3 DEF inputs, blastVars
  <2>1. Done(visiting)
    <3>1. DOMAIN stack = {}
      BY <1>1
    <3>2. state[visiting] # "in progress"
      BY <1>0, <1>1, <3>1 DEF StackInv
    <3> QED
      BY <1>0, <1>1, <1>3, <3>2 DEF Entered, CritKind, Done
  <2>2. /\ visiting \in 1..N /\ N \in Nat /\ cost[visiting] \in Nat /\ total \in Nat
        /\ visiting' = visiting + 1
    BY <1>0, <1>1, <1>3, ActsAre DEF CritKind, Acts
  <2>k. visiting' \in 0..(N + 1) /\ visiting' # 0 /\ path = <<>>
    BY <1>0, <1>1, <2>2 DEF PhaseInv
  <2>p. PhaseInv' /\ StackInv' /\ LinkInv' /\ PathInv'
    <3>1. PhaseInv'
      BY <1>0, <1>1, <2>k, <2>u DEF PhaseInv
    <3>2. StackInv'
      BY <1>0, <2>u DEF StackInv, Framed, Done
    <3>3. LinkInv'
      BY <1>0, <2>u DEF LinkInv, Done
    <3>4. PathInv'
      BY <1>1, <2>u DEF PathInv
    <3> QED
      BY <3>1, <3>2, <3>3, <3>4
  <2>r. RankInv'
    <3>1. path' = <<>> /\ DOMAIN path' = {}
      BY <2>k, <2>u
    <3> QED
      BY <1>0, <2>u, <3>1 DEF RankInv, Falls, Done
  <2>3. CASE cost[visiting] > total
    <3>1. start' = visiting /\ total' = cost[visiting]
      BY <1>3, <2>3 DEF Starts
    <3>2. CritKind'
      BY <1>0, <1>1, <2>2, <2>k, <2>u, <3>1 DEF CritKind
    <3>3. TotalInv'
      <4>1. \A i \in 1..visiting : Done(i)' /\ cost'[i] <= cost[visiting]
        <5> TAKE i \in 1..visiting
        <5>1. CASE i = visiting
          BY <2>1, <2>2, <2>u, <5>1 DEF Done
        <5>2. CASE i # visiting
          <6>1. i \in 1..(visiting - 1) /\ i \in Acts
            BY <2>2, <5>2 DEF Acts
          <6>2. Done(i) /\ cost[i] <= total /\ cost[i] \in Nat
            BY <1>0, <1>1, <6>1 DEF TotalInv, CritKind
          <6>3. cost[i] <= cost[visiting]
            BY <2>2, <2>3, <6>2
          <6> QED
            BY <2>u, <6>2, <6>3 DEF Done
        <5> QED
          BY <5>1, <5>2
      <4>2. visiting' - 1 = visiting
        BY <2>2
      <4> QED
        BY <1>1, <2>1, <2>u, <3>1, <4>1, <4>2 DEF TotalInv, Done
    <3> QED
      BY <2>p, <2>r, <3>2, <3>3 DEF WalkInv
  <2>4. CASE ~ (cost[visiting] > total)
    <3>1. start' = start /\ total' = total
      BY <1>3, <2>4 DEF Starts
    <3>2. CritKind'
      BY <1>0, <1>1, <2>2, <2>k, <2>u, <3>1 DEF CritKind
    <3>3. TotalInv'
      <4>1. \A i \in 1..visiting : Done(i)' /\ cost'[i] <= total
        <5> TAKE i \in 1..visiting
        <5>1. CASE i = visiting
          BY <2>1, <2>2, <2>4, <2>u, <5>1 DEF Done
        <5>2. CASE i # visiting
          <6>1. i \in 1..(visiting - 1)
            BY <2>2, <5>2
          <6> QED
            BY <1>0, <1>1, <2>u, <6>1 DEF TotalInv, Done
        <5> QED
          BY <5>1, <5>2
      <4>2. visiting' - 1 = visiting
        BY <2>2
      <4> QED
        BY <1>0, <1>1, <2>u, <3>1, <4>1, <4>2 DEF TotalInv, Done
    <3> QED
      BY <2>p, <2>r, <3>2, <3>3 DEF WalkInv
  <2> QED
    BY <2>3, <2>4
<1> QED
  BY <1>2, <1>3 DEF Visit

\* So does the end of Find's loop.
LEMMA WalkedPreserves ==
  ASSUME WalkInv, Walked
  PROVE  WalkInv'
<1>0. CritKind /\ PhaseInv /\ StackInv /\ LinkInv /\ RankInv /\ TotalInv /\ PathInv
  BY DEF WalkInv
<1>1. /\ doing = "walk" /\ stack = <<>> /\ visiting > N
      /\ visiting' = (IF total = 0 THEN 0 ELSE start) /\ doing' = "collect"
      /\ UNCHANGED <<deps, work, state, cost, next, stack, start, total, path, root, seen,
                     unpopped, radius>>
  BY DEF Walked, inputs, blastVars
<1>2. path = <<>> /\ radius = 0
  BY <1>0, <1>1 DEF PhaseInv
<1>3. visiting' \in Acts \cup {0}
  BY <1>0, <1>1 DEF TotalInv
<1>4. visiting' \in 0..(N + 1) /\ visiting' # N + 1
  BY <1>3, ActsAre DEF Acts
<1>5. CritKind'
  BY <1>0, <1>1, <1>4 DEF CritKind
<1>6. \A i \in Acts : Done(i) /\ cost[i] <= total
  <2>1. visiting \in 0..(N + 1) /\ N \in Nat
    BY <1>0, ActsAre DEF CritKind
  <2>2. visiting - 1 = N
    BY <1>1, <2>1
  <2> QED
    BY <1>0, <1>1, <2>2 DEF TotalInv, Acts
<1>7. TotalInv'
  BY <1>0, <1>1, <1>6 DEF TotalInv, Done
<1>8. PhaseInv'
  BY <1>1, <1>2, <1>4 DEF PhaseInv
<1>9. PathInv'
  <2>1. path' = <<>> /\ 1..(Len(path') - 1) = {}
    BY <1>1, <1>2
  <2> QED
    BY <1>1, <2>1 DEF PathInv
<1>10. RankInv'
  <2>1. path' = <<>> /\ DOMAIN path' = {}
    BY <1>1, <1>2
  <2> QED
    BY <1>0, <1>1, <2>1 DEF RankInv, Falls, Done
<1>11. StackInv' /\ LinkInv'
  BY <1>0, <1>1, ZenonT(60) DEF StackInv, Framed, LinkInv, Done
<1> QED
  BY <1>5, <1>7, <1>8, <1>9, <1>10, <1>11 DEF WalkInv

\* So does a turn of the loop that collects the path.
LEMMA CollectPreserves ==
  ASSUME WalkInv, Collect
  PROVE  WalkInv'
<1>0. CritKind /\ PhaseInv /\ StackInv /\ LinkInv /\ RankInv /\ TotalInv /\ PathInv
  BY DEF WalkInv
<1>1. /\ doing = "collect"
      /\ UNCHANGED <<deps, work, state, cost, next, stack, start, total, root, seen,
                     unpopped, radius>>
  BY DEF Collect, inputs, blastVars
<1>2. stack = <<>> /\ radius = 0 /\ path \in Seq(Acts) /\ Len(path) \in Nat
  <2>1. stack = <<>> /\ radius = 0
    BY <1>0, <1>1 DEF PhaseInv
  <2>2. path \in Seq(Acts)
    BY <1>0 DEF CritKind
  <2> QED
    BY <2>1, <2>2
<1>3. visiting \in Acts \cup {0}
  <2>1. visiting \in 0..(N + 1) /\ N \in Nat /\ visiting # N + 1
    BY <1>0, <1>1, ActsAre DEF CritKind, PhaseInv
  <2> QED
    BY <2>1 DEF Acts
<1>4. /\ \A k \in 1..(Len(path) - 1) : next[path[k + 1]] = path[k]
      /\ path = <<>> => visiting = (IF total = 0 THEN 0 ELSE start)
      /\ path # <<>> => next[path[1]] = visiting /\ path[Len(path)] = start /\ total # 0
      /\ \A i \in Acts : Done(i) /\ cost[i] <= total
  BY <1>0, <1>1 DEF PathInv, TotalInv
<1>5. StackInv' /\ LinkInv'
  BY <1>0, <1>1 DEF StackInv, Framed, LinkInv, Done
<1>6. CASE visiting = 0 /\ doing' = "found" /\ UNCHANGED <<path, visiting>>
  <2>1. CritKind' /\ PhaseInv' /\ TotalInv' /\ PathInv'
    BY <1>0, <1>1, <1>2, <1>4, <1>6 DEF CritKind, PhaseInv, TotalInv, PathInv, Done
  <2>2. RankInv'
    BY <1>0, <1>1, <1>6 DEF RankInv, Falls, Done
  <2> QED
    BY <1>5, <2>1, <2>2 DEF WalkInv
<1>7. CASE /\ visiting # 0 /\ path' = <<visiting>> \o path
           /\ visiting' = next[visiting] /\ doing' = doing
  <2> DEFINE v == visiting
  <2>1. v \in Acts /\ next[v] \in Acts \cup {0} /\ Done(v)
    BY <1>0, <1>3, <1>4, <1>7 DEF CritKind
  <2>2. /\ path' \in Seq(Acts) /\ Len(path') = Len(path) + 1
        /\ DOMAIN path' = 1..(Len(path) + 1) /\ DOMAIN path = 1..Len(path)
        /\ path'[1] = v /\ \A k \in 1..Len(path) : path'[k + 1] = path[k]
    BY <1>2, <1>7, <2>1, Pushed
  <2>d. /\ 1 \in DOMAIN path' /\ Len(path') # 0
        /\ \A k \in DOMAIN path' : k # 1 => k - 1 \in DOMAIN path /\ k - 1 + 1 = k
    BY <1>2, <2>2
  <2>e. \A k \in DOMAIN path' : k # 1 => path'[k] = path[k - 1]
    BY <2>2, <2>d
  <2>3. CritKind' /\ PhaseInv'
    <3>1. visiting' \in 0..(N + 1) /\ visiting' # N + 1
      BY <1>7, <2>1, ActsAre DEF Acts
    <3> QED
      BY <1>0, <1>1, <1>2, <1>7, <2>2, <3>1 DEF CritKind, PhaseInv
  <2>4. TotalInv'
    BY <1>0, <1>1, <1>7 DEF TotalInv, Done
  <2>5. PathInv'
    <3>1. ASSUME NEW k \in 1..(Len(path') - 1) PROVE next[path'[k + 1]] = path'[k]
      <4>1. k \in 1..Len(path) /\ path'[k + 1] = path[k]
        BY <1>2, <2>2
      <4>2. CASE k = 1
        <5>1. path # <<>>
          BY <4>1
        <5> QED
          BY <1>4, <2>2, <4>1, <4>2, <5>1
      <4>3. CASE k # 1
        <5>1. k \in DOMAIN path' /\ k - 1 \in 1..(Len(path) - 1) /\ k - 1 + 1 = k
          BY <1>2, <2>2, <4>1, <4>3
        <5>2. next[path[k - 1 + 1]] = path[k - 1]
          BY <1>4, <5>1
        <5> QED
          BY <2>e, <4>1, <4>3, <5>1, <5>2
      <4> QED
        BY <4>2, <4>3
    <3>2. path' # <<>>
      BY <2>d
    <3>3. path'[Len(path')] = start /\ total # 0
      <4>1. CASE path = <<>>
        <5>1. Len(path') = 1
          BY <2>2, <4>1
        <5> QED
          BY <1>4, <1>7, <2>2, <4>1, <5>1
      <4>2. CASE path # <<>>
        <5>1. Len(path) \in 1..Len(path)
          BY <1>2, <4>2, EmptySeq
        <5> QED
          BY <1>4, <2>2, <4>2, <5>1
      <4> QED
        BY <4>1, <4>2
    <3> QED
      BY <1>1, <1>7, <2>2, <3>1, <3>2, <3>3 DEF PathInv
  <2>6. RankInv'
    <3>1. PICK rank \in Ranks : Falls(rank)
      BY <1>0 DEF RankInv
    <3>2. \A j, k \in DOMAIN path : j < k => rank[path[j]] < rank[path[k]]
      BY <3>1 DEF Falls
    <3>3. \A k \in DOMAIN path : rank[v] < rank[path[k]]
      <4>1. ASSUME NEW k \in DOMAIN path PROVE path # <<>>
        OBVIOUS
      <4> QED
        BY <1>7, <3>1, <4>1 DEF Falls
    <3>4. next[v] # 0 => rank[next[v]] < rank[v]
      BY <2>1, <3>1 DEF Falls
    <3>5. ASSUME NEW j \in DOMAIN path', NEW k \in DOMAIN path', j < k
          PROVE  rank[path'[j]] < rank[path'[k]]
      <4>1. k # 1 /\ k - 1 \in DOMAIN path /\ path'[k] = path[k - 1]
        BY <2>2, <2>d, <2>e, <3>5
      <4>2. CASE j = 1
        BY <2>2, <3>3, <4>1, <4>2
      <4>3. CASE j # 1
        <5> DEFINE a == j - 1  b == k - 1
        <5>1. a \in DOMAIN path /\ b \in DOMAIN path /\ path'[j] = path[a]
              /\ path'[k] = path[b] /\ a < b
          BY <2>2, <2>d, <2>e, <3>5, <4>1, <4>3
        <5> HIDE DEF a, b
        <5> QED
          BY <3>2, <5>1
      <4> QED
        BY <4>2, <4>3
    <3>6. ASSUME next[v] # 0, NEW k \in DOMAIN path'
          PROVE  rank[next[v]] < rank[path'[k]]
      <4>1. rank[next[v]] < rank[v] /\ rank[v] \in Nat /\ rank[next[v]] \in Nat
        BY <2>1, <3>1, <3>4, <3>6 DEF Ranks
      <4>2. CASE k = 1
        BY <2>2, <4>1, <4>2
      <4>3. CASE k # 1
        <5> DEFINE b == k - 1
        <5>1. b \in DOMAIN path /\ path'[k] = path[b]
          BY <2>d, <2>e, <4>3
        <5> HIDE DEF b
        <5>2. rank[v] < rank[path[b]] /\ rank[path[b]] \in Nat
          BY <1>2, <3>1, <3>3, <5>1 DEF Ranks
        <5> QED
          BY <4>1, <5>1, <5>2
      <4> QED
        BY <4>2, <4>3
    <3>7. \A i \in Acts : Done(i)' /\ next'[i] # 0 => rank[next'[i]] < rank[i]
      BY <1>1, <3>1 DEF Falls, Done
    <3> QED
      BY <1>1, <1>7, <3>1, <3>5, <3>6, <3>7 DEF RankInv, Falls
  <2> QED
    BY <1>5, <2>3, <2>4, <2>5, <2>6 DEF WalkInv
<1> QED
  BY <1>1, <1>6, <1>7 DEF Collect

\* Sets of actions are finite.
LEMMA ActsFinite ==
  /\ IsFiniteSet(Acts) /\ Cardinality(Acts) = N
  /\ \A S \in SUBSET Acts : IsFiniteSet(S) /\ Cardinality(S) \in Nat
<1>1. IsFiniteSet(Acts) /\ Cardinality(Acts) = N
  BY ActsAre, FS_Interval DEF Acts
<1> QED
  BY <1>1, FS_Subset, FS_CardinalityType

\* The count of dependents has nothing to do with the walk.
LEMMA CountPreserves ==
  ASSUME WalkInv, doing \in {"nothing", "count"}, doing' \in {"count", "counted"},
         root' \in Acts \cup {0}, seen' \subseteq Acts, unpopped' \subseteq Acts, radius' \in Nat,
         UNCHANGED <<inputs, walkVars>>
  PROVE  WalkInv'
<1>0. CritKind /\ PhaseInv /\ StackInv /\ LinkInv /\ RankInv /\ TotalInv /\ PathInv
  BY DEF WalkInv
<1>u. UNCHANGED <<deps, work, state, cost, next, stack, visiting, start, total, path>>
  BY DEF inputs, walkVars
<1>1. CritKind'
  BY <1>0, <1>u DEF CritKind
<1>2. PhaseInv'
  BY <1>0, <1>u DEF PhaseInv
<1>3. StackInv'
  BY <1>0, <1>u DEF StackInv, Framed, Done
<1>4. LinkInv'
  BY <1>0, <1>u DEF LinkInv, Done
<1>5. RankInv'
  BY <1>0, <1>u DEF RankInv, Falls, Done
<1>6. TotalInv'
  BY <1>0, <1>u DEF TotalInv, Done
<1>7. PathInv'
  BY <1>0, <1>u DEF PathInv
<1> QED
  BY <1>1, <1>2, <1>3, <1>4, <1>5, <1>6, <1>7 DEF WalkInv

\* The invariant of the walk.
LEMMA WalkInductive ==
  /\ CritInit => WalkInv
  /\ WalkInv /\ [CritNext]_critVars => WalkInv'
<1>1. ASSUME CritInit PROVE WalkInv
  <2>1. /\ deps \in [Acts -> SUBSET (Acts \cup {0})] /\ work \in [Acts -> Nat]
    BY <1>1, GraphAssumption DEF CritInit, Analyses
  <2>2. /\ state = [i \in Acts |-> "unvisited"] /\ cost = [i \in Acts |-> 0]
        /\ next = [i \in Acts |-> 0] /\ stack = <<>> /\ path = <<>>
        /\ visiting = 1 /\ start = 1 /\ total = 0
        /\ root = 0 /\ radius = 0 /\ seen = {} /\ unpopped = {}
        /\ doing = "nothing"
    BY <1>1 DEF CritInit, Nothing
  <2>3. DOMAIN stack = {} /\ DOMAIN path = {} /\ 1..(Len(stack) - 1) = {}
    BY <2>2
  <2>4. stack \in Seq(Calls) /\ path \in Seq(Acts) /\ visiting \in 0..(N + 1)
    BY <2>2, ActsAre
  <2>5. CritKind
    BY <2>1, <2>2, <2>4 DEF CritKind
  <2>6. \A i \in Acts : state[i] = "unvisited" /\ ~ Done(i)
    BY <2>2 DEF Done
  <2>7. PhaseInv /\ StackInv /\ LinkInv /\ TotalInv /\ PathInv
    BY <2>2, <2>3, <2>6 DEF PhaseInv, StackInv, LinkInv, TotalInv, PathInv
  <2>8. RankInv
    <3> DEFINE rank == [i \in Acts |-> 0]
    <3>1. rank \in Ranks /\ Falls(rank)
      BY <2>2, <2>3, <2>6 DEF Ranks, Falls
    <3> QED
      BY <3>1 DEF RankInv
  <2> QED
    BY <2>5, <2>7, <2>8 DEF WalkInv
<1>2. ASSUME WalkInv, [CritNext]_critVars PROVE WalkInv'
  <2>0. CritKind /\ PhaseInv /\ StackInv /\ LinkInv /\ RankInv /\ TotalInv /\ PathInv
    BY <1>2 DEF WalkInv
  <2>1. CASE UNCHANGED critVars
    <3>u. UNCHANGED <<deps, work, state, cost, next, stack, visiting, start, total, path,
                      root, seen, unpopped, radius, doing>>
      BY <2>1 DEF critVars, inputs, walkVars, blastVars
    <3>1. CritKind' /\ PhaseInv'
      BY <2>0, <3>u DEF CritKind, PhaseInv
    <3>2. StackInv' /\ LinkInv'
      BY <2>0, <3>u DEF StackInv, Framed, LinkInv, Done
    <3>3. RankInv' /\ TotalInv' /\ PathInv'
      BY <2>0, <3>u DEF RankInv, Falls, TotalInv, PathInv, Done
    <3> QED
      BY <3>1, <3>2, <3>3 DEF WalkInv
  <2>2. CASE Find
    <3>u. /\ doing = "nothing" /\ doing' = "walk"
          /\ UNCHANGED <<deps, work, state, cost, next, stack, visiting, start, total,
                         path, root, seen, unpopped, radius>>
      BY <2>2 DEF Find, inputs, walkVars, blastVars
    <3>1. CritKind'
      BY <2>0, <3>u DEF CritKind
    <3>p. PhaseInv'
      BY <2>0, <3>u DEF PhaseInv
    <3>2. StackInv' /\ LinkInv'
      BY <2>0, <3>u DEF StackInv, Framed, LinkInv, Done
    <3>3. RankInv'
      BY <2>0, <3>u DEF RankInv, Falls, Done
    <3>4. TotalInv'
      <4>1. visiting = 1 /\ 1..(visiting - 1) = {}
        BY <2>0, <3>u DEF PhaseInv
      <4> QED
        BY <2>0, <3>u, <4>1 DEF TotalInv, Done
    <3>5. PathInv'
      BY <3>u DEF PathInv
    <3> QED
      BY <3>1, <3>p, <3>2, <3>3, <3>4, <3>5 DEF WalkInv
  <2>3. CASE Visit
    BY <1>2, <2>3, VisitPreserves
  <2>4. CASE Return
    BY <1>2, <2>4, ReturnPreserves
  <2>5. CASE Walked
    BY <1>2, <2>5, WalkedPreserves
  <2>6. CASE Collect
    BY <1>2, <2>6, CollectPreserves
  <2>7. CASE Counted
    <3>1. root \in Acts \cup {0}
      BY <2>0 DEF CritKind
    <3> QED
      BY <1>2, <2>0, <2>7, CountPreserves DEF Counted, blastVars, CritKind
  <2>8. ASSUME NEW i \in Acts, Look(i) PROVE WalkInv'
    <3>1. /\ stack # <<>> /\ i \in Head(stack).todo /\ doing = "walk"
          /\ UNCHANGED <<inputs, blastVars, cost, next, visiting, start, total, path, doing>>
      BY <2>0, <2>8 DEF Look, PhaseInv
    <3>2. CASE Enter(i)
      BY <1>2, <3>1, <3>2, EnterPreserves
    <3>3. CASE stack' = <<Told(Head(stack), i, Answer(i))>> \o Tail(stack)
               /\ UNCHANGED state
      BY <1>2, <3>1, <3>3, TellPreserves
    <3> QED
      BY <2>8, <3>2, <3>3 DEF Look
  <2>9. ASSUME NEW i \in Acts, BlastRadiusFor(i) PROVE WalkInv'
    <3>1. radius \in Nat
      BY <2>0 DEF CritKind
    <3> QED
      BY <1>2, <2>9, <3>1, CountPreserves DEF BlastRadiusFor, Marked
  <2>10. ASSUME NEW i \in Acts, Pop(i) PROVE WalkInv'
    <3>1. /\ radius \in Nat /\ seen \subseteq Acts /\ unpopped \subseteq Acts
          /\ root \in Acts \cup {0}
      BY <2>0 DEF CritKind
    <3> DEFINE new == Dependents(i) \ seen
    <3>2. new \subseteq Acts /\ Cardinality(new) \in Nat
      BY ActsFinite DEF Dependents
    <3>3. seen' = seen \cup new /\ unpopped' = (unpopped \ {i}) \cup new
          /\ radius' = radius + Cardinality(new)
      BY <2>10 DEF Pop
    <3> HIDE DEF new
    <3>4. radius' \in Nat
      BY <3>1, <3>2, <3>3
    <3> QED
      BY <1>2, <2>10, <3>1, <3>2, <3>3, <3>4, CountPreserves DEF Pop
  <2> QED
    BY <1>2, <2>1, <2>2, <2>3, <2>4, <2>5, <2>6, <2>7, <2>8, <2>9, <2>10 DEF CritNext
<1> QED
  BY <1>1, <1>2
-----------------------------------------------------------------------------
(* What depends on an action.                                              *)

\* What depends on what is a matter of deps alone.
LEMMA AboveUnchanged == UNCHANGED deps => \A i : Above(i)' = Above(i)
BY DEF Above, Dependents, InRange

\* The recursion of Above is one.
LEMMA AboveSteps ==
  ASSUME NEW i \in Acts
  PROVE  \E up \in [1..N -> SUBSET Acts] :
           /\ up[1] = Dependents(i) /\ up[N] = Above(i)
           /\ \A k \in 2..N :
                up[k] = up[k - 1] \cup UNION {Dependents(j) : j \in up[k - 1]}
<1>1. N \in Nat /\ N >= 1
  BY ActsAre DEF Acts
<1> DEFINE Wider == [T \in SUBSET Acts |-> T \cup UNION {Dependents(j) : j \in T}]
           F == [k \in Nat |-> Wider]
           Is(up) == up = [k \in 1..N |->
                             IF k = 1 THEN Dependents(i)
                             ELSE up[k - 1] \cup
                                  UNION {Dependents(j) : j \in up[k - 1]}]
<1>2. \A j : Dependents(j) \in SUBSET Acts
  BY DEF Dependents
<1>3. Wider \in [SUBSET Acts -> SUBSET Acts]
  <2>1. \A T \in SUBSET Acts : T \cup UNION {Dependents(j) : j \in T} \in SUBSET Acts
    BY <1>2
  <2> QED
    BY <2>1
<1>4. \A T \in SUBSET Acts : Wider[T] = T \cup UNION {Dependents(j) : j \in T}
  OBVIOUS
<1> HIDE DEF Wider
<1>5. PICK g \in [1..N -> SUBSET Acts] :
        g[1] = Dependents(i) /\ \A k \in 2..N : g[k] = Wider[g[k - 1]]
  <2> DEFINE S == SUBSET Acts
             b == Dependents(i)
             m == 1
  <2>1. /\ N \in Nat /\ m \in Nat /\ m <= N
        /\ b \in S /\ F \in [Nat -> [S -> S]]
    BY <1>1, <1>2, <1>3
  <2>2. \A k \in 2..N : F[k] = Wider
    OBVIOUS
  <2> HIDE DEF F, S, b, m
  <2>3. PICK g \in [m..N -> S] : Iterates(g, b, F, m, N)
    BY <2>1, Iteration
  <2>4. ASSUME NEW k \in 2..N PROVE g[k] = Wider[g[k - 1]]
    <3>1. k \in (m + 1)..N
      BY DEF m
    <3> QED
      BY <2>2, <2>3, <3>1 DEF Iterates
  <2> QED
    BY <2>3, <2>4 DEF S, b, m, Iterates
<1>6. /\ g \in [1..N -> SUBSET Acts] /\ g[1] = Dependents(i)
      /\ \A k \in 2..N : g[k] = g[k - 1] \cup UNION {Dependents(j) : j \in g[k - 1]}
  <2>1. ASSUME NEW k \in 2..N
        PROVE  g[k] = g[k - 1] \cup UNION {Dependents(j) : j \in g[k - 1]}
    <3>1. k - 1 \in 1..N
      BY <1>1
    <3>2. g[k - 1] \in SUBSET Acts
      BY <1>5, <3>1
    <3> QED
      BY <1>4, <1>5, <3>2
  <2> QED
    BY <1>5, <2>1
<1>7. Is(g)
  <2> DEFINE h == [k \in 1..N |->
                     IF k = 1 THEN Dependents(i)
                     ELSE g[k - 1] \cup UNION {Dependents(j) : j \in g[k - 1]}]
  <2>1. ASSUME NEW k \in 1..N PROVE g[k] = h[k]
    <3>1. k = 1 \/ k \in 2..N
      BY <1>1
    <3> QED
      BY <1>6, <3>1
  <2>2. DOMAIN h = 1..N /\ DOMAIN g = 1..N
    BY <1>6
  <2>3. g = h
    BY <1>6, <2>1, <2>2
  <2> QED
    BY <2>3
<1> DEFINE chosen == CHOOSE up : Is(up)
<1>8. Is(chosen)
  BY <1>7
<1>9. Above(i) = chosen[N]
  BY DEF Above
<1> HIDE DEF chosen
<1>10. chosen = [k \in 1..N |->
                   IF k = 1 THEN Dependents(i)
                   ELSE chosen[k - 1] \cup UNION {Dependents(j) : j \in chosen[k - 1]}]
  BY <1>8
<1> HIDE DEF Is
<1>11. DOMAIN chosen = 1..N /\ chosen[1] = Dependents(i)
  <2>1. 1 \in 1..N
    BY <1>1
  <2> QED
    BY <1>10, <2>1
<1>12. ASSUME NEW k \in 2..N
       PROVE  chosen[k] = chosen[k - 1] \cup UNION {Dependents(j) : j \in chosen[k - 1]}
  <2>1. k \in 1..N /\ k # 1
    BY <1>1
  <2> QED
    BY <1>10, <2>1
<1>13. ASSUME NEW k \in 1..N PROVE chosen[k] = g[k]
  <2> DEFINE T == {x \in 1..N : chosen[x] = g[x]}
  <2>1. 1 \in T
    BY <1>1, <1>6, <1>11
  <2>2. ASSUME NEW x \in (1 + 1)..N, x - 1 \in T PROVE x \in T
    <3>1. x \in 1..N /\ x \in 2..N
      BY <1>1
    <3>2. chosen[x - 1] = g[x - 1]
      BY <2>2
    <3>3. chosen[x] = g[x]
      BY <1>6, <1>12, <3>1, <3>2
    <3> QED
      BY <3>1, <3>3
  <2> HIDE DEF T
  <2>3. 1..N \subseteq T
    BY <1>1, <2>1, <2>2, InductionUpTo
  <2> QED
    BY <2>3 DEF T
<1>14. N \in 1..N
  BY <1>1
<1> QED
  BY <1>6, <1>9, <1>13, <1>14

\* Above is the least set with the dependents of i and theirs: N steps are
\* enough, since every step that adds nothing is the last.
LEMMA AboveIs ==
  ASSUME NEW i \in Acts
  PROVE  /\ Above(i) \subseteq Acts
         /\ Dependents(i) \subseteq Above(i)
         /\ \A j \in Above(i) : Dependents(j) \subseteq Above(i)
         /\ \A S : /\ Dependents(i) \subseteq S
                   /\ \A j \in S : Dependents(j) \subseteq S
                   => Above(i) \subseteq S
<1>1. N \in Nat /\ N >= 1
  BY ActsAre DEF Acts
<1>2. PICK up \in [1..N -> SUBSET Acts] :
        /\ up[1] = Dependents(i) /\ up[N] = Above(i)
        /\ \A k \in 2..N :
             up[k] = up[k - 1] \cup UNION {Dependents(j) : j \in up[k - 1]}
  BY AboveSteps
<1> DEFINE Closed(T) == \A j \in T : Dependents(j) \subseteq T
<1>3. \A j : Dependents(j) \subseteq Acts
  BY DEF Dependents
<1>4. \A k \in 1..N : up[k] \subseteq Acts /\ IsFiniteSet(up[k]) /\ Cardinality(up[k]) \in Nat
  BY <1>2, ActsFinite
\* In every step something is added, or nothing in any later one.
<1>5. \A k \in 1..N : Closed(up[k]) \/ Cardinality(up[k]) >= k
  <2> DEFINE T == {k \in 1..N : Closed(up[k]) \/ Cardinality(up[k]) >= k}
  <2>1. 1 \in T
    <3>1. CASE up[1] = {}
      BY <1>1, <3>1
    <3>2. CASE up[1] # {}
      <4>1. IsFiniteSet(up[1]) /\ Cardinality(up[1]) \in Nat /\ 1 \in 1..N
        BY <1>1, <1>4
      <4>2. Cardinality(up[1]) # 0
        BY <3>2, <4>1, FS_EmptySet
      <4>3. Cardinality(up[1]) >= 1
        BY <4>1, <4>2
      <4> QED
        BY <4>1, <4>3
    <3> QED
      BY <3>1, <3>2
  <2>2. ASSUME NEW k \in (1 + 1)..N, k - 1 \in T PROVE k \in T
    <3> DEFINE a == k - 1
               A == up[a]
               B == up[k]
    <3>1. a \in 1..N /\ k \in 2..N /\ k \in 1..N /\ k = a + 1 /\ a \in Nat
      BY <1>1
    <3>2. Closed(A) \/ Cardinality(A) >= a
      BY <2>2
    <3>3. B = A \cup UNION {Dependents(j) : j \in A}
      BY <1>2, <3>1
    <3>4. /\ IsFiniteSet(A) /\ IsFiniteSet(B)
          /\ Cardinality(A) \in Nat /\ Cardinality(B) \in Nat
      BY <1>4, <3>1
    <3> HIDE DEF a, A, T
    <3>5. CASE Closed(A)
      <4> HIDE DEF B
      <4>1. B = A
        BY <3>3, <3>5
      <4> QED
        BY <3>1, <3>5, <4>1 DEF B, T
    <3>6. CASE ~ Closed(A)
      <4> HIDE DEF B
      <4>1. A \in SUBSET B /\ A # B
        BY <3>3, <3>6
      <4>2. Cardinality(A) <= Cardinality(B) /\ Cardinality(A) # Cardinality(B)
        BY <3>4, <4>1, FS_Subset
      <4>3. Cardinality(B) >= k
        BY <3>1, <3>2, <3>4, <3>6, <4>2
      <4> QED
        BY <3>1, <4>3 DEF B, T
    <3> QED
      BY <3>5, <3>6
  <2> HIDE DEF T
  <2>3. 1..N \subseteq T
    BY <1>1, <2>1, <2>2, InductionUpTo
  <2> QED
    BY <2>3 DEF T
<1>6. Closed(up[N])
  <2>1. N \in 1..N
    BY <1>1
  <2>2. CASE Cardinality(up[N]) >= N
    <3>1. up[N] \in SUBSET Acts /\ Cardinality(up[N]) <= Cardinality(Acts)
          /\ (Cardinality(Acts) = Cardinality(up[N]) => up[N] = Acts)
      <4>1. up[N] \in SUBSET Acts
        BY <1>4, <2>1
      <4> QED
        BY <4>1, ActsFinite, FS_Subset
    <3>2. Cardinality(up[N]) = N
      BY <1>1, <1>4, <2>1, <2>2, <3>1, ActsFinite
    <3>3. up[N] = Acts
      BY <3>1, <3>2, ActsFinite
    <3> QED
      BY <1>3, <3>3
  <2> QED
    BY <1>5, <2>1, <2>2
<1>7. Dependents(i) \subseteq up[N]
  <2> DEFINE T == {k \in 1..N : Dependents(i) \subseteq up[k]}
  <2>1. 1 \in T
    BY <1>1, <1>2
  <2>2. ASSUME NEW k \in (1 + 1)..N, k - 1 \in T PROVE k \in T
    <3>1. k \in 1..N /\ k \in 2..N
      BY <1>1
    <3>2. Dependents(i) \subseteq up[k - 1] /\ up[k - 1] \subseteq up[k]
      BY <1>2, <2>2, <3>1
    <3> QED
      BY <3>1, <3>2
  <2> HIDE DEF T
  <2>3. 1..N \subseteq T
    BY <1>1, <2>1, <2>2, InductionUpTo
  <2>4. N \in T
    BY <1>1, <2>3
  <2> QED
    BY <2>4 DEF T
<1>8. ASSUME NEW S, Dependents(i) \subseteq S, \A j \in S : Dependents(j) \subseteq S
      PROVE  Above(i) \subseteq S
  <2> DEFINE T == {k \in 1..N : up[k] \subseteq S}
  <2>1. 1 \in T
    BY <1>1, <1>2, <1>8
  <2>2. ASSUME NEW k \in (1 + 1)..N, k - 1 \in T PROVE k \in T
    <3>1. k \in 1..N /\ k \in 2..N
      BY <1>1
    <3>2. up[k] = up[k - 1] \cup UNION {Dependents(j) : j \in up[k - 1]}
      BY <1>2, <3>1
    <3>3. up[k - 1] \subseteq S
      BY <2>2
    <3>4. up[k] \subseteq S
      BY <1>8, <3>2, <3>3
    <3> QED
      BY <3>1, <3>4
  <2> HIDE DEF T
  <2>3. 1..N \subseteq T
    BY <1>1, <2>1, <2>2, InductionUpTo
  <2>4. N \in T
    BY <1>1, <2>3
  <2> QED
    BY <1>2, <2>4 DEF T
<1>9. N \in 1..N
  BY <1>1
<1> QED
  BY <1>2, <1>4, <1>6, <1>7, <1>8, <1>9

-----------------------------------------------------------------------------
(* The count of dependents.                                                *)

\* A set of finitely many numbers with some more.
LEMMA CountsNew ==
  ASSUME NEW S, NEW T, S \in SUBSET Acts, T \in SUBSET Acts, S \cap T = {},
         NEW r, r \in S
  PROVE  Cardinality((S \cup T) \ {r}) = Cardinality(S \ {r}) + Cardinality(T)
<1> DEFINE R == S \ {r}
<1>1. R \in SUBSET Acts /\ R \cap T = {} /\ (S \cup T) \ {r} = R \cup T
  OBVIOUS
<1> HIDE DEF R
<1>2. /\ IsFiniteSet(R) /\ Cardinality(R) \in Nat
      /\ IsFiniteSet(T) /\ Cardinality(T) \in Nat
  BY <1>1, ActsFinite
<1>3. Cardinality(R \cup T) = Cardinality(R) + Cardinality(T) - Cardinality(R \cap T)
  BY <1>2, FS_Union
<1>4. Cardinality(R \cap T) = 0
  BY <1>1, FS_EmptySet
<1>5. Cardinality(R \cup T) = Cardinality(R) + Cardinality(T)
  BY <1>2, <1>3, <1>4
<1> QED
  BY <1>1, <1>5 DEF R

\* The invariant of BlastRadiusFor's loop.
LEMMA BlastInductive ==
  /\ CritInit => BlastInv
  /\ CritKind /\ PhaseInv /\ BlastInv /\ [CritNext]_critVars => BlastInv'
<1>1. ASSUME CritInit PROVE BlastInv
  BY <1>1 DEF CritInit, BlastInv
<1>2. ASSUME CritKind, PhaseInv, BlastInv, [CritNext]_critVars PROVE BlastInv'
  <2> SUFFICES ASSUME doing' \in {"count", "counted"} PROVE BlastInv'
    BY DEF BlastInv
  <2>1. UNCHANGED deps
    BY <1>2 DEF CritNext, critVars, inputs, Find, Visit, Return, Walked, Collect,
                Counted, Look, BlastRadiusFor, Pop
  <2>2. \A i : Above(i)' = Above(i) /\ Dependents(i)' = Dependents(i)
    BY <2>1, AboveUnchanged DEF Dependents, InRange
  <2>3. CASE UNCHANGED <<blastVars, doing>>
    BY <1>2, <2>2, <2>3 DEF BlastInv, blastVars
  <2>4. CASE Counted
    BY <1>2, <2>2, <2>4 DEF BlastInv, blastVars, Counted
  <2>5. ASSUME NEW i \in Acts, BlastRadiusFor(i) PROVE BlastInv'
    <3>1. root' = i /\ seen' = {i} /\ unpopped' = {i} /\ radius' = radius
          /\ doing' = "count"
      BY <2>5 DEF BlastRadiusFor, Marked
    <3>2. radius = 0
      BY <1>2, <2>5 DEF PhaseInv, BlastRadiusFor
    <3>3. Cardinality(seen' \ {root'}) = 0
      <4>1. seen' \ {root'} = {}
        BY <3>1
      <4> QED
        BY <4>1, FS_EmptySet
    <3> QED
      BY <3>1, <3>2, <3>3 DEF BlastInv
  <2>6. ASSUME NEW i \in Acts, Pop(i) PROVE BlastInv'
    <3> DEFINE new == Dependents(i) \ seen
    <3>1. /\ seen' = seen \cup new /\ unpopped' = (unpopped \ {i}) \cup new
          /\ radius' = radius + Cardinality(new) /\ root' = root
          /\ doing = "count" /\ doing' = "count" /\ i \in unpopped
      BY <2>6 DEF Pop
    <3>2. /\ root \in Acts /\ root \in seen /\ unpopped \subseteq seen
          /\ seen \ {root} \subseteq Above(root)
          /\ \A j \in seen \ unpopped : Dependents(j) \subseteq seen
          /\ radius = Cardinality(seen \ {root})
          /\ seen \subseteq Acts
      BY <1>2, <3>1 DEF BlastInv, CritKind
    <3>3. Dependents(i) \subseteq Above(root)
      <4>1. /\ Dependents(root) \subseteq Above(root)
            /\ \A j \in Above(root) : Dependents(j) \subseteq Above(root)
        BY <3>2, AboveIs
      <4> QED
        BY <3>1, <3>2, <4>1
    <3>4. new \subseteq Acts /\ new \cap seen = {} /\ new \subseteq Above(root)
          /\ Dependents(i) \subseteq seen \cup new
      BY <3>3 DEF Dependents
    <3> HIDE DEF new
    <3>5. Cardinality((seen \cup new) \ {root}) =
            Cardinality(seen \ {root}) + Cardinality(new)
      <4>1. seen \in SUBSET Acts /\ new \in SUBSET Acts /\ seen \cap new = {}
        BY <3>2, <3>4
      <4> QED
        BY <3>2, <4>1, CountsNew
    <3>6. root' \in Acts /\ root' \in seen' /\ unpopped' \subseteq seen'
      BY <3>1, <3>2
    <3>7. seen' \ {root'} \subseteq Above(root)'
      BY <2>2, <3>1, <3>2, <3>4
    <3>8. \A j \in seen' \ unpopped' : Dependents(j)' \subseteq seen'
      BY <2>2, <3>1, <3>2, <3>4
    <3>9. radius' = Cardinality(seen' \ {root'})
      BY <3>1, <3>2, <3>5
    <3> QED
      BY <3>1, <3>6, <3>7, <3>8, <3>9 DEF BlastInv
  <2>7. CASE Find \/ Visit \/ Return \/ Walked \/ Collect \/ \E i \in Acts : Look(i)
    BY <1>2, <2>3, <2>7
       DEF Find, Visit, Return, Walked, Collect, Look, PhaseInv
  <2>8. CASE UNCHANGED critVars
    BY <2>3, <2>8 DEF critVars
  <2> QED
    BY <1>2, <2>4, <2>5, <2>6, <2>7, <2>8 DEF CritNext
<1> QED
  BY <1>1, <1>2

\* "How many other actions depend on it transitively" (BlastRadius): whatever
\* the graph, BlastRadiusFor counts each dependent once and never the action
\* itself.
THEOREM BlastIsCounted == CritSpec => []BlastIsReach
<1> DEFINE Inv == WalkInv /\ BlastInv
<1>1. CritInit => Inv
  BY WalkInductive, BlastInductive
<1>2. Inv /\ [CritNext]_critVars => Inv'
  BY WalkInductive, BlastInductive DEF WalkInv
<1>3. ASSUME Inv PROVE BlastIsReach
  <2> SUFFICES ASSUME doing = "counted"
               PROVE  radius = Cardinality(Above(root) \ {root})
    BY DEF BlastIsReach
  <2>1. /\ root \in Acts /\ root \in seen /\ unpopped = {}
        /\ seen \ {root} \subseteq Above(root)
        /\ \A i \in seen : Dependents(i) \subseteq seen
        /\ radius = Cardinality(seen \ {root})
    BY <1>3 DEF BlastInv
  <2>2. Above(root) \subseteq seen
    BY <2>1, AboveIs
  <2>3. seen \ {root} = Above(root) \ {root}
    BY <2>1, <2>2
  <2> QED
    BY <2>1, <2>3
<1> QED
  BY <1>1, <1>2, <1>3, PTL DEF CritSpec
-----------------------------------------------------------------------------
(* The weight of a sequence of actions, summed from its leaf.              *)

\* The weight of a chain is a running sum along it.
LEMMA WeightSteps ==
  ASSUME work \in [Acts -> Nat], NEW n \in Nat, NEW s \in [1..n -> Acts]
  PROVE  \E w \in [0..n -> Nat] :
           /\ w[0] = 0 /\ w[n] = Weight(s)
           /\ \A k \in 1..n : w[k] = w[k - 1] + work[s[k]]
<1>1. Len(s) = n /\ \A k \in 1..n : s[k] \in Acts /\ work[s[k]] \in Nat
  BY LenProperties
<1> DEFINE Adds(k) == IF k \in 1..n THEN work[s[k]] ELSE 0
           F == [k \in Nat |-> [x \in Nat |-> x + Adds(k)]]
           Is(w) == w = [k \in 0..n |-> IF k = 0 THEN 0 ELSE w[k - 1] + work[s[k]]]
<1>2. F \in [Nat -> [Nat -> Nat]]
  <2>1. \A k \in Nat : Adds(k) \in Nat
    BY <1>1
  <2> HIDE DEF Adds
  <2> QED
    BY <2>1, SMTT(60)
<1>3. \A k \in 1..n, x \in Nat : F[k][x] = x + work[s[k]]
  OBVIOUS
<1> HIDE DEF F
<1>4. PICK g \in [0..n -> Nat] : g[0] = 0 /\ \A k \in 1..n : g[k] = F[k][g[k - 1]]
  <2> DEFINE m == 0
  <2>1. m \in Nat /\ 0 \in Nat /\ m <= n
    OBVIOUS
  <2> HIDE DEF m
  <2>2. PICK g \in [m..n -> Nat] : Iterates(g, 0, F, m, n)
    BY <1>2, <2>1, Iteration
  <2>3. \A k \in 1..n : k \in (m + 1)..n
    BY DEF m
  <2>4. /\ g \in [m..n -> Nat] /\ g[m] = 0
        /\ \A k \in (m + 1)..n : g[k] = F[k][g[k - 1]]
    BY <2>2 DEF Iterates
  <2>5. \A k \in 1..n : g[k] = F[k][g[k - 1]]
    BY <2>3, <2>4
  <2>6. g \in [0..n -> Nat] /\ g[0] = 0
    BY <2>4 DEF m
  <2> QED
    BY <2>5, <2>6
<1>5. \A k \in 1..n : g[k] = g[k - 1] + work[s[k]]
  <2>1. \A k \in 1..n : k - 1 \in 0..n
    OBVIOUS
  <2> QED
    BY <1>3, <1>4, <2>1
<1>6. Is(g)
  <2> DEFINE h == [k \in 0..n |-> IF k = 0 THEN 0 ELSE g[k - 1] + work[s[k]]]
  <2>1. ASSUME NEW k \in 0..n PROVE g[k] = h[k]
    <3>1. k = 0 \/ (k # 0 /\ k \in 1..n)
      OBVIOUS
    <3> QED
      BY <1>4, <1>5, <3>1
  <2>2. DOMAIN h = 0..n /\ DOMAIN g = 0..n
    OBVIOUS
  <2>3. g = h
    BY <2>1, <2>2
  <2> QED
    BY <2>3
<1> DEFINE chosen == CHOOSE w : Is(w)
<1>7. Is(chosen)
  BY <1>6
<1>8. Weight(s) = chosen[n]
  BY <1>1 DEF Weight
<1> HIDE DEF chosen
<1>9. chosen = [k \in 0..n |-> IF k = 0 THEN 0 ELSE chosen[k - 1] + work[s[k]]]
  BY <1>7
<1> HIDE DEF Is
<1>10. chosen[0] = 0 /\ \A k \in 1..n : chosen[k] = chosen[k - 1] + work[s[k]]
  <2>1. 0 \in 0..n
    OBVIOUS
  <2>2. ASSUME NEW k \in 1..n PROVE chosen[k] = chosen[k - 1] + work[s[k]]
    <3>1. k \in 0..n /\ k # 0
      OBVIOUS
    <3> QED
      BY <1>9, <3>1
  <2> QED
    BY <1>9, <2>1, <2>2
<1>11. \A k \in 0..n : chosen[k] = g[k]
  <2> DEFINE T == {k \in 0..n : chosen[k] = g[k]}
  <2>1. 0 \in T
    BY <1>4, <1>10
  <2>2. ASSUME NEW k \in (0 + 1)..n, k - 1 \in T PROVE k \in T
    <3>1. k \in 1..n /\ k \in 0..n
      OBVIOUS
    <3>2. chosen[k - 1] = g[k - 1]
      BY <2>2
    <3>3. chosen[k] = g[k]
      BY <1>5, <1>10, <3>1, <3>2
    <3> QED
      BY <3>1, <3>3
  <2> HIDE DEF T
  <2>3. 0..n \subseteq T
    BY <2>1, <2>2, InductionUpTo
  <2> QED
    BY <2>3 DEF T
<1>12. g[n] = Weight(s)
  BY <1>8, <1>11
<1> QED
  BY <1>4, <1>5, <1>12

\* A sum of what f grows by at each element is what f is at the last.
LEMMA WeightIsLast ==
  ASSUME work \in [Acts -> Nat], cost \in [Acts -> Nat],
         NEW n \in Nat \ {0}, NEW s \in [1..n -> Acts],
         cost[s[1]] = work[s[1]],
         \A k \in 2..n : cost[s[k]] = work[s[k]] + cost[s[k - 1]]
  PROVE  Weight(s) = cost[s[n]]
<1>1. PICK w \in [0..n -> Nat] :
        /\ w[0] = 0 /\ w[n] = Weight(s)
        /\ \A k \in 1..n : w[k] = w[k - 1] + work[s[k]]
  BY WeightSteps
<1> DEFINE T == {k \in 1..n : w[k] = cost[s[k]]}
<1>2. 1 \in T
  <2>1. 1 \in 1..n /\ s[1] \in Acts
    OBVIOUS
  <2>2. w[1] = w[0] + work[s[1]]
    BY <1>1, <2>1
  <2>3. work[s[1]] \in Nat
    BY <2>1
  <2>4. w[1] = work[s[1]]
    BY <1>1, <2>2, <2>3
  <2> QED
    BY <2>1, <2>4
<1>3. ASSUME NEW k \in (1 + 1)..n, k - 1 \in T PROVE k \in T
  <2>1. k \in 1..n /\ k \in 2..n /\ k - 1 \in 1..n
    OBVIOUS
  <2> DEFINE a == s[k]  b == s[k - 1]  u == w[k - 1]  v == w[k]
  <2>2. a \in Acts /\ b \in Acts /\ work[a] \in Nat /\ cost[b] \in Nat /\ u \in Nat
    BY <2>1, SMTT(60)
  <2>3. v = u + work[a] /\ u = cost[b] /\ cost[a] = work[a] + cost[b]
    BY <1>1, <1>3, <2>1
  <2> HIDE DEF a, b, u, v
  <2>4. v = cost[a]
    BY <2>2, <2>3
  <2> QED
    BY <2>1, <2>4 DEF a, v
<1> HIDE DEF T
<1>4. 1..n \subseteq T
  BY <1>2, <1>3, InductionUpTo
<1>5. n \in T
  BY <1>4
<1> QED
  BY <1>1, <1>5 DEF T

\* A sum of elements each of which f outgrows is at most what f is at the last.
LEMMA WeightIsAtMostLast ==
  ASSUME work \in [Acts -> Nat], cost \in [Acts -> Nat],
         NEW n \in Nat \ {0}, NEW s \in [1..n -> Acts],
         work[s[1]] <= cost[s[1]],
         \A k \in 2..n : work[s[k]] + cost[s[k - 1]] <= cost[s[k]]
  PROVE  Weight(s) <= cost[s[n]]
<1>1. PICK w \in [0..n -> Nat] :
        /\ w[0] = 0 /\ w[n] = Weight(s)
        /\ \A k \in 1..n : w[k] = w[k - 1] + work[s[k]]
  BY WeightSteps
<1> DEFINE T == {k \in 1..n : w[k] <= cost[s[k]]}
<1>2. 1 \in T
  <2>1. 1 \in 1..n /\ s[1] \in Acts
    OBVIOUS
  <2>2. w[1] = w[0] + work[s[1]]
    BY <1>1, <2>1
  <2>3. work[s[1]] \in Nat
    BY <2>1
  <2>4. w[1] = work[s[1]]
    BY <1>1, <2>2, <2>3
  <2> QED
    BY <2>1, <2>4
<1>3. ASSUME NEW k \in (1 + 1)..n, k - 1 \in T PROVE k \in T
  <2>1. k \in 1..n /\ k \in 2..n /\ k - 1 \in 1..n
    OBVIOUS
  <2> DEFINE a == s[k]  b == s[k - 1]  u == w[k - 1]  v == w[k]
  <2>2. /\ a \in Acts /\ b \in Acts /\ work[a] \in Nat
        /\ cost[a] \in Nat /\ cost[b] \in Nat /\ u \in Nat
    BY <2>1, SMTT(60)
  <2>3. v = u + work[a] /\ u <= cost[b] /\ work[a] + cost[b] <= cost[a]
    BY <1>1, <1>3, <2>1
  <2> HIDE DEF a, b, u, v
  <2>4. v <= cost[a]
    BY <2>2, <2>3
  <2> QED
    BY <2>1, <2>4 DEF a, v
<1> HIDE DEF T
<1>4. 1..n \subseteq T
  BY <1>2, <1>3, InductionUpTo
<1>5. n \in T
  BY <1>4
<1> QED
  BY <1>1, <1>5 DEF T
-----------------------------------------------------------------------------
(* What Find returns.                                                      *)

\* The path that was collected weighs its total.
LEMMA PathWeighs ==
  ASSUME WalkInv, doing = "found" PROVE Weight(path) = total
<1>0. CritKind /\ PhaseInv /\ LinkInv /\ TotalInv /\ PathInv
  BY DEF WalkInv
<1>1. /\ work \in [Acts -> Nat] /\ cost \in [Acts -> Nat] /\ next \in [Acts -> Acts \cup {0}]
      /\ path \in Seq(Acts) /\ total \in Nat
  BY <1>0 DEF CritKind
<1>n. PICK n \in Nat : n = Len(path)
  BY <1>1
<1>s. PICK s \in [1..n -> Acts] : s = path
  BY <1>1, <1>n
<1>2. \A i \in Acts :
        IF next[i] = 0 THEN cost[i] = work[i] ELSE cost[i] = work[i] + cost[next[i]]
  BY <1>0 DEF LinkInv, TotalInv
<1>3. /\ visiting = 0
      /\ \A k \in 1..(n - 1) : next[s[k + 1]] = s[k]
      /\ IF path = <<>> THEN visiting = (IF total = 0 THEN 0 ELSE start)
         ELSE next[s[1]] = visiting /\ s[n] = start /\ total # 0
      /\ total # 0 => start \in Acts /\ cost[start] = total
  BY <1>0, <1>n, <1>s DEF PhaseInv, PathInv, TotalInv
<1>4. CASE n = 0
  <2>1. path = <<>>
    BY <1>1, <1>n, <1>4, EmptySeq
  <2>2. total = 0
    BY <1>3, <2>1, ActsAre
  <2>3. Weight(s) = 0
    BY <1>1, <1>4, WeightSteps
  <2> QED
    BY <1>s, <2>2, <2>3
<1>5. CASE n # 0
  <2>1. path # <<>> /\ n \in Nat \ {0}
    BY <1>n, <1>5
  <2>2. cost[s[1]] = work[s[1]]
    <3>1. s[1] \in Acts
      BY <2>1
    <3> QED
      BY <1>2, <1>3, <2>1, <3>1
  <2>3. ASSUME NEW k \in 2..n PROVE cost[s[k]] = work[s[k]] + cost[s[k - 1]]
    <3> DEFINE j == k - 1
    <3>1. j \in 1..(n - 1) /\ j \in 1..n /\ j + 1 = k /\ k \in 1..n
      BY <2>1
    <3> HIDE DEF j
    <3>2. next[s[k]] = s[j] /\ s[k] \in Acts /\ s[j] \in Acts
      BY <1>3, <3>1
    <3>3. next[s[k]] # 0
      BY <3>2, ActsAre
    <3> QED
      BY <1>2, <3>2, <3>3 DEF j
  <2>4. Weight(s) = cost[s[n]]
    BY <1>1, <2>1, <2>2, <2>3, WeightIsLast
  <2> QED
    BY <1>3, <1>s, <2>1, <2>4
<1> QED
  BY <1>4, <1>5

\* What Find returns is a chain that repeats no action and weighs its total,
\* whatever the graph: on a cycle too the walk ends at what is in progress.
THEOREM PathIsReal == CritSpec => []PathIsAChain
<1>1. ASSUME WalkInv PROVE PathIsAChain
  <2>0. CritKind /\ LinkInv /\ RankInv /\ TotalInv /\ PathInv
    BY <1>1 DEF WalkInv
  <2> SUFFICES ASSUME doing \in {"collect", "found"}
               PROVE  /\ IsChain(path)
                      /\ doing = "found" =>
                           /\ Weight(path) = total
                           /\ \A i \in Acts : work[i] <= total
    BY DEF PathIsAChain
  <2>1. \A i \in Acts : Done(i) /\ cost[i] <= total
    BY <2>0 DEF TotalInv
  <2>2. /\ work \in [Acts -> Nat] /\ cost \in [Acts -> Nat]
        /\ next \in [Acts -> Acts \cup {0}] /\ total \in Nat
        /\ path \in Seq(Acts)
    BY <2>0 DEF CritKind
  <2>3. Len(path) \in Nat /\ DOMAIN path = 1..Len(path)
        /\ \A k \in DOMAIN path : path[k] \in Acts
    BY <2>2
  <2>4. ASSUME NEW k \in 1..(Len(path) - 1) PROVE path[k] \in deps[path[k + 1]]
    <3> DEFINE j == k + 1
    <3>1. k \in DOMAIN path /\ j \in DOMAIN path
      BY <2>3
    <3>2. next[path[j]] = path[k]
      BY <2>0 DEF PathInv
    <3> HIDE DEF j
    <3>3. path[k] \in Acts /\ path[j] \in Acts /\ next[path[j]] # 0
      BY <2>3, <3>1, <3>2, ActsAre
    <3>4. next[path[j]] \in deps[path[j]]
      BY <2>0, <2>1, <3>3 DEF LinkInv
    <3> QED
      BY <3>2, <3>4 DEF j
  <2>5. ASSUME NEW j \in DOMAIN path, NEW k \in DOMAIN path, path[j] = path[k] PROVE j = k
    <3>1. PICK rank \in Ranks : Falls(rank)
      BY <2>0 DEF RankInv
    <3>2. \A i \in Acts : rank[i] \in Nat
      BY DEF Ranks
    <3>3. j \in Nat /\ k \in Nat /\ rank[path[j]] \in Nat
      BY <2>3, <3>2
    <3>4. ~ (j < k) /\ ~ (k < j)
      BY <2>5, <3>1, <3>3 DEF Falls
    <3> QED
      BY <3>3, <3>4
  <2>6. \A i \in Acts : work[i] <= total
    <3> TAKE i \in Acts
    <3>1. work[i] <= cost[i]
      <4>1. work[i] \in Nat /\ cost[i] \in Nat /\ (next[i] # 0 => cost[next[i]] \in Nat)
        BY <2>2
      <4>2. CASE next[i] = 0
        <5>1. cost[i] = work[i]
          BY <2>0, <2>1, <4>2 DEF LinkInv
        <5> QED
          BY <4>1, <5>1
      <4>3. CASE next[i] # 0
        <5>1. cost[i] = work[i] + cost[next[i]]
          BY <2>0, <2>1, <4>3 DEF LinkInv
        <5> QED
          BY <4>1, <4>3, <5>1
      <4> QED
        BY <4>2, <4>3
    <3>2. work[i] \in Nat /\ cost[i] \in Nat /\ cost[i] <= total
      BY <2>1, <2>2
    <3> QED
      BY <2>2, <3>1, <3>2
  <2> QED
    BY <1>1, <2>4, <2>5, <2>6, PathWeighs DEF IsChain
<1> QED
  BY <1>1, WalkInductive, PTL DEF CritSpec
-----------------------------------------------------------------------------
(* Without cycles nothing is left out.                                     *)

\* A dependency in progress would be a call that the innermost one was made
\* for, so it would depend on itself.
LEMMA NoBackEdge ==
  ASSUME CritKind, StackInv, Acyclic, stack # <<>>, NEW d \in Acts,
         d \in deps[stack[1].at]
  PROVE  state[d] # "in progress"
<1>s. SUFFICES ASSUME state[d] = "in progress" PROVE FALSE
  OBVIOUS
<1>1. Len(stack) \in Nat /\ DOMAIN stack = 1..Len(stack) /\ Len(stack) > 0
      /\ \A k \in 1..Len(stack) : stack[k] \in Calls
  BY Stacked DEF CritKind
<1>2. \A k \in 1..Len(stack) : stack[k].at \in Acts
  BY <1>1 DEF Calls
<1>n. PICK n \in Nat : n = Len(stack)
  BY <1>1
<1>i. /\ n > 0 => 1 \in 1..n
      /\ \A k \in (1 + 1)..n : k \in 1..n /\ k - 1 \in 1..n /\ k - 1 \in 1..(n - 1)
                             /\ k - 1 + 1 = k
  OBVIOUS
<1>3. PICK m \in 1..n : stack[m].at = d
  BY <1>s, <1>1, <1>n DEF StackInv
<1>4. Dependents(d) \subseteq Above(d) /\ \A j \in Above(d) : Dependents(j) \subseteq Above(d)
  BY AboveIs
<1>5. \A i \in Acts, j \in Acts : j \in deps[i] => i \in Dependents(j)
  BY DEF Dependents, InRange
<1> DEFINE T == {k \in 1..n : stack[k].at \in Above(d)}
<1>6. 1 \in T
  <2>1. 1 \in 1..n /\ 1 \in 1..Len(stack)
    BY <1>1, <1>n, <1>i
  <2>2. stack[1].at \in Dependents(d)
    BY <1>2, <1>5, <2>1
  <2> QED
    BY <1>4, <2>1, <2>2
<1>7. ASSUME NEW k \in (1 + 1)..n, k - 1 \in T PROVE k \in T
  <2> DEFINE j == k - 1
  <2>1. j \in 1..n /\ k \in 1..n /\ j \in 1..(Len(stack) - 1) /\ j + 1 = k
    BY <1>n, <1>i
  <2>2. stack[j].at \in Above(d)
    BY <1>7
  <2> HIDE DEF j
  <2>3. stack[j].at \in deps[stack[k].at]
    BY <2>1 DEF StackInv
  <2>4. stack[k].at \in Dependents(stack[j].at)
    BY <1>2, <1>5, <1>n, <2>1, <2>3
  <2>5. stack[k].at \in Above(d)
    BY <1>4, <2>2, <2>4
  <2> QED
    BY <2>1, <2>5
<1> HIDE DEF T
<1>8. 1..n \subseteq T
  BY <1>6, <1>7, InductionUpTo
<1>9. d \in Above(d)
  BY <1>3, <1>8 DEF T
<1> QED
  BY <1>9 DEF Acyclic

\* Whether the graph has a cycle is a matter of deps alone.
LEMMA AcyclicUnchanged == UNCHANGED deps => (Acyclic' <=> Acyclic)
BY AboveUnchanged DEF Acyclic

\* A call that is made has looked at nothing.
LEMMA EnterKeepsHeaviest ==
  ASSUME CritKind, HeaviestInv, NEW i \in Acts, Enter(i), UNCHANGED <<deps, work, cost>>
  PROVE  HeaviestInv'
<1> SUFFICES ASSUME Acyclic' PROVE HeaviestInv'
  BY DEF HeaviestInv
<1>a. Acyclic
  BY AcyclicUnchanged
<1>l. Len(stack) \in Nat /\ DOMAIN stack' = 1..(Len(stack) + 1)
      /\ DOMAIN stack = 1..Len(stack)
  BY Entering
<1>1. /\ state[i] = "unvisited" /\ state' = [state EXCEPT ![i] = "in progress"]
      /\ stack'[1] = Call(i)
      /\ \A k \in 1..Len(stack) : stack'[k + 1] = stack[k]
  BY Entering
<1>2. \A j \in Acts : Done(j)' <=> Done(j)
  BY <1>1 DEF CritKind, Done
<1>3. \A j \in Acts : Done(j) =>
        \A d \in InRange(deps[j]) : Done(d) /\ work[j] + cost[d] <= cost[j]
  BY <1>a DEF HeaviestInv
<1>4. \A k \in DOMAIN stack : \A d \in InRange(deps[stack[k].at]) \ stack[k].todo :
        Done(d) /\ cost[d] <= stack[k].best
  BY <1>a DEF HeaviestInv
<1>5. ASSUME NEW j \in Acts, Done(j)', NEW d \in InRange(deps'[j])
      PROVE  Done(d)' /\ work'[j] + cost'[d] <= cost'[j]
  BY <1>2, <1>3, <1>5 DEF InRange
<1>6. ASSUME NEW k \in DOMAIN stack',
             NEW d \in InRange(deps'[stack'[k].at]) \ stack'[k].todo
      PROVE  Done(d)' /\ cost'[d] <= stack'[k].best
  <2>1. CASE k = 1
    <3>1. InRange(deps'[stack'[k].at]) \ stack'[k].todo = {}
      <4>1. Call(i).at = i /\ Call(i).todo = InRange(deps[i])
        BY CallIs
      <4> QED
        BY <1>1, <2>1, <4>1 DEF InRange
    <3> QED
      BY <3>1
  <2>2. CASE k # 1
    <3> DEFINE j == k - 1
    <3>1. j \in DOMAIN stack /\ j \in 1..Len(stack) /\ j + 1 = k
      BY <1>l, <2>2
    <3> HIDE DEF j
    <3>2. stack'[k] = stack[j]
      BY <1>1, <3>1
    <3>3. Done(d) /\ cost[d] <= stack[j].best /\ d \in Acts
      BY <1>4, <3>1, <3>2 DEF InRange
    <3> QED
      BY <1>2, <3>2, <3>3
  <2> QED
    BY <2>1, <2>2
<1> QED
  BY <1>5, <1>6 DEF HeaviestInv, InRange

\* A call is told the cost of a dependency that is done: none is in progress.
LEMMA TellKeepsHeaviest ==
  ASSUME CritKind, StackInv, HeaviestInv, NEW d \in Acts, stack # <<>>,
         d \in Head(stack).todo, Entered(d),
         stack' = <<Told(Head(stack), d, Answer(d))>> \o Tail(stack),
         UNCHANGED <<deps, work, state, cost>>
  PROVE  HeaviestInv'
<1> SUFFICES ASSUME Acyclic' PROVE HeaviestInv'
  BY DEF HeaviestInv
<1>a. Acyclic
  BY AcyclicUnchanged
<1>l. /\ Len(stack) \in Nat /\ Len(stack) > 0
      /\ DOMAIN stack' = DOMAIN stack /\ DOMAIN stack = 1..Len(stack)
  BY Telling
<1>d. 1 \in DOMAIN stack /\ \A k \in DOMAIN stack : k # 1 => k \in 2..Len(stack)
  BY <1>l
<1>1. /\ stack'[1] = Told(stack[1], d, Answer(d)) /\ Head(stack) = stack[1]
      /\ \A k \in DOMAIN stack : stack[k] \in Calls
      /\ \A k \in DOMAIN stack : k # 1 => stack'[k] = stack[k]
  BY <1>l, <1>d, Telling
<1>2. Done(d) /\ Answer(d) = cost[d]
  <2>1. d \in deps[stack[1].at]
    BY <1>1, <1>d DEF StackInv, Framed
  <2>2. state[d] # "in progress" /\ state[d] # "unvisited"
    BY <1>a, <2>1, NoBackEdge DEF Entered
  <2> QED
    BY <2>2 DEF CritKind, Done, Answer
<1>c. PICK c \in Nat : c = cost[d]
  BY DEF CritKind
<1>f. PICK f \in Calls : f = stack[1]
  BY <1>1, <1>d
<1>g. PICK g \in Calls : g = Told(f, d, c)
  BY ToldIs
<1>3. /\ g.at = f.at /\ g.todo = f.todo \ {d} /\ f.best \in Nat /\ g.best \in Nat
      /\ c <= g.best /\ f.best <= g.best
  <2>1. f.best \in Nat
    BY DEF Calls
  <2>2. /\ g.at = f.at /\ g.todo = f.todo \ {d}
        /\ c > f.best => g.best = c
        /\ ~ (c > f.best) => g.best = f.best
    BY <1>g, ToldIs
  <2>3. g.best \in Nat /\ c <= g.best /\ f.best <= g.best
    BY <2>1, <2>2
  <2> QED
    BY <2>1, <2>2, <2>3
<1>4. stack'[1] = g
  BY <1>1, <1>2, <1>c, <1>f, <1>g
<1>5. \A j \in Acts : Done(j) =>
        \A e \in InRange(deps[j]) : Done(e) /\ work[j] + cost[e] <= cost[j]
  BY <1>a DEF HeaviestInv
<1>6. \A k \in DOMAIN stack : \A e \in InRange(deps[stack[k].at]) \ stack[k].todo :
        Done(e) /\ cost[e] <= stack[k].best
  BY <1>a DEF HeaviestInv
<1>7. ASSUME NEW k \in DOMAIN stack',
             NEW e \in InRange(deps'[stack'[k].at]) \ stack'[k].todo
      PROVE  Done(e)' /\ cost'[e] <= stack'[k].best
  <2>1. CASE k = 1
    <3>1. CASE e = d
      BY <1>2, <1>3, <1>4, <1>c, <2>1, <3>1 DEF Done
    <3>2. CASE e # d
      <4>1. e \in InRange(deps[f.at]) \ f.todo /\ e \in Acts
        BY <1>3, <1>4, <1>7, <2>1, <3>2 DEF InRange
      <4>2. Done(e) /\ cost[e] <= f.best
        BY <1>6, <1>d, <1>f, <4>1
      <4>3. cost[e] \in Nat
        BY <4>1 DEF CritKind
      <4>4. cost[e] <= g.best
        BY <1>3, <4>2, <4>3
      <4> QED
        BY <1>4, <2>1, <4>2, <4>4 DEF Done
    <3> QED
      BY <3>1, <3>2
  <2>2. CASE k # 1
    <3>1. k \in DOMAIN stack /\ stack'[k] = stack[k]
      BY <1>1, <1>l, <2>2
    <3>2. e \in InRange(deps[stack[k].at]) \ stack[k].todo
      BY <1>7, <3>1
    <3>3. Done(e) /\ cost[e] <= stack[k].best
      BY <1>6, <3>1, <3>2
    <3> QED
      BY <3>1, <3>3 DEF Done
  <2> QED
    BY <2>1, <2>2
<1>8. ASSUME NEW j \in Acts, Done(j)', NEW e \in InRange(deps'[j])
      PROVE  Done(e)' /\ work'[j] + cost'[e] <= cost'[j]
  BY <1>5, <1>8 DEF Done
<1> QED
  BY <1>7, <1>8 DEF HeaviestInv, InRange

\* What returns has looked at all dependencies, and its caller is told.
LEMMA ReturnKeepsHeaviest ==
  ASSUME CritKind, StackInv, HeaviestInv, Return
  PROVE  HeaviestInv'
<1> SUFFICES ASSUME Acyclic' PROVE HeaviestInv'
  BY DEF HeaviestInv
<1>u. UNCHANGED <<deps, work>>
  BY DEF Return, inputs
<1>a. Acyclic
  BY <1>u, AcyclicUnchanged
<1>l. /\ Len(stack) \in Nat /\ Len(stack) > 0
      /\ DOMAIN stack' = 1..(Len(stack) - 1) /\ DOMAIN stack = 1..Len(stack)
  BY Returning
<1>d. /\ 1 \in DOMAIN stack
      /\ \A k \in DOMAIN stack' : k + 1 \in DOMAIN stack /\ k + 1 # 1
      /\ \A k \in DOMAIN stack' : k = 1 => Len(stack) > 1 /\ k + 1 = 2
      /\ \A k \in DOMAIN stack' : k # 1 => k \in 2..(Len(stack) - 1)
  BY <1>l
<1>c. \A k \in DOMAIN stack : stack[k] \in Calls
  BY <1>l, Returning
<1>f. PICK f \in Calls : f = stack[1]
  BY <1>c, <1>d
<1>b. PICK a \in Acts : a = f.at
  BY DEF Calls
<1>1. /\ f.todo = {}
      /\ Len(stack) > 1 => stack'[1] = Told(stack[2], a, cost'[a])
      /\ \A k \in DOMAIN stack' : k # 1 => stack'[k] = stack[k + 1]
  BY <1>l, <1>d, <1>c, <1>f, <1>b, Returning
<1>2. /\ cost' = [cost EXCEPT ![a] = work[a] + f.best]
      /\ state' = [state EXCEPT ![a] = "done"]
      /\ cost'[a] = work[a] + f.best /\ cost'[a] \in Nat
  BY <1>f, <1>b, Returning
<1>3. /\ state \in [Acts -> {"unvisited", "in progress", "done"}]
      /\ cost \in [Acts -> Nat] /\ work \in [Acts -> Nat] /\ f.best \in Nat
  BY DEF CritKind, Calls
<1>4. /\ state'[a] = "done"
      /\ \A i \in Acts : i # a => state'[i] = state[i] /\ cost'[i] = cost[i]
  BY <1>2, <1>3
<1>5. state[a] = "in progress"
  BY <1>d, <1>f, <1>b DEF StackInv
<1>6. ~ Done(a) /\ Done(a)' /\ \A i \in Acts : i # a => (Done(i)' <=> Done(i))
  BY <1>4, <1>5 DEF Done
<1>7. \A j \in Acts : Done(j) =>
        \A d \in InRange(deps[j]) : Done(d) /\ work[j] + cost[d] <= cost[j]
  BY <1>a DEF HeaviestInv
<1>8. \A k \in DOMAIN stack : \A d \in InRange(deps[stack[k].at]) \ stack[k].todo :
        Done(d) /\ cost[d] <= stack[k].best
  BY <1>a DEF HeaviestInv
\* What was done stays done at its cost.
<1>9. \A d \in Acts : Done(d) => Done(d)' /\ cost'[d] = cost[d]
  BY <1>4, <1>6
<1>10. ASSUME NEW j \in Acts, Done(j)', NEW d \in InRange(deps'[j])
       PROVE  Done(d)' /\ work'[j] + cost'[d] <= cost'[j]
  <2>0. d \in Acts /\ d \in InRange(deps[j])
    BY <1>u, <1>10 DEF InRange
  <2>1. CASE j = a
    <3>1. d \in InRange(deps[stack[1].at]) \ stack[1].todo
      BY <1>1, <1>f, <1>b, <2>0, <2>1
    <3>2. Done(d) /\ cost[d] <= f.best
      BY <1>8, <1>d, <1>f, <3>1
    <3>3. Done(d)' /\ cost'[d] <= f.best /\ cost'[d] \in Nat
      BY <1>3, <1>9, <2>0, <3>2
    <3>4. work[a] \in Nat /\ work'[a] = work[a]
      BY <1>u, <1>3
    <3>5. work[a] + cost'[d] <= work[a] + f.best
      <4>1. \A x, y, z \in Nat : y <= z => x + y <= x + z
        OBVIOUS
      <4> QED
        BY <1>3, <3>3, <3>4, <4>1
    <3> QED
      BY <1>2, <2>1, <3>3, <3>4, <3>5
  <2>2. CASE j # a
    <3>1. Done(j)
      BY <1>6, <1>10, <2>2
    <3>2. Done(d) /\ work[j] + cost[d] <= cost[j]
      BY <1>7, <2>0, <3>1
    <3> QED
      BY <1>u, <1>9, <2>0, <3>1, <3>2
  <2> QED
    BY <2>1, <2>2
<1>11. ASSUME NEW k \in DOMAIN stack',
              NEW d \in InRange(deps'[stack'[k].at]) \ stack'[k].todo
       PROVE  Done(d)' /\ cost'[d] <= stack'[k].best
  <2>0. d \in Acts
    BY <1>11 DEF InRange
  <2>1. CASE k = 1
    <3>h. PICK h \in Calls : h = stack[2]
      BY <1>c, <1>d, <2>1
    <3>c. PICK c \in Nat : c = cost'[a]
      BY <1>2
    <3>g. PICK g \in Calls : g = Told(h, a, c)
      BY ToldIs
    <3>1. stack'[1] = g
      BY <1>1, <1>d, <2>1, <3>h, <3>c, <3>g
    <3>2. /\ g.at = h.at /\ g.todo = h.todo \ {a} /\ h.best \in Nat /\ g.best \in Nat
          /\ c <= g.best /\ h.best <= g.best
      <4>1. h.best \in Nat
        BY DEF Calls
      <4>2. /\ g.at = h.at /\ g.todo = h.todo \ {a}
            /\ c > h.best => g.best = c
            /\ ~ (c > h.best) => g.best = h.best
        BY <3>g, ToldIs
      <4>3. g.best \in Nat /\ c <= g.best /\ h.best <= g.best
        BY <4>1, <4>2
      <4> QED
        BY <4>1, <4>2, <4>3
    <3>3. CASE d = a
      BY <1>6, <2>1, <3>1, <3>2, <3>3, <3>c
    <3>4. CASE d # a
      <4>1. d \in InRange(deps[stack[2].at]) \ stack[2].todo /\ 2 \in DOMAIN stack
        BY <1>u, <1>11, <1>d, <2>1, <3>1, <3>2, <3>4, <3>h
      <4>2. Done(d) /\ cost[d] <= h.best
        BY <1>8, <3>h, <4>1
      <4>3. cost[d] \in Nat
        BY <1>3, <2>0
      <4>4. cost[d] <= g.best
        BY <3>2, <4>2, <4>3
      <4> QED
        BY <1>9, <2>0, <2>1, <3>1, <4>2, <4>4
    <3> QED
      BY <3>3, <3>4
  <2>2. CASE k # 1
    <3> DEFINE j == k + 1
    <3>1. j \in DOMAIN stack /\ stack'[k] = stack[j]
      BY <1>1, <1>d, <2>2
    <3> HIDE DEF j
    <3>2. Done(d) /\ cost[d] <= stack[j].best
      BY <1>u, <1>8, <1>11, <3>1
    <3> QED
      BY <1>9, <2>0, <3>1, <3>2
  <2> QED
    BY <2>1, <2>2
<1> QED
  BY <1>10, <1>11 DEF HeaviestInv, InRange

\* The invariant of the costs.
LEMMA HeaviestInductive ==
  /\ CritInit => HeaviestInv
  /\ WalkInv /\ HeaviestInv /\ [CritNext]_critVars => HeaviestInv'
<1>1. ASSUME CritInit PROVE HeaviestInv
  <2>1. DOMAIN stack = {} /\ \A i \in Acts : ~ Done(i)
    BY <1>1 DEF CritInit, Nothing, Done
  <2> QED
    BY <2>1 DEF HeaviestInv
<1>2. ASSUME WalkInv, HeaviestInv, [CritNext]_critVars PROVE HeaviestInv'
  <2>0. CritKind /\ StackInv
    BY <1>2 DEF WalkInv
  <2>1. CASE UNCHANGED <<deps, work, state, cost, stack>>
    BY <1>2, <2>1, AcyclicUnchanged DEF HeaviestInv, Done, InRange
  <2>2. CASE Find \/ Walked \/ Collect \/ Counted
    BY <2>1, <2>2 DEF Find, Walked, Collect, Counted, inputs, walkVars
  <2>3. CASE Visit
    <3>0. visiting \in 0..(N + 1) /\ visiting # 0 /\ visiting <= N
      BY <1>2, <2>0, <2>3 DEF Visit, WalkInv, PhaseInv, CritKind
    <3>1. visiting \in Acts /\ UNCHANGED <<deps, work, cost>>
      <4>1. visiting \in 1..N
        BY <3>0, ActsAre
      <4> QED
        BY <2>3, <4>1 DEF Visit, inputs, Acts
    <3>2. CASE Enter(visiting)
      BY <1>2, <2>0, <3>1, <3>2, EnterKeepsHeaviest
    <3>3. CASE UNCHANGED <<state, stack>>
      BY <2>1, <3>1, <3>3
    <3> QED
      BY <2>3, <3>2, <3>3 DEF Visit
  <2>4. CASE Return
    BY <1>2, <2>0, <2>4, ReturnKeepsHeaviest
  <2>5. ASSUME NEW i \in Acts, Look(i) PROVE HeaviestInv'
    <3>1. stack # <<>> /\ i \in Head(stack).todo /\ UNCHANGED <<deps, work, cost>>
      BY <2>5 DEF Look, inputs
    <3>2. CASE Enter(i)
      BY <1>2, <2>0, <3>1, <3>2, EnterKeepsHeaviest
    <3>3. CASE /\ Entered(i) /\ UNCHANGED state
               /\ stack' = <<Told(Head(stack), i, Answer(i))>> \o Tail(stack)
      BY <1>2, <2>0, <3>1, <3>3, TellKeepsHeaviest
    <3> QED
      BY <2>5, <3>2, <3>3 DEF Look
  <2>6. ASSUME NEW i \in Acts, BlastRadiusFor(i) \/ Pop(i) PROVE HeaviestInv'
    BY <2>1, <2>6 DEF BlastRadiusFor, Pop, inputs, walkVars
  <2>7. CASE UNCHANGED critVars
    BY <2>1, <2>7 DEF critVars, inputs, walkVars
  <2> QED
    BY <1>2, <2>2, <2>3, <2>4, <2>5, <2>6, <2>7 DEF CritNext
<1> QED
  BY <1>1, <1>2

\* "The longest chain of dependent work" (package comment): in a graph without
\* cycles no chain outweighs the one that Find returns.
THEOREM PathIsHeaviest == CritSpec => []FindsHeaviest
<1> DEFINE Inv == WalkInv /\ HeaviestInv
<1>1. CritInit => Inv
  BY WalkInductive, HeaviestInductive
<1>2. Inv /\ [CritNext]_critVars => Inv'
  BY WalkInductive, HeaviestInductive
<1>3. ASSUME Inv PROVE FindsHeaviest
  <2> SUFFICES ASSUME doing = "found", Acyclic, NEW s \in Simple, IsChain(s)
               PROVE  Weight(s) <= total
    BY DEF FindsHeaviest
  <2>1. /\ work \in [Acts -> Nat] /\ cost \in [Acts -> Nat] /\ total \in Nat
        /\ \A i \in Acts : Done(i) /\ cost[i] <= total
    BY <1>3 DEF WalkInv, CritKind, TotalInv
  <2>2. PICK n \in 0..N : s \in [1..n -> Acts]
    BY DEF Simple
  <2>3. n \in Nat /\ Len(s) = n
    BY <2>2, ActsAre
  <2>4. CASE n = 0
    <3>1. Weight(s) = 0
      BY <2>1, <2>2, <2>4, WeightSteps
    <3> QED
      BY <2>1, <3>1
  <2>5. CASE n # 0
    <3>1. n \in Nat \ {0} /\ s[1] \in Acts /\ s[n] \in Acts
      BY <2>2, <2>3, <2>5
    <3>2. work[s[1]] <= cost[s[1]]
      <4> DEFINE i == s[1]
      <4>1. /\ i \in Acts /\ Done(i) /\ work[i] \in Nat /\ cost[i] \in Nat
            /\ next[i] # 0 => cost[next[i]] \in Nat
        BY <1>3, <2>1, <3>1 DEF WalkInv, CritKind
      <4> HIDE DEF i
      <4>2. IF next[i] = 0 THEN cost[i] = work[i] ELSE cost[i] = work[i] + cost[next[i]]
        BY <1>3, <4>1 DEF WalkInv, LinkInv
      <4>3. work[i] <= cost[i]
        BY <4>1, <4>2
      <4> QED
        BY <4>3 DEF i
    <3>3. ASSUME NEW k \in 2..n PROVE work[s[k]] + cost[s[k - 1]] <= cost[s[k]]
      <4> DEFINE j == k - 1
      <4>1. j \in 1..(n - 1) /\ j \in 1..n /\ k \in 1..n /\ j + 1 = k
        BY <2>3
      <4> HIDE DEF j
      <4>2. s[j] \in deps[s[k]] /\ s[j] \in Acts /\ s[k] \in Acts
        BY <2>2, <2>3, <4>1 DEF IsChain
      <4>3. work[s[k]] + cost[s[j]] <= cost[s[k]]
        BY <1>3, <2>1, <4>2 DEF HeaviestInv, InRange
      <4> QED
        BY <4>3 DEF j
    <3>4. Weight(s) <= cost[s[n]]
      BY <2>1, <2>2, <3>1, <3>2, <3>3, WeightIsAtMostLast
    <3>w. Weight(s) \in Nat
      <4>1. n \in 0..n
        BY <2>3
      <4>2. PICK w \in [0..n -> Nat] : w[n] = Weight(s)
        BY <2>1, <2>2, <2>3, WeightSteps
      <4> QED
        BY <4>1, <4>2
    <3> QED
      BY <2>1, <3>1, <3>4, <3>w
  <2> QED
    BY <2>4, <2>5
<1> QED
  BY <1>1, <1>2, <1>3, PTL DEF CritSpec
-----------------------------------------------------------------------------
\* The marks are the calls in progress, of each action one.
LEMMA CritTypes == WalkInv /\ BlastInv => CritTypeOK
<1> SUFFICES ASSUME WalkInv, BlastInv PROVE CritTypeOK
  OBVIOUS
<1>0. CritKind /\ PhaseInv /\ StackInv /\ BlastInv
  BY DEF WalkInv
<1>1. WalkIsSimple
  BY <1>0 DEF StackInv, WalkIsSimple
<1>2. \A k \in DOMAIN stack : stack[k].at \in Acts
  <2>1. DOMAIN stack = 1..Len(stack) /\ \A k \in 1..Len(stack) : stack[k] \in Calls
    BY <1>0, Stacked DEF CritKind
  <2> QED
    BY <2>1 DEF Calls
<1>3. {f.at : f \in {stack[k] : k \in DOMAIN stack}} =
        {i \in Acts : state[i] = "in progress"}
  <2>1. \A k \in DOMAIN stack : state[stack[k].at] = "in progress"
    BY <1>0 DEF StackInv
  <2>2. \A i \in Acts : state[i] = "in progress" => \E k \in DOMAIN stack : stack[k].at = i
    BY <1>0 DEF StackInv
  <2>3. {f.at : f \in {stack[k] : k \in DOMAIN stack}} = {stack[k].at : k \in DOMAIN stack}
    OBVIOUS
  <2>4. {stack[k].at : k \in DOMAIN stack} = {i \in Acts : state[i] = "in progress"}
    BY <1>2, <2>1, <2>2, ZenonT(60)
  <2> QED
    BY <2>3, <2>4
<1>4. radius \in 0..N
  <2>1. CASE doing \in {"count", "counted"}
    <3>1. seen \ {root} \in SUBSET Acts /\ radius = Cardinality(seen \ {root})
      BY <1>0, <2>1 DEF BlastInv, CritKind
    <3>2. Cardinality(seen \ {root}) <= N /\ Cardinality(seen \ {root}) \in Nat
      BY <3>1, ActsFinite, FS_Subset
    <3> QED
      BY <3>1, <3>2, ActsAre
  <2>2. CASE doing \notin {"count", "counted"}
    <3>1. radius = 0
      BY <1>0, <2>2 DEF PhaseInv
    <3> QED
      BY <3>1, ActsAre
  <2> QED
    BY <2>1, <2>2
<1> QED
  BY <1>0, <1>1, <1>3, <1>4 DEF CritTypeOK, CritKind

\* The types of Find and BlastRadiusFor, and that no action is walked twice at
\* once (walk's state[i] != unvisited).
THEOREM CritTypeCorrect == CritSpec => []CritTypeOK
<1> DEFINE Inv == WalkInv /\ BlastInv
<1>1. CritInit => Inv
  BY WalkInductive, BlastInductive
<1>2. Inv /\ [CritNext]_critVars => Inv'
  BY WalkInductive, BlastInductive DEF WalkInv
<1> QED
  BY <1>1, <1>2, CritTypes, PTL DEF CritSpec
-----------------------------------------------------------------------------
(* The comparison of two builds.                                           *)

\* A build whose identities are ids, of the actions that were reached.
BuildOf(b, ids) ==
  /\ DOMAIN b \subseteq Variants
  /\ \A v \in DOMAIN b :
       /\ Deps[v] \subseteq DOMAIN b
       /\ b[v] \in [id : 0..2, ran : BOOLEAN, cached : BOOLEAN]
       /\ b[v].ran # b[v].cached /\ (b[v].ran => b[v].id # 0)
       /\ b[v].id \in {0, ids[v]}

First == [v \in Variants |-> 1]

\* The earlier build is of the first identities, the later one of those of now;
\* one that is new was edited, or depends on one that is.
DiffInv ==
  /\ edited \subseteq Variants /\ version \in [Variants -> 1..2] /\ made \in 0..2
  /\ edited = {} => version = First
  /\ \A v \in Variants :
       version[v] = 2 => v \in edited \/ \E d \in Deps[v] : version[d] = 2
  /\ made = 0 => edited = {}
  /\ made # 2 => after = Empty
  /\ BuildOf(before, First) /\ BuildOf(after, version)

\* No build is a build of anything.
LEMMA EmptyBuild == \A ids : BuildOf(Empty, ids)
BY DEF BuildOf, Empty

\* What the go command makes is a build of the identities of now.
LEMMA Built ==
  ASSUME version \in [Variants -> 1..2], NEW b, Build(b)
  PROVE  BuildOf(b, version)
<1>1. PICK vs \in SUBSET Variants, ran \in SUBSET Variants,
           unreached \in {{}} \cup {Needing[v] : v \in Variants} :
        /\ ran \subseteq vs
        /\ \A v \in vs : Deps[v] \subseteq vs
        /\ ran \cap unreached = {}
        /\ b = [v \in vs |->
                  New(IF v \in unreached THEN 0 ELSE version[v], v \in ran)]
  BY DEF Build
<1>2. DOMAIN b = vs
  BY <1>1
<1>3. ASSUME NEW v \in vs
      PROVE  /\ b[v] \in [id : 0..2, ran : BOOLEAN, cached : BOOLEAN]
             /\ b[v].ran # b[v].cached /\ (b[v].ran => b[v].id # 0)
             /\ b[v].id \in {0, version[v]}
  <2> DEFINE x == IF v \in unreached THEN 0 ELSE version[v]
  <2>1. version[v] \in 1..2
    OBVIOUS
  <2>2. x \in {0, version[v]} /\ x \in 0..2 /\ (v \in ran => x # 0)
    BY <1>1, <2>1
  <2>3. b[v] = New(x, v \in ran)
    BY <1>1
  <2> HIDE DEF x
  <2>4. CASE v \in ran
    <3>1. b[v] = [id |-> x, ran |-> TRUE, cached |-> FALSE]
      BY <2>3, <2>4 DEF New
    <3> QED
      BY <2>2, <2>4, <3>1
  <2>5. CASE v \notin ran
    <3>1. New(x, FALSE) = [id |-> x, ran |-> FALSE, cached |-> TRUE]
      BY DEF New
    <3>2. (v \in ran) = FALSE
      BY <2>5
    <3>3. b[v] = [id |-> x, ran |-> FALSE, cached |-> TRUE]
      BY <2>3, <3>1, <3>2
    <3> QED
      BY <2>2, <2>5, <3>3
  <2> QED
    BY <2>4, <2>5
<1> QED
  BY <1>1, <1>2, <1>3 DEF BuildOf

\* The invariant of the two builds.
LEMMA DiffInductive ==
  /\ DiffInit => DiffInv
  /\ DiffInv /\ [DiffNext]_diffVars => DiffInv'
<1>1. ASSUME DiffInit PROVE DiffInv
  <2>1. edited = {} /\ version = First /\ before = Empty /\ after = Empty /\ made = 0
    BY <1>1 DEF DiffInit, NoBuilds, First
  <2>2. version \in [Variants -> 1..2] /\ \A v \in Variants : version[v] # 2
    BY <2>1 DEF First
  <2> QED
    BY <2>1, <2>2, EmptyBuild DEF DiffInv
<1>2. ASSUME DiffInv, [DiffNext]_diffVars PROVE DiffInv'
  <2>0. /\ version \in [Variants -> 1..2] /\ edited \subseteq Variants
        /\ BuildOf(before, First) /\ BuildOf(after, version)
    BY <1>2 DEF DiffInv
  <2>1. CASE BuildBefore
    <3>1. version = First
      BY <1>2, <2>1 DEF DiffInv, BuildBefore
    <3>2. BuildOf(before', First)
      BY <2>0, <2>1, <3>1, Built DEF BuildBefore
    <3>3. /\ made' = 1 /\ UNCHANGED <<edited, version, after>> /\ made = 0
      BY <2>1 DEF BuildBefore
    <3> QED
      BY <1>2, <3>1, <3>2, <3>3 DEF DiffInv, First, BuildOf
  <2>2. CASE BuildAfter
    <3>1. BuildOf(after', version)
      BY <2>0, <2>2, Built DEF BuildAfter
    <3>2. made' = 2 /\ UNCHANGED <<edited, version, before>> /\ made = 1
      BY <2>2 DEF BuildAfter
    <3> QED
      BY <1>2, <3>1, <3>2 DEF DiffInv, First, BuildOf
  <2>3. CASE Edit
    <3>1. PICK es \in (SUBSET Variants) \ {{}}, outputs \in SUBSET Variants :
            LET changed == es \cup {v \in Variants : Deps[v] \cap outputs # {}}
            IN  /\ outputs \subseteq changed
                /\ edited' = es
                /\ version' = [v \in Variants |-> IF v \in changed THEN 2 ELSE 1]
      BY <2>3 DEF Edit
    <3> DEFINE changed == es \cup {v \in Variants : Deps[v] \cap outputs # {}}
    <3>2. /\ outputs \subseteq changed /\ edited' = es /\ es # {}
          /\ version' = [v \in Variants |-> IF v \in changed THEN 2 ELSE 1]
          /\ made = 1 /\ made' = 1 /\ before' = before /\ after' = after
      <4>1. /\ outputs \subseteq changed /\ edited' = es
            /\ version' = [v \in Variants |-> IF v \in changed THEN 2 ELSE 1]
        BY <3>1
      <4>2. es # {}
        OBVIOUS
      <4>3. made = 1 /\ made' = 1 /\ before' = before /\ after' = after
        BY <2>3 DEF Edit
      <4> QED
        BY <4>1, <4>2, <4>3
    <3>3. \A v \in changed : v \in es \/ \E d \in Deps[v] : d \in outputs
      OBVIOUS
    <3> HIDE DEF changed
    <3>4. /\ version' \in [Variants -> 1..2]
          /\ \A v \in Variants : version'[v] = 2 <=> v \in changed
      BY <3>2
    <3>5. \A v \in Variants : version'[v] = 2 =>
            v \in edited' \/ \E d \in Deps[v] : version'[d] = 2
      BY <3>2, <3>3, <3>4, VariantAssumption
    <3>6. after' = Empty /\ edited' # {}
      BY <1>2, <3>2 DEF DiffInv
    <3> QED
      BY <1>2, <3>2, <3>4, <3>5, <3>6, EmptyBuild DEF DiffInv, First, BuildOf
  <2>4. CASE UNCHANGED diffVars
    BY <1>2, <2>4 DEF DiffInv, diffVars, BuildOf, First, Empty, New
  <2> QED
    BY <1>2, <2>1, <2>2, <2>3, <2>4 DEF DiffNext
<1> QED
  BY <1>1, <1>2

\* It holds throughout.
LEMMA DiffInvHolds == DiffSpec => []DiffInv
BY DiffInductive, PTL DEF DiffSpec

\* The types, in any two builds.
THEOREM DiffTypeCorrect == DiffSpec => []DiffReportTypeOK
<1>1. DiffInv => DiffReportTypeOK
  BY DEF DiffInv, BuildOf, DiffReportTypeOK
<1> QED
  BY <1>1, DiffInvHolds, PTL

\* A set of one variant is that variant.
LEMMA SingleElement ==
  ASSUME NEW S, S \subseteq Variants, Cardinality(S) = 1
  PROVE  \E x \in S : S = {x}
<1>1. S \in SUBSET Variants /\ IsFiniteSet(Variants)
  BY VariantAssumption
<1>2. IsFiniteSet(S)
  BY <1>1, FS_Subset
<1> QED
  BY <1>2, FS_Singleton

\* What an action of both builds is paired with is itself, if anything.
LEMMA PairedWithItself ==
  ASSUME DiffInv, NEW v \in DOMAIN before
  PROVE  \A w \in Match(v) : w = v
<1>1. DOMAIN before \subseteq Variants
  BY DEF DiffInv, BuildOf
<1>2. CASE Matched(v)
  BY <1>2 DEF Match
<1>3. CASE ~ Matched(v) /\ OneToOne(v)
  <2>1. Unmatched(before, v) \subseteq Variants /\ v \in Unmatched(before, v)
    BY <1>1, <1>3 DEF Unmatched, Alike
  <2>2. Cardinality(Unmatched(before, v)) = 1
    BY <1>3 DEF OneToOne
  <2>3. Unmatched(before, v) = {v}
    BY <2>1, <2>2, SingleElement
  <2> QED
    BY <1>3, <2>3 DEF Match
<1>4. CASE ~ Matched(v) /\ ~ OneToOne(v)
  BY <1>4 DEF Match
<1> QED
  BY <1>2, <1>3, <1>4

\* What a remainder is paired with is left over in both builds.
LEMMA PairedOneToOne ==
  ASSUME DiffInv, NEW v, ~ Matched(v), OneToOne(v)
  PROVE  /\ \E u : Unmatched(before, v) = {u} /\ Match(v) = {u}
         /\ \E u : Unmatched(after, v) = {u}
<1>1. Unmatched(before, v) \subseteq Variants /\ Unmatched(after, v) \subseteq Variants
  BY DEF DiffInv, BuildOf, Unmatched, Alike
<1>2. /\ Cardinality(Unmatched(before, v)) = 1
      /\ Cardinality(Unmatched(after, v)) = 1
  BY DEF OneToOne
<1>3. PICK u \in Unmatched(before, v) : Unmatched(before, v) = {u}
  BY <1>1, <1>2, SingleElement
<1>4. \E w : Unmatched(after, v) = {w}
  BY <1>1, <1>2, SingleElement
<1>5. Match(v) = {u}
  BY <1>3 DEF Match
<1> QED
  BY <1>3, <1>4, <1>5

\* "actions that ran in the later build but did not in the earlier one"
\* (findChanges): of any two builds, no action listed as confirmed ran in the
\* earlier one, and none is listed both as newly run and as slower.
THEOREM ConfirmedIsTrue == DiffSpec => []ListsAreTrue
<1>1. ASSUME DiffInv PROVE ListsAreTrue
  <2>1. ASSUME NEW v \in DOMAIN after, Confirmed(v)
        PROVE  after[v].ran /\ (Has(before, v) => ~before[v].ran)
    <3>1. /\ after[v].ran /\ \A w \in Match(v) : ~before[w].ran
          /\ ~ VariantUnknown(v)
      BY <2>1 DEF Confirmed, Listed
    <3>2. ASSUME Has(before, v) PROVE ~before[v].ran
      <4>1. v \in DOMAIN before
        BY <3>2 DEF Has
      <4>2. ~ NewPackage(v) /\ ~ NewAction(v)
        BY <4>1 DEF NewPackage, NewAction, Alike
      <4>3. PICK w \in Match(v) : TRUE
        BY <3>1, <4>2 DEF VariantUnknown
      <4>4. w = v
        BY <1>1, <4>1, <4>3, PairedWithItself
      <4> QED
        BY <3>1, <4>3, <4>4
    <3> QED
      BY <3>1, <3>2
  <2>2. ASSUME NEW v \in DOMAIN after, Listed(v), RanInBoth(v) PROVE FALSE
    <3>1. Alike(before, v) \subseteq Variants
      BY <1>1 DEF DiffInv, BuildOf, Alike
    <3>2. PICK u \in Alike(before, v) : Alike(before, v) = {u}
      BY <2>2, <3>1, SingleElement DEF RanInBoth
    <3>3. before[u].ran /\ Alike(after, v) = {v} /\ \A w \in Match(v) : ~before[w].ran
      BY <2>2 DEF RanInBoth, Listed
    <3>4. CASE Matched(v)
      <4>1. v \in Alike(before, v) /\ Match(v) = {v}
        BY <3>4 DEF Matched, Has, Alike, Match
      <4> QED
        BY <3>2, <3>3, <4>1
    <3>5. CASE ~ Matched(v)
      <4>1. ~ Matched(u)
        <5>1. Matched(u) => u \in Alike(after, v)
          BY DEF Matched, Has, Alike
        <5> QED
          BY <3>3, <3>5, <5>1
      <4>2. Unmatched(before, v) = {u} /\ Unmatched(after, v) = {v}
        BY <3>2, <3>3, <3>5, <4>1 DEF Unmatched
      <4>3. OneToOne(v)
        BY <4>2, FS_Singleton DEF OneToOne
      <4>4. Match(v) = {u}
        BY <3>5, <4>2, <4>3 DEF Match
      <4> QED
        BY <3>3, <4>4
    <3> QED
      BY <3>4, <3>5
  <2> QED
    BY <2>1, <2>2 DEF ListsAreTrue
<1> QED
  BY <1>1, DiffInvHolds, PTL

\* What ran and did not run before is listed, in any two builds: the one case
\* in which it is not is an action new to the later build whose only namesake
\* has left it.
THEOREM NewlyRunIsListed == DiffSpec => []NothingIsMissed
<1>1. ASSUME DiffInv PROVE NothingIsMissed
  <2> SUFFICES ASSUME NEW v \in DOMAIN after, after[v].ran,
                      Has(before, v) => ~before[v].ran, ~ Listed(v)
               PROVE  ~Has(before, v) /\ ~(Alike(before, v) \subseteq DOMAIN after)
    BY DEF NothingIsMissed
  <2>1. PICK w \in Match(v) : before[w].ran
    BY DEF Listed
  <2>2. ~ Has(before, v)
    <3> SUFFICES ASSUME Has(before, v) PROVE FALSE
      OBVIOUS
    <3>1. w = v
      BY <1>1, <2>1, PairedWithItself DEF Has
    <3> QED
      BY <2>1, <3>1
  <2>3. ~ Matched(v) /\ OneToOne(v)
    BY <2>1, <2>2 DEF Matched, Match
  <2>4. PICK u, x : /\ Unmatched(before, v) = {u} /\ Match(v) = {u}
                    /\ Unmatched(after, v) = {x}
    BY <1>1, <2>3, PairedOneToOne
  <2>5. /\ u \in DOMAIN before /\ ~ Matched(u) /\ Key(u) = Key(v)
        /\ u \in Alike(before, v)
    BY <2>4 DEF Unmatched, Alike
  <2>6. v \in Unmatched(after, v)
    BY <2>3 DEF Unmatched, Alike
  <2>7. u # v
    BY <2>2, <2>5 DEF Has
  <2>8. u \notin DOMAIN after
    BY <2>4, <2>5, <2>6, <2>7 DEF Unmatched, Alike
  <2> QED
    BY <2>2, <2>5, <2>8
<1> QED
  BY <1>1, DiffInvHolds, PTL

\* "action identity changed; direct work dependencies were unchanged": a
\* candidate root of both builds was edited, whatever was cached, failed or
\* edited besides: a new identity that is not its own comes from a dependency
\* whose identity is new, and those are known in both builds.
THEOREM RootIsEdited == DiffSpec => []CandidateRootIsEdited
<1>1. ASSUME DiffInv PROVE CandidateRootIsEdited
  <2> SUFFICES ASSUME NEW v \in DOMAIN after, CandidateRoot(v), Has(before, v)
               PROVE  v \in edited
    BY DEF CandidateRootIsEdited
  <2>1. /\ v \in DOMAIN before /\ v \in Variants
        /\ BuildOf(before, First) /\ BuildOf(after, version)
    BY <1>1 DEF Has, DiffInv, BuildOf
  <2>2. before[v].id # 0 /\ after[v].id # 0 /\ before[v].id # after[v].id
    <3>1. PICK w \in Match(v) : /\ before[w].id # 0 /\ after[v].id # 0
                                /\ w # v \/ before[w].id # after[v].id
      BY DEF CandidateRoot
    <3>2. w = v
      BY <1>1, <2>1, <3>1, PairedWithItself
    <3> QED
      BY <3>1, <3>2
  <2>3. version[v] = 2
    <3>1. before[v].id \in {0, 1} /\ after[v].id \in {0, version[v]} /\ version[v] \in 1..2
      BY <1>1, <2>1 DEF BuildOf, First, DiffInv
    <3> QED
      BY <2>2, <3>1
  <2>4. ASSUME NEW d \in Deps[v] PROVE version[d] # 2
    <3>1. /\ d \in DOMAIN before /\ d \in DOMAIN after /\ d \in Variants
          /\ after[d].id # 0 /\ before[d].id = after[d].id
      BY <2>1 DEF CandidateRoot, DependenciesStable, Has, BuildOf
    <3>2. before[d].id \in {0, 1} /\ after[d].id \in {0, version[d]}
      BY <2>1, <3>1 DEF BuildOf, First
    <3> QED
      BY <3>1, <3>2
  <2> QED
    BY <1>1, <2>1, <2>3, <2>4 DEF DiffInv
<1> QED
  BY <1>1, DiffInvHolds, PTL
-----------------------------------------------------------------------------
(* The times of a build.                                                   *)

\* No time is of the future.
TimesInv ==
  /\ TimesTypeOK
  /\ \A t \in Tasks : readyAt[t] <= now /\ startedAt[t] <= now /\ doneAt[t] <= now

\* The invariant of the times.
LEMMA TimesInductive ==
  /\ NotRun /\ exitedAt \in {0, 1} => TimesInv
  /\ TimesInv /\ [TimesNext]_timeVars => TimesInv'
<1>0. MaxTime \in Nat /\ MaxTime >= 1
  BY TimesAssumption
<1>1. ASSUME NotRun, exitedAt \in {0, 1} PROVE TimesInv
  <2>1. /\ now = 1 /\ failed = {}
        /\ readyAt = [t \in Tasks |-> IF Waits[t] = {} THEN 1 ELSE 0]
        /\ startedAt = [t \in Tasks |-> 0] /\ doneAt = [t \in Tasks |-> 0]
        /\ cmdReal = [t \in Tasks |-> -1]
    BY <1>1 DEF NotRun
  <2>2. /\ readyAt \in [Tasks -> 0..MaxTime] /\ startedAt \in [Tasks -> 0..MaxTime]
        /\ doneAt \in [Tasks -> 0..MaxTime] /\ cmdReal \in [Tasks -> -1..MaxTime]
        /\ now \in 1..MaxTime /\ exitedAt \in 0..MaxTime
    BY <1>0, <1>1, <2>1
  <2>3. \A t \in Tasks : startedAt[t] = 0 /\ doneAt[t] = 0 /\ readyAt[t] <= 1
    BY <2>1
  <2> QED
    BY <2>1, <2>2, <2>3 DEF TimesInv, TimesTypeOK
<1>2. ASSUME TimesInv, [TimesNext]_timeVars PROVE TimesInv'
  <2>0. /\ now \in 1..MaxTime /\ exitedAt \in 0..MaxTime
        /\ readyAt \in [Tasks -> 0..MaxTime] /\ startedAt \in [Tasks -> 0..MaxTime]
        /\ doneAt \in [Tasks -> 0..MaxTime] /\ cmdReal \in [Tasks -> -1..MaxTime]
        /\ failed \subseteq Tasks
    BY <1>2 DEF TimesInv, TimesTypeOK
  <2>1. \A t \in Tasks :
          /\ startedAt[t] # 0 => readyAt[t] \in 1..startedAt[t]
          /\ doneAt[t] # 0 => startedAt[t] \in 1..doneAt[t]
          /\ readyAt[t] <= now /\ startedAt[t] <= now /\ doneAt[t] <= now
    BY <1>2 DEF TimesInv, TimesTypeOK
  <2>2. CASE Tick
    <3>1. now' = now + 1 /\ now' \in 1..MaxTime
          /\ UNCHANGED <<readyAt, startedAt, doneAt, cmdReal, failed, exitedAt>>
      BY <1>0, <2>0, <2>2 DEF Tick
    <3>2. \A t \in Tasks : readyAt[t] <= now' /\ startedAt[t] <= now' /\ doneAt[t] <= now'
      <4>1. \A t \in Tasks : readyAt[t] \in Nat /\ startedAt[t] \in Nat /\ doneAt[t] \in Nat
        BY <1>0, <2>0
      <4> QED
        BY <2>0, <2>1, <3>1, <4>1
    <3> QED
      BY <2>0, <2>1, <3>1, <3>2 DEF TimesInv, TimesTypeOK
  <2>3. CASE Exit
    <3>1. exitedAt' \in 0..MaxTime
          /\ UNCHANGED <<now, readyAt, startedAt, doneAt, cmdReal, failed>>
      BY <1>0, <2>0, <2>3 DEF Exit
    <3> QED
      BY <2>0, <2>1, <3>1 DEF TimesInv, TimesTypeOK
  <2>4. ASSUME NEW t \in Tasks, Start(t) PROVE TimesInv'
    <3>1. /\ readyAt[t] # 0 /\ startedAt[t] = 0
          /\ startedAt' = [startedAt EXCEPT ![t] = now]
          /\ UNCHANGED <<now, readyAt, doneAt, cmdReal, failed, exitedAt>>
      BY <2>4 DEF Start
    <3>2. /\ startedAt' \in [Tasks -> 0..MaxTime] /\ startedAt'[t] = now
          /\ \A u \in Tasks : u # t => startedAt'[u] = startedAt[u]
      <4>1. now \in 0..MaxTime
        BY <1>0, <2>0
      <4> QED
        BY <2>0, <3>1, <4>1
    <3>3. readyAt[t] \in 1..now /\ doneAt[t] = 0
      <4>1. readyAt[t] \in Nat /\ doneAt[t] \in Nat /\ now \in Nat
        BY <1>0, <2>0
      <4> QED
        BY <2>0, <2>1, <3>1, <4>1
    <3>4. ASSUME NEW u \in Tasks
          PROVE  /\ startedAt'[u] # 0 => readyAt[u] \in 1..startedAt'[u]
                 /\ doneAt[u] # 0 => startedAt'[u] \in 1..doneAt[u]
                 /\ startedAt'[u] <= now
      <4>1. CASE u = t
        BY <2>0, <3>2, <3>3, <4>1
      <4>2. CASE u # t
        BY <2>1, <3>2, <4>2
      <4> QED
        BY <4>1, <4>2
    <3> QED
      BY <2>0, <2>1, <3>1, <3>2, <3>4 DEF TimesInv, TimesTypeOK
  <2>5. ASSUME NEW t \in Tasks, Finish(t) PROVE TimesInv'
    <3>1. /\ startedAt[t] # 0 /\ doneAt[t] = 0 /\ Ends(t)
          /\ doneAt' = [doneAt EXCEPT ![t] = now]
          /\ readyAt' = [u \in Tasks |->
               IF readyAt[u] = 0 /\ \A d \in Waits[u] : doneAt'[d] # 0
               THEN now ELSE readyAt[u]]
          /\ UNCHANGED <<now, startedAt, exitedAt>>
      BY <2>5 DEF Finish, Running
    <3>2. /\ doneAt' \in [Tasks -> 0..MaxTime] /\ doneAt'[t] = now
          /\ \A u \in Tasks : u # t => doneAt'[u] = doneAt[u]
      <4>1. now \in 0..MaxTime
        BY <1>0, <2>0
      <4> QED
        BY <2>0, <3>1, <4>1
    <3>3. \A u \in Tasks : readyAt'[u] = readyAt[u] \/ (readyAt[u] = 0 /\ readyAt'[u] = now)
      BY <3>1
    <3>4. readyAt' \in [Tasks -> 0..MaxTime]
      <4>1. readyAt' = [u \in Tasks |-> readyAt'[u]]
        BY <3>1
      <4>2. \A u \in Tasks : readyAt'[u] \in 0..MaxTime
        <5>1. now \in 0..MaxTime
          BY <1>0, <2>0
        <5> QED
          BY <2>0, <3>3, <5>1
      <4> QED
        BY <4>1, <4>2
    <3>5. cmdReal' \in [Tasks -> -1..MaxTime] /\ failed' \subseteq Tasks
      <4>1. failed' \in {failed, failed \cup {t}}
        BY <3>1 DEF Ends
      <4>2. cmdReal' = cmdReal \/
            \E w \in 1..(now - startedAt[t]) : cmdReal' = [cmdReal EXCEPT ![t] = w]
        BY <3>1 DEF Ends
      <4>3. \A w \in 1..(now - startedAt[t]) : w \in -1..MaxTime
        <5>1. startedAt[t] \in Nat /\ now \in Nat /\ now <= MaxTime
          BY <1>0, <2>0
        <5> QED
          BY <1>0, <5>1
      <4> QED
        BY <2>0, <4>1, <4>2, <4>3
    <3>6. startedAt[t] \in 1..now
      <4>1. startedAt[t] \in Nat /\ now \in Nat
        BY <1>0, <2>0
      <4> QED
        BY <2>1, <3>1, <4>1
    <3>7. ASSUME NEW u \in Tasks
          PROVE  /\ startedAt[u] # 0 => readyAt'[u] \in 1..startedAt[u]
                 /\ doneAt'[u] # 0 => startedAt[u] \in 1..doneAt'[u]
                 /\ readyAt'[u] <= now /\ doneAt'[u] <= now
      <4>1. startedAt[u] # 0 => readyAt[u] # 0
        <5>1. startedAt[u] # 0 => readyAt[u] \in 1..startedAt[u]
          BY <2>1
        <5> QED
          BY <5>1
      <4>2. startedAt[u] # 0 => readyAt'[u] \in 1..startedAt[u]
        BY <2>1, <3>3, <4>1
      <4>3. readyAt'[u] <= now
        BY <2>0, <2>1, <3>3
      <4>4. CASE u = t
        BY <2>0, <3>2, <3>6, <4>2, <4>3, <4>4
      <4>5. CASE u # t
        BY <2>1, <3>2, <4>2, <4>3, <4>5
      <4> QED
        BY <4>4, <4>5
    <3>8. \A u \in Tasks : startedAt[u] <= now
      BY <2>1
    <3> QED
      BY <2>0, <3>1, <3>2, <3>4, <3>5, <3>7, <3>8 DEF TimesInv, TimesTypeOK
  <2>6. CASE UNCHANGED timeVars
    BY <1>2, <2>6 DEF timeVars, TimesInv, TimesTypeOK
  <2> QED
    BY <1>2, <2>2, <2>3, <2>4, <2>5, <2>6 DEF TimesNext
<1> QED
  BY <1>1, <1>2

\* The types of the times; ready, start and done follow one another, so that no
\* wall or queue time of model.New is negative.
THEOREM TimesTypeCorrect == TimesSpec => []TimesTypeOK
<1>1. TimesInit => TimesInv
  BY TimesInductive DEF TimesInit
<1>2. TimesInv => TimesTypeOK
  BY DEF TimesInv
<1> QED
  BY <1>1, <1>2, TimesInductive, PTL DEF TimesSpec
-----------------------------------------------------------------------------
(* What longpole makes of the times.                                       *)

One(S) == CHOOSE u \in S : TRUE
AllBut(S) == S \ {One(S)}

\* Taking one task after another leaves nothing.
LEMMA TaskInduction ==
  ASSUME NEW T, {} \in T,
         \A S \in SUBSET Tasks : S # {} /\ AllBut(S) \in T => S \in T
  PROVE  SUBSET Tasks \subseteq T
<1> DEFINE U == {n \in Nat : \A S \in SUBSET Tasks : Cardinality(S) = n => S \in T}
<1>1. \A S \in SUBSET Tasks : IsFiniteSet(S) /\ Cardinality(S) \in Nat
  BY TimesAssumption, FS_Subset, FS_CardinalityType DEF TimesAssumption
<1>2. 0 \in U
  BY <1>1, FS_EmptySet
<1>3. ASSUME NEW n \in U PROVE n + 1 \in U
  <2>1. n \in Nat /\ \A S \in SUBSET Tasks : Cardinality(S) = n => S \in T
    OBVIOUS
  <2>2. ASSUME NEW S \in SUBSET Tasks, Cardinality(S) = n + 1 PROVE S \in T
    <3>1. S # {}
      BY <2>1, <2>2, FS_EmptySet
    <3>2. One(S) \in S
      BY <3>1 DEF One
    <3>3. Cardinality(AllBut(S)) = n
      BY <1>1, <2>1, <2>2, <3>2, FS_RemoveElement DEF AllBut
    <3>4. AllBut(S) \in SUBSET Tasks
      BY DEF AllBut
    <3> QED
      BY <2>1, <3>1, <3>3, <3>4
  <2> QED
    BY <2>1, <2>2
<1> HIDE DEF U
<1>4. U = Nat
  <2>1. U \subseteq Nat
    BY DEF U
  <2> QED
    BY <1>2, <1>3, <2>1, Induction
<1> QED
  BY <1>1, <1>4 DEF U

\* The function chosen as SumOf exists, and satisfies its equation.
LEMMA SumIs ==
  ASSUME NEW f
  PROVE  \A S \in SUBSET Tasks :
           SumOf(f)[S] = IF S = {} THEN 0 ELSE f[One(S)] + SumOf(f)[AllBut(S)]
<1> DEFINE Term(g, S) == IF S = {} THEN 0 ELSE f[One(S)] + g[AllBut(S)]
           Is(g) == g = [S \in SUBSET Tasks |-> Term(g, S)]
           Upto(n) == {S \in SUBSET Tasks : Cardinality(S) < n}
           T == {n \in Nat : \E g : g = [S \in SUBSET Tasks |-> IF S \in Upto(n) THEN Term(g, S) ELSE 0]}
<1>1. SumOf(f) = CHOOSE g : Is(g)
  BY DEF SumOf, One, AllBut
<1>2. \A S \in SUBSET Tasks : IsFiniteSet(S) /\ Cardinality(S) \in Nat
                              /\ Cardinality(S) <= Cardinality(Tasks)
  BY TimesAssumption, FS_Subset, FS_CardinalityType DEF TimesAssumption
<1>3. \A S \in SUBSET Tasks : S # {} =>
        AllBut(S) \in SUBSET Tasks /\ Cardinality(AllBut(S)) = Cardinality(S) - 1
  <2> TAKE S \in SUBSET Tasks
  <2> HAVE S # {}
  <2>1. One(S) \in S
    BY DEF One
  <2> QED
    BY <1>2, <2>1, FS_RemoveElement DEF AllBut
<1>4. 0 \in T
  <2> DEFINE g == [S \in SUBSET Tasks |-> 0]
  <2>1. Upto(0) = {}
    BY <1>2
  <2>2. g = [S \in SUBSET Tasks |-> IF S \in Upto(0) THEN Term(g, S) ELSE 0]
    BY <2>1
  <2> HIDE DEF Term, Upto, g
  <2> QED
    BY <2>2
<1>5. ASSUME NEW n \in T PROVE n + 1 \in T
  <2>1. PICK g : g = [S \in SUBSET Tasks |-> IF S \in Upto(n) THEN Term(g, S) ELSE 0]
    OBVIOUS
  <2> DEFINE e == [S \in SUBSET Tasks |-> IF S \in Upto(n + 1) THEN Term(g, S) ELSE 0]
  <2>2. n \in Nat
    OBVIOUS
  <2>3. \A S \in Upto(n) : e[S] = g[S]
    <3>1. \A S \in Upto(n) : S \in SUBSET Tasks /\ S \in Upto(n + 1)
      BY <1>2, <2>2
    <3> HIDE DEF Upto, Term
    <3>2. \A S \in Upto(n) : g[S] = Term(g, S)
      BY <2>1, <3>1
    <3> QED
      BY <3>1, <3>2
  <2>4. \A S \in Upto(n + 1) : Term(e, S) = Term(g, S)
    <3> TAKE S \in Upto(n + 1)
    <3>1. CASE S = {}
      BY <3>1
    <3>2. CASE S # {}
      <4>1. AllBut(S) \in Upto(n)
        BY <1>2, <1>3, <2>2, <3>2
      <4>2. e[AllBut(S)] = g[AllBut(S)]
        BY <2>3, <4>1
      <4> HIDE DEF e
      <4> QED
        BY <4>2
    <3> QED
      BY <3>1, <3>2
  <2>5. e = [S \in SUBSET Tasks |-> IF S \in Upto(n + 1) THEN Term(e, S) ELSE 0]
    <3> HIDE DEF Term, Upto
    <3>1. \A S \in SUBSET Tasks :
            (IF S \in Upto(n + 1) THEN Term(e, S) ELSE 0) =
            (IF S \in Upto(n + 1) THEN Term(g, S) ELSE 0)
      <4> HIDE DEF e
      <4> QED
        BY <2>4
    <3> QED
      BY <3>1, Zenon
  <2> HIDE DEF e, Term, Upto
  <2> QED
    BY <2>2, <2>5
<1>6. \E g : Is(g)
  <2> DEFINE n == Cardinality(Tasks) + 1
  <2>1. n \in Nat
    BY TimesAssumption, FS_CardinalityType DEF TimesAssumption
  <2>2. \A S \in SUBSET Tasks : S \in Upto(n)
    BY <1>2, <2>1
  <2>3. T = Nat
    <3>1. T \subseteq Nat
      OBVIOUS
    <3> HIDE DEF T
    <3> QED
      BY <1>4, <1>5, <3>1, Induction
  <2> HIDE DEF n, Term, Upto
  <2>4. PICK g : g = [S \in SUBSET Tasks |-> IF S \in Upto(n) THEN Term(g, S) ELSE 0]
    BY <2>1, <2>3
  <2>5. \A S \in SUBSET Tasks : (IF S \in Upto(n) THEN Term(g, S) ELSE 0) = Term(g, S)
    BY <2>2
  <2>6. g = [S \in SUBSET Tasks |-> Term(g, S)]
    BY <2>4, <2>5, Zenon
  <2> QED
    BY <2>6
<1>7. Is(SumOf(f))
  <2> HIDE DEF Is
  <2> QED
    BY <1>1, <1>6
<1> QED
  BY <1>7

\* The empty sum.
LEMMA SumOfNone ==
  ASSUME NEW f
  PROVE  SumOf(f)[{}] = 0
<1>1. {} \in SUBSET Tasks
  OBVIOUS
<1> QED
  BY <1>1, SumIs, Zenon

\* Sums of naturals; each task's part is in the sum.
LEMMA SumType ==
  ASSUME NEW f \in [Tasks -> Nat]
  PROVE  \A S \in SUBSET Tasks : SumOf(f)[S] \in Nat /\ \A t \in S : f[t] <= SumOf(f)[S]
<1> DEFINE T == {S \in SUBSET Tasks : SumOf(f)[S] \in Nat /\ \A t \in S : f[t] <= SumOf(f)[S]}
<1>1. {} \in T
  BY SumOfNone
<1>2. ASSUME NEW S \in SUBSET Tasks, S # {}, AllBut(S) \in T PROVE S \in T
  <2>1. One(S) \in S
    BY <1>2 DEF One
  <2>2. f[One(S)] \in Nat
    BY <2>1
  <2>3. SumOf(f)[S] = f[One(S)] + SumOf(f)[AllBut(S)]
    BY <1>2, SumIs
  <2>4. \A t \in S : t = One(S) \/ t \in AllBut(S)
    BY DEF AllBut
  <2>5. \A t \in S : f[t] \in Nat
    OBVIOUS
  <2> QED
    BY <1>2, <2>2, <2>3, <2>4, <2>5
<1> HIDE DEF T
<1>3. SUBSET Tasks \subseteq T
  BY <1>1, <1>2, TaskInduction
<1> QED
  BY <1>3 DEF T

\* Less of each task is less in all.
LEMMA SumAtMost ==
  ASSUME NEW f \in [Tasks -> Nat], NEW g \in [Tasks -> Nat],
         \A t \in Tasks : f[t] <= g[t]
  PROVE  SumOf(f)[Tasks] <= SumOf(g)[Tasks]
<1> DEFINE T == {S \in SUBSET Tasks : SumOf(f)[S] <= SumOf(g)[S]}
<1>1. {} \in T
  BY SumOfNone
<1>2. ASSUME NEW S \in SUBSET Tasks, S # {}, AllBut(S) \in T PROVE S \in T
  <2>1. One(S) \in Tasks /\ AllBut(S) \in SUBSET Tasks
    BY <1>2 DEF One, AllBut
  <2>2. f[One(S)] <= g[One(S)] /\ f[One(S)] \in Nat /\ g[One(S)] \in Nat
    BY <2>1
  <2>3. SumOf(f)[S] = f[One(S)] + SumOf(f)[AllBut(S)] /\ SumOf(g)[S] = g[One(S)] + SumOf(g)[AllBut(S)]
    BY <1>2, SumIs
  <2>4. SumOf(f)[AllBut(S)] \in Nat /\ SumOf(g)[AllBut(S)] \in Nat
    BY <2>1, SumType
  <2>5. SumOf(f)[S] <= SumOf(g)[S]
    BY <1>2, <2>2, <2>3, <2>4
  <2> QED
    BY <2>5
<1> HIDE DEF T
<1>3. SUBSET Tasks \subseteq T
  BY <1>1, <1>2, TaskInduction
<1> QED
  BY <1>3 DEF T

\* One more for each task of R.
LEMMA SumGrows ==
  ASSUME NEW f \in [Tasks -> Nat], NEW g \in [Tasks -> Nat], NEW R \in SUBSET Tasks,
         \A t \in Tasks : g[t] = f[t] + IF t \in R THEN 1 ELSE 0
  PROVE  SumOf(g)[Tasks] = SumOf(f)[Tasks] + Cardinality(R)
<1> DEFINE T == {S \in SUBSET Tasks : SumOf(g)[S] = SumOf(f)[S] + Cardinality(S \cap R)}
<1>0. \A S \in SUBSET Tasks : IsFiniteSet(S \cap R) /\ Cardinality(S \cap R) \in Nat
  <2> TAKE S \in SUBSET Tasks
  <2>1. S \cap R \in SUBSET Tasks
    OBVIOUS
  <2> QED
    BY <2>1, TimesAssumption, FS_Subset, FS_CardinalityType DEF TimesAssumption
<1>1. {} \in T
  <2>1. {} \cap R = {}
    OBVIOUS
  <2> QED
    BY <2>1, SumOfNone, FS_EmptySet
<1>2. ASSUME NEW S \in SUBSET Tasks, S # {}, AllBut(S) \in T PROVE S \in T
  <2>1. One(S) \in S /\ AllBut(S) \in SUBSET Tasks
    BY <1>2 DEF One, AllBut
  <2>2. g[One(S)] = f[One(S)] + (IF One(S) \in R THEN 1 ELSE 0) /\ f[One(S)] \in Nat
    BY <2>1
  <2>3. SumOf(f)[S] = f[One(S)] + SumOf(f)[AllBut(S)] /\ SumOf(g)[S] = g[One(S)] + SumOf(g)[AllBut(S)]
    BY <1>2, SumIs
  <2>4. SumOf(f)[AllBut(S)] \in Nat /\ Cardinality(AllBut(S) \cap R) \in Nat
    BY <1>0, <2>1, SumType
  <2>5. Cardinality(S \cap R) = Cardinality(AllBut(S) \cap R) + IF One(S) \in R THEN 1 ELSE 0
    <3>1. CASE One(S) \in R
      <4>1. S \cap R = (AllBut(S) \cap R) \cup {One(S)} /\ One(S) \notin AllBut(S) \cap R
        BY <2>1, <3>1 DEF AllBut
      <4> QED
        BY <1>0, <2>1, <3>1, <4>1, FS_AddElement
    <3>2. CASE One(S) \notin R
      <4>1. S \cap R = AllBut(S) \cap R
        BY <3>2 DEF AllBut
      <4> QED
        BY <1>0, <2>1, <3>2, <4>1
    <3> QED
      BY <3>1, <3>2
  <2>6. SumOf(g)[S] = SumOf(f)[S] + Cardinality(S \cap R)
    BY <1>2, <2>2, <2>3, <2>4, <2>5
  <2> QED
    BY <2>6
<1> HIDE DEF T
<1>3. SUBSET Tasks \subseteq T
  BY <1>1, <1>2, TaskInduction
<1>4. Tasks \cap R = R
  OBVIOUS
<1> QED
  BY <1>3, <1>4 DEF T

\* Nothing of each task is nothing.
LEMMA SumOfZeros ==
  ASSUME NEW f \in [Tasks -> Nat], \A t \in Tasks : f[t] = 0
  PROVE  SumOf(f)[Tasks] = 0
<1> DEFINE T == {S \in SUBSET Tasks : SumOf(f)[S] = 0}
<1>2. {} \in T
  BY SumOfNone
<1>3. ASSUME NEW S \in SUBSET Tasks, S # {}, AllBut(S) \in T PROVE S \in T
  <2>1. One(S) \in Tasks
    BY <1>3 DEF One
  <2>2. SumOf(f)[S] = f[One(S)] + SumOf(f)[AllBut(S)]
    BY <1>3, SumIs
  <2> QED
    BY <1>3, <2>1, <2>2
<1> HIDE DEF T
<1>4. SUBSET Tasks \subseteq T
  BY <1>2, <1>3, TaskInduction
<1> QED
  BY <1>4 DEF T
-----------------------------------------------------------------------------
(* What ran for how long, and in which order.                              *)

\* How long a worker has been taken by each task so far.
Elapsed == [t \in Tasks |->
  IF startedAt[t] = 0 THEN 0
  ELSE (IF doneAt[t] = 0 THEN now ELSE doneAt[t]) - startedAt[t]]

\* A command took its part of the time between start and done; where something
\* failed, something failed by itself.
RanInv ==
  /\ \A t \in Tasks : cmdReal[t] # -1 =>
       doneAt[t] # 0 /\ cmdReal[t] \in 1..(doneAt[t] - startedAt[t])
  /\ failed # {} => \E t \in failed : doneAt[t] # 0 /\ Waits[t] \cap failed = {}

\* Tasks became ready after what they wait for, the first of all at the start;
\* so there is an order of those that are done, with or without cycles.
OrderInv ==
  /\ \A t \in Tasks : readyAt[t] # 0 =>
       \A d \in Waits[t] : doneAt[d] # 0 /\ doneAt[d] <= readyAt[t]
  /\ (\E t \in Tasks : readyAt[t] # 0) => \E t \in Tasks : readyAt[t] = 1
  /\ \E n \in Nat : \E rank \in [Tasks -> 0..n] :
       \A t \in Tasks : doneAt[t] # 0 => \A d \in Waits[t] : rank[d] < rank[t]

\* There are no more than Cores tasks at a time, and all of them together have
\* taken no more than that many workers can until the last one was done.
CoresInv ==
  /\ Cardinality(Running) <= Cores
  /\ \E m \in 1..now :
       /\ SumOf(Elapsed)[Tasks] <= Cores * (m - 1)
       /\ m = 1 \/ (\E t \in Tasks : doneAt[t] = m) \/ (m = now /\ Running # {})

\* The clock stops at the exit, when all is done.
ExitInv == exitedAt # 0 => exitedAt = now /\ \A t \in Tasks : doneAt[t] # 0

WorkInv == TimesInv /\ RanInv /\ OrderInv /\ CoresInv /\ ExitInv

\* The variables as numbers.
LEMMA TimesNumbers ==
  ASSUME TimesInv
  PROVE  /\ now \in Nat /\ now >= 1 /\ exitedAt \in Nat
         /\ \A t \in Tasks :
              /\ readyAt[t] \in Nat /\ startedAt[t] \in Nat /\ doneAt[t] \in Nat
              /\ cmdReal[t] \in Nat \cup {-1}
              /\ readyAt[t] <= now /\ startedAt[t] <= now /\ doneAt[t] <= now
              /\ startedAt[t] # 0 => readyAt[t] # 0 /\ readyAt[t] <= startedAt[t]
              /\ doneAt[t] # 0 => startedAt[t] # 0 /\ startedAt[t] <= doneAt[t]
<1>1. MaxTime \in Nat
  BY TimesAssumption DEF TimesAssumption
<1>2. /\ now \in 1..MaxTime /\ exitedAt \in 0..MaxTime
      /\ readyAt \in [Tasks -> 0..MaxTime] /\ startedAt \in [Tasks -> 0..MaxTime]
      /\ doneAt \in [Tasks -> 0..MaxTime] /\ cmdReal \in [Tasks -> -1..MaxTime]
  BY DEF TimesInv, TimesTypeOK
<1>3. ASSUME NEW t \in Tasks
      PROVE  /\ readyAt[t] \in 0..MaxTime /\ startedAt[t] \in 0..MaxTime
             /\ doneAt[t] \in 0..MaxTime /\ cmdReal[t] \in -1..MaxTime
             /\ readyAt[t] <= now /\ startedAt[t] <= now /\ doneAt[t] <= now
             /\ startedAt[t] # 0 => readyAt[t] \in 1..startedAt[t]
             /\ doneAt[t] # 0 => startedAt[t] \in 1..doneAt[t]
  <2>1. /\ readyAt[t] \in 0..MaxTime /\ startedAt[t] \in 0..MaxTime
        /\ doneAt[t] \in 0..MaxTime /\ cmdReal[t] \in -1..MaxTime
    BY <1>2
  <2>2. /\ readyAt[t] <= now /\ startedAt[t] <= now /\ doneAt[t] <= now
        /\ startedAt[t] # 0 => readyAt[t] \in 1..startedAt[t]
        /\ doneAt[t] # 0 => startedAt[t] \in 1..doneAt[t]
    BY DEF TimesInv, TimesTypeOK
  <2> QED
    BY <2>1, <2>2
<1>4. ASSUME NEW t \in Tasks
      PROVE  /\ readyAt[t] \in Nat /\ startedAt[t] \in Nat /\ doneAt[t] \in Nat
             /\ cmdReal[t] \in Nat \cup {-1}
             /\ readyAt[t] <= now /\ startedAt[t] <= now /\ doneAt[t] <= now
             /\ startedAt[t] # 0 => readyAt[t] # 0 /\ readyAt[t] <= startedAt[t]
             /\ doneAt[t] # 0 => startedAt[t] # 0 /\ startedAt[t] <= doneAt[t]
  BY <1>1, <1>3
<1> QED
  BY <1>1, <1>2, <1>4

\* No task was taken for less than no time.
LEMMA ElapsedType == TimesInv => Elapsed \in [Tasks -> Nat]
<1> SUFFICES ASSUME TimesInv PROVE Elapsed \in [Tasks -> Nat]
  OBVIOUS
<1>1. \A t \in Tasks :
        (IF startedAt[t] = 0 THEN 0
         ELSE (IF doneAt[t] = 0 THEN now ELSE doneAt[t]) - startedAt[t]) \in Nat
  BY TimesNumbers
<1> QED
  BY <1>1 DEF Elapsed

\* What Finish does, task by task.
LEMMA FinishSteps ==
  ASSUME TimesInv, NEW t \in Tasks, Finish(t)
  PROVE  /\ startedAt[t] # 0 /\ doneAt[t] = 0 /\ doneAt'[t] = now
         /\ \A u \in Tasks : u # t => doneAt'[u] = doneAt[u]
         /\ \A u \in Tasks : readyAt'[u] = IF readyAt[u] = 0 /\ \A d \in Waits[u] : doneAt'[d] # 0
                                           THEN now ELSE readyAt[u]
         /\ \A u \in Tasks : u # t => cmdReal'[u] = cmdReal[u]
         /\ now' = now /\ startedAt' = startedAt /\ exitedAt' = exitedAt
<1>1. doneAt \in [Tasks -> 0..MaxTime] /\ cmdReal \in [Tasks -> -1..MaxTime]
  BY DEF TimesInv, TimesTypeOK
<1>2. cmdReal' = cmdReal \/ \E w : cmdReal' = [cmdReal EXCEPT ![t] = w]
  BY DEF Finish, Ends
<1>3. \A u \in Tasks : u # t => cmdReal'[u] = cmdReal[u]
  BY <1>1, <1>2
<1> QED
  BY <1>1, <1>3 DEF Finish, Running

\* At the start nothing has run.
LEMMA WorkInit == TimesInit => WorkInv
<1> SUFFICES ASSUME TimesInit PROVE WorkInv
  OBVIOUS
<1>1. /\ now = 1 /\ failed = {} /\ exitedAt = 0
      /\ readyAt = [t \in Tasks |-> IF Waits[t] = {} THEN 1 ELSE 0]
      /\ startedAt = [t \in Tasks |-> 0] /\ doneAt = [t \in Tasks |-> 0]
      /\ cmdReal = [t \in Tasks |-> -1]
  BY DEF TimesInit, NotRun
<1>2. TimesInv
  BY TimesInductive DEF TimesInit
<1>3. RanInv
  BY <1>1 DEF RanInv
<1>4. OrderInv
  <2>1. \A t \in Tasks : readyAt[t] # 0 => readyAt[t] = 1 /\ Waits[t] = {}
    BY <1>1
  <2>2. \E n \in Nat : \E rank \in [Tasks -> 0..n] :
          \A t \in Tasks : doneAt[t] # 0 => \A d \in Waits[t] : rank[d] < rank[t]
    <3>1. [t \in Tasks |-> 0] \in [Tasks -> 0..0]
      OBVIOUS
    <3>2. \A t \in Tasks : doneAt[t] = 0
      BY <1>1
    <3> QED
      BY <3>1, <3>2
  <2> QED
    BY <2>1, <2>2 DEF OrderInv
<1>5. CoresInv
  <2>1. Running = {}
    BY <1>1 DEF Running
  <2>2. Elapsed \in [Tasks -> Nat]
    BY <1>2, ElapsedType
  <2>3. \A t \in Tasks : Elapsed[t] = 0
    BY <1>1 DEF Elapsed
  <2>4. SumOf(Elapsed)[Tasks] = 0
    BY <2>2, <2>3, SumOfZeros
  <2>5. Cores \in Nat
    BY TimesAssumption DEF TimesAssumption
  <2>6. Cardinality(Running) = 0
    BY <2>1, FS_EmptySet
  <2>7. Cores * (1 - 1) = 0
    BY <2>5
  <2> QED
    BY <1>1, <2>4, <2>5, <2>6, <2>7 DEF CoresInv
<1>6. ExitInv
  BY <1>1 DEF ExitInv
<1> QED
  BY <1>2, <1>3, <1>4, <1>5, <1>6 DEF WorkInv

\* Only Finish sets a command's time, to a part of what has elapsed; what a task
\* waits for was done before it, so a first failure stays one.
LEMMA RanStep == TimesInv /\ RanInv /\ OrderInv /\ [TimesNext]_timeVars => RanInv'
<1> SUFFICES ASSUME TimesInv, RanInv, OrderInv, [TimesNext]_timeVars PROVE RanInv'
  OBVIOUS
<1>1. CASE UNCHANGED <<startedAt, doneAt, cmdReal, failed>>
  BY <1>1 DEF RanInv
<1>2. ASSUME NEW t \in Tasks, Start(t) PROVE RanInv'
  <2>1. /\ startedAt[t] = 0 /\ startedAt' = [startedAt EXCEPT ![t] = now]
        /\ doneAt' = doneAt /\ cmdReal' = cmdReal /\ failed' = failed
    BY <1>2 DEF Start
  <2>2. doneAt[t] = 0
    BY <2>1, TimesNumbers
  <2>3. startedAt \in [Tasks -> 0..MaxTime]
    BY DEF TimesInv, TimesTypeOK
  <2>4. \A u \in Tasks : doneAt[u] # 0 => startedAt'[u] = startedAt[u]
    BY <2>1, <2>2, <2>3
  <2>5. \A u \in Tasks : cmdReal[u] # -1 =>
          doneAt[u] # 0 /\ cmdReal[u] \in 1..(doneAt[u] - startedAt'[u])
    BY <2>4 DEF RanInv
  <2> QED
    BY <2>1, <2>5 DEF RanInv
<1>3. ASSUME NEW t \in Tasks, Finish(t) PROVE RanInv'
  <2>1. /\ startedAt[t] # 0 /\ doneAt[t] = 0 /\ doneAt'[t] = now
        /\ \A u \in Tasks : u # t => doneAt'[u] = doneAt[u] /\ cmdReal'[u] = cmdReal[u]
        /\ startedAt' = startedAt
    BY <1>3, FinishSteps
  <2>2. now \in Nat /\ now # 0 /\ startedAt[t] \in Nat
    BY TimesNumbers
  <2>3. cmdReal[t] = -1
    BY <2>1 DEF RanInv
  <2>4. Ends(t)
    BY <1>3 DEF Finish
  <2>5. cmdReal \in [Tasks -> -1..MaxTime]
    BY DEF TimesInv, TimesTypeOK
  <2>6. cmdReal'[t] = -1 \/ cmdReal'[t] \in 1..(now - startedAt[t])
    BY <2>3, <2>4, <2>5 DEF Ends
  <2>7. \A u \in Tasks : cmdReal'[u] # -1 =>
          doneAt'[u] # 0 /\ cmdReal'[u] \in 1..(doneAt'[u] - startedAt'[u])
    <3> TAKE u \in Tasks
    <3>1. CASE u = t
      BY <2>1, <2>2, <2>6, <3>1
    <3>2. CASE u # t
      BY <2>1, <3>2 DEF RanInv
    <3> QED
      BY <3>1, <3>2
  <2>8. failed \subseteq failed' /\ failed' \subseteq failed \cup {t}
    BY <2>4 DEF Ends
  <2>9. ASSUME NEW u \in Tasks, u = t \/ doneAt[u] # 0 PROVE t \notin Waits[u]
    <3>1. readyAt[u] # 0
      BY <2>1, <2>9, TimesNumbers
    <3>2. \A d \in Waits[u] : doneAt[d] # 0
      BY <3>1 DEF OrderInv
    <3> QED
      BY <2>1, <3>2
  <2>10. ASSUME failed' # {}
         PROVE  \E u \in failed' : doneAt'[u] # 0 /\ Waits[u] \cap failed' = {}
    <3>1. CASE failed # {}
      <4>1. PICK u \in failed : doneAt[u] # 0 /\ Waits[u] \cap failed = {}
        BY <3>1 DEF RanInv
      <4>2. u \in Tasks /\ u # t
        BY <2>1, <4>1 DEF TimesInv, TimesTypeOK
      <4>3. t \notin Waits[u]
        BY <2>9, <4>1, <4>2
      <4> QED
        BY <2>1, <2>8, <4>1, <4>2, <4>3
    <3>2. CASE failed = {}
      <4>1. failed' = {t}
        BY <2>8, <2>10, <3>2
      <4> QED
        BY <2>1, <2>2, <2>9, <4>1
    <3> QED
      BY <3>1, <3>2
  <2> QED
    BY <2>7, <2>10 DEF RanInv
<1> QED
  BY <1>1, <1>2, <1>3 DEF TimesNext, Tick, Exit, timeVars

\* What finishes goes to the end of the order: nothing that is done waits for it.
LEMMA OrderStep == TimesInv /\ OrderInv /\ [TimesNext]_timeVars => OrderInv'
<1> SUFFICES ASSUME TimesInv, OrderInv, [TimesNext]_timeVars PROVE OrderInv'
  OBVIOUS
<1>1. CASE UNCHANGED <<readyAt, doneAt>>
  BY <1>1 DEF OrderInv
<1>2. ASSUME NEW t \in Tasks, Finish(t) PROVE OrderInv'
  <2>1. /\ startedAt[t] # 0 /\ doneAt[t] = 0 /\ doneAt'[t] = now
        /\ \A u \in Tasks : u # t => doneAt'[u] = doneAt[u]
        /\ \A u \in Tasks : readyAt'[u] = IF readyAt[u] = 0 /\ \A d \in Waits[u] : doneAt'[d] # 0
                                          THEN now ELSE readyAt[u]
    BY <1>2, FinishSteps
  <2>2. \A u \in Tasks : Waits[u] \subseteq Tasks
    BY TimesAssumption DEF TimesAssumption
  <2>3. now # 0 /\ \A u \in Tasks : doneAt'[u] <= now
    BY <2>1, TimesNumbers
  <2>4. \A u \in Tasks : doneAt[u] # 0 => doneAt'[u] = doneAt[u]
    BY <2>1
  <2>5. ASSUME NEW u \in Tasks, readyAt'[u] # 0, NEW d \in Waits[u]
        PROVE  doneAt'[d] # 0 /\ doneAt'[d] <= readyAt'[u]
    <3>1. d \in Tasks
      BY <2>2
    <3>2. CASE readyAt[u] # 0
      <4>1. doneAt[d] # 0 /\ doneAt[d] <= readyAt[u]
        BY <3>2 DEF OrderInv
      <4> QED
        BY <2>1, <2>4, <3>1, <3>2, <4>1
    <3>3. CASE readyAt[u] = 0
      BY <2>1, <2>3, <2>5, <3>1, <3>3
    <3> QED
      BY <3>2, <3>3
  <2>6. readyAt[t] # 0
    BY <2>1, TimesNumbers
  <2>7. \E u \in Tasks : readyAt'[u] = 1
    <3>1. PICK u \in Tasks : readyAt[u] = 1
      BY <2>6 DEF OrderInv
    <3> QED
      BY <2>1, <3>1
  <2>12. PICK n \in Nat : \E rank \in [Tasks -> 0..n] :
          \A u \in Tasks : doneAt[u] # 0 => \A d \in Waits[u] : rank[d] < rank[u]
    BY DEF OrderInv
  <2>8. PICK rank \in [Tasks -> 0..n] :
          \A u \in Tasks : doneAt[u] # 0 => \A d \in Waits[u] : rank[d] < rank[u]
    BY <2>12
  <2> DEFINE later == [u \in Tasks |-> IF u = t THEN n + 1 ELSE rank[u]]
  <2>9. later \in [Tasks -> 0..(n + 1)]
    <3>1. \A u \in Tasks : rank[u] \in 0..n
      OBVIOUS
    <3>2. \A u \in Tasks : (IF u = t THEN n + 1 ELSE rank[u]) \in 0..(n + 1)
      BY <3>1
    <3> QED
      BY <3>2
  <2>10. ASSUME NEW u \in Tasks, doneAt'[u] # 0, NEW d \in Waits[u]
         PROVE  later[d] < later[u]
    <3>1. d \in Tasks /\ rank[d] \in 0..n
      BY <2>2
    <3>2. d # t
      <4>1. readyAt[u] # 0
        BY <2>1, <2>6, <2>10, TimesNumbers
      <4> QED
        BY <2>1, <4>1 DEF OrderInv
    <3>3. CASE u = t
      BY <3>1, <3>2, <3>3
    <3>4. CASE u # t
      BY <2>1, <2>8, <2>10, <3>1, <3>2, <3>4
    <3> QED
      BY <3>3, <3>4
  <2>11. n + 1 \in Nat
    OBVIOUS
  <2> HIDE DEF later
  <2>13. \E m \in Nat : \E r \in [Tasks -> 0..m] :
           \A u \in Tasks : doneAt'[u] # 0 => \A d \in Waits[u] : r[d] < r[u]
    BY <2>9, <2>10, <2>11
  <2> QED
    BY <2>5, <2>7, <2>13 DEF OrderInv
<1> QED
  BY <1>1, <1>2 DEF TimesNext, Tick, Exit, Start, timeVars

\* A tick adds one for each of the running tasks; to start one needs a free
\* worker.
LEMMA CoresStep == TimesInv /\ CoresInv /\ [TimesNext]_timeVars => CoresInv'
<1> SUFFICES ASSUME TimesInv, CoresInv, [TimesNext]_timeVars PROVE CoresInv'
  OBVIOUS
<1>0. /\ Cores \in Nat /\ Elapsed \in [Tasks -> Nat]
      /\ SumOf(Elapsed)[Tasks] \in Nat
      /\ Running \in SUBSET Tasks /\ IsFiniteSet(Running) /\ Cardinality(Running) \in Nat
  <2>1. Elapsed \in [Tasks -> Nat]
    BY ElapsedType
  <2>3. Running \in SUBSET Tasks
    BY DEF Running
  <2> QED
    BY <2>1, <2>3, SumType, TimesAssumption, FS_Subset, FS_CardinalityType
    DEF TimesAssumption
<1>1. PICK m \in 1..now :
        /\ SumOf(Elapsed)[Tasks] <= Cores * (m - 1)
        /\ m = 1 \/ (\E t \in Tasks : doneAt[t] = m) \/ (m = now /\ Running # {})
  BY DEF CoresInv
<1>2. CASE UNCHANGED <<now, startedAt, doneAt>>
  <2>1. Elapsed' = Elapsed /\ Running' = Running
    BY <1>2 DEF Elapsed, Running
  <2> QED
    BY <1>1, <1>2, <2>1 DEF CoresInv
<1>3. CASE Tick
  <2>1. now' = now + 1 /\ startedAt' = startedAt /\ doneAt' = doneAt
    BY <1>3 DEF Tick
  <2>2. Running' = Running
    BY <2>1 DEF Running
  <2>3. \A t \in Tasks : Elapsed'[t] = Elapsed[t] + IF t \in Running THEN 1 ELSE 0
    <3> TAKE t \in Tasks
    <3>1. now \in Nat /\ startedAt[t] \in Nat /\ doneAt[t] \in Nat
      BY TimesNumbers
    <3>2. doneAt[t] # 0 => startedAt[t] # 0
      BY TimesNumbers
    <3>3. Elapsed[t] = IF startedAt[t] = 0 THEN 0
                       ELSE (IF doneAt[t] = 0 THEN now ELSE doneAt[t]) - startedAt[t]
      BY DEF Elapsed
    <3>4. Elapsed'[t] = IF startedAt[t] = 0 THEN 0
                        ELSE (IF doneAt[t] = 0 THEN now + 1 ELSE doneAt[t]) - startedAt[t]
      BY <2>1 DEF Elapsed
    <3>5. t \in Running <=> startedAt[t] # 0 /\ doneAt[t] = 0
      BY DEF Running
    <3> QED
      BY <3>1, <3>2, <3>3, <3>4, <3>5
  <2>8. Elapsed' \in [Tasks -> Nat]
    <3>1. Elapsed' = [t \in Tasks |-> Elapsed'[t]]
      BY DEF Elapsed
    <3>2. \A t \in Tasks : Elapsed'[t] \in Nat
      BY <1>0, <2>3
    <3> QED
      BY <3>1, <3>2
  <2>4. SumOf(Elapsed')[Tasks] = SumOf(Elapsed)[Tasks] + Cardinality(Running)
    BY <1>0, <2>3, <2>8, SumGrows
  <2>5. SumOf(Elapsed)'[Tasks] = SumOf(Elapsed')[Tasks]
    BY DEF SumOf
  <2>6. CASE Running = {}
    <3>1. SumOf(Elapsed')[Tasks] <= Cores * (m - 1)
      BY <1>0, <1>1, <2>4, <2>6, FS_EmptySet
    <3>2. m \in 1..now' /\ (m = 1 \/ \E t \in Tasks : doneAt'[t] = m)
      BY <1>1, <2>1, <2>6, TimesNumbers
    <3> QED
      BY <2>2, <2>5, <3>1, <3>2 DEF CoresInv
  <2>7. CASE Running # {}
    <3>1. SumOf(Elapsed')[Tasks] <= Cores * (m - 1) + Cores
      <4>1. Cardinality(Running) <= Cores
        BY DEF CoresInv
      <4>2. Cores * (m - 1) \in Int
        BY <1>0
      <4> QED
        BY <1>0, <1>1, <2>4, <4>1, <4>2
    <3>2. Cores * (m - 1) + Cores <= Cores * (now' - 1)
      <4>1. m \in Nat /\ m <= now /\ now \in Nat
        BY TimesNumbers
      <4>2. Cores * (m - 1) + Cores = Cores * m
        BY <1>0, <4>1
      <4>3. Cores * m <= Cores * now
        BY <1>0, <4>1
      <4> QED
        BY <2>1, <4>1, <4>2, <4>3
    <3>3. SumOf(Elapsed')[Tasks] <= Cores * (now' - 1)
      <4>1. Cores * (m - 1) + Cores \in Int /\ Cores * (now' - 1) \in Int
        BY <1>0, <2>1, TimesNumbers
      <4>2. SumOf(Elapsed')[Tasks] \in Nat
        BY <2>8, SumType
      <4> QED
        BY <3>1, <3>2, <4>1, <4>2
    <3>4. now' \in 1..now'
      BY <2>1, TimesNumbers
    <3> QED
      BY <2>2, <2>5, <2>7, <3>3, <3>4 DEF CoresInv
  <2> QED
    BY <2>6, <2>7
<1>4. ASSUME NEW t \in Tasks, Start(t) PROVE CoresInv'
  <2>1. /\ startedAt[t] = 0 /\ startedAt' = [startedAt EXCEPT ![t] = now]
        /\ now' = now /\ doneAt' = doneAt /\ Cardinality(Running) < Cores
    BY <1>4 DEF Start
  <2>2. startedAt'[t] = now /\ \A u \in Tasks : u # t => startedAt'[u] = startedAt[u]
    <3>1. startedAt \in [Tasks -> 0..MaxTime]
      BY DEF TimesInv, TimesTypeOK
    <3> QED
      BY <2>1, <3>1
  <2>3. doneAt[t] = 0 /\ now \in Nat /\ now # 0
    BY <2>1, TimesNumbers
  <2>4. Running' = Running \cup {t} /\ t \notin Running
    BY <2>1, <2>2, <2>3 DEF Running
  <2>5. Cardinality(Running') <= Cores
    <3>1. Cardinality(Running \cup {t}) = Cardinality(Running) + 1
      BY <1>0, <2>4, FS_AddElement
    <3> QED
      BY <1>0, <2>1, <2>4, <3>1
  <2>6. Elapsed' = Elapsed
    <3>1. \A u \in Tasks :
            (IF startedAt'[u] = 0 THEN 0
             ELSE (IF doneAt'[u] = 0 THEN now' ELSE doneAt'[u]) - startedAt'[u]) =
            (IF startedAt[u] = 0 THEN 0
             ELSE (IF doneAt[u] = 0 THEN now ELSE doneAt[u]) - startedAt[u])
      BY <2>1, <2>2, <2>3
    <3> QED
      BY <3>1 DEF Elapsed
  <2> QED
    BY <1>1, <2>1, <2>4, <2>5, <2>6 DEF CoresInv
<1>5. ASSUME NEW t \in Tasks, Finish(t) PROVE CoresInv'
  <2>1. /\ startedAt[t] # 0 /\ doneAt[t] = 0 /\ doneAt'[t] = now
        /\ \A u \in Tasks : u # t => doneAt'[u] = doneAt[u]
        /\ now' = now /\ startedAt' = startedAt
    BY <1>5, FinishSteps
  <2>2. now \in Nat /\ now # 0
    BY TimesNumbers
  <2>3. Running' = Running \ {t} /\ t \in Running
    BY <2>1, <2>2 DEF Running
  <2>4. Cardinality(Running') <= Cores
    <3>1. Cardinality(Running) <= Cores
      BY DEF CoresInv
    <3>2. Cardinality(Running \ {t}) = Cardinality(Running) - 1
      BY <1>0, <2>3, FS_RemoveElement
    <3> QED
      BY <1>0, <2>3, <3>1, <3>2
  <2>5. Elapsed' = Elapsed
    <3>1. \A u \in Tasks :
            (IF startedAt'[u] = 0 THEN 0
             ELSE (IF doneAt'[u] = 0 THEN now' ELSE doneAt'[u]) - startedAt'[u]) =
            (IF startedAt[u] = 0 THEN 0
             ELSE (IF doneAt[u] = 0 THEN now ELSE doneAt[u]) - startedAt[u])
      BY <2>1, <2>2
    <3> QED
      BY <3>1 DEF Elapsed
  <2>6. m = 1 \/ \E u \in Tasks : doneAt'[u] = m
    BY <1>1, <2>1
  <2> QED
    BY <1>1, <2>1, <2>4, <2>5, <2>6 DEF CoresInv
<1> QED
  BY <1>2, <1>3, <1>4, <1>5 DEF TimesNext, Exit, timeVars

\* Nothing finishes after the exit, and the clock stands still.
LEMMA ExitStep == TimesInv /\ ExitInv /\ [TimesNext]_timeVars => ExitInv'
<1> SUFFICES ASSUME TimesInv, ExitInv, [TimesNext]_timeVars PROVE ExitInv'
  OBVIOUS
<1>1. CASE Exit
  BY <1>1 DEF Exit, ExitInv
<1>2. ASSUME NEW t \in Tasks, Finish(t) PROVE ExitInv'
  <2>1. doneAt[t] = 0 /\ exitedAt' = exitedAt
    BY <1>2, FinishSteps
  <2> QED
    BY <2>1 DEF ExitInv
<1> QED
  BY <1>1, <1>2 DEF TimesNext, Tick, Start, timeVars, ExitInv

\* The invariant of the scheduler's times, in every build.
THEOREM WorkInvariant == TimesSpec => []WorkInv
<1>1. WorkInv /\ [TimesNext]_timeVars => WorkInv'
  BY TimesInductive, RanStep, OrderStep, CoresStep, ExitStep DEF WorkInv
<1> QED
  BY <1>1, WorkInit, PTL DEF TimesSpec

\* The work of a task is its command's time.
LEMMA WorkType ==
  ASSUME TimesInv
  PROVE  /\ WorkNs \in [Tasks -> Nat]
         /\ \A t \in Tasks : WorkNs[t] = IF cmdReal[t] = -1 THEN 0 ELSE cmdReal[t]
<1>1. \A t \in Tasks : (IF cmdReal[t] = -1 THEN 0 ELSE cmdReal[t]) \in Nat
  BY TimesNumbers
<1> QED
  BY <1>1 DEF WorkNs

\* "Nothing to optimize" (report.Run) is said only of a build in which no command
\* ran, the time of each being in Summarize's sum, and where something failed all
\* the same, a first failure had neither a command nor a test to execute.
THEOREM FullyCachedIsNoWork == TimesSpec => []FullyCachedRanNothing
<1>1. ASSUME WorkInv PROVE FullyCachedRanNothing
  <2> SUFFICES ASSUME exitedAt # 0, FullyCached
               PROVE  /\ \A t \in Tasks : cmdReal[t] = -1
                      /\ failed # {} =>
                           \E t \in failed :
                             /\ ~Poisoned(t) /\ cmdReal[t] = -1
                             /\ KindOf[t] = "test" => WallNs(t) = 0
    BY DEF FullyCachedRanNothing
  <2>1. TimesInv /\ RanInv /\ TotalWork = 0 /\ \A t \in Tasks : KindOf[t] = "test" => WallNs(t) = 0
    BY <1>1 DEF WorkInv, FullyCached
  <2>2. ASSUME NEW t \in Tasks PROVE cmdReal[t] = -1
    <3>1. Tasks \in SUBSET Tasks
      OBVIOUS
    <3>2. WorkNs[t] \in Nat /\ WorkNs[t] <= 0
      BY <2>1, <3>1, SumType, WorkType DEF TotalWork
    <3>3. cmdReal[t] # -1 => cmdReal[t] \in 1..(doneAt[t] - startedAt[t])
      BY <2>1 DEF RanInv
    <3>4. cmdReal[t] # -1 => cmdReal[t] >= 1
      BY <2>1, <3>3, TimesNumbers
    <3> QED
      BY <2>1, <3>2, <3>4, WorkType
  <2>3. ASSUME failed # {}
        PROVE  \E t \in failed :
                 /\ ~Poisoned(t) /\ cmdReal[t] = -1
                 /\ KindOf[t] = "test" => WallNs(t) = 0
    <3>1. PICK t \in failed : Waits[t] \cap failed = {}
      BY <2>1, <2>3 DEF RanInv
    <3>2. t \in Tasks
      BY <2>1 DEF TimesInv, TimesTypeOK
    <3> QED
      BY <2>1, <2>2, <3>1, <3>2 DEF Poisoned
  <2> QED
    BY <2>2, <2>3
<1> QED
  BY <1>1, WorkInvariant, PTL

\* The heaviest chain to a task took no longer than from the start of the build
\* until it was done: what it waits for was done when it was ready.
LEMMA ChainInTime ==
  ASSUME WorkInv, exitedAt # 0
  PROVE  \A t \in Tasks : Chain[t] \in 0..(doneAt[t] - 1)
<1> DEFINE Below(h, t) == {h[d] : d \in Waits[t]}
           Body(h, t) == WorkNs[t] + IF Below(h, t) = {} THEN 0
                                     ELSE CHOOSE c \in Below(h, t) : \A e \in Below(h, t) : e <= c
           Is(h) == h = [t \in Tasks |-> Body(h, t)]
<1>1. Chain = CHOOSE h : Is(h)
  BY DEF Chain
<1>2. \A t \in Tasks : doneAt[t] # 0 /\ Waits[t] \subseteq Tasks
  BY TimesAssumption DEF TimesAssumption, WorkInv, ExitInv
<1>3. PICK n \in Nat : \E rank \in [Tasks -> 0..n] :
        \A t \in Tasks : doneAt[t] # 0 => \A d \in Waits[t] : rank[d] < rank[t]
  BY DEF WorkInv, OrderInv
<1>4. PICK rank \in [Tasks -> 0..n] :
        \A t \in Tasks : \A d \in Waits[t] : rank[d] < rank[t]
  BY <1>2, <1>3
<1>5. \A t \in Tasks : rank[t] \in Nat /\ rank[t] < n + 1
  <2>1. \A t \in Tasks : rank[t] \in 0..n
    OBVIOUS
  <2> QED
    BY <2>1
<1>6. \E h : Is(h)
  <2> DEFINE T == {k \in Nat : \E h : h = [t \in Tasks |-> IF rank[t] < k THEN Body(h, t) ELSE 0]}
  <2>1. 0 \in T
    <3> DEFINE h == [t \in Tasks |-> 0]
    <3>1. \A t \in Tasks : 0 = IF rank[t] < 0 THEN Body(h, t) ELSE 0
      BY <1>5
    <3> HIDE DEF Body
    <3>2. h = [t \in Tasks |-> IF rank[t] < 0 THEN Body(h, t) ELSE 0]
      BY <3>1, Zenon
    <3> HIDE DEF h
    <3> QED
      BY <3>2
  <2>2. ASSUME NEW k \in T PROVE k + 1 \in T
    <3>1. PICK h : h = [t \in Tasks |-> IF rank[t] < k THEN Body(h, t) ELSE 0]
      OBVIOUS
    <3> DEFINE e == [t \in Tasks |-> IF rank[t] < k + 1 THEN Body(h, t) ELSE 0]
    <3>2. k \in Nat
      OBVIOUS
    <3> HIDE DEF Body
    <3>3. \A t \in Tasks : rank[t] < k => e[t] = h[t]
      <4>1. \A t \in Tasks : rank[t] < k => rank[t] < k + 1
        BY <1>5, <3>2
      <4>2. \A t \in Tasks : rank[t] < k => h[t] = Body(h, t)
        BY <3>1
      <4> QED
        BY <4>1, <4>2
    <3> HIDE DEF e
    <3>4. ASSUME NEW t \in Tasks, rank[t] < k + 1 PROVE Body(e, t) = Body(h, t)
      <4>1. \A d \in Waits[t] : d \in Tasks /\ rank[d] < k
        BY <1>2, <1>4, <1>5, <3>2, <3>4
      <4>2. \A d \in Waits[t] : e[d] = h[d]
        BY <3>3, <4>1
      <4>3. Below(e, t) = Below(h, t)
        BY <4>2
      <4> HIDE DEF Below
      <4> QED
        BY <4>3 DEF Body
    <3>5. \A t \in Tasks : (IF rank[t] < k + 1 THEN Body(e, t) ELSE 0) =
                           (IF rank[t] < k + 1 THEN Body(h, t) ELSE 0)
      BY <3>4
    <3>6. e = [t \in Tasks |-> IF rank[t] < k + 1 THEN Body(e, t) ELSE 0]
      BY <3>5, Zenon DEF e
    <3> QED
      BY <3>2, <3>6
  <2>3. T = Nat
    <3>1. T \subseteq Nat
      OBVIOUS
    <3> HIDE DEF T
    <3> QED
      BY <2>1, <2>2, <3>1, Induction
  <2> HIDE DEF Body
  <2>4. PICK h : h = [t \in Tasks |-> IF rank[t] < n + 1 THEN Body(h, t) ELSE 0]
    <3>1. n + 1 \in T
      BY <2>3
    <3> QED
      BY <3>1
  <2>5. \A t \in Tasks : (IF rank[t] < n + 1 THEN Body(h, t) ELSE 0) = Body(h, t)
    BY <1>5
  <2>6. h = [t \in Tasks |-> Body(h, t)]
    BY <2>4, <2>5, Zenon
  <2> QED
    BY <2>6
<1>7. \A t \in Tasks : Chain[t] = Body(Chain, t)
  <2>1. Is(Chain)
    <3> HIDE DEF Is
    <3> QED
      BY <1>1, <1>6
  <2> HIDE DEF Body
  <2> QED
    BY <2>1
<1> DEFINE U == {k \in Nat : \A t \in Tasks : rank[t] < k => Chain[t] \in 0..(doneAt[t] - 1)}
<1>8. 0 \in U
  BY <1>5
<1>9. ASSUME NEW k \in U PROVE k + 1 \in U
  <2>1. k \in Nat /\ \A t \in Tasks : rank[t] < k => Chain[t] \in 0..(doneAt[t] - 1)
    OBVIOUS
  <2>2. ASSUME NEW t \in Tasks, rank[t] < k + 1 PROVE Chain[t] \in 0..(doneAt[t] - 1)
    <3>1. /\ readyAt[t] \in Nat /\ startedAt[t] \in Nat /\ doneAt[t] \in Nat
          /\ readyAt[t] # 0 /\ readyAt[t] <= startedAt[t] /\ startedAt[t] <= doneAt[t]
      BY <1>2, TimesNumbers DEF WorkInv
    <3>2. WorkNs[t] \in 0..(doneAt[t] - startedAt[t])
      <4>1. cmdReal[t] # -1 => cmdReal[t] \in 1..(doneAt[t] - startedAt[t])
        BY DEF WorkInv, RanInv
      <4> QED
        BY <3>1, <4>1, WorkType DEF WorkInv
    <3>3. \A d \in Waits[t] : Chain[d] \in 0..(readyAt[t] - 1)
      <4> TAKE d \in Waits[t]
      <4>1. d \in Tasks /\ rank[d] < k
        BY <1>2, <1>4, <1>5, <2>1, <2>2
      <4>2. Chain[d] \in 0..(doneAt[d] - 1)
        BY <2>1, <4>1
      <4>3. doneAt[d] <= readyAt[t]
        BY <3>1 DEF WorkInv, OrderInv
      <4>4. doneAt[d] \in Nat
        BY <4>1, TimesNumbers DEF WorkInv
      <4> QED
        BY <3>1, <4>2, <4>3, <4>4
    <3>4. Below(Chain, t) \subseteq 0..(readyAt[t] - 1)
      BY <3>3
    <3>5. CASE Below(Chain, t) = {}
      <4> HIDE DEF Below
      <4>1. Chain[t] = WorkNs[t] + 0
        BY <1>7, <3>5
      <4> QED
        BY <3>1, <3>2, <4>1
    <3>6. CASE Below(Chain, t) # {}
      <4> DEFINE c == CHOOSE x \in Below(Chain, t) : \A e \in Below(Chain, t) : e <= x
      <4>1. readyAt[t] - 1 \in Nat
        BY <3>1
      <4> HIDE DEF Below
      <4>2. \E x \in Below(Chain, t) : \A e \in Below(Chain, t) : e <= x
        BY <3>4, <3>6, <4>1, Greatest
      <4>3. c \in Below(Chain, t)
        BY <4>2
      <4>4. c \in 0..(readyAt[t] - 1)
        BY <3>4, <4>3
      <4>5. Chain[t] = WorkNs[t] + c
        BY <1>7, <3>6
      <4> HIDE DEF c
      <4> QED
        BY <3>1, <3>2, <4>4, <4>5
    <3> QED
      BY <3>5, <3>6
  <2> QED
    BY <2>1, <2>2
<1>10. U = Nat
  <2>1. U \subseteq Nat
    OBVIOUS
  <2> HIDE DEF U
  <2> QED
    BY <1>8, <1>9, <2>1, Induction
<1>11. n + 1 \in U
  BY <1>10
<1> QED
  BY <1>5, <1>11

\* The span is from the first moment to the last task that is done.
LEMMA SpanIs ==
  ASSUME WorkInv, exitedAt # 0
  PROVE  /\ Span \in Nat /\ Span <= now - 1
         /\ \A t \in Tasks : doneAt[t] - 1 <= Span
<1> DEFINE begins == {readyAt[t] : t \in Tasks} \ {0}
           ends == {doneAt[t] : t \in Tasks} \ {0}
           e == CHOOSE x \in ends : \A f \in ends : f <= x
           b == CHOOSE x \in begins : \A c \in begins : x <= c
<1>1. \A t \in Tasks : doneAt[t] # 0
  BY DEF WorkInv, ExitInv
<1>2. now \in Nat /\ now >= 1
  BY TimesNumbers DEF WorkInv
<1>3. CASE Tasks = {}
  <2>1. ends = {}
    BY <1>3
  <2> QED
    BY <1>2, <1>3, <2>1 DEF Span
<1>4. CASE Tasks # {}
  <2>1. \A t \in Tasks : doneAt[t] \in ends /\ doneAt[t] \in Nat /\ doneAt[t] <= now
    BY <1>1, TimesNumbers DEF WorkInv
  <2>2. ends \subseteq 0..now /\ ends # {} /\ 0 \notin ends
    BY <1>4, <1>2, <2>1
  <2>3. 1 \in begins
    <3>1. \E t \in Tasks : readyAt[t] # 0
      BY <1>1, <1>4, TimesNumbers DEF WorkInv
    <3>2. PICK t \in Tasks : readyAt[t] = 1
      BY <3>1 DEF WorkInv, OrderInv
    <3> QED
      BY <3>2
  <2>4. begins \subseteq Nat /\ 0 \notin begins
    BY TimesNumbers DEF WorkInv
  <2>5. Span = e - b
    BY <2>2 DEF Span
  <2> HIDE DEF ends, begins
  <2>6. \E x \in ends : \A f \in ends : f <= x
    BY <1>2, <2>2, Greatest
  <2>7. e \in ends /\ \A f \in ends : f <= e
    BY <2>6
  <2>8. b = 1
    <3>1. \A c \in begins : 1 <= c
      BY <2>4
    <3>2. b \in begins /\ \A c \in begins : b <= c
      BY <2>3, <3>1
    <3> HIDE DEF b
    <3>3. b \in Nat /\ 1 <= b /\ b <= 1
      BY <2>3, <2>4, <3>1, <3>2
    <3> QED
      BY <3>3
  <2> HIDE DEF e, b
  <2>9. e \in 1..now
    BY <1>2, <2>2, <2>7
  <2> QED
    BY <1>2, <2>1, <2>5, <2>7, <2>8, <2>9
<1> QED
  BY <1>3, <1>4

\* The critical path and each task's work and wait fit into the span, the work of
\* all into the span on that many workers, and the span into the build, for every
\* graph, schedule and failure (package critpath, model.Summarize).
THEOREM SpanBounds == TimesSpec => []SpanIsBound
<1>1. ASSUME WorkInv PROVE SpanIsBound
  <2> SUFFICES ASSUME exitedAt # 0
               PROVE  /\ \A t \in Tasks : Chain[t] <= Span /\ WorkNs[t] + QueueNs(t) <= Span
                      /\ TotalWork <= Cores * Span
                      /\ Span <= exitedAt - 1
    BY DEF SpanIsBound
  <2>0. TimesInv /\ RanInv /\ CoresInv /\ exitedAt = now /\ \A t \in Tasks : doneAt[t] # 0
    BY <1>1 DEF WorkInv, ExitInv
  <2>1. Span \in Nat /\ Span <= now - 1 /\ \A t \in Tasks : doneAt[t] - 1 <= Span
    BY <1>1, SpanIs
  <2>2. ASSUME NEW t \in Tasks
        PROVE  /\ WorkNs[t] \in 0..(doneAt[t] - startedAt[t])
               /\ readyAt[t] \in Nat /\ startedAt[t] \in Nat /\ doneAt[t] \in Nat
               /\ readyAt[t] # 0 /\ startedAt[t] # 0
    <3>1. /\ readyAt[t] \in Nat /\ startedAt[t] \in Nat /\ doneAt[t] \in Nat
          /\ readyAt[t] # 0 /\ startedAt[t] # 0 /\ startedAt[t] <= doneAt[t]
      BY <2>0, TimesNumbers
    <3>2. cmdReal[t] # -1 => cmdReal[t] \in 1..(doneAt[t] - startedAt[t])
      BY <2>0 DEF RanInv
    <3> QED
      BY <2>0, <3>1, <3>2, WorkType
  <2>3. ASSUME NEW t \in Tasks
        PROVE  Chain[t] <= Span /\ WorkNs[t] + QueueNs(t) <= Span
    <3>1. Chain[t] \in 0..(doneAt[t] - 1)
      BY <1>1, ChainInTime
    <3>2. doneAt[t] - 1 <= Span
      BY <2>1
    <3>3. Chain[t] <= Span
      BY <2>1, <2>2, <3>1, <3>2
    <3>4. WorkNs[t] + (startedAt[t] - readyAt[t]) <= Span
      BY <2>1, <2>2, <3>2
    <3> QED
      BY <3>3, <3>4 DEF QueueNs
  <2>4. TotalWork <= Cores * Span
    <3>1. Cores \in Nat
      BY TimesAssumption DEF TimesAssumption
    <3>2. Elapsed \in [Tasks -> Nat] /\ WorkNs \in [Tasks -> Nat]
      BY <2>0, ElapsedType, WorkType
    <3>3. \A t \in Tasks : WorkNs[t] <= Elapsed[t]
      BY <2>0, <2>2 DEF Elapsed
    <3>4. TotalWork <= SumOf(Elapsed)[Tasks]
      BY <3>2, <3>3, SumAtMost DEF TotalWork
    <3>5. PICK m \in 1..now :
            /\ SumOf(Elapsed)[Tasks] <= Cores * (m - 1)
            /\ m = 1 \/ (\E t \in Tasks : doneAt[t] = m) \/ (m = now /\ Running # {})
      BY <2>0 DEF CoresInv
    <3>6. Running = {}
      BY <2>0 DEF Running
    <3>7. m - 1 <= Span
      BY <2>1, <3>5, <3>6
    <3>8. m - 1 \in Nat
      OBVIOUS
    <3>9. Cores * (m - 1) <= Cores * Span
      BY <2>1, <3>1, <3>7, <3>8
    <3>10. TotalWork \in Nat /\ SumOf(Elapsed)[Tasks] \in Nat
      <4>1. Tasks \in SUBSET Tasks
        OBVIOUS
      <4> QED
        BY <3>2, <4>1, SumType DEF TotalWork
    <3>11. Cores * (m - 1) \in Nat /\ Cores * Span \in Nat
      BY <2>1, <3>1, <3>8
    <3> QED
      BY <3>4, <3>5, <3>9, <3>10, <3>11
  <2> QED
    BY <2>0, <2>1, <2>3, <2>4
<1> QED
  BY <1>1, WorkInvariant, PTL
-----------------------------------------------------------------------------
(* The three in one.                                                       *)

\* A graph of no actions that was analysed stays as it is.
LEMMA NoFindStays ==
  /\ NoFind => CritTypeOK
  /\ NoFind /\ [CritNext]_critVars => NoFind'
<1>1. ASSUME NoFind PROVE CritTypeOK
  <2>1. /\ deps = [i \in Acts |-> {}] /\ work = [i \in Acts |-> 0]
        /\ state = [i \in Acts |-> "unvisited"] /\ cost = [i \in Acts |-> 0]
        /\ next = [i \in Acts |-> 0] /\ stack = <<>> /\ path = <<>>
        /\ visiting = 1 /\ start = 1 /\ total = 0
        /\ root = 0 /\ radius = 0 /\ seen = {} /\ unpopped = {}
        /\ doing = "counted"
    BY <1>1 DEF NoFind, Analyses, NoGraph, Nothing
  <2>2. visiting \in 0..(N + 1) /\ radius \in 0..N
    BY <2>1, ActsAre
  <2>3. DOMAIN stack = {} /\ stack \in Seq(Calls) /\ path \in Seq(Acts)
    BY <2>1
  <2>4. {f.at : f \in {stack[k] : k \in DOMAIN stack}} =
          {i \in Acts : state[i] = "in progress"}
    <3>1. {f.at : f \in {stack[k] : k \in DOMAIN stack}} = {}
      BY <2>3
    <3>2. \A i \in Acts : state[i] # "in progress"
      BY <2>1
    <3> QED
      BY <3>1, <3>2
  <2> QED
    BY <2>1, <2>2, <2>3, <2>4 DEF CritTypeOK, WalkIsSimple
<1>2. ASSUME NoFind, [CritNext]_critVars PROVE NoFind'
  <2>1. stack = <<>> /\ doing = "counted"
    BY <1>2 DEF NoFind, Nothing
  <2>2. ~ CritNext
    BY <2>1 DEF CritNext, Find, Visit, Return, Walked, Collect, Counted, Look,
                BlastRadiusFor, Pop
  <2>3. UNCHANGED critVars
    BY <1>2, <2>2
  <2> QED
    BY <1>2, <2>3 DEF critVars, inputs, walkVars, blastVars, NoFind, Analyses, Nothing
<1> QED
  BY <1>1, <1>2

\* The types of all three, in the specification that joins them.
THEOREM AnalysisTypeCorrect == Spec => []AnalysisTypeOK
<1> DEFINE Crit == (WalkInv /\ BlastInv) \/ NoFind
           Inv == Crit /\ DiffInv /\ TimesInv
<1>1. Init => Inv
  <2>1. CritInit \/ NoFind => Crit
    BY WalkInductive, BlastInductive
  <2>2. DiffInit \/ NoDiff => DiffInv
    <3>1. ASSUME NoBuilds, made \in {0, 2} PROVE DiffInv
      <4>1. edited = {} /\ version = First /\ before = Empty /\ after = Empty
        BY <3>1 DEF NoBuilds, First
      <4>2. version \in [Variants -> 1..2] /\ \A v \in Variants : version[v] # 2
        BY <4>1 DEF First
      <4> QED
        BY <3>1, <4>1, <4>2, EmptyBuild DEF DiffInv
    <3> QED
      BY <3>1 DEF DiffInit, NoDiff
  <2>3. TimesInit \/ NoTimes => TimesInv
    BY TimesInductive DEF TimesInit, NoTimes
  <2> QED
    BY <2>1, <2>2, <2>3 DEF Init
<1>2. Inv /\ [Next]_<<critVars, diffVars, timeVars>> => Inv'
  <2> SUFFICES ASSUME Inv, [Next]_<<critVars, diffVars, timeVars>> PROVE Inv'
    OBVIOUS
  <2>1. [CritNext]_critVars /\ [DiffNext]_diffVars /\ [TimesNext]_timeVars
    BY DEF Next, CritOnly
  <2>2. Crit'
    BY <2>1, WalkInductive, BlastInductive, NoFindStays DEF WalkInv
  <2> QED
    BY <2>1, <2>2, DiffInductive, TimesInductive
<1>3. Inv => AnalysisTypeOK
  <2>1. WalkInv /\ BlastInv => CritTypeOK
    BY CritTypes
  <2>2. DiffInv => DiffReportTypeOK
    BY DEF DiffInv, BuildOf, DiffReportTypeOK
  <2> QED
    BY <2>1, <2>2, NoFindStays DEF AnalysisTypeOK, TimesInv
<1> QED
  BY <1>1, <1>2, <1>3, PTL DEF Spec
=============================================================================
