---------------------------- MODULE CIGateProofs ----------------------------
(***************************************************************************)
(* Theorems about CIGate for any number of overlapping workflow runs, any  *)
(* work times, and any limit of the gate and of the history.               *)
(*                                                                         *)
(* The argument: what a job restores was saved by a job that passed; with  *)
(* the job's own build appended it is steady but for that build, which the *)
(* comparison then admits or not; what is pruned only takes baselines away.*)
(***************************************************************************)
EXTENDS CIGate, NaturalFacts, SequenceTheorems

Steps == {"restore", "profile", "compare", "save", "failed", "passed"}

KindInv ==
  /\ cache \in Seq([key : 1..MaxWorkflows, history : Seq(Runs)])
  /\ pc \in [Jobs -> Steps]
  /\ history \in [Jobs -> Seq(Runs)]
  /\ built \in [Jobs -> [run : Runs \cup {None}, recorded : BOOLEAN]]
  /\ passed \in Seq(Runs)
  /\ against \in [Jobs -> Nat]

\* No history outgrows keepRuns, and no key is saved twice.
CacheInv ==
  /\ \A i \in DOMAIN cache : Len(cache[i].history) <= KeepRuns
  /\ \A i, k \in DOMAIN cache : cache[i].key = cache[k].key => i = k
  /\ \A j \in Jobs : Len(history[j]) <= KeepRuns
  /\ \A j \in Jobs :
       pc[j] \in {"compare", "save"} =>
         built[j].run \in Runs /\ built[j].run.command = j[2]
  /\ \A j \in Jobs : pc[j] \in {"restore", "profile"} => built[j] = NoBuild

\* Among the first n runs, none exceeds the limit over the last run of its
\* command before it.
SteadyTo(h, n) ==
  \A i, k \in DOMAIN h :
    /\ i < k /\ k <= n /\ h[i].command = h[k].command
    /\ \A m \in DOMAIN h : i < m /\ m < k => h[m].command # h[k].command
    => ~ Over(h[i].work, h[k].work)

Steady(h) == SteadyTo(h, Len(h))

\* Only the build that is not yet compared may exceed it.
SteadyInv ==
  /\ \A i \in DOMAIN cache : Steady(cache[i].history)
  /\ \A j \in Jobs :
       /\ pc[j] \in {"profile", "save"} => Steady(history[j])
       /\ pc[j] = "compare" => SteadyTo(history[j], Len(history[j]) - 1)

GateInv == KindInv /\ CacheInv /\ SteadyInv

\* Every build made so far is recorded.
AllRecorded == \A j \in Jobs : built[j] # NoBuild => built[j].recorded

\* Where every build is recorded and no two jobs share a key, the last run of
\* an entry is that of the job that saved it, and the entries are in the order
\* in which their jobs passed.
CacheTracked ==
  /\ Len(cache) = Len(passed)
  /\ \A i \in DOMAIN cache :
       cache[i].history # <<>> /\ Last(cache[i].history) = passed[i]
  /\ \A i \in DOMAIN cache : \A j \in Jobs :
       cache[i].key = Key(j) => pc[j] = "passed"

\* A job has, before its own build, the run that passed last when it began.
JobTracked(j) ==
  /\ against[j] <= Len(passed)
  /\ pc[j] = "restore" => history[j] = <<>>
  /\ pc[j] = "profile" /\ against[j] > 0 =>
       history[j] # <<>> /\ Last(history[j]) = passed[against[j]]
  /\ pc[j] \in {"compare", "save", "passed"} => built[j] # NoBuild
  /\ pc[j] \in {"compare", "save"} =>
       history[j] # <<>> /\ Last(history[j]) = built[j].run
  /\ pc[j] = "compare" /\ against[j] > 0 =>
       /\ Len(history[j]) > 1
       /\ history[j][Len(history[j]) - 1] = passed[against[j]]
  /\ pc[j] \in {"save", "passed"} /\ against[j] > 0 =>
       ~ Over(passed[against[j]].work, built[j].run.work)

Tracked == CacheTracked /\ \A j \in Jobs : JobTracked(j)

OneJob == KeepRuns > 1 /\ \E n \in Names : Names = {n}

TrackInv == OneJob /\ AllRecorded => Tracked
-----------------------------------------------------------------------------
\* A recorded run has a command.
LEMMA RunsHaveNames == \A r \in Runs : r # None /\ r.command \in Names
BY GateAssumption DEF Runs, None

\* The last run of a command among the first n.
LEMMA LastOfPrefix ==
  ASSUME NEW h \in Seq(Runs), NEW n \in 0..Len(h), NEW c
  PROVE  LET b == LastOf(SubSeq(h, 1, n), c)
         IN  \/ b = None /\ \A k \in 1..n : h[k].command # c
             \/ \E k \in 1..n :
                  /\ b = h[k] /\ h[k].command = c
                  /\ \A i \in (k + 1)..n : h[i].command # c
<1> DEFINE g == SubSeq(h, 1, n)
           mine == {k \in DOMAIN g : g[k].command = c}
<1>1. Len(h) \in Nat /\ \A k \in 1..n : h[k] \in Runs
  OBVIOUS
<1>2. g \in Seq(Runs) /\ Len(g) = n /\ \A k \in 1..n : g[k] = h[k]
  <2>1. /\ g \in Seq(Runs) /\ Len(g) = (IF 1 <= n THEN n - 1 + 1 ELSE 0)
        /\ \A k \in 1..(n - 1 + 1) : g[k] = h[1 + k - 1]
    BY <1>1, SubSeqProperties
  <2> QED
    BY <1>1, <2>1
<1>3. DOMAIN g = 1..n
  BY <1>2
<1>4. mine = {k \in 1..n : h[k].command = c}
  BY <1>2, <1>3
<1>5. LastOf(g, c) = IF mine = {} THEN None
                     ELSE g[CHOOSE k \in mine : \A i \in mine : i <= k]
  BY DEF LastOf
<1> HIDE DEF g, mine
<1>6. CASE mine = {}
  BY <1>4, <1>5, <1>6 DEF g
<1>7. CASE mine # {}
  <2>1. \E k \in mine : \A i \in mine : i <= k
    <3>1. n \in Nat /\ mine \subseteq 0..n
      BY <1>1, <1>4
    <3> QED
      BY <1>7, <3>1, Greatest
  <2>2. PICK k \in mine :
          /\ \A i \in mine : i <= k
          /\ k = CHOOSE x \in mine : \A i \in mine : i <= x
    BY <2>1
  <2>3. LastOf(g, c) = g[k]
    BY <1>5, <1>7, <2>2
  <2>4. k \in 1..n /\ LastOf(g, c) = h[k] /\ h[k].command = c
    BY <1>2, <1>4, <2>2, <2>3
  <2>5. \A i \in (k + 1)..n : h[i].command # c
    BY <1>4, <2>2, <2>4
  <2> QED
    BY <2>4, <2>5 DEF g
<1> QED
  BY <1>6, <1>7

\* Steadiness in the words of the property.
LEMMA SteadyIsWithin ==
  ASSUME NEW h \in Seq(Runs), Steady(h), NEW k \in DOMAIN h
  PROVE  LET b == LastOf(SubSeq(h, 1, k - 1), h[k].command)
         IN  b # None => ~ Over(b.work, h[k].work)
<1> DEFINE b == LastOf(SubSeq(h, 1, k - 1), h[k].command)
<1>1. k \in 1..Len(h) /\ k - 1 \in 0..Len(h) /\ Len(h) \in Nat
  OBVIOUS
<1>2. \/ b = None
      \/ \E i \in 1..(k - 1) :
           /\ b = h[i] /\ h[i].command = h[k].command
           /\ \A m \in (i + 1)..(k - 1) : h[m].command # h[k].command
  BY <1>1, LastOfPrefix
<1> HIDE DEF b
<1>3. ASSUME NEW i \in 1..(k - 1), b = h[i], h[i].command = h[k].command,
             \A m \in (i + 1)..(k - 1) : h[m].command # h[k].command
      PROVE  ~ Over(b.work, h[k].work)
  <2>1. i \in DOMAIN h /\ i < k /\ k <= Len(h)
    BY <1>1
  <2>2. \A m \in DOMAIN h : i < m /\ m < k => h[m].command # h[k].command
    BY <1>1, <1>3
  <2> QED
    BY <1>3, <2>1, <2>2 DEF Steady, SteadyTo
<1> QED
  BY <1>2, <1>3 DEF b

\* A run that the comparison admits leaves its history steady.
LEMMA AdmittedIsSteady ==
  ASSUME NEW h \in Seq(Runs), SteadyTo(h, Len(h) - 1), ~ Fails(h)
  PROVE  Steady(h)
<1>1. Len(h) \in Nat /\ DOMAIN h = 1..Len(h) /\ \A k \in DOMAIN h : h[k] \in Runs
  OBVIOUS
<1> SUFFICES ASSUME NEW i \in DOMAIN h, NEW k \in DOMAIN h,
                    i < k, h[i].command = h[k].command,
                    \A m \in DOMAIN h : i < m /\ m < k => h[m].command # h[k].command
             PROVE  ~ Over(h[i].work, h[k].work)
  BY DEF Steady, SteadyTo
<1>2. CASE k <= Len(h) - 1
  BY <1>1, <1>2 DEF SteadyTo
<1>3. CASE k = Len(h)
  <2> DEFINE b == LastOf(SubSeq(h, 1, Len(h) - 1), h[k].command)
  <2>1. h # <<>> /\ Len(h) - 1 \in 0..Len(h)
    BY <1>1
  <2>2. Baseline(h) = b
    BY <1>3 DEF Baseline, Front, Last
  <2>3. \/ b = None /\ \A m \in 1..(Len(h) - 1) : h[m].command # h[k].command
        \/ \E m \in 1..(Len(h) - 1) :
             /\ b = h[m] /\ h[m].command = h[k].command
             /\ \A x \in (m + 1)..(Len(h) - 1) : h[x].command # h[k].command
    BY <2>1, LastOfPrefix, SMTT(60)
  <2> HIDE DEF b
  <2>4. i \in 1..(Len(h) - 1)
    BY <1>1, <1>3
  <2>5. PICK m \in 1..(Len(h) - 1) :
          /\ b = h[m] /\ h[m].command = h[k].command
          /\ \A x \in (m + 1)..(Len(h) - 1) : h[x].command # h[k].command
    BY <2>3, <2>4
  <2>6. m = i
    <3>1. ~ (i < m)
      BY <1>1, <1>3, <2>5
    <3>2. ~ (m < i)
      BY <1>1, <2>4, <2>5
    <3> QED
      BY <1>1, <2>4, <3>1, <3>2
  <2>7. b # None
    BY <1>1, <2>5, <2>6, RunsHaveNames
  <2> QED
    BY <1>3, <2>1, <2>2, <2>5, <2>6, <2>7 DEF Fails, Last
<1> QED
  BY <1>1, <1>2, <1>3

\* What saveRun leaves of a history: it ends with the new run, and before it
\* are the runs there were, without the first when there were keepRuns.
LEMMA RecordedIs ==
  ASSUME NEW h \in Seq(Runs), NEW r \in Runs, Len(h) <= KeepRuns
  PROVE  LET g == Recorded(h, r)
         IN  /\ g \in Seq(Runs) /\ g # <<>> /\ Last(g) = r
             /\ Len(g) <= KeepRuns
             /\ \E d \in {0, 1} :
                  /\ Len(g) = Len(h) + 1 - d /\ (d = 1 => Len(h) = KeepRuns)
                  /\ \A i \in 1..(Len(g) - 1) : g[i] = h[i + d]
<1> DEFINE all == Append(h, r)
           d == IF Len(all) > KeepRuns THEN Len(all) - KeepRuns ELSE 0
           g == Recorded(h, r)
<1>1. /\ all \in Seq(Runs) /\ Len(all) = Len(h) + 1
      /\ \A i \in 1..Len(h) : all[i] = h[i] /\ all[Len(h) + 1] = r
      /\ all[Len(h) + 1] = r
  OBVIOUS
<1>2. KeepRuns \in Nat \ {0} /\ Len(h) \in Nat
  BY GateAssumption
<1>3. d \in {0, 1} /\ (d = 1 => Len(h) = KeepRuns) /\ Len(h) + 1 - d <= KeepRuns
  BY <1>1, <1>2
<1>4. g = SubSeq(all, 1 + d, Len(all))
  BY DEF Recorded
<1> HIDE DEF g, d, all
<1>5. /\ g \in Seq(Runs) /\ Len(g) = Len(h) + 1 - d
      /\ \A i \in 1..Len(g) : g[i] = all[i + d]
  <2>1. \A i \in (1 + d)..Len(all) : all[i] \in Runs
    BY <1>1, <1>3
  <2>2. /\ g \in Seq(Runs)
        /\ Len(g) = (IF 1 + d <= Len(all) THEN Len(all) - (1 + d) + 1 ELSE 0)
        /\ \A i \in 1..(Len(all) - (1 + d) + 1) : g[i] = all[1 + d + i - 1]
    <3>1. 1 + d \in Int /\ Len(all) \in Int
      BY <1>1, <1>2, <1>3
    <3> QED
      BY <1>4, <2>1, <3>1, SubSeqProperties
  <2> QED
    <3>1. Len(all) - (1 + d) + 1 = Len(h) + 1 - d /\ Len(h) + 1 - d \in Nat
      BY <1>1, <1>2, <1>3
    <3>2. Len(g) = Len(h) + 1 - d
      BY <1>1, <1>2, <1>3, <2>2
    <3>3. \A i \in 1..Len(g) : g[i] = all[1 + d + i - 1] /\ 1 + d + i - 1 = i + d
      BY <1>3, <2>2, <3>1, <3>2
    <3> QED
      BY <2>2, <3>2, <3>3
<1>6. Len(g) \in 1..KeepRuns /\ g[Len(g)] = r
  BY <1>1, <1>2, <1>3, <1>5
<1>7. \A i \in 1..(Len(g) - 1) : g[i] = h[i + d]
  BY <1>1, <1>2, <1>3, <1>5, SMTT(60)
<1>8. g # <<>>
  BY <1>6
<1> QED
  BY <1>3, <1>5, <1>6, <1>7, <1>8 DEF g, Last

\* A build is recorded after a steady history: all before it stays steady.
LEMMA RecordedIsSteadyBefore ==
  ASSUME NEW h \in Seq(Runs), NEW r \in Runs, Len(h) <= KeepRuns, Steady(h)
  PROVE  SteadyTo(Recorded(h, r), Len(Recorded(h, r)) - 1)
<1> DEFINE g == Recorded(h, r)
<1>1. g \in Seq(Runs)
  BY RecordedIs
<1>2. PICK d \in {0, 1} : /\ Len(g) = Len(h) + 1 - d
                          /\ \A i \in 1..(Len(g) - 1) : g[i] = h[i + d]
  BY RecordedIs
<1> HIDE DEF g
<1>3. Len(h) \in Nat /\ Len(g) \in Nat /\ DOMAIN h = 1..Len(h) /\ DOMAIN g = 1..Len(g)
  BY <1>1
<1> SUFFICES ASSUME NEW i \in DOMAIN g, NEW k \in DOMAIN g,
                    i < k, k <= Len(g) - 1, g[i].command = g[k].command,
                    \A m \in DOMAIN g : i < m /\ m < k => g[m].command # g[k].command
             PROVE  ~ Over(g[i].work, g[k].work)
  BY DEF SteadyTo, g
<1>4. i + d \in DOMAIN h /\ k + d \in DOMAIN h /\ i + d < k + d
  BY <1>2, <1>3
<1>5. g[i] = h[i + d] /\ g[k] = h[k + d]
  <2>1. i \in 1..(Len(g) - 1) /\ k \in 1..(Len(g) - 1)
    BY <1>3
  <2> QED
    BY <1>2, <2>1
<1>6. ASSUME NEW m \in DOMAIN h, i + d < m, m < k + d
      PROVE  h[m].command # h[k + d].command
  <2>1. /\ m - d \in DOMAIN g /\ i < m - d /\ m - d < k
        /\ m - d \in 1..(Len(g) - 1) /\ m - d + d = m
    BY <1>2, <1>3, <1>6
  <2>2. g[m - d] = h[m]
    BY <1>2, <2>1
  <2> QED
    BY <1>5, <2>1, <2>2
<1>7. k + d <= Len(h)
  BY <1>3, <1>4
<1> QED
  BY <1>4, <1>5, <1>6, <1>7 DEF Steady, SteadyTo

\* What the cache gives is what it was given, or nothing.
LEMMA RestoredIs ==
  ASSUME KindInv, NEW key
  PROVE  \/ Restored(key) = <<>> /\ cache = <<>>
         \/ \E i \in DOMAIN cache :
              /\ Restored(key) = cache[i].history
              /\ (\A k \in DOMAIN cache : cache[k].key # key) => i = Len(cache)
<1> DEFINE exact == {i \in DOMAIN cache : cache[i].key = key}
<1>1. Len(cache) \in Nat /\ DOMAIN cache = 1..Len(cache)
  BY DEF KindInv
<1>2. CASE exact # {}
  <2>1. PICK i \in exact : i = CHOOSE x \in exact : TRUE
    BY <1>2
  <2>2. Restored(key) = cache[i].history
    BY <1>2, <2>1 DEF Restored
  <2> QED
    BY <2>1, <2>2
<1>3. CASE exact = {} /\ cache # <<>>
  <2>1. Restored(key) = cache[Len(cache)].history
    BY <1>3 DEF Restored, Last
  <2>2. Len(cache) \in DOMAIN cache
    BY <1>1, <1>3 DEF KindInv
  <2> QED
    BY <2>1, <2>2
<1>4. CASE exact = {} /\ cache = <<>>
  BY <1>4 DEF Restored
<1> QED
  BY <1>2, <1>3, <1>4
-----------------------------------------------------------------------------
\* What a job restores is a history of runs, no longer than keepRuns.
LEMMA RestoredKind ==
  ASSUME KindInv, CacheInv, NEW key
  PROVE  Restored(key) \in Seq(Runs) /\ Len(Restored(key)) <= KeepRuns
<1>1. CASE Restored(key) = <<>>
  BY <1>1, GateAssumption
<1>2. CASE \E i \in DOMAIN cache : Restored(key) = cache[i].history
  <2>1. PICK i \in DOMAIN cache : Restored(key) = cache[i].history
    BY <1>2
  <2> DEFINE entries == [key : 1..MaxWorkflows, history : Seq(Runs)]
  <2>2. \A e \in entries : e.history \in Seq(Runs)
    OBVIOUS
  <2>3. cache \in Seq(entries)
    BY DEF KindInv
  <2> HIDE DEF entries
  <2>4. cache[i] \in entries
    BY <2>3
  <2> QED
    BY <2>1, <2>2, <2>4 DEF CacheInv
<1> QED
  BY <1>1, <1>2, RestoredIs

\* Types are preserved.
LEMMA KindPreserved == GateInv /\ [Next]_vars => KindInv'
<1> SUFFICES ASSUME GateInv, [Next]_vars PROVE KindInv'
  OBVIOUS
<1>0. KindInv /\ CacheInv
  BY DEF GateInv
<1>k. /\ "profile" \in Steps /\ "compare" \in Steps /\ "save" \in Steps
      /\ "failed" \in Steps /\ "passed" \in Steps
  BY DEF Steps
<1>1. CASE UNCHANGED vars
  BY <1>0, <1>1 DEF vars, KindInv
<1>2. ASSUME NEW j \in Jobs, Restore(j) PROVE KindInv'
  <2>1. Restored(Key(j)) \in Seq(Runs)
    BY <1>0, RestoredKind
  <2>2. Len(passed) \in Nat
    BY <1>0 DEF KindInv
  <2> QED
    BY <1>0, <1>k, <1>2, <2>1, <2>2 DEF Restore, Goto, KindInv
<1>3. ASSUME NEW j \in Jobs, Profile(j) PROVE KindInv'
  <2>1. CASE Goto(j, "failed") /\ UNCHANGED <<history, built>>
    BY <1>0, <1>k, <1>3, <2>1 DEF Profile, Goto, KindInv
  <2>2. CASE \E work \in Works, recorded \in BOOLEAN :
               LET r == [command |-> j[2], work |-> work]
               IN  /\ built' = [built EXCEPT ![j] = [run |-> r, recorded |-> recorded]]
                   /\ history' = [history EXCEPT ![j] =
                                     IF recorded THEN Recorded(@, r) ELSE @]
                   /\ Goto(j, "compare")
    <3>1. PICK work \in Works, recorded \in BOOLEAN :
            LET r == [command |-> j[2], work |-> work]
            IN  /\ built' = [built EXCEPT ![j] = [run |-> r, recorded |-> recorded]]
                /\ history' = [history EXCEPT ![j] =
                                  IF recorded THEN Recorded(@, r) ELSE @]
                /\ Goto(j, "compare")
      BY <2>2
    <3> DEFINE r == [command |-> j[2], work |-> work]
    <3>2. r \in Runs
      BY DEF Runs, Jobs
    <3>3. history[j] \in Seq(Runs) /\ Len(history[j]) <= KeepRuns
      BY <1>0 DEF KindInv, CacheInv
    <3>4. Recorded(history[j], r) \in Seq(Runs)
      BY <3>2, <3>3, RecordedIs
    <3> HIDE DEF r
    <3>5. history' \in [Jobs -> Seq(Runs)]
      BY <1>0, <3>1, <3>4 DEF KindInv, r
    <3>6. [run |-> r, recorded |-> recorded] \in
            [run : Runs \cup {None}, recorded : BOOLEAN]
      BY <3>2
    <3>7. built' \in [Jobs -> [run : Runs \cup {None}, recorded : BOOLEAN]]
      BY <1>0, <3>1, <3>6 DEF KindInv, r
    <3> QED
      BY <1>0, <1>k, <1>3, <3>1, <3>5, <3>7 DEF Profile, Goto, KindInv
  <2> QED
    BY <1>3, <2>1, <2>2 DEF Profile
<1>4. ASSUME NEW j \in Jobs, Compare(j) PROVE KindInv'
  BY <1>0, <1>k, <1>4 DEF Compare, Verdict, Goto, KindInv
<1>5. ASSUME NEW j \in Jobs, JobFails(j) PROVE KindInv'
  BY <1>0, <1>k, <1>5 DEF JobFails, Goto, KindInv
<1>6. ASSUME NEW j \in Jobs, JobPasses(j) PROVE KindInv'
  <2>1. [key |-> Key(j), history |-> history[j]] \in
          [key : 1..MaxWorkflows, history : Seq(Runs)]
    BY <1>0 DEF KindInv, Key, Jobs
  <2>2. cache' \in Seq([key : 1..MaxWorkflows, history : Seq(Runs)])
    <3> DEFINE e == [key |-> Key(j), history |-> history[j]]
               entries == [key : 1..MaxWorkflows, history : Seq(Runs)]
    <3>1. cache \in Seq(entries) /\ e \in entries
      BY <1>0, <2>1 DEF KindInv
    <3>2. cache' = Append(cache, e) \/ cache' = cache
      BY <1>6 DEF JobPasses
    <3> HIDE DEF e, entries
    <3>3. cache' \in Seq(entries)
      BY <3>1, <3>2
    <3> QED
      BY <3>3 DEF entries
  <2>3. pc[j] = "save" /\ built[j].run \in Runs
    BY <1>0, <1>6 DEF JobPasses, CacheInv
  <2>4. passed' \in Seq(Runs)
    BY <1>0, <1>6, <2>3 DEF JobPasses, KindInv
  <2> QED
    BY <1>0, <1>k, <1>6, <2>2, <2>4 DEF JobPasses, Goto, KindInv
<1> QED
  BY <1>1, <1>2, <1>3, <1>4, <1>5, <1>6 DEF Next

\* What a job that passes adds to the cache: an entry with a new key, or none.
LEMMA Saved ==
  ASSUME GateInv, NEW j \in Jobs, JobPasses(j)
  PROVE  \/ ~ Saves(j) /\ cache' = cache
         \/ /\ Saves(j)
            /\ Len(cache') = Len(cache) + 1
            /\ cache'[Len(cache) + 1].key = Key(j)
            /\ cache'[Len(cache) + 1].history = history[j]
            /\ \A i \in DOMAIN cache : cache'[i] = cache[i]
            /\ DOMAIN cache' = DOMAIN cache \cup {Len(cache) + 1}
<1> DEFINE e == [key |-> Key(j), history |-> history[j]]
<1>1. cache \in Seq([key : 1..MaxWorkflows, history : Seq(Runs)])
  BY DEF GateInv, KindInv
<1>2. e \in [key : 1..MaxWorkflows, history : Seq(Runs)]
  BY DEF GateInv, KindInv, Key, Jobs
<1>3. e.key = Key(j) /\ e.history = history[j]
  OBVIOUS
<1> HIDE DEF e
<1>4. CASE Saves(j)
  <2>1. cache' = Append(cache, e)
    BY <1>4 DEF JobPasses, e
  <2>2. /\ Len(cache') = Len(cache) + 1 /\ cache'[Len(cache) + 1] = e
        /\ \A i \in 1..Len(cache) : cache'[i] = cache[i]
        /\ DOMAIN cache = 1..Len(cache) /\ DOMAIN cache' = 1..(Len(cache) + 1)
        /\ Len(cache) \in Nat
    BY <1>1, <1>2, <2>1
  <2>3. DOMAIN cache' = DOMAIN cache \cup {Len(cache) + 1}
    BY <2>2
  <2> QED
    BY <1>3, <1>4, <2>2, <2>3
<1>5. CASE ~ Saves(j)
  BY <1>5 DEF JobPasses
<1> QED
  BY <1>4, <1>5

\* The bound on histories is preserved, and that keys are saved once.
LEMMA CachePreserved == GateInv /\ [Next]_vars => CacheInv'
<1> SUFFICES ASSUME GateInv, [Next]_vars PROVE CacheInv'
  OBVIOUS
<1>0. /\ KindInv /\ CacheInv /\ pc \in [Jobs -> Steps]
      /\ history \in [Jobs -> Seq(Runs)]
      /\ built \in [Jobs -> [run : Runs \cup {None}, recorded : BOOLEAN]]
  BY DEF GateInv, KindInv
<1> USE DEF CacheInv, Goto
<1>1. CASE UNCHANGED vars
  BY <1>0, <1>1 DEF vars
<1>2. ASSUME NEW j \in Jobs, Restore(j) PROVE CacheInv'
  <2>1. Len(Restored(Key(j))) <= KeepRuns
    BY <1>0, RestoredKind
  <2> QED
    BY <1>0, <1>2, <2>1 DEF Restore
<1>3. ASSUME NEW j \in Jobs, Profile(j) PROVE CacheInv'
  <2>1. CASE Goto(j, "failed") /\ UNCHANGED <<history, built>>
    BY <1>0, <1>3, <2>1 DEF Profile
  <2>2. ASSUME NEW work \in Works, NEW recorded \in BOOLEAN, NEW r,
               r = [command |-> j[2], work |-> work],
               built' = [built EXCEPT ![j] = [run |-> r, recorded |-> recorded]],
               history' = [history EXCEPT ![j] =
                              IF recorded THEN Recorded(@, r) ELSE @],
               Goto(j, "compare")
        PROVE  CacheInv'
    <3>1. r \in Runs /\ r.command = j[2]
      BY <2>2 DEF Runs, Jobs
    <3>2. Len(history'[j]) <= KeepRuns
      BY <1>0, <2>2, <3>1, RecordedIs
    <3>3. built'[j].run = r
      BY <1>0, <2>2
    <3> QED
      BY <1>0, <1>3, <2>2, <3>1, <3>2, <3>3 DEF Profile
  <2> QED
    BY <1>3, <2>1, <2>2 DEF Profile
<1>4. ASSUME NEW j \in Jobs, Compare(j) PROVE CacheInv'
  BY <1>0, <1>4 DEF Compare, Verdict
<1>5. ASSUME NEW j \in Jobs, JobFails(j) PROVE CacheInv'
  BY <1>0, <1>5 DEF JobFails
<1>6. ASSUME NEW j \in Jobs, JobPasses(j) PROVE CacheInv'
  <2>1. UNCHANGED <<history, built>> /\ pc' = [pc EXCEPT ![j] = "passed"]
    BY <1>6 DEF JobPasses
  <2>2. CASE cache' = cache
    BY <1>0, <2>1, <2>2
  <2>3. CASE cache' # cache
    <3>1. /\ \A i \in DOMAIN cache : cache[i].key # Key(j)
          /\ cache'[Len(cache) + 1].key = Key(j)
          /\ cache'[Len(cache) + 1].history = history[j]
          /\ \A i \in DOMAIN cache : cache'[i] = cache[i]
          /\ DOMAIN cache' = DOMAIN cache \cup {Len(cache) + 1}
      BY <1>6, <2>3, Saved DEF Saves
    <3> QED
      BY <1>0, <2>1, <3>1
  <2> QED
    BY <2>2, <2>3
<1> HIDE DEF CacheInv, Goto
<1> QED
  BY <1>1, <1>2, <1>3, <1>4, <1>5, <1>6 DEF Next

\* A regression is not admitted, and what is not admitted is not saved.
LEMMA SteadyPreserved == GateInv /\ [Next]_vars => SteadyInv'
<1> SUFFICES ASSUME GateInv, [Next]_vars PROVE SteadyInv'
  OBVIOUS
<1>0. /\ KindInv /\ CacheInv /\ SteadyInv /\ pc \in [Jobs -> Steps]
      /\ history \in [Jobs -> Seq(Runs)]
  BY DEF GateInv, KindInv
<1> USE DEF Goto
<1>a. ASSUME UNCHANGED <<cache, history>>,
             \A j \in Jobs : pc'[j] \in {"profile", "save", "compare"} => pc'[j] = pc[j]
      PROVE  SteadyInv'
  <2>1. \A i \in DOMAIN cache' : Steady(cache'[i].history)
    BY <1>0, <1>a DEF SteadyInv
  <2>2. ASSUME NEW j \in Jobs
        PROVE  /\ pc'[j] \in {"profile", "save"} => Steady(history'[j])
               /\ pc'[j] = "compare" => SteadyTo(history'[j], Len(history'[j]) - 1)
    BY <1>0, <1>a DEF SteadyInv
  <2> QED
    BY <2>1, <2>2 DEF SteadyInv
<1>1. CASE UNCHANGED vars
  BY <1>a, <1>1 DEF vars
<1>2. ASSUME NEW j \in Jobs, Restore(j) PROVE SteadyInv'
  <2>1. Steady(Restored(Key(j)))
    <3>1. CASE Restored(Key(j)) = <<>>
      BY <3>1 DEF Steady, SteadyTo
    <3>2. CASE \E i \in DOMAIN cache : Restored(Key(j)) = cache[i].history
      BY <1>0, <3>2 DEF SteadyInv
    <3> QED
      BY <1>0, <3>1, <3>2, RestoredIs
  <2> QED
    BY <1>0, <1>2, <2>1 DEF Restore, SteadyInv
<1>3. ASSUME NEW j \in Jobs, Profile(j) PROVE SteadyInv'
  <2>1. CASE Goto(j, "failed") /\ UNCHANGED <<history, built>>
    BY <1>0, <1>a, <1>3, <2>1 DEF Profile
  <2>2. ASSUME NEW work \in Works, NEW recorded \in BOOLEAN, NEW r,
               r = [command |-> j[2], work |-> work],
               history' = [history EXCEPT ![j] =
                              IF recorded THEN Recorded(@, r) ELSE @],
               Goto(j, "compare")
        PROVE  SteadyInv'
    <3>1. r \in Runs
      BY <2>2 DEF Runs, Jobs
    <3>2. Steady(history[j]) /\ Len(history[j]) <= KeepRuns
      BY <1>0, <1>3 DEF Profile, SteadyInv, CacheInv
    <3>3. SteadyTo(history'[j], Len(history'[j]) - 1)
      <4>1. CASE recorded
        BY <1>0, <2>2, <3>1, <3>2, <4>1, RecordedIsSteadyBefore
      <4>2. CASE ~ recorded
        BY <1>0, <2>2, <3>2, <4>2, SMTT(60) DEF Steady, SteadyTo
      <4> QED
        BY <4>1, <4>2
    <3>4. \A i \in Jobs : i # j => history'[i] = history[i] /\ pc'[i] = pc[i]
      BY <1>0, <2>2
    <3>5. pc'[j] = "compare" /\ cache' = cache
      BY <1>0, <1>3, <2>2 DEF Profile
    <3> QED
      BY <1>0, <3>3, <3>4, <3>5 DEF SteadyInv
  <2> QED
    BY <1>3, <2>1, <2>2 DEF Profile
<1>4. ASSUME NEW j \in Jobs, Compare(j) PROVE SteadyInv'
  <2>1. CASE Fails(history[j])
    BY <1>0, <1>a, <1>4, <2>1 DEF Compare, Verdict
  <2>2. CASE ~ Fails(history[j])
    <3>1. SteadyTo(history[j], Len(history[j]) - 1)
      BY <1>0, <1>4 DEF Compare, SteadyInv
    <3>2. Steady(history[j])
      BY <1>0, <2>2, <3>1, AdmittedIsSteady
    <3>3. UNCHANGED <<cache, history>> /\ pc' = [pc EXCEPT ![j] = "save"]
      BY <1>4, <2>2 DEF Compare, Verdict
    <3> QED
      BY <1>0, <3>2, <3>3 DEF SteadyInv
  <2> QED
    BY <2>1, <2>2
<1>5. ASSUME NEW j \in Jobs, JobFails(j) PROVE SteadyInv'
  BY <1>0, <1>a, <1>5 DEF JobFails
<1>6. ASSUME NEW j \in Jobs, JobPasses(j) PROVE SteadyInv'
  <2>1. UNCHANGED history /\ pc' = [pc EXCEPT ![j] = "passed"]
    BY <1>6 DEF JobPasses
  <2>2. Steady(history[j])
    BY <1>0, <1>6 DEF JobPasses, SteadyInv
  <2>3. \A i \in DOMAIN cache' : Steady(cache'[i].history)
    BY <1>0, <1>6, <2>2, Saved DEF SteadyInv
  <2> QED
    BY <1>0, <2>1, <2>3 DEF SteadyInv
<1> QED
  BY <1>1, <1>2, <1>3, <1>4, <1>5, <1>6 DEF Next

\* GateInv is inductive.
LEMMA GateInductive == Spec => []GateInv
<1>1. Init => GateInv
  <2> SUFFICES ASSUME Init PROVE GateInv
    OBVIOUS
  <2>1. KindInv
    BY DEF Init, KindInv, Steps, NoBuild
  <2>2. CacheInv
    BY GateAssumption DEF Init, CacheInv
  <2>3. SteadyInv
    BY DEF Init, SteadyInv
  <2> QED
    BY <2>1, <2>2, <2>3 DEF GateInv
<1>2. GateInv /\ [Next]_vars => GateInv'
  BY KindPreserved, CachePreserved, SteadyPreserved DEF GateInv
<1> QED
  BY <1>1, <1>2, PTL DEF Spec
-----------------------------------------------------------------------------
\* Where the workflow has one job, its jobs differ in their keys, and every run
\* of a history is of the same command.
LEMMA OneJobPerKey ==
  ASSUME OneJob, NEW i \in Jobs, NEW j \in Jobs, Key(i) = Key(j)
  PROVE  i = j
<1>1. PICK n \in Names : Names = {n}
  BY DEF OneJob
<1>2. i[2] = n /\ j[2] = n /\ i = <<i[1], i[2]>> /\ j = <<j[1], j[2]>>
  BY <1>1 DEF Jobs
<1> QED
  BY <1>2 DEF Key

\* With one command the baseline is the run before.
LEMMA LastOfOneCommand ==
  ASSUME OneJob, NEW h \in Seq(Runs), NEW n \in 1..Len(h), NEW c \in Names
  PROVE  LastOf(SubSeq(h, 1, n), c) = h[n]
<1> DEFINE b == LastOf(SubSeq(h, 1, n), c)
<1>1. Len(h) \in Nat /\ n \in 0..Len(h) /\ \A k \in 1..n : h[k] \in Runs
  OBVIOUS
<1>2. \A k \in 1..n : h[k].command = c
  BY <1>1, RunsHaveNames DEF OneJob
<1>3. \/ b = None /\ \A k \in 1..n : h[k].command # c
      \/ \E k \in 1..n : b = h[k] /\ \A i \in (k + 1)..n : h[i].command # c
  BY <1>1, LastOfPrefix
<1> HIDE DEF b
<1>4. PICK k \in 1..n : b = h[k] /\ \A i \in (k + 1)..n : h[i].command # c
  BY <1>1, <1>2, <1>3
<1>5. k = n
  <2>1. CASE k < n
    <3>1. n \in (k + 1)..n
      BY <2>1
    <3> QED
      BY <1>2, <1>4, <3>1
  <2> QED
    BY <2>1
<1> QED
  BY <1>4, <1>5 DEF b

\* A build once made is not undone: that all are recorded was so before.
LEMMA RecordedBefore == GateInv /\ [Next]_vars /\ AllRecorded' => AllRecorded
<1> SUFFICES ASSUME GateInv, [Next]_vars, AllRecorded' PROVE AllRecorded
  OBVIOUS
<1>0. /\ built \in [Jobs -> [run : Runs \cup {None}, recorded : BOOLEAN]]
      /\ \A j \in Jobs : pc[j] = "profile" => built[j] = NoBuild
  BY DEF GateInv, KindInv, CacheInv
<1>1. CASE UNCHANGED vars
  BY <1>1 DEF vars, AllRecorded
<1>2. ASSUME NEW j \in Jobs, Profile(j) PROVE AllRecorded
  <2>1. \A i \in Jobs : i # j => built'[i] = built[i]
    BY <1>0, <1>2 DEF Profile
  <2>2. built[j] = NoBuild
    BY <1>0, <1>2 DEF Profile
  <2> QED
    BY <2>1, <2>2 DEF AllRecorded
<1>3. ASSUME NEW j \in Jobs, Restore(j) \/ Compare(j) \/ JobFails(j) \/ JobPasses(j)
      PROVE  AllRecorded
  BY <1>3 DEF Restore, Compare, JobFails, JobPasses, AllRecorded
<1> QED
  BY <1>1, <1>2, <1>3 DEF Next

\* With one job the cache follows the jobs that passed.
LEMMA TrackPreserved == GateInv /\ TrackInv /\ [Next]_vars => TrackInv'
<1> SUFFICES ASSUME GateInv, TrackInv, [Next]_vars, OneJob, AllRecorded'
             PROVE  Tracked'
  BY DEF TrackInv
<1>0. /\ KindInv /\ CacheInv /\ pc \in [Jobs -> Steps]
      /\ history \in [Jobs -> Seq(Runs)]
      /\ built \in [Jobs -> [run : Runs \cup {None}, recorded : BOOLEAN]]
      /\ passed \in Seq(Runs) /\ against \in [Jobs -> Nat]
      /\ Len(passed) \in Nat
  BY DEF GateInv, KindInv
<1>a. AllRecorded
  BY RecordedBefore
<1>t. CacheTracked /\ \A j \in Jobs : JobTracked(j)
  BY <1>a DEF TrackInv, Tracked
<1> USE DEF Goto
\* A job whose part of the state stays keeps what it is compared with.
<1>s. ASSUME NEW i \in Jobs, passed' = passed, pc'[i] = pc[i],
             history'[i] = history[i], built'[i] = built[i], against'[i] = against[i]
      PROVE  JobTracked(i)'
  BY <1>t, <1>s DEF JobTracked
<1>1. CASE UNCHANGED vars
  <2>1. CacheTracked'
    BY <1>1, <1>t DEF vars, CacheTracked
  <2> QED
    BY <1>1, <1>s, <2>1 DEF vars, Tracked
<1>2. ASSUME NEW j \in Jobs, Restore(j) PROVE Tracked'
  <2>1. UNCHANGED <<cache, built, passed>> /\ pc[j] = "restore"
    BY <1>2 DEF Restore
  <2>2. /\ pc'[j] = "profile" /\ history'[j] = Restored(Key(j))
        /\ against'[j] = Len(passed)
        /\ \A i \in Jobs : i # j => /\ pc'[i] = pc[i] /\ history'[i] = history[i]
                                    /\ against'[i] = against[i]
    BY <1>0, <1>2 DEF Restore
  <2>3. CacheTracked'
    <3>1. \A i \in DOMAIN cache : cache[i].key # Key(j)
      BY <1>t, <2>1 DEF CacheTracked
    <3> QED
      BY <1>t, <2>1, <2>2, <3>1 DEF CacheTracked
  <2>4. ASSUME Len(passed) > 0
        PROVE  Restored(Key(j)) # <<>> /\ Last(Restored(Key(j))) = passed[Len(passed)]
    <3>1. Len(cache) = Len(passed) /\ cache # <<>>
      BY <1>t, <2>4 DEF CacheTracked
    <3>2. \A i \in DOMAIN cache : cache[i].key # Key(j)
      BY <1>t, <2>1 DEF CacheTracked
    <3>3. Len(cache) \in DOMAIN cache /\ Restored(Key(j)) = cache[Len(cache)].history
      BY <1>0, <3>1, <3>2, RestoredIs
    <3> QED
      BY <1>t, <3>1, <3>3 DEF CacheTracked
  <2>5. JobTracked(j)'
    BY <1>0, <2>1, <2>2, <2>4 DEF JobTracked
  <2> QED
    BY <1>s, <2>1, <2>2, <2>3, <2>5 DEF Tracked
<1>3. ASSUME NEW j \in Jobs, Profile(j) PROVE Tracked'
  <2>1. UNCHANGED <<cache, passed, against>> /\ pc[j] = "profile"
    BY <1>3 DEF Profile
  <2>2. /\ pc'[j] # "passed"
        /\ \A i \in Jobs : i # j => /\ pc'[i] = pc[i] /\ history'[i] = history[i]
                                    /\ built'[i] = built[i]
    BY <1>0, <1>3 DEF Profile
  <2>3. CacheTracked'
    <3>1. \A i \in DOMAIN cache : cache[i].key # Key(j)
      BY <1>t, <2>1 DEF CacheTracked
    <3> QED
      BY <1>t, <2>1, <2>2, <3>1 DEF CacheTracked
  <2>4. CASE Goto(j, "failed") /\ UNCHANGED <<history, built>>
    <3>1. pc'[j] = "failed"
      BY <1>0, <2>4
    <3>2. JobTracked(j)'
      BY <1>t, <2>1, <3>1 DEF JobTracked
    <3> QED
      BY <1>s, <2>1, <2>2, <2>3, <3>2 DEF Tracked
  <2>5. ASSUME NEW work \in Works, NEW recorded \in BOOLEAN, NEW r,
               r = [command |-> j[2], work |-> work],
               built' = [built EXCEPT ![j] = [run |-> r, recorded |-> recorded]],
               history' = [history EXCEPT ![j] =
                              IF recorded THEN Recorded(@, r) ELSE @],
               Goto(j, "compare")
        PROVE  Tracked'
    <3>1. r \in Runs /\ r # None
      BY <2>5, RunsHaveNames DEF Runs, Jobs
    <3>2. built'[j] = [run |-> r, recorded |-> recorded]
      BY <1>0, <2>5
    <3>3. built'[j] # NoBuild /\ built'[j].run = r
      BY <3>1, <3>2 DEF NoBuild
    <3>4. recorded
      BY <3>2, <3>3 DEF AllRecorded
    <3> DEFINE h == history[j]
               g == Recorded(h, r)
    <3>5. history'[j] = g /\ pc'[j] = "compare"
      BY <1>0, <2>5, <3>4
    <3>6. h \in Seq(Runs) /\ Len(h) <= KeepRuns
      BY <1>0 DEF CacheInv
    <3>7. /\ g \in Seq(Runs) /\ g # <<>> /\ Last(g) = r
          /\ \E d \in {0, 1} :
               /\ Len(g) = Len(h) + 1 - d /\ (d = 1 => Len(h) = KeepRuns)
               /\ \A i \in 1..(Len(g) - 1) : g[i] = h[i + d]
      BY <3>1, <3>6, RecordedIs
    <3>8. against[j] > 0 => h # <<>> /\ Last(h) = passed[against[j]]
      BY <1>t, <2>1 DEF JobTracked
    <3> HIDE DEF g, h
    <3>9. ASSUME against[j] > 0
          PROVE  Len(g) > 1 /\ g[Len(g) - 1] = passed[against[j]]
      <4>1. PICK d \in {0, 1} :
              /\ Len(g) = Len(h) + 1 - d /\ (d = 1 => Len(h) = KeepRuns)
              /\ \A i \in 1..(Len(g) - 1) : g[i] = h[i + d]
        BY <3>7
      <4>2. Len(h) \in Nat /\ Len(h) > 0 /\ h[Len(h)] = passed[against[j]]
        BY <3>6, <3>8, <3>9 DEF Last
      <4>3. KeepRuns > 1
        BY DEF OneJob
      <4>4. Len(g) > 1 /\ Len(g) - 1 \in 1..(Len(g) - 1) /\ Len(g) - 1 + d = Len(h)
        BY <4>1, <4>2, <4>3
      <4> QED
        BY <4>1, <4>2, <4>4
    <3>a. against[j] <= Len(passed)
      BY <1>t DEF JobTracked
    <3>10. JobTracked(j)'
      BY <2>1, <3>3, <3>5, <3>7, <3>9, <3>a DEF JobTracked
    <3> QED
      BY <1>s, <2>1, <2>2, <2>3, <3>10 DEF Tracked
  <2> QED
    BY <1>3, <2>4, <2>5 DEF Profile
<1>4. ASSUME NEW j \in Jobs, Compare(j) PROVE Tracked'
  <2>1. UNCHANGED <<cache, history, built, passed, against>> /\ pc[j] = "compare"
    BY <1>4 DEF Compare
  <2>2. /\ \A i \in Jobs : i # j => pc'[i] = pc[i]
        /\ pc'[j] = "failed" \/ (pc'[j] = "save" /\ ~ Fails(history[j]))
    BY <1>0, <1>4 DEF Compare, Verdict
  <2>3. CacheTracked'
    <3>1. \A i \in DOMAIN cache : cache[i].key # Key(j)
      BY <1>t, <2>1 DEF CacheTracked
    <3> QED
      BY <1>t, <2>1, <2>2, <3>1 DEF CacheTracked
  <2> DEFINE h == history[j]
  <2>4. ASSUME against[j] > 0, ~ Fails(h)
        PROVE  ~ Over(passed[against[j]].work, built[j].run.work)
    <3>1. /\ Len(h) > 1 /\ h[Len(h) - 1] = passed[against[j]]
          /\ h # <<>> /\ Last(h) = built[j].run
      BY <1>t, <2>1, <2>4 DEF JobTracked
    <3>2. /\ h \in Seq(Runs) /\ Len(h) - 1 \in 1..Len(h)
          /\ Last(h) \in Runs /\ h[Len(h) - 1] \in Runs
      BY <1>0, <3>1 DEF Last
    <3>3. LastOf(SubSeq(h, 1, Len(h) - 1), Last(h).command) = h[Len(h) - 1]
      BY <3>2, LastOfOneCommand, RunsHaveNames
    <3>4. Baseline(h) = h[Len(h) - 1] /\ Baseline(h) # None
      BY <3>2, <3>3, RunsHaveNames DEF Baseline, Front
    <3> QED
      BY <2>4, <3>1, <3>4 DEF Fails
  <2>5. JobTracked(j)'
    <3>1. CASE pc'[j] = "failed"
      BY <1>t, <2>1, <3>1 DEF JobTracked
    <3>2. CASE pc'[j] = "save" /\ ~ Fails(h)
      BY <1>t, <2>1, <2>4, <3>2 DEF JobTracked
    <3> QED
      BY <2>2, <3>1, <3>2
  <2> QED
    BY <1>s, <2>1, <2>2, <2>3, <2>5 DEF Tracked
<1>5. ASSUME NEW j \in Jobs, JobFails(j) PROVE Tracked'
  <2>1. /\ UNCHANGED <<cache, history, built, passed, against>> /\ pc[j] = "save"
        /\ pc'[j] = "failed" /\ \A i \in Jobs : i # j => pc'[i] = pc[i]
    BY <1>0, <1>5 DEF JobFails
  <2>2. CacheTracked'
    <3>1. \A i \in DOMAIN cache : cache[i].key # Key(j)
      BY <1>t, <2>1 DEF CacheTracked
    <3> QED
      BY <1>t, <2>1, <3>1 DEF CacheTracked
  <2>3. JobTracked(j)'
    BY <1>t, <2>1 DEF JobTracked
  <2> QED
    BY <1>s, <2>1, <2>2, <2>3 DEF Tracked
<1>6. ASSUME NEW j \in Jobs, JobPasses(j) PROVE Tracked'
  <2>1. /\ UNCHANGED <<history, built, against>> /\ pc[j] = "save"
        /\ pc'[j] = "passed" /\ \A i \in Jobs : i # j => pc'[i] = pc[i]
    BY <1>0, <1>6 DEF JobPasses
  <2>2. built[j].recorded /\ built[j].run \in Runs
    BY <1>0, <1>a, <1>t, <2>1 DEF JobTracked, AllRecorded, CacheInv
  <2>3. passed' = Append(passed, built[j].run)
    BY <1>6, <2>2 DEF JobPasses
  <2>4. /\ Len(passed') = Len(passed) + 1 /\ passed'[Len(passed) + 1] = built[j].run
        /\ \A k \in 1..Len(passed) : passed'[k] = passed[k]
    BY <1>0, <2>2, <2>3
  <2>5. /\ Len(cache') = Len(cache) + 1
        /\ cache'[Len(cache) + 1].key = Key(j)
        /\ cache'[Len(cache) + 1].history = history[j]
        /\ \A i \in DOMAIN cache : cache'[i] = cache[i]
        /\ DOMAIN cache' = DOMAIN cache \cup {Len(cache) + 1}
    <3>1. Saves(j)
      BY <1>t, <2>1 DEF CacheTracked, Saves
    <3> QED
      BY <1>6, <3>1, Saved
  <2>6. CacheTracked'
    <3>1. Len(cache) = Len(passed) /\ DOMAIN cache = 1..Len(passed)
      BY <1>0, <1>t DEF CacheTracked, KindInv
    <3>2. Len(cache') = Len(passed')
      BY <2>4, <2>5, <3>1
    <3>3. ASSUME NEW i \in DOMAIN cache'
          PROVE  cache'[i].history # <<>> /\ Last(cache'[i].history) = passed'[i]
      <4>1. CASE i \in DOMAIN cache
        BY <1>t, <2>4, <2>5, <3>1, <4>1 DEF CacheTracked
      <4>2. CASE i = Len(cache) + 1
        BY <1>t, <2>1, <2>4, <2>5, <3>1, <4>2 DEF JobTracked
      <4> QED
        BY <2>5, <4>1, <4>2
    <3>4. ASSUME NEW i \in DOMAIN cache', NEW k \in Jobs, cache'[i].key = Key(k)
          PROVE  pc'[k] = "passed"
      <4>1. CASE i \in DOMAIN cache
        BY <1>t, <2>1, <2>5, <3>4, <4>1 DEF CacheTracked
      <4>2. CASE i = Len(cache) + 1
        BY <2>1, <2>5, <3>4, <4>2, OneJobPerKey
      <4> QED
        BY <2>5, <4>1, <4>2
    <3> QED
      BY <3>2, <3>3, <3>4 DEF CacheTracked, Key
  <2>7. ASSUME NEW i \in Jobs PROVE JobTracked(i)'
    <3>1. /\ JobTracked(i) /\ against'[i] \in Nat /\ against'[i] = against[i]
          /\ against[i] <= Len(passed) /\ against[i] <= Len(passed')
      BY <1>0, <1>t, <2>1, <2>4 DEF JobTracked
    <3>2. against[i] > 0 => passed'[against[i]] = passed[against[i]]
      BY <1>0, <2>4, <3>1
    <3>3. CASE i = j
      BY <2>1, <3>1, <3>2, <3>3 DEF JobTracked
    <3>4. CASE i # j
      BY <2>1, <3>1, <3>2, <3>4 DEF JobTracked
    <3> QED
      BY <3>3, <3>4
  <2> QED
    BY <2>6, <2>7 DEF Tracked
<1> QED
  BY <1>1, <1>2, <1>3, <1>4, <1>5, <1>6 DEF Next
-----------------------------------------------------------------------------
\* The jobs' histories and the cache hold runs, no history more than keepRuns,
\* and the cache no key twice.
THEOREM GateTypeCorrect == Spec => []GateTypeOK
<1>1. GateInv => GateTypeOK
  <2> SUFFICES ASSUME GateInv PROVE GateTypeOK
    OBVIOUS
  <2> DEFINE entries == [key : 1..MaxWorkflows, history : Seq(Runs)]
  <2>1. \A e \in entries : e.key \in 1..MaxWorkflows /\ e.history \in Seq(Runs)
    OBVIOUS
  <2>2. cache \in Seq(entries)
    BY DEF GateInv, KindInv
  <2> HIDE DEF entries
  <2>3. \A i \in DOMAIN cache : cache[i] \in entries
    BY <2>2
  <2>4. ASSUME NEW i \in DOMAIN cache
        PROVE  /\ cache[i].key \in 1..MaxWorkflows
               /\ \A k \in DOMAIN cache[i].history : cache[i].history[k] \in Runs
               /\ Len(cache[i].history) \in 0..KeepRuns
    <3>1. cache[i].key \in 1..MaxWorkflows /\ cache[i].history \in Seq(Runs)
      BY <2>1, <2>3
    <3>2. Len(cache[i].history) <= KeepRuns /\ KeepRuns \in Nat
      BY GateAssumption DEF GateInv, CacheInv
    <3> QED
      BY <3>1, <3>2
  <2>5. \A j \in Jobs : \A k \in DOMAIN history[j] : history[j][k] \in Runs
    <3>1. \A j \in Jobs : history[j] \in Seq(Runs)
      BY DEF GateInv, KindInv
    <3> QED
      BY <3>1
  <2>6. \A k \in DOMAIN passed : passed[k] \in Runs
    BY DEF GateInv, KindInv
  <2> QED
    BY <2>4, <2>5, <2>6 DEF GateTypeOK, GateInv, CacheInv
<1> QED
  BY <1>1, GateInductive, PTL

\* "A failed job does not save, so a regression never becomes the next job's
\* baseline" (action.yml), however many jobs of however many runs overlap.
THEOREM RegressionsAreNotSaved == Spec => []NoRegressionIsSaved
<1>1. GateInv => NoRegressionIsSaved
  <2> SUFFICES ASSUME GateInv, NEW i \in DOMAIN cache,
                      NEW k \in DOMAIN cache[i].history
               PROVE  LET h == cache[i].history
                          before == LastOf(SubSeq(h, 1, k - 1), h[k].command)
                      IN  before # None => ~Over(before.work, h[k].work)
    BY DEF NoRegressionIsSaved
  <2> DEFINE entries == [key : 1..MaxWorkflows, history : Seq(Runs)]
  <2>1. \A e \in entries : e.history \in Seq(Runs)
    OBVIOUS
  <2>2. cache \in Seq(entries)
    BY DEF GateInv, KindInv
  <2> HIDE DEF entries
  <2>3. cache[i].history \in Seq(Runs)
    BY <2>1, <2>2
  <2>4. Steady(cache[i].history)
    BY DEF GateInv, SteadyInv
  <2> QED
    BY <2>3, <2>4, SteadyIsWithin
<1> QED
  BY <1>1, GateInductive, PTL

\* "Fail when work time grew more than this percentage since the last run"
\* (action.yml), where no two jobs share a key of the cache and a history has
\* room for the run before: a build that grew past the limit over the last one
\* that passed before its job began does not pass, whatever jobs overlap.
THEOREM RegressionsAreCaught ==
  ASSUME OneJob
  PROVE  Spec => []CatchesRegressions
<1>1. Init => TrackInv
  <2> SUFFICES ASSUME Init PROVE Tracked
    BY DEF TrackInv
  <2>1. cache = <<>> /\ passed = <<>> /\ DOMAIN cache = {}
    BY DEF Init
  <2>2. CacheTracked
    BY <2>1 DEF CacheTracked
  <2>3. \A j \in Jobs : JobTracked(j)
    BY <2>1 DEF Init, JobTracked
  <2> QED
    BY <2>2, <2>3 DEF Tracked
<1>2. GateInv /\ TrackInv => CatchesRegressions
  <2> SUFFICES ASSUME GateInv, Tracked, NEW j \in Jobs,
                      pc[j] \in {"save", "passed"}, LastPassed(j) # None
               PROVE  ~ Over(LastPassed(j).work, built[j].run.work)
    BY DEF TrackInv, AllRecorded, CatchesRegressions, Regressed
  <2>1. /\ passed \in Seq(Runs) /\ against[j] \in 0..Len(passed) /\ j[2] \in Names
        /\ JobTracked(j)
    BY DEF GateInv, KindInv, Tracked, JobTracked, Jobs
  <2>2. against[j] > 0
    <3>1. CASE against[j] = 0
      BY <2>1, <3>1, LastOfPrefix DEF LastPassed
    <3> QED
      BY <2>1, <3>1
  <2>3. LastPassed(j) = passed[against[j]]
    BY <2>1, <2>2, LastOfOneCommand DEF LastPassed
  <2> QED
    BY <2>1, <2>2, <2>3 DEF JobTracked
<1> QED
  BY <1>1, <1>2, TrackPreserved, GateInductive, PTL DEF Spec
=============================================================================
