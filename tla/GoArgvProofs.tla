---------------------------- MODULE GoArgvProofs ----------------------------
(***************************************************************************)
(* Proofs about the command line (GoArgv), of any length.  Both readers go *)
(* through it from left to right, so the proofs go from its end to its     *)
(* front: what a reader makes of the arguments from a position on depends  *)
(* on what it makes of the ones behind.                                    *)
(***************************************************************************)
EXTENDS GoArgv, NaturalFacts, SequenceTheorems

Flag == Chdir \cup ChdirNext
GraphFlag == {UserGraph, GraphNext}

\* No argument is empty.
LEMMA ArgumentTypes ==
  ASSUME NEW args \in Seq(Arguments)
  PROVE  /\ Len(args) \in Nat
         /\ \A i \in 1..Len(args) : args[i] \in Arguments /\ args[i] # ""
<1>1. \A i \in 1..Len(args) : args[i] \in Arguments
  OBVIOUS
<1>2. "" \notin Arguments
  BY DEF Arguments, NotFlags, Building, Chdir, ChdirNext, UserGraph, GraphNext
<1>3. Len(args) \in Nat
  OBVIOUS
<1> QED
  BY <1>1, <1>2, <1>3
-----------------------------------------------------------------------------
(* The leading change-directory flags.                                     *)

PartsAt(at, args, i) ==
  LET n == Len(args)
  IN  IF i > n \/ (i = n /\ args[i] \in ChdirNext) THEN [index |-> 0, dirs |-> <<>>]
      ELSE IF args[i] \in ChdirNext
      THEN [index |-> at[i + 2].index, dirs |-> <<args[i + 1]>> \o at[i + 2].dirs]
      ELSE IF args[i] \in Chdir
      THEN [index |-> at[i + 1].index, dirs |-> <<ChdirTo(args[i])>> \o at[i + 1].dirs]
      ELSE [index |-> i, dirs |-> <<>>]

\* The function chosen as PartsFrom exists, and satisfies its equation.
LEMMA PartsIs ==
  ASSUME NEW args, Len(args) \in Nat
  PROVE  \A i \in 1..(Len(args) + 2) : PartsFrom(args)[i] = PartsAt(PartsFrom(args), args, i)
<1> DEFINE N == Len(args) + 2
           Is(h) == h = [i \in 1..N |-> PartsAt(h, args, i)]
           From(h, k) == h = [i \in 1..N |-> IF i >= k THEN PartsAt(h, args, i) ELSE 0]
           T == {k \in 1..(N + 1) : \E h : From(h, k)}
<1>1. PartsFrom(args) = CHOOSE h : Is(h)
  BY DEF PartsFrom, PartsAt
<1>2. N + 1 \in T
  <2> DEFINE h == [i \in 1..N |-> 0]
  <2>1. \A i \in 1..N : 0 = IF i >= N + 1 THEN PartsAt(h, args, i) ELSE 0
    OBVIOUS
  <2> HIDE DEF h, N
  <2>2. [i \in 1..N |-> 0] = [i \in 1..N |-> IF i >= N + 1 THEN PartsAt(h, args, i) ELSE 0]
    BY <2>1, Zenon
  <2>3. From(h, N + 1)
    BY <2>2 DEF h
  <2> HIDE DEF From
  <2>4. N + 1 \in 1..(N + 1)
    BY DEF N
  <2> QED
    BY <2>3, <2>4
<1>3. ASSUME NEW k \in 1..(N + 1), (k + 1)..(N + 1) \subseteq T PROVE k \in T
  <2>1. CASE k = N + 1
    BY <1>2, <2>1
  <2>2. CASE k # N + 1
    <3>1. k \in 1..N /\ k + 1 \in (k + 1)..(N + 1)
      BY <2>2
    <3>2. PICK h : From(h, k + 1)
      BY <1>3, <3>1
    <3> DEFINE e == [i \in 1..N |-> IF i >= k THEN PartsAt(h, args, i) ELSE 0]
    <3>3. \A i \in 1..N : i > k => e[i] = h[i]
      <4>1. \A i \in 1..N : i > k => i >= k + 1 /\ i >= k
        OBVIOUS
      <4>2. \A i \in 1..N : i >= k + 1 => h[i] = PartsAt(h, args, i)
        <5> HIDE DEF N
        <5> QED
          BY <3>2
      <4> HIDE DEF N
      <4> QED
        BY <4>1, <4>2
    <3>4. ASSUME NEW i \in 1..N, i >= k PROVE PartsAt(e, args, i) = PartsAt(h, args, i)
      <4>1. i <= Len(args) => e[i + 1] = h[i + 1] /\ e[i + 2] = h[i + 2]
        <5>1. i <= Len(args) => i + 1 \in 1..N /\ i + 1 > k /\ i + 2 \in 1..N /\ i + 2 > k
          BY <3>4
        <5> HIDE DEF e, N
        <5> QED
          BY <3>3, <5>1
      <4>2. i \in Nat /\ Len(args) \in Nat
        OBVIOUS
      <4> HIDE DEF e, N
      <4>3. CASE i > Len(args)
        BY <4>3 DEF PartsAt
      <4>4. CASE i <= Len(args)
        BY <4>1, <4>2, <4>4 DEF PartsAt
      <4> QED
        BY <4>2, <4>3, <4>4
    <3>5. \A i \in 1..N : (IF i >= k THEN PartsAt(e, args, i) ELSE 0) =
                          (IF i >= k THEN PartsAt(h, args, i) ELSE 0)
      <4> HIDE DEF e, N
      <4> QED
        BY <3>4
    <3>6. From(e, k)
      <4> HIDE DEF N
      <4> QED
        BY <3>5, Zenon
    <3> HIDE DEF From, e
    <3> QED
      BY <3>6
  <2> QED
    BY <2>1, <2>2
<1>4. 1 \in T
  <2> DEFINE M == N + 1
  <2>1. 1 \in Nat /\ M \in Nat /\ 1 \in 1..M
    OBVIOUS
  <2> HIDE DEF T
  <2>2. \A k \in 1..M : (k + 1)..M \subseteq T => k \in T
    BY <1>3
  <2> HIDE DEF M
  <2>3. 1..M \subseteq T
    BY <2>1, <2>2, Downward
  <2> QED
    BY <2>1, <2>3
<1>5. \E h : Is(h)
  <2>1. PICK h : From(h, 1)
    BY <1>4
  <2>2. \A i \in 1..N : (IF i >= 1 THEN PartsAt(h, args, i) ELSE 0) = PartsAt(h, args, i)
    OBVIOUS
  <2> HIDE DEF N
  <2>3. Is(h)
    BY <2>1, <2>2, Zenon
  <2> QED
    BY <2>3
<1>6. Is(PartsFrom(args))
  <2> HIDE DEF Is
  <2> QED
    BY <1>1, <1>5
<1> HIDE DEF N
<1>7. \A i \in 1..N : PartsFrom(args)[i] = PartsAt(PartsFrom(args), args, i)
  BY <1>6
<1> QED
  BY <1>7 DEF N

\* A turn of the loop.
LEMMA PartsTurn ==
  ASSUME NEW args, Len(args) \in Nat, NEW i \in 1..(Len(args) + 2)
  PROVE  /\ i > Len(args) \/ (i = Len(args) /\ args[i] \in ChdirNext) => PartsFrom(args)[i].index = 0
         /\ i < Len(args) /\ args[i] \in ChdirNext =>
              /\ PartsFrom(args)[i].index = PartsFrom(args)[i + 2].index
              /\ PartsFrom(args)[i].dirs = <<args[i + 1]>> \o PartsFrom(args)[i + 2].dirs
         /\ i <= Len(args) /\ args[i] \in Chdir =>
              /\ PartsFrom(args)[i].index = PartsFrom(args)[i + 1].index
              /\ PartsFrom(args)[i].dirs = <<ChdirTo(args[i])>> \o PartsFrom(args)[i + 1].dirs
         /\ i <= Len(args) /\ args[i] \notin Flag =>
              PartsFrom(args)[i].index = i /\ PartsFrom(args)[i].dirs = <<>>
<1> DEFINE n == Len(args)
           at == PartsFrom(args)
           Last == i > n \/ (i = n /\ args[i] \in ChdirNext)
<1>1. n \in Nat /\ i \in Nat
  OBVIOUS
<1>2. at[i] = PartsAt(at, args, i)
  BY PartsIs
<1>3. Chdir \cap ChdirNext = {}
  BY DEF Chdir, ChdirNext
<1>4. Last => PartsAt(at, args, i) = [index |-> 0, dirs |-> <<>>]
  BY Zenon DEF PartsAt
<1>5. ~Last /\ args[i] \in ChdirNext => 
        PartsAt(at, args, i) = [index |-> at[i + 2].index, dirs |-> <<args[i + 1]>> \o at[i + 2].dirs]
  BY Zenon DEF PartsAt
<1>6. ~Last /\ args[i] \notin ChdirNext /\ args[i] \in Chdir =>
        PartsAt(at, args, i) = [index |-> at[i + 1].index, dirs |-> <<ChdirTo(args[i])>> \o at[i + 1].dirs]
  BY Zenon DEF PartsAt
<1>7. ~Last /\ args[i] \notin ChdirNext /\ args[i] \notin Chdir =>
        PartsAt(at, args, i) = [index |-> i, dirs |-> <<>>]
  BY Zenon DEF PartsAt
<1>8. /\ i < n => ~Last
      /\ i <= n /\ args[i] \notin ChdirNext => ~Last
  BY <1>1
<1> HIDE DEF Last
<1>9. Last => at[i].index = 0
  BY <1>2, <1>4
<1>10. i < n /\ args[i] \in ChdirNext =>
         at[i].index = at[i + 2].index /\ at[i].dirs = <<args[i + 1]>> \o at[i + 2].dirs
  BY <1>2, <1>5, <1>8
<1>11. i <= n /\ args[i] \in Chdir =>
         at[i].index = at[i + 1].index /\ at[i].dirs = <<ChdirTo(args[i])>> \o at[i + 1].dirs
  BY <1>2, <1>3, <1>6, <1>8
<1>12. i <= n /\ args[i] \notin Flag => at[i].index = i /\ at[i].dirs = <<>>
  BY <1>2, <1>7, <1>8 DEF Flag
<1> QED
  BY <1>9, <1>10, <1>11, <1>12 DEF Last

\* The subcommand is no flag, and no earlier than where the search begins.
LEMMA PartsType ==
  ASSUME NEW args \in Seq(Arguments)
  PROVE  \A i \in 1..(Len(args) + 2) :
           LET k == PartsFrom(args)[i].index
           IN  k = 0 \/ (k \in i..Len(args) /\ args[k] \notin Flag)
<1> DEFINE n == Len(args)
           at == PartsFrom(args)
           Good(i, k) == k = 0 \/ (k \in i..n /\ args[k] \notin Flag)
           T == {i \in 1..(n + 2) : Good(i, at[i].index)}
<1>1. n \in Nat
  OBVIOUS
<1>2. Chdir \cap ChdirNext = {}
  BY DEF Chdir, ChdirNext
<1>3. ASSUME NEW i \in 1..(n + 2), (i + 1)..(n + 2) \subseteq T PROVE i \in T
  <2>1. CASE i > n \/ (i = n /\ args[i] \in ChdirNext)
    <3>1. at[i].index = 0
      BY <2>1, <1>1, PartsTurn
    <3> QED
      BY <3>1
  <2>2. CASE i < n /\ args[i] \in ChdirNext
    <3>1. i + 2 \in T
      BY <1>1, <1>3, <2>2
    <3>2. at[i].index = at[i + 2].index
      BY <2>2, <1>1, PartsTurn
    <3>3. Good(i + 2, at[i].index)
      BY <3>1, <3>2
    <3>4. Good(i, at[i].index)
      BY <1>1, <3>3
    <3> QED
      BY <3>4
  <2>3. CASE i <= n /\ args[i] \notin ChdirNext /\ args[i] \in Chdir
    <3>1. i + 1 \in T
      BY <1>1, <1>3, <2>3
    <3>2. at[i].index = at[i + 1].index
      BY <2>3, <1>1, PartsTurn
    <3>3. Good(i + 1, at[i].index)
      BY <3>1, <3>2
    <3>4. Good(i, at[i].index)
      BY <1>1, <3>3
    <3> QED
      BY <3>4
  <2>4. CASE i <= n /\ args[i] \notin ChdirNext /\ args[i] \notin Chdir
    <3>1. at[i].index = i
      BY <2>4, <1>1, PartsTurn DEF Flag
    <3> QED
      BY <1>1, <2>4, <3>1 DEF Flag
  <2> QED
    BY <1>1, <2>1, <2>2, <2>3, <2>4
<1>4. 1..(n + 2) \subseteq T
  <2> DEFINE N == n + 2
  <2>1. 1 \in Nat /\ N \in Nat
    BY <1>1
  <2> HIDE DEF T
  <2>2. \A i \in 1..N : (i + 1)..N \subseteq T => i \in T
    BY <1>3
  <2> HIDE DEF N
  <2>3. 1..N \subseteq T
    BY <2>1, <2>2, Downward
  <2> QED
    BY <2>3 DEF N
<1> QED
  BY <1>4

\* Where the subcommand is.
LEMMA SubcommandType ==
  ASSUME NEW args \in Seq(Arguments), SubcommandIndex(args) # 0
  PROVE  /\ SubcommandIndex(args) \in 1..Len(args)
         /\ args[SubcommandIndex(args)] \notin Flag
<1>1. Len(args) \in Nat /\ 1 \in 1..(Len(args) + 2)
  OBVIOUS
<1> QED
  BY <1>1, PartsType DEF SubcommandIndex, CommandParts

\* The flag's directories, when there is at most one flag.
LEMMA FewFlags ==
  ASSUME NEW args \in Seq(Arguments)
  PROVE  /\ SubcommandIndex(args) = 1 =>
              args[1] \notin Flag /\ CommandParts(args).dirs = <<>>
         /\ SubcommandIndex(args) = 2 =>
              args[1] \in Chdir /\ CommandParts(args).dirs = <<ChdirTo(args[1])>>
         /\ SubcommandIndex(args) = 3 /\ args[1] \in ChdirNext =>
              CommandParts(args).dirs = <<args[2]>>
<1> DEFINE n == Len(args)
           at == PartsFrom(args)
<1>1. SubcommandIndex(args) = at[1].index /\ CommandParts(args).dirs = at[1].dirs
  BY DEF SubcommandIndex, CommandParts
<1>2. /\ n \in Nat
      /\ at[1].index # 0 => at[1].index \in 1..n /\ args[at[1].index] \notin Flag
  BY <1>1, SubcommandType
<1>4. \A i \in 1..(n + 2) : at[i].index = 0 \/ at[i].index >= i
  BY <1>2, PartsType
<1>6. \A X : \A d \in X : <<d>> \o <<>> = <<d>>
  OBVIOUS
<1>7. \A d : <<d>> \o <<>> = <<d>>
  <2> TAKE d
  <2> QED
    BY <1>6, d \in {d}
<1>3. \A i \in 1..n : i \in 1..(n + 2)
  BY <1>2
<1>8. ASSUME at[1].index = 1 PROVE args[1] \notin Flag /\ at[1].dirs = <<>>
  <2>1. 1 \in 1..n /\ 1 <= n /\ args[1] \notin Flag
    BY <1>2, <1>8
  <2>2. at[1].dirs = <<>>
    BY <1>3, <2>1, <1>2, PartsTurn
  <2> QED
    BY <2>1, <2>2
<1>9. ASSUME at[1].index = 2 PROVE args[1] \in Chdir /\ at[1].dirs = <<ChdirTo(args[1])>>
  <2>1. 1 \in 1..n /\ 1 < n /\ 1 <= n /\ 2 \in 1..n /\ 2 <= n /\ args[2] \notin Flag
    BY <1>2, <1>9
  <2>2. at[2].dirs = <<>>
    BY <1>3, <2>1, <1>2, PartsTurn
  <2>3. args[1] \notin ChdirNext
    <3> SUFFICES ASSUME args[1] \in ChdirNext PROVE FALSE
      OBVIOUS
    <3>1. at[1].index = at[1 + 2].index
      BY <1>3, <2>1, <1>2, PartsTurn
    <3>2. 3 \in 1..(n + 2) /\ 1 + 2 = 3
      BY <1>2, <2>1
    <3>3. at[3].index = 0 \/ at[3].index >= 3
      BY <1>4, <3>2
    <3> QED
      BY <1>9, <3>1, <3>2, <3>3
  <2>4. args[1] \in Chdir
    <3> SUFFICES ASSUME args[1] \notin Chdir PROVE FALSE
      OBVIOUS
    <3>1. args[1] \notin Flag
      BY <2>3 DEF Flag
    <3>2. at[1].index = 1
      BY <1>3, <2>1, <3>1, <1>2, PartsTurn
    <3> QED
      BY <1>9, <3>2
  <2>5. at[1].dirs = <<ChdirTo(args[1])>> \o at[1 + 1].dirs
    BY <1>3, <2>1, <2>4, <1>2, PartsTurn
  <2> QED
    BY <1>7, <2>2, <2>4, <2>5, 1 + 1 = 2
<1>10. ASSUME at[1].index = 3, args[1] \in ChdirNext PROVE at[1].dirs = <<args[2]>>
  <2>1. 1 \in 1..n /\ 1 < n /\ 3 \in 1..n /\ 3 <= n /\ args[3] \notin Flag
    BY <1>2, <1>10
  <2>2. at[3].dirs = <<>>
    BY <1>3, <2>1, <1>2, PartsTurn
  <2>3. at[1].dirs = <<args[1 + 1]>> \o at[1 + 2].dirs
    BY <1>3, <1>10, <2>1, <1>2, PartsTurn
  <2> QED
    BY <1>7, <2>2, <2>3, 1 + 1 = 2, 1 + 2 = 3
<1> HIDE DEF at
<1> QED
  BY <1>1, <1>8, <1>9, <1>10

\* Where no or one directory leads to.
LEMMA MovedOnce ==
  /\ MovedTo(<<>>)[0] = <<>>
  /\ \A d : MovedTo(<<d>>)[1] = Join(<<>>, d)
<1> DEFINE Is(h, dirs) == h = [k \in 0..Len(dirs) |-> IF k = 0 THEN <<>> ELSE Join(h[k - 1], dirs[k])]
<1>1. \A dirs : MovedTo(dirs) = CHOOSE h : Is(h, dirs)
  BY DEF MovedTo
<1>2. MovedTo(<<>>)[0] = <<>>
  <2> DEFINE h == [k \in 0..0 |-> <<>>]
  <2>1. Is(h, <<>>)
    <3>1. Len(<<>>) = 0 /\ \A k \in 0..0 : k = 0
      OBVIOUS
    <3>2. \A k \in 0..0 : <<>> = IF k = 0 THEN <<>> ELSE Join(h[k - 1], <<>>[k])
      BY <3>1
    <3> QED
      BY <3>1, <3>2, Zenon
  <2>2. Is(MovedTo(<<>>), <<>>)
    <3> HIDE DEF Is, h
    <3> QED
      BY <1>1, <2>1
  <2>3. 0 \in 0..Len(<<>>)
    OBVIOUS
  <2> QED
    BY <2>2, <2>3
<1>3. ASSUME NEW d PROVE MovedTo(<<d>>)[1] = Join(<<>>, d)
  <2> DEFINE h == [k \in 0..1 |-> IF k = 0 THEN <<>> ELSE Join(<<>>, d)]
  <2>1. Len(<<d>>) = 1 /\ <<d>>[1] = d
    OBVIOUS
  <2>2. \A k \in 0..1 : k = 0 \/ k = 1
    OBVIOUS
  <2>3. h[0] = <<>> /\ 1 - 1 = 0
    OBVIOUS
  <2>4. \A k \in 0..1 : (IF k = 0 THEN <<>> ELSE Join(<<>>, d)) =
                        (IF k = 0 THEN <<>> ELSE Join(h[k - 1], <<d>>[k]))
    <3> HIDE DEF h
    <3> QED
      BY <2>1, <2>2, <2>3
  <2>5. Is(h, <<d>>)
    BY <2>1, <2>4, Zenon
  <2>6. Is(MovedTo(<<d>>), <<d>>)
    <3> HIDE DEF Is, h
    <3> QED
      BY <1>1, <2>5
  <2>7. MovedTo(<<d>>)[0] = <<>> /\ MovedTo(<<d>>)[1] = Join(MovedTo(<<d>>)[0], d)
    <3>1. 0 \in 0..1 /\ 1 \in 0..1 /\ 1 # 0 /\ 1 - 1 = 0
      OBVIOUS
    <3> QED
      BY <2>1, <2>6, <3>1
  <2> QED
    BY <2>7
<1> QED
  BY <1>2, <1>3
-----------------------------------------------------------------------------
(* The go command's reading of the subcommand's flags.                     *)

\* One argument, what the reading makes of the two positions behind it given.
FlagAt(follow, after, args, i, list) ==
  LET n == Len(args)
      sub == args[SubcommandIndex(args)]
  IN  IF i > n THEN IF i = n + 1 THEN Accepted ELSE Rejected
      ELSE LET next == follow[EndedByFlag(list)]
           IN  CASE args[i] = "-v" -> next
                 [] args[i] = UserGraph -> WithGraph(next, "user")
                 [] args[i] = OwnGraph -> WithGraph(next, "longpole")
                 [] args[i] = GraphNext ->
                      IF i = n THEN Rejected
                      ELSE WithGraph(after[EndedByFlag(list)], args[i + 1])
                 [] args[i] = "--" -> Accepted
                 [] args[i] = "-args" -> IF sub = "test" THEN Accepted ELSE Rejected
                 [] args[i] \in NotFlags ->
                      IF sub = "test"
                      THEN IF list = "ended" THEN Accepted ELSE follow["begun"]
                      ELSE IF sub = "run" \/ \A j \in i..n : args[j] \in NotFlags
                      THEN Accepted ELSE Rejected
                 [] OTHER -> Rejected

FlagsAt(follow, after, args, i) == [list \in Lists |-> FlagAt(follow, after, args, i, list)]

\* The function chosen as FlagsFrom exists, and satisfies its equation.
LEMMA FlagsIs ==
  ASSUME NEW args, Len(args) \in Nat
  PROVE  \A i \in 1..(Len(args) + 3) :
           FlagsFrom(args)[i] = FlagsAt(FlagsFrom(args)[i + 1], FlagsFrom(args)[i + 2], args, i)
<1> DEFINE N == Len(args) + 3
           Body(h, i) == FlagsAt(h[i + 1], h[i + 2], args, i)
           Is(h) == h = [i \in 1..N |-> Body(h, i)]
           From(h, k) == h = [i \in 1..N |-> IF i >= k THEN Body(h, i) ELSE 0]
           T == {k \in 1..(N + 1) : \E h : From(h, k)}
<1>1. FlagsFrom(args) = CHOOSE h : Is(h)
  BY DEF FlagsFrom, FlagsAt, FlagAt
<1>2. N + 1 \in T
  <2> DEFINE h == [i \in 1..N |-> 0]
  <2>1. \A i \in 1..N : 0 = IF i >= N + 1 THEN Body(h, i) ELSE 0
    <3>1. \A i \in 1..N : ~(i >= N + 1)
      OBVIOUS
    <3> HIDE DEF Body, h, N
    <3> QED
      BY <3>1
  <2> HIDE DEF h, N, Body
  <2>2. [i \in 1..N |-> 0] = [i \in 1..N |-> IF i >= N + 1 THEN Body(h, i) ELSE 0]
    BY <2>1, Zenon
  <2>3. From(h, N + 1)
    BY <2>2 DEF h
  <2> HIDE DEF From
  <2>4. N + 1 \in 1..(N + 1)
    BY DEF N
  <2> QED
    BY <2>3, <2>4
<1>3. ASSUME NEW k \in 1..(N + 1), (k + 1)..(N + 1) \subseteq T PROVE k \in T
  <2>1. CASE k = N + 1
    BY <1>2, <2>1
  <2>2. CASE k # N + 1
    <3>1. k \in 1..N /\ k + 1 \in (k + 1)..(N + 1)
      BY <2>2
    <3> HIDE DEF Body
    <3>2. PICK h : From(h, k + 1)
      BY <1>3, <3>1
    <3> DEFINE e == [i \in 1..N |-> IF i >= k THEN Body(h, i) ELSE 0]
    <3>3. \A i \in 1..N : i > k => e[i] = h[i]
      <4>1. \A i \in 1..N : i > k => i >= k + 1 /\ i >= k
        OBVIOUS
      <4>2. \A i \in 1..N : i >= k + 1 => h[i] = Body(h, i)
        <5> HIDE DEF N
        <5> QED
          BY <3>2
      <4> HIDE DEF N
      <4> QED
        BY <4>1, <4>2
    <3>4. ASSUME NEW i \in 1..N, i >= k PROVE Body(e, i) = Body(h, i)
      <4>1. i <= Len(args) => e[i + 1] = h[i + 1] /\ e[i + 2] = h[i + 2]
        <5>1. i <= Len(args) => i + 1 \in 1..N /\ i + 1 > k /\ i + 2 \in 1..N /\ i + 2 > k
          BY <3>4
        <5> HIDE DEF e, N
        <5> QED
          BY <3>3, <5>1
      <4>2. i <= Len(args) \/ i > Len(args)
        OBVIOUS
      <4> HIDE DEF e, N
      <4>3. CASE i > Len(args)
        <5>1. \A list \in Lists : FlagAt(e[i + 1], e[i + 2], args, i, list) =
                                   FlagAt(h[i + 1], h[i + 2], args, i, list)
          BY <4>3, Zenon DEF FlagAt
        <5> QED
          BY <5>1, Zenon DEF Body, FlagsAt
      <4>4. CASE i <= Len(args)
        BY <4>1, <4>4, Zenon DEF Body
      <4> QED
        BY <4>2, <4>3, <4>4
    <3>5. \A i \in 1..N : (IF i >= k THEN Body(e, i) ELSE 0) =
                          (IF i >= k THEN Body(h, i) ELSE 0)
      <4> HIDE DEF e, N
      <4> QED
        BY <3>4
    <3>6. From(e, k)
      <4> HIDE DEF N
      <4> QED
        BY <3>5, Zenon
    <3> HIDE DEF From, e
    <3> QED
      BY <3>6
  <2> QED
    BY <2>1, <2>2
<1>4. 1 \in T
  <2> DEFINE M == N + 1
  <2>1. 1 \in Nat /\ M \in Nat /\ 1 \in 1..M
    OBVIOUS
  <2> HIDE DEF T
  <2>2. \A k \in 1..M : (k + 1)..M \subseteq T => k \in T
    BY <1>3
  <2> HIDE DEF M
  <2>3. 1..M \subseteq T
    BY <2>1, <2>2, Downward
  <2> QED
    BY <2>1, <2>3
<1> HIDE DEF Body
<1>5. \E h : Is(h)
  <2>1. PICK h : From(h, 1)
    BY <1>4
  <2>2. \A i \in 1..N : (IF i >= 1 THEN Body(h, i) ELSE 0) = Body(h, i)
    OBVIOUS
  <2> HIDE DEF N
  <2>3. Is(h)
    BY <2>1, <2>2, Zenon
  <2> QED
    BY <2>3
<1>6. Is(FlagsFrom(args))
  <2> HIDE DEF Is
  <2> QED
    BY <1>1, <1>5
<1> HIDE DEF N
<1>7. \A i \in 1..N : FlagsFrom(args)[i] = Body(FlagsFrom(args), i)
  BY <1>6
<1> QED
  BY <1>7 DEF N, Body

\* The reading of one argument, token by token.
LEMMA FlagTurn ==
  ASSUME NEW args, Len(args) \in Nat, NEW i \in 1..(Len(args) + 3),
         NEW list \in Lists
  PROVE  LET n == Len(args)
             f == FlagsFrom(args)
             sub == args[SubcommandIndex(args)]
             next == f[i + 1][EndedByFlag(list)]
         IN  /\ i = n + 1 => f[i][list] = Accepted
             /\ i > n + 1 => f[i][list] = Rejected
             /\ i <= n /\ args[i] = "-v" => f[i][list] = next
             /\ i <= n /\ args[i] = UserGraph =>
                  f[i][list] = WithGraph(next, "user")
             /\ i <= n /\ args[i] = OwnGraph =>
                  f[i][list] = WithGraph(next, "longpole")
             /\ i = n /\ args[i] = GraphNext => f[i][list] = Rejected
             /\ i < n /\ args[i] = GraphNext =>
                  f[i][list] = WithGraph(f[i + 2][EndedByFlag(list)], args[i + 1])
             /\ i <= n /\ args[i] = "--" => f[i][list] = Accepted
             /\ i <= n /\ args[i] = "-args" =>
                  f[i][list] = IF sub = "test" THEN Accepted ELSE Rejected
             /\ i <= n /\ args[i] \in NotFlags /\ sub = "test" =>
                  /\ list = "ended" => f[i][list] = Accepted
                  /\ list # "ended" => f[i][list] = f[i + 1]["begun"]
             /\ i <= n /\ args[i] \in NotFlags /\ sub # "test" =>
                  /\ f[i][list] \in {Accepted, Rejected}
                  /\ sub = "run" => f[i][list] = Accepted
                  /\ (\A j \in i..n : args[j] \in NotFlags) => f[i][list] = Accepted
                  /\ \A j \in i..n : args[j] \notin NotFlags /\ sub # "run" => f[i][list] = Rejected
             /\ i <= n /\ args[i] \in Chdir \cup ChdirNext \cup {"/abs"} => f[i][list] = Rejected
<1> DEFINE n == Len(args)
           f == FlagsFrom(args)
           sub == args[SubcommandIndex(args)]
           next == f[i + 1][EndedByFlag(list)]
           later == f[i + 2][EndedByFlag(list)]
           value == f[i][list]
<1>1. value = FlagAt(f[i + 1], f[i + 2], args, i, list)
  <2>1. f[i] = FlagsAt(f[i + 1], f[i + 2], args, i)
    BY FlagsIs
  <2> HIDE DEF f
  <2> QED
    BY <2>1 DEF FlagsAt
<1>2. n \in Nat /\ i \in Nat
  OBVIOUS
<1>4. i > n => value = IF i = n + 1 THEN Accepted ELSE Rejected
  BY <1>1, Zenon DEF FlagAt
<1> DEFINE Read == CASE args[i] = "-v" -> next
             [] args[i] = UserGraph -> WithGraph(next, "user")
             [] args[i] = OwnGraph -> WithGraph(next, "longpole")
             [] args[i] = GraphNext ->
                  IF i = n THEN Rejected ELSE WithGraph(later, args[i + 1])
             [] args[i] = "--" -> Accepted
             [] args[i] = "-args" -> IF sub = "test" THEN Accepted ELSE Rejected
             [] args[i] \in NotFlags ->
                  IF sub = "test"
                  THEN IF list = "ended" THEN Accepted ELSE f[i + 1]["begun"]
                  ELSE IF sub = "run" \/ \A j \in i..n : args[j] \in NotFlags
                  THEN Accepted ELSE Rejected
             [] OTHER -> Rejected
<1>5. ~(i > n) => value = Read
  BY <1>1, Zenon DEF FlagAt
<1>6. i <= n => ~(i > n)
  BY <1>2
<1> HIDE DEF n, f, sub, next, later, value
<1>7. args[i] = "-v" => Read = next
  BY DEF UserGraph, OwnGraph, GraphNext, NotFlags, Building
<1>8. args[i] = UserGraph => Read = WithGraph(next, "user")
  BY DEF UserGraph, OwnGraph, GraphNext, NotFlags, Building
<1>9. args[i] = OwnGraph => Read = WithGraph(next, "longpole")
  BY DEF UserGraph, OwnGraph, GraphNext, NotFlags, Building
<1>10. args[i] = GraphNext => Read = IF i = n THEN Rejected ELSE WithGraph(later, args[i + 1])
  BY DEF UserGraph, OwnGraph, GraphNext, NotFlags, Building
<1>11. args[i] = "--" => Read = Accepted
  BY DEF UserGraph, OwnGraph, GraphNext, NotFlags, Building
<1>12. args[i] = "-args" => Read = IF sub = "test" THEN Accepted ELSE Rejected
  BY DEF UserGraph, OwnGraph, GraphNext, NotFlags, Building
<1>13. args[i] \in NotFlags => Read = IF sub = "test"
                  THEN IF list = "ended" THEN Accepted ELSE f[i + 1]["begun"]
                  ELSE IF sub = "run" \/ \A j \in i..n : args[j] \in NotFlags
                  THEN Accepted ELSE Rejected
  BY DEF UserGraph, OwnGraph, GraphNext, NotFlags, Building
<1>14. args[i] \in Chdir \cup ChdirNext \cup {"/abs"} => Read = Rejected
  BY DEF Chdir, ChdirNext, UserGraph, OwnGraph, GraphNext, NotFlags, Building
<1> HIDE DEF Read
<1>15. i = n + 1 => value = Accepted
  BY <1>2, <1>4
<1>16. i > n + 1 => value = Rejected
  BY <1>2, <1>4
<1>17. i <= n => value = Read
  BY <1>5, <1>6
<1>18. i <= n /\ args[i] = UserGraph => value = WithGraph(next, "user")
  BY <1>8, <1>17
<1>19. i <= n /\ args[i] = OwnGraph => value = WithGraph(next, "longpole")
  BY <1>9, <1>17
<1>20. i = n /\ args[i] = GraphNext => value = Rejected
  BY <1>2, <1>10, <1>17
<1>21. i < n /\ args[i] = GraphNext => value = WithGraph(later, args[i + 1])
  <2>1. i < n => i <= n /\ i # n
    BY <1>2
  <2> QED
    BY <1>10, <1>17, <2>1, Zenon
<1>22. i <= n /\ args[i] \in NotFlags /\ sub = "test" =>
         /\ list = "ended" => value = Accepted
         /\ list # "ended" => value = f[i + 1]["begun"]
  BY <1>13, <1>17
<1>23. i <= n /\ args[i] \in NotFlags /\ sub # "test" =>
         /\ value \in {Accepted, Rejected}
         /\ sub = "run" => value = Accepted
         /\ (\A j \in i..n : args[j] \in NotFlags) => value = Accepted
         /\ \A j \in i..n : args[j] \notin NotFlags /\ sub # "run" => value = Rejected
  <2>1. i <= n /\ args[i] \in NotFlags /\ sub # "test" =>
          \/ value = Accepted /\ (sub = "run" \/ \A j \in i..n : args[j] \in NotFlags)
          \/ value = Rejected /\ ~(sub = "run" \/ \A j \in i..n : args[j] \in NotFlags)
    BY <1>13, <1>17, Zenon
  <2> QED
    BY <2>1
<1> QED
  BY <1>7, <1>11, <1>12, <1>14, <1>15, <1>16, <1>17, <1>18, <1>19, <1>20, <1>21, <1>22, <1>23
     DEF n, f, sub, next, later, value

\* What an argument can be.
LEMMA ArgumentKinds ==
  ASSUME NEW a \in Arguments
  PROVE  \/ a = "-v" \/ a \in GraphFlag \/ a = "--" \/ a = "-args" \/ a \in NotFlags
         \/ a \in Chdir \cup ChdirNext \cup {"/abs"}
BY DEF Arguments, GraphFlag

LEMMA Verdicts ==
  /\ Accepted.ok /\ ~Rejected.ok
  /\ Accepted.graph = "" /\ Rejected.graph = ""
BY DEF Accepted, Rejected

\* Where the reading ends, in one way or the other.
LEMMA EndOfReading ==
  ASSUME NEW args, Len(args) \in Nat, NEW i \in 1..(Len(args) + 3), NEW list \in Lists,
         \/ i > Len(args)
         \/ /\ i <= Len(args)
            /\ \/ args[i] \in {"--", "-args"} \cup Chdir \cup ChdirNext \cup {"/abs"}
               \/ /\ args[i] \in NotFlags
                  /\ args[SubcommandIndex(args)] # "test" \/ list = "ended"
  PROVE  FlagsFrom(args)[i][list] \in {Accepted, Rejected}
<1> DEFINE n == Len(args)
           sub == args[SubcommandIndex(args)]
<1>1. n \in Nat /\ i \in Nat
  OBVIOUS
<1>2. CASE i > n
  <2>1. i = n + 1 \/ i > n + 1
    BY <1>1, <1>2
  <2> QED
    BY <1>1, <2>1, FlagTurn
<1>3. CASE i <= n /\ args[i] \in {"--", "-args"}
  <2>1. CASE args[i] = "--"
    BY <1>1, <1>3, <2>1, FlagTurn
  <2>2. CASE args[i] = "-args"
    <3>1. FlagsFrom(args)[i][list] = IF sub = "test" THEN Accepted ELSE Rejected
      BY <1>1, <1>3, <2>2, FlagTurn
    <3> QED
      BY <3>1
  <2> QED
    BY <1>3, <2>1, <2>2
<1>4. CASE i <= n /\ args[i] \in Chdir \cup ChdirNext \cup {"/abs"}
  BY <1>1, <1>4, FlagTurn
<1>5. CASE i <= n /\ args[i] \in NotFlags /\ sub # "test"
  BY <1>1, <1>5, FlagTurn
<1>6. CASE i <= n /\ args[i] \in NotFlags /\ sub = "test" /\ list = "ended"
  BY <1>1, <1>6, FlagTurn
<1> QED
  BY <1>2, <1>3, <1>4, <1>5, <1>6

\* Where it goes on: to the next argument, or behind the path that follows.
LEMMA EndedByFlagType ==
  /\ "none" \in Lists /\ "begun" \in Lists
  /\ \A list \in Lists : EndedByFlag(list) \in Lists
BY DEF Lists, EndedByFlag

\* A flag after the packages is refused, unless they are those of test or run.
LEMMA FlagAfterPackage ==
  ASSUME NEW args, Len(args) \in Nat, NEW i \in 1..Len(args), args[i] \in NotFlags,
         args[SubcommandIndex(args)] \notin {"test", "run"},
         NEW p \in i..Len(args), args[p] \notin NotFlags, NEW list \in Lists
  PROVE  FlagsFrom(args)[i][list] = Rejected
<1> DEFINE n == Len(args)
           sub == args[SubcommandIndex(args)]
<1>1. i \in 1..(n + 3) /\ i <= n
  OBVIOUS
<1>2. sub # "test" /\ sub # "run"
  OBVIOUS
<1>3. \A j \in i..n : args[j] \notin NotFlags /\ sub # "run" => FlagsFrom(args)[i][list] = Rejected
  BY <1>1, <1>2, FlagTurn
<1> QED
  BY <1>2, <1>3

\* No graph is read where none is named.
LEMMA NoGraphBehind ==
  ASSUME NEW args \in Seq(Arguments), NEW from \in 1..(Len(args) + 3),
         \A j \in from..Len(args) : args[j] \notin GraphFlag
  PROVE  \A i \in from..(Len(args) + 3) : \A list \in Lists : FlagsFrom(args)[i][list].graph = ""
<1> DEFINE n == Len(args)
           f == FlagsFrom(args)
           sub == args[SubcommandIndex(args)]
           T == {i \in from..(n + 3) : \A list \in Lists : f[i][list].graph = ""}
<1>1. n \in Nat /\ from \in Nat /\ from >= 1
  OBVIOUS
<1>2. ASSUME NEW i \in from..(n + 3), (i + 1)..(n + 3) \subseteq T PROVE i \in T
  <2> SUFFICES ASSUME NEW list \in Lists PROVE f[i][list].graph = ""
    OBVIOUS
  <2>1. i \in 1..(n + 3)
    BY <1>1
  <2>2. CASE i > n
    <3>1. f[i][list] = Accepted \/ f[i][list] = Rejected
      BY <1>1, <2>1, <2>2, EndOfReading
    <3> QED
      BY <3>1, Verdicts
  <2>3. CASE i <= n
    <3>1. i \in from..n /\ i \in 1..n /\ i + 1 \in (i + 1)..(n + 3)
      BY <1>1, <2>1, <2>3
    <3>2. args[i] \in Arguments /\ args[i] \notin GraphFlag
      BY <3>1
    <3>3. f[i + 1][EndedByFlag(list)].graph = "" /\ f[i + 1]["begun"].graph = ""
      BY <1>2, <3>1, EndedByFlagType
    <3>4. CASE args[i] = "-v" \/ (args[i] \in NotFlags /\ sub = "test" /\ list # "ended")
      <4>1. f[i][list] = f[i + 1][EndedByFlag(list)] \/ f[i][list] = f[i + 1]["begun"]
        BY <1>1, <2>1, <2>3, <3>4, FlagTurn
      <4> QED
        BY <3>3, <4>1
    <3>5. CASE \/ args[i] \in {"--", "-args"} \cup Chdir \cup ChdirNext \cup {"/abs"}
               \/ args[i] \in NotFlags /\ (sub # "test" \/ list = "ended")
      <4>1. f[i][list] = Accepted \/ f[i][list] = Rejected
        BY <1>1, <2>1, <2>3, <3>5, EndOfReading
      <4> QED
        BY <4>1, Verdicts
    <3> QED
      BY <3>2, <3>4, <3>5, ArgumentKinds
  <2>4. i <= n \/ i > n
    BY <1>1, <2>1
  <2> HIDE DEF T
  <2> QED
    BY <2>2, <2>3, <2>4
<1>3. from..(n + 3) \subseteq T
  <2> DEFINE N == n + 3
  <2>1. from \in Nat /\ N \in Nat
    BY <1>1
  <2>2. \A i \in from..N : (i + 1)..N \subseteq T => i \in T
    BY <1>2
  <2> HIDE DEF T, N
  <2>3. from..N \subseteq T
    BY <2>1, <2>2, Downward
  <2> QED
    BY <2>3 DEF N
<1> QED
  BY <1>3

\* Nor where the subcommand's arguments end before it is.
LEMMA NoGraphBefore ==
  ASSUME NEW args \in Seq(Arguments), NEW last \in 1..Len(args),
         args[last] \in {"-args", "--"}, NEW from \in 1..last,
         \A j \in from..last : args[j] \notin GraphFlag
  PROVE  \A i \in from..last : \A list \in Lists : FlagsFrom(args)[i][list].graph = ""
<1> DEFINE n == Len(args)
           f == FlagsFrom(args)
           sub == args[SubcommandIndex(args)]
           T == {i \in from..last : \A list \in Lists : f[i][list].graph = ""}
<1>1. n \in Nat /\ from \in Nat /\ last \in Nat /\ from >= 1 /\ last <= n
  OBVIOUS
<1>2. ASSUME NEW i \in from..last, (i + 1)..last \subseteq T PROVE i \in T
  <2> SUFFICES ASSUME NEW list \in Lists PROVE f[i][list].graph = ""
    OBVIOUS
  <2>1. i \in 1..(n + 3) /\ i <= n /\ i \in 1..n
    BY <1>1
  <2>2. args[i] \in Arguments /\ args[i] \notin GraphFlag
    BY <2>1
  <2>3. CASE /\ i # last
             /\ args[i] = "-v" \/ (args[i] \in NotFlags /\ sub = "test" /\ list # "ended")
    <3>1. f[i][list] = f[i + 1][EndedByFlag(list)] \/ f[i][list] = f[i + 1]["begun"]
      BY <1>1, <2>1, <2>3, FlagTurn
    <3>2. i + 1 \in (i + 1)..last
      BY <1>1, <2>3
    <3>3. f[i + 1][EndedByFlag(list)].graph = "" /\ f[i + 1]["begun"].graph = ""
      BY <1>2, <3>2, EndedByFlagType
    <3> QED
      BY <3>1, <3>3
  <2>4. CASE \/ args[i] \in {"--", "-args"} \cup Chdir \cup ChdirNext \cup {"/abs"}
             \/ args[i] \in NotFlags /\ (sub # "test" \/ list = "ended")
    <3>1. f[i][list] = Accepted \/ f[i][list] = Rejected
      BY <1>1, <2>1, <2>4, EndOfReading
    <3> QED
      BY <3>1, Verdicts
  <2> QED
    BY <2>2, <2>3, <2>4, ArgumentKinds
<1>3. from..last \subseteq T
  <2> HIDE DEF T
  <2>1. \A i \in from..last : (i + 1)..last \subseteq T => i \in T
    BY <1>2
  <2> QED
    BY <1>1, <2>1, Downward
<1> QED
  BY <1>3

\* The path of the one flag that names a graph.
NamedAt(args, p) == IF args[p] = UserGraph THEN "user" ELSE args[p + 1]

\* From i up to p go test meets no package behind a list that has ended.
Unended(args, i, p, list) ==
  /\ list = "ended" => \A j \in i..p : args[j] \notin NotFlags
  /\ list = "begun" => \A k, j \in i..p :
       k < j /\ args[k] \notin NotFlags => args[j] \notin NotFlags
  /\ list = "none" => \A m, k, j \in i..p :
       m < k /\ k < j /\ args[m] \in NotFlags /\ args[k] \notin NotFlags => args[j] \notin NotFlags

\* Nor does it from the next argument on.
LEMMA UnendedTurn ==
  ASSUME NEW args, NEW i \in Nat, NEW p \in Nat, i < p, NEW list \in Lists,
         Unended(args, i, p, list)
  PROVE  /\ args[i] \notin NotFlags => Unended(args, i + 1, p, EndedByFlag(list))
         /\ args[i] \in NotFlags => list # "ended" /\ Unended(args, i + 1, p, "begun")
<1>1. i \in i..p /\ \A j \in (i + 1)..p : j \in i..p /\ i < j
  OBVIOUS
<1> DEFINE rest == (i + 1)..p
           all == i..p
<1>2. /\ list = "ended" => \A j \in all : args[j] \notin NotFlags
      /\ list = "begun" => \A k, j \in all :
           k < j /\ args[k] \notin NotFlags => args[j] \notin NotFlags
      /\ list = "none" => \A m, k, j \in all :
           m < k /\ k < j /\ args[m] \in NotFlags /\ args[k] \notin NotFlags => args[j] \notin NotFlags
  BY DEF Unended
<1>3. i \in all /\ \A j \in rest : j \in all /\ i < j
  BY <1>1
<1> HIDE DEF rest, all
<1>4. args[i] \in NotFlags => list # "ended"
  BY <1>2, <1>3
<1>5. ASSUME args[i] \in NotFlags
      PROVE  \A k, j \in rest : k < j /\ args[k] \notin NotFlags => args[j] \notin NotFlags
  <2>1. CASE list = "none"
    BY <1>2, <1>3, <1>5, <2>1
  <2>2. CASE list = "begun"
    BY <1>2, <1>3, <2>2
  <2> QED
    BY <1>4, <1>5, <2>1, <2>2 DEF Lists
<1>6. args[i] \in NotFlags => Unended(args, i + 1, p, "begun")
  BY <1>5 DEF Unended, rest
<1>7. ASSUME args[i] \notin NotFlags PROVE Unended(args, i + 1, p, EndedByFlag(list))
  <2>1. CASE list = "none"
    <3>1. \A m, k, j \in rest :
            m < k /\ k < j /\ args[m] \in NotFlags /\ args[k] \notin NotFlags => args[j] \notin NotFlags
      BY <1>2, <1>3, <2>1
    <3>2. EndedByFlag(list) = "none"
      BY <2>1 DEF EndedByFlag
    <3> QED
      BY <3>1, <3>2 DEF Unended, rest
  <2>2. CASE list # "none"
    <3>1. \A j \in rest : args[j] \notin NotFlags
      BY <1>2, <1>3, <1>7, <2>2 DEF Lists
    <3>2. EndedByFlag(list) = "ended"
      BY <2>2 DEF EndedByFlag
    <3> QED
      BY <3>1, <3>2 DEF Unended, rest
  <2> QED
    BY <2>1, <2>2
<1> QED
  BY <1>4, <1>6, <1>7

\* A graph the go command comes to is the one it reads, the command being one it
\* takes.
LEMMA GraphIsRead ==
  ASSUME NEW args \in Seq(Arguments), NEW p \in 1..Len(args), args[p] \in GraphFlag,
         \A j \in 1..Len(args) : args[j] \in GraphFlag => j = p,
         NEW from \in 1..p,
         \A j \in from..p : args[j] \notin {"-args", "--"},
         args[SubcommandIndex(args)] = "run" => \A j \in from..p : args[j] \notin NotFlags
  PROVE  \A i \in from..p : \A list \in Lists :
           /\ args[SubcommandIndex(args)] = "test" => Unended(args, i, p, list)
           /\ FlagsFrom(args)[i][list].ok
           => /\ args[p] = GraphNext => p < Len(args)
              /\ FlagsFrom(args)[i][list].graph = NamedAt(args, p)
<1> DEFINE n == Len(args)
           f == FlagsFrom(args)
           sub == args[SubcommandIndex(args)]
           Meets(i, list) == sub = "test" => Unended(args, i, p, list)
           Good(i, list) == f[i][list].ok => /\ args[p] = GraphNext => p < n
                                             /\ f[i][list].graph = NamedAt(args, p)
           T == {i \in from..p : \A list \in Lists : Meets(i, list) => Good(i, list)}
<1>1. n \in Nat /\ from \in Nat /\ p \in Nat /\ from >= 1 /\ p <= n
  OBVIOUS
<1>2. ASSUME NEW list \in Lists PROVE Good(p, list)
  <2> DEFINE to == EndedByFlag(list)
  <2>1. p \in 1..(n + 3) /\ p + 1 \in 1..(n + 3)
    BY <1>1
  <2>2. \A j \in (p + 1)..n : args[j] \notin GraphFlag
    BY <1>1
  <2>3. \A i \in (p + 1)..(n + 3) : f[i][to].graph = ""
    BY <2>1, <2>2, NoGraphBehind, EndedByFlagType
  <2>4. f[p + 1][to].graph = "" /\ f[p + 2][to].graph = ""
    <3>1. p + 1 \in (p + 1)..(n + 3) /\ p + 2 \in (p + 1)..(n + 3)
      BY <1>1
    <3> HIDE DEF to
    <3> QED
      BY <2>3, <3>1
  <2>5. CASE args[p] = UserGraph
    <3>1. f[p][list] = WithGraph(f[p + 1][to], "user")
      BY <1>1, <2>1, <2>5, FlagTurn
    <3>2. WithGraph(f[p + 1][to], "user").graph = "user"
      BY <2>4, Zenon DEF WithGraph
    <3>3. f[p][list].graph = "user"
      BY <3>1, <3>2
    <3> QED
      BY <2>5, <3>3 DEF NamedAt, UserGraph, GraphNext
  <2>6. CASE args[p] = GraphNext /\ p = n
    <3>1. f[p][list] = Rejected
      BY <1>1, <2>1, <2>6, FlagTurn
    <3> QED
      BY <3>1, Verdicts
  <2>7. CASE args[p] = GraphNext /\ p < n
    <3>1. f[p][list] = WithGraph(f[p + 2][to], args[p + 1])
      BY <1>1, <2>1, <2>7, FlagTurn
    <3>2. WithGraph(f[p + 2][to], args[p + 1]).graph = args[p + 1]
      BY <2>4, Zenon DEF WithGraph
    <3>3. f[p][list].graph = args[p + 1]
      BY <3>1, <3>2
    <3> QED
      BY <2>7, <3>3 DEF NamedAt, UserGraph, GraphNext
  <2> QED
    BY <1>1, <2>5, <2>6, <2>7 DEF GraphFlag
<1>3. ASSUME NEW i \in from..p, (i + 1)..p \subseteq T PROVE i \in T
  <2> SUFFICES ASSUME NEW list \in Lists, Meets(i, list) PROVE Good(i, list)
    OBVIOUS
  <2>1. i \in 1..(n + 3) /\ i <= n /\ i \in 1..n /\ i \in Nat
    BY <1>1
  <2>2. CASE i = p
    BY <1>2, <2>2
  <2>3. CASE i # p
    <3>1. i + 1 \in (i + 1)..p /\ p \in i..n /\ i < p
      BY <1>1, <2>3
    <3>2. args[i] \in Arguments /\ args[i] \notin GraphFlag /\ args[i] \notin {"-args", "--"}
      BY <2>1, <2>3
    <3> HIDE DEF Good
    <3>3. CASE args[i] = "-v"
      <4> DEFINE to == EndedByFlag(list)
      <4>1. f[i][list] = f[i + 1][to]
        BY <1>1, <2>1, <3>3, FlagTurn
      <4>2. args[i] \notin NotFlags
        BY <3>3 DEF NotFlags, Building
      <4>3. Meets(i + 1, to) /\ to \in Lists
        BY <1>1, <2>1, <3>1, <4>2, UnendedTurn, EndedByFlagType
      <4> HIDE DEF to, Meets
      <4>4. Good(i + 1, to)
        BY <1>3, <3>1, <4>3
      <4> QED
        BY <4>1, <4>4 DEF Good
    <3>4. CASE args[i] \in NotFlags /\ sub = "test"
      <4>1. list # "ended" /\ Meets(i + 1, "begun")
        BY <1>1, <2>1, <3>1, <3>4, UnendedTurn
      <4>2. f[i][list] = f[i + 1]["begun"]
        BY <1>1, <2>1, <3>4, <4>1, FlagTurn
      <4> HIDE DEF Meets
      <4>3. Good(i + 1, "begun")
        BY <1>3, <3>1, <4>1, EndedByFlagType
      <4> QED
        BY <4>2, <4>3 DEF Good
    <3>5. CASE args[i] \in Chdir \cup ChdirNext \cup {"/abs"}
      <4>1. f[i][list] = Rejected
        BY <1>1, <2>1, <3>5, FlagTurn
      <4> QED
        BY <4>1, Verdicts DEF Good
    <3>6. CASE args[i] \in NotFlags /\ sub # "test"
      <4>1. args[p] \notin NotFlags
        BY DEF GraphFlag, UserGraph, GraphNext, NotFlags, Building
      <4>2. sub # "run"
        BY <3>6
      <4>3. f[i][list] = Rejected
        BY <1>1, <2>1, <3>1, <3>6, <4>1, <4>2, FlagAfterPackage
      <4> QED
        BY <4>3, Verdicts DEF Good
    <3> QED
      BY <3>2, <3>3, <3>4, <3>5, <3>6, ArgumentKinds
  <2> QED
    BY <2>2, <2>3
<1>4. from..p \subseteq T
  <2> HIDE DEF T
  <2>1. \A i \in from..p : (i + 1)..p \subseteq T => i \in T
    BY <1>3
  <2> QED
    BY <1>1, <2>1, Downward
<1> QED
  BY <1>4
-----------------------------------------------------------------------------
(* The injected flag.                                                      *)

\* The user asks for no graph: the flag is injected.
GraphIsNotNamed(args) == ExistingGraphPath(args) = ""

LEMMA Injected ==
  ASSUME NEW args \in Seq(Arguments), SubcommandIndex(args) # 0,
         GraphIsNotNamed(args)
  PROVE  /\ Len(Inject(args)) = Len(args) + 1
         /\ \A i \in 1..SubcommandIndex(args) : Inject(args)[i] = args[i]
         /\ Inject(args)[SubcommandIndex(args) + 1] = OwnGraph
         /\ \A i \in (SubcommandIndex(args) + 1)..Len(args) : Inject(args)[i + 1] = args[i]
<1> DEFINE n == Len(args)
           s == SubcommandIndex(args)
           Any == Arguments \cup {OwnGraph}
           front == SubSeq(args, 1, s)
           back == SubSeq(args, s + 1, n)
<1>1. n \in Nat /\ s \in Nat /\ 1 <= s /\ s <= n /\ s \in 1..n
  <2>1. n \in Nat
    OBVIOUS
  <2>2. s \in 1..n
    BY SubcommandType
  <2> HIDE DEF n, s
  <2> QED
    BY <2>1, <2>2
<1>2. Inject(args) = front \o <<OwnGraph>> \o back
  BY Zenon DEF Inject, Place, GraphIsNotNamed
<1> HIDE DEF s
<1>3. args \in Seq(Any)
  OBVIOUS
<1>4. \A i \in 1..n : args[i] \in Any
  BY <1>3
<1>5. front \in Seq(Any) /\ Len(front) = s /\ \A i \in 1..s : front[i] = args[i]
  BY <1>1, <1>3, <1>4, SubSeqProperties
<1>6. back \in Seq(Any) /\ Len(back) = n - s /\ \A i \in 1..(n - s) : back[i] = args[s + i]
  BY <1>1, <1>3, <1>4, SubSeqProperties
<1>7. <<OwnGraph>> \in Seq(Any) /\ Len(<<OwnGraph>>) = 1 /\ <<OwnGraph>>[1] = OwnGraph
  OBVIOUS
<1> DEFINE most == front \o <<OwnGraph>>
<1> HIDE DEF front, back, n, Any
<1>8. most \in Seq(Any) /\ Len(most) = s + 1 /\ (\A i \in 1..s : most[i] = front[i]) /\ most[s + 1] = OwnGraph
  <2>1. most \in Seq(Any) /\ Len(most) = s + 1
    BY <1>5, <1>7
  <2>2. \A i \in 1..s : most[i] = front[i]
    BY <1>1, <1>5, <1>7
  <2>3. most[s + 1] = OwnGraph
    BY <1>1, <1>5, <1>7
  <2> QED
    BY <2>1, <2>2, <2>3
<1>9. Inject(args) = most \o back
  BY <1>2
<1> HIDE DEF most
<1>10. /\ Len(most \o back) = n + 1
       /\ \A i \in 1..(n + 1) : (most \o back)[i] = IF i <= s + 1 THEN most[i] ELSE back[i - (s + 1)]
  <2>1. Len(most) + Len(back) = n + 1
    BY <1>1, <1>6, <1>8
  <2>2. /\ Len(most \o back) = Len(most) + Len(back)
        /\ \A i \in 1..(Len(most) + Len(back)) :
             (most \o back)[i] = IF i <= Len(most) THEN most[i] ELSE back[i - Len(most)]
    BY <1>6, <1>8, ConcatProperties
  <2> QED
    BY <1>8, <2>1, <2>2
<1>11. \A i \in (s + 1)..n : Inject(args)[i + 1] = args[i]
  <2>1. ASSUME NEW j \in (s + 2)..(n + 1) PROVE Inject(args)[j] = args[j - 1]
    <3>1. /\ j - (s + 1) \in 1..(n - s) /\ s + (j - (s + 1)) = j - 1
          /\ j \in 1..(n + 1) /\ ~(j <= s + 1)
      BY <1>1
    <3>2. Inject(args)[j] = back[j - (s + 1)]
      BY <1>9, <1>10, <3>1
    <3>3. back[j - (s + 1)] = args[s + (j - (s + 1))]
      BY <1>6, <3>1
    <3> QED
      BY <3>1, <3>2, <3>3
  <2>2. \A i \in (s + 1)..n : i + 1 \in (s + 2)..(n + 1) /\ (i + 1) - 1 = i
    BY <1>1
  <2> QED
    BY <2>1, <2>2
<1>12. \A i \in 1..s : i \in 1..(n + 1) /\ i <= s + 1
  BY <1>1
<1>13. s + 1 \in 1..(n + 1) /\ s + 1 <= s + 1
  BY <1>1
<1>14. /\ Len(Inject(args)) = n + 1
       /\ \A i \in 1..s : Inject(args)[i] = args[i]
       /\ Inject(args)[s + 1] = OwnGraph
  BY <1>5, <1>8, <1>9, <1>10, <1>12, <1>13
<1> QED
  BY <1>11, <1>14 DEF n, s

\* The flag comes after what the search for the subcommand looks at: the
\* subcommand and the directory are the user's.
LEMMA InjectKeepsParts ==
  ASSUME NEW args \in Seq(Arguments), SubcommandIndex(args) # 0,
         GraphIsNotNamed(args)
  PROVE  /\ SubcommandIndex(Inject(args)) = SubcommandIndex(args)
         /\ CommandParts(Inject(args)).dirs = CommandParts(args).dirs
<1> DEFINE n == Len(args)
           s == SubcommandIndex(args)
           new == Inject(args)
           at == PartsFrom(args)
           to == PartsFrom(new)
           T == {i \in 1..s : at[i].index = s => to[i].index = s /\ to[i].dirs = at[i].dirs}
<1>1. n \in Nat /\ s \in Nat /\ 1 <= s /\ s <= n /\ s \in 1..n
  <2>1. n \in Nat
    OBVIOUS
  <2>2. s \in 1..n
    BY SubcommandType
  <2> HIDE DEF n, s
  <2> QED
    BY <2>1, <2>2
<1>2. Len(new) = n + 1 /\ Len(new) \in Nat /\ \A i \in 1..s : new[i] = args[i]
  BY <1>1, Injected
<1>3. \A i \in 1..(n + 2) : at[i].index = 0 \/ at[i].index >= i
  BY <1>1, PartsType
<1> HIDE DEF n, s, new, at, to
<1>4. ASSUME NEW i \in 1..s, (i + 1)..s \subseteq T, at[i].index = s
      PROVE  to[i].index = s /\ to[i].dirs = at[i].dirs
  <2>1. /\ i \in 1..(n + 2) /\ i \in 1..(Len(new) + 2) /\ i <= n /\ i <= Len(new)
        /\ i < n => i < Len(new)
    BY <1>1, <1>2
  <2>2. new[i] = args[i]
    BY <1>2
  <2>3. CASE args[i] \in ChdirNext
    <3>1. i < n
      <4>1. i = n => at[i].index = 0
        BY <1>1, <2>1, <2>3, PartsTurn DEF at, n
      <4> QED
        BY <1>1, <1>4, <2>1, <4>1
    <3>2. at[i].index = at[i + 2].index /\ at[i].dirs = <<args[i + 1]>> \o at[i + 2].dirs
      BY <1>1, <2>1, <2>3, <3>1, PartsTurn DEF at, n
    <3>3. to[i].index = to[i + 2].index /\ to[i].dirs = <<new[i + 1]>> \o to[i + 2].dirs
      BY <1>2, <2>1, <2>2, <2>3, <3>1, PartsTurn DEF to
    <3>4. i + 2 \in 1..(n + 2)
      BY <1>1, <3>1
    <3>5. at[i + 2].index >= i + 2
      BY <1>1, <1>3, <1>4, <3>2, <3>4
    <3>6. i + 2 \in (i + 1)..s /\ i + 1 \in 1..s
      BY <1>1, <1>4, <3>2, <3>5
    <3>7. to[i + 2].index = s /\ to[i + 2].dirs = at[i + 2].dirs
      BY <1>4, <3>2, <3>6
    <3>8. new[i + 1] = args[i + 1]
      BY <1>2, <3>6
    <3> QED
      BY <3>2, <3>3, <3>7, <3>8
  <2>4. CASE args[i] \in Chdir
    <3>2. at[i].index = at[i + 1].index /\ at[i].dirs = <<ChdirTo(args[i])>> \o at[i + 1].dirs
      BY <1>1, <2>1, <2>4, PartsTurn DEF at, n
    <3>3. to[i].index = to[i + 1].index /\ to[i].dirs = <<ChdirTo(new[i])>> \o to[i + 1].dirs
      BY <1>2, <2>1, <2>2, <2>4, PartsTurn DEF to
    <3>4. i + 1 \in 1..(n + 2)
      BY <1>1
    <3>5. at[i + 1].index >= i + 1
      BY <1>1, <1>3, <1>4, <3>2, <3>4
    <3>6. i + 1 \in (i + 1)..s
      BY <1>1, <1>4, <3>2, <3>5
    <3>7. to[i + 1].index = s /\ to[i + 1].dirs = at[i + 1].dirs
      BY <1>4, <3>2, <3>6
    <3> QED
      BY <2>2, <3>2, <3>3, <3>7
  <2>5. CASE args[i] \notin Flag
    <3>1. at[i].index = i /\ at[i].dirs = <<>>
      BY <1>1, <2>1, <2>5, PartsTurn DEF at, n
    <3>2. to[i].index = i /\ to[i].dirs = <<>>
      BY <1>2, <2>1, <2>2, <2>5, PartsTurn DEF to
    <3> QED
      BY <1>4, <3>1, <3>2
  <2> QED
    BY <2>3, <2>4, <2>5 DEF Flag
<1>5. \A i \in 1..s : (i + 1)..s \subseteq T => i \in T
  BY <1>4
<1>6. 1..s \subseteq T
  <2> HIDE DEF T
  <2> QED
    BY <1>1, <1>5, Downward
<1>7. 1 \in 1..s /\ at[1].index = s
  BY <1>1 DEF s, at, SubcommandIndex, CommandParts
<1>8. to[1].index = s /\ to[1].dirs = at[1].dirs
  BY <1>6, <1>7
<1> QED
  BY <1>8 DEF s, at, to, new, SubcommandIndex, CommandParts

\* What follows the injected flag is read as it was without it.
LEMMA InjectKeepsFlags ==
  ASSUME NEW args \in Seq(Arguments), SubcommandIndex(args) # 0,
         GraphIsNotNamed(args)
  PROVE  \A i \in (SubcommandIndex(args) + 1)..(Len(args) + 3) :
           \A list \in Lists : FlagsFrom(Inject(args))[i + 1][list] = FlagsFrom(args)[i][list]
<1> DEFINE n == Len(args)
           s == SubcommandIndex(args)
           new == Inject(args)
           f == FlagsFrom(args)
           g == FlagsFrom(new)
           T == {i \in (s + 1)..(n + 3) : \A list \in Lists : g[i + 1][list] = f[i][list]}
<1>1. n \in Nat /\ s \in Nat /\ 1 <= s /\ s <= n /\ s \in 1..n
  <2>1. n \in Nat
    OBVIOUS
  <2>2. s \in 1..n
    BY SubcommandType
  <2> HIDE DEF n, s
  <2> QED
    BY <2>1, <2>2
<1>2. /\ Len(new) = n + 1 /\ Len(new) \in Nat /\ new[s] = args[s]
      /\ \A i \in (s + 1)..n : new[i + 1] = args[i]
  <2>1. s \in 1..s
    BY <1>1
  <2> QED
    BY <1>1, <2>1, Injected
<1>3. SubcommandIndex(new) = s
  BY InjectKeepsParts
<1> HIDE DEF n, s, new, f, g
<1>4. ASSUME NEW i \in (s + 1)..(n + 3), (i + 1)..(n + 3) \subseteq T, NEW list \in Lists
      PROVE  g[i + 1][list] = f[i][list]
  <2>1. /\ i \in 1..(n + 3) /\ i + 1 \in 1..(Len(new) + 3)
        /\ i <= n \/ i = n + 1 \/ i > n + 1
        /\ i <= n <=> i + 1 <= Len(new)
        /\ i < n <=> i + 1 < Len(new)
        /\ i = n <=> i + 1 = Len(new)
        /\ i = n + 1 <=> i + 1 = Len(new) + 1
        /\ i > n + 1 <=> i + 1 > Len(new) + 1
        /\ (i + 1) + 1 = i + 2 /\ (i + 1) + 2 = (i + 2) + 1
    BY <1>1, <1>2
  <2> DEFINE to == EndedByFlag(list)
  <2>2. CASE i = n + 1
    <3>1. f[i][list] = Accepted
      BY <1>1, <2>1, <2>2, FlagTurn DEF f, n
    <3>2. g[i + 1][list] = Accepted
      BY <1>2, <2>1, <2>2, FlagTurn DEF g
    <3> QED
      BY <3>1, <3>2
  <2>3. CASE i > n + 1
    <3>1. f[i][list] = Rejected
      BY <1>1, <2>1, <2>3, FlagTurn DEF f, n
    <3>2. g[i + 1][list] = Rejected
      BY <1>2, <2>1, <2>3, FlagTurn DEF g
    <3> QED
      BY <3>1, <3>2
  <2>4. CASE i <= n
    <3>1. new[i + 1] = args[i] /\ args[i] \in Arguments
      BY <1>1, <1>2, <2>4 DEF n
    <3>17. Len(new) \in Nat /\ i + 1 \in 1..(Len(new) + 3) /\ i + 1 <= Len(new)
      BY <1>2, <2>1, <2>4
    <3>2. g[(i + 1) + 1][to] = f[i + 1][to] /\ g[(i + 1) + 1]["begun"] = f[i + 1]["begun"]
      <4>1. i + 1 \in (i + 1)..(n + 3)
        BY <1>1, <2>1, <2>4
      <4> QED
        BY <1>4, <4>1, EndedByFlagType
    <3>3. i < n => g[(i + 1) + 2][to] = f[i + 2][to]
      <4>1. i < n => i + 2 \in (i + 1)..(n + 3)
        BY <1>1, <2>1
      <4> QED
        BY <1>4, <2>1, <4>1, EndedByFlagType
    <3>4. CASE args[i] = "-v"
      <4>1. f[i][list] = f[i + 1][to]
        BY <1>1, <2>1, <2>4, <3>4, FlagTurn DEF f, n
      <4>2. g[i + 1][list] = g[(i + 1) + 1][to]
        BY <3>1, <3>17, <3>4, FlagTurn DEF g
      <4> QED
        BY <3>2, <4>1, <4>2
    <3>5. CASE args[i] = UserGraph
      <4>1. f[i][list] = WithGraph(f[i + 1][to], "user")
        BY <1>1, <2>1, <2>4, <3>5, FlagTurn DEF f, n
      <4>2. g[i + 1][list] = WithGraph(g[(i + 1) + 1][to], "user")
        BY <3>1, <3>17, <3>5, FlagTurn DEF g
      <4> QED
        BY <3>2, <4>1, <4>2
    <3>6. CASE args[i] = GraphNext /\ i = n
      <4>1. f[i][list] = Rejected
        BY <1>1, <2>1, <2>4, <3>6, FlagTurn DEF f, n
      <4>2. g[i + 1][list] = Rejected
        BY <1>2, <2>1, <2>4, <3>1, <3>6, FlagTurn DEF g
      <4> QED
        BY <4>1, <4>2
    <3>7. CASE args[i] = GraphNext /\ i < n
      <4>1. f[i][list] = WithGraph(f[i + 2][to], args[i + 1])
        BY <1>1, <2>1, <2>4, <3>7, FlagTurn DEF f, n
      <4>2. g[i + 1][list] = WithGraph(g[(i + 1) + 2][to], new[(i + 1) + 1])
        BY <1>2, <2>1, <2>4, <3>1, <3>7, FlagTurn DEF g
      <4>3. new[(i + 1) + 1] = args[i + 1]
        <5>1. i + 1 \in (s + 1)..n
          BY <1>1, <3>7
        <5> QED
          BY <1>2, <5>1
      <4> QED
        BY <3>3, <3>7, <4>1, <4>2, <4>3
    <3>8. CASE args[i] = "--"
      <4>1. f[i][list] = Accepted
        BY <1>1, <2>1, <2>4, <3>8, FlagTurn DEF f, n
      <4>2. g[i + 1][list] = Accepted
        BY <3>1, <3>17, <3>8, FlagTurn DEF g
      <4> QED
        BY <4>1, <4>2
    <3>9. CASE args[i] = "-args"
      <4>1. f[i][list] = IF args[s] = "test" THEN Accepted ELSE Rejected
        BY <1>1, <2>1, <2>4, <3>9, FlagTurn DEF f, n, s
      <4>2. g[i + 1][list] = IF new[s] = "test" THEN Accepted ELSE Rejected
        BY <1>3, <3>1, <3>17, <3>9, FlagTurn DEF g
      <4> QED
        BY <1>2, <4>1, <4>2
    <3>10. CASE args[i] \in NotFlags /\ args[s] = "test" /\ list # "ended"
      <4>1. f[i][list] = f[i + 1]["begun"]
        BY <1>1, <2>1, <2>4, <3>10, FlagTurn DEF f, n, s
      <4>2. g[i + 1][list] = g[(i + 1) + 1]["begun"]
        BY <1>2, <1>3, <3>1, <3>17, <3>10, FlagTurn DEF g
      <4> QED
        BY <3>2, <4>1, <4>2
    <3>16. CASE args[i] \in NotFlags /\ args[s] = "test" /\ list = "ended"
      <4>1. f[i][list] = Accepted
        BY <1>1, <2>1, <2>4, <3>16, FlagTurn DEF f, n, s
      <4>2. g[i + 1][list] = Accepted
        BY <1>2, <1>3, <3>1, <3>17, <3>16, FlagTurn DEF g
      <4> QED
        BY <4>1, <4>2
    <3>11. CASE args[i] \in NotFlags /\ args[s] = "run"
      <4>1. f[i][list] = Accepted
        BY <1>1, <2>1, <2>4, <3>11, FlagTurn DEF f, n, s
      <4>2. new[i + 1] \in NotFlags /\ new[SubcommandIndex(new)] = "run"
        BY <1>2, <1>3, <3>1, <3>11
      <4>3. g[i + 1][list] = Accepted
        BY <3>17, <4>2, FlagTurn DEF g
      <4> QED
        BY <4>1, <4>3
    <3>12. CASE /\ args[i] \in NotFlags /\ args[s] \notin {"test", "run"}
                /\ \A j \in i..n : args[j] \in NotFlags
      <4>1. f[i][list] = Accepted
        BY <1>1, <2>1, <2>4, <3>12, FlagTurn DEF f, n, s
      <4>2. \A j \in (i + 1)..Len(new) : new[j] \in NotFlags
        <5> SUFFICES ASSUME NEW j \in (i + 1)..Len(new) PROVE new[j] \in NotFlags
          OBVIOUS
        <5>1. j - 1 \in i..n /\ j - 1 \in (s + 1)..n /\ (j - 1) + 1 = j
          BY <1>1, <1>2
        <5> QED
          BY <1>2, <3>12, <5>1
      <4>3. g[i + 1][list] = Accepted
        BY <1>2, <1>3, <3>1, <3>12, <3>17, <4>2, FlagTurn DEF g
      <4> QED
        BY <4>1, <4>3
    <3>13. CASE /\ args[i] \in NotFlags /\ args[s] \notin {"test", "run"}
                /\ ~(\A j \in i..n : args[j] \in NotFlags)
      <4>1. PICK j \in i..n : args[j] \notin NotFlags
        BY <3>13
      <4>2. f[i][list] = Rejected
        <5>1. i \in 1..n /\ j \in i..n
          BY <1>1, <2>4
        <5> QED
          BY <1>1, <3>13, <4>1, <5>1, FlagAfterPackage DEF f, n, s
      <4>3. g[i + 1][list] = Rejected
        <5>1. i + 1 \in 1..Len(new) /\ j + 1 \in (i + 1)..Len(new) /\ j \in (s + 1)..n
          BY <1>1, <1>2, <2>4
        <5>2. new[j + 1] \notin NotFlags
          BY <1>2, <4>1, <5>1
        <5> QED
          BY <1>2, <1>3, <3>1, <3>13, <5>1, <5>2, FlagAfterPackage DEF g
      <4> QED
        BY <4>2, <4>3
    <3>14. CASE args[i] \in Chdir \cup ChdirNext \cup {"/abs"}
      <4>1. f[i][list] = Rejected
        BY <1>1, <2>1, <2>4, <3>14, FlagTurn DEF f, n
      <4>2. g[i + 1][list] = Rejected
        BY <1>2, <2>1, <2>4, <3>1, <3>14, FlagTurn DEF g
      <4> QED
        BY <4>1, <4>2
    <3>15. i < n \/ i = n
      BY <1>1, <2>4
    <3> QED
      BY <3>1, <3>4, <3>5, <3>6, <3>7, <3>8, <3>9, <3>10, <3>11, <3>12, <3>13, <3>14, <3>15, <3>16,
         ArgumentKinds DEF GraphFlag
  <2> QED
    BY <2>1, <2>2, <2>3, <2>4
<1>5. \A i \in (s + 1)..(n + 3) : (i + 1)..(n + 3) \subseteq T => i \in T
  BY <1>4
<1>6. (s + 1)..(n + 3) \subseteq T
  <2> DEFINE M == s + 1
             N == n + 3
  <2>1. M \in Nat /\ N \in Nat
    BY <1>1
  <2>2. \A i \in M..N : (i + 1)..N \subseteq T => i \in T
    BY <1>5
  <2> HIDE DEF T, M, N
  <2>3. M..N \subseteq T
    BY <2>1, <2>2, Downward
  <2> QED
    BY <2>3 DEF M, N
<1>7. \A i \in (s + 1)..(n + 3) : \A list \in Lists : g[i + 1][list] = f[i][list]
  BY <1>6
<1> QED
  BY <1>7 DEF s, n, f, g, new
-----------------------------------------------------------------------------
(* The command the go command takes, and where it runs.                    *)

Opens(args) ==
  /\ SubcommandIndex(args) \in {1, 2, 3}
  /\ SubcommandIndex(args) = 3 => args[1] \in ChdirNext
  /\ SubcommandIndex(args) = 1 /\ Len(args) # 1 => args[2] \notin Flag

\* The subcommand's flags are read from the argument behind it.
LEMMA GoReadsFlags ==
  ASSUME NEW args, Opens(args), args[SubcommandIndex(args)] \in Building
  PROVE  GoReads(args) = FlagsFrom(args)[SubcommandIndex(args) + 1]["none"]
<1> DEFINE sub == SubcommandIndex(args)
           onceBefore == sub <= 2 \/ (sub = 3 /\ args[1] \in ChdirNext)
           moved == IF sub # 1 \/ Len(args) = 1 THEN 0
                    ELSE IF args[2] \in Chdir THEN 1
                    ELSE IF args[2] \in ChdirNext THEN 2 ELSE 0
<1>1. ~(sub = 0 \/ args[sub] \notin Building \/ ~onceBefore)
  BY DEF Opens
<1>2. moved = 0
  BY DEF Opens, Flag
<1>3. GoReads(args) = FlagsFrom(args)[sub + moved + 1]["none"]
  <2> HIDE DEF moved
  <2>1. GoReads(args) = IF sub = 0 \/ args[sub] \notin Building \/ ~onceBefore THEN Rejected
                        ELSE FlagsFrom(args)[sub + moved + 1]["none"]
    BY Zenon DEF GoReads, moved
  <2> QED
    BY <1>1, <2>1, Zenon
<1>4. sub + moved + 1 = sub + 1
  BY <1>2 DEF Opens
<1> QED
  BY <1>3, <1>4

\* Where the go command runs.
LEMMA GoDirIs ==
  ASSUME NEW args, Opens(args)
  PROVE  /\ SubcommandIndex(args) = 1 /\ args[1] \notin Flag => GoDir(args) = <<>>
         /\ SubcommandIndex(args) = 2 /\ args[1] \in Chdir =>
              GoDir(args) = Join(<<>>, ChdirTo(args[1]))
         /\ SubcommandIndex(args) = 3 => GoDir(args) = Join(<<>>, args[2])
<1> DEFINE sub == SubcommandIndex(args)
           at == IF sub = 1 /\ Len(args) > 1 THEN 2 ELSE 1
<1>1. GoDir(args) = IF args[at] \in Chdir THEN Join(<<>>, ChdirTo(args[at]))
                    ELSE IF args[at] \in ChdirNext THEN Join(<<>>, args[at + 1])
                    ELSE <<>>
  BY Zenon DEF GoDir
<1>2. sub # 1 => at = 1
  OBVIOUS
<1>3. Chdir \cap ChdirNext = {}
  BY DEF Chdir, ChdirNext
<1>4. CASE sub = 1 /\ args[1] \notin Flag
  <2>1. args[at] \notin Flag
    BY <1>4 DEF Opens
  <2> HIDE DEF at
  <2> QED
    BY <1>1, <1>4, <2>1 DEF Flag
<1>5. CASE sub = 2 /\ args[1] \in Chdir
  BY <1>1, <1>2, <1>5
<1>6. CASE sub = 3
  <2>1. args[1] \in ChdirNext /\ args[1] \notin Chdir
    BY <1>3, <1>6 DEF Opens
  <2> QED
    BY <1>1, <1>2, <1>6, <2>1
<1> QED
  BY <1>4, <1>5, <1>6

\* What CommandDir makes of the same.
LEMMA CommandDirIs ==
  ASSUME NEW args \in Seq(Arguments), Opens(args)
  PROVE  /\ SubcommandIndex(args) = 1 => args[1] \notin Flag /\ CommandDir(args) = <<>>
         /\ SubcommandIndex(args) = 2 =>
              args[1] \in Chdir /\ CommandDir(args) = Join(<<>>, ChdirTo(args[1]))
         /\ SubcommandIndex(args) = 3 => CommandDir(args) = Join(<<>>, args[2])
<1> DEFINE sub == SubcommandIndex(args)
           dirs == CommandParts(args).dirs
<1>1. sub # 0 /\ sub \in {1, 2, 3}
  BY DEF Opens
<1>2. CommandDir(args) = MovedTo(dirs)[Len(dirs)]
  BY <1>1, Zenon DEF CommandDir
<1>3. Len(<<>>) = 0 /\ \A d : Len(<<d>>) = 1
  OBVIOUS
<1> HIDE DEF dirs
<1>4. CASE sub = 1
  <2>1. args[1] \notin Flag /\ dirs = <<>>
    BY <1>4, FewFlags DEF dirs
  <2> QED
    BY <1>2, <1>3, <1>4, <2>1, MovedOnce
<1>5. CASE sub = 2
  <2>1. args[1] \in Chdir /\ dirs = <<ChdirTo(args[1])>>
    BY <1>5, FewFlags DEF dirs
  <2> QED
    BY <1>2, <1>3, <1>5, <2>1, MovedOnce
<1>6. CASE sub = 3
  <2>1. dirs = <<args[2]>>
    BY <1>6, FewFlags DEF dirs, Opens
  <2> QED
    BY <1>2, <1>3, <1>6, <2>1, MovedOnce
<1> QED
  BY <1>1, <1>4, <1>5, <1>6

-----------------------------------------------------------------------------
(* The graph longpole finds.                                               *)

GraphHits(args) ==
  {i \in GraphArgs(args) : \/ args[i] = UserGraph
                           \/ args[i] = GraphNext /\ i < Len(args)}

LEMMA PathFound ==
  ASSUME NEW args, SubcommandIndex(args) # 0, NEW p \in GraphHits(args),
         \A j \in GraphHits(args) : j = p, p \in Nat
  PROVE  ExistingGraphPath(args) = NamedAt(args, p)
<1> DEFINE hits == GraphHits(args)
           first == CHOOSE i \in hits : \A j \in hits : i <= j
<1>1. ExistingGraphPath(args) =
        IF SubcommandIndex(args) = 0 \/ hits = {} THEN ""
        ELSE IF args[first] = UserGraph THEN "user" ELSE args[first + 1]
  BY Zenon DEF ExistingGraphPath, GraphHits
<1> HIDE DEF hits
<1>2. p \in hits /\ \A j \in hits : j = p /\ p <= j
  BY DEF hits
<1>3. first \in hits
  BY <1>2
<1>4. first = p
  BY <1>2, <1>3
<1> HIDE DEF first
<1>5. ~(SubcommandIndex(args) = 0 \/ hits = {})
  BY <1>2
<1> QED
  BY <1>1, <1>4, <1>5, Zenon DEF NamedAt

LEMMA PathNotFound ==
  ASSUME NEW args, GraphHits(args) = {}
  PROVE  GraphIsNotNamed(args)
<1>1. {i \in GraphArgs(args) : \/ args[i] = UserGraph
                               \/ args[i] = GraphNext /\ i < Len(args)} = {}
  BY DEF GraphHits
<1> QED
  BY <1>1, Zenon DEF ExistingGraphPath, GraphIsNotNamed
-----------------------------------------------------------------------------
(* The two readings agree.                                                 *)

\* A command the go command takes, with no change-directory flag behind the
\* subcommand.
LEMMA TakenCommand ==
  ASSUME argv \in Seq(Arguments), Profiled, ~ChdirAfterSubcommand
  PROVE  /\ SubcommandIndex(argv) \in 1..Len(argv)
         /\ Opens(argv)
         /\ argv[SubcommandIndex(argv)] \in Building
         /\ GoReads(argv) = FlagsFrom(argv)[SubcommandIndex(argv) + 1]["none"]
         /\ FlagsFrom(argv)[SubcommandIndex(argv) + 1]["none"].ok
<1> DEFINE n == Len(argv)
           sub == SubcommandIndex(argv)
           onceBefore == sub <= 2 \/ (sub = 3 /\ argv[1] \in ChdirNext)
<1>1. n \in Nat
  OBVIOUS
<1>2. sub # 0 /\ argv[sub] \in Building
  BY DEF Profiled, Checks
<1>3. sub \in 1..n
  BY <1>2, SubcommandType
<1>4. \A i \in 1..n : i > sub => argv[i] \notin Flag
  BY DEF ChdirAfterSubcommand, Flag
<1>5. onceBefore
  <2>1. GoReads(argv).ok
    BY DEF Profiled
  <2>2. ~onceBefore => GoReads(argv) = Rejected
    BY Zenon DEF GoReads
  <2> HIDE DEF onceBefore
  <2> QED
    BY <2>1, <2>2, Verdicts
<1>6. sub \in {1, 2, 3} /\ (sub = 3 => argv[1] \in ChdirNext)
  <2> HIDE DEF sub, n
  <2> QED
    BY <1>1, <1>3, <1>5
<1>7. sub = 1 /\ n # 1 => argv[2] \notin Flag
  <2>1. sub = 1 /\ n # 1 => 2 \in 1..n /\ 2 > sub
    <3> HIDE DEF sub, n
    <3> QED
      BY <1>1, <1>3
  <2> QED
    BY <1>4, <2>1
<1>8. Opens(argv)
  BY <1>6, <1>7 DEF Opens
<1>9. GoReads(argv) = FlagsFrom(argv)[sub + 1]["none"]
  BY <1>2, <1>8, GoReadsFlags
<1>10. FlagsFrom(argv)[sub + 1]["none"].ok
  BY <1>9 DEF Profiled
<1> QED
  BY <1>2, <1>3, <1>8, <1>9, <1>10

\* The graph longpole finds is the graph the go command reads.
LEMMA SameGraph ==
  ASSUME argv \in Seq(Arguments), Plainly
  PROVE  ExistingGraphPath(argv) = GoReads(argv).graph
<1> DEFINE n == Len(argv)
           sub == SubcommandIndex(argv)
           f == FlagsFrom(argv)
           after == (sub + 1)..n
<1>1. n \in Nat /\ sub \in 1..n /\ sub # 0
  BY TakenCommand DEF Plainly
<1>2. GoReads(argv) = f[sub + 1]["none"] /\ f[sub + 1]["none"].ok
  BY TakenCommand DEF Plainly
<1>3. \A i \in after : i \in 1..n
  BY <1>1
<1>4. \A i, j \in 1..n : argv[i] \in GraphFlag /\ argv[j] \in GraphFlag => i = j
  <2>1. NamedOnce
    BY DEF Plainly
  <2>2. \A i, j \in 1..n : {argv[i], argv[j]} \subseteq GraphFlag => i = j
    BY <2>1, Zenon DEF NamedOnce, GraphFlag
  <2> QED
    BY <2>2
<1>5. GraphHits(argv) \subseteq {i \in after : argv[i] \in GraphFlag}
  BY DEF GraphHits, GraphArgs, GraphFlag
<1>6. CASE \A i \in after : argv[i] \notin GraphFlag
  <2>1. GraphHits(argv) = {}
    BY <1>5, <1>6
  <2>2. GraphIsNotNamed(argv)
    BY <2>1, PathNotFound
  <2>3. sub + 1 \in 1..(n + 3) /\ sub + 1 \in (sub + 1)..(n + 3)
    BY <1>1
  <2>4. f[sub + 1]["none"].graph = ""
    BY <1>6, <2>3, NoGraphBehind, EndedByFlagType
  <2> QED
    BY <1>2, <2>2, <2>4, Zenon DEF GraphIsNotNamed
<1>7. ASSUME NEW p \in after, argv[p] \in GraphFlag
      PROVE  ExistingGraphPath(argv) = GoReads(argv).graph
  <2>1. p \in Nat /\ p \in 1..n /\ sub + 1 \in 1..p /\ sub + 1 \in (sub + 1)..p
    BY <1>1
  <2>2. \A j \in 1..n : argv[j] \in GraphFlag => j = p
    BY <1>4, <1>7, <2>1
  <2>3. CASE \A j \in (sub + 1)..p : argv[j] \notin {"-args", "--"}
    <3>1. argv[p] \notin NotFlags
      BY <1>7 DEF GraphFlag, UserGraph, GraphNext, NotFlags, Building
    <3>2. ASSUME NEW j \in (sub + 1)..p PROVE j \in Nat /\ ~ProgramsBegin(j)
      <4>1. j \in Nat /\ j \in (sub + 1)..n /\ p \in (sub + 1)..n /\ (j < p \/ j = p)
        <5> HIDE DEF sub, n
        <5> QED
          BY <1>1
      <4>2. CASE j < p
        <5>1. ~ProgramUsesTheFlag
          BY DEF Plainly
        <5>2. argv[p] \in {UserGraph, GraphNext}
          BY <1>7 DEF GraphFlag
        <5>3. ProgramsBegin(j) => ProgramUsesTheFlag
          BY <2>3, <4>1, <4>2, <5>2, Zenon DEF ProgramUsesTheFlag
        <5> QED
          BY <4>1, <5>1, <5>3
      <4>3. CASE j = p
        BY <3>1, <4>1, <4>3, Zenon DEF ProgramsBegin
      <4> QED
        BY <4>1, <4>2, <4>3
    <3>7. argv[sub] = "run" => \A j \in (sub + 1)..p : argv[j] \notin NotFlags
      BY <3>2 DEF ProgramsBegin
    <3>8. argv[sub] = "test" => Unended(argv, sub + 1, p, "none")
      <4> SUFFICES ASSUME argv[sub] = "test",
                          NEW m \in (sub + 1)..p, NEW k \in (sub + 1)..p, NEW j \in (sub + 1)..p,
                          m < k, k < j, argv[m] \in NotFlags, argv[k] \notin NotFlags
                   PROVE  argv[j] \notin NotFlags
        BY DEF Unended
      <4>1. m \in (sub + 1)..(j - 1) /\ k \in (sub + 1)..(j - 1)
        BY <1>1
      <4> QED
        BY <3>2, <4>1 DEF ProgramsBegin
    <3>9. /\ argv[p] = GraphNext => p < n
          /\ f[sub + 1]["none"].graph = NamedAt(argv, p)
      <4>1. \A i \in (sub + 1)..p : \A list \in Lists :
              /\ argv[sub] = "test" => Unended(argv, i, p, list)
              /\ f[i][list].ok
              => /\ argv[p] = GraphNext => p < n
                 /\ f[i][list].graph = NamedAt(argv, p)
        BY <1>7, <2>1, <2>2, <2>3, <3>7, GraphIsRead
      <4> HIDE DEF n, sub, f
      <4> QED
        BY <1>2, <2>1, <3>8, <4>1, EndedByFlagType
    <3>3. p \in GraphHits(argv)
      BY <1>7, <2>3, <3>9 DEF GraphHits, GraphArgs, GraphFlag
    <3>4. \A j \in GraphHits(argv) : j = p
      BY <1>3, <1>5, <2>2
    <3>5. ExistingGraphPath(argv) = NamedAt(argv, p)
      BY <1>1, <2>1, <3>3, <3>4, PathFound
    <3> QED
      BY <1>2, <3>5, <3>9
  <2>4. ASSUME NEW last \in (sub + 1)..p, argv[last] \in {"-args", "--"}
        PROVE  ExistingGraphPath(argv) = GoReads(argv).graph
    <3>1. last # p
      BY <1>7, <2>4 DEF GraphFlag, UserGraph, GraphNext
    <3>2. last \in 1..n /\ sub + 1 \in 1..last /\ sub + 1 \in (sub + 1)..last
      BY <1>1
    <3>3. \A j \in (sub + 1)..last : argv[j] \notin GraphFlag
      <4>1. \A j \in (sub + 1)..last : j \in 1..n /\ j # p
        BY <1>1, <2>1, <3>1
      <4> QED
        BY <2>2, <4>1
    <3>4. f[sub + 1]["none"].graph = ""
      BY <2>4, <3>2, <3>3, NoGraphBefore, EndedByFlagType
    <3>5. p \notin GraphArgs(argv)
      BY <2>4 DEF GraphArgs
    <3>6. GraphHits(argv) \subseteq {p}
      BY <1>3, <1>5, <2>2
    <3>7. GraphHits(argv) = {}
      BY <3>5, <3>6 DEF GraphHits
    <3>8. GraphIsNotNamed(argv)
      BY <3>7, PathNotFound
    <3> QED
      BY <1>2, <3>4, <3>8, Zenon DEF GraphIsNotNamed
  <2> QED
    BY <2>3, <2>4
<1> QED
  BY <1>6, <1>7

\* With the flag injected the command reads as it did, and runs where it did; a
\* graph it does not name is longpole's.
LEMMA InjectedCommand ==
  ASSUME argv \in Seq(Arguments), Profiled, ~ChdirAfterSubcommand,
         GraphIsNotNamed(argv)
  PROVE  /\ GoReads(Inject(argv)) = WithGraph(GoReads(argv), "longpole")
         /\ Opens(Inject(argv))
<1> DEFINE n == Len(argv)
           sub == SubcommandIndex(argv)
           new == Inject(argv)
           f == FlagsFrom(argv)
           g == FlagsFrom(new)
<1>1. n \in Nat /\ sub \in 1..n /\ sub # 0 /\ Opens(argv) /\ argv[sub] \in Building
  BY TakenCommand
<1>2. GoReads(argv) = f[sub + 1]["none"] /\ f[sub + 1]["none"].ok
  BY TakenCommand
<1>3. /\ Len(new) = n + 1 /\ new[sub + 1] = OwnGraph
      /\ \A i \in 1..sub : new[i] = argv[i]
  BY <1>1, Injected
<1>4. SubcommandIndex(new) = sub
  BY <1>1, InjectKeepsParts
<1>5. OwnGraph \notin Flag
  BY DEF OwnGraph, Flag, Chdir, ChdirNext
<1>6. Opens(new)
  <2>1. 1 \in 1..sub
    BY <1>1
  <2>2. sub = 1 => new[2] \notin Flag
    BY <1>3, <1>5
  <2> QED
    BY <1>1, <1>3, <1>4, <2>1, <2>2 DEF Opens
<1>7. new[sub] \in Building
  <2>1. sub \in 1..sub
    BY <1>1
  <2> QED
    BY <1>1, <1>3, <2>1
<1>8. GoReads(new) = g[sub + 1]["none"]
  BY <1>4, <1>6, <1>7, GoReadsFlags
<1>9. g[sub + 1]["none"] = WithGraph(g[(sub + 1) + 1]["none"], "longpole")
  <2>1. sub + 1 \in 1..(Len(new) + 3) /\ sub + 1 <= Len(new) /\ Len(new) \in Nat
    BY <1>1, <1>3
  <2>2. "none" \in Lists /\ EndedByFlag("none") = "none"
    BY DEF Lists, EndedByFlag
  <2> HIDE DEF g, new, sub
  <2>3. g[sub + 1]["none"] = WithGraph(g[(sub + 1) + 1][EndedByFlag("none")], "longpole")
    BY <1>3, <2>1, <2>2, FlagTurn DEF g
  <2> QED
    BY <2>2, <2>3
<1>10. g[(sub + 1) + 1]["none"] = f[sub + 1]["none"]
  <2>1. sub + 1 \in (sub + 1)..(n + 3)
    BY <1>1
  <2>2. "none" \in Lists
    BY DEF Lists
  <2> QED
    BY <1>1, <2>1, <2>2, InjectKeepsFlags
<1> QED
  BY <1>2, <1>6, <1>8, <1>9, <1>10

\* Where a graph is named nothing is injected.
LEMMA NotInjected ==
  ASSUME NEW args, ~GraphIsNotNamed(args)
  PROVE  Inject(args) = args
BY Zenon DEF Inject, GraphIsNotNamed

\* The directory is the user's.
LEMMA SameDir ==
  ASSUME argv \in Seq(Arguments), Plainly
  PROVE  CommandDir(argv) = GoDir(Inject(argv))
<1> DEFINE n == Len(argv)
           sub == SubcommandIndex(argv)
           new == Inject(argv)
<1>1. n \in Nat /\ sub \in 1..n /\ sub # 0 /\ Opens(argv)
  BY TakenCommand DEF Plainly
<1>2. SubcommandIndex(new) = sub /\ Opens(new) /\ \A i \in 1..sub : new[i] = argv[i]
  <2>1. CASE GraphIsNotNamed(argv)
    BY <1>1, <2>1, Injected, InjectKeepsParts, InjectedCommand DEF Plainly
  <2>2. CASE ~GraphIsNotNamed(argv)
    <3>1. new = argv
      BY <2>2, NotInjected
    <3> QED
      BY <1>1, <3>1
  <2> QED
    BY <2>1, <2>2
<1> HIDE DEF new
<1>3. sub \in {1, 2, 3}
  BY <1>1 DEF Opens
<1>4. CASE sub = 1
  <2>1. new[1] = argv[1]
    BY <1>2, <1>4
  <2> QED
    BY <1>1, <1>2, <1>4, <2>1, GoDirIs, CommandDirIs DEF new
<1>5. CASE sub = 2
  <2>1. new[1] = argv[1]
    BY <1>2, <1>5
  <2> QED
    BY <1>1, <1>2, <1>5, <2>1, GoDirIs, CommandDirIs DEF new
<1>6. CASE sub = 3
  <2>1. new[2] = argv[2]
    BY <1>2, <1>6
  <2> QED
    BY <1>1, <1>2, <1>6, <2>1, GoDirIs, CommandDirIs DEF new
<1> QED
  BY <1>3, <1>4, <1>5, <1>6

\* The graph is where longpole looks for it.
LEMMA SameFile ==
  ASSUME argv \in Seq(Arguments), Plainly
  PROVE  GoReads(Inject(argv)).ok /\ GoWrites(Inject(argv)) = GraphPath(argv)
<1> DEFINE new == Inject(argv)
<1>1. CASE GraphIsNotNamed(argv)
  <2>1. GoReads(new).ok /\ GoReads(new).graph = "longpole"
    <3>1. GoReads(new) = WithGraph(GoReads(argv), "longpole")
      BY <1>1, InjectedCommand DEF Plainly
    <3>2. GoReads(argv).ok
      BY DEF Plainly, Profiled
    <3>3. GoReads(argv).graph = ""
      BY <1>1, SameGraph, Zenon DEF GraphIsNotNamed
    <3>4. /\ WithGraph(GoReads(argv), "longpole").ok
          /\ WithGraph(GoReads(argv), "longpole").graph = "longpole"
      BY <3>2, <3>3, Zenon DEF WithGraph
    <3> QED
      BY <3>1, <3>4
  <2>2. GraphPath(argv) = <<"longpole">>
    BY <1>1, Zenon DEF GraphPath, GraphIsNotNamed
  <2>3. "longpole" # "" /\ "longpole" \in Absolute
    BY DEF Absolute
  <2>4. \A dir : Join(dir, "longpole") = <<"longpole">>
    BY <2>3, Zenon DEF Join
  <2>5. GoWrites(new) = <<"longpole">>
    BY <2>1, <2>3, <2>4, Zenon DEF GoWrites
  <2> QED
    BY <2>1, <2>2, <2>5
<1>2. CASE ~GraphIsNotNamed(argv)
  <2>1. new = argv
    BY <1>2, NotInjected
  <2>2. GoReads(argv).ok
    BY DEF Plainly, Profiled
  <2>3. GoReads(argv).graph = ExistingGraphPath(argv)
    BY SameGraph
  <2>4. CommandDir(argv) = GoDir(argv)
    BY <2>1, SameDir
  <2>5. GraphPath(argv) = Join(CommandDir(argv), ExistingGraphPath(argv))
    BY <1>2, Zenon DEF GraphPath, GraphIsNotNamed
  <2>6. GoWrites(argv) = Join(GoDir(argv), GoReads(argv).graph)
    BY <1>2, <2>3, Zenon DEF GoWrites, GraphIsNotNamed
  <2> QED
    BY <2>1, <2>2, <2>3, <2>4, <2>5, <2>6
<1> QED
  BY <1>1, <1>2

-----------------------------------------------------------------------------
\* A command line is a sequence of arguments either reader knows, of any length.
LEMMA CommandLineType == ArgvSpec => [](argv \in Seq(Arguments))
<1>1. ArgvInit => argv \in Seq(Arguments)
  BY DEF ArgvInit
<1>2. argv \in Seq(Arguments) /\ [Type]_argv => (argv \in Seq(Arguments))'
  BY ArgvAssumption DEF Type
<1> QED
  BY <1>1, <1>2, PTL DEF ArgvSpec

\* A graph the user asked for is the graph longpole reads, and none of the
\* program's arguments is taken for one (ExistingGraphPath).
THEOREM UsersGraphIsRead == ArgvSpec => []HonorsUsersGraph
<1>1. argv \in Seq(Arguments) => HonorsUsersGraph
  BY SameGraph DEF HonorsUsersGraph
<1> QED
  BY <1>1, CommandLineType, PTL

\* The directory longpole finds in the arguments is the one the go command it
\* starts runs in (CommandDir, Inject).
THEOREM ScopeIsTheBuilds == ArgvSpec => []ScopeIsWhereGoRuns
<1>1. argv \in Seq(Arguments) => ScopeIsWhereGoRuns
  BY SameDir DEF ScopeIsWhereGoRuns
<1> QED
  BY <1>1, CommandLineType, PTL

\* The command that is started is one the go command takes, and writes its graph
\* to the file longpole reads afterwards (Inject, ResolvePath).
THEOREM GraphIsWhereItIsRead == ArgvSpec => []GraphIsWritten
<1>1. argv \in Seq(Arguments) => GraphIsWritten
  BY SameFile DEF GraphIsWritten
<1> QED
  BY <1>1, CommandLineType, PTL

\* The one thing that makes Inject the reason a command is refused is a
\* change-directory flag behind the subcommand: without it what longpole starts
\* is taken whenever what the user typed is, graphs named twice and arguments
\* that are the program's included.
THEOREM OnlyChdirIsRejected == ArgvSpec => [](~ChdirAfterSubcommand => NeverRejected)
<1>1. argv \in Seq(Arguments) => (~ChdirAfterSubcommand => NeverRejected)
  <2> SUFFICES ASSUME argv \in Seq(Arguments), Profiled, ~ChdirAfterSubcommand
               PROVE  GoReads(Inject(argv)).ok
    BY DEF NeverRejected
  <2>1. GoReads(argv).ok
    BY DEF Profiled
  <2>2. CASE GraphIsNotNamed(argv)
    <3>1. GoReads(Inject(argv)) = WithGraph(GoReads(argv), "longpole")
      BY <2>2, InjectedCommand
    <3>2. WithGraph(GoReads(argv), "longpole").ok
      BY <2>1, Zenon DEF WithGraph
    <3> QED
      BY <3>1, <3>2
  <2>3. CASE ~GraphIsNotNamed(argv)
    BY <2>1, <2>3, NotInjected
  <2> QED
    BY <2>2, <2>3
<1> QED
  BY <1>1, CommandLineType, PTL
=============================================================================
