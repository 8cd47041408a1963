--------------------------- MODULE BuildLogProofs ---------------------------
(***************************************************************************)
(* Proofs about the stderr of a build and the blocks collected from it     *)
(* (BuildLog), and about the roots found in these (BuildCause).  The       *)
(* invariant follows the lines that are in the pipe and in the tee's       *)
(* buffer: what has come out and what is collected are functions of how    *)
(* many lines of each writer have gone through, and what is still there    *)
(* leads from these counts to what was printed.                            *)
(***************************************************************************)
EXTENDS BuildCause, NaturalFacts, SequenceTheorems, FiniteSetTheorems

\* The tee's loop, piece by piece.
LEMMA CutIs ==
  ASSUME NEW s, Len(s) \in Nat
  PROVE  /\ Cut(s)[0] = [lines |-> <<>>, rest |-> <<>>]
         /\ \A k \in 1..Len(s) : Cut(s)[k] = 
                IF LineEnds(s, k)
                THEN [lines |-> Append(Cut(s)[k - 1].lines, Append(Cut(s)[k - 1].rest, s[k])), rest |-> <<>>]
                ELSE [lines |-> Cut(s)[k - 1].lines, rest |-> Append(Cut(s)[k - 1].rest, s[k])]
<1> DEFINE B == [lines |-> <<>>, rest |-> <<>>]
           Step(t, k) == 
                IF LineEnds(s, k)
                THEN [lines |-> Append(t.lines, Append(t.rest, s[k])), rest |-> <<>>]
                ELSE [lines |-> t.lines, rest |-> Append(t.rest, s[k])]
           Is(g, m) == g = [k \in 0..m |-> IF k = 0 THEN B ELSE Step(g[k - 1], k)]
<1>1. Cut(s) = CHOOSE g : Is(g, Len(s))
  BY DEF Cut
<1> HIDE DEF Step, B
<1>2. \A m \in Nat : \A g : Is(g, m) => g[0] = B /\ \A k \in 1..m : g[k] = Step(g[k - 1], k)
  OBVIOUS
<1>3. ASSUME NEW m \in Nat, NEW g, Is(g, m)
      PROVE  \E e : Is(e, m + 1)
  <2> DEFINE e == [k \in 0..(m + 1) |-> IF k = m + 1 THEN Step(g[m], k) ELSE g[k]]
  <2>1. \A k \in 0..m : e[k] = g[k]
    OBVIOUS
  <2>2. \A k \in 0..(m + 1) :
          (IF k = m + 1 THEN Step(g[m], k) ELSE g[k]) =
          (IF k = 0 THEN B ELSE Step(e[k - 1], k))
    <3> SUFFICES ASSUME NEW k \in 0..(m + 1)
                 PROVE  (IF k = m + 1 THEN Step(g[m], k) ELSE g[k]) =
                        (IF k = 0 THEN B ELSE Step(e[k - 1], k))
      OBVIOUS
    <3>1. CASE k = 0
      BY <1>2, <1>3, <3>1
    <3>2. CASE k = m + 1
      BY <2>1, <3>2
    <3>3. CASE k \in 1..m
      BY <1>2, <1>3, <2>1, <3>3
    <3> QED
      BY <3>1, <3>2, <3>3
  <2>3. Is(e, m + 1)
    BY <2>2
  <2> QED
    BY <2>3
<1>4. \A m \in Nat : \E g : Is(g, m)
  <2> DEFINE T == {m \in Nat : \E g : Is(g, m)}
  <2>1. Is([k \in 0..0 |-> B], 0)
    OBVIOUS
  <2> HIDE DEF Is
  <2>2. 0 \in T
    BY <2>1
  <2>3. \A m \in T : m + 1 \in T
    <3> TAKE m \in T
    <3>1. PICK g : Is(g, m)
      OBVIOUS
    <3> QED
      BY <1>3, <3>1
  <2> HIDE DEF T
  <2>4. T = Nat
    <3>1. T \subseteq Nat
      BY DEF T
    <3> QED
      BY <2>2, <2>3, <3>1, Induction
  <2> QED
    BY <2>4 DEF T
<1>5. Len(s) \in Nat
  OBVIOUS
<1>6. Is(Cut(s), Len(s))
  <2> HIDE DEF Is
  <2> QED
    BY <1>1, <1>4, <1>5
<1>7. Cut(s)[0] = B /\ \A k \in 1..Len(s) : Cut(s)[k] = Step(Cut(s)[k - 1], k)
  BY <1>2, <1>5, <1>6
<1> QED
  BY <1>7 DEF Step, B

\* The lines of a chunk, one by one.
LEMMA AfterIs ==
  ASSUME NEW ls, Len(ls) \in Nat
  PROVE  /\ After(ls)[0] = [out |-> out, blocks |-> blocks, ambiguous |-> ambiguous]
         /\ \A k \in 1..Len(ls) : After(ls)[k] = Handle(After(ls)[k - 1], ls[k])
<1> DEFINE B == [out |-> out, blocks |-> blocks, ambiguous |-> ambiguous]
           Step(t, k) == Handle(t, ls[k])
           Is(g, m) == g = [k \in 0..m |-> IF k = 0 THEN B ELSE Step(g[k - 1], k)]
<1>1. After(ls) = CHOOSE g : Is(g, Len(ls))
  BY DEF After
<1> HIDE DEF Step, B
<1>2. \A m \in Nat : \A g : Is(g, m) => g[0] = B /\ \A k \in 1..m : g[k] = Step(g[k - 1], k)
  OBVIOUS
<1>3. ASSUME NEW m \in Nat, NEW g, Is(g, m)
      PROVE  \E e : Is(e, m + 1)
  <2> DEFINE e == [k \in 0..(m + 1) |-> IF k = m + 1 THEN Step(g[m], k) ELSE g[k]]
  <2>1. \A k \in 0..m : e[k] = g[k]
    OBVIOUS
  <2>2. \A k \in 0..(m + 1) :
          (IF k = m + 1 THEN Step(g[m], k) ELSE g[k]) =
          (IF k = 0 THEN B ELSE Step(e[k - 1], k))
    <3> SUFFICES ASSUME NEW k \in 0..(m + 1)
                 PROVE  (IF k = m + 1 THEN Step(g[m], k) ELSE g[k]) =
                        (IF k = 0 THEN B ELSE Step(e[k - 1], k))
      OBVIOUS
    <3>1. CASE k = 0
      BY <1>2, <1>3, <3>1
    <3>2. CASE k = m + 1
      BY <2>1, <3>2
    <3>3. CASE k \in 1..m
      BY <1>2, <1>3, <2>1, <3>3
    <3> QED
      BY <3>1, <3>2, <3>3
  <2>3. Is(e, m + 1)
    BY <2>2
  <2> QED
    BY <2>3
<1>4. \A m \in Nat : \E g : Is(g, m)
  <2> DEFINE T == {m \in Nat : \E g : Is(g, m)}
  <2>1. Is([k \in 0..0 |-> B], 0)
    OBVIOUS
  <2> HIDE DEF Is
  <2>2. 0 \in T
    BY <2>1
  <2>3. \A m \in T : m + 1 \in T
    <3> TAKE m \in T
    <3>1. PICK g : Is(g, m)
      OBVIOUS
    <3> QED
      BY <1>3, <3>1
  <2> HIDE DEF T
  <2>4. T = Nat
    <3>1. T \subseteq Nat
      BY DEF T
    <3> QED
      BY <2>2, <2>3, <3>1, Induction
  <2> QED
    BY <2>4 DEF T
<1>5. Len(ls) \in Nat
  OBVIOUS
<1>6. Is(After(ls), Len(ls))
  <2> HIDE DEF Is
  <2> QED
    BY <1>1, <1>4, <1>5
<1>7. After(ls)[0] = B /\ \A k \in 1..Len(ls) : After(ls)[k] = Step(After(ls)[k - 1], k)
  BY <1>2, <1>5, <1>6
<1> QED
  BY <1>7 DEF Step, B

\* The inputs of a hash, one by one.
LEMMA KeptIs ==
  ASSUME NEW h
  PROVE  /\ KeptOf(h)[0] = <<>>
         /\ \A k \in 1..(MaxInputs + 1) : KeptOf(h)[k] = 
                IF k \in Retained THEN Append(KeptOf(h)[k - 1], [of |-> h, input |-> k]) ELSE KeptOf(h)[k - 1]
<1> DEFINE B == <<>>
           Step(t, k) == 
                IF k \in Retained THEN Append(t, [of |-> h, input |-> k]) ELSE t
           Is(g, m) == g = [k \in 0..m |-> IF k = 0 THEN B ELSE Step(g[k - 1], k)]
<1>1. KeptOf(h) = CHOOSE g : Is(g, MaxInputs + 1)
  BY DEF KeptOf
<1> HIDE DEF Step, B
<1>2. \A m \in Nat : \A g : Is(g, m) => g[0] = B /\ \A k \in 1..m : g[k] = Step(g[k - 1], k)
  OBVIOUS
<1>3. ASSUME NEW m \in Nat, NEW g, Is(g, m)
      PROVE  \E e : Is(e, m + 1)
  <2> DEFINE e == [k \in 0..(m + 1) |-> IF k = m + 1 THEN Step(g[m], k) ELSE g[k]]
  <2>1. \A k \in 0..m : e[k] = g[k]
    OBVIOUS
  <2>2. \A k \in 0..(m + 1) :
          (IF k = m + 1 THEN Step(g[m], k) ELSE g[k]) =
          (IF k = 0 THEN B ELSE Step(e[k - 1], k))
    <3> SUFFICES ASSUME NEW k \in 0..(m + 1)
                 PROVE  (IF k = m + 1 THEN Step(g[m], k) ELSE g[k]) =
                        (IF k = 0 THEN B ELSE Step(e[k - 1], k))
      OBVIOUS
    <3>1. CASE k = 0
      BY <1>2, <1>3, <3>1
    <3>2. CASE k = m + 1
      BY <2>1, <3>2
    <3>3. CASE k \in 1..m
      BY <1>2, <1>3, <2>1, <3>3
    <3> QED
      BY <3>1, <3>2, <3>3
  <2>3. Is(e, m + 1)
    BY <2>2
  <2> QED
    BY <2>3
<1>4. \A m \in Nat : \E g : Is(g, m)
  <2> DEFINE T == {m \in Nat : \E g : Is(g, m)}
  <2>1. Is([k \in 0..0 |-> B], 0)
    OBVIOUS
  <2> HIDE DEF Is
  <2>2. 0 \in T
    BY <2>1
  <2>3. \A m \in T : m + 1 \in T
    <3> TAKE m \in T
    <3>1. PICK g : Is(g, m)
      OBVIOUS
    <3> QED
      BY <1>3, <3>1
  <2> HIDE DEF T
  <2>4. T = Nat
    <3>1. T \subseteq Nat
      BY DEF T
    <3> QED
      BY <2>2, <2>3, <3>1, Induction
  <2> QED
    BY <2>4 DEF T
<1>5. MaxInputs + 1 \in Nat
  BY LogAssumption DEF LogAssumption
<1>6. Is(KeptOf(h), MaxInputs + 1)
  <2> HIDE DEF Is
  <2> QED
    BY <1>1, <1>4, <1>5
<1>7. KeptOf(h)[0] = B /\ \A k \in 1..(MaxInputs + 1) : KeptOf(h)[k] = Step(KeptOf(h)[k - 1], k)
  BY <1>2, <1>5, <1>6
<1> QED
  BY <1>7 DEF Step, B

\* A line of two pieces.
LEMMA Pairing ==
  ASSUME NEW X, NEW x \in X, NEW y \in X
  PROVE  Append(<<x>>, y) = <<x, y>>
<1>1. <<x>> \in Seq(X) /\ <<x, y>> \in Seq(X) /\ Append(<<x>>, y) \in Seq(X)
  OBVIOUS
<1>2. Len(Append(<<x>>, y)) = 2 /\ Len(<<x, y>>) = 2
  OBVIOUS
<1>3. Append(<<x>>, y)[1] = x /\ Append(<<x>>, y)[2] = y
  OBVIOUS
<1>4. \A i \in 1..2 : Append(<<x>>, y)[i] = <<x, y>>[i]
  BY <1>3
<1> QED
  BY <1>1, <1>2, <1>4, SeqEqual

\* A chunk of m whole lines, and perhaps the first piece of another, is cut into
\* these lines and that piece.
LEMMA Cutting ==
  ASSUME NEW X, NEW s \in Seq(X), NEW m \in Nat,
         \A i \in 1..m : ~s[2 * i - 1].ends /\ s[2 * i].ends,
         \/ Len(s) = 2 * m
         \/ Len(s) = 2 * m + 1 /\ ~s[2 * m + 1].ends
  PROVE  /\ LinesOf(s) = [i \in 1..m |-> <<s[2 * i - 1], s[2 * i]>>]
         /\ Rest(s) = IF Len(s) = 2 * m THEN <<>> ELSE <<s[2 * m + 1]>>
<1> DEFINE C == Cut(s)
           L(j) == [i \in 1..j |-> <<s[2 * i - 1], s[2 * i]>>]
           Step(t, k) == IF LineEnds(s, k)
                         THEN [lines |-> Append(t.lines, Append(t.rest, s[k])), rest |-> <<>>]
                         ELSE [lines |-> t.lines, rest |-> Append(t.rest, s[k])]
           T == {j \in 0..m : C[2 * j] = [lines |-> L(j), rest |-> <<>>]}
<1>1. C[0] = [lines |-> <<>>, rest |-> <<>>] /\ \A k \in 1..Len(s) : C[k] = Step(C[k - 1], k)
  <2>1. Len(s) \in Nat
    OBVIOUS
  <2> QED
    BY <2>1, CutIs
<1>2. \A j \in 0..m : L(j) \in Seq(Seq(X)) /\ Len(L(j)) = j
  <2> SUFFICES ASSUME NEW j \in 0..m PROVE L(j) \in Seq(Seq(X)) /\ Len(L(j)) = j
    OBVIOUS
  <2>1. \A i \in 1..j : 2 * i - 1 \in 1..Len(s) /\ 2 * i \in 1..Len(s)
    OBVIOUS
  <2>2. \A i \in 1..j : <<s[2 * i - 1], s[2 * i]>> \in Seq(X)
    BY <2>1
  <2> QED
    BY <2>2
<1>3. 0 \in T
  <2>1. L(0) = <<>>
    OBVIOUS
  <2> QED
    BY <1>1, <2>1
<1>4. ASSUME NEW j \in (0 + 1)..m, j - 1 \in T PROVE j \in T
  <2> DEFINE a == 2 * j - 1
             b == 2 * j
  <2>1. /\ a \in 1..Len(s) /\ b \in 1..Len(s) /\ a - 1 = 2 * (j - 1) /\ b - 1 = a
        /\ j \in 1..m /\ j - 1 \in 0..m /\ j \in 0..m
    OBVIOUS
  <2>2. C[a - 1] = [lines |-> L(j - 1), rest |-> <<>>]
    BY <1>4, <2>1
  <2>3. ~s[a].ends /\ s[b].ends
    BY <2>1
  <2>4. L(j) = Append(L(j - 1), <<s[a], s[b]>>)
    <3>1. L(j - 1) \in Seq(Seq(X)) /\ Len(L(j - 1)) = j - 1 /\ j \in Nat /\ j >= 1
      BY <1>2, <2>1
    <3>2. <<s[a], s[b]>> \in Seq(X)
      BY <2>1
    <3>3. Len(Append(L(j - 1), <<s[a], s[b]>>)) = j
      BY <3>1, <3>2
    <3>4. \A i \in 1..j : L(j)[i] = Append(L(j - 1), <<s[a], s[b]>>)[i]
      <4> DEFINE v == L(j - 1)
                 e == <<s[a], s[b]>>
      <4>1. /\ \A i \in 1..(j - 1) : L(j)[i] = v[i] /\ i \in 1..j
            /\ L(j)[j] = e
        BY <3>1
      <4> HIDE DEF v, e, L
      <4>2. Append(v, e)[j] = e /\ \A i \in 1..(j - 1) : Append(v, e)[i] = v[i]
        <5>1. v \in Seq(Seq(X)) /\ e \in Seq(X) /\ Len(v) = j - 1 /\ Len(v) + 1 = j
          BY <3>1, <3>2 DEF v, e
        <5>2. /\ Append(v, e)[Len(v) + 1] = e
              /\ \A i \in 1..Len(v) : Append(v, e)[i] = v[i]
          BY <5>1, AppendProperties
        <5> QED
          BY <5>1, <5>2
      <4>3. \A i \in 1..j : i = j \/ i \in 1..(j - 1)
        BY <3>1
      <4>4. \A i \in 1..j : L(j)[i] = Append(v, e)[i]
        BY <4>1, <4>2, <4>3
      <4> QED
        BY <4>4 DEF v, e
    <3>5. L(j) \in Seq(Seq(X)) /\ Len(L(j)) = j
      BY <1>2, <2>1
    <3>6. Append(L(j - 1), <<s[a], s[b]>>) \in Seq(Seq(X))
      BY <3>1, <3>2
    <3> HIDE DEF L, a, b
    <3> QED
      BY <3>3, <3>4, <3>5, <3>6, SeqEqual
  <2> HIDE DEF C, L, a, b
  <2>5. C[a] = [lines |-> L(j - 1), rest |-> <<s[a]>>]
    <3>1. C[a] = Step(C[a - 1], a)
      BY <1>1, <2>1
    <3> QED
      BY <2>2, <2>3, <3>1 DEF LineEnds
  <2>6. C[b] = [lines |-> Append(L(j - 1), <<s[a], s[b]>>), rest |-> <<>>]
    <3>1. C[b] = Step(C[a], b)
      BY <1>1, <2>1
    <3>2. Append(<<s[a]>>, s[b]) = <<s[a], s[b]>>
      <4>1. s[a] \in X /\ s[b] \in X
        BY <2>1
      <4> QED
        BY <4>1, Pairing
    <3>3. C[b] = [lines |-> Append(L(j - 1), Append(<<s[a]>>, s[b])), rest |-> <<>>]
      BY <2>3, <2>5, <3>1 DEF LineEnds
    <3> QED
      BY <3>2, <3>3
  <2>7. C[2 * j] = [lines |-> L(j), rest |-> <<>>]
    BY <2>4, <2>6 DEF b
  <2> QED
    BY <2>1, <2>7
<1>5. C[2 * m] = [lines |-> L(m), rest |-> <<>>]
  <2> HIDE DEF T
  <2>1. 0..m \subseteq T
    BY <1>3, <1>4, InductionUpTo
  <2>2. m \in T
    BY <2>1
  <2> QED
    BY <2>2 DEF T
<1>6. CASE Len(s) = 2 * m
  <2>1. Cut(s)[Len(s)] = [lines |-> L(m), rest |-> <<>>]
    BY <1>5, <1>6
  <2> QED
    BY <1>6, <2>1 DEF LinesOf, Rest
<1>7. CASE Len(s) = 2 * m + 1 /\ ~s[2 * m + 1].ends
  <2> DEFINE k == 2 * m + 1
  <2>1. k \in 1..Len(s) /\ k - 1 = 2 * m /\ Len(s) = k /\ Len(s) # 2 * m
    BY <1>7
  <2>2. C[k] = Step(C[k - 1], k)
    BY <1>1, <2>1
  <2> HIDE DEF C, L
  <2>3. C[k] = [lines |-> L(m), rest |-> Append(<<>>, s[k])]
    BY <1>5, <1>7, <2>1, <2>2 DEF LineEnds
  <2>4. Append(<<>>, s[k]) = <<s[k]>>
    OBVIOUS
  <2>5. Cut(s)[Len(s)] = [lines |-> L(m), rest |-> <<s[2 * m + 1]>>]
    BY <2>1, <2>3, <2>4 DEF C
  <2> QED
    BY <2>1, <2>5 DEF LinesOf, Rest, L
<1>8. Len(s) = 2 * m \/ (Len(s) = 2 * m + 1 /\ ~s[2 * m + 1].ends)
  OBVIOUS
<1> HIDE DEF L, T, C
<1> QED
  BY <1>6, <1>7, <1>8 DEF L

\* What the collector keeps of a hash are its retained inputs, all of them.
LEMMA Kept ==
  ASSUME NEW h \in Hashes, NEW n \in 0..(MaxInputs + 1)
  PROVE  /\ KeptOf(h)[n] \in Seq(Inputs)
         /\ \A j \in DOMAIN KeptOf(h)[n] :
              \E i \in Retained : KeptOf(h)[n][j] = [of |-> h, input |-> i]
         /\ \A i \in Retained : i <= n =>
              \E j \in DOMAIN KeptOf(h)[n] : KeptOf(h)[n][j] = [of |-> h, input |-> i]
<1> DEFINE K == KeptOf(h)
           In(i) == [of |-> h, input |-> i]
           Holds(k) == /\ K[k] \in Seq(Inputs)
                       /\ \A j \in DOMAIN K[k] : \E i \in Retained : K[k][j] = In(i)
                       /\ \A i \in Retained : i <= k => \E j \in DOMAIN K[k] : K[k][j] = In(i)
           T == {k \in 0..(MaxInputs + 1) : Holds(k)}
<1>1. MaxInputs \in Nat /\ Retained \subseteq 1..MaxInputs
  BY LogAssumption DEF LogAssumption
<1>2. /\ K[0] = <<>>
      /\ \A k \in 1..(MaxInputs + 1) :
           K[k] = IF k \in Retained THEN Append(K[k - 1], In(k)) ELSE K[k - 1]
  BY KeptIs
<1>3. \A i \in Retained : In(i) \in Inputs
  BY <1>1 DEF Inputs
<1> HIDE DEF K, In
<1>4. 0 \in T
  <2>1. K[0] \in Seq(Inputs) /\ DOMAIN K[0] = {}
    BY <1>2
  <2>2. \A i \in Retained : ~ (i <= 0)
    BY <1>1
  <2>3. 0 \in 0..(MaxInputs + 1)
    BY <1>1
  <2> QED
    BY <2>1, <2>2, <2>3
<1>5. ASSUME NEW k \in (0 + 1)..(MaxInputs + 1), k - 1 \in T PROVE k \in T
  <2>1. k \in 1..(MaxInputs + 1) /\ k \in 0..(MaxInputs + 1) /\ Holds(k - 1) /\ k \in Nat
    BY <1>1, <1>5
  <2>2. \A i \in Retained : i <= k => i = k \/ i <= k - 1
    BY <1>1, <2>1
  <2>3. CASE k \notin Retained
    <3>1. K[k] = K[k - 1]
      BY <1>2, <2>1, <2>3
    <3>2. \A i \in Retained : i <= k => i <= k - 1
      BY <2>2, <2>3
    <3> QED
      BY <2>1, <3>1, <3>2
  <2>4. CASE k \in Retained
    <3> DEFINE u == K[k - 1]
               v == K[k]
               l == Len(u)
    <3>1. v = Append(u, In(k)) /\ u \in Seq(Inputs) /\ In(k) \in Inputs
      BY <1>2, <1>3, <2>1, <2>4
    <3> HIDE DEF u, v
    <3>2. v \in Seq(Inputs) /\ l \in Nat /\ Len(v) = l + 1
      BY <3>1
    <3>3. DOMAIN v = 1..(l + 1) /\ DOMAIN u = 1..l
      BY <3>1, <3>2
    <3>4. v[l + 1] = In(k) /\ \A j \in 1..l : v[j] = u[j]
      BY <3>1, <3>2
    <3>5. /\ \A j \in DOMAIN u : \E i \in Retained : u[j] = In(i)
          /\ \A i \in Retained : i <= k - 1 => \E j \in DOMAIN u : u[j] = In(i)
      BY <2>1 DEF u
    <3>6. \A j \in DOMAIN v : j = l + 1 \/ j \in DOMAIN u
      BY <3>2, <3>3
    <3>7. l + 1 \in DOMAIN v /\ DOMAIN u \subseteq DOMAIN v
      BY <3>2, <3>3
    <3> HIDE DEF l
    <3>8. \A j \in DOMAIN v : \E i \in Retained : v[j] = In(i)
      BY <2>4, <3>3, <3>4, <3>5, <3>6
    <3>9. \A i \in Retained : i <= k => \E j \in DOMAIN v : v[j] = In(i)
      BY <2>2, <3>3, <3>4, <3>5, <3>7
    <3> QED
      BY <2>1, <3>2, <3>8, <3>9 DEF v
  <2> QED
    BY <2>3, <2>4
<1>6. n \in T
  <2> HIDE DEF T
  <2>1. 0..(MaxInputs + 1) \subseteq T
    BY <1>1, <1>4, <1>5, InductionUpTo
  <2> QED
    BY <2>1
<1> QED
  BY <1>6 DEF K, In

\* The digest is no input.
LEMMA KeptEnd ==
  ASSUME NEW h
  PROVE  KeptOf(h)[MaxInputs + 1] = KeptOf(h)[MaxInputs]
<1> DEFINE l == MaxInputs + 1
<1>1. l \notin Retained /\ l \in 1..(MaxInputs + 1) /\ l - 1 = MaxInputs
  BY LogAssumption DEF LogAssumption
<1> HIDE DEF l
<1>2. KeptOf(h)[l] = KeptOf(h)[l - 1]
  BY <1>1, KeptIs
<1>3. KeptOf(h)[l] = KeptOf(h)[MaxInputs]
  BY <1>1, <1>2
<1> QED
  BY <1>3 DEF l
-----------------------------------------------------------------------------
\* The pieces and what the tee and the collector make of them.
PieceSet == [line : Lines, ends : BOOLEAN]

\* The messages are sequences of pieces, two of each.
LEMMA SaidIs ==
  ASSUME NEW k \in Nat
  PROVE  /\ Said(k) \in Seq(PieceSet) /\ Len(Said(k)) = k
         /\ \A i \in 1..k :
              Said(k)[i] = Piece([of |-> Message, at |-> (i + 1) \div 2], i % 2 = 0)
<1>1. \A i \in 1..k : (i + 1) \div 2 \in Nat
  OBVIOUS
<1> DEFINE P(i) == Piece([of |-> Message, at |-> (i + 1) \div 2], i % 2 = 0)
<1>2. ASSUME NEW i \in 1..k PROVE P(i) \in PieceSet
  <2> DEFINE n == (i + 1) \div 2
             b == (i % 2 = 0)
  <2>1. n \in Nat
    BY <1>1
  <2>2. b \in BOOLEAN
    OBVIOUS
  <2> HIDE DEF n, b
  <2>3. [of |-> Message, at |-> n] \in Lines
    BY <2>1 DEF Lines
  <2>4. Piece([of |-> Message, at |-> n], b) \in PieceSet
    BY <2>2, <2>3, Zenon DEF Piece, PieceSet
  <2> QED
    BY <2>4 DEF n, b
<1>3. Said(k) = [i \in 1..k |-> P(i)]
  BY DEF Said
<1> HIDE DEF P
<1>4. Said(k) \in Seq(PieceSet) /\ Len(Said(k)) = k /\ \A i \in 1..k : Said(k)[i] = P(i)
  BY <1>2, <1>3
<1> QED
  BY <1>4 DEF P

MessageLine(n) == [of |-> Message, at |-> n]

\* One more of them, whole or without its end.
LEMMA SaidNext ==
  ASSUME NEW n \in Nat
  PROVE  /\ Said(2 * n) \o Pieces(MessageLine(n + 1)) = Said(2 * (n + 1))
         /\ Said(2 * n) \o <<Piece(MessageLine(n + 1), FALSE)>> = Said(2 * n + 1)
<1> DEFINE l == 2 * n
           x == Piece(MessageLine(n + 1), FALSE)
           y == Piece(MessageLine(n + 1), TRUE)
<1>1. l \in Nat /\ l + 1 \in Nat /\ l + 2 \in Nat /\ 2 * (n + 1) = l + 2
  OBVIOUS
<1>2. /\ (l + 1 + 1) \div 2 = n + 1 /\ (l + 2 + 1) \div 2 = n + 1
      /\ (l + 1) % 2 = 1 /\ (l + 2) % 2 = 0
  OBVIOUS
<1>3. \A k \in {l, l + 1, l + 2} :
        /\ Said(k) \in Seq(PieceSet) /\ Len(Said(k)) = k
        /\ \A i \in 1..k :
             Said(k)[i] = Piece([of |-> Message, at |-> (i + 1) \div 2], i % 2 = 0)
  BY <1>1, SaidIs
<1>4. x \in PieceSet /\ y \in PieceSet
  <2>1. MessageLine(n + 1) \in Lines
    BY DEF Lines, MessageLine
  <2> QED
    BY <2>1, Zenon DEF Piece, PieceSet
<1>5. /\ \A i \in 1..l : Said(l)[i] = Said(l + 1)[i] /\ Said(l)[i] = Said(l + 2)[i]
      /\ Said(l + 1)[l + 1] = x /\ Said(l + 2)[l + 1] = x /\ Said(l + 2)[l + 2] = y
  <2> DEFINE P(i) == Piece([of |-> Message, at |-> (i + 1) \div 2], i % 2 = 0)
  <2>1. \A i \in 1..l : i \in 1..(l + 1) /\ i \in 1..(l + 2)
    BY <1>1
  <2>2. l + 1 \in 1..(l + 1) /\ l + 1 \in 1..(l + 2) /\ l + 2 \in 1..(l + 2)
    BY <1>1
  <2>3. P(l + 1) = x /\ P(l + 2) = y
    <3>1. ((l + 1) % 2 = 0) = FALSE /\ ((l + 2) % 2 = 0) = TRUE
      BY <1>2
    <3> HIDE DEF l
    <3> QED
      BY <1>2, <3>1, Zenon DEF MessageLine
  <2> HIDE DEF P, l, x, y
  <2>4. \A k \in {l, l + 1, l + 2} : \A i \in 1..k : Said(k)[i] = P(i)
    BY <1>3 DEF P
  <2> QED
    BY <2>1, <2>2, <2>3, <2>4
<1> HIDE DEF l, x, y
<1>6. Said(l) \o <<x>> = Said(l + 1)
  <2>1. /\ Said(l) \o <<x>> \in Seq(PieceSet) /\ Len(Said(l) \o <<x>>) = l + 1
        /\ \A i \in 1..l : (Said(l) \o <<x>>)[i] = Said(l)[i]
        /\ (Said(l) \o <<x>>)[l + 1] = x
    <3>1. Said(l) \in Seq(PieceSet) /\ Len(Said(l)) = l /\ <<x>> \in Seq(PieceSet)
      BY <1>3, <1>4
    <3>2. Len(<<x>>) = 1 /\ <<x>>[1] = x
      OBVIOUS
    <3> QED
      BY <1>1, <3>1, <3>2
  <2>2. \A i \in 1..(l + 1) : i \in 1..l \/ i = l + 1
    BY <1>1
  <2>3. \A i \in 1..(l + 1) : (Said(l) \o <<x>>)[i] = Said(l + 1)[i]
    BY <1>5, <2>1, <2>2
  <2> QED
    BY <1>3, <2>1, <2>3, SeqEqual
<1>7. Said(l) \o <<x, y>> = Said(l + 2)
  <2>1. /\ Said(l) \o <<x, y>> \in Seq(PieceSet) /\ Len(Said(l) \o <<x, y>>) = l + 2
        /\ \A i \in 1..l : (Said(l) \o <<x, y>>)[i] = Said(l)[i]
        /\ (Said(l) \o <<x, y>>)[l + 1] = x /\ (Said(l) \o <<x, y>>)[l + 2] = y
    BY <1>1, <1>3, <1>4
  <2>2. \A i \in 1..(l + 2) : i \in 1..l \/ i = l + 1 \/ i = l + 2
    BY <1>1
  <2>3. \A i \in 1..(l + 2) : (Said(l) \o <<x, y>>)[i] = Said(l + 2)[i]
    BY <1>5, <2>1, <2>2
  <2> QED
    BY <1>3, <2>1, <2>3, SeqEqual
<1> QED
  BY <1>1, <1>6, <1>7 DEF l, x, y, Pieces
-----------------------------------------------------------------------------
\* What the collector makes of the lines of a hash.
LEMMA BlockNext ==
  ASSUME NEW h, NEW k \in 1..(MaxInputs + 1)
  PROVE  /\ BlockAfter(h, 1) = NoBlock
         /\ BlockAfter(h, k + 1) =
              IF k + 1 = DigestLine THEN [BlockAfter(h, k) EXCEPT !.digest = {h}]
              ELSE IF Keeps(k)
              THEN [BlockAfter(h, k) EXCEPT !.inputs = Append(@, [of |-> h, input |-> k])]
              ELSE BlockAfter(h, k)
<1> DEFINE K == KeptOf(h)
           D == DigestLine
<1>1. /\ MaxInputs \in Nat /\ D = MaxInputs + 2 /\ 1 # D /\ k # D /\ 1 - 1 = 0 /\ k \in Nat
      /\ k + 1 - 1 = k /\ (k + 1 = D <=> k = MaxInputs + 1)
  BY LogAssumption DEF LogAssumption, DigestLine
<1>2. /\ K[0] = <<>>
      /\ K[k] = IF k \in Retained THEN Append(K[k - 1], [of |-> h, input |-> k]) ELSE K[k - 1]
  BY KeptIs
<1>3. MaxInputs + 1 \notin Retained
  BY LogAssumption DEF LogAssumption
<1> HIDE DEF K, D
<1>4. /\ BlockAfter(h, 1) = [inputs |-> K[0], digest |-> {}]
      /\ BlockAfter(h, k) = [inputs |-> K[k - 1], digest |-> {}]
      /\ BlockAfter(h, k + 1) = [inputs |-> K[k], digest |-> IF k + 1 = D THEN {h} ELSE {}]
  <2>1. \A j : BlockAfter(h, j) = [inputs |-> K[j - 1], digest |-> IF j = D THEN {h} ELSE {}]
    BY DEF BlockAfter, K, D
  <2>2. BlockAfter(h, 1) = [inputs |-> K[0], digest |-> {}]
    BY <1>1, <2>1
  <2>3. BlockAfter(h, k) = [inputs |-> K[k - 1], digest |-> {}]
    BY <1>1, <2>1
  <2>4. BlockAfter(h, k + 1) = [inputs |-> K[k], digest |-> IF k + 1 = D THEN {h} ELSE {}]
    BY <1>1, <2>1
  <2> QED
    BY <2>2, <2>3, <2>4
<1>5. BlockAfter(h, 1) = NoBlock
  BY <1>2, <1>4 DEF NoBlock
<1> DEFINE In == [of |-> h, input |-> k]
<1> HIDE DEF In
<1>6. k + 1 = D => BlockAfter(h, k + 1) = [BlockAfter(h, k) EXCEPT !.digest = {h}]
  <2> SUFFICES ASSUME k + 1 = D
               PROVE  BlockAfter(h, k + 1) = [BlockAfter(h, k) EXCEPT !.digest = {h}]
    OBVIOUS
  <2>1. K[k] = K[k - 1]
    BY <1>1, <1>2, <1>3
  <2>2. BlockAfter(h, k + 1) = [inputs |-> K[k - 1], digest |-> {h}]
    BY <1>4, <2>1
  <2>3. \A u : [[inputs |-> u, digest |-> {}] EXCEPT !.digest = {h}] = [inputs |-> u, digest |-> {h}]
    OBVIOUS
  <2> QED
    BY <1>4, <2>2, <2>3, Zenon
<1>7. k + 1 # D /\ k \in Retained =>
        BlockAfter(h, k + 1) = [BlockAfter(h, k) EXCEPT !.inputs = Append(@, In)]
  <2> SUFFICES ASSUME k + 1 # D, k \in Retained
               PROVE  BlockAfter(h, k + 1) = [BlockAfter(h, k) EXCEPT !.inputs = Append(@, In)]
    OBVIOUS
  <2>1. BlockAfter(h, k + 1) = [inputs |-> Append(K[k - 1], In), digest |-> {}]
    BY <1>2, <1>4 DEF In
  <2>2. \A u : [[inputs |-> u, digest |-> {}] EXCEPT !.inputs = Append(@, In)] =
                 [inputs |-> Append(u, In), digest |-> {}]
    <3>1. \A u, v : [[inputs |-> u, digest |-> {}] EXCEPT !.inputs = v] = [inputs |-> v, digest |-> {}]
      OBVIOUS
    <3>2. \A u : [inputs |-> u, digest |-> {}].inputs = u
      OBVIOUS
    <3> QED
      BY <3>1, <3>2, Zenon
  <2> QED
    BY <1>4, <2>1, <2>2, Zenon
<1>8. k + 1 # D /\ k \notin Retained => BlockAfter(h, k + 1) = BlockAfter(h, k)
  BY <1>2, <1>4
<1> QED
  BY <1>5, <1>6, <1>7, <1>8, Zenon DEF D, In, Keeps
-----------------------------------------------------------------------------
(* What has come out, and what the collector has, are functions of how     *)
(* many lines of each hash and of the messages have gone through the tee.  *)
Writers == Hashes \cup {Message}
Counts == [Writers -> Nat]
NextOf(c, w) == [v \in Writers |-> IF v = w THEN c[v] + 1 ELSE c[v]]
LineOf(c, w) == [of |-> w, at |-> c[w] + 1]

Used(c, n) == {h \in {n} \X (1..MaxInstances) : c[h] > 0}

\* A name is of no hash yet, of one, whose block it has, or of several.
NameIs(b, a, c, n) ==
  /\ n \in a <=> \E g, h \in Used(c, n) : g # h
  /\ n \in DOMAIN b <=> \E h \in Used(c, n) : Used(c, n) = {h}
  /\ \A h \in Used(c, n) : Used(c, n) = {h} => b[n] = BlockAfter(h, c[h])

Made(t, c) ==
  /\ t = [out |-> Said(2 * c[Message]), blocks |-> t.blocks, ambiguous |-> t.ambiguous]
  /\ DOMAIN t.blocks \subseteq Names
  /\ t.ambiguous \subseteq Names
  /\ \A n \in Names : NameIs(t.blocks, t.ambiguous, c, n)

\* A line of a hash counts for its name only.
LEMMA NextUsed ==
  ASSUME NEW c \in Counts, NEW w \in Hashes
  PROVE  /\ NextOf(c, w) \in Counts
         /\ NextOf(c, w)[Message] = c[Message]
         /\ NextOf(c, w)[w] = c[w] + 1
         /\ w[1] \in Names
         /\ Used(NextOf(c, w), w[1]) = Used(c, w[1]) \cup {w}
         /\ \A h \in Used(c, w[1]) : h # w => NextOf(c, w)[h] = c[h]
         /\ \A n \in Names \ {w[1]} :
              /\ Used(NextOf(c, w), n) = Used(c, n)
              /\ \A h \in Used(c, n) : NextOf(c, w)[h] = c[h]
<1>1. Message \notin Hashes
  BY LogAssumption DEF LogAssumption, Hashes
<1>2. \A v \in Writers : NextOf(c, w)[v] = IF v = w THEN c[v] + 1 ELSE c[v]
  BY DEF NextOf
<1>3. \A v \in Writers : c[v] \in Nat
  BY DEF Counts
<1>4. NextOf(c, w) \in Counts
  BY <1>3 DEF NextOf, Counts
<1>5. w[1] \in Names /\ w \in {w[1]} \X (1..MaxInstances)
  BY DEF Hashes
<1>6. \A n \in Names : {n} \X (1..MaxInstances) \subseteq Hashes
  BY DEF Hashes
<1>7. \A n \in Names \ {w[1]} : w \notin {n} \X (1..MaxInstances)
  BY <1>5
<1>8. Hashes \subseteq Writers /\ Message \in Writers
  BY DEF Writers
<1>9. c[w] + 1 > 0
  BY <1>3, <1>8
<1>10. Used(NextOf(c, w), w[1]) = Used(c, w[1]) \cup {w}
  BY <1>2, <1>5, <1>6, <1>8, <1>9 DEF Used
<1>11. \A n \in Names \ {w[1]} : Used(NextOf(c, w), n) = Used(c, n)
  BY <1>2, <1>6, <1>7, <1>8 DEF Used
<1>12. \A n \in Names \ {w[1]} : \A h \in Used(c, n) : NextOf(c, w)[h] = c[h]
  BY <1>2, <1>6, <1>7, <1>8 DEF Used
<1>13. \A h \in Used(c, w[1]) : h # w => NextOf(c, w)[h] = c[h]
  BY <1>2, <1>5, <1>6, <1>8 DEF Used
<1> QED
  BY <1>1, <1>2, <1>4, <1>5, <1>8, <1>10, <1>11, <1>12, <1>13

\* So whatever is done for that name leaves the others as they should be.
LEMMA MadeNext ==
  ASSUME NEW c \in Counts, NEW w \in Hashes, NEW t, Made(t, c),
         NEW b, NEW a, DOMAIN b \subseteq Names, a \subseteq Names,
         \A m \in Names \ {w[1]} :
           /\ m \in a <=> m \in t.ambiguous
           /\ m \in DOMAIN b <=> m \in DOMAIN t.blocks
           /\ m \in DOMAIN b => b[m] = t.blocks[m],
         NameIs(b, a, NextOf(c, w), w[1])
  PROVE  Made([out |-> t.out, blocks |-> b, ambiguous |-> a], NextOf(c, w))
<1> DEFINE d == NextOf(c, w)
           r == [out |-> t.out, blocks |-> b, ambiguous |-> a]
<1>1. /\ d[Message] = c[Message]
      /\ \A n \in Names \ {w[1]} :
           Used(d, n) = Used(c, n) /\ \A h \in Used(c, n) : d[h] = c[h]
  BY NextUsed
<1>2. t.out = Said(2 * c[Message]) /\ \A n \in Names : NameIs(t.blocks, t.ambiguous, c, n)
  BY DEF Made
<1>3. r.out = t.out /\ r.blocks = b /\ r.ambiguous = a
  OBVIOUS
<1> HIDE DEF d
<1>4. \A n \in Names \ {w[1]} : NameIs(b, a, d, n)
  BY <1>1, <1>2 DEF NameIs
<1>5. NameIs(b, a, d, w[1])
  BY DEF d
<1>6. r = [out |-> Said(2 * d[Message]), blocks |-> r.blocks, ambiguous |-> r.ambiguous]
  BY <1>1, <1>2, <1>3
<1>7. \A n \in Names : NameIs(r.blocks, r.ambiguous, d, n)
  BY <1>3, <1>4, <1>5
<1> HIDE DEF r
<1>8. Made(r, d)
  BY <1>3, <1>6, <1>7 DEF Made
<1> QED
  BY <1>8 DEF r, d

\* A block put in place of a name's own, and a name that loses its block.
LEMMA BlockPut ==
  ASSUME NEW c \in Counts, NEW w \in Hashes, NEW t, Made(t, c), NEW x,
         NameIs(With(t.blocks, w[1], x), t.ambiguous, NextOf(c, w), w[1])
  PROVE  Made([t EXCEPT !.blocks = With(t.blocks, w[1], x)], NextOf(c, w))
<1> DEFINE b == With(t.blocks, w[1], x)
<1>1. /\ DOMAIN b = DOMAIN t.blocks \cup {w[1]}
      /\ \A m \in Names \ {w[1]} : m \in DOMAIN b => b[m] = t.blocks[m]
  BY DEF With
<1> HIDE DEF b
<1>2. w[1] \in Names
  BY NextUsed
<1>3. /\ t = [out |-> t.out, blocks |-> t.blocks, ambiguous |-> t.ambiguous]
      /\ DOMAIN t.blocks \subseteq Names /\ t.ambiguous \subseteq Names
  <2>1. t = [out |-> Said(2 * c[Message]), blocks |-> t.blocks, ambiguous |-> t.ambiguous]
    BY DEF Made
  <2>2. t.out = Said(2 * c[Message])
    BY <2>1
  <2> QED
    BY <2>1, <2>2 DEF Made
<1>4. [t EXCEPT !.blocks = b] = [out |-> t.out, blocks |-> b, ambiguous |-> t.ambiguous]
  <2>1. \A o, e, a : [[out |-> o, blocks |-> e, ambiguous |-> a] EXCEPT !.blocks = b] =
                       [out |-> o, blocks |-> b, ambiguous |-> a]
    OBVIOUS
  <2> DEFINE o == t.out
             e == t.blocks
             a == t.ambiguous
  <2> HIDE DEF o, e, a
  <2>2. t = [out |-> o, blocks |-> e, ambiguous |-> a]
    BY <1>3 DEF o, e, a
  <2>3. [t EXCEPT !.blocks = b] = [out |-> o, blocks |-> b, ambiguous |-> a]
    BY <2>1, <2>2
  <2> QED
    BY <2>3 DEF o, a
<1>5. NameIs(b, t.ambiguous, NextOf(c, w), w[1])
  BY DEF b
<1>6. DOMAIN b \subseteq Names
  BY <1>1, <1>2, <1>3
<1>7. \A m \in Names \ {w[1]} :
        /\ m \in t.ambiguous <=> m \in t.ambiguous
        /\ m \in DOMAIN b <=> m \in DOMAIN t.blocks
        /\ m \in DOMAIN b => b[m] = t.blocks[m]
  BY <1>1
<1>8. Made([out |-> t.out, blocks |-> b, ambiguous |-> t.ambiguous], NextOf(c, w))
  BY <1>3, <1>5, <1>6, <1>7, MadeNext
<1> QED
  BY <1>4, <1>8 DEF b

\* The collector keeps up with every line of every hash.
LEMMA HashLineMade ==
  ASSUME NEW c \in Counts, NEW w \in Hashes, c[w] < DigestLine, NEW t, Made(t, c)
  PROVE  Made(Line(t, LineOf(c, w)), NextOf(c, w))
<1> DEFINE n == w[1]
           k == c[w]
           d == NextOf(c, w)
           U == Used(c, n)
           V == Used(d, n)
           b == BlockOf(t, n)
           x == IF k + 1 = DigestLine THEN [b EXCEPT !.digest = {w}]
                ELSE IF Keeps(k)
                THEN [b EXCEPT !.inputs = Append(@, [of |-> w, input |-> k])]
                ELSE b
<1>1. /\ n \in Names /\ V = U \cup {w} /\ d[w] = k + 1
      /\ \A h \in U : h # w => d[h] = c[h]
  BY NextUsed
<1>2. NameIs(t.blocks, t.ambiguous, c, n) /\ DOMAIN t.blocks \subseteq Names /\ t.ambiguous \subseteq Names
  BY <1>1 DEF Made
<1>3. /\ t = [out |-> t.out, blocks |-> t.blocks, ambiguous |-> t.ambiguous]
      /\ DOMAIN t.blocks \subseteq Names /\ t.ambiguous \subseteq Names
  <2>1. t = [out |-> Said(2 * c[Message]), blocks |-> t.blocks, ambiguous |-> t.ambiguous]
    BY DEF Made
  <2>2. t.out = Said(2 * c[Message])
    BY <2>1
  <2> QED
    BY <2>1, <2>2 DEF Made
<1>4. /\ k \in Nat /\ MaxInputs \in Nat /\ DigestLine = MaxInputs + 2 /\ k < DigestLine
      /\ k + 1 - 1 = k /\ (k + 1 = 1 <=> k = 0)
  BY LogAssumption DEF LogAssumption, DigestLine, Counts, Writers
<1>5. w \in U <=> k # 0
  BY <1>4 DEF Used, Hashes
<1>6. Line(t, LineOf(c, w)) =
        IF k = 0 THEN Open(t, n)
        ELSE IF n \in t.ambiguous THEN t
        ELSE [t EXCEPT !.blocks = With(t.blocks, n, x)]
  <2>1. LineOf(c, w).of = w /\ LineOf(c, w).at = k + 1
    BY DEF LineOf
  <2> DEFINE l == LineOf(c, w)
             Put(at, y) ==
               IF at = DigestLine THEN [y EXCEPT !.digest = {w}]
               ELSE IF Keeps(k)
               THEN [y EXCEPT !.inputs = Append(@, [of |-> w, input |-> k])]
               ELSE y
  <2>2. l.of = w /\ l.of[1] = n /\ l.at = k + 1 /\ l.at - 1 = k
    BY <1>4, <2>1
  <2> HIDE DEF l, k, n
  <2>3. Line(t, l) =
          IF l.at = 1 THEN Open(t, n)
          ELSE IF n \in t.ambiguous THEN t
          ELSE [t EXCEPT !.blocks = With(t.blocks, n, Put(l.at, BlockOf(t, n)))]
    BY <2>2 DEF Line
  <2> HIDE DEF Put
  <2>4. Line(t, l) =
          IF k = 0 THEN Open(t, n)
          ELSE IF n \in t.ambiguous THEN t
          ELSE [t EXCEPT !.blocks = With(t.blocks, n, Put(k + 1, BlockOf(t, n)))]
    BY <1>4, <2>2, <2>3
  <2> QED
    BY <2>4 DEF Put, l
<1>7. \A h : h \in {n} \X (1..MaxInstances) => h[1] = n
  OBVIOUS
<1>8. NameIs(t.blocks, t.ambiguous, d, n) => Made(t, d)
  <2>1. \A m \in Names \ {w[1]} :
          /\ m \in t.ambiguous <=> m \in t.ambiguous
          /\ m \in DOMAIN t.blocks <=> m \in DOMAIN t.blocks
          /\ m \in DOMAIN t.blocks => t.blocks[m] = t.blocks[m]
    OBVIOUS
  <2> SUFFICES ASSUME NameIs(t.blocks, t.ambiguous, d, n) PROVE Made(t, d)
    OBVIOUS
  <2>2. Made([out |-> t.out, blocks |-> t.blocks, ambiguous |-> t.ambiguous], NextOf(c, w))
    BY <1>3, <2>1, MadeNext
  <2> QED
    BY <1>3, <2>2
<1>9. ASSUME NEW y, NameIs(With(t.blocks, n, y), t.ambiguous, d, n)
      PROVE  Made([t EXCEPT !.blocks = With(t.blocks, n, y)], d)
  BY <1>9, BlockPut
<1> HIDE DEF d, k, n, x, b
\* The first line of a hash opens the name.
<1>10. CASE k = 0 /\ n \in t.ambiguous
  <2>1. NameIs(t.blocks, t.ambiguous, d, n)
    BY <1>1, <1>2, <1>10 DEF NameIs
  <2>2. Line(t, LineOf(c, w)) = t
    BY <1>6, <1>10 DEF Open
  <2> QED
    BY <1>8, <2>1, <2>2 DEF d
<1>11. CASE k = 0 /\ n \notin t.ambiguous /\ n \in DOMAIN t.blocks
  <2> DEFINE e == [m \in DOMAIN t.blocks \ {n} |-> t.blocks[m]]
             a == t.ambiguous \cup {n}
  <2>1. Line(t, LineOf(c, w)) = [out |-> t.out, blocks |-> e, ambiguous |-> a]
    BY <1>6, <1>11 DEF Open
  <2>2. PICK g \in U : U = {g}
    BY <1>2, <1>11 DEF NameIs
  <2>3. V = {g, w} /\ g # w
    BY <1>1, <1>5, <1>11, <2>2
  <2>4. NameIs(e, a, d, n)
    <3>1. n \in a /\ n \notin DOMAIN e
      OBVIOUS
    <3> HIDE DEF e, a
    <3> QED
      BY <2>3, <3>1 DEF NameIs
  <2>5. DOMAIN e \subseteq Names /\ a \subseteq Names
    BY <1>1, <1>2
  <2>6. \A m \in Names \ {n} :
          /\ m \in a <=> m \in t.ambiguous
          /\ m \in DOMAIN e <=> m \in DOMAIN t.blocks
          /\ m \in DOMAIN e => e[m] = t.blocks[m]
    OBVIOUS
  <2> HIDE DEF e, a
  <2>7. Made([out |-> t.out, blocks |-> e, ambiguous |-> a], NextOf(c, w))
    BY <2>4, <2>5, <2>6, MadeNext DEF n, d
  <2> QED
    BY <2>1, <2>7
<1>12. CASE k = 0 /\ n \notin t.ambiguous /\ n \notin DOMAIN t.blocks
  <2>1. Line(t, LineOf(c, w)) = [t EXCEPT !.blocks = With(t.blocks, n, NoBlock)]
    BY <1>6, <1>12 DEF Open
  <2>2. U = {}
    BY <1>2, <1>12 DEF NameIs
  <2>3. V = {w} /\ d[w] = 1
    BY <1>1, <1>12, <2>2
  <2>4. BlockAfter(w, 1) = NoBlock
    <3>1. 1 \in 1..(MaxInputs + 1)
      BY <1>4
    <3> QED
      BY <3>1, BlockNext
  <2>5. n \in DOMAIN With(t.blocks, n, NoBlock) /\ With(t.blocks, n, NoBlock)[n] = NoBlock
    BY DEF With
  <2>6. NameIs(With(t.blocks, n, NoBlock), t.ambiguous, d, n)
    BY <1>12, <2>3, <2>4, <2>5 DEF NameIs
  <2> QED
    BY <1>9, <2>1, <2>6 DEF d
\* The others add to its block, unless it is ambiguous.
<1>13. CASE k # 0 /\ n \in t.ambiguous
  <2>1. V = U
    BY <1>1, <1>5, <1>13
  <2>2. NameIs(t.blocks, t.ambiguous, d, n)
    BY <1>2, <1>13, <2>1 DEF NameIs
  <2>3. Line(t, LineOf(c, w)) = t
    BY <1>6, <1>13
  <2> QED
    BY <1>8, <2>2, <2>3 DEF d
<1>14. CASE k # 0 /\ n \notin t.ambiguous
  <2>1. U = {w} /\ V = {w}
    BY <1>1, <1>2, <1>5, <1>14 DEF NameIs
  <2>2. n \in DOMAIN t.blocks /\ t.blocks[n] = BlockAfter(w, k)
    <3> HIDE DEF U
    <3> QED
      BY <1>2, <2>1 DEF NameIs, U, k
  <2>3. b = BlockAfter(w, k)
    BY <2>2 DEF BlockOf, b
  <2>4. x = BlockAfter(w, k + 1)
    <3>1. k \in 1..(MaxInputs + 1)
      BY <1>4, <1>14
    <3> QED
      BY <2>3, <3>1, BlockNext, Zenon DEF x
  <2>5. n \in DOMAIN With(t.blocks, n, x) /\ With(t.blocks, n, x)[n] = x
    BY DEF With
  <2>6. NameIs(With(t.blocks, n, x), t.ambiguous, d, n)
    BY <1>1, <1>14, <2>1, <2>4, <2>5 DEF NameIs
  <2>7. Line(t, LineOf(c, w)) = [t EXCEPT !.blocks = With(t.blocks, n, x)]
    BY <1>6, <1>14
  <2> QED
    BY <1>9, <2>6, <2>7 DEF d
<1> QED
  BY <1>10, <1>11, <1>12, <1>13, <1>14 DEF d

\* A message comes out after those before it.
LEMMA MessageMade ==
  ASSUME NEW c \in Counts, NEW t, Made(t, c)
  PROVE  Made([t EXCEPT !.out = t.out \o Pieces(LineOf(c, Message))], NextOf(c, Message))
<1> DEFINE d == NextOf(c, Message)
           n == c[Message]
           e == t.blocks
           a == t.ambiguous
           p == Pieces(LineOf(c, Message))
<1>1. Message \notin Hashes
  BY LogAssumption DEF LogAssumption, Hashes
<1>2. n \in Nat /\ d[Message] = n + 1 /\ \A h \in Hashes : d[h] = c[h]
  BY <1>1 DEF Counts, Writers, NextOf
<1>3. \A m \in Names : Used(d, m) = Used(c, m) /\ \A h \in Used(c, m) : d[h] = c[h]
  <2>1. \A m \in Names : {m} \X (1..MaxInstances) \subseteq Hashes
    BY DEF Hashes
  <2> HIDE DEF d, n
  <2> QED
    BY <1>2, <2>1 DEF Used
<1>4. Said(2 * n) \o p = Said(2 * (n + 1))
  BY <1>2, SaidNext DEF LineOf, MessageLine
<1>5. /\ t = [out |-> Said(2 * n), blocks |-> e, ambiguous |-> a]
      /\ DOMAIN e \subseteq Names /\ a \subseteq Names
      /\ \A m \in Names : NameIs(e, a, c, m)
  BY DEF Made
<1> DEFINE r == [out |-> Said(2 * (n + 1)), blocks |-> e, ambiguous |-> a]
<1> HIDE DEF d, n, e, a, p
<1>6. [t EXCEPT !.out = t.out \o p] = r
  <2>1. t.out = Said(2 * n)
    BY <1>5
  <2>2. [t EXCEPT !.out = t.out \o p] = [t EXCEPT !.out = Said(2 * (n + 1))]
    BY <1>4, <2>1
  <2> DEFINE o == Said(2 * n)
             v == Said(2 * (n + 1))
  <2> HIDE DEF o, v
  <2>3. t = [out |-> o, blocks |-> e, ambiguous |-> a]
    BY <1>5 DEF o
  <2>4. [t EXCEPT !.out = v] = [out |-> v, blocks |-> e, ambiguous |-> a]
    BY <2>3
  <2> QED
    BY <2>2, <2>4 DEF v
<1>7. \A m \in Names : NameIs(e, a, d, m)
  BY <1>3, <1>5 DEF NameIs
<1>8. Made(r, d)
  BY <1>2, <1>5, <1>7 DEF Made
<1> QED
  BY <1>6, <1>8 DEF d, p

\* How whole lines look to the tee.
LEMMA WholeLine ==
  ASSUME NEW c \in Counts, NEW w \in Writers
  PROVE  /\ IsHashLine(Pieces(LineOf(c, w))) <=> w # Message
         /\ Pieces(LineOf(c, w))[1].line = LineOf(c, w)
<1> DEFINE l == LineOf(c, w)
           s == Pieces(l)
<1>1. l.of = w
  BY DEF LineOf
<1> HIDE DEF l
<1>2. Len(s) = 2 /\ s[1] = Piece(l, FALSE) /\ s[2] = Piece(l, TRUE)
  BY DEF Pieces
<1>3. s[1].line = l /\ s[2].line = l
  BY <1>2 DEF Piece
<1> HIDE DEF s
<1>4. IsHashLine(s) <=> w # Message
  BY <1>1, <1>2, <1>3 DEF IsHashLine
<1> QED
  BY <1>3, <1>4 DEF s, l

Collected == [out |-> out, blocks |-> blocks, ambiguous |-> ambiguous]

\* The counts f follow the lines ls, none of which is after a digest.
Follows(f, ls, m) ==
  \A i \in 1..m :
    \E w \in Writers :
      /\ f[i] = NextOf(f[i - 1], w)
      /\ ls[i] = Pieces(LineOf(f[i - 1], w))
      /\ w \in Hashes => f[i - 1][w] < DigestLine

\* The lines of a chunk are counted one by one.
LEMMA LinesMade ==
  ASSUME NEW m \in Nat, NEW f, \A i \in 0..m : f[i] \in Counts, NEW ls, Len(ls) = m,
         Follows(f, ls, m), Made(Collected, f[0])
  PROVE  \A i \in 0..m : Made(After(ls)[i], f[i])
<1> DEFINE A == After(ls)
           T == {i \in 0..m : Made(A[i], f[i])}
<1>1. A[0] = Collected /\ \A i \in 1..m : A[i] = Handle(A[i - 1], ls[i])
  BY AfterIs DEF Collected
<1> HIDE DEF A
<1>2. 0 \in T
  BY <1>1
<1>3. ASSUME NEW i \in (0 + 1)..m, i - 1 \in T PROVE i \in T
  <2> DEFINE t == A[i - 1]
             c == f[i - 1]
  <2>1. i \in 1..m /\ i \in 0..m /\ i - 1 \in 0..m
    OBVIOUS
  <2>2. c \in Counts /\ Made(t, c)
    BY <1>3, <2>1
  <2>3. A[i] = Handle(t, ls[i])
    BY <1>1, <2>1
  <2>4. PICK w \in Writers : /\ f[i] = NextOf(c, w)
                             /\ ls[i] = Pieces(LineOf(c, w))
                             /\ w \in Hashes => c[w] < DigestLine
    BY <2>1 DEF Follows
  <2> HIDE DEF t, c
  <2>5. /\ IsHashLine(ls[i]) <=> w # Message
        /\ ls[i][1].line = LineOf(c, w)
    BY <2>2, <2>4, WholeLine
  <2>6. CASE w = Message
    <3>1. A[i] = [t EXCEPT !.out = t.out \o Pieces(LineOf(c, Message))]
      BY <2>3, <2>4, <2>5, <2>6 DEF Handle
    <3>2. Made(A[i], NextOf(c, Message))
      BY <2>2, <3>1, MessageMade
    <3> QED
      BY <2>1, <2>4, <2>6, <3>2
  <2>7. CASE w # Message
    <3>1. w \in Hashes
      BY <2>7 DEF Writers
    <3>2. A[i] = Line(t, LineOf(c, w))
      BY <2>3, <2>5, <2>7 DEF Handle
    <3>3. Made(A[i], NextOf(c, w))
      BY <2>2, <2>4, <3>1, <3>2, HashLineMade
    <3> QED
      BY <2>1, <2>4, <3>3
  <2> QED
    BY <2>6, <2>7
<1>4. 0..m \subseteq T
  <2> HIDE DEF T
  <2> QED
    BY <1>2, <1>3, InductionUpTo
<1> QED
  BY <1>4 DEF A
-----------------------------------------------------------------------------
(* What is between the go command and the collector: whole lines of two    *)
(* pieces, and at most the first piece of a last one.                      *)
PairsOf(s, n) == [i \in 1..n |-> <<s[2 * i - 1], s[2 * i]>>]

\* At most one piece, which ends no line.
IsHalf(s) == s \in Seq(PieceSet) /\ Len(s) <= 1 /\ \A i \in 1..Len(s) : ~s[i].ends

\* s is n lines and half of one, whose counts f lead to total.
Stream(s, f, n, total, half) ==
  /\ Len(s) = 2 * n + Len(half)
  /\ \A i \in 1..Len(half) : s[2 * n + i] = half[i]
  /\ f \in [0..n -> Counts]
  /\ f[n] = total
  /\ \A i \in 0..n : \A w \in Writers : f[i][w] <= total[w]
  /\ Follows(f, PairsOf(s, n), n)

\* The pieces of its lines.
LEMMA StreamPieces ==
  ASSUME NEW s, NEW n \in Nat, NEW f, NEW total, NEW half,
         Stream(s, f, n, total, half)
  PROVE  \A i \in 1..n : ~s[2 * i - 1].ends /\ s[2 * i].ends
<1> SUFFICES ASSUME NEW i \in 1..n PROVE ~s[2 * i - 1].ends /\ s[2 * i].ends
  OBVIOUS
<1> DEFINE x == s[2 * i - 1]
           y == s[2 * i]
           q == <<x, y>>
<1>1. PairsOf(s, n)[i] = q
  BY DEF PairsOf
<1>2. PICK w \in Writers : q = Pieces(LineOf(f[i - 1], w))
  BY <1>1 DEF Stream, Follows
<1> DEFINE l == LineOf(f[i - 1], w)
<1> HIDE DEF x, y, l
<1>3. q[1] = x /\ q[2] = y
  OBVIOUS
<1>4. q = <<Piece(l, FALSE), Piece(l, TRUE)>>
  BY <1>2 DEF Pieces, l
<1>5. x = Piece(l, FALSE) /\ y = Piece(l, TRUE)
  BY <1>3, <1>4
<1>6. x.ends = FALSE /\ y.ends = TRUE
  BY <1>5 DEF Piece
<1> QED
  BY <1>6 DEF x, y

\* A chunk a of a stream is cut into some of its lines; the others stay.
LEMMA StreamTake ==
  ASSUME NEW a \in Seq(PieceSet), NEW b \in Seq(PieceSet),
         NEW n \in Nat, NEW f, NEW total, NEW half, IsHalf(half),
         Stream(a \o b, f, n, total, half)
  PROVE  \E m \in 0..n :
           /\ LinesOf(a) = PairsOf(a, m)
           /\ Follows(f, PairsOf(a, m), m)
           /\ IsHalf(Rest(a))
           /\ f \in [0..n -> Counts]
           /\ \A i \in 0..n : \A w \in Writers : f[i][w] <= total[w]
           /\ Stream(Rest(a) \o b, [i \in 0..(n - m) |-> f[m + i]], n - m, total, half)
<1> DEFINE s == a \o b
           m == Len(a) \div 2
           la == Len(a)
           lb == Len(b)
           lh == Len(half)
           g == [i \in 0..(n - m) |-> f[m + i]]
<1>1. /\ la \in Nat /\ lb \in Nat /\ Len(s) = la + lb /\ Len(s) \in Nat
      /\ \A i \in 1..la : s[i] = a[i]
      /\ \A i \in 1..lb : s[la + i] = b[i]
      /\ half \in Seq(PieceSet) /\ lh \in 0..1 /\ \A i \in 1..lh : ~half[i].ends
  <2>1. /\ la \in Nat /\ lb \in Nat /\ Len(s) = la + lb /\ Len(s) \in Nat
        /\ \A i \in 1..la : s[i] = a[i]
        /\ \A i \in 1..lb : s[la + i] = b[i]
    OBVIOUS
  <2>2. half \in Seq(PieceSet) /\ Len(half) <= 1
    BY DEF IsHalf
  <2>3. Len(half) \in Nat
    BY <2>2, LenProperties
  <2>4. lh \in 0..1
    <3>1. lh \in Nat /\ lh <= 1
      BY <2>2, <2>3
    <3> HIDE DEF lh
    <3> QED
      BY <3>1
  <2>5. \A i \in 1..Len(half) : ~half[i].ends
    BY DEF IsHalf
  <2> QED
    BY <2>1, <2>2, <2>4, <2>5
<1>2. /\ Len(s) = 2 * n + lh
      /\ \A i \in 1..lh : s[2 * n + i] = half[i]
      /\ f \in [0..n -> Counts]
      /\ f[n] = total
      /\ \A i \in 0..n : \A w \in Writers : f[i][w] <= total[w]
      /\ Follows(f, PairsOf(s, n), n)
  BY DEF Stream
<1>3. \A i \in 1..n : ~s[2 * i - 1].ends /\ s[2 * i].ends
  BY StreamPieces
<1>4. m \in Nat /\ (la = 2 * m \/ la = 2 * m + 1)
  BY <1>1
<1> HIDE DEF s, m, la, lb, lh
<1>5. m \in 0..n /\ n - m \in Nat
  <2>1. la <= 2 * n + 1
    BY <1>1, <1>2
  <2> QED
    BY <1>4, <2>1
<1>6. \A i \in 1..m : /\ 2 * i - 1 \in 1..la /\ 2 * i \in 1..la /\ i \in 1..n
                      /\ a[2 * i - 1] = s[2 * i - 1] /\ a[2 * i] = s[2 * i]
  <2> SUFFICES ASSUME NEW i \in 1..m
               PROVE  /\ 2 * i - 1 \in 1..la /\ 2 * i \in 1..la /\ i \in 1..n
                      /\ a[2 * i - 1] = s[2 * i - 1] /\ a[2 * i] = s[2 * i]
    OBVIOUS
  <2>1. 2 * i - 1 \in 1..la /\ 2 * i \in 1..la /\ i \in 1..n
    BY <1>1, <1>4, <1>5
  <2> QED
    BY <1>1, <2>1
<1>7. la = 2 * m + 1 => ~a[2 * m + 1].ends /\ a[2 * m + 1] = s[2 * m + 1]
  <2> SUFFICES ASSUME la = 2 * m + 1
               PROVE  ~a[2 * m + 1].ends /\ a[2 * m + 1] = s[2 * m + 1]
    OBVIOUS
  <2> DEFINE k == 2 * m + 1
  <2>1. k \in 1..la /\ a[k] = s[k]
    BY <1>1, <1>4
  <2>2. CASE m = n
    <3>1. lh = 1 /\ k = 2 * n + 1
      BY <1>1, <1>2, <2>2
    <3>2. s[k] = half[1] /\ ~half[1].ends
      BY <1>1, <1>2, <3>1
    <3> QED
      BY <2>1, <3>2
  <2>3. CASE m # n
    <3> DEFINE j == m + 1
    <3>1. j \in 1..n /\ k = 2 * j - 1
      BY <1>5, <2>3
    <3> HIDE DEF j
    <3>2. ~s[k].ends
      BY <1>3, <3>1
    <3> QED
      BY <2>1, <3>2
  <2> QED
    BY <2>2, <2>3
<1>8. /\ LinesOf(a) = PairsOf(a, m)
      /\ Rest(a) = IF la = 2 * m THEN <<>> ELSE <<a[2 * m + 1]>>
  <2>1. \A i \in 1..m : ~a[2 * i - 1].ends /\ a[2 * i].ends
    BY <1>3, <1>6
  <2>2. \/ Len(a) = 2 * m
        \/ Len(a) = 2 * m + 1 /\ ~a[2 * m + 1].ends
    BY <1>4, <1>7 DEF la
  <2>3. m \in Nat
    BY <1>4
  <2> QED
    BY <2>1, <2>2, <2>3, Cutting DEF PairsOf, la
<1>9. Follows(f, PairsOf(a, m), m)
  <2>1. \A i \in 1..m : i \in 1..n /\ PairsOf(a, m)[i] = PairsOf(s, n)[i]
    BY <1>6 DEF PairsOf
  <2> QED
    BY <1>2, <2>1 DEF Follows
<1> DEFINE r == Rest(a)
           u == r \o b
           lr == la - 2 * m
<1>10. r \in Seq(PieceSet) /\ Len(r) = lr /\ lr \in 0..1
       /\ \A i \in 1..lr : ~r[i].ends /\ r[i] = s[2 * m + i]
  <2>1. CASE la = 2 * m
    <3>1. r = <<>> /\ lr = 0
      BY <1>4, <1>8, <2>1
    <3> QED
      BY <3>1
  <2>2. CASE la # 2 * m
    <3> DEFINE k == 2 * m + 1
    <3>1. la = k /\ lr = 1 /\ k \in 1..la /\ r = <<a[k]>>
      BY <1>4, <1>8, <2>2
    <3>2. a[k] \in PieceSet
      BY <3>1 DEF la
    <3>3. ~a[k].ends /\ a[k] = s[k]
      BY <1>7, <3>1
    <3> HIDE DEF r, lr, k
    <3>4. r \in Seq(PieceSet) /\ Len(r) = 1 /\ r[1] = a[k]
      BY <3>1, <3>2
    <3>5. \A i \in 1..1 : ~r[i].ends /\ r[i] = s[2 * m + i]
      BY <3>3, <3>4 DEF k
    <3> QED
      BY <3>1, <3>4, <3>5
  <2> QED
    BY <2>1, <2>2
<1>11. IsHalf(r)
  BY <1>10 DEF IsHalf
<1> HIDE DEF r
<1>12. Len(u) = Len(s) - 2 * m /\ \A i \in 1..Len(u) : u[i] = s[2 * m + i]
  <2>1. Len(u) = lr + lb
    BY <1>1, <1>10 DEF lb
  <2>2. /\ \A i \in 1..lr : u[i] = r[i]
        /\ \A i \in 1..lb : u[lr + i] = b[i]
    BY <1>10 DEF lb
  <2> HIDE DEF u
  <2>3. ASSUME NEW i \in 1..(lr + lb) PROVE u[i] = s[2 * m + i]
    <3>1. CASE i <= lr
      <4>1. i \in 1..lr
        BY <1>10, <3>1
      <4> QED
        BY <1>10, <2>2, <4>1
    <3>2. CASE ~(i <= lr)
      <4> DEFINE j == i - lr
      <4>1. j \in 1..lb /\ i = lr + j /\ 2 * m + i = la + j
        BY <1>1, <1>4, <1>10, <3>2
      <4> HIDE DEF j
      <4>2. u[i] = b[j] /\ s[2 * m + i] = b[j]
        BY <1>1, <2>2, <4>1
      <4> QED
        BY <4>2
    <3> QED
      BY <3>1, <3>2
  <2>4. lr + lb = Len(s) - 2 * m
    BY <1>1, <1>4
  <2> QED
    BY <2>1, <2>3, <2>4
<1> HIDE DEF u, lr
<1>13. Stream(u, g, n - m, total, half)
  <2>1. Len(u) = 2 * (n - m) + Len(half)
    BY <1>1, <1>2, <1>5, <1>12 DEF lh
  <2>2. \A i \in 1..Len(half) : u[2 * (n - m) + i] = half[i]
    <3> SUFFICES ASSUME NEW i \in 1..lh PROVE u[2 * (n - m) + i] = half[i]
      BY DEF lh
    <3> DEFINE k == 2 * (n - m) + i
    <3>1. k \in 1..Len(u) /\ 2 * m + k = 2 * n + i
      BY <1>1, <1>5, <2>1 DEF lh
    <3> HIDE DEF k
    <3>2. u[k] = s[2 * n + i]
      BY <1>12, <3>1
    <3>3. u[k] = half[i]
      BY <1>2, <3>2
    <3> QED
      BY <3>3 DEF k
  <2>3. \A i \in 0..(n - m) : m + i \in 0..n
    BY <1>5
  <2>4. g \in [0..(n - m) -> Counts]
    BY <1>2, <2>3
  <2>5. g[n - m] = total
    <3>1. n - m \in 0..(n - m) /\ m + (n - m) = n
      BY <1>5
    <3> QED
      BY <1>2, <3>1
  <2>6. \A i \in 0..(n - m) : \A w \in Writers : g[i][w] <= total[w]
    BY <1>2, <2>3
  <2>7. Follows(g, PairsOf(u, n - m), n - m)
    <3> SUFFICES ASSUME NEW i \in 1..(n - m)
                 PROVE  \E w \in Writers :
                          /\ g[i] = NextOf(g[i - 1], w)
                          /\ PairsOf(u, n - m)[i] = Pieces(LineOf(g[i - 1], w))
                          /\ w \in Hashes => g[i - 1][w] < DigestLine
      BY DEF Follows
    <3> DEFINE j == m + i
    <3>1. /\ j \in 1..n /\ i \in 0..(n - m) /\ i - 1 \in 0..(n - m)
          /\ m + (i - 1) = j - 1 /\ 2 * m + (2 * i - 1) = 2 * j - 1 /\ 2 * m + 2 * i = 2 * j
      BY <1>5
    <3>2. 2 * i - 1 \in 1..Len(u) /\ 2 * i \in 1..Len(u)
      BY <1>1, <1>5, <2>1 DEF lh
    <3>3. u[2 * i - 1] = s[2 * j - 1] /\ u[2 * i] = s[2 * j]
      BY <1>12, <3>1, <3>2
    <3>4. g[i] = f[j] /\ g[i - 1] = f[j - 1]
      BY <3>1
    <3> HIDE DEF g, j
    <3>5. PairsOf(u, n - m)[i] = PairsOf(s, n)[j]
      BY <3>1, <3>3 DEF PairsOf
    <3> QED
      BY <1>2, <3>1, <3>4, <3>5 DEF Follows
  <2> HIDE DEF g
  <2> QED
    BY <2>1, <2>2, <2>4, <2>5, <2>6, <2>7 DEF Stream
<1> QED
  BY <1>2, <1>5, <1>8, <1>9, <1>11, <1>13 DEF u, r

\* Lines are made of pieces.
LEMMA PiecesType ==
  ASSUME NEW c \in Counts, NEW w \in Writers
  PROVE  /\ LineOf(c, w) \in Lines
         /\ Pieces(LineOf(c, w)) \in Seq(PieceSet) /\ Len(Pieces(LineOf(c, w))) = 2
         /\ \A b \in BOOLEAN : Piece(LineOf(c, w), b) \in PieceSet
<1>1. c[w] + 1 \in Nat
  BY DEF Counts
<1>2. LineOf(c, w) \in Lines
  BY <1>1 DEF LineOf, Lines, Writers
<1>3. \A b \in BOOLEAN : Piece(LineOf(c, w), b) \in PieceSet
  BY <1>2, Zenon DEF Piece, PieceSet
<1> DEFINE x == Piece(LineOf(c, w), FALSE)
           y == Piece(LineOf(c, w), TRUE)
<1>4. x \in PieceSet /\ y \in PieceSet
  BY <1>3
<1> HIDE DEF x, y
<1>5. <<x, y>> \in Seq(PieceSet) /\ Len(<<x, y>>) = 2
  BY <1>4
<1>6. Pieces(LineOf(c, w)) = <<x, y>>
  BY DEF Pieces, x, y
<1> QED
  BY <1>2, <1>3, <1>5, <1>6

\* A whole line is added to a stream.
LEMMA StreamAdd ==
  ASSUME NEW s \in Seq(PieceSet), NEW n \in Nat, NEW f, NEW total,
         NEW w \in Writers, w \in Hashes => total[w] < DigestLine,
         Stream(s, f, n, total, <<>>)
  PROVE  \E g : /\ g[0] = f[0]
                /\ Stream(s \o Pieces(LineOf(total, w)), g, n + 1, NextOf(total, w), <<>>)
<1> DEFINE p == Pieces(LineOf(total, w))
           u == s \o p
           next == NextOf(total, w)
           k == n + 1
           g == [i \in 0..k |-> IF i = k THEN next ELSE f[i]]
<1>1. /\ Len(s) = 2 * n
      /\ f \in [0..n -> Counts]
      /\ f[n] = total
      /\ \A i \in 0..n : \A v \in Writers : f[i][v] <= total[v]
      /\ Follows(f, PairsOf(s, n), n)
  <2>1. Len(<<>>) = 0
    OBVIOUS
  <2>2. Len(s) = 2 * n + Len(<<>>)
    BY DEF Stream
  <2> QED
    BY <2>1, <2>2 DEF Stream
<1>2. total \in Counts
  BY <1>1
<1>3. p \in Seq(PieceSet) /\ Len(p) = 2
  BY <1>2, PiecesType
<1>4. next \in Counts /\ \A v \in Writers : total[v] <= next[v]
  BY <1>2 DEF NextOf, Counts
<1>5. \A i \in 0..n : f[i] \in Counts
  BY <1>1
<1> HIDE DEF p, next
<1>6. /\ Len(u) = 2 * k
      /\ \A i \in 1..Len(s) : u[i] = s[i]
      /\ u[2 * k - 1] = p[1] /\ u[2 * k] = p[2]
  <2>1. /\ Len(u) = Len(s) + Len(p)
        /\ \A i \in 1..(Len(s) + Len(p)) :
             u[i] = IF i <= Len(s) THEN s[i] ELSE p[i - Len(s)]
    BY <1>3, ConcatProperties
  <2> DEFINE l == 2 * n
  <2>2. /\ l \in Nat /\ Len(s) = l /\ 2 * k = l + 2 /\ 2 * k - 1 = l + 1
        /\ l + 2 - l = 2 /\ l + 1 - l = 1 /\ ~ (l + 1 <= l) /\ ~ (l + 2 <= l)
        /\ l + 1 \in 1..(l + 2) /\ l + 2 \in 1..(l + 2)
        /\ \A i \in 1..l : i <= l /\ i \in 1..(l + 2)
    BY <1>1
  <2> HIDE DEF l, u, k
  <2>3. Len(u) = l + 2 /\ \A i \in 1..(l + 2) : u[i] = IF i <= l THEN s[i] ELSE p[i - l]
    BY <1>3, <2>1, <2>2
  <2>4. u[l + 1] = p[1] /\ u[l + 2] = p[2] /\ \A i \in 1..l : u[i] = s[i]
    BY <2>2, <2>3
  <2> QED
    BY <2>2, <2>3, <2>4
<1>7. \A i \in 0..n : g[i] = f[i] /\ i \in 0..k
  OBVIOUS
<1>8. g[k] = next /\ k \in 0..k /\ n \in 0..n /\ k - 1 = n
  OBVIOUS
<1>9. \A i \in 0..k : i \in 0..n \/ i = k
  OBVIOUS
<1>10. g \in [0..k -> Counts]
  BY <1>4, <1>5, <1>9
<1> HIDE DEF g, u
<1>0. g[0] = f[0]
  <2>1. 0 \in 0..n
    OBVIOUS
  <2> QED
    BY <1>7, <2>1
<1>11. \A i \in 0..k : \A v \in Writers : g[i][v] <= next[v]
  <2>1. \A v \in Writers : next[v] \in Nat /\ total[v] \in Nat
    BY <1>2, <1>4 DEF Counts
  <2>2. ASSUME NEW i \in 0..n, NEW v \in Writers PROVE g[i][v] <= next[v]
    <3>1. f[i][v] <= total[v] /\ total[v] <= next[v] /\ f[i][v] \in Nat
      BY <1>1, <1>4, <1>5 DEF Counts
    <3> QED
      BY <1>7, <2>1, <3>1
  <2>3. \A v \in Writers : g[k][v] <= next[v]
    BY <1>8, <2>1
  <2> QED
    BY <1>9, <2>2, <2>3
<1>12. Follows(g, PairsOf(u, k), k)
  <2> SUFFICES ASSUME NEW i \in 1..k
               PROVE  \E v \in Writers :
                        /\ g[i] = NextOf(g[i - 1], v)
                        /\ PairsOf(u, k)[i] = Pieces(LineOf(g[i - 1], v))
                        /\ v \in Hashes => g[i - 1][v] < DigestLine
    BY DEF Follows
  <2>1. CASE i = k
    <3>1. g[i] = next /\ g[i - 1] = total
      BY <1>1, <1>7, <1>8, <2>1
    <3>2. PairsOf(u, k)[i] = <<p[1], p[2]>>
      BY <1>6, <2>1 DEF PairsOf
    <3>3. <<p[1], p[2]>> = p
      BY DEF p, Pieces
    <3> QED
      BY <3>1, <3>2, <3>3 DEF p, next
  <2>2. CASE i # k
    <3>1. i \in 1..n /\ i \in 0..n /\ i - 1 \in 0..n
      BY <2>2
    <3>2. g[i] = f[i] /\ g[i - 1] = f[i - 1]
      BY <1>7, <3>1
    <3>3. PairsOf(u, k)[i] = PairsOf(s, n)[i]
      <4>1. 2 * i - 1 \in 1..Len(s) /\ 2 * i \in 1..Len(s)
        BY <1>1, <3>1
      <4> QED
        BY <1>6, <3>1, <4>1 DEF PairsOf
    <3>4. \E v \in Writers :
            /\ f[i] = NextOf(f[i - 1], v)
            /\ PairsOf(s, n)[i] = Pieces(LineOf(f[i - 1], v))
            /\ v \in Hashes => f[i - 1][v] < DigestLine
      BY <1>1, <3>1 DEF Follows
    <3> QED
      BY <3>2, <3>3, <3>4
  <2> QED
    BY <2>1, <2>2
<1> DEFINE half == <<>>
<1>13. Len(half) = 0
  OBVIOUS
<1>14. Len(u) = 2 * k + Len(half) /\ \A i \in 1..Len(half) : u[2 * k + i] = half[i]
  BY <1>6, <1>13
<1> HIDE DEF half, k
<1>15. Stream(u, g, k, next, half)
  BY <1>8, <1>10, <1>11, <1>12, <1>14 DEF Stream
<1> QED
  BY <1>0, <1>15 DEF u, p, next, half, k

\* The go command ends within a line.
LEMMA StreamEnd ==
  ASSUME NEW s \in Seq(PieceSet), NEW n \in Nat, NEW f, NEW total, NEW x \in PieceSet,
         Stream(s, f, n, total, <<>>)
  PROVE  Stream(Append(s, x), f, n, total, <<x>>)
<1> DEFINE u == Append(s, x)
           half == <<x>>
<1>1. /\ Len(s) = 2 * n
      /\ f \in [0..n -> Counts]
      /\ f[n] = total
      /\ \A i \in 0..n : \A v \in Writers : f[i][v] <= total[v]
      /\ Follows(f, PairsOf(s, n), n)
  <2>1. Len(<<>>) = 0
    OBVIOUS
  <2>2. Len(s) = 2 * n + Len(<<>>)
    BY DEF Stream
  <2> QED
    BY <2>1, <2>2 DEF Stream
<1>2. Len(u) = 2 * n + 1 /\ u[2 * n + 1] = x /\ \A i \in 1..(2 * n) : u[i] = s[i]
  BY <1>1
<1>3. Len(half) = 1 /\ half[1] = x
  OBVIOUS
<1> HIDE DEF u, half
<1>4. PairsOf(u, n) = PairsOf(s, n)
  <2>1. \A i \in 1..n : 2 * i - 1 \in 1..(2 * n) /\ 2 * i \in 1..(2 * n)
    OBVIOUS
  <2>2. \A i \in 1..n : <<u[2 * i - 1], u[2 * i]>> = <<s[2 * i - 1], s[2 * i]>>
    BY <1>2, <2>1
  <2> QED
    BY <2>2, Zenon DEF PairsOf
<1>5. Len(u) = 2 * n + Len(half) /\ \A i \in 1..Len(half) : u[2 * n + i] = half[i]
  BY <1>2, <1>3
<1>6. Stream(u, f, n, total, half)
  BY <1>1, <1>4, <1>5 DEF Stream
<1> QED
  BY <1>6 DEF u, half
-----------------------------------------------------------------------------
(* The invariant.                                                          *)
Total == [w \in Writers |-> IF w = Message THEN messages ELSE printed[w]]
Half == IF trailing THEN <<Piece(MessageLine(messages + 1), FALSE)>> ELSE <<>>
Due == 2 * messages + IF trailing THEN 1 ELSE 0

Mixes(b) ==
  \A n \in DOMAIN b :
    \E h \in {n} \X (1..MaxInstances), k \in 1..DigestLine : b[n] = BlockAfter(h, k)

TypeInv ==
  /\ printed \in [Hashes -> 0..DigestLine]
  /\ messages \in 0..MaxMessages /\ trailing \in BOOLEAN
  /\ pipe \in Seq(PieceSet) /\ Len(pipe) <= PipeSize + 1
  /\ IsHalf(buf)
  /\ writeErr \in BOOLEAN
  /\ phase \in {"building", "ended", "flushed"}
  /\ phase = "building" => ~trailing /\ Len(pipe) <= PipeSize
  /\ phase = "flushed" => pipe = <<>> /\ buf = <<>>
  /\ writeErr => buf = <<>>

OutInv == out = Said(Len(out)) /\ Len(out) \in 0..Due

BlocksInv ==
  /\ ambiguous \subseteq Names
  /\ DOMAIN blocks \subseteq Names \ ambiguous
  /\ Mixes(blocks)

\* What is still to come and what has come out make what was printed.
StreamInv ==
  ~writeErr /\ phase # "flushed" =>
    \E n \in Nat : \E f :
      /\ Made(Collected, f[0])
      /\ Stream(buf \o pipe, f, n, Total, Half)

FlushInv ==
  ~writeErr /\ phase = "flushed" =>
    /\ out = Said(Due)
    /\ \A n \in Names : NameIs(blocks, ambiguous, Total, n)

LogInv == TypeInv /\ OutInv /\ BlocksInv /\ StreamInv /\ FlushInv

\* What was printed, as counts.
LEMMA TotalType ==
  ASSUME TypeInv
  PROVE  /\ Total \in Counts
         /\ Total[Message] = messages
         /\ \A h \in Hashes : Total[h] = printed[h] /\ Total[h] \in 0..DigestLine
         /\ messages \in Nat /\ Due \in Nat
<1>1. Message \notin Hashes
  BY LogAssumption DEF LogAssumption, Hashes
<1>2. DigestLine \in Nat /\ MaxMessages \in Nat
  BY LogAssumption DEF LogAssumption, DigestLine
<1>3. messages \in Nat /\ \A h \in Hashes : printed[h] \in 0..DigestLine /\ printed[h] \in Nat
  BY <1>2 DEF TypeInv
<1>4. Total \in Counts /\ Total[Message] = messages /\ \A h \in Hashes : Total[h] = printed[h]
  BY <1>1, <1>3 DEF Total, Counts, Writers
<1>5. Due \in Nat
  BY <1>3 DEF Due
<1> QED
  BY <1>3, <1>4, <1>5

\* What has been made of the lines counted is as the invariant wants it.
LEMMA MadeInv ==
  ASSUME NEW c \in Counts, NEW t, Made(t, c), \A h \in Hashes : c[h] <= DigestLine
  PROVE  /\ t.ambiguous \subseteq Names
         /\ DOMAIN t.blocks \subseteq Names \ t.ambiguous
         /\ Mixes(t.blocks)
         /\ t.out = Said(2 * c[Message]) /\ Len(t.out) = 2 * c[Message]
<1>1. /\ DOMAIN t.blocks \subseteq Names /\ t.ambiguous \subseteq Names
      /\ \A n \in Names : NameIs(t.blocks, t.ambiguous, c, n)
  BY DEF Made
<1>2. t.out = Said(2 * c[Message]) /\ Len(t.out) = 2 * c[Message]
  <2>1. t = [out |-> Said(2 * c[Message]), blocks |-> t.blocks, ambiguous |-> t.ambiguous]
    BY DEF Made
  <2>2. t.out = Said(2 * c[Message])
    BY <2>1
  <2>3. 2 * c[Message] \in Nat
    BY DEF Counts, Writers
  <2> QED
    BY <2>2, <2>3, SaidIs
<1>3. ASSUME NEW n \in DOMAIN t.blocks
      PROVE  n \notin t.ambiguous /\ \E h \in {n} \X (1..MaxInstances), k \in 1..DigestLine :
                                       t.blocks[n] = BlockAfter(h, k)
  <2>1. n \in Names /\ NameIs(t.blocks, t.ambiguous, c, n)
    BY <1>1, <1>3
  <2>2. PICK h \in Used(c, n) : Used(c, n) = {h}
    BY <1>3, <2>1 DEF NameIs
  <2>3. h \in {n} \X (1..MaxInstances) /\ h \in Hashes
    BY <2>1 DEF Used, Hashes
  <2>4. c[h] \in 1..DigestLine
    <3>1. c[h] > 0 /\ c[h] \in Nat /\ DigestLine \in Nat /\ c[h] <= DigestLine
      BY <2>3, LogAssumption DEF Used, Counts, Writers, LogAssumption, DigestLine
    <3> QED
      BY <3>1
  <2>5. t.blocks[n] = BlockAfter(h, c[h])
    BY <2>1, <2>2 DEF NameIs
  <2>6. n \notin t.ambiguous
    BY <2>1, <2>2 DEF NameIs
  <2> QED
    BY <2>3, <2>4, <2>5, <2>6
<1> QED
  BY <1>1, <1>2, <1>3 DEF Mixes

\* The invariant holds before anything is printed.
LEMMA LogInit ==
  ASSUME Init
  PROVE  LogInv
<1> USE DEF Init
<1>1. /\ MaxInputs \in Nat /\ MaxMessages \in Nat /\ PipeSize \in Nat /\ Message \notin Hashes
      /\ DigestLine \in Nat
  BY LogAssumption DEF LogAssumption, Hashes, DigestLine
<1>2. IsHalf(<<>>)
  BY DEF IsHalf
<1>3. TypeInv
  <2>1. Len(pipe) = 0 /\ pipe \in Seq(PieceSet)
    OBVIOUS
  <2>2. printed \in [Hashes -> 0..DigestLine]
    BY <1>1
  <2>3. messages \in 0..MaxMessages
    BY <1>1
  <2>4. Len(pipe) <= PipeSize + 1 /\ Len(pipe) <= PipeSize
    BY <1>1, <2>1
  <2>5. IsHalf(buf)
    BY <1>2
  <2> QED
    BY <2>1, <2>2, <2>3, <2>4, <2>5, Zenon DEF TypeInv
<1>4. Said(0) = <<>>
  <2>1. 0 \in Nat /\ Len(Said(0)) = 0 /\ Said(0) \in Seq(PieceSet)
    BY SaidIs
  <2> QED
    BY <2>1
<1>5. OutInv
  <2>1. Due = 0 /\ Len(out) = 0
    BY DEF Due
  <2> QED
    BY <1>4, <2>1 DEF OutInv
<1>6. BlocksInv
  BY DEF BlocksInv, Mixes
<1>7. StreamInv
  <2> DEFINE f == [i \in 0..0 |-> Total]
  <2>1. Total \in Counts /\ \A w \in Writers : Total[w] = 0
    BY <1>1 DEF Total, Counts, Writers
  <2>2. f[0] = Total /\ f \in [0..0 -> Counts]
    BY <2>1
  <2>3. buf \o pipe = <<>> /\ Half = <<>>
    <3>1. buf = <<>> /\ pipe = <<>>
      OBVIOUS
    <3>2. <<>> \o <<>> = <<>>
      OBVIOUS
    <3>3. Half = <<>>
      BY DEF Half
    <3> QED
      BY <3>1, <3>2, <3>3
  <2> HIDE DEF f
  <2>4. Follows(f, PairsOf(<<>>, 0), 0)
    BY DEF Follows
  <2>5. Stream(<<>>, f, 0, Total, <<>>)
    <3> DEFINE e == <<>>
    <3>1. Len(e) = 0
      OBVIOUS
    <3> HIDE DEF e
    <3>2. Len(e) = 2 * 0 + Len(e) /\ \A i \in 1..Len(e) : e[2 * 0 + i] = e[i]
      BY <3>1
    <3>3. \A i \in 0..0 : \A w \in Writers : f[i][w] <= Total[w]
      BY <2>1, <2>2
    <3>4. Stream(e, f, 0, Total, e)
      BY <2>2, <2>4, <3>2, <3>3 DEF Stream, e
    <3> QED
      BY <3>4 DEF e
  <2>6. Made(Collected, Total)
    <3>1. Message \in Writers /\ 2 * Total[Message] = 0
      BY <2>1 DEF Writers
    <3>2. Collected.blocks = blocks /\ Collected.ambiguous = ambiguous
      BY DEF Collected
    <3>3. \A n \in Names : Used(Total, n) = {}
      BY <2>1 DEF Used, Hashes, Writers
    <3>4. DOMAIN blocks = {} /\ ambiguous = {}
      OBVIOUS
    <3>5. \A n \in Names : NameIs(blocks, ambiguous, Total, n)
      BY <3>3, <3>4 DEF NameIs
    <3>6. Collected = [out |-> Said(2 * Total[Message]), blocks |-> blocks, ambiguous |-> ambiguous]
      BY <1>4, <3>1 DEF Collected
    <3> QED
      BY <3>2, <3>4, <3>5, <3>6 DEF Made
  <2> QED
    BY <2>2, <2>3, <2>5, <2>6 DEF StreamInv
<1>8. FlushInv
  BY DEF FlushInv
<1> QED
  BY <1>3, <1>5, <1>6, <1>7, <1>8 DEF LogInv

\* A line goes into the pipe.
LEMMA EmitInv ==
  ASSUME LogInv, NEW w \in Writers, Emit(LineOf(Total, w)),
         w \in Hashes => Total[w] < DigestLine, Total' = NextOf(Total, w),
         printed' \in [Hashes -> 0..DigestLine],
         messages' \in 0..MaxMessages, messages <= messages'
  PROVE  LogInv'
<1> USE DEF LogInv
<1> DEFINE p == Pieces(LineOf(Total, w))
<1>1. /\ phase = "building" /\ pipe' = pipe \o p /\ Len(pipe) + 2 <= PipeSize
      /\ trailing' = trailing /\ buf' = buf /\ writeErr' = writeErr /\ out' = out
      /\ blocks' = blocks /\ ambiguous' = ambiguous /\ phase' = phase
  BY DEF Emit
<1>2. Total \in Counts /\ messages \in Nat /\ ~trailing
  BY <1>1, TotalType DEF TypeInv
<1>3. p \in Seq(PieceSet) /\ Len(p) = 2
  BY <1>2, PiecesType
<1>4. pipe \in Seq(PieceSet) /\ buf \in Seq(PieceSet)
  BY DEF TypeInv, IsHalf
<1> HIDE DEF p
<1>5. PipeSize \in Nat
  BY LogAssumption DEF LogAssumption
<1>6. TypeInv'
  <2>1. pipe' \in Seq(PieceSet) /\ Len(pipe') = Len(pipe) + 2
    <3>1. pipe \o p \in Seq(PieceSet) /\ Len(pipe \o p) = Len(pipe) + Len(p)
      BY <1>3, <1>4, ConcatProperties
    <3> QED
      BY <1>1, <1>3, <3>1
  <2>2. Len(pipe) \in Nat
    BY <1>4, LenProperties
  <2>3. Len(pipe') <= PipeSize + 1 /\ Len(pipe') <= PipeSize
    BY <1>1, <1>5, <2>1, <2>2
  <2>4. IsHalf(buf')
    BY <1>1 DEF TypeInv
  <2> QED
    BY <1>1, <1>2, <2>1, <2>3, <2>4, Zenon DEF TypeInv
<1>7. OutInv'
  <2>1. Due = 2 * messages /\ Due' = 2 * messages'
    BY <1>1, <1>2 DEF Due
  <2>2. messages' \in Nat
    BY LogAssumption DEF LogAssumption
  <2>3. Len(out) \in 0..Due'
    BY <1>2, <2>1, <2>2 DEF OutInv
  <2> QED
    BY <1>1, <2>3 DEF OutInv
<1>8. BlocksInv'
  BY <1>1 DEF BlocksInv, Mixes
<1>9. StreamInv'
  <2> SUFFICES ASSUME ~writeErr
               PROVE  \E n \in Nat : \E f :
                        /\ Made(Collected', f[0])
                        /\ Stream(buf' \o pipe', f, n, Total', Half')
    BY <1>1 DEF StreamInv
  <2>1. PICK n \in Nat : \E f : Made(Collected, f[0]) /\ Stream(buf \o pipe, f, n, Total, Half)
    BY <1>1 DEF StreamInv
  <2>2. PICK f : Made(Collected, f[0]) /\ Stream(buf \o pipe, f, n, Total, Half)
    BY <2>1
  <2>3. Half = <<>> /\ Half' = <<>>
    BY <1>1, <1>2 DEF Half
  <2>4. buf \o pipe \in Seq(PieceSet)
    BY <1>4, ConcatProperties
  <2>5. Stream(buf \o pipe, f, n, Total, <<>>)
    BY <2>2, <2>3
  <2>6. PICK g : g[0] = f[0] /\ Stream((buf \o pipe) \o p, g, n + 1, NextOf(Total, w), <<>>)
    <3>1. \E g : g[0] = f[0] /\ Stream((buf \o pipe) \o Pieces(LineOf(Total, w)), g, n + 1,
                                       NextOf(Total, w), <<>>)
      BY <2>4, <2>5, StreamAdd
    <3> QED
      BY <3>1 DEF p
  <2>7. (buf \o pipe) \o p = buf' \o pipe'
    <3>1. \A s, t, u \in Seq(PieceSet) : (s \o t) \o u = s \o (t \o u)
      BY ConcatAssociative
    <3>2. (buf \o pipe) \o p = buf \o (pipe \o p)
      BY <1>3, <1>4, <3>1
    <3> QED
      BY <1>1, <3>2
  <2>8. Stream(buf' \o pipe', g, n + 1, Total', Half')
    BY <2>3, <2>6, <2>7
  <2>9. Collected' = Collected
    BY <1>1 DEF Collected
  <2>10. n + 1 \in Nat
    OBVIOUS
  <2> QED
    BY <2>2, <2>6, <2>8, <2>9, <2>10
<1>10. FlushInv'
  BY <1>1 DEF FlushInv
<1> QED
  BY <1>6, <1>7, <1>8, <1>9, <1>10

\* Each step keeps the invariant: a hash prints,
LEMMA HashPrintsInv ==
  ASSUME LogInv, NEW h \in Hashes, HashPrints(h)
  PROVE  LogInv'
<1>1. /\ printed[h] < DigestLine /\ printed' = [printed EXCEPT ![h] = @ + 1]
      /\ Emit([of |-> h, at |-> printed'[h]]) /\ messages' = messages
  BY DEF HashPrints
<1>2. /\ Total \in Counts /\ Total[h] = printed[h] /\ Message \notin Hashes
      /\ printed \in [Hashes -> 0..DigestLine] /\ messages \in 0..MaxMessages /\ messages \in Nat
  BY LogAssumption, TotalType DEF LogInv, TypeInv, LogAssumption, Hashes
<1>3. DigestLine \in Nat
  BY LogAssumption DEF LogAssumption, DigestLine
<1>4. printed'[h] = printed[h] + 1 /\ \A g \in Hashes : g # h => printed'[g] = printed[g]
  BY <1>1, <1>2
<1>5. printed' \in [Hashes -> 0..DigestLine]
  BY <1>1, <1>2, <1>3
<1>6. Emit(LineOf(Total, h))
  BY <1>1, <1>2, <1>4 DEF LineOf
<1>7. Total' = NextOf(Total, h)
  <2>1. h # Message /\ h \in Writers
    BY <1>2 DEF Writers
  <2>2. \A w \in Writers : (IF w = Message THEN messages' ELSE printed'[w]) =
                           (IF w = h THEN Total[w] + 1 ELSE Total[w])
    <3> SUFFICES ASSUME NEW w \in Writers
                 PROVE  (IF w = Message THEN messages' ELSE printed'[w]) =
                        (IF w = h THEN Total[w] + 1 ELSE Total[w])
      OBVIOUS
    <3>1. Total[w] = IF w = Message THEN messages ELSE printed[w]
      BY DEF Total
    <3>2. w = Message \/ w \in Hashes
      BY DEF Writers
    <3> QED
      BY <1>1, <1>2, <1>4, <2>1, <3>1, <3>2
  <2> QED
    BY <2>2, Zenon DEF Total, NextOf
<1>8. messages' \in 0..MaxMessages /\ messages <= messages'
  BY <1>1, <1>2
<1>9. h \in Writers
  BY DEF Writers
<1>10. Total[h] < DigestLine
  BY <1>1, <1>2
<1> QED
  BY <1>5, <1>6, <1>7, <1>8, <1>9, <1>10, EmitInv

\* the go command says something,
LEMMA MessagePrintsInv ==
  ASSUME LogInv, MessagePrints
  PROVE  LogInv'
<1>1. /\ messages < MaxMessages /\ messages' = messages + 1
      /\ Emit([of |-> Message, at |-> messages']) /\ printed' = printed
  BY DEF MessagePrints
<1>2. /\ Total \in Counts /\ Total[Message] = messages /\ Message \notin Hashes
      /\ printed \in [Hashes -> 0..DigestLine] /\ messages \in 0..MaxMessages /\ messages \in Nat
  BY LogAssumption, TotalType DEF LogInv, TypeInv, LogAssumption, Hashes
<1>3. MaxMessages \in Nat
  BY LogAssumption DEF LogAssumption
<1>4. messages' \in 0..MaxMessages /\ messages <= messages'
  BY <1>1, <1>2, <1>3
<1>5. Emit(LineOf(Total, Message))
  BY <1>1, <1>2 DEF LineOf
<1>6. Total' = NextOf(Total, Message)
  <2>1. \A w \in Writers : (IF w = Message THEN messages' ELSE printed'[w]) =
                           (IF w = Message THEN Total[w] + 1 ELSE Total[w])
    BY <1>1, <1>2 DEF Total
  <2> QED
    BY <2>1, Zenon DEF Total, NextOf
<1>7. Message \in Writers
  BY DEF Writers
<1> QED
  BY <1>1, <1>2, <1>4, <1>5, <1>6, <1>7, EmitInv

\* the go command ends, perhaps within a line,
LEMMA BuildEndsInv ==
  ASSUME LogInv, BuildEnds
  PROVE  LogInv'
<1> USE DEF LogInv
<1> DEFINE x == Piece(MessageLine(messages + 1), FALSE)
<1>1. /\ phase = "building" /\ phase' = "ended"
      /\ printed' = printed /\ messages' = messages /\ buf' = buf /\ writeErr' = writeErr
      /\ out' = out /\ blocks' = blocks /\ ambiguous' = ambiguous
      /\ \/ pipe' = pipe /\ trailing' = trailing
         \/ pipe' = Append(pipe, x) /\ trailing' = TRUE
  BY DEF BuildEnds, MessageLine
<1>2. /\ Total \in Counts /\ Total[Message] = messages /\ messages \in Nat /\ ~trailing
      /\ pipe \in Seq(PieceSet) /\ buf \in Seq(PieceSet) /\ Len(pipe) <= PipeSize
  BY <1>1, TotalType DEF TypeInv, IsHalf
<1>3. Total' = Total /\ Collected' = Collected
  BY <1>1 DEF Total, Collected
<1>4. x \in PieceSet
  <2>1. x = Piece(LineOf(Total, Message), FALSE) /\ Message \in Writers
    BY <1>2 DEF LineOf, MessageLine, Writers
  <2> QED
    BY <1>2, <2>1, PiecesType
<1>5. PipeSize \in Nat /\ Len(pipe) \in Nat
  BY <1>2, LogAssumption, LenProperties DEF LogAssumption
<1> HIDE DEF x
<1>6. TypeInv'
  <2>1. pipe' \in Seq(PieceSet) /\ Len(pipe') <= PipeSize + 1
    <3>1. Append(pipe, x) \in Seq(PieceSet) /\ Len(Append(pipe, x)) = Len(pipe) + 1
      BY <1>2, <1>4
    <3>2. Len(pipe) + 1 <= PipeSize + 1 /\ Len(pipe) <= PipeSize + 1
      BY <1>2, <1>5
    <3> QED
      BY <1>1, <1>2, <3>1, <3>2
  <2>2. trailing' \in BOOLEAN
    BY <1>1 DEF TypeInv
  <2>3. IsHalf(buf')
    BY <1>1 DEF TypeInv
  <2>4. phase' # "building" /\ phase' # "flushed" /\ phase' \in {"building", "ended", "flushed"}
    BY <1>1
  <2> QED
    BY <1>1, <2>1, <2>2, <2>3, <2>4 DEF TypeInv
<1>7. OutInv'
  <2>1. Due <= Due'
    BY <1>1, <1>2 DEF Due
  <2>2. Due \in Nat /\ Due' \in Nat
    BY <1>1, <1>2 DEF Due
  <2>3. Len(out) \in 0..Due'
    BY <2>1, <2>2 DEF OutInv
  <2> QED
    BY <1>1, <2>3 DEF OutInv
<1>8. BlocksInv'
  BY <1>1 DEF BlocksInv, Mixes
<1>9. StreamInv'
  <2> SUFFICES ASSUME ~writeErr
               PROVE  \E n \in Nat : \E f :
                        /\ Made(Collected, f[0])
                        /\ Stream(buf \o pipe', f, n, Total, Half')
    BY <1>1, <1>3 DEF StreamInv
  <2>1. PICK n \in Nat : \E f : Made(Collected, f[0]) /\ Stream(buf \o pipe, f, n, Total, Half)
    BY <1>1 DEF StreamInv
  <2>2. PICK f : Made(Collected, f[0]) /\ Stream(buf \o pipe, f, n, Total, Half)
    BY <2>1
  <2>3. CASE pipe' = pipe /\ trailing' = trailing
    <3>1. Half' = Half
      BY <1>1, <2>3 DEF Half
    <3> QED
      BY <2>2, <2>3, <3>1
  <2>4. CASE pipe' = Append(pipe, x) /\ trailing' = TRUE
    <3>1. Half = <<>> /\ Half' = <<x>>
      BY <1>1, <1>2, <2>4 DEF Half, x
    <3>2. buf \o pipe \in Seq(PieceSet)
      BY <1>2, ConcatProperties
    <3>3. Stream(Append(buf \o pipe, x), f, n, Total, <<x>>)
      BY <1>4, <2>2, <3>1, <3>2, StreamEnd
    <3>4. Append(buf \o pipe, x) = buf \o Append(pipe, x)
      <4>1. <<x>> \in Seq(PieceSet)
        BY <1>4
      <4>2. (buf \o pipe) \o <<x>> = buf \o (pipe \o <<x>>)
        BY <1>2, <4>1, ConcatAssociative
      <4>3. Append(buf \o pipe, x) = (buf \o pipe) \o <<x>>
        BY <1>4, <3>2, AppendIsConcat
      <4>4. Append(pipe, x) = pipe \o <<x>>
        BY <1>2, <1>4, AppendIsConcat
      <4> QED
        BY <4>2, <4>3, <4>4
    <3> QED
      BY <2>2, <2>4, <3>1, <3>3, <3>4
  <2> QED
    BY <1>1, <2>3, <2>4
<1>10. FlushInv'
  BY <1>1 DEF FlushInv
<1> QED
  BY <1>6, <1>7, <1>8, <1>9, <1>10

\* a chunk is written to the tee, which may stop at any of its lines,
LEMMA CopyInv ==
  ASSUME LogInv, Copy
  PROVE  LogInv'
<1> USE DEF LogInv
<1>1. PICK k \in 1..Len(pipe) :
        /\ pipe' = SubSeq(pipe, k + 1, Len(pipe))
        /\ \/ /\ writeErr
              /\ UNCHANGED <<buf, writeErr, out, blocks, ambiguous>>
           \/ /\ ~writeErr
              /\ \E bad \in 0..k : Write(k, bad)
  BY DEF Copy
<1>2. /\ printed' = printed /\ messages' = messages /\ trailing' = trailing /\ phase' = phase
      /\ Total' = Total /\ Half' = Half /\ Due' = Due
  BY DEF Copy, Total, Half, Due
<1>3. /\ Total \in Counts /\ Total[Message] = messages /\ messages \in Nat
      /\ \A h \in Hashes : Total[h] \in 0..DigestLine
      /\ pipe \in Seq(PieceSet) /\ buf \in Seq(PieceSet) /\ Len(pipe) <= PipeSize + 1
  BY TotalType DEF TypeInv, IsHalf
<1> DEFINE l == Len(pipe)
           q == SubSeq(pipe, 1, k)
           b == SubSeq(pipe, k + 1, l)
           a == buf \o q
<1>4. l \in Nat /\ PipeSize \in Nat /\ k \in Nat /\ 1 <= k /\ k <= l /\ DigestLine \in Nat
  BY <1>3, LenProperties, LogAssumption DEF LogAssumption, DigestLine
<1>5. phase # "flushed"
  <2>1. Len(<<>>) = 0
    OBVIOUS
  <2>2. pipe # <<>>
    BY <1>4, <2>1
  <2> QED
    BY <2>2 DEF TypeInv
<1>6. /\ q \in Seq(PieceSet) /\ b \in Seq(PieceSet) /\ Len(b) = l - k /\ q \o b = pipe
  <2>1. \A i \in 1..l : pipe[i] \in PieceSet
    BY <1>3
  <2>2. /\ q \in Seq(PieceSet) /\ Len(q) = k /\ \A i \in 1..k : q[i] = pipe[i]
    BY <1>3, <1>4
  <2>3. /\ b \in Seq(PieceSet) /\ Len(b) = l - k /\ \A i \in 1..(l - k) : b[i] = pipe[k + i]
    BY <1>3, <1>4
  <2> HIDE DEF q, b
  <2>4. /\ q \o b \in Seq(PieceSet) /\ Len(q \o b) = Len(q) + Len(b)
        /\ \A i \in 1..(Len(q) + Len(b)) :
             (q \o b)[i] = IF i <= Len(q) THEN q[i] ELSE b[i - Len(q)]
    BY <2>2, <2>3, ConcatProperties
  <2>5. Len(q) + Len(b) = l
    BY <1>4, <2>2, <2>3
  <2>6. ASSUME NEW i \in 1..l PROVE (q \o b)[i] = pipe[i]
    <3>1. CASE i <= k
      <4>1. i \in 1..k /\ i \in 1..l
        BY <3>1
      <4> QED
        BY <2>2, <2>4, <2>5, <3>1, <4>1
    <3>2. CASE ~(i <= k)
      <4> DEFINE j == i - k
      <4>1. j \in 1..(l - k) /\ k + j = i
        BY <1>4, <3>2
      <4>2. (q \o b)[i] = b[j]
        BY <2>2, <2>4, <2>5, <3>2
      <4> HIDE DEF j
      <4> QED
        BY <2>3, <4>1, <4>2
    <3> QED
      BY <3>1, <3>2
  <2>7. Len(q \o b) = Len(pipe)
    BY <2>4, <2>5
  <2>8. \A i \in 1..Len(q \o b) : (q \o b)[i] = pipe[i]
    BY <2>6, <2>7
  <2> QED
    BY <1>3, <2>2, <2>3, <2>4, <2>7, <2>8, SeqEqual
<1>7. pipe' \in Seq(PieceSet) /\ Len(pipe') <= PipeSize + 1
      /\ (phase' = "building" => ~trailing' /\ Len(pipe') <= PipeSize)
  <2>1. pipe' = b
    BY <1>1
  <2> HIDE DEF b
  <2>2. Len(pipe') <= l
    BY <1>4, <1>6, <2>1
  <2>3. Len(pipe') \in Nat
    BY <1>6, <2>1, LenProperties
  <2> HIDE DEF l
  <2>4. \A x \in Nat : l <= x => Len(pipe') <= x
    BY <1>4, <2>2, <2>3
  <2>5. l <= PipeSize + 1 /\ PipeSize + 1 \in Nat
    BY <1>3, <1>4 DEF l
  <2>6. phase = "building" => ~trailing /\ l <= PipeSize
    BY DEF TypeInv, l
  <2> QED
    BY <1>2, <1>4, <1>6, <2>1, <2>4, <2>5, <2>6
<1>8. FlushInv'
  BY <1>2, <1>5 DEF FlushInv
<1>9. CASE writeErr
  <2>1. /\ buf' = buf /\ writeErr' = writeErr /\ out' = out /\ blocks' = blocks
        /\ ambiguous' = ambiguous
    BY <1>1, <1>9
  <2>2. TypeInv'
    <3>1. IsHalf(buf')
      BY <2>1 DEF TypeInv
    <3> QED
      BY <1>2, <1>5, <1>7, <2>1, <3>1 DEF TypeInv
  <2>3. OutInv' /\ BlocksInv' /\ StreamInv'
    BY <1>2, <1>9, <2>1 DEF OutInv, BlocksInv, Mixes, StreamInv
  <2> QED
    BY <1>8, <2>2, <2>3
<1>10. CASE ~writeErr
  <2>1. PICK bad \in 0..k : Write(k, bad)
    BY <1>1, <1>10
  <2>2. PICK n \in Nat : \E f : Made(Collected, f[0]) /\ Stream(buf \o pipe, f, n, Total, Half)
    BY <1>5, <1>10 DEF StreamInv
  <2>3. PICK f : Made(Collected, f[0]) /\ Stream(buf \o pipe, f, n, Total, Half)
    BY <2>2
  <2>4. a \in Seq(PieceSet) /\ a \o b = buf \o pipe
    <3> HIDE DEF q, b
    <3>1. a \in Seq(PieceSet)
      BY <1>3, <1>6, ConcatProperties
    <3>2. a \o b = buf \o (q \o b)
      <4>1. buf \in Seq(PieceSet) /\ q \in Seq(PieceSet) /\ b \in Seq(PieceSet)
        BY <1>3, <1>6
      <4>2. \A u, v, w \in Seq(PieceSet) : (u \o v) \o w = u \o (v \o w)
        BY ConcatAssociative
      <4>3. (buf \o q) \o b = buf \o (q \o b)
        BY <4>1, <4>2
      <4> QED
        BY <4>3
    <3> QED
      BY <1>6, <3>1, <3>2
  <2>5. IsHalf(Half)
    <3> DEFINE x == Piece(MessageLine(messages + 1), FALSE)
    <3>1. x \in PieceSet /\ ~x.ends
      <4>1. x = Piece(LineOf(Total, Message), FALSE) /\ Message \in Writers
        BY <1>3 DEF LineOf, MessageLine, Writers
      <4>2. x.ends = FALSE
        BY DEF Piece
      <4> QED
        BY <1>3, <4>1, <4>2, PiecesType
    <3> HIDE DEF x
    <3>2. IsHalf(<<x>>) /\ IsHalf(<<>>)
      BY <3>1 DEF IsHalf
    <3> QED
      BY <3>2 DEF Half, x
  <2> HIDE DEF a, b
  <2>6. PICK m \in 0..n :
           /\ LinesOf(a) = PairsOf(a, m)
           /\ Follows(f, PairsOf(a, m), m)
           /\ IsHalf(Rest(a))
           /\ f \in [0..n -> Counts]
           /\ \A i \in 0..n : \A w \in Writers : f[i][w] <= Total[w]
           /\ Stream(Rest(a) \o b, [i \in 0..(n - m) |-> f[m + i]], n - m, Total, Half)
    <3>1. b \in Seq(PieceSet) /\ Stream(a \o b, f, n, Total, Half)
      BY <1>6, <2>3, <2>4
    <3> QED
      BY <2>4, <2>5, <3>1, StreamTake, ZenonT(60)
  <2> DEFINE ls == LinesOf(a)
             j == IF bad = 0 THEN m ELSE bad - 1
             after == After(ls)[j]
             c == f[j]
  <2>7. Len(ls) = m /\ DOMAIN ls = 1..m
    <3>1. m \in Nat /\ ls = [i \in 1..m |-> <<a[2 * i - 1], a[2 * i]>>]
      BY <2>6 DEF PairsOf
    <3> HIDE DEF ls
    <3> QED
      BY <3>1
  <2>8. /\ bad \in {0} \cup DOMAIN ls
        /\ out' = after.out /\ blocks' = after.blocks /\ ambiguous' = after.ambiguous
        /\ buf' = IF bad = 0 THEN Rest(a) ELSE <<>>
        /\ writeErr' = (bad # 0)
    <3>1. /\ bad \in {0} \cup {i \in DOMAIN ls : ~IsHashLine(ls[i])}
          /\ out' = After(ls)[IF bad = 0 THEN Len(ls) ELSE bad - 1].out
          /\ blocks' = After(ls)[IF bad = 0 THEN Len(ls) ELSE bad - 1].blocks
          /\ ambiguous' = After(ls)[IF bad = 0 THEN Len(ls) ELSE bad - 1].ambiguous
          /\ buf' = (IF bad = 0 THEN Rest(a) ELSE <<>>)
          /\ writeErr' = (bad # 0)
      BY <2>1, Zenon DEF Write, a
    <3> HIDE DEF ls
    <3>2. (IF bad = 0 THEN Len(ls) ELSE bad - 1) = j
      BY <2>7
    <3> HIDE DEF j
    <3> QED
      BY <3>1, <3>2
  <2>9. j \in 0..m /\ j \in 0..n /\ (bad = 0 => j = m)
    BY <2>6, <2>7, <2>8
  <2>10. \A i \in 0..m : Made(After(ls)[i], f[i])
    <3>1. m \in Nat /\ \A i \in 0..m : f[i] \in Counts
      BY <2>6
    <3>2. Follows(f, ls, m)
      BY <2>6
    <3> HIDE DEF ls
    <3> QED
      BY <2>3, <2>7, <3>1, <3>2, LinesMade
  <2> HIDE DEF ls, j
  <2>11. Made(after, c) /\ c \in Counts /\ \A w \in Writers : c[w] <= Total[w]
    BY <2>6, <2>9, <2>10
  <2> HIDE DEF after, c
  <2>12. \A h \in Hashes : c[h] <= DigestLine
    <3> SUFFICES ASSUME NEW h \in Hashes PROVE c[h] <= DigestLine
      OBVIOUS
    <3>1. h \in Writers
      BY DEF Writers
    <3>2. c[h] \in Nat /\ c[h] <= Total[h] /\ Total[h] \in 0..DigestLine
      BY <1>3, <2>11, <3>1 DEF Counts
    <3> QED
      BY <1>4, <3>2
  <2>13. /\ after.ambiguous \subseteq Names
         /\ DOMAIN after.blocks \subseteq Names \ after.ambiguous
         /\ Mixes(after.blocks)
         /\ after.out = Said(2 * c[Message]) /\ Len(after.out) = 2 * c[Message]
    BY <2>11, <2>12, MadeInv
  <2>14. BlocksInv'
    <3>1. Mixes(blocks') /\ ambiguous' \subseteq Names /\ DOMAIN blocks' \subseteq Names \ ambiguous'
      BY <2>8, <2>13
    <3> QED
      BY <3>1 DEF BlocksInv, Mixes
  <2>15. OutInv'
    <3> DEFINE x == c[Message]
    <3>1. x \in Nat /\ x <= messages
      BY <1>3, <2>11 DEF Counts, Writers
    <3> HIDE DEF x
    <3>2. 2 * x \in 0..Due
      <4>1. CASE trailing
        BY <1>3, <3>1, <4>1 DEF Due
      <4>2. CASE ~trailing
        BY <1>3, <3>1, <4>2 DEF Due
      <4> QED
        BY <4>1, <4>2
    <3>3. out' = Said(2 * x) /\ Len(out') = 2 * x
      BY <2>8, <2>13 DEF x
    <3> QED
      BY <1>2, <3>2, <3>3 DEF OutInv
  <2>16. TypeInv'
    <3>1. IsHalf(<<>>)
      BY DEF IsHalf
    <3>2. IsHalf(buf')
      BY <2>6, <2>8, <3>1
    <3>3. writeErr' \in BOOLEAN /\ (writeErr' => buf' = <<>>)
      BY <2>8
    <3> QED
      BY <1>2, <1>5, <1>7, <3>2, <3>3, Zenon DEF TypeInv
  <2>17. StreamInv'
    <3> SUFFICES ASSUME ~writeErr'
                 PROVE  \E i \in Nat : \E g :
                          /\ Made(Collected', g[0])
                          /\ Stream(buf' \o pipe', g, i, Total, Half)
      BY <1>2 DEF StreamInv
    <3> DEFINE g == [i \in 0..(n - m) |-> f[m + i]]
    <3>1. bad = 0 /\ j = m
      BY <2>8, <2>9
    <3>2. buf' \o pipe' = Rest(a) \o b
      BY <1>1, <2>8, <3>1 DEF b
    <3>3. n - m \in Nat /\ g[0] = c
      <4>1. n - m \in Nat /\ 0 \in 0..(n - m) /\ m + 0 = m
        BY <2>6
      <4> QED
        BY <3>1, <4>1 DEF c
    <3> HIDE DEF g
    <3>4. Collected' = after
      <4>1. after = [out |-> Said(2 * c[Message]), blocks |-> after.blocks, ambiguous |-> after.ambiguous]
        BY <2>11 DEF Made
      <4>2. Collected' = [out |-> out', blocks |-> blocks', ambiguous |-> ambiguous']
        BY DEF Collected
      <4> QED
        BY <2>8, <2>13, <4>1, <4>2
    <3>5. Stream(buf' \o pipe', g, n - m, Total, Half)
      BY <2>6, <3>2 DEF g
    <3> QED
      BY <2>11, <3>3, <3>4, <3>5
  <2> QED
    BY <1>8, <2>14, <2>15, <2>16, <2>17
<1> QED
  BY <1>9, <1>10

\* the tee is flushed.
LEMMA FlushesInv ==
  ASSUME LogInv, Flush
  PROVE  LogInv'
<1> USE DEF LogInv
<1>1. /\ phase = "ended" /\ pipe = <<>> /\ phase' = "flushed" /\ buf' = <<>>
      /\ \/ out' = out \o Flushed /\ writeErr' = writeErr
         \/ writeErr' = TRUE /\ out' = out
      /\ printed' = printed /\ messages' = messages /\ trailing' = trailing /\ pipe' = pipe
      /\ blocks' = blocks /\ ambiguous' = ambiguous
  BY DEF Flush
<1>2. Total' = Total /\ Due' = Due
  BY <1>1 DEF Total, Due
<1>3. /\ Total \in Counts /\ Total[Message] = messages /\ messages \in Nat /\ Due \in Nat
      /\ buf \in Seq(PieceSet) /\ Len(buf) <= 1
  BY TotalType DEF TypeInv, IsHalf
<1>4. Len(buf) \in Nat /\ Flushed = buf
  <2> DEFINE lb == Len(buf)
  <2>1. lb \in Nat /\ lb # 2
    <3>1. lb \in Nat /\ lb <= 1
      BY <1>3, LenProperties
    <3> HIDE DEF lb
    <3> QED
      BY <3>1
  <2> QED
    BY <2>1 DEF Flushed, IsHashLine
<1>5. TypeInv'
  <2>1. IsHalf(<<>>)
    BY DEF IsHalf
  <2>2. writeErr' \in BOOLEAN
    BY <1>1 DEF TypeInv
  <2> QED
    BY <1>1, <2>1, <2>2 DEF TypeInv
<1>6. BlocksInv'
  BY <1>1 DEF BlocksInv, Mixes
<1>7. StreamInv'
  BY <1>1 DEF StreamInv
<1>8. CASE writeErr
  <2>1. buf = <<>>
    BY <1>8 DEF TypeInv
  <2>2. out' = out /\ writeErr'
    <3>1. out \in Seq(PieceSet)
      <4>1. Len(out) \in Nat /\ out = Said(Len(out))
        BY <1>3 DEF OutInv
      <4> QED
        BY <4>1, SaidIs
    <3>2. out \o <<>> = out
      BY <3>1, ConcatEmptySeq
    <3> QED
      BY <1>1, <1>4, <1>8, <2>1, <3>2
  <2> QED
    BY <1>2, <1>5, <1>6, <1>7, <2>2 DEF OutInv, FlushInv
<1>9. CASE ~writeErr
  <2>1. PICK n \in Nat : \E f : Made(Collected, f[0]) /\ Stream(buf \o pipe, f, n, Total, Half)
    BY <1>1, <1>9 DEF StreamInv
  <2>2. PICK f : Made(Collected, f[0]) /\ Stream(buf \o pipe, f, n, Total, Half)
    BY <2>1
  <2>3. buf \o pipe = buf
    BY <1>1, <1>3, ConcatEmptySeq
  <2>4. Stream(buf, f, n, Total, Half)
    BY <2>2, <2>3
  <2>5. /\ Len(buf) = 2 * n + Len(Half)
        /\ \A i \in 1..Len(Half) : buf[2 * n + i] = Half[i]
        /\ f[n] = Total
    BY <2>4 DEF Stream
  <2> DEFINE x == Piece(MessageLine(messages + 1), FALSE)
  <2>6. x \in PieceSet
    <3>1. x = Piece(LineOf(Total, Message), FALSE) /\ Message \in Writers
      BY <1>3 DEF LineOf, MessageLine, Writers
    <3> QED
      BY <1>3, <3>1, PiecesType
  <2> HIDE DEF x
  <2>7. Half \in Seq(PieceSet) /\ Len(Half) = IF trailing THEN 1 ELSE 0
    <3>1. <<x>> \in Seq(PieceSet) /\ <<>> \in Seq(PieceSet) /\ Len(<<x>>) = 1 /\ Len(<<>>) = 0
      BY <2>6
    <3>2. CASE trailing
      <4>1. Half = <<x>>
        BY <3>2 DEF Half, x
      <4> QED
        BY <3>1, <3>2, <4>1
    <3>3. CASE ~trailing
      <4>1. Half = <<>>
        BY <3>3 DEF Half
      <4> QED
        BY <3>1, <3>3, <4>1
    <3> QED
      BY <3>2, <3>3
  <2>8. n = 0
    <3>1. Len(Half) \in Nat
      BY <2>7, LenProperties
    <3> QED
      BY <1>3, <2>5, <3>1
  <2>9. buf = Half
    <3>1. Len(buf) = Len(Half)
      BY <2>5, <2>7, <2>8
    <3>2. \A i \in 1..Len(Half) : 2 * n + i = i
      BY <2>8
    <3>3. \A i \in 1..Len(buf) : buf[i] = Half[i]
      BY <2>5, <3>1, <3>2
    <3> QED
      BY <1>3, <2>7, <3>1, <3>3, SeqEqual
  <2>10. /\ out = Said(2 * messages) /\ \A i \in Names : NameIs(blocks, ambiguous, Total, i)
    <3>1. Made(Collected, Total)
      BY <2>2, <2>5, <2>8
    <3>2. Collected.out = out /\ Collected.blocks = blocks /\ Collected.ambiguous = ambiguous
      BY DEF Collected
    <3>3. Collected = [out |-> Said(2 * messages), blocks |-> Collected.blocks, ambiguous |-> Collected.ambiguous]
      BY <1>3, <3>1 DEF Made
    <3>4. Collected.out = Said(2 * messages)
      BY <3>3
    <3> QED
      BY <3>1, <3>2, <3>4 DEF Made
  <2>11. out \o Half = Said(Due)
    <3>1. CASE trailing
      <4>1. Half = <<Piece(MessageLine(messages + 1), FALSE)>> /\ Due = 2 * messages + 1
        BY <3>1 DEF Half, Due
      <4> QED
        BY <1>3, <2>10, <4>1, SaidNext
    <3>2. CASE ~trailing
      <4>1. Half = <<>> /\ Due = 2 * messages
        BY <1>3, <3>2 DEF Half, Due
      <4>2. out \in Seq(PieceSet)
        <5>1. 2 * messages \in Nat
          BY <1>3
        <5> QED
          BY <2>10, <5>1, SaidIs
      <4> QED
        BY <2>10, <4>1, <4>2, ConcatEmptySeq
    <3> QED
      BY <3>1, <3>2
  <2>12. CASE out' = out \o Flushed /\ writeErr' = writeErr
    <3>1. out' = Said(Due)
      BY <1>4, <2>9, <2>11, <2>12
    <3>2. Len(out') = Due
      BY <1>3, <3>1, SaidIs
    <3>3. OutInv'
      BY <1>2, <1>3, <3>1, <3>2 DEF OutInv
    <3>4. FlushInv'
      BY <1>1, <1>2, <2>10, <3>1 DEF FlushInv
    <3> QED
      BY <1>5, <1>6, <1>7, <3>3, <3>4
  <2>13. CASE writeErr' = TRUE /\ out' = out
    <3>1. OutInv' /\ FlushInv'
      BY <1>2, <2>13 DEF OutInv, FlushInv
    <3> QED
      BY <1>5, <1>6, <1>7, <3>1
  <2> QED
    BY <1>1, <2>12, <2>13
<1> QED
  BY <1>8, <1>9

\* The invariant is kept by every step.
LEMMA LogNext ==
  ASSUME LogInv, [Next]_vars
  PROVE  LogInv'
<1>1. ASSUME NEW h \in Hashes, HashPrints(h) PROVE LogInv'
  BY <1>1, HashPrintsInv
<1>2. CASE MessagePrints
  BY <1>2, MessagePrintsInv
<1>3. CASE BuildEnds
  BY <1>3, BuildEndsInv
<1>4. CASE Copy
  BY <1>4, CopyInv
<1>5. CASE Flush
  BY <1>5, FlushesInv
<1>6. CASE UNCHANGED vars
  <2>1. /\ printed' = printed /\ messages' = messages /\ trailing' = trailing /\ pipe' = pipe
        /\ buf' = buf /\ writeErr' = writeErr /\ out' = out /\ blocks' = blocks
        /\ ambiguous' = ambiguous /\ phase' = phase
    BY <1>6 DEF vars
  <2>2. Total' = Total /\ Half' = Half /\ Due' = Due /\ Collected' = Collected
    BY <2>1 DEF Total, Half, Due, Collected
  <2>3. TypeInv'
    BY <2>1 DEF LogInv, TypeInv
  <2>4. OutInv'
    BY <2>1, <2>2 DEF LogInv, OutInv
  <2>5. BlocksInv'
    BY <2>1 DEF LogInv, BlocksInv, Mixes
  <2>6. StreamInv'
    BY <2>1, <2>2 DEF LogInv, StreamInv
  <2>7. FlushInv'
    BY <2>1, <2>2 DEF LogInv, FlushInv
  <2> QED
    BY <2>3, <2>4, <2>5, <2>6, <2>7 DEF LogInv
<1> QED
  BY <1>1, <1>2, <1>3, <1>4, <1>5, <1>6 DEF Next

\* What the other theorems rest on: the invariant always holds.
THEOREM LogInvariant == Spec => []LogInv
<1>1. Init => LogInv
  BY LogInit
<1>2. LogInv /\ [Next]_vars => LogInv'
  BY LogNext
<1> QED
  BY <1>1, <1>2, PTL DEF Spec
-----------------------------------------------------------------------------
\* The types of the build's log (BuildLog!LogTypeOK); the tee holds back a part
\* of one line at most.
THEOREM LogTypeCorrect == Spec => []LogTypeOK
<1>1. LogInv => LogTypeOK
  <2> SUFFICES ASSUME LogInv PROVE LogTypeOK
    OBVIOUS
  <2>1. /\ printed \in [Hashes -> 0..DigestLine]
        /\ messages \in 0..MaxMessages /\ trailing \in BOOLEAN
        /\ pipe \in Seq(PieceSet) /\ Len(pipe) <= PipeSize + 1
        /\ buf \in Seq(PieceSet) /\ Len(buf) <= 1
        /\ writeErr \in BOOLEAN
        /\ phase \in {"building", "ended", "flushed"}
    BY DEF LogInv, TypeInv, IsHalf
  <2>2. \A i \in DOMAIN buf : ~buf[i].ends
    <3>1. IsHalf(buf) /\ DOMAIN buf = 1..Len(buf)
      BY <2>1 DEF LogInv, TypeInv
    <3> QED
      BY <3>1 DEF IsHalf
  <2>3. out \in Seq(PieceSet)
    <3>1. Due \in Nat
      BY TotalType DEF LogInv
    <3>2. Len(out) \in Nat /\ out = Said(Len(out))
      BY <3>1 DEF LogInv, OutInv
    <3> QED
      BY <3>2, SaidIs
  <2>4. \A s \in {pipe, buf, out} : \A i \in DOMAIN s :
          s[i].line \in Lines /\ s[i].ends \in BOOLEAN
    <3>1. \A x \in PieceSet : x.line \in Lines /\ x.ends \in BOOLEAN
      BY DEF PieceSet
    <3>2. \A s \in {pipe, buf, out} : \A i \in DOMAIN s : s[i] \in PieceSet
      BY <2>1, <2>3
    <3> QED
      BY <3>1, <3>2
  <2>5. /\ ambiguous \subseteq Names /\ DOMAIN blocks \subseteq Names \ ambiguous
        /\ Mixes(blocks)
    BY DEF LogInv, BlocksInv
  <2>6. ASSUME NEW n \in DOMAIN blocks
        PROVE  blocks[n].digest \subseteq Hashes /\ blocks[n].inputs \in Seq(Inputs)
    <3>1. PICK h \in {n} \X (1..MaxInstances), k \in 1..DigestLine : blocks[n] = BlockAfter(h, k)
      BY <2>5 DEF Mixes
    <3>2. h \in Hashes
      BY <2>5 DEF Hashes
    <3>3. k - 1 \in 0..(MaxInputs + 1)
      BY LogAssumption DEF LogAssumption, DigestLine
    <3>4. /\ blocks[n].inputs = KeptOf(h)[k - 1]
          /\ blocks[n].digest = IF k = DigestLine THEN {h} ELSE {}
      BY <3>1 DEF BlockAfter
    <3>5. KeptOf(h)[k - 1] \in Seq(Inputs)
      BY <3>2, <3>3, Kept
    <3> QED
      BY <3>2, <3>4, <3>5
  <2> QED
    BY <2>1, <2>2, <2>4, <2>5, <2>6 DEF LogTypeOK
<1> QED
  BY <1>1, LogInvariant, PTL

\* Whatever the chunks, what longpole passes on is a prefix of the go command's
\* own messages, and all of them once the tee is flushed
\* (BuildLog!OnlyRemovesItsOwn).
THEOREM RemovesOnlyItsOwn == Spec => []OnlyRemovesItsOwn
<1>1. LogInv => OnlyRemovesItsOwn
  <2> SUFFICES ASSUME LogInv PROVE OnlyRemovesItsOwn
    OBVIOUS
  <2>1. MessagesSaid = Said(Due)
    BY DEF MessagesSaid, Due
  <2>2. Due \in Nat
    BY TotalType DEF LogInv
  <2> DEFINE l == Len(out)
  <2>3. out = Said(l) /\ l \in 0..Due
    BY DEF LogInv, OutInv
  <2> HIDE DEF l
  <2>4. /\ l \in Nat /\ Len(Said(l)) = l /\ Len(Said(Due)) = Due
        /\ Said(l) \in Seq(PieceSet) /\ Said(Due) \in Seq(PieceSet)
    BY <2>2, <2>3, SaidIs
  <2>5. \A i \in 1..l : Said(l)[i] = Said(Due)[i]
    <3> SUFFICES ASSUME NEW i \in 1..l PROVE Said(l)[i] = Said(Due)[i]
      OBVIOUS
    <3>1. i \in 1..Due
      BY <2>2, <2>3
    <3> DEFINE P == Piece([of |-> Message, at |-> (i + 1) \div 2], i % 2 = 0)
    <3> HIDE DEF P
    <3>2. Said(l)[i] = P /\ Said(Due)[i] = P
      BY <2>2, <2>4, <3>1, SaidIs DEF P
    <3> QED
      BY <3>2
  <2>6. SubSeq(Said(l), 1, l) = SubSeq(Said(Due), 1, l)
    <3> DEFINE x == Said(l)
               y == Said(Due)
               u == SubSeq(x, 1, l)
               v == SubSeq(y, 1, l)
    <3> HIDE DEF x, y
    <3>1. x \in Seq(PieceSet) /\ y \in Seq(PieceSet) /\ Len(x) = l /\ Len(y) = Due /\ l <= Due
      BY <2>2, <2>3, <2>4 DEF x, y
    <3>2. u \in Seq(PieceSet) /\ v \in Seq(PieceSet) /\ Len(u) = l /\ Len(v) = l
      BY <2>2, <2>4, <3>1
    <3>3. \A i \in 1..l : u[i] = x[i] /\ v[i] = y[i]
      BY <2>2, <2>4, <3>1
    <3>4. \A i \in 1..l : x[i] = y[i]
      BY <2>5 DEF x, y
    <3> HIDE DEF u, v
    <3>5. u = v
      BY <3>2, <3>3, <3>4, SeqEqual
    <3> QED
      BY <3>5 DEF u, v, x, y
  <2>7. IsPrefix(out, MessagesSaid)
    <3>1. Len(out) = l /\ Len(MessagesSaid) = Due /\ l <= Due
      BY <2>1, <2>2, <2>3, <2>4
    <3>2. SubSeq(out, 1, l) = SubSeq(MessagesSaid, 1, l)
      BY <2>1, <2>3, <2>6, Zenon
    <3> QED
      BY <3>1, <3>2 DEF IsPrefix
  <2>8. phase = "flushed" /\ ~writeErr => out = MessagesSaid
    BY <2>1 DEF LogInv, FlushInv
  <2> QED
    BY <2>7, <2>8 DEF OnlyRemovesItsOwn
<1> QED
  BY <1>1, LogInvariant, PTL

\* No block has lines of two hashes, and those of a log that came through are
\* those of the names of one hash (BuildLog!BlocksAreTrue).
THEOREM BlocksTrue == Spec => []BlocksAreTrue
<1>1. LogInv => BlocksAreTrue
  <2> SUFFICES ASSUME LogInv PROVE BlocksAreTrue
    OBVIOUS
  <2>1. NeverMixes
    BY DEF LogInv, BlocksInv, Mixes, NeverMixes
  <2>2. CollectsEverything
    <3> SUFFICES ASSUME phase = "flushed", ~writeErr, NEW n \in Names
                 PROVE  LET used == {h \in {n} \X (1..MaxInstances) : printed[h] > 0}
                        IN  /\ n \in DOMAIN blocks <=> \E h \in used : used = {h}
                            /\ \A h \in used : used = {h} => blocks[n] = BlockAfter(h, printed[h])
      BY DEF CollectsEverything
    <3> DEFINE used == {h \in {n} \X (1..MaxInstances) : printed[h] > 0}
    <3>1. \A h \in {n} \X (1..MaxInstances) : Total[h] = printed[h]
      BY TotalType DEF LogInv, Hashes
    <3>2. used = Used(Total, n)
      BY <3>1 DEF Used
    <3>3. NameIs(blocks, ambiguous, Total, n)
      BY DEF LogInv, FlushInv
    <3>4. \A h \in used : Total[h] = printed[h]
      BY <3>1
    <3> HIDE DEF used
    <3>5. /\ n \in DOMAIN blocks <=> \E h \in used : used = {h}
          /\ \A h \in used : used = {h} => blocks[n] = BlockAfter(h, printed[h])
      BY <3>2, <3>3, <3>4 DEF NameIs
    <3> QED
      BY <3>5 DEF used
  <2> QED
    BY <2>1, <2>2 DEF BlocksAreTrue
<1> QED
  BY <1>1, LogInvariant, PTL
-----------------------------------------------------------------------------
(* What cause.Roots makes of the blocks.                                   *)

\* The first of a set of numbers.
LEMMA MinIs ==
  ASSUME NEW S, S \subseteq Nat, S # {}
  PROVE  Min(S) \in S /\ \A y \in S : Min(S) <= y
<1>1. \E x \in S : \A y \in S : x <= y
  BY Least
<1> QED
  BY <1>1 DEF Min

\* Evidence is of what was read: an edge's inputs are of the action itself, for
\* its block ends in its digest and blocks are not mixed.
LEMMA JoinedIsRead ==
  ASSUME BlocksInv, NEW d \in Hashes, NEW h \in Hashes, Joined(d, h)
  PROVE  Read(d, h)
<1> DEFINE names == Tried[h[1]]
           found == {i \in DOMAIN names : names[i] \in DOMAIN blocks}
           b == BlockFor(h)
<1>1. b.digest = {h} /\ \E i \in DOMAIN b.inputs : d \in Imports[b.inputs[i].of][b.inputs[i].input]
  <2>1. Matches(h) /\ d \in Referenced(h)
    BY DEF Joined
  <2>2. b.digest = {h}
    BY <2>1 DEF Matches
  <2>3. d \in UNION {Imports[b.inputs[i].of][b.inputs[i].input] : i \in DOMAIN b.inputs}
    BY <2>1 DEF Referenced
  <2> HIDE DEF b
  <2> QED
    BY <2>2, <2>3
<1>2. h[1] \in Names
  BY DEF Hashes
<1>3. names \in Seq(Names)
  BY <1>2, CauseAssumption DEF CauseAssumption
<1>4. found # {}
  <2> SUFFICES ASSUME found = {} PROVE FALSE
    OBVIOUS
  <2>1. b = NoBlock
    BY DEF BlockFor
  <2> HIDE DEF b
  <2>2. b.digest = {}
    BY <2>1 DEF NoBlock
  <2> QED
    BY <1>1, <2>2
<1>5. PICK n \in DOMAIN blocks : b = blocks[n]
  <2>1. found \subseteq Nat
    BY <1>3
  <2> DEFINE m == Min(found)
  <2>2. m \in found
    BY <1>4, <2>1, MinIs
  <2>3. b = blocks[names[m]]
    BY <1>4 DEF BlockFor
  <2>4. names[m] \in DOMAIN blocks
    BY <2>2
  <2> HIDE DEF b, m, names
  <2> QED
    BY <2>3, <2>4
<1> HIDE DEF b
<1>6. PICK g \in {n} \X (1..MaxInstances), k \in 1..DigestLine : b = BlockAfter(g, k)
  BY <1>5 DEF BlocksInv, Mixes
<1>7. b.inputs = KeptOf(g)[k - 1] /\ b.digest = IF k = DigestLine THEN {g} ELSE {}
  BY <1>6 DEF BlockAfter
<1>8. g = h
  BY <1>1, <1>7
<1>9. k - 1 \in 0..(MaxInputs + 1)
  BY LogAssumption DEF LogAssumption, DigestLine
<1>10. \A i \in DOMAIN b.inputs : \E j \in Retained : b.inputs[i] = [of |-> h, input |-> j]
  <2> DEFINE s == KeptOf(h)[k - 1]
  <2>1. \A i \in DOMAIN s : \E j \in Retained : s[i] = [of |-> h, input |-> j]
    BY <1>9, Kept
  <2>2. b.inputs = s
    BY <1>7, <1>8
  <2> HIDE DEF s
  <2> QED
    BY <2>1, <2>2
<1>11. PICK i \in DOMAIN b.inputs : d \in Imports[b.inputs[i].of][b.inputs[i].input]
  BY <1>1
<1>12. PICK j \in Retained : b.inputs[i] = [of |-> h, input |-> j]
  BY <1>10
<1>13. d \in Imports[h][j] /\ j \in 1..MaxInputs
  BY <1>11, <1>12, LogAssumption DEF LogAssumption
<1> QED
  BY <1>13 DEF Read

\* up has what r reaches in up to n steps.
Climbs(up, n, edges, r) ==
  /\ up \in [1..n -> SUBSET Ran]
  /\ up[1] = {h \in Ran : <<r, h>> \in edges}
  /\ \A k \in 2..n :
       up[k] = up[k - 1] \cup {h \in Ran : \E d \in up[k - 1] : <<d, h>> \in edges}

\* What Reached computes.
LEMMA ReachedIs ==
  ASSUME NEW edges, NEW r, Hashes # {}
  PROVE  /\ Cardinality(Hashes) \in Nat \ {0}
         /\ \E g : /\ Climbs(g, Cardinality(Hashes), edges, r)
                   /\ Reached(edges, r) = g[Cardinality(Hashes)]
<1> DEFINE N == Cardinality(Hashes)
           First == {h \in Ran : <<r, h>> \in edges}
           More(T) == T \cup {h \in Ran : \E d \in T : <<d, h>> \in edges}
           Wider == [T \in SUBSET Ran |-> More(T)]
           F == [k \in Nat |-> Wider]
           Is(up) == up = [k \in 1..N |-> IF k = 1 THEN First ELSE More(up[k - 1])]
<1>1. N \in Nat \ {0}
  <2>1. MaxInstances \in Nat /\ IsFiniteSet(Names)
    BY LogAssumption DEF LogAssumption
  <2>2. IsFiniteSet(1..MaxInstances)
    <3>1. 1 \in Int /\ MaxInstances \in Int
      BY <2>1
    <3> QED
      BY <3>1, FS_Interval
  <2>3. IsFiniteSet(Hashes)
    BY <2>1, <2>2, FS_Product DEF Hashes
  <2>4. N \in Nat
    BY <2>3, FS_CardinalityType
  <2>5. N # 0
    BY <2>3, FS_EmptySet
  <2> QED
    BY <2>4, <2>5
<1>2. First \in SUBSET Ran /\ \A T \in SUBSET Ran : More(T) \in SUBSET Ran
  OBVIOUS
<1> HIDE DEF N, First, More
<1>3. Wider \in [SUBSET Ran -> SUBSET Ran] /\ \A T \in SUBSET Ran : Wider[T] = More(T)
  BY <1>2
<1> HIDE DEF Wider
<1>4. PICK g \in [1..N -> SUBSET Ran] :
        g[1] = First /\ \A k \in 2..N : g[k] = Wider[g[k - 1]]
  <2> DEFINE S == SUBSET Ran
             b == First
             m == 1
  <2>1. /\ N \in Nat /\ m \in Nat /\ m <= N
        /\ b \in S /\ F \in [Nat -> [S -> S]]
    BY <1>1, <1>2, <1>3
  <2>2. \A k \in 2..N : F[k] = Wider
    OBVIOUS
  <2> HIDE DEF F, S, b, m
  <2>3. PICK g \in [m..N -> S] : Iterates(g, b, F, m, N)
    BY <2>1, Iteration
  <2>4. ASSUME NEW k \in 2..N PROVE g[k] = Wider[g[k - 1]]
    <3>1. k \in (m + 1)..N
      BY DEF m
    <3> QED
      BY <2>2, <2>3, <3>1 DEF Iterates
  <2> QED
    BY <2>3, <2>4 DEF S, b, m, Iterates
<1>5. \A k \in 2..N : g[k] = More(g[k - 1])
  <2> SUFFICES ASSUME NEW k \in 2..N PROVE g[k] = More(g[k - 1])
    OBVIOUS
  <2>1. k - 1 \in 1..N
    BY <1>1
  <2> QED
    BY <1>3, <1>4, <2>1
<1>6. Is(g)
  <2>1. \A k \in 1..N : g[k] = IF k = 1 THEN First ELSE More(g[k - 1])
    BY <1>1, <1>4, <1>5
  <2> QED
    BY <2>1
<1> DEFINE G == CHOOSE up : Is(up)
<1>7. Reached(edges, r) = G[N]
  BY DEF Reached, N, First, More
<1>8. Is(G)
  <2> HIDE DEF Is
  <2> QED
    BY <1>6
<1> HIDE DEF G
<1>9. /\ 1 \in 1..N
      /\ \A k \in 1..N : G[k] = IF k = 1 THEN First ELSE More(G[k - 1])
  BY <1>1, <1>8
<1>10. G[1] = First /\ \A k \in 2..N : k \in 1..N /\ k # 1 /\ k - 1 \in 1..N /\ G[k] = More(G[k - 1])
  BY <1>1, <1>9
<1>11. G \in [1..N -> SUBSET Ran]
  <2> DEFINE T == {k \in 1..N : G[k] \in SUBSET Ran}
  <2>1. 1 \in T
    BY <1>2, <1>9, <1>10
  <2>2. ASSUME NEW k \in (1 + 1)..N, k - 1 \in T PROVE k \in T
    <3>1. k \in 2..N
      OBVIOUS
    <3> QED
      BY <1>2, <1>10, <2>2, <3>1
  <2> HIDE DEF T
  <2>3. 1..N \subseteq T
    BY <1>1, <2>1, <2>2, InductionUpTo
  <2>4. \A k \in 1..N : G[k] \in SUBSET Ran
    BY <2>3 DEF T
  <2> QED
    BY <1>8, <2>4
<1>12. Climbs(G, N, edges, r)
  BY <1>10, <1>11 DEF Climbs, First, More
<1> QED
  BY <1>1, <1>7, <1>12 DEF N

\* With more edges no less is reached.
LEMMA ReachedMore ==
  ASSUME NEW E, NEW F, E \subseteq F, NEW r, Hashes # {}
  PROVE  Reached(E, r) \subseteq Reached(F, r)
<1> DEFINE N == Cardinality(Hashes)
<1>1. N \in Nat \ {0}
  BY ReachedIs
<1>2. PICK u : Climbs(u, N, E, r) /\ Reached(E, r) = u[N]
  BY ReachedIs
<1>3. PICK v : Climbs(v, N, F, r) /\ Reached(F, r) = v[N]
  BY ReachedIs
<1> HIDE DEF N
<1> DEFINE T == {k \in 1..N : u[k] \subseteq v[k]}
<1>4. 1 \in T
  <2>1. u[1] = {h \in Ran : <<r, h>> \in E} /\ v[1] = {h \in Ran : <<r, h>> \in F}
    BY <1>2, <1>3 DEF Climbs
  <2>2. u[1] \subseteq v[1]
    BY <2>1
  <2>3. 1 \in 1..N
    BY <1>1
  <2> QED
    BY <2>2, <2>3
<1>5. ASSUME NEW k \in (1 + 1)..N, k - 1 \in T PROVE k \in T
  <2>1. k \in 2..N /\ k \in 1..N /\ u[k - 1] \subseteq v[k - 1]
    BY <1>1, <1>5
  <2>2. /\ u[k] = u[k - 1] \cup {h \in Ran : \E d \in u[k - 1] : <<d, h>> \in E}
        /\ v[k] = v[k - 1] \cup {h \in Ran : \E d \in v[k - 1] : <<d, h>> \in F}
    BY <1>2, <1>3, <2>1 DEF Climbs
  <2>3. u[k] \subseteq v[k]
    BY <2>1, <2>2
  <2> QED
    BY <2>1, <2>3
<1>6. N \in 1..N /\ N \in Nat
  BY <1>1
<1> HIDE DEF T
<1>7. 1..N \subseteq T
  BY <1>4, <1>5, <1>6, InductionUpTo
<1>8. u[N] \subseteq v[N]
  BY <1>6, <1>7 DEF T
<1> QED
  BY <1>2, <1>3, <1>8

\* However the log was cut, an action that is no root has read the output of
\* another that ran, and what is said to follow a root is built from its output
\* (BuildCause!RootsAreHonest).
THEOREM RootsHonest == Spec => []RootsAreHonest
<1>1. LogInv => RootsAreHonest
  <2> SUFFICES ASSUME LogInv PROVE RootsAreHonest
    OBVIOUS
  <2>1. BlocksInv
    BY DEF LogInv
  <2>2. \A d, h \in Ran : Joined(d, h) => Read(d, h)
    BY <2>1, JoinedIsRead DEF Ran
  <2>3. \A h \in Ran \ Roots : \E d \in Ran : Read(d, h)
    BY <2>2 DEF Roots
  <2>4. ASSUME NEW r \in Roots
        PROVE  Followed(r) \subseteq Reached({e \in Ran \X Ran : Read(e[1], e[2])}, r)
    <3> DEFINE E == {e \in Ran \X Ran : Joined(e[1], e[2])}
               F == {e \in Ran \X Ran : Read(e[1], e[2])}
    <3>1. E \subseteq F
      BY <2>2
    <3>2. Hashes # {}
      BY DEF Roots, Ran
    <3> HIDE DEF E, F
    <3>3. Reached(E, r) \subseteq Reached(F, r)
      BY <3>1, <3>2, ReachedMore
    <3>4. Followed(r) = Reached(E, r) \ {r}
      BY DEF Followed, E
    <3>5. Followed(r) \subseteq Reached(F, r)
      BY <3>3, <3>4
    <3> QED
      BY <3>5 DEF F
  <2> QED
    BY <2>3, <2>4 DEF RootsAreHonest
<1> QED
  BY <1>1, LogInvariant, PTL

\* Of a log that came through, a root that has read what was built this time is
\* excused only by a name of two hashes (BuildCause!RootsAreTight).
THEOREM RootsTight == Spec => []RootsAreTight
<1>1. LogInv => RootsAreTight
  <2> SUFFICES ASSUME LogInv, phase = "flushed", ~writeErr, NEW h \in Roots, NEW d \in Ran,
                      Read(d, h), h[1] \notin ambiguous, d[1] \notin ambiguous
               PROVE  FALSE
    BY DEF RootsAreTight
  <2>1. \A n \in Names : NameIs(blocks, ambiguous, Total, n)
    BY DEF LogInv, FlushInv
  <2>2. h \in Ran /\ ~Joined(d, h)
    BY DEF Roots
  <2>3. ASSUME NEW g \in Ran, g[1] \notin ambiguous
        PROVE  BlockFor(g) = BlockAfter(g, DigestLine)
    <3> DEFINE n == g[1]
               names == Tried[n]
               found == {i \in DOMAIN names : names[i] \in DOMAIN blocks}
    <3>1. g \in Hashes /\ printed[g] = DigestLine /\ n \in Names /\ g \in {n} \X (1..MaxInstances)
      BY DEF Ran, Hashes
    <3>2. Total[g] = DigestLine /\ DigestLine > 0
      BY <3>1, LogAssumption, TotalType DEF LogInv, LogAssumption, DigestLine
    <3>3. g \in Used(Total, n)
      BY <3>1, <3>2 DEF Used
    <3>4. Used(Total, n) = {g}
      BY <2>1, <2>3, <3>1, <3>3 DEF NameIs
    <3>5. n \in DOMAIN blocks /\ blocks[n] = BlockAfter(g, DigestLine)
      BY <2>1, <3>1, <3>2, <3>3, <3>4 DEF NameIs
    <3>6. names \in Seq(Names) /\ names # <<>> /\ names[1] = n
      BY <3>1, CauseAssumption DEF CauseAssumption
    <3>7. 1 \in DOMAIN names /\ DOMAIN names \subseteq Nat \ {0}
      BY <3>6
    <3> HIDE DEF names, n
    <3>8. 1 \in found /\ found \subseteq Nat \ {0}
      BY <3>5, <3>6, <3>7
    <3> HIDE DEF found
    <3>9. Min(found) = 1
      <4> DEFINE m == Min(found)
      <4>1. found \subseteq Nat /\ found # {}
        BY <3>8
      <4>2. m \in found /\ m <= 1
        BY <3>8, <4>1, MinIs
      <4> HIDE DEF m
      <4>3. m = 1
        BY <3>8, <4>2
      <4> QED
        BY <4>3 DEF m
    <3>10. BlockFor(g) = blocks[names[1]]
      <4>1. BlockFor(g) = IF found = {} THEN NoBlock ELSE blocks[names[Min(found)]]
        BY DEF BlockFor, found, names, n
      <4> QED
        BY <3>8, <3>9, <4>1
    <3> QED
      BY <3>5, <3>6, <3>10
  <2>4. \A g \in Ran : BlockAfter(g, DigestLine).digest = {g}
    BY DEF BlockAfter
  <2>5. Matches(h) /\ Matches(d)
    BY <2>2, <2>3, <2>4 DEF Matches
  <2>6. PICK i \in 1..MaxInputs : d \in Imports[h][i]
    BY DEF Read
  <2>7. h \in Hashes /\ d \in Hashes
    BY <2>2 DEF Ran
  <2>8. i \in Retained /\ d \in Deps[h]
    <3>1. Imports[h] \in [1..MaxInputs -> SUBSET Deps[h]]
      BY <2>7, CauseAssumption DEF CauseAssumption
    <3>2. Imports[h][i] # {} => i \in Retained
      BY <2>7, CauseAssumption DEF CauseAssumption
    <3> QED
      BY <2>6, <3>1, <3>2
  <2>9. d \in Referenced(h)
    <3> DEFINE s == BlockFor(h).inputs
               k == DigestLine - 1
    <3>1. s = KeptOf(h)[k]
      BY <2>2, <2>3 DEF BlockAfter
    <3>2. k \in 0..(MaxInputs + 1) /\ i <= k
      BY LogAssumption DEF LogAssumption, DigestLine
    <3> HIDE DEF s, k
    <3>3. PICK j \in DOMAIN s : s[j] = [of |-> h, input |-> i]
      BY <2>7, <2>8, <3>1, <3>2, Kept
    <3>4. d \in Imports[s[j].of][s[j].input]
      BY <2>6, <3>3
    <3>5. d \in UNION {Imports[s[m].of][s[m].input] : m \in DOMAIN s}
      BY <3>4
    <3> QED
      BY <3>5 DEF Referenced, s
  <2> QED
    BY <2>2, <2>5, <2>8, <2>9 DEF Joined
<1> QED
  BY <1>1, LogInvariant, PTL
=============================================================================
