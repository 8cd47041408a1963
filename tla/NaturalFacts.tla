---------------------------- MODULE NaturalFacts ----------------------------
(***************************************************************************)
(* Least and greatest elements of sets of naturals, and induction stated   *)
(* for a set instead of a predicate, from the well-foundedness of < on Nat.*)
(***************************************************************************)
EXTENDS Integers, WellFoundedInduction, TLAPS

\* A set of naturals that is not empty has a least element.
LEMMA Least ==
  ASSUME NEW T, T \subseteq Nat, T # {}
  PROVE  \E x \in T : \A y \in T : x <= y
<1> DEFINE R == OpToRel(<, Nat)
<1>1. IsWellFoundedOn(R, Nat)
  BY NatLessThanWellFounded
<1>2. \A x, y \in Nat : x < y => <<x, y>> \in R
  BY DEF OpToRel
<1> HIDE DEF R
<1>3. PICK x \in T : \A y \in T : <<y, x>> \notin R
  BY <1>1, WFMin
<1>4. \A y \in T : ~ (y < x)
  BY <1>2, <1>3
<1>5. \A y \in T : x <= y
  BY <1>4
<1> QED
  BY <1>5

\* One that is bounded has a greatest.
LEMMA Greatest ==
  ASSUME NEW T, NEW n \in Nat, T \subseteq 0..n, T # {}
  PROVE  \E x \in T : \A y \in T : y <= x
<1> DEFINE U == {n - t : t \in T}
<1>1. U \subseteq Nat
  <2>1. \A t \in T : n - t \in Nat
    OBVIOUS
  <2> QED
    BY <2>1
<1>2. U # {}
  OBVIOUS
<1>3. PICK u \in U : \A v \in U : u <= v
  BY <1>1, <1>2, Least
<1>4. PICK t \in T : u = n - t
  OBVIOUS
<1>5. \A s \in T : n - t <= n - s
  BY <1>3, <1>4
<1>6. \A s \in T : s <= t
  BY <1>5
<1> QED
  BY <1>6

\* Induction: a set with 0 that is closed under the successor is Nat.
LEMMA Induction ==
  ASSUME NEW T, T \subseteq Nat, 0 \in T, \A n \in T : n + 1 \in T
  PROVE  T = Nat
<1> SUFFICES ASSUME T # Nat PROVE FALSE
  OBVIOUS
<1>1. PICK x \in Nat \ T : \A y \in Nat \ T : x <= y
  BY Least
<1>2. x # 0 /\ x - 1 \in Nat
  OBVIOUS
<1>3. x - 1 \in T
  BY <1>1, <1>2
<1>4. x - 1 + 1 \in T
  BY <1>3
<1> QED
  BY <1>2, <1>4

\* Induction over an interval.
LEMMA InductionUpTo ==
  ASSUME NEW m \in Nat, NEW n \in Nat, NEW T,
         m <= n => m \in T,
         \A k \in (m + 1)..n : k - 1 \in T => k \in T
  PROVE  m..n \subseteq T
<1> SUFFICES ASSUME (m..n) \ T # {} PROVE FALSE
  OBVIOUS
<1> DEFINE U == (m..n) \ T
<1>1. U \subseteq Nat /\ U # {}
  OBVIOUS
<1>2. PICK x \in U : \A y \in U : x <= y
  BY <1>1, Least
<1>3. x \in (m + 1)..n /\ x - 1 \in m..n /\ ~ (x <= x - 1) /\ x \notin T
  BY <1>2
<1>4. x - 1 \in T
  BY <1>2, <1>3
<1> QED
  BY <1>3, <1>4

\* g starts with b and makes every further element with F.
Iterates(g, b, F, m, n) == g[m] = b /\ \A k \in (m + 1)..n : g[k] = F[k][g[k - 1]]

\* A step that is iterated: what a recursive function on m..n computes.
LEMMA Iteration ==
  ASSUME NEW S, NEW b \in S, NEW F \in [Nat -> [S -> S]],
         NEW m \in Nat, NEW n \in Nat, m <= n
  PROVE  \E g \in [m..n -> S] : Iterates(g, b, F, m, n)
<1> DEFINE Runs(g, x) == g[m] = b /\ \A k \in (m + 1)..x : g[k] = F[k][g[k - 1]]
           T == {x \in m..n : \E g \in [m..x -> S] : Runs(g, x)}
<1>1. m \in T
  <2> DEFINE g == [k \in m..m |-> b]
  <2>1. g \in [m..m -> S] /\ g[m] = b
    OBVIOUS
  <2>2. (m + 1)..m = {}
    OBVIOUS
  <2> HIDE DEF g
  <2>3. Runs(g, m)
    BY <2>1, <2>2
  <2> QED
    BY <2>1, <2>3
<1>2. ASSUME NEW x \in (m + 1)..n, x - 1 \in T PROVE x \in T
  <2> DEFINE y == x - 1
  <2>1. PICK g \in [m..y -> S] : Runs(g, y)
    BY <1>2
  <2>2. y \in Nat /\ x = y + 1 /\ m <= y /\ x \in m..n /\ y \in m..y /\ x \in Nat
    OBVIOUS
  <2>3. F[x][g[y]] \in S
    BY <2>1, <2>2
  <2> DEFINE h == [k \in m..x |-> IF k = x THEN F[x][g[y]] ELSE g[k]]
  <2>4. h \in [m..x -> S] /\ h[x] = F[x][g[y]] /\ \A k \in m..y : h[k] = g[k]
    BY <2>1, <2>2, <2>3
  <2> HIDE DEF h, y
  <2>5. h[m] = b
    BY <2>1, <2>2, <2>4
  <2>6. ASSUME NEW k \in (m + 1)..x PROVE h[k] = F[k][h[k - 1]]
    <3>1. CASE k = x
      <4>1. k - 1 = y /\ y \in m..y
        BY <2>2, <3>1
      <4> QED
        BY <2>4, <3>1, <4>1
    <3>2. CASE k # x
      <4>1. k \in (m + 1)..y /\ k \in m..y /\ k - 1 \in m..y
        BY <2>2, <3>2
      <4>2. g[k] = F[k][g[k - 1]]
        BY <2>1, <4>1
      <4> QED
        BY <2>4, <4>1, <4>2
    <3> QED
      BY <3>1, <3>2
  <2>7. Runs(h, x)
    BY <2>5, <2>6
  <2> QED
    BY <2>2, <2>4, <2>7
<1>3. n \in m..n
  OBVIOUS
<1> HIDE DEF T
<1>4. m..n \subseteq T
  BY <1>1, <1>2, InductionUpTo
<1>5. n \in T
  BY <1>3, <1>4
<1> QED
  BY <1>5 DEF T, Iterates

\* Induction from n down to m.
LEMMA Downward ==
  ASSUME NEW m \in Nat, NEW n \in Nat, NEW T,
         \A k \in m..n : (k + 1)..n \subseteq T => k \in T
  PROVE  m..n \subseteq T
<1> SUFFICES ASSUME (m..n) \ T # {} PROVE FALSE
  OBVIOUS
<1> DEFINE U == (m..n) \ T
<1>1. U \subseteq 0..n /\ U # {}
  OBVIOUS
<1>2. PICK x \in U : \A y \in U : y <= x
  BY <1>1, Greatest
<1>3. (x + 1)..n \subseteq T
  <2> SUFFICES ASSUME NEW y \in (x + 1)..n, y \notin T PROVE FALSE
    OBVIOUS
  <2>1. y \in U /\ ~(y <= x)
    BY <1>2
  <2> QED
    BY <1>2, <2>1
<1> QED
  BY <1>2, <1>3
=============================================================================
