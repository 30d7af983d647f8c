------------------------------- MODULE FoldLemmas -------------------------------
(***************************************************************************)
(* What the proofs of the components use of the natural numbers and of the  *)
(* folds of the community modules.  Induction is over sets of numbers, so   *)
(* that a proof instantiates it with a set it defines: every non-empty set  *)
(* of naturals has a least element (WFMin of WellFoundedInduction).  A fold *)
(* is a recursive function on subsets of a sequence's positions; it exists, *)
(* and on the initial segments it is the left-to-right accumulation.        *)
(***************************************************************************)
EXTENDS FiniteSetTheorems, SequencesExt, TLAPS

-----------------------------------------------------------------------------
(* Naturals                                                                 *)

LEMMA LeastNatural ==
    ASSUME NEW T \in SUBSET Nat, T # {}
    PROVE  \E x \in T : \A y \in T : x <= y
  <1>1. \E R : IsWellFoundedOn(R, Nat) /\ \A x, y \in Nat : <<y, x>> \in R <=> y < x
    <2>1. IsWellFoundedOn(OpToRel(<, Nat), Nat)
      BY NatLessThanWellFounded
    <2>2. \A x, y \in Nat : <<y, x>> \in OpToRel(<, Nat) <=> y < x
      BY DEF OpToRel
    <2>. QED  BY <2>1, <2>2, Zenon
  <1>2. PICK R : IsWellFoundedOn(R, Nat) /\ \A x, y \in Nat : <<y, x>> \in R <=> y < x
    BY <1>1
  <1>3. PICK x \in T : \A y \in T : ~ (<<y, x>> \in R)
    BY <1>2, WFMin
  <1>4. ASSUME NEW y \in T  PROVE x <= y
    <2>1. x \in Nat /\ y \in Nat /\ ~ (<<y, x>> \in R)
      BY <1>3
    <2>2. ~ (y < x)
      BY <1>2, <2>1
    <2>. QED  BY <2>1, <2>2
  <1>. QED  BY <1>4

\* A set of naturals up to n that holds 0 and, with i < n, i + 1, holds them all.
LEMMA InductionTo ==
    ASSUME NEW n \in Nat, NEW S, 0 \in S,
           \A i \in 0 .. n - 1 : i \in S => i + 1 \in S
    PROVE  0 .. n \subseteq S
  <1>. SUFFICES ASSUME (0 .. n) \ S # {}  PROVE FALSE
    OBVIOUS
  <1>1. PICK x \in (0 .. n) \ S : \A y \in (0 .. n) \ S : x <= y
    <2>. DEFINE T == (0 .. n) \ S
    <2>1. T \in SUBSET Nat /\ T # {}
      OBVIOUS
    <2>. HIDE DEF T
    <2>2. \E x \in T : \A y \in T : x <= y
      BY <2>1, LeastNatural
    <2>. QED  BY <2>2 DEF T
  <1>2. x # 0 /\ x - 1 \in 0 .. n - 1
    BY <1>1
  <1>3. x - 1 \in S
    BY <1>1, <1>2
  <1>. QED  BY <1>1, <1>2, <1>3

\* A non-empty set of naturals up to n has a greatest element.
LEMMA GreatestTo ==
    ASSUME NEW n \in Nat, NEW T \in SUBSET (0 .. n), T # {}
    PROVE  \E x \in T : \A y \in T : y <= x
  <1>. DEFINE U == {n - x : x \in T}
  <1>1. \A x \in T : n - x \in Nat /\ n - x \in U
    OBVIOUS
  <1>2. U \in SUBSET Nat /\ U # {}
    BY <1>1
  <1>. HIDE DEF U
  <1>3. PICK u \in U : \A v \in U : u <= v
    BY <1>2, LeastNatural
  <1>4. PICK x \in T : u = n - x
    BY <1>3 DEF U
  <1>5. ASSUME NEW y \in T  PROVE y <= x
    <2>1. n - x <= n - y
      BY <1>1, <1>3, <1>4
    <2>. QED  BY <2>1
  <1>. QED  BY <1>5

LEMMA MaxIs ==
    ASSUME NEW n \in Nat, NEW T \in SUBSET (1 .. n), T # {}
    PROVE  Max(T) \in T /\ \A y \in T : Max(T) >= y
  <1>1. T \in SUBSET (0 .. n)
    OBVIOUS
  <1>2. PICK x \in T : \A y \in T : y <= x
    BY <1>1, GreatestTo
  <1>3. \E z \in T : \A y \in T : z >= y
    BY <1>2
  <1>. QED  BY <1>3 DEF Max

LEMMA MaxOfSegment ==
    ASSUME NEW k \in Nat \ {0}
    PROVE  Max(1 .. k) = k /\ (1 .. k) \ {k} = 1 .. k - 1
  <1>1. 1 .. k \in SUBSET (1 .. k) /\ 1 .. k # {} /\ k \in Nat
    OBVIOUS
  <1>2. Max(1 .. k) \in 1 .. k /\ \A y \in 1 .. k : Max(1 .. k) >= y
    BY <1>1, MaxIs
  <1>3. Max(1 .. k) >= k
    BY <1>2
  <1>. QED  BY <1>2, <1>3

-----------------------------------------------------------------------------
(* Sequences without repetition                                             *)

Distinct(s) == \A i, j \in DOMAIN s : s[i] = s[j] => i = j

\* Two of them with nothing in common make one.
LEMMA Joined ==
    ASSUME NEW X, NEW s \in Seq(X), NEW t \in Seq(X),
           Distinct(s), Distinct(t), ToSet(s) \cap ToSet(t) = {}
    PROVE  /\ s \o t \in Seq(X) /\ ToSet(s \o t) = ToSet(s) \cup ToSet(t)
           /\ Distinct(s \o t)
  <1>. DEFINE n == Len(s)
              m == Len(t)
              u == s \o t
  <1>1. /\ n \in Nat /\ m \in Nat /\ DOMAIN s = 1 .. n /\ DOMAIN t = 1 .. m
        /\ u \in Seq(X) /\ DOMAIN u = 1 .. n + m
        /\ \A i \in 1 .. n : u[i] = s[i] /\ i \in 1 .. n + m
        /\ \A i \in 1 .. m : u[n + i] = t[i] /\ n + i \in 1 .. n + m
    OBVIOUS
  <1>2. \A i \in 1 .. n + m : i \in 1 .. n \/ \E k \in 1 .. m : i = n + k
    <2>. SUFFICES ASSUME NEW i \in 1 .. n + m, i \notin 1 .. n  PROVE \E k \in 1 .. m : i = n + k
      OBVIOUS
    <2>1. i - n \in 1 .. m /\ i = n + (i - n)
      BY <1>1
    <2>. QED  BY <2>1
  <1>. HIDE DEF n, m, u
  <1>3. ToSet(s) = {s[i] : i \in 1 .. n} /\ ToSet(t) = {t[i] : i \in 1 .. m}
    BY <1>1 DEF ToSet
  <1>4. ToSet(u) = {u[i] : i \in 1 .. n + m}
    BY <1>1 DEF ToSet
  <1>5. ToSet(u) = ToSet(s) \cup ToSet(t)
    <2>1. ASSUME NEW i \in 1 .. n + m  PROVE u[i] \in ToSet(s) \cup ToSet(t)
      <3>1. CASE i \in 1 .. n
        BY <1>1, <1>3, <3>1
      <3>2. CASE i \notin 1 .. n
        <4>. PICK k \in 1 .. m : i = n + k
          BY <1>2, <3>2
        <4>. QED  BY <1>1, <1>3
      <3>. QED  BY <3>1, <3>2
    <2>2. \A i \in 1 .. n : s[i] \in ToSet(u)
      BY <1>1, <1>4
    <2>3. ASSUME NEW k \in 1 .. m  PROVE t[k] \in ToSet(u)
      <3>1. n + k \in 1 .. n + m /\ u[n + k] = t[k]
        BY <1>1
      <3>. QED  BY <1>4, <3>1
    <2>. QED  BY <1>3, <1>4, <2>1, <2>2, <2>3
  <1>6. ASSUME NEW i \in 1 .. n + m, NEW j \in 1 .. n + m, u[i] = u[j]  PROVE i = j
    <2>0. \A a \in 1 .. n, k \in 1 .. m : s[a] # t[k]
      BY <1>3
    <2>1. CASE i \in 1 .. n /\ j \in 1 .. n
      BY <1>1, <1>6, <2>1 DEF Distinct
    <2>2. CASE i \notin 1 .. n /\ j \notin 1 .. n
      <3>1. PICK k \in 1 .. m : i = n + k
        BY <1>2, <2>2
      <3>2. PICK l \in 1 .. m : j = n + l
        BY <1>2, <2>2
      <3>3. u[n + k] = t[k] /\ u[n + l] = t[l]
        BY <1>1
      <3>. QED  BY <1>1, <1>6, <3>1, <3>2, <3>3 DEF Distinct
    <2>3. CASE i \in 1 .. n /\ j \notin 1 .. n
      <3>1. PICK l \in 1 .. m : j = n + l
        BY <1>2, <2>3
      <3>2. u[n + l] = t[l] /\ u[i] = s[i]
        BY <1>1, <2>3
      <3>. QED  BY <1>6, <2>0, <2>3, <3>1, <3>2
    <2>4. CASE j \in 1 .. n /\ i \notin 1 .. n
      <3>1. PICK k \in 1 .. m : i = n + k
        BY <1>2, <2>4
      <3>2. u[n + k] = t[k] /\ u[j] = s[j]
        BY <1>1, <2>4
      <3>. QED  BY <1>6, <2>0, <2>4, <3>1, <3>2
    <2>. QED  BY <2>1, <2>2, <2>3, <2>4
  <1>7. u \in Seq(X) /\ ToSet(u) = ToSet(s) \cup ToSet(t) /\ Distinct(u)
    BY <1>1, <1>5, <1>6 DEF Distinct
  <1>. QED  BY <1>7 DEF u

-----------------------------------------------------------------------------
(* Folds                                                                    *)

\* f is the fold by steps g from b on the subsets of 1 .. n.
FoldsBy(n, V, b, g, f) ==
    /\ f \in [SUBSET (1 .. n) -> V]
    /\ \A t \in SUBSET (1 .. n) : f[t] = IF t = {} THEN b ELSE g[Max(t)][f[t \ {Max(t)}]]

LEMMA FoldOfNothing ==
    ASSUME NEW V, NEW b \in V, NEW g
    PROVE  FoldsBy(0, V, b, g, [t \in SUBSET (1 .. 0) |-> b])
  <1>1. \A t \in SUBSET (1 .. 0) : t = {}
    OBVIOUS
  <1>. QED  BY <1>1 DEF FoldsBy

LEMMA FoldOneMore ==
    ASSUME NEW k \in Nat, NEW V, NEW b \in V, NEW g, g[k + 1] \in [V -> V],
           NEW f, FoldsBy(k, V, b, g, f)
    PROVE  FoldsBy(k + 1, V, b, g, [t \in SUBSET (1 .. k + 1) |->
                                     IF k + 1 \in t THEN g[k + 1][f[t \ {k + 1}]] ELSE f[t]])
  <1>. DEFINE h == [t \in SUBSET (1 .. k + 1) |->
                     IF k + 1 \in t THEN g[k + 1][f[t \ {k + 1}]] ELSE f[t]]
  <1>1. ASSUME NEW t \in SUBSET (1 .. k + 1)
        PROVE  /\ k + 1 \notin t => t \in SUBSET (1 .. k)
               /\ t \ {k + 1} \in SUBSET (1 .. k)
    OBVIOUS
  <1>2. h \in [SUBSET (1 .. k + 1) -> V]
    BY <1>1 DEF FoldsBy
  <1>3. ASSUME NEW t \in SUBSET (1 .. k + 1), k + 1 \in t
        PROVE  h[t] = g[Max(t)][h[t \ {Max(t)}]]
    <2>0. k + 1 \in Nat /\ t # {}
      BY <1>3
    <2>1. Max(t) \in t /\ \A y \in t : Max(t) >= y
      BY <2>0, MaxIs
    <2>2. Max(t) = k + 1
      <3>1. Max(t) \in 1 .. k + 1 /\ Max(t) >= k + 1
        BY <1>3, <2>1
      <3>. QED  BY <3>1
    <2>3. t \ {k + 1} \in SUBSET (1 .. k + 1)
      OBVIOUS
    <2>4. h[t \ {k + 1}] = f[t \ {k + 1}] /\ h[t] = g[k + 1][f[t \ {k + 1}]]
      BY <1>3, <2>3
    <2>. HIDE DEF h
    <2>. QED  BY <2>2, <2>4
  <1>4. ASSUME NEW t \in SUBSET (1 .. k + 1), k + 1 \notin t
        PROVE  h[t] = IF t = {} THEN b ELSE g[Max(t)][h[t \ {Max(t)}]]
    <2>1. t \in SUBSET (1 .. k) /\ h[t] = f[t]
      BY <1>1, <1>4
    <2>2. f[t] = IF t = {} THEN b ELSE g[Max(t)][f[t \ {Max(t)}]]
      BY <2>1 DEF FoldsBy
    <2>3. t \ {Max(t)} \in SUBSET (1 .. k + 1) /\ k + 1 \notin t \ {Max(t)}
      BY <1>4
    <2>4. h[t \ {Max(t)}] = f[t \ {Max(t)}]
      BY <2>3
    <2>. HIDE DEF h
    <2>. QED  BY <2>1, <2>2, <2>4
  <1>. HIDE DEF h
  <1>5. ASSUME NEW t \in SUBSET (1 .. k + 1)
        PROVE  h[t] = IF t = {} THEN b ELSE g[Max(t)][h[t \ {Max(t)}]]
    BY <1>3, <1>4
  <1>6. FoldsBy(k + 1, V, b, g, h)
    BY <1>2, <1>5 DEF FoldsBy
  <1>. QED  BY <1>6 DEF h

LEMMA FoldExists ==
    ASSUME NEW n \in Nat, NEW V, NEW b \in V, NEW g \in [1 .. n -> [V -> V]]
    PROVE  \E f : FoldsBy(n, V, b, g, f)
  <1>. DEFINE S == {k \in 0 .. n : \E f : FoldsBy(k, V, b, g, f)}
  <1>1. 0 \in S
    <2>1. FoldsBy(0, V, b, g, [t \in SUBSET (1 .. 0) |-> b])
      BY FoldOfNothing
    <2>. QED  BY <2>1
  <1>2. ASSUME NEW k \in 0 .. n - 1, k \in S  PROVE k + 1 \in S
    <2>1. PICK f : FoldsBy(k, V, b, g, f)
      BY <1>2
    <2>2. g[k + 1] \in [V -> V] /\ k + 1 \in 0 .. n /\ k \in Nat
      OBVIOUS
    <2>3. \E h : FoldsBy(k + 1, V, b, g, h)
      BY <2>1, <2>2, FoldOneMore
    <2>. QED  BY <2>2, <2>3
  <1>3. n \in S
    <2>. HIDE DEF S
    <2>1. \A k \in 0 .. n - 1 : k \in S => k + 1 \in S
      BY <1>2
    <2>2. 0 .. n \subseteq S
      BY <1>1, <2>1, InductionTo
    <2>. QED  BY <2>2
  <1>. QED  BY <1>3

\* f takes the steps g from b, as far as its values are known to stay in V.
Takes(n, V, b, g, f) ==
    /\ f[{}] = b
    /\ \A t \in SUBSET (1 .. n) :
          t # {} /\ f[t \ {Max(t)}] \in V => f[t] = g[Max(t)][f[t \ {Max(t)}]]

\* h is the accumulation of 1 .. n from left to right, by steps g from b.
Accumulates(n, V, b, g, h) ==
    /\ h \in [0 .. n -> V]
    /\ h[0] = b /\ \A k \in 1 .. n : h[k] = g[k][h[k - 1]]

\* What a fold computes on the initial segments 1 .. k is the accumulation of
\* the sequence from left to right.
LEMMA FoldOnSegments ==
    ASSUME NEW n \in Nat, NEW V, NEW b \in V, NEW g \in [1 .. n -> [V -> V]],
           NEW f, Takes(n, V, b, g, f)
    PROVE  \E h : Accumulates(n, V, b, g, h) /\ h[n] = f[1 .. n]
  <1>. DEFINE h == [k \in 0 .. n |-> f[1 .. k]]
              S == {k \in 0 .. n : h[k] \in V}
  <1>1. h[0] = b
    <2>1. 1 .. 0 = {}
      OBVIOUS
    <2>. QED  BY <2>1 DEF Takes
  <1>2. ASSUME NEW k \in 1 .. n, h[k - 1] \in V
        PROVE  h[k] = g[k][h[k - 1]]
    <2>1. /\ k \in Nat \ {0} /\ k - 1 \in 0 .. n /\ k \in 0 .. n
          /\ 1 .. k # {} /\ 1 .. k \in SUBSET (1 .. n)
      <3>1. k \in Nat \ {0} /\ k - 1 \in 0 .. n /\ k \in 0 .. n
        OBVIOUS
      <3>2. 1 \in 1 .. k /\ \A i \in 1 .. k : i \in 1 .. n
        BY <3>1
      <3>. QED  BY <3>1, <3>2
    <2>2. Max(1 .. k) = k /\ (1 .. k) \ {k} = 1 .. k - 1
      BY <2>1, MaxOfSegment
    <2>3. f[(1 .. k) \ {Max(1 .. k)}] = h[k - 1] /\ h[k] = f[1 .. k]
      BY <2>1, <2>2
    <2>. HIDE DEF h
    <2>4. f[1 .. k] = g[Max(1 .. k)][f[(1 .. k) \ {Max(1 .. k)}]]
      BY <1>2, <2>1, <2>3 DEF Takes
    <2>. QED  BY <2>2, <2>3, <2>4
  <1>3. \A i \in 0 .. n - 1 : i \in S => i + 1 \in S
    <2>. SUFFICES ASSUME NEW i \in 0 .. n - 1, h[i] \in V  PROVE h[i + 1] \in V /\ i + 1 \in 0 .. n
      BY DEF S
    <2>1. i + 1 \in 1 .. n /\ (i + 1) - 1 = i
      OBVIOUS
    <2>. HIDE DEF h
    <2>2. h[i + 1] = g[i + 1][h[i]]
      BY <1>2, <2>1
    <2>. QED  BY <2>1, <2>2
  <1>4. 0 \in S
    BY <1>1
  <1>5. 0 .. n \subseteq S
    <2>. HIDE DEF S
    <2>. QED  BY <1>3, <1>4, InductionTo
  <1>6. h \in [0 .. n -> V] /\ h[n] = f[1 .. n]
    BY <1>5
  <1>7. \A k \in 1 .. n : h[k] = g[k][h[k - 1]]
    <2>. SUFFICES ASSUME NEW k \in 1 .. n  PROVE h[k] = g[k][h[k - 1]]
      OBVIOUS
    <2>. HIDE DEF h
    <2>1. k - 1 \in 0 .. n
      OBVIOUS
    <2>. QED  BY <1>2, <1>6, <2>1
  <1>. HIDE DEF h
  <1>. QED  BY <1>1, <1>6, <1>7 DEF Accumulates
=================================================================================
