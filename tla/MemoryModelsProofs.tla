--------------------------- MODULE MemoryModelsProofs ---------------------------
(***************************************************************************)
(* What the reads of MemoryModels return for every contents: the order of   *)
(* the rows, a page of it, and what a bounded retrieval admits.             *)
(***************************************************************************)
EXTENDS MemoryModels, FoldLemmas

-----------------------------------------------------------------------------
(* The order of the rows                                                    *)

Before(d, a, b) == KeyBefore(Key(d, a), Key(d, b))

LEMMA KeyType ==
    ASSUME NEW d \in Contents, NEW r \in DOMAIN d.records
    PROVE  /\ r \in RecordIds /\ r \in Nat /\ d.records[r] \in Record
           /\ d.records[r].created \in Instants /\ d.records[r].created \in Nat
           /\ Key(d, r) = <<d.records[r].created, r>> /\ Key(d, r) \in Instants \X RecordIds
  <1>1. d.records \in [DOMAIN d.records -> Record] /\ DOMAIN d.records \subseteq RecordIds
    BY DEF Contents
  <1>2. r \in RecordIds /\ d.records[r] \in Record
    BY <1>1
  <1>. QED  BY <1>2, ModelAssumption DEF Record, Key

\* created_at, id is a strict total order of the records.
LEMMA BeforeOrder ==
    ASSUME NEW d \in Contents
    PROVE  /\ \A a \in DOMAIN d.records : ~Before(d, a, a)
           /\ \A a, b, c \in DOMAIN d.records : Before(d, a, b) /\ Before(d, b, c) => Before(d, a, c)
           /\ \A a, b \in DOMAIN d.records : a = b \/ Before(d, a, b) \/ Before(d, b, a)
           /\ \A a, b \in DOMAIN d.records : ~(Before(d, a, b) /\ Before(d, b, a))
  <1>1. \A r \in DOMAIN d.records : /\ r \in Nat /\ d.records[r].created \in Nat
                                    /\ Key(d, r) = <<d.records[r].created, r>>
    BY KeyType
  <1>2. \A a, b \in DOMAIN d.records :
           Before(d, a, b) <=> \/ d.records[a].created < d.records[b].created
                               \/ d.records[a].created = d.records[b].created /\ a < b
    BY <1>1 DEF Before, KeyBefore
  <1>. QED  BY <1>1, <1>2

LEMMA FirstOf ==
    ASSUME NEW d \in Contents, NEW R \in SUBSET DOMAIN d.records, R # {}
    PROVE  \E m \in R : \A r \in R : r = m \/ Before(d, m, r)
  <1>. DEFINE C == {d.records[r].created : r \in R}
  <1>1. C \in SUBSET Nat /\ C # {}
    BY KeyType
  <1>. HIDE DEF C
  <1>2. PICK c \in C : \A x \in C : c <= x
    BY <1>1, LeastNatural
  <1>. DEFINE U == {r \in R : d.records[r].created = c}
  <1>3. U \in SUBSET Nat /\ U # {}
    BY <1>2, KeyType DEF C
  <1>. HIDE DEF U
  <1>4. PICK m \in U : \A x \in U : m <= x
    BY <1>3, LeastNatural
  <1>5. m \in R /\ d.records[m].created = c
    BY <1>4 DEF U
  <1>6. ASSUME NEW r \in R  PROVE r = m \/ Before(d, m, r)
    <2>1. c <= d.records[r].created
      BY <1>2 DEF C
    <2>2. d.records[r].created = c => m <= r
      BY <1>4 DEF U
    <2>3. /\ r \in Nat /\ m \in Nat /\ c \in Nat /\ d.records[r].created \in Nat
          /\ Key(d, r) = <<d.records[r].created, r>> /\ Key(d, m) = <<c, m>>
      BY <1>5, KeyType
    <2>. QED  BY <2>1, <2>2, <2>3 DEF Before, KeyBefore
  <1>. QED  BY <1>5, <1>6

\* The k first of R.
Starts(d, R, k, s) ==
    /\ s \in [1 .. k -> R]
    /\ \A i, j \in 1 .. k : i < j => Before(d, s[i], s[j])
    /\ \A r \in R : (\A i \in 1 .. k : s[i] # r) => \A i \in 1 .. k : Before(d, s[i], r)

LEMMA OneMoreStart ==
    ASSUME NEW d \in Contents, NEW R \in SUBSET DOMAIN d.records, IsFiniteSet(R),
           NEW k \in Nat, k < Cardinality(R), NEW s, Starts(d, R, k, s)
    PROVE  \E t : Starts(d, R, k + 1, t)
  <1>. DEFINE left == {r \in R : \A i \in 1 .. k : s[i] # r}
  <1>1. left # {}
    <2>. SUFFICES ASSUME left = {}  PROVE FALSE
      OBVIOUS
    <2>1. s \in Surjection(1 .. k, R)
      BY DEF Surjection, Starts
    <2>2. IsFiniteSet(1 .. k) /\ Cardinality(1 .. k) = k
      BY FS_Interval
    <2>3. Cardinality(R) <= k
      BY <2>1, <2>2, FS_Surjection
    <2>4. Cardinality(R) \in Nat
      BY FS_CardinalityType
    <2>. QED  BY <2>3, <2>4
  <1>2. left \in SUBSET DOMAIN d.records
    OBVIOUS
  <1>3. PICK m \in left : \A r \in left : r = m \/ Before(d, m, r)
    <2>. HIDE DEF left
    <2>. QED  BY <1>1, <1>2, FirstOf
  <1>. DEFINE t == [i \in 1 .. k + 1 |-> IF i = k + 1 THEN m ELSE s[i]]
  <1>4. t \in [1 .. k + 1 -> R] /\ t[k + 1] = m /\ \A i \in 1 .. k : t[i] = s[i] /\ i \in 1 .. k + 1
    BY DEF Starts
  <1>5. \A i \in 1 .. k : Before(d, s[i], m)
    BY DEF Starts
  <1>. HIDE DEF t
  <1>6. ASSUME NEW i \in 1 .. k + 1, NEW j \in 1 .. k + 1, i < j
        PROVE  Before(d, t[i], t[j])
    <2>1. i \in 1 .. k /\ (j = k + 1 \/ j \in 1 .. k)
      BY <1>6
    <2>. QED  BY <1>4, <1>5, <1>6, <2>1 DEF Starts
  <1>7. ASSUME NEW r \in R, \A i \in 1 .. k + 1 : t[i] # r, NEW i \in 1 .. k + 1
        PROVE  Before(d, t[i], r)
    <2>1. r \in left /\ r # m /\ Before(d, m, r)
      <3>1. k + 1 \in 1 .. k + 1
        OBVIOUS
      <3>. QED  BY <1>3, <1>4, <1>7, <3>1
    <2>2. i = k + 1 \/ i \in 1 .. k
      OBVIOUS
    <2>3. i \in 1 .. k => Before(d, s[i], r)
      BY <2>1 DEF Starts
    <2>. QED  BY <1>4, <2>1, <2>2, <2>3
  <1>8. Starts(d, R, k + 1, t)
    BY <1>4, <1>6, <1>7 DEF Starts
  <1>. QED  BY <1>8

LEMMA SortedExists ==
    ASSUME NEW d \in Contents, NEW R \in SUBSET DOMAIN d.records, IsFiniteSet(R)
    PROVE  \E s : Starts(d, R, Cardinality(R), s)
  <1>. DEFINE n == Cardinality(R)
              S == {k \in 0 .. n : \E s : Starts(d, R, k, s)}
  <1>0. n \in Nat
    BY FS_CardinalityType
  <1>1. 0 \in S
    <2>1. 1 .. 0 = {} /\ [i \in 1 .. 0 |-> 0] \in [1 .. 0 -> R]
      OBVIOUS
    <2>2. Starts(d, R, 0, [i \in 1 .. 0 |-> 0])
      BY <2>1 DEF Starts
    <2>. QED  BY <1>0, <2>2
  <1>2. ASSUME NEW k \in 0 .. n - 1, k \in S  PROVE k + 1 \in S
    <2>1. k \in Nat /\ k < Cardinality(R) /\ k + 1 \in 0 .. n
      BY <1>0
    <2>2. PICK s : Starts(d, R, k, s)
      BY <1>2
    <2>3. \E t : Starts(d, R, k + 1, t)
      BY <2>1, <2>2, OneMoreStart
    <2>. QED  BY <2>1, <2>3
  <1>3. n \in S
    <2>. HIDE DEF S, n
    <2>1. \A k \in 0 .. n - 1 : k \in S => k + 1 \in S
      BY <1>2
    <2>2. 0 .. n \subseteq S
      BY <1>0, <1>1, <2>1, InductionTo
    <2>. QED  BY <1>0, <2>2
  <1>. QED  BY <1>3

\* The rows in order: each record once.
LEMMA SortedIs ==
    ASSUME NEW d \in Contents, NEW R \in SUBSET DOMAIN d.records
    PROVE  LET n == Cardinality(R)
               s == Sorted(d, R)
           IN  /\ n \in Nat /\ s \in [1 .. n -> R]
               /\ \A i, j \in 1 .. n : i < j => Before(d, s[i], s[j])
               /\ \A i, j \in 1 .. n : s[i] = s[j] => i = j
               /\ \A r \in R : \E i \in 1 .. n : s[i] = r
  <1>. DEFINE n == Cardinality(R)
              s == Sorted(d, R)
  <1>1. IsFiniteSet(R)
    <2>1. DOMAIN d.records \subseteq RecordIds
      BY DEF Contents
    <2>. QED  BY <2>1, ModelAssumption, FS_Subset
  <1>2. n \in Nat
    BY <1>1, FS_CardinalityType
  <1>3. \E t \in [1 .. n -> R] :
           \A i, j \in DOMAIN t : i < j => KeyBefore(Key(d, t[i]), Key(d, t[j]))
    <2>1. PICK t : Starts(d, R, n, t)
      BY <1>1, SortedExists
    <2>. QED  BY <2>1 DEF Starts, Before
  <1>4. s \in [1 .. n -> R]
        /\ \A i, j \in DOMAIN s : i < j => KeyBefore(Key(d, s[i]), Key(d, s[j]))
    BY <1>3 DEF Sorted
  <1>. HIDE DEF s, n
  <1>5. \A i, j \in 1 .. n : i < j => Before(d, s[i], s[j])
    BY <1>4 DEF Before
  <1>6. \A i, j \in 1 .. n : s[i] = s[j] => i = j
    <2>. SUFFICES ASSUME NEW i \in 1 .. n, NEW j \in 1 .. n, s[i] = s[j], i # j  PROVE FALSE
      OBVIOUS
    <2>1. i < j \/ j < i
      BY <1>2
    <2>2. Before(d, s[i], s[i]) /\ s[i] \in DOMAIN d.records
      BY <1>4, <1>5, <2>1
    <2>. QED  BY <2>2, BeforeOrder
  <1>7. \A r \in R : \E i \in 1 .. n : s[i] = r
    <2>1. s \in Injection(1 .. n, R)
      BY <1>4, <1>6 DEF Injection, IsInjective
    <2>2. Cardinality(1 .. n) = n
      BY <1>2, FS_Interval
    <2>3. s \in Surjection(1 .. n, R)
      BY <1>1, <2>1, <2>2, FS_Injection DEF n
    <2>. QED  BY <2>3 DEF Surjection
  <1>. QED  BY <1>2, <1>4, <1>5, <1>6, <1>7 DEF s, n

-----------------------------------------------------------------------------
(* A page                                                                   *)

\* The page p holds the first records of R: all of them, or those up to last.
HoldsStart(d, R, p) ==
    /\ p.items \in Seq(RecordIds) /\ ToSet(p.items) \subseteq R
    /\ \A i, j \in DOMAIN p.items : p.items[i] = p.items[j] => i = j
    /\ \/ p.next = Start /\ ToSet(p.items) = R
       \/ \E last \in ToSet(p.items) :
             /\ p.next = Key(d, last) /\ p.next # Start /\ ToSet(p.items) # R
             /\ \A r \in ToSet(p.items) : r = last \/ Before(d, r, last)
             /\ \A r \in R \ ToSet(p.items) : Before(d, last, r)

LEMMA PageHolds ==
    ASSUME NEW d \in Contents, NEW S, NEW cursor, NEW limit \in Nat \ {0}
    PROVE  HoldsStart(d, {r \in Matching(d, S) : IsAfter(d, r, cursor)}, Page(d, S, cursor, limit))
  <1>. DEFINE R == {r \in Matching(d, S) : IsAfter(d, r, cursor)}
              n == Cardinality(R)
              s == Sorted(d, R)
              p == Page(d, S, cursor, limit)
  <1>0. R \in SUBSET DOMAIN d.records
    BY DEF Matching
  <1>1. /\ n \in Nat /\ s \in [1 .. n -> R]
        /\ \A i, j \in 1 .. n : i < j => Before(d, s[i], s[j])
        /\ \A i, j \in 1 .. n : s[i] = s[j] => i = j
        /\ \A r \in R : \E i \in 1 .. n : s[i] = r
    BY <1>0, SortedIs
  <1>2. p = [items |-> IF Len(s) > limit THEN SubSeq(s, 1, limit) ELSE s,
             next  |-> IF Len(s) > limit THEN Key(d, s[limit]) ELSE Start]
    BY DEF Page
  <1>3. \A r \in R : r \in RecordIds /\ Key(d, r) # Start
    BY <1>0, KeyType, ModelAssumption
  <1>. HIDE DEF R, n, s, p
  <1>4. s \in Seq(RecordIds) /\ Len(s) = n /\ DOMAIN s = 1 .. n
    BY <1>1, <1>3
  <1>5. CASE n > limit
    <2>1. /\ p.items = SubSeq(s, 1, limit) /\ p.next = Key(d, s[limit])
          /\ limit \in 1 .. n
      BY <1>1, <1>2, <1>4, <1>5
    <2>2. /\ p.items \in Seq(RecordIds) /\ DOMAIN p.items = 1 .. limit
          /\ \A i \in 1 .. limit : p.items[i] = s[i] /\ i \in 1 .. n
      BY <1>1, <1>4, <2>1
    <2>3. ToSet(p.items) = {s[i] : i \in 1 .. limit}
      BY <2>2 DEF ToSet
    <2>4. ToSet(p.items) \subseteq R /\ s[limit] \in ToSet(p.items)
      BY <1>1, <2>1, <2>2, <2>3
    <2>5. limit + 1 \in 1 .. n /\ s[limit + 1] \in R /\ s[limit + 1] \notin ToSet(p.items)
      <3>1. limit + 1 \in 1 .. n
        BY <1>1, <1>5
      <3>2. \A i \in 1 .. limit : s[i] # s[limit + 1]
        BY <1>1, <2>2, <3>1
      <3>. QED  BY <1>1, <2>3, <3>1, <3>2
    <2>6. \A r \in ToSet(p.items) : r = s[limit] \/ Before(d, r, s[limit])
      <3>. SUFFICES ASSUME NEW i \in 1 .. limit  PROVE s[i] = s[limit] \/ Before(d, s[i], s[limit])
        BY <2>3
      <3>1. i = limit \/ i < limit
        OBVIOUS
      <3>. QED  BY <1>1, <2>1, <2>2, <3>1
    <2>7. \A r \in R \ ToSet(p.items) : Before(d, s[limit], r)
      <3>. SUFFICES ASSUME NEW r \in R \ ToSet(p.items)  PROVE Before(d, s[limit], r)
        OBVIOUS
      <3>1. PICK i \in 1 .. n : s[i] = r
        BY <1>1
      <3>2. i \notin 1 .. limit
        BY <2>3, <3>1
      <3>3. limit < i
        BY <3>2
      <3>. QED  BY <1>1, <2>1, <3>1, <3>3
    <2>8. p.next # Start
      BY <1>3, <2>1, <2>4
    <2>9. \A i, j \in DOMAIN p.items : p.items[i] = p.items[j] => i = j
      BY <1>1, <2>2
    <2>. QED  BY <2>1, <2>2, <2>4, <2>5, <2>6, <2>7, <2>8, <2>9 DEF HoldsStart, R, p
  <1>6. CASE ~(n > limit)
    <2>1. p.items = s /\ p.next = Start
      BY <1>2, <1>4, <1>6
    <2>2. ToSet(s) = R
      BY <1>1, <1>4 DEF ToSet
    <2>. QED  BY <1>1, <1>4, <2>1, <2>2 DEF HoldsStart, R, p
  <1>. QED  BY <1>5, <1>6

-----------------------------------------------------------------------------
(* A bounded retrieval                                                      *)

\* The tokens of some items are the running sum of their costs.
LEMMA TokensFold ==
    ASSUME NEW n \in Nat, NEW s, DOMAIN s = 1 .. n, \A i \in 1 .. n : s[i] \in RecordIds
    PROVE  \E h \in [0 .. n -> Nat] : h[0] = 0 /\ Tokens(s) = h[n]
  <1>. DEFINE V == Nat
              b == 0
              g == [i \in 1 .. n |-> [v \in Nat |-> v + Cost[s[i]]]]
              iter == CHOOSE f : f = [t \in SUBSET (1 .. n) |->
                               IF t = {} THEN 0 ELSE f[t \ {Max(t)}] + Cost[s[Max(t)]]]
  <1>0. \A i \in 1 .. n : Cost[s[i]] \in Nat
    BY ModelAssumption
  <1>1. b \in V /\ g \in [1 .. n -> [V -> V]]
    BY <1>0
  <1>2. \A i \in 1 .. n : \A v \in Nat : g[i][v] = v + Cost[s[i]]
    OBVIOUS
  <1>. HIDE DEF g, V, b
  <1>3. iter = [t \in SUBSET (1 .. n) |->
                  IF t = {} THEN 0 ELSE iter[t \ {Max(t)}] + Cost[s[Max(t)]]]
    <2>1. PICK f : FoldsBy(n, V, b, g, f)
      BY <1>1, FoldExists
    <2>2. f = [t \in SUBSET (1 .. n) |->
                 IF t = {} THEN 0 ELSE f[t \ {Max(t)}] + Cost[s[Max(t)]]]
      <3>1. ASSUME NEW t \in SUBSET (1 .. n), t # {}
            PROVE  f[t] = f[t \ {Max(t)}] + Cost[s[Max(t)]]
        <4>1. Max(t) \in 1 .. n
          BY <3>1, MaxIs
        <4>2. f[t] = g[Max(t)][f[t \ {Max(t)}]] /\ f[t \ {Max(t)}] \in Nat
          BY <2>1, <3>1 DEF FoldsBy, V
        <4>. QED  BY <1>2, <4>1, <4>2
      <3>2. f[{}] = 0
        BY <2>1 DEF FoldsBy, b
      <3>. QED  BY <2>1, <3>1, <3>2 DEF FoldsBy
    <2>. QED  BY <2>2
  <1>4. Tokens(s) = iter[1 .. n]
    BY DEF Tokens, FoldLeft, MapThenFoldSet
  <1>. HIDE DEF iter
  <1>5. Takes(n, V, b, g, iter)
    <2>1. iter[{}] = b
      BY <1>3 DEF b
    <2>2. ASSUME NEW t \in SUBSET (1 .. n), t # {}, iter[t \ {Max(t)}] \in V
          PROVE  iter[t] = g[Max(t)][iter[t \ {Max(t)}]]
      <3>1. Max(t) \in 1 .. n
        BY <2>2, MaxIs
      <3>2. iter[t] = iter[t \ {Max(t)}] + Cost[s[Max(t)]]
        BY <1>3, <2>2
      <3>. QED  BY <1>2, <2>2, <3>1, <3>2 DEF V
    <2>. QED  BY <2>1, <2>2 DEF Takes
  <1>6. PICK h : Accumulates(n, V, b, g, h) /\ h[n] = iter[1 .. n]
    BY <1>1, <1>5, FoldOnSegments
  <1>. QED BY <1>4, <1>6 DEF Accumulates, V, b

LEMMA TokensType ==
    ASSUME NEW s \in Seq(RecordIds)
    PROVE  Tokens(s) \in Nat /\ (s = <<>> => Tokens(s) = 0)
  <1>. DEFINE n == Len(s)
  <1>1. n \in Nat /\ DOMAIN s = 1 .. n /\ (\A i \in 1 .. n : s[i] \in RecordIds)
        /\ (s = <<>> => n = 0)
    OBVIOUS
  <1>. HIDE DEF n
  <1>2. PICK h \in [0 .. n -> Nat] : h[0] = 0 /\ Tokens(s) = h[n]
    BY <1>1, TokensFold
  <1>. QED  BY <1>1, <1>2

\* What is admitted fits both caps.
LEMMA AdmittedFits ==
    ASSUME NEW items \in Seq(RecordIds), NEW cap \in Nat, NEW tokens \in Nat
    PROVE  LET n == Admitted(items, cap, tokens)
           IN  /\ n \in 0 .. Len(items) /\ n <= cap
               /\ Tokens(SubSeq(items, 1, n)) <= tokens
               /\ (n < Len(items) /\ n < cap) => Tokens(SubSeq(items, 1, n + 1)) > tokens
  <1>. DEFINE fits == {n \in 0 .. Len(items) : n <= cap /\ Tokens(SubSeq(items, 1, n)) <= tokens}
  <1>1. 0 \in fits /\ fits \in SUBSET (0 .. Len(items)) /\ Len(items) \in Nat
    <2>1. SubSeq(items, 1, 0) = <<>> /\ <<>> \in Seq(RecordIds)
      OBVIOUS
    <2>2. Tokens(SubSeq(items, 1, 0)) = 0
      BY <2>1, TokensType
    <2>. QED  BY <2>2
  <1>2. PICK n \in fits : \A m \in fits : m <= n
    <2>. HIDE DEF fits
    <2>1. fits # {} /\ Len(items) \in Nat
      BY <1>1
    <2>. QED  BY <1>1, <2>1, GreatestTo
  <1>3. (n < Len(items) /\ n < cap) => Tokens(SubSeq(items, 1, n + 1)) > tokens
    <2>. SUFFICES ASSUME n < Len(items), n < cap  PROVE Tokens(SubSeq(items, 1, n + 1)) > tokens
      OBVIOUS
    <2>1. n + 1 \in 0 .. Len(items) /\ n + 1 <= cap /\ ~(n + 1 <= n)
      OBVIOUS
    <2>2. ~(Tokens(SubSeq(items, 1, n + 1)) <= tokens)
      BY <1>2, <2>1
    <2>3. SubSeq(items, 1, n + 1) \in Seq(RecordIds)
      BY <2>1
    <2>4. Tokens(SubSeq(items, 1, n + 1)) \in Nat
      BY <2>3, TokensType
    <2>. QED  BY <2>2, <2>4
  <1>. QED  BY <1>3 DEF Admitted

\* What a result of retrieve_bounded was built from.
LEMMA ResultFields ==
    ASSUME NEW got, NEW kept, NEW left \in BOOLEAN,
           got = [records |-> kept, truncated |-> left]
    PROVE  got.records = kept /\ (got.truncated <=> left)
  <1>1. got.records = kept /\ got.truncated = left
    OBVIOUS
  <1>. QED  BY <1>1, Zenon

\* retrieve_bounded tells whether it left something out, and keeps to its caps.
LEMMA RetrievalTold ==
    ASSUME NEW d \in Contents, NEW S, NEW cap \in Nat, NEW tokens \in Nat
    PROVE  LET got == RetrieveBounded(d, S, cap, tokens)
           IN  /\ got.truncated <=> ToSet(got.records) # Matching(d, S)
               /\ Len(got.records) <= cap /\ Tokens(got.records) <= tokens
  <1>. DEFINE limit == IF cap = 0 THEN 1 ELSE cap
              page  == Page(d, S, Start, limit)
              items == page.items
              n     == Admitted(items, cap, tokens)
              R     == {r \in Matching(d, S) : IsAfter(d, r, Start)}
  <1>1. R = Matching(d, S) /\ limit \in Nat \ {0}
    BY DEF IsAfter
  <1>2. HoldsStart(d, R, page)
    <2>. HIDE DEF limit
    <2>. QED  BY <1>1, PageHolds
  <1>3. RetrieveBounded(d, S, cap, tokens)
          = [records |-> SubSeq(items, 1, n), truncated |-> page.next # Start \/ Len(items) > n]
    BY DEF RetrieveBounded
  <1>. HIDE DEF page, R
  <1>4. items \in Seq(RecordIds) /\ (\A i, j \in DOMAIN items : items[i] = items[j] => i = j)
    BY <1>2 DEF HoldsStart
  <1>. HIDE DEF items
  <1>5. n \in 0 .. Len(items) /\ n <= cap /\ Tokens(SubSeq(items, 1, n)) <= tokens
    BY <1>4, AdmittedFits
  <1>. HIDE DEF n
  <1>6. /\ Len(SubSeq(items, 1, n)) = n
        /\ ToSet(SubSeq(items, 1, n)) = {items[i] : i \in 1 .. n}
        /\ ToSet(items) = {items[i] : i \in 1 .. Len(items)}
    <2>1. Len(SubSeq(items, 1, n)) = n /\ DOMAIN SubSeq(items, 1, n) = 1 .. n
          /\ \A i \in 1 .. n : SubSeq(items, 1, n)[i] = items[i]
      BY <1>4, <1>5
    <2>2. ToSet(items) = {items[i] : i \in 1 .. Len(items)}
      BY <1>4 DEF ToSet
    <2>3. ToSet(SubSeq(items, 1, n)) = {SubSeq(items, 1, n)[i] : i \in 1 .. n}
      BY <2>1 DEF ToSet
    <2>. QED  BY <2>1, <2>2, <2>3
  <1>7. (page.next # Start \/ Len(items) > n) <=> {items[i] : i \in 1 .. n} # R
    <2>1. CASE page.next = Start /\ n = Len(items)
      BY <1>2, <1>4, <1>6, <2>1 DEF HoldsStart, items
    <2>2. CASE n < Len(items)
      <3>1. n + 1 \in 1 .. Len(items) /\ \A i \in 1 .. n : i \in 1 .. Len(items) /\ i # n + 1
        BY <1>4, <1>5, <2>2
      <3>2. items[n + 1] \in R
        BY <1>2, <1>6, <3>1 DEF HoldsStart, items
      <3>3. \A i \in 1 .. n : items[i] # items[n + 1]
        BY <1>4, <3>1
      <3>. QED  BY <1>4, <1>5, <2>2, <3>2, <3>3
    <2>3. CASE page.next # Start /\ n = Len(items)
      BY <1>2, <1>4, <1>6, <2>3 DEF HoldsStart, items
    <2>4. n = Len(items) \/ n < Len(items)
      BY <1>4, <1>5
    <2>. QED  BY <2>1, <2>2, <2>3, <2>4
  <1>. DEFINE left == page.next # Start \/ Len(items) > n
  <1>8. /\ RetrieveBounded(d, S, cap, tokens).records = SubSeq(items, 1, n)
        /\ RetrieveBounded(d, S, cap, tokens).truncated <=> left
    <2>1. RetrieveBounded(d, S, cap, tokens)
            = [records |-> SubSeq(items, 1, n), truncated |-> left]
      BY <1>3
    <2>2. left \in BOOLEAN
      OBVIOUS
    <2>. HIDE DEF left
    <2>3. /\ RetrieveBounded(d, S, cap, tokens).records = SubSeq(items, 1, n)
          /\ RetrieveBounded(d, S, cap, tokens).truncated <=> left
      BY <2>1, <2>2, ResultFields
    <2>. QED  BY <2>3
  <1>9. Len(SubSeq(items, 1, n)) <= cap
    BY <1>5, <1>6
  <1>. QED  BY <1>1, <1>5, <1>6, <1>7, <1>8, <1>9
=================================================================================
