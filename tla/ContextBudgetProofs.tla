-------------------------- MODULE ContextBudgetProofs --------------------------
(***************************************************************************)
(* What the operators of ContextBudget do for every content and every       *)
(* conversation: a response that went through the after-tool chain, and a   *)
(* request that the budget check lets pass.                                 *)
(***************************************************************************)
EXTENDS ContextBudget, FoldLemmas

-----------------------------------------------------------------------------
(* The estimate                                                             *)

\* The tokens of a conversation are the running sum of its sizes.
LEMMA TokensFold ==
    ASSUME NEW n \in Nat, NEW s, DOMAIN s = 1 .. n, \A i \in 1 .. n : s[i].size \in Nat
    PROVE  \E h \in [0 .. n -> Nat] :
              /\ h[0] = 0 /\ \A k \in 1 .. n : h[k] = h[k - 1] + s[k].size
              /\ Tokens(s) = h[n]
  <1>. DEFINE V == Nat
              b == 0
              g == [i \in 1 .. n |-> [v \in Nat |-> v + s[i].size]]
              iter == CHOOSE f : f = [t \in SUBSET (1 .. n) |->
                               IF t = {} THEN 0 ELSE f[t \ {Max(t)}] + s[Max(t)].size]
  <1>1. b \in V /\ g \in [1 .. n -> [V -> V]]
    OBVIOUS
  <1>2. \A i \in 1 .. n : \A v \in Nat : g[i][v] = v + s[i].size
    OBVIOUS
  <1>. HIDE DEF g, V, b
  <1>3. iter = [t \in SUBSET (1 .. n) |->
                               IF t = {} THEN 0 ELSE iter[t \ {Max(t)}] + s[Max(t)].size]
    <2>1. PICK f : FoldsBy(n, V, b, g, f)
      BY <1>1, FoldExists
    <2>2. f = [t \in SUBSET (1 .. n) |->
                               IF t = {} THEN 0 ELSE f[t \ {Max(t)}] + s[Max(t)].size]
      <3>1. ASSUME NEW t \in SUBSET (1 .. n), t # {}
            PROVE  f[t] = f[t \ {Max(t)}] + s[Max(t)].size
        <4>1. Max(t) \in 1 .. n
          BY <3>1, MaxIs
        <4>2. f[t] = g[Max(t)][f[t \ {Max(t)}]] /\ f[t \ {Max(t)}] \in Nat
          BY <2>1, <3>1 DEF FoldsBy, V
        <4>. QED  BY <1>2, <4>1, <4>2
      <3>2. f[{}] = 0
        BY <2>1 DEF FoldsBy, b
      <3>. QED  BY <2>1, <3>1, <3>2 DEF FoldsBy
    <2>. QED  BY <2>2
  <1>4. Tokens(s) = iter[1 .. n]
    BY DEF Tokens, FoldLeft, MapThenFoldSet
  <1>. HIDE DEF iter
  <1>5. Takes(n, V, b, g, iter)
    <2>1. iter[{}] = b
      BY <1>3 DEF b
    <2>2. ASSUME NEW t \in SUBSET (1 .. n), t # {}, iter[t \ {Max(t)}] \in V
          PROVE  iter[t] = g[Max(t)][iter[t \ {Max(t)}]]
      <3>1. Max(t) \in 1 .. n
        BY <2>2, MaxIs
      <3>2. iter[t] = iter[t \ {Max(t)}] + s[Max(t)].size
        BY <1>3, <2>2
      <3>. QED  BY <1>2, <2>2, <3>1, <3>2 DEF V
    <2>. QED  BY <2>1, <2>2 DEF Takes
  <1>6. PICK h : Accumulates(n, V, b, g, h) /\ h[n] = iter[1 .. n]
    BY <1>1, <1>5, FoldOnSegments
  <1>7. ASSUME NEW k \in 1 .. n  PROVE h[k] = h[k - 1] + s[k].size
    <2>1. k - 1 \in 0 .. n
      OBVIOUS
    <2>2. h[k] = g[k][h[k - 1]] /\ h[k - 1] \in Nat
      BY <1>6, <2>1 DEF Accumulates, V
    <2>. QED  BY <1>2, <2>2
  <1>. QED BY <1>4, <1>6, <1>7 DEF Accumulates, V, b

LEMMA TokensType ==
    ASSUME NEW n \in Nat, NEW s, DOMAIN s = 1 .. n, \A i \in 1 .. n : s[i] \in Content
    PROVE  Tokens(s) \in Nat
  <1>1. \A i \in 1 .. n : s[i].size \in Nat
    BY DEF Content
  <1>2. PICK h \in [0 .. n -> Nat] : Tokens(s) = h[n]
    BY <1>1, TokensFold
  <1>. QED  BY <1>2

-----------------------------------------------------------------------------
(* The budget check                                                         *)

LEMMA LevelType ==
    ASSUME NEW pressure
    PROVE  /\ Level(pressure).tools \in Nat \ {0} /\ Level(pressure).turns \in Nat \ {0}
           /\ Level(pressure).stub \in Nat
  <1>1. Stub \in Nat /\ 2 * Stub \in Nat
    BY BudgetAssumption
  <1>2. \A n \in Nat : Larger(1, n \div 2) \in Nat \ {0}
    BY DEF Larger
  <1>. QED  BY <1>1, <1>2, BudgetAssumption DEF Level

\* The most recent content of its kind is not among the older ones.
LEMMA LatestIsNotOlder ==
    ASSUME NEW n \in Nat, NEW s, DOMAIN s = 1 .. n, NEW i \in 1 .. n,
           \A j \in 1 .. n : s[j].kind = s[i].kind => j <= i,
           NEW kind, NEW m \in Nat \ {0}
    PROVE  i \notin Older(s, kind, m)
  <1>. SUFFICES ASSUME i \in OlderThanLast(s, kind, m)  PROVE FALSE
    BY DEF Older
  <1>. DEFINE after == {j \in {k \in 1 .. n : s[k].kind = kind} : j > i}
  <1>1. s[i].kind = kind /\ Cardinality(after) >= m
    BY DEF OlderThanLast
  <1>2. after = {}
    BY <1>1
  <1>3. Cardinality(after) = 0
    BY <1>2, FS_EmptySet
  <1>. QED  BY <1>1, <1>3

\* What a binary said is whole, in its frame and within the bound, or gone.
WholeOrGone(c) ==
    c.origin = "binary" => \/ c.form = "framed" /\ c.size <= OutputBound
                           \/ c.form \in {"preview", "short"}

\* Either layer keeps the places, the kinds, the frames and the latest of each
\* kind.
Keeps(s, t, n) ==
    /\ DOMAIN t = 1 .. n
    /\ \A i \in 1 .. n : t[i] \in Content /\ t[i].kind = s[i].kind
    /\ \A i \in 1 .. n : WholeOrGone(s[i]) => WholeOrGone(t[i])
    /\ \A i \in 1 .. n : (\A j \in 1 .. n : s[j].kind = s[i].kind => j <= i) => t[i] = s[i]

LEMMA ShortenedType ==
    ASSUME NEW c \in Content, NEW size \in Nat
    PROVE  /\ [c EXCEPT !.size = size, !.form = "short"] \in Content
           /\ [c EXCEPT !.size = size, !.form = "short"].kind = c.kind
           /\ WholeOrGone([c EXCEPT !.size = size, !.form = "short"])
  BY DEF Content, WholeOrGone

LEMMA CompactedKeeps ==
    ASSUME NEW n \in Nat, NEW s, DOMAIN s = 1 .. n, \A i \in 1 .. n : s[i] \in Content,
           NEW pressure
    PROVE  Keeps(s, WithOldToolsCompacted(s, Level(pressure)), n)
  <1>. DEFINE t == WithOldToolsCompacted(s, Level(pressure))
              m == Level(pressure).tools
  <1>1. m \in Nat \ {0}
    BY LevelType
  <1>. HIDE DEF m
  <1>2. t = [i \in 1 .. n |-> IF i \in Older(s, "tool", m) /\ s[i].form # "short"
                              THEN [s[i] EXCEPT !.size = Marker, !.form = "short"] ELSE s[i]]
    BY DEF WithOldToolsCompacted, m
  <1>. HIDE DEF t
  <1>3. ASSUME NEW i \in 1 .. n
        PROVE  t[i] \in Content /\ t[i].kind = s[i].kind
               /\ (WholeOrGone(s[i]) => WholeOrGone(t[i]))
    <2>1. s[i] \in Content /\ Marker \in Nat
      BY BudgetAssumption
    <2>. QED  BY <1>2, <2>1, ShortenedType
  <1>4. ASSUME NEW i \in 1 .. n, \A j \in 1 .. n : s[j].kind = s[i].kind => j <= i
        PROVE  t[i] = s[i]
    <2>1. i \notin Older(s, "tool", m)
      BY <1>1, <1>4, LatestIsNotOlder
    <2>. QED  BY <1>2, <2>1
  <1>5. DOMAIN t = 1 .. n
    BY <1>2
  <1>6. Keeps(s, t, n)
    BY <1>3, <1>4, <1>5 DEF Keeps
  <1>. QED  BY <1>6 DEF t

LEMMA TruncatedKeeps ==
    ASSUME NEW n \in Nat, NEW s, DOMAIN s = 1 .. n, \A i \in 1 .. n : s[i] \in Content,
           NEW pressure
    PROVE  Keeps(s, WithOldTextTruncated(s, Level(pressure)), n)
  <1>. DEFINE t == WithOldTextTruncated(s, Level(pressure))
              m == Level(pressure).turns
              least == Level(pressure).least
              stub == Level(pressure).stub
  <1>1. m \in Nat \ {0} /\ stub \in Nat
    BY LevelType
  <1>. HIDE DEF m, stub, least
  <1>2. t = [i \in 1 .. n |->
               IF i \in Older(s, "text", m) /\ s[i].size > least /\ s[i].form # "short"
               THEN [s[i] EXCEPT !.size = stub, !.form = "short"] ELSE s[i]]
    BY DEF WithOldTextTruncated, m, stub, least
  <1>. HIDE DEF t
  <1>3. ASSUME NEW i \in 1 .. n
        PROVE  t[i] \in Content /\ t[i].kind = s[i].kind
               /\ (WholeOrGone(s[i]) => WholeOrGone(t[i]))
    <2>1. s[i] \in Content
      OBVIOUS
    <2>. QED  BY <1>1, <1>2, <2>1, ShortenedType
  <1>4. ASSUME NEW i \in 1 .. n, \A j \in 1 .. n : s[j].kind = s[i].kind => j <= i
        PROVE  t[i] = s[i]
    <2>1. i \notin Older(s, "text", m)
      BY <1>1, <1>4, LatestIsNotOlder
    <2>. QED  BY <1>2, <2>1
  <1>5. DOMAIN t = 1 .. n
    BY <1>2
  <1>6. Keeps(s, t, n)
    BY <1>3, <1>4, <1>5 DEF Keeps
  <1>. QED  BY <1>6 DEF t

LEMMA KeepsOnward ==
    ASSUME NEW n \in Nat, NEW s, NEW t, NEW u, Keeps(s, t, n), Keeps(t, u, n)
    PROVE  Keeps(s, u, n)
  <1>1. ASSUME NEW i \in 1 .. n, \A j \in 1 .. n : s[j].kind = s[i].kind => j <= i
        PROVE  u[i] = s[i]
    <2>1. \A j \in 1 .. n : t[j].kind = t[i].kind => j <= i
      BY <1>1 DEF Keeps
    <2>. QED  BY <1>1, <2>1 DEF Keeps
  <1>. QED  BY <1>1 DEF Keeps

LEMMA FittedKeeps ==
    ASSUME NEW n \in Nat, NEW s, DOMAIN s = 1 .. n, \A i \in 1 .. n : s[i] \in Content
    PROVE  Keeps(s, Fitted(s), n)
  <1>. DEFINE p == Pressure(Tokens(s))
              t == WithOldToolsCompacted(s, Level(p))
              u == WithOldTextTruncated(t, Level(p))
  <1>1. Keeps(s, s, n) /\ Keeps(s, t, n)
    BY CompactedKeeps DEF Keeps
  <1>2. Keeps(s, u, n)
    <2>. HIDE DEF t, p
    <2>1. Keeps(t, u, n)
      BY <1>1, TruncatedKeeps DEF Keeps
    <2>. QED  BY <1>1, <2>1, KeepsOnward
  <1>3. Fitted(s) = s \/ Fitted(s) = t \/ Fitted(s) = u
    BY DEF Fitted
  <1>. QED  BY <1>1, <1>2, <1>3

\* What passes the second check of budget.py is below the critical threshold.
LEMMA PassedIsBelow ==
    ASSUME NEW n \in Nat, NEW s, DOMAIN s = 1 .. n, \A i \in 1 .. n : s[i] \in Content,
           ~Refused(s, Fitted(s))
    PROVE  Tokens(Fitted(s)) < Critical
  <1>1. Tokens(Fitted(s)) \in Nat
    BY FittedKeeps, TokensType DEF Keeps
  <1>. QED  BY <1>1, BudgetAssumption DEF Refused, Pressure

-----------------------------------------------------------------------------
(* The after-tool chain                                                     *)

LEMMA SanitizedIs ==
    ASSUME NEW c \in Content
    PROVE  /\ Sanitized(c) \in Content /\ Sanitized(c).origin = c.origin
           /\ Sanitized(c).kind = c.kind
           /\ c.origin = "binary" => Sanitized(c).form = "framed"
  BY DEF Sanitized, Framed, Content

\* The bound leaves a frame whole or cuts into the frame itself.
LEMMA BoundedIs ==
    ASSUME NEW c \in Content
    PROVE  /\ Bounded(c) \in Content /\ Bounded(c).origin = c.origin
           /\ Bounded(c).kind = c.kind
           /\ c.form = "framed" => \/ Bounded(c).form = "framed" /\ Bounded(c).size <= OutputBound
                                   \/ Bounded(c).form = "preview"
  <1>1. Preview \in Nat /\ OutputBound \in Nat /\ c.size \in Nat /\ c.kept \in Nat
    BY BudgetAssumption DEF Content
  <1>2. CASE c.form = "raw"
    <2>1. Bounded(c) = [c EXCEPT !.size = c.kept]
      BY <1>2 DEF Bounded
    <2>. QED  BY <1>1, <1>2, <2>1 DEF Content
  <1>3. CASE c.form = "framed" /\ c.size > OutputBound
    <2>1. Bounded(c) = [c EXCEPT !.form = "preview", !.size = Preview]
      BY <1>3 DEF Bounded, Cut
    <2>. QED  BY <1>1, <1>3, <2>1 DEF Content
  <1>4. CASE c.form # "raw" /\ ~(c.form = "framed" /\ c.size > OutputBound)
    <2>1. Bounded(c) = c
      BY <1>4 DEF Bounded
    <2>. QED  BY <1>1, <1>4, <2>1
  <1>. QED  BY <1>2, <1>3, <1>4

LEMMA StepType ==
    ASSUME NEW step, NEW c \in Content
    PROVE  StepResult(step, c) \in Content
  BY SanitizedIs, BoundedIs DEF StepResult

\* The whole chain: both layers, in this order.
LEMMA CompletedIs ==
    ASSUME NEW c \in Content
    PROVE  Completed(c) = Bounded(Sanitized(c))
  <1>. DEFINE n == 4
              V == Content
              b == c
              g == [i \in 1 .. n |-> [v \in Content |-> StepResult(AfterTool[i], v)]]
              iter == CHOOSE f : f = [t \in SUBSET (1 .. 4) |->
                        IF t = {} THEN c ELSE StepResult(AfterTool[Max(t)], f[t \ {Max(t)}])]
  <1>1. b \in V /\ g \in [1 .. n -> [V -> V]] /\ n \in Nat
    BY StepType
  <1>2. \A i \in 1 .. n : \A v \in Content : g[i][v] = StepResult(AfterTool[i], v)
    OBVIOUS
  <1>. HIDE DEF g, V, b
  <1>3. iter = [t \in SUBSET (1 .. 4) |->
                  IF t = {} THEN c ELSE StepResult(AfterTool[Max(t)], iter[t \ {Max(t)}])]
    <2>1. PICK f : FoldsBy(n, V, b, g, f)
      <3>. HIDE DEF n
      <3>. QED  BY <1>1, FoldExists
    <2>2. f = [t \in SUBSET (1 .. 4) |->
                 IF t = {} THEN c ELSE StepResult(AfterTool[Max(t)], f[t \ {Max(t)}])]
      <3>1. ASSUME NEW t \in SUBSET (1 .. n), t # {}
            PROVE  f[t] = StepResult(AfterTool[Max(t)], f[t \ {Max(t)}])
        <4>1. Max(t) \in 1 .. n
          BY <3>1, MaxIs
        <4>2. f[t] = g[Max(t)][f[t \ {Max(t)}]] /\ f[t \ {Max(t)}] \in Content
          BY <2>1, <3>1 DEF FoldsBy, V
        <4>. QED  BY <1>2, <4>1, <4>2
      <3>2. f[{}] = c
        BY <2>1 DEF FoldsBy, b
      <3>. QED  BY <2>1, <3>1, <3>2 DEF FoldsBy
    <2>. QED  BY <2>2
  <1>4. Completed(c) = iter[1 .. n]
    <2>1. DOMAIN AfterTool = 1 .. 4
      BY DEF AfterTool
    <2>. QED  BY <2>1 DEF Completed, FoldLeft, MapThenFoldSet
  <1>. HIDE DEF iter
  <1>5. Takes(n, V, b, g, iter)
    <2>1. iter[{}] = b
      BY <1>3 DEF b
    <2>2. ASSUME NEW t \in SUBSET (1 .. n), t # {}, iter[t \ {Max(t)}] \in V
          PROVE  iter[t] = g[Max(t)][iter[t \ {Max(t)}]]
      <3>1. Max(t) \in 1 .. n
        BY <2>2, MaxIs
      <3>2. iter[t] = StepResult(AfterTool[Max(t)], iter[t \ {Max(t)}])
        BY <1>3, <2>2
      <3>. QED  BY <1>2, <2>2, <3>1, <3>2 DEF V
    <2>. QED  BY <2>1, <2>2 DEF Takes
  <1>6. PICK h : Accumulates(n, V, b, g, h) /\ h[n] = iter[1 .. n]
    <2>. HIDE DEF n
    <2>. QED  BY <1>1, <1>5, FoldOnSegments
  <1>7. \A k \in 1 .. 4 : h[k] = StepResult(AfterTool[k], h[k - 1])
    <2>. SUFFICES ASSUME NEW k \in 1 .. 4  PROVE h[k] = StepResult(AfterTool[k], h[k - 1])
      OBVIOUS
    <2>1. k - 1 \in 0 .. n
      OBVIOUS
    <2>2. h[k] = g[k][h[k - 1]] /\ h[k - 1] \in Content
      BY <1>6, <2>1 DEF Accumulates, V
    <2>. QED  BY <1>2, <2>2
  <1>8. h[0] = c /\ h[1] = c /\ h[2] = Sanitized(c) /\ h[3] = Sanitized(c)
    <2>1. h[0] = c
      BY <1>6 DEF Accumulates, b
    <2>2. h[1] = StepResult("event", h[0]) /\ h[2] = StepResult("sanitize", h[1])
          /\ h[3] = StepResult("memory", h[2])
      BY <1>7 DEF AfterTool
    <2>. QED  BY <2>1, <2>2 DEF StepResult
  <1>9. h[4] = Bounded(Sanitized(c))
    BY <1>7, <1>8 DEF AfterTool, StepResult
  <1>. QED  BY <1>4, <1>6, <1>9

\* What the chain makes of a response: a binary's is whole in its frame or gone.
LEMMA CompletedFramed ==
    ASSUME NEW c \in Content
    PROVE  Completed(c) \in Content /\ WholeOrGone(Completed(c))
  <1>1. Completed(c) = Bounded(Sanitized(c))
    BY CompletedIs
  <1>2. /\ Sanitized(c) \in Content /\ Sanitized(c).origin = c.origin
        /\ c.origin = "binary" => Sanitized(c).form = "framed"
    BY SanitizedIs
  <1>. QED  BY <1>1, <1>2, BoundedIs DEF WholeOrGone
================================================================================
