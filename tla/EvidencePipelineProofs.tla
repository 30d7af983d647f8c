----------------------- MODULE EvidencePipelineProofs -----------------------
(***************************************************************************)
(* Theorems about EvidencePipeline, for any artifacts, samples, answers and *)
(* bounds: the types of the envelopes, what no stage may lose of an         *)
(* earlier one, who decides the deep stage's status, what the report says   *)
(* about the network, and what a complete deep stage rests on.  They follow *)
(* from one invariant, PipelineInv, that says where the values of the       *)
(* report come from at every step between the gate and the critic.          *)
(***************************************************************************)
EXTENDS EvidencePipeline, FoldLemmas

-----------------------------------------------------------------------------
(* Receipts                                                                 *)

\* Every surface that the coverage record counts answered for its artifact.
CoverageEarned ==
    coverage # None => \A s \in coverage.done \cap Surfaces : <<coverage.artifact, s>> \in receipts

\* What the gate takes for covered was answered for the current artifact.
CoveredIsEarned == Covered => {<<artifact, "search">>, <<artifact, "target">>} \subseteq receipts

LEMMA RecordedEarned ==
    ASSUME CoverageEarned, NEW a, NEW done, NEW s \in Recorded(a, done).done \cap Surfaces
    PROVE  s \in done \/ <<a, s>> \in receipts
  BY DEF CoverageEarned, Recorded, ReadCoverage

LEMMA PrepareEarns ==
    ASSUME CoverageEarned, PrepareGhidra
    PROVE  CoverageEarned'
  <1>1. coverage' = Recorded(artifact, {"prepared"}) /\ receipts' = receipts
    BY DEF PrepareGhidra, history
  <1>2. coverage'.artifact = artifact
    BY <1>1 DEF Recorded
  <1>3. "prepared" \notin Surfaces
    BY SampleAssumption
  <1>4. \A s \in coverage'.done \cap Surfaces : <<artifact, s>> \in receipts
    BY <1>1, <1>3, RecordedEarned
  <1>. QED  BY <1>1, <1>2, <1>4 DEF CoverageEarned

LEMMA AnswerEarns ==
    ASSUME CoverageEarned, NEW t \in Surfaces, GhidraAnswers(t)
    PROVE  CoverageEarned'
  <1>1. receipts' = receipts \cup {<<loaded, t>>}
    BY DEF GhidraAnswers
  <1>2. CASE coverage' = coverage
    BY <1>1, <1>2 DEF CoverageEarned
  <1>3. CASE coverage' # coverage
    <2>1. loaded = artifact /\ coverage' = Recorded(artifact, {t})
      BY <1>3 DEF GhidraAnswers
    <2>2. coverage'.artifact = artifact
      BY <2>1 DEF Recorded
    <2>3. \A s \in coverage'.done \cap Surfaces : s = t \/ <<artifact, s>> \in receipts
      BY <2>1, RecordedEarned
    <2>. QED  BY <1>1, <2>1, <2>2, <2>3 DEF CoverageEarned
  <1>. QED  BY <1>2, <1>3

\* All other actions keep the receipts, and drop the record or keep it.
LEMMA OthersKeepReceipts ==
    ASSUME [Next]_vars, ~PrepareGhidra, ~(\E s \in Surfaces : GhidraAnswers(s))
    PROVE  receipts' = receipts /\ coverage' \in {coverage, None}
  <1>. USE DEF sampleVars, deepVars, ghidraVars, history
  <1>1. CASE Intake \/ Triage
    BY <1>1 DEF Intake, AcquireSample, AcquireFails, IntakeWithoutSample, Triage
  <1>2. CASE Recovery
    BY <1>2 DEF Recovery, RecoveryEnds, RecoveryFails, RecoverySkip
  <1>3. CASE Ghidra
    BY <1>3 DEF Ghidra, PrepareGhidraFails
  <1>4. CASE DeepWorker \/ DeepGate
    BY <1>4 DEF DeepWorker, DeepGate, GateWithoutArtifact, GateContinues, GateDecides, GateRaises
  <1>5. CASE Decompile \/ NativePivot \/ NativeWorker
    BY <1>5 DEF Decompile, NativePivot, NativeWorker
  <1>6. CASE \/ Lens("host") \/ Lens("network")
             \/ Characterise("behavior", "attack") \/ Characterise("attack", "critic")
    BY <1>6 DEF Lens, Characterise
  <1>7. CASE EvidenceCritic \/ Report \/ NewTurn
    BY <1>7 DEF EvidenceCritic, Report, NewTurn
  <1>8. CASE UNCHANGED vars
    BY <1>8 DEF vars
  <1>. QED  BY <1>1, <1>2, <1>3, <1>4, <1>5, <1>6, <1>7, <1>8 DEF Next

\* deep_coverage.py: "covered", which alone makes the gate write "complete",
\* stands on a search and a decompilation that Ghidra answered for this very
\* artifact, whatever was loaded, lost, failed or acquired in between.
THEOREM CoverIsEarned == Spec => []CoveredIsEarned
  <1>1. Init => CoverageEarned
    BY DEF Init, CoverageEarned
  <1>2. CoverageEarned /\ [Next]_vars => CoverageEarned'
    <2>. SUFFICES ASSUME CoverageEarned, [Next]_vars  PROVE CoverageEarned'
      OBVIOUS
    <2>1. CASE PrepareGhidra
      BY <2>1, PrepareEarns
    <2>2. CASE \E s \in Surfaces : GhidraAnswers(s)
      BY <2>2, AnswerEarns
    <2>3. CASE ~PrepareGhidra /\ ~(\E s \in Surfaces : GhidraAnswers(s))
      <3>1. receipts' = receipts /\ coverage' \in {coverage, None}
        BY <2>3, OthersKeepReceipts
      <3>. QED  BY <3>1 DEF CoverageEarned
    <2>. QED  BY <2>1, <2>2, <2>3
  <1>3. CoverageEarned => CoveredIsEarned
    <2>. SUFFICES ASSUME CoverageEarned, Covered
                  PROVE  {<<artifact, "search">>, <<artifact, "target">>} \subseteq receipts
      BY DEF CoveredIsEarned
    <2>1. coverage # None /\ coverage.artifact = artifact /\ Required \subseteq coverage.done
      BY DEF Covered, ReadCoverage
    <2>2. {"search", "target"} \subseteq coverage.done \cap Surfaces
      BY <2>1, SampleAssumption DEF Required
    <2>. QED  BY <2>1, <2>2 DEF CoverageEarned
  <1>. QED  BY <1>1, <1>2, <1>3, PTL DEF Spec

-----------------------------------------------------------------------------
(* The deep loop                                                            *)

\* The gate's persisted counter is never behind the loop's own: an acquire
\* resets it before the loop's first pass only.
CountersAgree ==
    /\ iteration \in Nat /\ passes \in Nat
    /\ passes <= iteration
    /\ pc \in {"intake", "triage", "recovery"} => passes = 0

\* A pass of the gate that lets the pipeline go on has decided.
GateDecided ==
    (pc = "deep_gate" /\ pc' = "lenses") => Covered \/ Exhausted \/ artifact = None

LEMMA CountersStep ==
    ASSUME CountersAgree, [Next]_vars
    PROVE  CountersAgree'
  <1>. USE DEF CountersAgree, sampleVars, deepVars, ghidraVars, history
  <1>1. CASE Intake \/ Triage
    BY <1>1 DEF Intake, AcquireSample, AcquireFails, IntakeWithoutSample, Triage
  <1>2. CASE Recovery
    BY <1>2 DEF Recovery, RecoveryEnds, RecoveryFails, RecoverySkip, EngineOf
  <1>3. CASE Ghidra
    BY <1>3 DEF Ghidra, PrepareGhidra, PrepareGhidraFails, GhidraAnswers, GhidraUser
  <1>4. CASE DeepWorker \/ DeepGate
    BY <1>4 DEF DeepWorker, DeepGate, GateWithoutArtifact, GateContinues, GateDecides, GateRaises
  <1>5. CASE Decompile \/ NativePivot \/ NativeWorker
    BY <1>5 DEF Decompile, NativePivot, NativeWorker
  <1>6. CASE \/ Lens("host") \/ Lens("network")
             \/ Characterise("behavior", "attack") \/ Characterise("attack", "critic")
    BY <1>6 DEF Lens, Characterise
  <1>7. CASE EvidenceCritic \/ Report \/ NewTurn
    BY <1>7 DEF EvidenceCritic, Report, NewTurn
  <1>8. CASE UNCHANGED vars
    BY <1>8 DEF vars
  <1>. QED  BY <1>1, <1>2, <1>3, <1>4, <1>5, <1>6, <1>7, <1>8 DEF Next

\* deep_analysis_gate.py and the LoopAgent around it: with an artifact in hand
\* the loop never ends for want of passes before the gate has decided, whatever
\* earlier turns, failed acquires and resumed sessions left in its counter.
THEOREM LoopIsDecided == Spec => [][GateDecided]_vars
  <1>1. Init => CountersAgree
    BY DEF Init, CountersAgree
  <1>2. CountersAgree /\ [Next]_vars => CountersAgree'
    BY CountersStep
  <1>3. CountersAgree /\ [Next]_vars => [GateDecided]_vars
    <2>. SUFFICES ASSUME CountersAgree, Next, pc = "deep_gate", pc' = "lenses"
                  PROVE  Covered \/ Exhausted \/ artifact = None
      BY DEF GateDecided
    <2>1. DeepGate
      BY DEF Next, Intake, AcquireSample, AcquireFails, IntakeWithoutSample, Triage,
             Recovery, RecoveryEnds, RecoveryFails, RecoverySkip,
             Ghidra, PrepareGhidra, PrepareGhidraFails, GhidraAnswers, GhidraUser, DeepWorker,
             Decompile, NativePivot, NativeWorker, Lens, Characterise,
             EvidenceCritic, Report, NewTurn
    <2>2. CASE GateContinues
      BY <2>2, LimitAssumption DEF GateContinues, CountersAgree, Exhausted
    <2>. QED  BY <2>1, <2>2 DEF DeepGate, GateWithoutArtifact, GateDecides, GateRaises
  <1>. QED  BY <1>1, <1>2, <1>3, PTL DEF Spec

-----------------------------------------------------------------------------
(* Sequences: prefixes, what one adds to another, what is picked of one      *)

LEMMA PrefixFacts ==
    ASSUME NEW X, NEW s \in Seq(X), NEW n \in Nat
    PROVE  /\ Prefix(s, n) \in Seq(X) /\ Len(Prefix(s, n)) <= n
           /\ ToSet(Prefix(s, n)) \subseteq ToSet(s)
           /\ Len(s) <= n => Prefix(s, n) = s
           /\ Len(s) > n => Len(Prefix(s, n)) = n
           /\ Distinct(s) => Distinct(Prefix(s, n))
  <1>. DEFINE m == IF Len(s) <= n THEN Len(s) ELSE n
              p == SubSeq(s, 1, m)
  <1>1. m \in 0 .. Len(s) /\ m <= n /\ (Len(s) <= n => m = Len(s)) /\ (Len(s) > n => m = n)
    OBVIOUS
  <1>. HIDE DEF m
  <1>2. /\ p \in Seq(X) /\ Len(p) = m /\ DOMAIN p = 1 .. m
        /\ \A i \in 1 .. m : p[i] = s[i] /\ i \in DOMAIN s
    BY <1>1
  <1>3. Len(s) <= n => p = s
    BY <1>1, <1>2
  <1>. HIDE DEF p
  <1>4. ToSet(p) \subseteq ToSet(s)
    BY <1>2 DEF ToSet
  <1>5. Distinct(s) => Distinct(p)
    BY <1>2 DEF Distinct
  <1>6. Prefix(s, n) = p
    BY DEF Prefix, p, m
  <1>. QED  BY <1>1, <1>2, <1>3, <1>4, <1>5, <1>6

LEMMA AppendedFacts ==
    ASSUME NEW X, NEW s \in Seq(X), NEW x \in X
    PROVE  /\ Append(s, x) \in Seq(X) /\ ToSet(Append(s, x)) = ToSet(s) \cup {x}
           /\ Len(Append(s, x)) >= Len(s)
           /\ Distinct(s) /\ x \notin ToSet(s) => Distinct(Append(s, x))
  <1>. DEFINE n == Len(s)
              t == Append(s, x)
  <1>1. /\ n \in Nat /\ DOMAIN s = 1 .. n /\ t \in Seq(X) /\ DOMAIN t = 1 .. n + 1
        /\ t[n + 1] = x /\ \A i \in 1 .. n : t[i] = s[i]
    OBVIOUS
  <1>2. \A i \in 1 .. n + 1 : i = n + 1 \/ i \in 1 .. n
    BY <1>1
  <1>3. n + 1 \in 1 .. n + 1 /\ \A i \in 1 .. n : i \in 1 .. n + 1
    BY <1>1
  <1>. HIDE DEF n, t
  <1>4. ToSet(s) = {s[i] : i \in 1 .. n} /\ ToSet(t) = {t[i] : i \in 1 .. n + 1}
    BY <1>1 DEF ToSet
  <1>5. ToSet(t) = ToSet(s) \cup {x}
    BY <1>1, <1>2, <1>3, <1>4
  <1>6. Distinct(s) /\ x \notin ToSet(s) => Distinct(t)
    BY <1>1, <1>2, <1>3, <1>4 DEF Distinct
  <1>7. Len(Append(s, x)) >= Len(s)
    OBVIOUS
  <1>. QED  BY <1>1, <1>5, <1>6, <1>7 DEF t

LEMMA AppendedNew ==
    ASSUME NEW X, NEW s \in Seq(X), NEW x \in X
    PROVE  /\ AppendNew(s, x) \in Seq(X) /\ ToSet(AppendNew(s, x)) = ToSet(s) \cup {x}
           /\ Len(AppendNew(s, x)) >= Len(s)
           /\ Distinct(s) => Distinct(AppendNew(s, x))
  <1>1. Len(s) \in Nat
    OBVIOUS
  <1>. QED  BY <1>1, AppendedFacts DEF AppendNew

\* What v is after k elements of t.
ExtendsTo(s, t, k, v) ==
    /\ ToSet(v) = ToSet(s) \cup {t[j] : j \in 1 .. k}
    /\ Len(v) >= Len(s)
    /\ Distinct(s) => Distinct(v)

\* s and what t adds to it, one element after the other.
LEMMA ExtendedFacts ==
    ASSUME NEW X, NEW s \in Seq(X), NEW t \in Seq(X)
    PROVE  /\ Extended(s, t) \in Seq(X) /\ ToSet(Extended(s, t)) = ToSet(s) \cup ToSet(t)
           /\ Len(Extended(s, t)) >= Len(s)
           /\ Distinct(s) => Distinct(Extended(s, t))
  <1>0. PICK n \in Nat : DOMAIN t = 1 .. n /\ \A i \in 1 .. n : t[i] \in X
    <2>1. Len(t) \in Nat /\ DOMAIN t = 1 .. Len(t) /\ \A i \in 1 .. Len(t) : t[i] \in X
      OBVIOUS
    <2>. QED  BY <2>1
  <1>. DEFINE V == Seq(X)
              b == s
              g == [i \in 1 .. n |-> [v \in Seq(X) |-> AppendNew(v, t[i])]]
              iter == CHOOSE f : f = [u \in SUBSET (1 .. n) |->
                               IF u = {} THEN s ELSE AppendNew(f[u \ {Max(u)}], t[Max(u)])]
  <1>1. b \in V /\ g \in [1 .. n -> [V -> V]]
    BY <1>0, AppendedNew
  <1>2. \A i \in 1 .. n : \A v \in Seq(X) : g[i][v] = AppendNew(v, t[i])
    OBVIOUS
  <1>. HIDE DEF g, V, b
  <1>3. iter = [u \in SUBSET (1 .. n) |->
                  IF u = {} THEN s ELSE AppendNew(iter[u \ {Max(u)}], t[Max(u)])]
    <2>1. PICK f : FoldsBy(n, V, b, g, f)
      BY <1>1, FoldExists
    <2>2. f = [u \in SUBSET (1 .. n) |->
                 IF u = {} THEN s ELSE AppendNew(f[u \ {Max(u)}], t[Max(u)])]
      <3>1. ASSUME NEW u \in SUBSET (1 .. n), u # {}
            PROVE  f[u] = AppendNew(f[u \ {Max(u)}], t[Max(u)])
        <4>1. Max(u) \in 1 .. n
          BY <3>1, MaxIs
        <4>2. f[u] = g[Max(u)][f[u \ {Max(u)}]] /\ f[u \ {Max(u)}] \in Seq(X)
          BY <2>1, <3>1 DEF FoldsBy, V
        <4>. QED  BY <1>2, <4>1, <4>2
      <3>2. f[{}] = s
        BY <2>1 DEF FoldsBy, b
      <3>. QED  BY <2>1, <3>1, <3>2 DEF FoldsBy
    <2>. QED  BY <2>2
  <1>4. Extended(s, t) = iter[1 .. n]
    BY <1>0 DEF Extended, FoldLeft, MapThenFoldSet
  <1>. HIDE DEF iter
  <1>5. Takes(n, V, b, g, iter)
    <2>1. iter[{}] = b
      BY <1>3 DEF b
    <2>2. ASSUME NEW u \in SUBSET (1 .. n), u # {}, iter[u \ {Max(u)}] \in V
          PROVE  iter[u] = g[Max(u)][iter[u \ {Max(u)}]]
      <3>1. Max(u) \in 1 .. n
        BY <2>2, MaxIs
      <3>2. iter[u] = AppendNew(iter[u \ {Max(u)}], t[Max(u)])
        BY <1>3, <2>2
      <3>. QED  BY <1>2, <2>2, <3>1, <3>2 DEF V
    <2>. QED  BY <2>1, <2>2 DEF Takes
  <1>6. PICK h : Accumulates(n, V, b, g, h) /\ h[n] = iter[1 .. n]
    BY <1>1, <1>5, FoldOnSegments
  <1>7. /\ h \in [0 .. n -> Seq(X)] /\ h[0] = s
        /\ \A k \in 1 .. n : h[k - 1] \in Seq(X) /\ h[k] = g[k][h[k - 1]]
    <2>1. h \in [0 .. n -> V] /\ h[0] = b /\ \A k \in 1 .. n : h[k] = g[k][h[k - 1]]
      BY <1>6 DEF Accumulates
    <2>2. \A k \in 1 .. n : k - 1 \in 0 .. n
      OBVIOUS
    <2>. QED  BY <2>1, <2>2 DEF V, b
  <1>8. \A k \in 1 .. n : h[k] = AppendNew(h[k - 1], t[k])
    BY <1>2, <1>7
  <1>9. Extended(s, t) = h[n]
    BY <1>4, <1>6
  <1>. DEFINE S == {k \in 0 .. n : ExtendsTo(s, t, k, h[k])}
  <1>. HIDE DEF S
  <1>10. 0 \in S
    <2>1. ToSet(s) = ToSet(s) \cup {t[j] : j \in 1 .. 0}
      OBVIOUS
    <2>2. Len(s) >= Len(s)
      OBVIOUS
    <2>. QED  BY <1>7, <2>1, <2>2 DEF S, ExtendsTo
  <1>11. \A i \in 0 .. n - 1 : i \in S => i + 1 \in S
    <2>. SUFFICES ASSUME NEW i \in 0 .. n - 1, ExtendsTo(s, t, i, h[i])
                  PROVE  ExtendsTo(s, t, i + 1, h[i + 1])
      BY DEF S
    <2>. DEFINE v == h[i]
                x == t[i + 1]
                w == h[i + 1]
    <2>1. i + 1 \in 1 .. n /\ i \in 0 .. n /\ (i + 1) - 1 = i
      OBVIOUS
    <2>2. w = AppendNew(v, x) /\ v \in Seq(X) /\ x \in X
      BY <1>0, <1>7, <1>8, <2>1
    <2>3. {t[j] : j \in 1 .. i + 1} = {t[j] : j \in 1 .. i} \cup {x}
      <3>1. \A j \in 1 .. i + 1 : j = i + 1 \/ j \in 1 .. i
        BY <2>1
      <3>2. i + 1 \in 1 .. i + 1 /\ \A j \in 1 .. i : j \in 1 .. i + 1
        BY <2>1
      <3>. QED  BY <3>1, <3>2
    <2>. HIDE DEF v, x, w
    <2>4. /\ ToSet(w) = ToSet(v) \cup {x} /\ (Distinct(v) => Distinct(w))
          /\ w \in Seq(X) /\ Len(w) >= Len(v)
      BY <2>2, AppendedNew
    <2>5. ExtendsTo(s, t, i, v)
      BY DEF v
    <2>6. Len(w) >= Len(s)
      <3>1. Len(w) \in Nat /\ Len(v) \in Nat /\ Len(s) \in Nat
        BY <2>2, <2>4
      <3>. QED  BY <2>4, <2>5, <3>1 DEF ExtendsTo
    <2>7. ExtendsTo(s, t, i + 1, w)
      BY <2>3, <2>4, <2>5, <2>6 DEF ExtendsTo
    <2>. QED  BY <2>7 DEF w
  <1>12. n \in S
    <2>1. 0 .. n \subseteq S
      BY <1>10, <1>11, InductionTo
    <2>. QED  BY <2>1
  <1>13. ToSet(t) = {t[j] : j \in 1 .. n} /\ n \in 0 .. n
    BY <1>0 DEF ToSet
  <1>. QED  BY <1>7, <1>9, <1>12, <1>13 DEF S, ExtendsTo

\* What v is of the first k of ms.
PickedTo(ms, C, k, v) == ToSet(v) = {ms[j] : j \in 1 .. k} \cap C /\ Distinct(v)

\* What is picked, one element after the other.
LEMMA PickedFacts ==
    ASSUME NEW X, NEW C, NEW ms \in Seq(X), Distinct(ms)
    PROVE  /\ Picked(ms, C) \in Seq(X) /\ ToSet(Picked(ms, C)) = ToSet(ms) \cap C
           /\ Distinct(Picked(ms, C))
  <1>0. PICK n \in Nat : DOMAIN ms = 1 .. n /\ \A i \in 1 .. n : ms[i] \in X
    <2>1. Len(ms) \in Nat /\ DOMAIN ms = 1 .. Len(ms) /\ \A i \in 1 .. Len(ms) : ms[i] \in X
      OBVIOUS
    <2>. QED  BY <2>1
  <1>. DEFINE V == Seq(X)
              b == <<>>
              g == [i \in 1 .. n |-> [v \in Seq(X) |-> (IF ms[i] \in C THEN Append(v, ms[i]) ELSE v)]]
              iter == CHOOSE f : f = [u \in SUBSET (1 .. n) |->
                               IF u = {} THEN <<>> ELSE (IF ms[Max(u)] \in C THEN Append(f[u \ {Max(u)}], ms[Max(u)]) ELSE f[u \ {Max(u)}])]
  <1>1. b \in V /\ g \in [1 .. n -> [V -> V]]
    BY <1>0
  <1>2. \A i \in 1 .. n : \A v \in Seq(X) : g[i][v] = (IF ms[i] \in C THEN Append(v, ms[i]) ELSE v)
    OBVIOUS
  <1>. HIDE DEF g, V, b
  <1>3. iter = [u \in SUBSET (1 .. n) |->
                  IF u = {} THEN <<>> ELSE (IF ms[Max(u)] \in C THEN Append(iter[u \ {Max(u)}], ms[Max(u)]) ELSE iter[u \ {Max(u)}])]
    <2>1. PICK f : FoldsBy(n, V, b, g, f)
      BY <1>1, FoldExists
    <2>2. f = [u \in SUBSET (1 .. n) |->
                 IF u = {} THEN <<>> ELSE (IF ms[Max(u)] \in C THEN Append(f[u \ {Max(u)}], ms[Max(u)]) ELSE f[u \ {Max(u)}])]
      <3>1. ASSUME NEW u \in SUBSET (1 .. n), u # {}
            PROVE  f[u] = (IF ms[Max(u)] \in C THEN Append(f[u \ {Max(u)}], ms[Max(u)]) ELSE f[u \ {Max(u)}])
        <4>1. Max(u) \in 1 .. n
          BY <3>1, MaxIs
        <4>2. f[u] = g[Max(u)][f[u \ {Max(u)}]] /\ f[u \ {Max(u)}] \in Seq(X)
          BY <2>1, <3>1 DEF FoldsBy, V
        <4>. QED  BY <1>2, <4>1, <4>2
      <3>2. f[{}] = <<>>
        BY <2>1 DEF FoldsBy, b
      <3>. QED  BY <2>1, <3>1, <3>2 DEF FoldsBy
    <2>. QED  BY <2>2
  <1>4. Picked(ms, C) = iter[1 .. n]
    BY <1>0 DEF Picked, FoldLeft, MapThenFoldSet
  <1>. HIDE DEF iter
  <1>5. Takes(n, V, b, g, iter)
    <2>1. iter[{}] = b
      BY <1>3 DEF b
    <2>2. ASSUME NEW u \in SUBSET (1 .. n), u # {}, iter[u \ {Max(u)}] \in V
          PROVE  iter[u] = g[Max(u)][iter[u \ {Max(u)}]]
      <3>1. Max(u) \in 1 .. n
        BY <2>2, MaxIs
      <3>2. iter[u] = (IF ms[Max(u)] \in C THEN Append(iter[u \ {Max(u)}], ms[Max(u)]) ELSE iter[u \ {Max(u)}])
        BY <1>3, <2>2
      <3>. QED  BY <1>2, <2>2, <3>1, <3>2 DEF V
    <2>. QED  BY <2>1, <2>2 DEF Takes
  <1>6. PICK h : Accumulates(n, V, b, g, h) /\ h[n] = iter[1 .. n]
    BY <1>1, <1>5, FoldOnSegments
  <1>7. /\ h \in [0 .. n -> Seq(X)] /\ h[0] = <<>>
        /\ \A k \in 1 .. n : h[k - 1] \in Seq(X) /\ h[k] = g[k][h[k - 1]]
    <2>1. h \in [0 .. n -> V] /\ h[0] = b /\ \A k \in 1 .. n : h[k] = g[k][h[k - 1]]
      BY <1>6 DEF Accumulates
    <2>2. \A k \in 1 .. n : k - 1 \in 0 .. n
      OBVIOUS
    <2>. QED  BY <2>1, <2>2 DEF V, b
  <1>8. \A k \in 1 .. n : h[k] = (IF ms[k] \in C THEN Append(h[k - 1], ms[k]) ELSE h[k - 1])
    BY <1>2, <1>7
  <1>9. Picked(ms, C) = h[n]
    BY <1>4, <1>6
  <1>. DEFINE S == {k \in 0 .. n : PickedTo(ms, C, k, h[k])}
  <1>. HIDE DEF S
  <1>10. 0 \in S
    BY <1>7 DEF S, PickedTo, ToSet, Distinct
  <1>11. \A i \in 0 .. n - 1 : i \in S => i + 1 \in S
    <2>. SUFFICES ASSUME NEW i \in 0 .. n - 1, PickedTo(ms, C, i, h[i])
                  PROVE  PickedTo(ms, C, i + 1, h[i + 1])
      BY DEF S
    <2>. DEFINE v == h[i]
                x == ms[i + 1]
                w == h[i + 1]
    <2>1. i + 1 \in 1 .. n /\ i \in 0 .. n /\ (i + 1) - 1 = i
      OBVIOUS
    <2>2. w = (IF x \in C THEN Append(v, x) ELSE v) /\ v \in Seq(X) /\ x \in X
      BY <1>0, <1>7, <1>8, <2>1
    <2>3. {ms[j] : j \in 1 .. i + 1} = {ms[j] : j \in 1 .. i} \cup {x}
      <3>1. \A j \in 1 .. i + 1 : j = i + 1 \/ j \in 1 .. i
        BY <2>1
      <3>2. i + 1 \in 1 .. i + 1 /\ \A j \in 1 .. i : j \in 1 .. i + 1
        BY <2>1
      <3>. QED  BY <3>1, <3>2
    <2>4. \A j \in 1 .. i : ms[j] # x
      <3>1. \A j \in 1 .. i : j \in 1 .. n /\ j # i + 1
        BY <2>1
      <3>. QED  BY <1>0, <2>1, <3>1 DEF Distinct
    <2>5. PickedTo(ms, C, i, v)
      BY DEF v
    <2>. HIDE DEF v, x, w
    <2>6. PickedTo(ms, C, i + 1, w)
      <3>1. ToSet(v) = {ms[j] : j \in 1 .. i} \cap C /\ Distinct(v) /\ x \notin ToSet(v)
        BY <2>4, <2>5 DEF PickedTo
      <3>2. CASE x \in C
        <4>1. ToSet(w) = ToSet(v) \cup {x} /\ Distinct(w)
          BY <2>2, <3>1, <3>2, AppendedFacts
        <4>. QED  BY <2>3, <3>1, <3>2, <4>1 DEF PickedTo
      <3>3. CASE x \notin C
        BY <2>2, <2>3, <3>1, <3>3 DEF PickedTo
      <3>. QED  BY <3>2, <3>3
    <2>. QED  BY <2>6 DEF w
  <1>12. n \in S
    <2>1. 0 .. n \subseteq S
      BY <1>10, <1>11, InductionTo
    <2>. QED  BY <2>1
  <1>13. ToSet(ms) = {ms[j] : j \in 1 .. n} /\ n \in 0 .. n
    BY <1>0 DEF ToSet
  <1>. QED  BY <1>0, <1>7, <1>9, <1>12, <1>13 DEF S, PickedTo

\* What v is of the first k of ss.
JoinedTo(ss, k, v) ==
    /\ \A y : y \in ToSet(v) <=> \E j \in 1 .. k : y \in ToSet(ss[j])
    /\ Distinct(v)

\* Sequences without repetition, with nothing in common, one behind the other.
LEMMA ConcatenatedFacts ==
    ASSUME NEW X, NEW n \in Nat, NEW ss, DOMAIN ss = 1 .. n,
           \A i \in 1 .. n : ss[i] \in Seq(X) /\ Distinct(ss[i]),
           \A i, j \in 1 .. n : i # j => ToSet(ss[i]) \cap ToSet(ss[j]) = {}
    PROVE  /\ Concatenated(ss) \in Seq(X) /\ Distinct(Concatenated(ss))
           /\ ToSet(Concatenated(ss)) = UNION {ToSet(ss[j]) : j \in 1 .. n}
  <1>. DEFINE V == Seq(X)
              b == <<>>
              g == [i \in 1 .. n |-> [v \in Seq(X) |-> (v \o ss[i])]]
              iter == CHOOSE f : f = [u \in SUBSET (1 .. n) |->
                               IF u = {} THEN <<>> ELSE (f[u \ {Max(u)}] \o ss[Max(u)])]
  <1>1. b \in V /\ g \in [1 .. n -> [V -> V]]
    OBVIOUS
  <1>2. \A i \in 1 .. n : \A v \in Seq(X) : g[i][v] = (v \o ss[i])
    OBVIOUS
  <1>. HIDE DEF g, V, b
  <1>3. iter = [u \in SUBSET (1 .. n) |->
                  IF u = {} THEN <<>> ELSE (iter[u \ {Max(u)}] \o ss[Max(u)])]
    <2>1. PICK f : FoldsBy(n, V, b, g, f)
      BY <1>1, FoldExists
    <2>2. f = [u \in SUBSET (1 .. n) |->
                 IF u = {} THEN <<>> ELSE (f[u \ {Max(u)}] \o ss[Max(u)])]
      <3>1. ASSUME NEW u \in SUBSET (1 .. n), u # {}
            PROVE  f[u] = (f[u \ {Max(u)}] \o ss[Max(u)])
        <4>1. Max(u) \in 1 .. n
          BY <3>1, MaxIs
        <4>2. f[u] = g[Max(u)][f[u \ {Max(u)}]] /\ f[u \ {Max(u)}] \in Seq(X)
          BY <2>1, <3>1 DEF FoldsBy, V
        <4>. QED  BY <1>2, <4>1, <4>2
      <3>2. f[{}] = <<>>
        BY <2>1 DEF FoldsBy, b
      <3>. QED  BY <2>1, <3>1, <3>2 DEF FoldsBy
    <2>. QED  BY <2>2
  <1>4. Concatenated(ss) = iter[1 .. n]
    BY DEF Concatenated, FoldLeft, MapThenFoldSet
  <1>. HIDE DEF iter
  <1>5. Takes(n, V, b, g, iter)
    <2>1. iter[{}] = b
      BY <1>3 DEF b
    <2>2. ASSUME NEW u \in SUBSET (1 .. n), u # {}, iter[u \ {Max(u)}] \in V
          PROVE  iter[u] = g[Max(u)][iter[u \ {Max(u)}]]
      <3>1. Max(u) \in 1 .. n
        BY <2>2, MaxIs
      <3>2. iter[u] = (iter[u \ {Max(u)}] \o ss[Max(u)])
        BY <1>3, <2>2
      <3>. QED  BY <1>2, <2>2, <3>1, <3>2 DEF V
    <2>. QED  BY <2>1, <2>2 DEF Takes
  <1>6. PICK h : Accumulates(n, V, b, g, h) /\ h[n] = iter[1 .. n]
    BY <1>1, <1>5, FoldOnSegments
  <1>7. /\ h \in [0 .. n -> Seq(X)] /\ h[0] = <<>>
        /\ \A k \in 1 .. n : h[k - 1] \in Seq(X) /\ h[k] = g[k][h[k - 1]]
    <2>1. h \in [0 .. n -> V] /\ h[0] = b /\ \A k \in 1 .. n : h[k] = g[k][h[k - 1]]
      BY <1>6 DEF Accumulates
    <2>2. \A k \in 1 .. n : k - 1 \in 0 .. n
      OBVIOUS
    <2>. QED  BY <2>1, <2>2 DEF V, b
  <1>8. \A k \in 1 .. n : h[k] = (h[k - 1] \o ss[k])
    BY <1>2, <1>7
  <1>9. Concatenated(ss) = h[n]
    BY <1>4, <1>6
  <1>. DEFINE S == {k \in 0 .. n : JoinedTo(ss, k, h[k])}
  <1>. HIDE DEF S
  <1>10. 0 \in S
    BY <1>7 DEF S, JoinedTo, ToSet, Distinct
  <1>11. \A i \in 0 .. n - 1 : i \in S => i + 1 \in S
    <2>. SUFFICES ASSUME NEW i \in 0 .. n - 1, JoinedTo(ss, i, h[i])
                  PROVE  JoinedTo(ss, i + 1, h[i + 1])
      BY DEF S
    <2>. DEFINE v == h[i]
                x == ss[i + 1]
                w == h[i + 1]
    <2>1. i + 1 \in 1 .. n /\ i \in 0 .. n /\ (i + 1) - 1 = i
      OBVIOUS
    <2>2. w = v \o x /\ v \in Seq(X) /\ x \in Seq(X) /\ Distinct(x)
      BY <1>7, <1>8, <2>1
    <2>3. (\A j \in 1 .. i + 1 : j = i + 1 \/ j \in 1 .. i)
          /\ i + 1 \in 1 .. i + 1 /\ \A j \in 1 .. i : j \in 1 .. i + 1
      BY <2>1
    <2>4. ToSet(v) \cap ToSet(x) = {}
      <3>1. \A j \in 1 .. i : j \in 1 .. n /\ j # i + 1
        BY <2>1
      <3>2. \A j \in 1 .. i : ToSet(ss[j]) \cap ToSet(x) = {}
        BY <2>1, <3>1
      <3>3. \A y : y \in ToSet(v) <=> \E j \in 1 .. i : y \in ToSet(ss[j])
        BY DEF JoinedTo
      <3>. QED  BY <3>2, <3>3
    <2>5. JoinedTo(ss, i, v) /\ ss[i + 1] = x
      BY DEF v
    <2>. HIDE DEF v, x, w
    <2>6. JoinedTo(ss, i + 1, w)
      <3>1. Distinct(v) /\ \A y : y \in ToSet(v) <=> \E j \in 1 .. i : y \in ToSet(ss[j])
        BY <2>5 DEF JoinedTo
      <3>2. ToSet(w) = ToSet(v) \cup ToSet(x) /\ Distinct(w)
        BY <2>2, <2>4, <3>1, Joined
      <3>3. ASSUME NEW y  PROVE y \in ToSet(w) <=> \E j \in 1 .. i + 1 : y \in ToSet(ss[j])
        <4>1. y \in ToSet(w) => \E j \in 1 .. i + 1 : y \in ToSet(ss[j])
          BY <2>3, <2>5, <3>1, <3>2
        <4>2. (\E j \in 1 .. i + 1 : y \in ToSet(ss[j])) => y \in ToSet(w)
          BY <2>3, <2>5, <3>1, <3>2
        <4>. QED  BY <4>1, <4>2
      <3>. QED  BY <3>2, <3>3 DEF JoinedTo
    <2>. QED  BY <2>6 DEF w
  <1>12. n \in S
    <2>1. 0 .. n \subseteq S
      BY <1>10, <1>11, InductionTo
    <2>. QED  BY <2>1
  <1>13. JoinedTo(ss, n, h[n]) /\ n \in 0 .. n
    BY <1>12 DEF S
  <1>14. ToSet(h[n]) = UNION {ToSet(ss[j]) : j \in 1 .. n} /\ Distinct(h[n])
    BY <1>13 DEF JoinedTo
  <1>. QED  BY <1>7, <1>9, <1>13, <1>14

\* Without repetition there are as many elements as places.
LEMMA DistinctCount ==
    ASSUME NEW X, NEW s \in Seq(X)
    PROVE  /\ IsFiniteSet(ToSet(s)) /\ Cardinality(ToSet(s)) <= Len(s)
           /\ Distinct(s) => Cardinality(ToSet(s)) = Len(s)
  <1>1. Len(s) \in Nat /\ DOMAIN s = 1 .. Len(s)
    OBVIOUS
  <1>2. IsFiniteSet(1 .. Len(s)) /\ Cardinality(1 .. Len(s)) = Len(s)
    BY <1>1, FS_Interval
  <1>3. s \in Surjection(1 .. Len(s), ToSet(s))
    BY <1>1 DEF Surjection, ToSet
  <1>4. IsFiniteSet(ToSet(s)) /\ Cardinality(ToSet(s)) <= Len(s)
    BY <1>2, <1>3, FS_Surjection
  <1>5. Distinct(s) => s \in Injection(1 .. Len(s), ToSet(s))
    BY <1>1, <1>3 DEF Injection, Surjection, IsInjective, Distinct
  <1>6. Distinct(s) => Cardinality(ToSet(s)) = Len(s)
    BY <1>2, <1>3, <1>5, FS_Surjection
  <1>. QED  BY <1>4, <1>6

LEMMA SetToSeqFacts ==
    ASSUME NEW S, IsFiniteSet(S)
    PROVE  /\ SetToSeq(S) \in Seq(S) /\ ToSet(SetToSeq(S)) = S
           /\ Distinct(SetToSeq(S))
  <1>. DEFINE n == Cardinality(S)
              f == SetToSeq(S)
  <1>1. n \in Nat /\ ExistsBijection(1 .. n, S)
    BY FS_CardinalityType
  <1>2. \E g : g \in [1 .. n -> S] /\ IsInjective(g)
    BY <1>1 DEF ExistsBijection, Bijection, Injection, Surjection, IsInjective
  <1>3. f \in [1 .. n -> S] /\ IsInjective(f)
    BY <1>2 DEF SetToSeq
  <1>4. f \in Seq(S) /\ DOMAIN f = 1 .. n
    BY <1>1, <1>3
  <1>5. Distinct(f)
    BY <1>3 DEF IsInjective, Distinct
  <1>6. IsFiniteSet(1 .. n) /\ Cardinality(1 .. n) = n
    BY <1>1, FS_Interval
  <1>7. f \in Injection(1 .. n, S)
    BY <1>3 DEF Injection
  <1>8. f \in Surjection(1 .. n, S)
    BY <1>6, <1>7, FS_Injection
  <1>9. ToSet(f) = S
    BY <1>4, <1>8 DEF Surjection, ToSet
  <1>. QED  BY <1>4, <1>5, <1>9

\* As much of a set as a sequence of n has room for.
LEMMA PrefixOfSet ==
    ASSUME NEW S, IsFiniteSet(S), NEW n \in Nat
    PROVE  /\ Prefix(SetToSeq(S), n) \in Seq(S) /\ Len(Prefix(SetToSeq(S), n)) <= n
           /\ ToSet(Prefix(SetToSeq(S), n)) \subseteq S
           /\ \/ ToSet(Prefix(SetToSeq(S), n)) = S
              \/ /\ Len(Prefix(SetToSeq(S), n)) = n
                 /\ Cardinality(ToSet(Prefix(SetToSeq(S), n))) = n
  <1>. DEFINE f == SetToSeq(S)
              p == Prefix(f, n)
  <1>1. f \in Seq(S) /\ ToSet(f) = S /\ Distinct(f) /\ Len(f) \in Nat
    BY SetToSeqFacts
  <1>. HIDE DEF f
  <1>2. /\ p \in Seq(S) /\ Len(p) <= n /\ ToSet(p) \subseteq S /\ Distinct(p)
        /\ Len(f) <= n => p = f
        /\ Len(f) > n => Len(p) = n
    BY <1>1, PrefixFacts
  <1>3. Cardinality(ToSet(p)) = Len(p)
    BY <1>2, DistinctCount
  <1>4. Len(f) <= n \/ Len(f) > n
    BY <1>1
  <1>. QED  BY <1>1, <1>2, <1>3, <1>4 DEF f

-----------------------------------------------------------------------------
(* Types of the envelopes                                                    *)

Value == Envelope \cup {Prose, None}

LEMMA FieldsOf ==
    ASSUME NEW e \in Envelope
    PROVE  /\ e.artifact \in Artifacts \cup {Foreign, None} /\ e.status \in Statuses
           /\ e.findings \in Seq(Finding) /\ e.limits \in Seq(Limits)
           /\ e.net \in BOOLEAN /\ e.flaw \in Flaws
           /\ IsEnvelope(e)
  BY ValueAssumption DEF Envelope, IsEnvelope

LEMMA EnvelopeOf ==
    ASSUME NEW a \in Artifacts \cup {Foreign, None}, NEW st \in Statuses,
           NEW fs \in Seq(Finding), NEW ls \in Seq(Limits), NEW net \in BOOLEAN, NEW fl \in Flaws
    PROVE  [artifact |-> a, status |-> st, findings |-> fs, limits |-> ls, net |-> net,
            flaw |-> fl] \in Envelope
  BY DEF Envelope

\* What the strict model accepts for a.
LEMMA ParsesOf ==
    ASSUME NEW e \in Envelope, NEW a \in Artifacts, e.artifact = a, e.flaw = "none",
           Len(e.findings) <= MaxFindings, Len(e.limits) <= MaxLimits
    PROVE  Parses(e, a)
  BY FieldsOf, ValueAssumption DEF Parses, Valid

LEMMA SaidTyped ==
    ASSUME NEW t \in AnswerType, artifact \in Artifacts \cup {Empty, None}
    PROVE  Said(t) \in Envelope
  <1>1. /\ t.status \in Statuses /\ t.flaw \in Flaws /\ t.net \in BOOLEAN
        /\ t.kinds \in Seq(Kinds) /\ t.limits \in Seq({"own"})
    BY DEF AnswerType
  <1>. DEFINE fs == [i \in DOMAIN t.kinds |-> [sample |-> Subject, kind |-> t.kinds[i]]]
              a == CASE t.anchor = "none" -> None
                     [] t.anchor = "current" /\ artifact \in Artifacts -> artifact
                     [] OTHER -> Foreign
  <1>2. Subject \in Samples \cup {None}
    BY SampleAssumption DEF Subject
  <1>3. fs \in Seq(Finding)
    <2>1. PICK n \in Nat : DOMAIN t.kinds = 1 .. n /\ \A i \in 1 .. n : t.kinds[i] \in Kinds
      <3>1. /\ Len(t.kinds) \in Nat /\ DOMAIN t.kinds = 1 .. Len(t.kinds)
            /\ \A i \in 1 .. Len(t.kinds) : t.kinds[i] \in Kinds
        BY <1>1
      <3>. QED  BY <3>1
    <2>2. \A i \in 1 .. n : [sample |-> Subject, kind |-> t.kinds[i]] \in Finding
      BY <1>2, <2>1 DEF Finding
    <2>3. fs = [i \in 1 .. n |-> [sample |-> Subject, kind |-> t.kinds[i]]]
      BY <2>1
    <2>4. fs \in [1 .. n -> Finding]
      BY <2>2, <2>3
    <2>. QED  BY <2>4
  <1>4. t.limits \in Seq(Limits)
    BY <1>1 DEF Limits
  <1>5. a \in Artifacts \cup {Foreign, None}
    OBVIOUS
  <1>6. Said(t) = [artifact |-> a, status |-> t.status, findings |-> fs, limits |-> t.limits,
                   net |-> t.net, flaw |-> t.flaw]
    BY DEF Said
  <1>. HIDE DEF fs, a
  <1>. QED  BY <1>1, <1>3, <1>4, <1>5, <1>6, EnvelopeOf

LEMMA WrittenTyped ==
    ASSUME NEW s \in Stages, NEW t \in Answers[s], artifact \in Artifacts \cup {Empty, None},
           evidence[s] \in Value
    PROVE  Written(s, t) \in Value
  <1>1. t \in AnswerType \/ t = Prose \/ t = Silent
    BY AnswerAssumption
  <1>. QED  BY <1>1, SaidTyped DEF Written, Value

\* A failed envelope is one the strict model accepts.
LEMMA FailedValid ==
    ASSUME artifact \in Artifacts
    PROVE  FailedEnvelope(artifact) \in Envelope /\ Parses(FailedEnvelope(artifact), artifact)
  <1>1. <<"envelope_invalid">> \in Seq(Limits) /\ <<>> \in Seq(Finding)
    BY DEF Limits
  <1>2. FailedEnvelope(artifact) \in Envelope
    BY <1>1 DEF FailedEnvelope, Envelope, Statuses, Flaws
  <1>3. IsEnvelope(FailedEnvelope(artifact))
    BY <1>2, ValueAssumption DEF IsEnvelope
  <1>4. /\ FailedEnvelope(artifact).artifact = artifact
        /\ FailedEnvelope(artifact).flaw = "none"
        /\ FailedEnvelope(artifact).findings = <<>>
        /\ FailedEnvelope(artifact).limits = <<"envelope_invalid">>
    BY DEF FailedEnvelope
  <1>5. Len(<<>>) = 0 /\ Len(<<"envelope_invalid">>) = 1
    OBVIOUS
  <1>. QED  BY <1>2, <1>3, <1>4, <1>5, LimitAssumption, ValueAssumption DEF Parses, Valid

LEMMA EmptyTyped ==
    ASSUME NEW a \in Artifacts
    PROVE  EmptyEnvelope(a) \in Envelope /\ Parses(EmptyEnvelope(a), a)
  <1>1. EmptyEnvelope(a) \in Envelope
    <2>1. <<>> \in Seq(Limits) /\ <<>> \in Seq(Finding)
      OBVIOUS
    <2>. QED  BY <2>1 DEF EmptyEnvelope, Envelope, Statuses, Flaws
  <1>2. /\ EmptyEnvelope(a).artifact = a /\ EmptyEnvelope(a).flaw = "none"
        /\ EmptyEnvelope(a).findings = <<>> /\ EmptyEnvelope(a).limits = <<>>
    BY DEF EmptyEnvelope
  <1>3. Len(<<>>) = 0
    OBVIOUS
  <1>. QED  BY <1>1, <1>2, <1>3, LimitAssumption, ParsesOf

LEMMA SalvagedFacts ==
    ASSUME NEW e \in Envelope, NEW a \in Artifacts
    PROVE  /\ Salvaged(e, a) \in Envelope /\ Parses(Salvaged(e, a), a)
           /\ e.findings # <<>> => Salvaged(e, a).findings # <<>>
  <1>. DEFINE lost  == e.flaw = "findings" \/ Len(e.findings) > MaxFindings
              codes == (IF lost THEN <<"findings_dropped">> ELSE <<>>)
                         \o (IF e.artifact \notin {a, None} THEN <<"evidence_rebound">> ELSE <<>>)
              st    == IF lost /\ e.status = "complete" THEN "partial" ELSE e.status
              fs    == Prefix(e.findings, MaxFindings)
              ls    == Prefix(Extended(Prefix(e.limits, MaxLimits), codes), MaxLimits)
  <1>1. codes \in Seq(Limits)
    <2>1. /\ <<>> \in Seq(Limits) /\ <<"findings_dropped">> \in Seq(Limits)
          /\ <<"evidence_rebound">> \in Seq(Limits)
      BY DEF Limits
    <2>. HIDE DEF lost
    <2>2. /\ (IF lost THEN <<"findings_dropped">> ELSE <<>>) \in Seq(Limits)
          /\ (IF e.artifact \notin {a, None} THEN <<"evidence_rebound">> ELSE <<>>) \in Seq(Limits)
      BY <2>1
    <2>. QED  BY <2>2
  <1>2. st \in Statuses
    BY FieldsOf DEF Statuses
  <1>. HIDE DEF codes, lost, st
  <1>3. fs \in Seq(Finding) /\ Len(fs) <= MaxFindings
    BY FieldsOf, LimitAssumption, PrefixFacts
  <1>4. ls \in Seq(Limits) /\ Len(ls) <= MaxLimits
    <2>1. Prefix(e.limits, MaxLimits) \in Seq(Limits)
      BY FieldsOf, LimitAssumption, PrefixFacts
    <2>2. Extended(Prefix(e.limits, MaxLimits), codes) \in Seq(Limits)
      BY <1>1, <2>1, ExtendedFacts
    <2>. QED  BY <2>2, LimitAssumption, PrefixFacts
  <1>5. e.findings # <<>> => fs # <<>>
    <2>1. e.findings \in Seq(Finding) /\ MaxFindings \in Nat /\ MaxFindings >= 1
      BY FieldsOf, LimitAssumption
    <2>2. /\ Len(e.findings) <= MaxFindings => fs = e.findings
          /\ Len(e.findings) > MaxFindings => Len(fs) = MaxFindings
      BY <2>1, PrefixFacts
    <2>. HIDE DEF fs
    <2>3. Len(e.findings) \in Nat /\ Len(<<>>) = 0
      BY <2>1
    <2>. QED  BY <2>1, <2>2, <2>3
  <1>6. Salvaged(e, a) = [artifact |-> a, status |-> st, findings |-> fs, limits |-> ls,
                          net |-> e.net, flaw |-> "none"]
    BY DEF Salvaged, lost, codes, st
  <1>. HIDE DEF fs, ls
  <1>7. Salvaged(e, a) \in Envelope
    <2>1. e.net \in BOOLEAN /\ "none" \in Flaws
      BY FieldsOf DEF Flaws
    <2>. QED  BY <1>2, <1>3, <1>4, <1>6, <2>1 DEF Envelope
  <1>8. /\ Salvaged(e, a).artifact = a /\ Salvaged(e, a).flaw = "none"
        /\ Salvaged(e, a).findings = fs /\ Salvaged(e, a).limits = ls
    BY <1>6
  <1>9. Parses(Salvaged(e, a), a)
    BY <1>3, <1>4, <1>7, <1>8, ParsesOf
  <1>. QED  BY <1>5, <1>7, <1>8, <1>9

\* What the output guard leaves at a stage's key parses.
LEMMA NormalizedFacts ==
    ASSUME NEW e \in Value, artifact \in Artifacts \cup {Empty, None}
    PROVE  /\ Normalized(e) \in Value
           /\ artifact \in Artifacts
                => Normalized(e) \in Envelope /\ Parses(Normalized(e), artifact)
  <1>1. CASE artifact \notin Artifacts
    BY <1>1 DEF Normalized
  <1>2. CASE artifact \in Artifacts
    <2>1. CASE Parses(e, artifact)
      BY <1>2, <2>1 DEF Normalized, Parses, Valid, IsEnvelope, Value
    <2>2. CASE ~Parses(e, artifact) /\ Usable(e)
      <3>1. e \in Envelope /\ Normalized(e) = Salvaged(e, artifact)
        BY <1>2, <2>2 DEF Normalized, Usable, IsEnvelope, Value
      <3>. QED  BY <1>2, <3>1, SalvagedFacts DEF Value
    <2>3. CASE ~Parses(e, artifact) /\ ~Usable(e)
      <3>1. Normalized(e) = FailedEnvelope(artifact)
        BY <1>2, <2>3 DEF Normalized
      <3>. QED  BY <1>2, <3>1, FailedValid DEF Value
    <2>. QED  BY <2>1, <2>2, <2>3
  <1>. QED  BY <1>1, <1>2

LEMMA MergedFacts ==
    ASSUME NEW prior \in Envelope, NEW new \in Envelope
    PROVE  /\ Merged(prior, new) \in Envelope
           /\ Merged(prior, new).artifact = new.artifact
           /\ Merged(prior, new).flaw = new.flaw
           /\ Len(Merged(prior, new).findings) <= MaxFindings
           /\ Len(Merged(prior, new).limits) <= MaxLimits
           /\ \/ ToSet(Merged(prior, new).findings) = ToSet(prior.findings) \cup ToSet(new.findings)
              \/ Len(Merged(prior, new).findings) = MaxFindings
           /\ Len(prior.findings) = MaxFindings => Len(Merged(prior, new).findings) = MaxFindings
  <1>. DEFINE all == Extended(prior.findings, new.findings)
              fs == Prefix(all, MaxFindings)
              ls == Prefix(Extended(<<>>, prior.limits \o new.limits), MaxLimits)
  <1>1. /\ all \in Seq(Finding) /\ ToSet(all) = ToSet(prior.findings) \cup ToSet(new.findings)
        /\ Len(all) >= Len(prior.findings)
    BY FieldsOf, ExtendedFacts
  <1>. HIDE DEF all
  <1>2. /\ fs \in Seq(Finding) /\ Len(fs) <= MaxFindings
        /\ Len(all) <= MaxFindings => fs = all
        /\ Len(all) > MaxFindings => Len(fs) = MaxFindings
    BY <1>1, LimitAssumption, PrefixFacts
  <1>3. ls \in Seq(Limits) /\ Len(ls) <= MaxLimits
    <2>1. prior.limits \o new.limits \in Seq(Limits) /\ <<>> \in Seq(Limits)
      BY FieldsOf
    <2>2. Extended(<<>>, prior.limits \o new.limits) \in Seq(Limits)
      BY <2>1, ExtendedFacts
    <2>. QED  BY <2>2, LimitAssumption, PrefixFacts
  <1>4. Merged(prior, new) = [new EXCEPT !.findings = fs, !.limits = ls, !.net = prior.net \/ new.net]
    BY DEF Merged, all
  <1>. HIDE DEF fs, ls
  <1>5. (prior.net \/ new.net) \in BOOLEAN
    OBVIOUS
  <1>6. Merged(prior, new) \in Envelope
    BY <1>2, <1>3, <1>4, <1>5 DEF Envelope
  <1>7. /\ Merged(prior, new).artifact = new.artifact /\ Merged(prior, new).flaw = new.flaw
        /\ Merged(prior, new).findings = fs /\ Merged(prior, new).limits = ls
    BY <1>4 DEF Envelope
  <1>8. Len(all) <= MaxFindings \/ Len(all) > MaxFindings
    BY <1>1, LimitAssumption
  <1>9. Len(prior.findings) = MaxFindings => Len(fs) = MaxFindings
    <2>1. Len(all) \in Nat /\ Len(fs) \in Nat /\ MaxFindings \in Nat
      BY <1>1, <1>2, LimitAssumption
    <2>. QED  BY <1>1, <1>2, <2>1
  <1>. QED  BY <1>1, <1>2, <1>3, <1>6, <1>7, <1>8, <1>9

\* An envelope that holds the findings T, as far as it has room.
Holds(e, T) == T \subseteq ToSet(e.findings) \/ Len(e.findings) = MaxFindings

\* The running best parses, and holds what the passes so far have told.
LEMMA AccumulatedFacts ==
    ASSUME NEW e \in Value, artifact \in Artifacts, best \in Envelope \cup {None},
           best # None => Parses(best, artifact), NEW T,
           IF best = None THEN T = {} ELSE Holds(best, T)
    PROVE  /\ Accumulated(e) \in Envelope /\ Parses(Accumulated(e), artifact)
           /\ Usable(e) => Holds(Accumulated(e), T \cup ToSet(Normalized(e).findings))
           /\ ~Usable(e) /\ best # None => Accumulated(e) = best
  <1>1. Normalized(e) \in Envelope /\ Parses(Normalized(e), artifact)
    BY NormalizedFacts
  <1>2. CASE best = None
    <2>1. ~Parses(best, artifact)
      BY <1>2 DEF Parses, Valid, IsEnvelope
    <2>2. Accumulated(e) = Normalized(e)
      BY <2>1 DEF Accumulated
    <2>. QED  BY <1>1, <1>2, <2>2 DEF Holds
  <1>3. CASE best # None /\ Usable(e)
    <2>1. best \in Envelope /\ Parses(best, artifact) /\ Holds(best, T)
      BY <1>3
    <2>2. Accumulated(e) = Merged(best, Normalized(e))
      BY <1>3, <2>1 DEF Accumulated
    <2>. DEFINE m == Merged(best, Normalized(e))
    <2>3. /\ m \in Envelope /\ m.artifact = artifact /\ m.flaw = "none"
          /\ Len(m.findings) <= MaxFindings /\ Len(m.limits) <= MaxLimits
          /\ \/ ToSet(m.findings) = ToSet(best.findings) \cup ToSet(Normalized(e).findings)
             \/ Len(m.findings) = MaxFindings
          /\ Len(best.findings) = MaxFindings => Len(m.findings) = MaxFindings
      BY <1>1, <2>1, MergedFacts DEF Parses, Valid
    <2>. HIDE DEF m
    <2>4. Parses(m, artifact)
      BY <2>3, ParsesOf
    <2>5. Holds(m, T \cup ToSet(Normalized(e).findings))
      BY <2>1, <2>3 DEF Holds
    <2>. QED  BY <1>3, <2>2, <2>3, <2>4, <2>5 DEF m
  <1>4. CASE best # None /\ ~Usable(e)
    <2>1. best \in Envelope /\ Parses(best, artifact) /\ Accumulated(e) = best
      BY <1>4 DEF Accumulated
    <2>. QED  BY <1>4, <2>1
  <1>. QED  BY <1>2, <1>3, <1>4

LEMMA RecoveryTyped ==
    ASSUME NEW b \in Artifacts, NEW t \in Answers["recovery"],
           artifact \in Artifacts \cup {Empty, None}, evidence["recovery"] \in Value
    PROVE  RecoveryEnvelope(b, t) \in Envelope
  <1>. DEFINE prior == IF Valid(evidence["recovery"]) THEN evidence["recovery"] ELSE EmptyEnvelope(b)
              new   == [Said(t) EXCEPT !.artifact = b]
              all   == Merged(prior, new)
              st    == IF all.limits = <<>> THEN "complete"
                       ELSE IF all.findings # <<>> \/ all.net THEN "partial" ELSE "failed"
  <1>1. prior \in Envelope
    BY EmptyTyped DEF Valid, IsEnvelope, Value
  <1>2. new \in Envelope
    <2>1. Said(t) \in Envelope
      BY AnswerAssumption, SaidTyped
    <2>. QED  BY <2>1 DEF Envelope
  <1>. HIDE DEF prior, new
  <1>3. all \in Envelope
    BY <1>1, <1>2, MergedFacts
  <1>4. st \in Statuses
    BY DEF Statuses
  <1>5. RecoveryEnvelope(b, t) = [all EXCEPT !.status = st]
    BY DEF RecoveryEnvelope, all, prior, new
  <1>. HIDE DEF all, st
  <1>. QED  BY <1>3, <1>4, <1>5 DEF Envelope

-----------------------------------------------------------------------------
(* What the gate, the network lens and the critic make of them               *)

LEMMA GateFacts ==
    ASSUME artifact \in Artifacts, evidence["deep"] \in Value,
           Len(GateLimits(DeepEvidence)) <= MaxLimits
    PROVE  /\ GateEnvelope(DeepEvidence) \in Envelope
           /\ Parses(GateEnvelope(DeepEvidence), artifact)
           /\ GateEnvelope(DeepEvidence).findings = DeepEvidence.findings
           /\ IF Covered THEN GateEnvelope(DeepEvidence).status = "complete"
              ELSE /\ GateEnvelope(DeepEvidence).status # "complete"
                   /\ "analysis_incomplete" \in ToSet(GateEnvelope(DeepEvidence).limits)
  <1>. DEFINE e == DeepEvidence
              ls == GateLimits(e)
              net == ReadCoverage(artifact) # None
                       /\ ReadCoverage(artifact).done \cap Surfaces # {}
  <1>1. e \in Envelope /\ Parses(e, artifact)
    BY FailedValid DEF DeepEvidence, Parses, Valid, IsEnvelope, Value
  <1>. HIDE DEF e
  <1>2. ls \in Seq(Limits) /\ (~Covered => "analysis_incomplete" \in ToSet(ls))
    <2>1. e.limits \in Seq(Limits) /\ "analysis_incomplete" \in Limits
      BY <1>1, FieldsOf DEF Limits
    <2>2. /\ AppendNew(e.limits, "analysis_incomplete") \in Seq(Limits)
          /\ "analysis_incomplete" \in ToSet(AppendNew(e.limits, "analysis_incomplete"))
      BY <2>1, AppendedNew
    <2>. QED  BY <2>1, <2>2 DEF GateLimits
  <1>3. GateStatus(e) \in Statuses /\ (GateStatus(e) = "complete" <=> Covered)
    BY DEF GateStatus, Statuses
  <1>4. net \in BOOLEAN
    OBVIOUS
  <1>5. GateEnvelope(e) = [e EXCEPT !.status = GateStatus(e), !.limits = ls, !.net = net]
    BY DEF GateEnvelope
  <1>. HIDE DEF ls, net
  <1>6. GateEnvelope(e) \in Envelope
    BY <1>1, <1>2, <1>3, <1>4, <1>5 DEF Envelope
  <1>7. /\ GateEnvelope(e).artifact = e.artifact /\ GateEnvelope(e).flaw = e.flaw
        /\ GateEnvelope(e).status = GateStatus(e) /\ GateEnvelope(e).limits = ls
        /\ GateEnvelope(e).findings = e.findings
    BY <1>1, <1>5 DEF Envelope
  <1>8. Len(ls) <= MaxLimits
    BY DEF ls, e
  <1>9. Parses(GateEnvelope(e), artifact)
    BY <1>1, <1>6, <1>7, <1>8, ParsesOf DEF Parses, Valid
  <1>. QED  BY <1>2, <1>3, <1>6, <1>7, <1>9 DEF e

LEMMA StagesAre ==
    Stages = {"triage", "recovery", "deep", "native", "host", "network", "behavior", "attack"}
  BY DEF Stages, StageKeys, ToSet

LEMMA StagesFinite == IsFiniteSet(Stages)
  <1>. DEFINE X == {"triage", "recovery", "deep", "native", "host", "network", "behavior", "attack"}
  <1>1. StageKeys \in Seq(X)
    BY DEF StageKeys
  <1>. HIDE DEF X
  <1>. QED  BY <1>1, DistinctCount DEF Stages

LEMMA LimitsFinite == IsFiniteSet(Limits)
  <1>. DEFINE s == <<"own", "findings_dropped", "evidence_rebound", "envelope_invalid",
                     "analysis_incomplete", "not_determined">>
  <1>1. s \in Seq(Limits) /\ ToSet(s) = Limits
    BY DEF ToSet, Limits
  <1>. HIDE DEF s
  <1>. QED  BY <1>1, DistinctCount

\* The network stage's evidence parses, and does not pass silence for absence.
NetworkTold(e) ==
    /\ Parses(e, artifact)
    /\ \/ \E f \in ToSet(e.findings) : f.kind = "network"
       \/ CompletedSurface(e)
       \/ "not_determined" \in ToSet(e.limits)
       \/ Len(e.limits) = MaxLimits

LEMMA NetworkFacts ==
    ASSUME NEW e \in Value, evidence["recovery"] \in Value, evidence["deep"] \in Value
    PROVE  /\ NetworkEnforced(e) \in Value
           /\ Parses(e, artifact) => NetworkTold(NetworkEnforced(e))
  <1>. DEFINE all == ToSet(e.limits) \cup {"not_determined"}
                       \cup UNION {ToSet(x.limits) : x \in Upstream}
              ls  == Prefix(SetToSeq(all), MaxLimits)
              net == \E x \in Upstream : x.net
              new == [e EXCEPT !.status = "partial", !.net = net, !.limits = ls]
              spoken == ~Parses(e, artifact) \/ (\E f \in ToSet(e.findings) : f.kind = "network")
                        \/ CompletedSurface(e)
  <1>1. CASE spoken
    <2>1. NetworkEnforced(e) = e
      BY <1>1 DEF NetworkEnforced
    <2>. QED  BY <1>1, <2>1 DEF NetworkTold
  <1>2. CASE ~spoken
    <2>1. e \in Envelope /\ Parses(e, artifact)
      BY <1>2 DEF Parses, Valid, IsEnvelope, Value
    <2>2. NetworkEnforced(e) = new
      BY <1>2 DEF NetworkEnforced
    <2>3. all \subseteq Limits
      <3>1. ToSet(e.limits) \subseteq Limits
        BY <2>1, FieldsOf DEF ToSet
      <3>2. ASSUME NEW x \in Upstream  PROVE ToSet(x.limits) \subseteq Limits
        <4>1. x \in Envelope
          BY DEF Upstream, Parses, Valid, IsEnvelope, Value
        <4>. QED  BY <4>1, FieldsOf DEF ToSet
      <3>. QED  BY <3>1, <3>2 DEF Limits
    <2>4. IsFiniteSet(all) /\ "not_determined" \in all
      BY <2>3, LimitsFinite, FS_Subset
    <2>. HIDE DEF all
    <2>5. /\ ls \in Seq(all) /\ Len(ls) <= MaxLimits
          /\ ToSet(ls) = all \/ Len(ls) = MaxLimits
      BY <2>4, LimitAssumption, PrefixOfSet
    <2>. HIDE DEF ls
    <2>6. ls \in Seq(Limits)
      BY <2>3, <2>5
    <2>7. net \in BOOLEAN /\ "partial" \in Statuses
      BY DEF Statuses
    <2>. HIDE DEF net
    <2>8. new \in Envelope
      BY <2>1, <2>6, <2>7 DEF Envelope
    <2>9. /\ new.artifact = e.artifact /\ new.flaw = e.flaw /\ new.findings = e.findings
          /\ new.limits = ls
      BY <2>1 DEF Envelope
    <2>. HIDE DEF new
    <2>10. Parses(new, artifact)
      BY <2>1, <2>5, <2>8, <2>9, ParsesOf DEF Parses, Valid
    <2>11. NetworkTold(new)
      BY <2>4, <2>5, <2>9, <2>10 DEF NetworkTold
    <2>. QED  BY <2>2, <2>8, <2>11 DEF Value
  <1>. QED  BY <1>1, <1>2

\* The positions of the findings of the readable stages.
ReadMarkers == {m \in Stages \X Nat : m[1] \in Readable /\ m[2] \in DOMAIN evidence[m[1]].findings}

EvidenceTyped == evidence \in [Stages -> Value]

LEMMA ReadableTyped ==
    ASSUME EvidenceTyped, NEW s \in Readable
    PROVE  /\ s \in Stages /\ evidence[s] \in Envelope /\ evidence[s].findings \in Seq(Finding)
           /\ Len(evidence[s].findings) <= MaxFindings
  <1>1. s \in Stages /\ evidence[s] \in Envelope /\ Len(evidence[s].findings) <= MaxFindings
    BY DEF EvidenceTyped, Readable, Present, Valid, IsEnvelope, Value
  <1>. QED  BY <1>1, FieldsOf

LEMMA MarkersFacts ==
    ASSUME EvidenceTyped, NEW s \in Stages
    PROVE  /\ MarkersOf(s) \in Seq(Stages \X Nat) /\ Distinct(MarkersOf(s))
           /\ ToSet(MarkersOf(s)) = {m \in ReadMarkers : m[1] = s}
  <1>1. CASE s \notin Readable
    <2>1. MarkersOf(s) = <<>>
      BY <1>1 DEF MarkersOf
    <2>2. <<>> \in Seq(Stages \X Nat) /\ DOMAIN <<>> = {}
      OBVIOUS
    <2>. QED  BY <1>1, <2>1, <2>2 DEF ReadMarkers, Distinct, ToSet
  <1>2. CASE s \in Readable
    <2>. DEFINE fs == evidence[s].findings
                ms == [i \in DOMAIN fs |-> <<s, i>>]
    <2>1. PICK n \in Nat : DOMAIN fs = 1 .. n
      <3>1. Len(fs) \in Nat /\ DOMAIN fs = 1 .. Len(fs)
        BY <1>2, ReadableTyped
      <3>. QED  BY <3>1
    <2>2. MarkersOf(s) = ms
      BY <1>2 DEF MarkersOf
    <2>3. ms \in [1 .. n -> Stages \X Nat]
      BY <2>1
    <2>4. ms \in Seq(Stages \X Nat)
      BY <2>3
    <2>5. Distinct(ms)
      BY <2>1 DEF Distinct
    <2>6. ASSUME NEW m  PROVE m \in ToSet(ms) <=> m \in ReadMarkers /\ m[1] = s
      <3>1. m \in ToSet(ms) <=> \E i \in 1 .. n : m = <<s, i>>
        BY <2>1 DEF ToSet
      <3>2. \A i \in 1 .. n : <<s, i>> \in ReadMarkers
        BY <1>2, <2>1 DEF ReadMarkers
      <3>3. m \in ReadMarkers /\ m[1] = s => m[2] \in 1 .. n /\ m = <<s, m[2]>>
        BY <2>1 DEF ReadMarkers
      <3>. QED  BY <3>1, <3>2, <3>3
    <2>. HIDE DEF ms
    <2>. QED  BY <2>2, <2>4, <2>5, <2>6
  <1>. QED  BY <1>1, <1>2

LEMMA AllMarkersFacts ==
    ASSUME EvidenceTyped
    PROVE  /\ AllMarkers \in Seq(Stages \X Nat) /\ Distinct(AllMarkers)
           /\ ToSet(AllMarkers) = ReadMarkers
  <1>. DEFINE ss == [k \in DOMAIN StageKeys |-> MarkersOf(StageKeys[k])]
              n == 8
  <1>1. /\ n \in Nat /\ DOMAIN StageKeys = 1 .. n
        /\ \A i, j \in 1 .. n : i # j => StageKeys[i] # StageKeys[j]
    BY DEF StageKeys
  <1>2. /\ \A i \in 1 .. n : StageKeys[i] \in Stages
        /\ \A s \in Stages : \E i \in 1 .. n : s = StageKeys[i]
    BY <1>1 DEF Stages, ToSet
  <1>3. DOMAIN ss = 1 .. n /\ \A i \in 1 .. n : ss[i] = MarkersOf(StageKeys[i])
    BY <1>1
  <1>. HIDE DEF ss, n
  <1>4. ASSUME NEW i \in 1 .. n
        PROVE  /\ ss[i] \in Seq(Stages \X Nat) /\ Distinct(ss[i])
               /\ ToSet(ss[i]) = {m \in ReadMarkers : m[1] = StageKeys[i]}
    BY <1>2, <1>3, MarkersFacts
  <1>5. \A i, j \in 1 .. n : i # j => ToSet(ss[i]) \cap ToSet(ss[j]) = {}
    BY <1>1, <1>4
  <1>6. /\ Concatenated(ss) \in Seq(Stages \X Nat) /\ Distinct(Concatenated(ss))
        /\ ToSet(Concatenated(ss)) = UNION {ToSet(ss[j]) : j \in 1 .. n}
    <2>1. \A i \in 1 .. n : ss[i] \in Seq(Stages \X Nat) /\ Distinct(ss[i])
      BY <1>4
    <2>. QED  BY <1>1, <1>3, <1>5, <2>1, ConcatenatedFacts
  <1>7. UNION {ToSet(ss[j]) : j \in 1 .. n} = ReadMarkers
    <2>1. ASSUME NEW m \in ReadMarkers  PROVE m \in UNION {ToSet(ss[j]) : j \in 1 .. n}
      <3>1. m[1] \in Stages
        BY DEF ReadMarkers
      <3>. QED  BY <1>2, <1>4, <3>1
    <2>. QED  BY <1>4, <2>1
  <1>. QED  BY <1>6, <1>7 DEF AllMarkers, ss

\* The findings at the chosen positions, in a sequence no longer than there are.
LEMMA AllFindingsFacts ==
    ASSUME EvidenceTyped, NEW C
    PROVE  /\ AllFindings(C) \in Seq(Finding)
           /\ \A m \in ReadMarkers \cap C : evidence[m[1]].findings[m[2]] \in ToSet(AllFindings(C))
           /\ IsFiniteSet(C) => Len(AllFindings(C)) <= Cardinality(C)
  <1>. DEFINE ms == Picked(AllMarkers, C)
              F(m) == evidence[m[1]].findings[m[2]]
              fs == [k \in DOMAIN ms |-> F(ms[k])]
  <1>1. /\ ms \in Seq(Stages \X Nat) /\ Distinct(ms) /\ ToSet(ms) = ReadMarkers \cap C
    BY AllMarkersFacts, PickedFacts
  <1>2. AllFindings(C) = fs
    BY DEF AllFindings
  <1>3. \A m \in ReadMarkers : F(m) \in Finding
    <2>. SUFFICES ASSUME NEW m \in ReadMarkers  PROVE F(m) \in Finding
      OBVIOUS
    <2>1. m[1] \in Readable /\ m[2] \in DOMAIN evidence[m[1]].findings
      BY DEF ReadMarkers
    <2>2. evidence[m[1]].findings \in Seq(Finding)
      BY <2>1, ReadableTyped
    <2>. QED  BY <2>1, <2>2
  <1>. HIDE DEF ms, F
  <1>4. PICK n \in Nat : DOMAIN ms = 1 .. n /\ n = Len(ms) /\ \A k \in 1 .. n : ms[k] \in ReadMarkers \cap C
    <2>1. Len(ms) \in Nat /\ DOMAIN ms = 1 .. Len(ms)
      BY <1>1
    <2>. QED  BY <1>1, <2>1 DEF ToSet
  <1>5. fs = [k \in 1 .. n |-> F(ms[k])]
    BY <1>4
  <1>6. fs \in [1 .. n -> Finding]
    BY <1>3, <1>4, <1>5
  <1>7. fs \in Seq(Finding) /\ Len(fs) = n
    BY <1>6
  <1>8. \A m \in ReadMarkers \cap C : F(m) \in ToSet(fs)
    BY <1>1, <1>4 DEF ToSet
  <1>9. ASSUME IsFiniteSet(C)  PROVE n <= Cardinality(C)
    <2>1. IsFiniteSet(1 .. n) /\ Cardinality(1 .. n) = n
      BY FS_Interval
    <2>2. ms \in Injection(1 .. n, C)
      <3>1. ms \in [1 .. n -> C]
        BY <1>1, <1>4
      <3>. QED  BY <1>1, <1>4, <3>1 DEF Injection, IsInjective, Distinct
    <2>. QED  BY <1>9, <2>1, <2>2, FS_Injection
  <1>. HIDE DEF fs
  <1>. QED  BY <1>2, <1>7, <1>8, <1>9 DEF F

\* What the critic judges by: the room of the qualified findings is what counts.
VerdictType ==
    {v \in [rejected : SUBSET Markers, qualified : SUBSET Markers] :
       Cardinality(v.qualified) <= MaxFindings}

\* A finding that a stage's readable evidence holds is rejected, qualified or
\* accepted, unless the accepted ones are as many as there is room for.
LEMMA Criticised ==
    ASSUME EvidenceTyped, NEW j \in VerdictType,
           NEW s \in Readable, NEW i \in DOMAIN evidence[s].findings
    PROVE  \/ <<s, i>> \in j.rejected
           \/ evidence[s].findings[i] \in Accepted(j) \cup Qualified(j)
           \/ Cardinality(Accepted(j)) = MaxFindings
  <1>. DEFINE m == <<s, i>>
              f == evidence[s].findings[i]
  <1>1. s \in Stages /\ i \in 1 .. MaxFindings
    <2>1. /\ s \in Stages /\ evidence[s].findings \in Seq(Finding)
          /\ Len(evidence[s].findings) <= MaxFindings
      BY ReadableTyped
    <2>. QED  BY <2>1, LimitAssumption
  <1>2. m \in Markers /\ m \in ReadMarkers /\ m[1] = s /\ m[2] = i
    BY <1>1 DEF Markers, ReadMarkers
  <1>. HIDE DEF m
  <1>3. CASE m \in j.qualified \ j.rejected
    <2>. DEFINE C == j.qualified \ j.rejected
                fs == AllFindings(C)
    <2>1. IsFiniteSet(C) /\ Cardinality(C) <= MaxFindings
      <3>1. IsFiniteSet(Markers)
        <4>1. IsFiniteSet(1 .. MaxFindings)
          BY LimitAssumption, FS_Interval
        <4>. QED  BY <4>1, StagesFinite, FS_Product DEF Markers
      <3>2. j.qualified \in SUBSET Markers /\ Cardinality(j.qualified) <= MaxFindings
        BY DEF VerdictType
      <3>3. IsFiniteSet(j.qualified) /\ Cardinality(j.qualified) \in Nat
        BY <3>1, <3>2, FS_Subset, FS_CardinalityType
      <3>4. IsFiniteSet(C) /\ Cardinality(C) <= Cardinality(j.qualified)
        BY <3>3, FS_Subset
      <3>5. Cardinality(C) \in Nat
        BY <3>4, FS_CardinalityType
      <3>. QED  BY <3>2, <3>3, <3>4, <3>5, LimitAssumption
    <2>2. m \in ReadMarkers \cap C
      BY <1>2, <1>3
    <2>3. Qualified(j) = ToSet(Prefix(fs, MaxFindings))
      BY DEF Qualified
    <2>. HIDE DEF C
    <2>4. fs \in Seq(Finding) /\ f \in ToSet(fs) /\ Len(fs) <= Cardinality(C)
      BY <1>2, <2>1, <2>2, AllFindingsFacts
    <2>. HIDE DEF fs
    <2>5. Len(fs) <= MaxFindings
      <3>1. Len(fs) \in Nat /\ Cardinality(C) \in Nat
        BY <2>1, <2>4, FS_CardinalityType
      <3>. QED  BY <2>1, <2>4, <3>1, LimitAssumption
    <2>6. Prefix(fs, MaxFindings) = fs
      BY <2>4, <2>5, LimitAssumption, PrefixFacts
    <2>. QED  BY <2>3, <2>4, <2>6
  <1>4. CASE m \in Markers \ (j.rejected \cup j.qualified)
    <2>. DEFINE C == Markers \ (j.rejected \cup j.qualified)
                fs == AllFindings(C)
                all == Extended(<<>>, fs)
                p == Prefix(all, MaxFindings)
    <2>1. m \in ReadMarkers \cap C
      BY <1>2, <1>4
    <2>2. Accepted(j) = ToSet(p)
      BY DEF Accepted
    <2>. HIDE DEF C
    <2>3. fs \in Seq(Finding) /\ f \in ToSet(fs)
      BY <1>2, <2>1, AllFindingsFacts
    <2>. HIDE DEF fs
    <2>4. all \in Seq(Finding) /\ f \in ToSet(all) /\ Distinct(all)
      <3>. DEFINE nothing == <<>>
      <3>1. nothing \in Seq(Finding) /\ Distinct(nothing)
        BY DEF Distinct
      <3>. HIDE DEF nothing
      <3>2. /\ Extended(nothing, fs) \in Seq(Finding) /\ f \in ToSet(Extended(nothing, fs))
            /\ Distinct(Extended(nothing, fs))
        BY <2>3, <3>1, ExtendedFacts
      <3>. QED  BY <3>2 DEF nothing
    <2>. HIDE DEF all
    <2>5. /\ p \in Seq(Finding) /\ Distinct(p)
          /\ Len(all) <= MaxFindings => p = all
          /\ Len(all) > MaxFindings => Len(p) = MaxFindings
      BY <2>4, LimitAssumption, PrefixFacts
    <2>6. Cardinality(ToSet(p)) = Len(p)
      BY <2>5, DistinctCount
    <2>7. Len(all) <= MaxFindings \/ Len(all) > MaxFindings
      BY <2>4, LimitAssumption
    <2>. HIDE DEF p
    <2>. QED  BY <2>2, <2>4, <2>5, <2>6, <2>7
  <1>. QED  BY <1>2, <1>3, <1>4 DEF m

-----------------------------------------------------------------------------
(* The invariant                                                             *)

AfterEngines == {"lenses", "behavior", "attack", "critic", "report", "done"}

\* Where the pipeline is tells which engine the format selected.
RouteFollowsFormat ==
    /\ pc \in {"deep", "deep_gate"} => EngineOf = "deep"
    /\ pc \in {"decompile", "pivot", "java", "native"} => EngineOf # "deep"

\* The running best belongs to this invocation's deep loop, and to its artifact.
BestStands ==
    /\ best = None => told = {}
    /\ best # None => /\ pc \notin {"intake", "triage", "recovery"} /\ EngineOf = "deep"
                      /\ Parses(best, artifact) /\ Holds(best, told)

\* From the gate on, the deep key holds what the worker has told.
ToldStands ==
    best # None /\ pc \in {"deep_gate"} \cup AfterEngines
      => Parses(evidence["deep"], artifact) /\ Holds(evidence["deep"], told)

\* What the deep key says of the coverage of the artifact.
Verdict ==
    /\ Parses(evidence["deep"], artifact)
    /\ IF Covered THEN evidence["deep"].status = "complete"
       ELSE /\ evidence["deep"].status # "complete"
            /\ "analysis_incomplete" \in ToSet(evidence["deep"].limits)

\* The gate's verdict stands at the deep key from the lenses to the report.
VerdictStands ==
    pc \in AfterEngines /\ EngineOf = "deep" /\ artifact \in Artifacts => Verdict

\* So does what the network lens was made to say, from its turn on.
NetworkStands ==
    pc \in AfterEngines /\ (pc = "lenses" => "network" \notin lenses) /\ artifact \in Artifacts
      => NetworkTold(evidence["network"])

\* The critic calls nothing complete that the gate did not.
ReportFollows ==
    Judged /\ EngineOf = "deep" /\ validated.status = "complete"
      => evidence["deep"].status = "complete"

PipelineInv ==
    /\ TypeOK /\ CountersAgree /\ RouteFollowsFormat /\ BestStands /\ ToldStands
    /\ VerdictStands /\ NetworkStands /\ ReportFollows /\ ToldIsKept /\ AbsenceDetermined

LEMMA PipelineInit == Init => PipelineInv
  <1>. SUFFICES ASSUME Init  PROVE PipelineInv
    OBVIOUS
  <1>1. TypeOK
    <2>1. evidence \in [Stages -> Envelope \cup {Prose, None}]
      BY DEF Init
    <2>2. 1 \in 1 .. MaxTurns /\ 0 \in 0 .. MaxDeepIterations /\ 0 < MaxDeepIterations
      BY LimitAssumption
    <2>. QED  BY <2>1, <2>2 DEF Init, TypeOK, Agents
  <1>. QED  BY <1>1 DEF Init, PipelineInv, CountersAgree, RouteFollowsFormat, BestStands, ToldStands,
          VerdictStands, NetworkStands, ReportFollows, ToldIsKept, AbsenceDetermined, AfterEngines,
          Judged

-----------------------------------------------------------------------------
(* Every key holds what its readers can meet                                 *)

LEMMA Typed ==
    ASSUME TypeOK
    PROVE  /\ EvidenceTyped /\ \A s \in Stages : evidence[s] \in Value
           /\ evidence["recovery"] \in Value /\ evidence["deep"] \in Value
           /\ artifact \in Artifacts \cup {Empty, None}
           /\ best \in Envelope \cup {None}
  BY StagesAre DEF TypeOK, EvidenceTyped, Value

LEMMA StageTyped ==
    ASSUME TypeOK, NEW s \in Stages, StageAnswers(s)
    PROVE  EvidenceTyped'
  <1>1. PICK t \in Answers[s] : evidence' = [evidence EXCEPT ![s] = Normalized(Written(s, t))]
    BY DEF StageAnswers
  <1>2. Written(s, t) \in Value
    BY Typed, WrittenTyped
  <1>3. Normalized(Written(s, t)) \in Value
    BY <1>2, Typed, NormalizedFacts
  <1>. QED  BY <1>1, <1>3, Typed DEF EvidenceTyped

LEMMA RecoveryStepTyped ==
    ASSUME TypeOK, Recovery
    PROVE  EvidenceTyped' /\ artifact' \in Artifacts \cup {Empty, None}
  <1>1. CASE RecoveryEnds
    <2>1. PICK b \in Layers[artifact], t \in Answers["recovery"] :
            /\ artifact' = b
            /\ evidence' = [evidence EXCEPT !["recovery"] = RecoveryEnvelope(b, t)]
      BY <1>1 DEF RecoveryEnds
    <2>2. b \in Artifacts
      BY <1>1, SampleAssumption DEF RecoveryEnds
    <2>3. RecoveryEnvelope(b, t) \in Envelope
      BY <2>2, Typed, RecoveryTyped
    <2>. QED  BY <2>1, <2>2, <2>3, Typed DEF EvidenceTyped, Value
  <1>2. CASE RecoveryFails /\ artifact \notin Artifacts
    <2>1. artifact' = artifact /\ evidence' = evidence
      BY <1>2 DEF RecoveryFails
    <2>. QED  BY <2>1, Typed DEF EvidenceTyped
  <1>3. CASE RecoveryFails /\ artifact \in Artifacts
    <2>1. PICK c \in Layers[artifact] : \E b \in Layers[c] :
            /\ artifact' = b
            /\ \/ UNCHANGED evidence
               \/ \E t \in Answers["recovery"] :
                    evidence' = [evidence EXCEPT !["recovery"] = RecoveryEnvelope(c, t)]
      BY <1>3 DEF RecoveryFails
    <2>2. c \in Artifacts /\ \A b \in Layers[c] : b \in Artifacts
      BY <1>3, SampleAssumption
    <2>3. \A t \in Answers["recovery"] : RecoveryEnvelope(c, t) \in Envelope
      BY <2>2, Typed, RecoveryTyped
    <2>. QED  BY <2>1, <2>2, <2>3, Typed DEF EvidenceTyped, Value
  <1>4. CASE RecoverySkip
    BY <1>4, Typed, EmptyTyped DEF RecoverySkip, sampleVars, EvidenceTyped, Value
  <1>. QED  BY <1>1, <1>2, <1>3, <1>4 DEF Recovery

\* What the deep worker leaves at its key and in the running best.
LEMMA WorkerFacts ==
    ASSUME TypeOK, BestStands, DeepWorker
    PROVE  /\ EvidenceTyped' /\ best' \in Envelope \cup {None} /\ told' \in SUBSET Finding
           /\ best' = None => told' = {}
           /\ best' # None => /\ Parses(best', artifact) /\ Holds(best', told')
                              /\ Parses(evidence["deep"]', artifact) /\ Holds(evidence["deep"]', told')
  <1>1. PICK t \in Answers["deep"] :
          LET raw == Written("deep", t)
              new == IF artifact \in Artifacts THEN Accumulated(raw) ELSE raw
              use == artifact \in Artifacts /\ Usable(raw)
          IN /\ evidence' = [evidence EXCEPT !["deep"] = new]
             /\ best' = IF use THEN new ELSE best
             /\ told' = IF use THEN told \cup ToSet(Normalized(raw).findings) ELSE told
    BY DEF DeepWorker
  <1>. DEFINE raw == Written("deep", t)
              new == IF artifact \in Artifacts THEN Accumulated(raw) ELSE raw
  <1>2. raw \in Value /\ "deep" \in Stages
    BY Typed, StagesAre, WrittenTyped
  <1>. HIDE DEF raw
  <1>3. CASE artifact \notin Artifacts
    <2>1. best = None
      BY <1>3 DEF BestStands, Parses
    <2>2. evidence' = [evidence EXCEPT !["deep"] = raw] /\ best' = best /\ told' = told
      BY <1>1, <1>3 DEF raw
    <2>. QED  BY <1>2, <2>1, <2>2, Typed DEF EvidenceTyped, BestStands, TypeOK
  <1>4. CASE artifact \in Artifacts
    <2>1. /\ best # None => Parses(best, artifact)
          /\ IF best = None THEN told = {} ELSE Holds(best, told)
      BY DEF BestStands
    <2>2. /\ Accumulated(raw) \in Envelope /\ Parses(Accumulated(raw), artifact)
          /\ Usable(raw) => Holds(Accumulated(raw), told \cup ToSet(Normalized(raw).findings))
          /\ ~Usable(raw) /\ best # None => Accumulated(raw) = best
      BY <1>2, <1>4, <2>1, Typed, AccumulatedFacts
    <2>3. /\ evidence' = [evidence EXCEPT !["deep"] = Accumulated(raw)]
          /\ best' = IF Usable(raw) THEN Accumulated(raw) ELSE best
          /\ told' = IF Usable(raw) THEN told \cup ToSet(Normalized(raw).findings) ELSE told
      BY <1>1, <1>4 DEF raw
    <2>4. ToSet(Normalized(raw).findings) \subseteq Finding
      <3>1. Normalized(raw).findings \in Seq(Finding)
        BY <1>2, <1>4, NormalizedFacts, FieldsOf
      <3>. QED  BY <3>1 DEF ToSet
    <2>5. EvidenceTyped' /\ evidence["deep"]' = Accumulated(raw)
      BY <1>2, <2>2, <2>3, Typed DEF EvidenceTyped, Value
    <2>6. told \in SUBSET Finding /\ Accumulated(raw) # None
      BY <2>2, ValueAssumption DEF TypeOK, Parses, Valid, IsEnvelope
    <2>7. CASE Usable(raw)
      BY <2>2, <2>3, <2>4, <2>5, <2>6, <2>7
    <2>8. CASE ~Usable(raw)
      BY <2>1, <2>2, <2>3, <2>5, <2>6, <2>8, Typed
    <2>. QED  BY <2>7, <2>8
  <1>. QED  BY <1>3, <1>4

LEMMA LensTyped ==
    ASSUME TypeOK, NEW s \in {"host", "network"}, Lens(s)
    PROVE  /\ EvidenceTyped'
           /\ \A r \in Stages \ {s} : evidence'[r] = evidence[r]
           /\ s = "network" /\ artifact \in Artifacts => NetworkTold(evidence'["network"])
  <1>1. PICK t \in Answers[s] :
          LET new == Normalized(Written(s, t))
          IN evidence' = [evidence EXCEPT ![s] = IF s = "network" THEN NetworkEnforced(new)
                                                                  ELSE new]
    BY DEF Lens
  <1>. DEFINE new == Normalized(Written(s, t))
  <1>2. s \in Stages /\ Written(s, t) \in Value
    BY Typed, StagesAre, WrittenTyped
  <1>3. new \in Value /\ (artifact \in Artifacts => Parses(new, artifact))
    BY <1>2, Typed, NormalizedFacts
  <1>4. evidence' = [evidence EXCEPT ![s] = IF s = "network" THEN NetworkEnforced(new) ELSE new]
    BY <1>1
  <1>. HIDE DEF new
  <1>5. /\ NetworkEnforced(new) \in Value
        /\ artifact \in Artifacts => NetworkTold(NetworkEnforced(new))
    BY <1>3, Typed, NetworkFacts
  <1>. QED  BY <1>2, <1>3, <1>4, <1>5, Typed DEF EvidenceTyped

LEMMA VerdictTyped ==
    ASSUME TypeOK, NEW j \in Judgments
    PROVE  Judgment(j) \in VerdictType
  <1>. DEFINE nothing == [rejected |-> {}, qualified |-> {}]
  <1>1. Cardinality({}) <= MaxFindings
    BY FS_EmptySet, LimitAssumption
  <1>2. nothing \in VerdictType
    BY <1>1 DEF VerdictType
  <1>3. CASE j \notin {Prose, Silent}
    BY <1>3, AnswerAssumption DEF Judgment, JudgmentType, VerdictType
  <1>4. CASE j \in {Prose, Silent} /\ validated \in {None, Prose}
    BY <1>2, <1>4 DEF Judgment
  <1>5. CASE j \in {Prose, Silent} /\ validated \notin {None, Prose}
    <2>1. validated.rejected \in SUBSET Markers
      <3>1. validated \in Validated
        BY <1>5 DEF TypeOK
      <3>. QED  BY <3>1 DEF Validated
    <2>2. [rejected |-> validated.rejected, qualified |-> {}] \in VerdictType
      <3>. DEFINE r == validated.rejected
      <3>. HIDE DEF r
      <3>1. r \in SUBSET Markers
        BY <2>1 DEF r
      <3>2. [rejected |-> r, qualified |-> {}] \in VerdictType
        BY <1>1, <3>1 DEF VerdictType
      <3>. QED  BY <3>2 DEF r
    <2>3. [nothing EXCEPT !.rejected = validated.rejected]
            = [rejected |-> validated.rejected, qualified |-> {}]
      OBVIOUS
    <2>. QED  BY <1>2, <1>5, <2>2, <2>3 DEF Judgment
  <1>. QED  BY <1>3, <1>4, <1>5

LEMMA UpstreamLimitsFinite ==
    ASSUME TypeOK
    PROVE  UpstreamLimits \subseteq Limits /\ IsFiniteSet(UpstreamLimits)
  <1>1. ASSUME NEW s \in Readable  PROVE ToSet(evidence[s].limits) \subseteq Limits
    <2>1. evidence[s] \in Envelope
      BY Typed, ReadableTyped
    <2>. QED  BY <2>1, FieldsOf DEF ToSet
  <1>2. UpstreamLimits \subseteq Limits
    <2>1. UNION {ToSet(evidence[s].limits) : s \in Readable} \subseteq Limits
      BY <1>1
    <2>2. {"envelope_invalid"} \subseteq Limits /\ {"own"} \subseteq Limits
      BY DEF Limits
    <2>. QED  BY <2>1, <2>2 DEF UpstreamLimits
  <1>. QED  BY <1>2, LimitsFinite, FS_Subset

\* What the critic writes, as a record of named parts.
Verdicts(v, found) ==
    [artifact |-> artifact, status |-> CriticStatus(found),
     limits |-> ToSet(Prefix(SetToSeq(UpstreamLimits), MaxLimits)),
     accepted |-> Accepted(v), qualified |-> Qualified(v), rejected |-> v.rejected]

LEMMA VerdictsTyped ==
    ASSUME TypeOK, artifact \in Artifacts, NEW v \in VerdictType, NEW found
    PROVE  Verdicts(v, found) \in Validated
  <1>1. CriticStatus(found) \in Statuses
    BY DEF CriticStatus, Statuses
  <1>2. ToSet(Prefix(SetToSeq(UpstreamLimits), MaxLimits)) \in SUBSET Limits
    BY UpstreamLimitsFinite, LimitAssumption, PrefixOfSet
  <1>3. Accepted(v) \in SUBSET Finding
    <2>. DEFINE fs == AllFindings(Markers \ (v.rejected \cup v.qualified))
                nothing == <<>>
    <2>1. fs \in Seq(Finding) /\ nothing \in Seq(Finding)
      BY Typed, AllFindingsFacts
    <2>2. Accepted(v) = ToSet(Prefix(Extended(nothing, fs), MaxFindings))
      BY DEF Accepted
    <2>. HIDE DEF fs, nothing
    <2>3. Extended(nothing, fs) \in Seq(Finding)
      BY <2>1, ExtendedFacts
    <2>4. Prefix(Extended(nothing, fs), MaxFindings) \in Seq(Finding)
      BY <2>3, LimitAssumption, PrefixFacts
    <2>. QED  BY <2>2, <2>4 DEF ToSet
  <1>4. Qualified(v) \in SUBSET Finding
    <2>1. AllFindings(v.qualified \ v.rejected) \in Seq(Finding)
      BY Typed, AllFindingsFacts
    <2>2. Prefix(AllFindings(v.qualified \ v.rejected), MaxFindings) \in Seq(Finding)
      BY <2>1, LimitAssumption, PrefixFacts
    <2>. QED  BY <2>2 DEF ToSet, Qualified
  <1>5. v.rejected \in SUBSET Markers
    BY DEF VerdictType
  <1>. DEFINE st == CriticStatus(found)
              ls == ToSet(Prefix(SetToSeq(UpstreamLimits), MaxLimits))
  <1>. HIDE DEF st, ls
  <1>6. [artifact |-> artifact, status |-> st, limits |-> ls, accepted |-> Accepted(v),
         qualified |-> Qualified(v), rejected |-> v.rejected] \in Validated
    BY <1>1, <1>2, <1>3, <1>4, <1>5 DEF Validated, st, ls
  <1>. QED  BY <1>6 DEF Verdicts, st, ls

LEMMA CriticFacts ==
    ASSUME TypeOK, EvidenceCritic, artifact \in Artifacts
    PROVE  \E v \in VerdictType : validated' = Verdicts(v, Accepted(v) \cup Qualified(v))
  <1>1. PICK j \in Judgments :
          validated' = [artifact  |-> artifact,
                        status    |-> CriticStatus(Accepted(Judgment(j)) \cup Qualified(Judgment(j))),
                        limits    |-> ToSet(Prefix(SetToSeq(UpstreamLimits), MaxLimits)),
                        accepted  |-> Accepted(Judgment(j)), qualified |-> Qualified(Judgment(j)),
                        rejected  |-> Judgment(j).rejected]
    BY DEF EvidenceCritic
  <1>2. Judgment(j) \in VerdictType
    BY VerdictTyped
  <1>. QED  BY <1>1, <1>2 DEF Verdicts

LEMMA CriticTyped ==
    ASSUME TypeOK, EvidenceCritic
    PROVE  validated' \in Validated \cup {None, Prose}
  <1>1. CASE artifact \in Artifacts
    BY <1>1, CriticFacts, VerdictsTyped
  <1>2. CASE artifact \notin Artifacts
    BY <1>2 DEF EvidenceCritic, TypeOK
  <1>. QED  BY <1>1, <1>2

LEMMA RecordedTyped ==
    ASSUME TypeOK, artifact \in Artifacts, NEW a \in Artifacts,
           NEW done \in SUBSET (Surfaces \cup {"prepared"})
    PROVE  Recorded(a, done) \in [artifact : Artifacts, done : SUBSET (Surfaces \cup {"prepared"})]
  <1>1. ReadCoverage(a) # None => ReadCoverage(a).done \in SUBSET (Surfaces \cup {"prepared"})
    BY DEF ReadCoverage, TypeOK
  <1>. QED  BY <1>1 DEF Recorded

LEMMA TypeStep ==
    ASSUME TypeOK, CountersAgree, RouteFollowsFormat, BestStands, [Next]_vars
    PROVE  TypeOK'
  <1>. USE DEF sampleVars, deepVars, ghidraVars, history
  <1>0. {"triage", "recovery", "deep", "native", "host", "network", "behavior", "attack"} \subseteq Stages
    BY StagesAre
  <1>1. CASE Intake
    <2>1. CASE \E a \in Samples : AcquireSample(a)
      <3>1. PICK a \in Samples : AcquireSample(a)
        BY <2>1
      <3>2. a \in Artifacts /\ Route[a] \in Engines
        BY SampleAssumption
      <3>. QED  BY <3>1, <3>2 DEF AcquireSample, TypeOK, Agents
    <2>2. CASE AcquireFails \/ IntakeWithoutSample
      BY <2>2 DEF AcquireFails, IntakeWithoutSample, TypeOK, Agents
    <2>. QED  BY <1>1, <2>1, <2>2 DEF Intake
  <1>2. CASE Triage
    <2>1. EvidenceTyped'
      BY <1>0, <1>2, StageTyped DEF Triage
    <2>. QED  BY <1>2, <2>1 DEF Triage, TypeOK, Agents, EvidenceTyped, Value
  <1>3. CASE Recovery
    <2>1. EvidenceTyped' /\ artifact' \in Artifacts \cup {Empty, None}
      BY <1>3, RecoveryStepTyped
    <2>2. /\ pc' = EngineOf /\ passes = 0 /\ summary' \in {None, "clean", "limited"}
          /\ UNCHANGED <<turn, format, deepVars, lenses, validated, ghidraVars, history>>
      BY <1>3 DEF Recovery, RecoveryEnds, RecoveryFails, RecoverySkip, CountersAgree, TypeOK
    <2>3. EngineOf \in Agents
      BY DEF EngineOf, Agents
    <2>. QED  BY <2>1, <2>2, <2>3, LimitAssumption DEF TypeOK, EvidenceTyped, Value
  <1>4. CASE PrepareGhidra
    <2>1. artifact \in Artifacts /\ {"prepared"} \in SUBSET (Surfaces \cup {"prepared"})
      BY <1>4 DEF PrepareGhidra
    <2>2. Recorded(artifact, {"prepared"})
            \in [artifact : Artifacts, done : SUBSET (Surfaces \cup {"prepared"})]
      BY <2>1, RecordedTyped
    <2>. QED  BY <1>4, <2>1, <2>2 DEF PrepareGhidra, TypeOK
  <1>5. CASE PrepareGhidraFails
    BY <1>5 DEF PrepareGhidraFails, TypeOK
  <1>6. CASE \E s \in Surfaces : GhidraAnswers(s)
    <2>1. PICK s \in Surfaces : GhidraAnswers(s)
      BY <1>6
    <2>2. loaded \in Artifacts
      BY <2>1 DEF GhidraAnswers, TypeOK
    <2>3. coverage' \in [artifact : Artifacts, done : SUBSET (Surfaces \cup {"prepared"})] \cup {None}
      <3>1. CASE coverage' = coverage
        BY <3>1 DEF TypeOK
      <3>2. CASE coverage' # coverage
        <4>1. artifact \in Artifacts /\ coverage' = Recorded(loaded, {s})
          BY <2>1, <2>2, <3>2 DEF GhidraAnswers
        <4>2. {s} \in SUBSET (Surfaces \cup {"prepared"})
          OBVIOUS
        <4>. QED  BY <2>2, <4>1, <4>2, RecordedTyped
      <3>. QED  BY <3>1, <3>2
    <2>4. receipts' \in SUBSET (Artifacts \X Surfaces)
      BY <2>1, <2>2 DEF GhidraAnswers, TypeOK
    <2>. QED  BY <2>1, <2>3, <2>4 DEF GhidraAnswers, TypeOK
  <1>7. CASE DeepWorker
    <2>1. /\ EvidenceTyped' /\ best' \in Envelope \cup {None} /\ told' \in SUBSET Finding
          /\ best' # None => Valid(best')
      BY <1>7, WorkerFacts DEF Parses
    <2>. QED  BY <1>7, <2>1 DEF DeepWorker, TypeOK, Agents, EvidenceTyped, Value
  <1>8. CASE DeepGate
    <2>1. CASE GateWithoutArtifact \/ GateRaises
      BY <2>1 DEF GateWithoutArtifact, GateRaises, TypeOK, Agents
    <2>2. CASE GateContinues
      <3>1. iteration' \in Nat /\ passes' \in 0 .. MaxDeepIterations
        BY <2>2, LimitAssumption DEF GateContinues, TypeOK
      <3>2. pc' \in {"deep", "lenses"} /\ (pc' = "deep" => passes' < MaxDeepIterations)
        BY <2>2 DEF GateContinues
      <3>3. lenses' \subseteq {"host", "network"}
        BY <2>2 DEF GateContinues, TypeOK
      <3>. QED  BY <2>2, <3>1, <3>2, <3>3 DEF GateContinues, TypeOK, Agents
    <2>3. CASE GateDecides
      <3>1. GateEnvelope(DeepEvidence) \in Envelope
        BY <2>3, Typed, GateFacts DEF GateDecides
      <3>2. iteration' \in Nat
        BY <2>3 DEF GateDecides, TypeOK
      <3>3. evidence' \in [Stages -> Envelope \cup {Prose, None}]
        BY <2>3, <3>1 DEF GateDecides, TypeOK
      <3>. QED  BY <2>3, <3>2, <3>3 DEF GateDecides, TypeOK, Agents
    <2>. QED  BY <1>8, <2>1, <2>2, <2>3 DEF DeepGate
  <1>9. CASE Decompile
    <2>1. EvidenceTyped'
      BY <1>0, <1>9, StageTyped DEF Decompile
    <2>. QED  BY <1>9, <2>1 DEF Decompile, TypeOK, Agents, EvidenceTyped, Value
  <1>10. CASE NativePivot
    BY <1>10 DEF NativePivot, TypeOK, Agents
  <1>11. CASE NativeWorker
    <2>1. EvidenceTyped'
      BY <1>0, <1>11, StageTyped DEF NativeWorker
    <2>2. Subject \in Samples \cup {None}
      BY SampleAssumption DEF Subject
    <2>. QED  BY <1>11, <2>1, <2>2 DEF NativeWorker, TypeOK, Agents, EvidenceTyped, Value
  <1>12. ASSUME NEW s \in {"host", "network"}, Lens(s)  PROVE TypeOK'
    <2>1. EvidenceTyped'
      BY <1>12, LensTyped
    <2>. QED  BY <1>12, <2>1 DEF Lens, TypeOK, Agents, EvidenceTyped, Value
  <1>13. ASSUME NEW s \in {"behavior", "attack"}, NEW next \in {"attack", "critic"},
                Characterise(s, next)
         PROVE  TypeOK'
    <2>1. EvidenceTyped'
      BY <1>0, <1>13, StageTyped DEF Characterise
    <2>. QED  BY <1>13, <2>1 DEF Characterise, TypeOK, Agents, EvidenceTyped, Value
  <1>14. CASE EvidenceCritic
    <2>1. validated' \in Validated \cup {None, Prose}
      BY <1>14, CriticTyped
    <2>. QED  BY <1>14, <2>1 DEF EvidenceCritic, TypeOK, Agents
  <1>15. CASE Report
    BY <1>15 DEF Report, TypeOK, Agents
  <1>16. CASE NewTurn
    BY <1>16, LimitAssumption DEF NewTurn, TypeOK, Agents
  <1>17. CASE UNCHANGED vars
    BY <1>17 DEF vars, TypeOK
  <1>. QED  BY <1>1, <1>2, <1>3, <1>4, <1>5, <1>6, <1>7, <1>8, <1>9, <1>10, <1>11, <1>12, <1>13,
             <1>14, <1>15, <1>16, <1>17 DEF Next, Ghidra

-----------------------------------------------------------------------------
(* From the deep loop to the lenses                                          *)

LEMMA RouteStep ==
    ASSUME RouteFollowsFormat, [Next]_vars
    PROVE  RouteFollowsFormat'
  <1>. USE DEF RouteFollowsFormat, sampleVars, deepVars, ghidraVars, history
  <1>1. CASE Intake \/ Triage
    BY <1>1 DEF Intake, AcquireSample, AcquireFails, IntakeWithoutSample, Triage
  <1>2. CASE Recovery
    <2>1. pc' = EngineOf /\ format' = format
      BY <1>2 DEF Recovery, RecoveryEnds, RecoveryFails, RecoverySkip
    <2>. QED  BY <2>1 DEF EngineOf
  <1>3. CASE Ghidra
    <2>1. pc' = pc /\ format' = format
      BY <1>3 DEF Ghidra, PrepareGhidra, PrepareGhidraFails, GhidraAnswers
    <2>. QED  BY <2>1 DEF EngineOf
  <1>4. CASE DeepWorker \/ DeepGate
    <2>1. pc \in {"deep", "deep_gate"} /\ format' = format
          /\ pc' \in {"deep", "deep_gate", "lenses", "raised"}
      BY <1>4 DEF DeepWorker, DeepGate, GateWithoutArtifact, GateContinues, GateDecides, GateRaises
    <2>. QED  BY <2>1 DEF EngineOf
  <1>5. CASE Decompile \/ NativePivot \/ NativeWorker
    <2>1. pc \in {"decompile", "java", "pivot", "native"} /\ format' = format
          /\ pc' \in {"pivot", "native", "lenses"}
      BY <1>5 DEF Decompile, NativePivot, NativeWorker
    <2>. QED  BY <2>1 DEF EngineOf
  <1>6. CASE \/ Lens("host") \/ Lens("network")
             \/ Characterise("behavior", "attack") \/ Characterise("attack", "critic")
    BY <1>6 DEF Lens, Characterise
  <1>7. CASE EvidenceCritic \/ Report \/ NewTurn
    BY <1>7 DEF EvidenceCritic, Report, NewTurn
  <1>8. CASE UNCHANGED vars
    BY <1>8 DEF vars, EngineOf
  <1>. QED  BY <1>1, <1>2, <1>3, <1>4, <1>5, <1>6, <1>7, <1>8 DEF Next

Before == {"intake", "triage", "recovery"}

\* The running best and what it holds change in the worker only; the artifact
\* it belongs to changes only before there is one.
LEMMA OthersKeepBest ==
    ASSUME [Next]_vars, ~DeepWorker, ~NewTurn
    PROVE  /\ best' = best /\ told' = told
           /\ pc \in Before \/ (pc' \notin Before /\ artifact' = artifact /\ format' = format)
  <1>. USE DEF Before, sampleVars, deepVars, ghidraVars, history
  <1>1. CASE Intake \/ Triage
    BY <1>1 DEF Intake, AcquireSample, AcquireFails, IntakeWithoutSample, Triage
  <1>2. CASE Recovery
    BY <1>2 DEF Recovery, RecoveryEnds, RecoveryFails, RecoverySkip
  <1>3. CASE Ghidra
    BY <1>3 DEF Ghidra, PrepareGhidra, PrepareGhidraFails, GhidraAnswers, GhidraUser
  <1>4. CASE DeepGate
    BY <1>4 DEF DeepGate, GateWithoutArtifact, GateContinues, GateDecides, GateRaises
  <1>5. CASE Decompile \/ NativePivot \/ NativeWorker
    BY <1>5 DEF Decompile, NativePivot, NativeWorker
  <1>6. CASE \/ Lens("host") \/ Lens("network")
             \/ Characterise("behavior", "attack") \/ Characterise("attack", "critic")
    BY <1>6 DEF Lens, Characterise
  <1>7. CASE EvidenceCritic \/ Report
    BY <1>7 DEF EvidenceCritic, Report
  <1>8. CASE UNCHANGED vars
    BY <1>8 DEF vars
  <1>. QED  BY <1>1, <1>2, <1>3, <1>4, <1>5, <1>6, <1>7, <1>8 DEF Next

LEMMA BestStep ==
    ASSUME TypeOK, RouteFollowsFormat, BestStands, [Next]_vars
    PROVE  BestStands'
  <1>1. CASE DeepWorker
    <2>1. /\ best' = None => told' = {}
          /\ best' # None => Parses(best', artifact) /\ Holds(best', told')
      BY <1>1, WorkerFacts
    <2>2. artifact' = artifact /\ EngineOf' = EngineOf /\ EngineOf = "deep" /\ pc' = "deep_gate"
      BY <1>1 DEF DeepWorker, sampleVars, EngineOf, RouteFollowsFormat
    <2>. QED  BY <2>1, <2>2 DEF BestStands, Parses, Valid, IsEnvelope, Holds
  <1>2. CASE NewTurn
    BY <1>2 DEF NewTurn, BestStands
  <1>3. CASE ~DeepWorker /\ ~NewTurn
    <2>1. /\ best' = best /\ told' = told
          /\ pc \in Before \/ (pc' \notin Before /\ artifact' = artifact /\ format' = format)
      BY <1>3, OthersKeepBest
    <2>2. CASE best = None
      BY <2>1, <2>2 DEF BestStands
    <2>3. CASE best # None
      <3>1. pc' \notin Before /\ artifact' = artifact /\ EngineOf' = EngineOf
        BY <2>1, <2>3 DEF BestStands, Before, EngineOf
      <3>. QED  BY <2>1, <2>3, <3>1 DEF BestStands, Before, Parses, Valid, IsEnvelope, Holds
    <2>. QED  BY <2>2, <2>3
  <1>. QED  BY <1>1, <1>2, <1>3

\* The steps that lead a native sample on: the gate's own, or those that leave
\* alone what it stands on.
LEMMA StandingSteps ==
    ASSUME CountersAgree, RouteFollowsFormat, EvidenceTyped, [Next]_vars,
           pc' \in AfterEngines, EngineOf' = "deep"
    PROVE  \/ GateDecides
           \/ artifact = None /\ artifact' = None
           \/ /\ pc \in AfterEngines /\ EngineOf = "deep"
              /\ UNCHANGED <<artifact, coverage, best, told>>
              /\ evidence'["deep"] = evidence["deep"]
  <1>. USE DEF AfterEngines, sampleVars, deepVars, ghidraVars, history
  <1>1. CASE Intake \/ Triage \/ NewTurn
    BY <1>1 DEF Intake, AcquireSample, AcquireFails, IntakeWithoutSample, Triage, NewTurn
  <1>2. CASE Recovery
    BY <1>2 DEF Recovery, RecoveryEnds, RecoveryFails, RecoverySkip, EngineOf
  <1>3. CASE Ghidra
    BY <1>3 DEF Ghidra, PrepareGhidra, PrepareGhidraFails, GhidraAnswers, GhidraUser
  <1>4. CASE DeepWorker
    BY <1>4 DEF DeepWorker
  <1>5. CASE DeepGate
    <2>1. ~GateContinues
      <3>1. SUFFICES ASSUME GateContinues  PROVE FALSE
        OBVIOUS
      <3>2. ~Exhausted /\ ~(passes + 1 < MaxDeepIterations)
        BY <3>1 DEF GateContinues
      <3>. QED  BY <3>2, LimitAssumption DEF CountersAgree, Exhausted
    <2>. QED  BY <1>5, <2>1 DEF DeepGate, GateWithoutArtifact, GateRaises
  <1>6. CASE Decompile \/ NativePivot \/ NativeWorker
    <2>1. pc \in {"decompile", "pivot", "java", "native"} /\ EngineOf' = EngineOf
      BY <1>6 DEF Decompile, NativePivot, NativeWorker, EngineOf
    <2>. QED  BY <2>1 DEF RouteFollowsFormat
  <1>7. CASE Lens("host") \/ Lens("network")
    BY <1>7, StagesAre DEF Lens, EvidenceTyped, EngineOf
  <1>8. CASE Characterise("behavior", "attack") \/ Characterise("attack", "critic")
    BY <1>8, StagesAre DEF Characterise, StageAnswers, EvidenceTyped, EngineOf
  <1>9. CASE EvidenceCritic \/ Report
    BY <1>9 DEF EvidenceCritic, Report, EngineOf
  <1>10. CASE UNCHANGED vars
    BY <1>10 DEF vars, EngineOf
  <1>. QED  BY <1>1, <1>2, <1>3, <1>4, <1>5, <1>6, <1>7, <1>8, <1>9, <1>10 DEF Next

\* What GateDecides leaves.
LEMMA GateStep ==
    ASSUME TypeOK, GateDecides
    PROVE  /\ Verdict' /\ evidence'["deep"].findings = DeepEvidence.findings
           /\ UNCHANGED <<artifact, best, told>>
  <1>1. /\ artifact \in Artifacts /\ artifact' = artifact /\ coverage' = coverage
        /\ best' = best /\ told' = told
        /\ Len(GateLimits(DeepEvidence)) <= MaxLimits
        /\ evidence' = [evidence EXCEPT !["deep"] = GateEnvelope(DeepEvidence)]
    BY DEF GateDecides, sampleVars, history
  <1>2. evidence'["deep"] = GateEnvelope(DeepEvidence)
    BY <1>1, Typed, StagesAre DEF EvidenceTyped
  <1>3. /\ Parses(GateEnvelope(DeepEvidence), artifact)
        /\ GateEnvelope(DeepEvidence).findings = DeepEvidence.findings
        /\ IF Covered THEN GateEnvelope(DeepEvidence).status = "complete"
           ELSE /\ GateEnvelope(DeepEvidence).status # "complete"
                /\ "analysis_incomplete" \in ToSet(GateEnvelope(DeepEvidence).limits)
    BY <1>1, Typed, GateFacts
  <1>4. Covered' <=> Covered
    BY <1>1 DEF Covered, ReadCoverage
  <1>. DEFINE e == GateEnvelope(DeepEvidence)
  <1>. HIDE DEF e
  <1>5. Parses(e, artifact') /\ evidence["deep"]' = e
    BY <1>1, <1>2, <1>3 DEF e
  <1>6. Verdict'
    BY <1>3, <1>4, <1>5 DEF Verdict, Parses, Valid, IsEnvelope, e
  <1>. QED  BY <1>1, <1>2, <1>3, <1>6

LEMMA VerdictStep ==
    ASSUME TypeOK, CountersAgree, RouteFollowsFormat, VerdictStands, [Next]_vars
    PROVE  VerdictStands'
  <1>. SUFFICES ASSUME pc' \in AfterEngines, EngineOf' = "deep", artifact' \in Artifacts
                PROVE  Verdict'
    BY DEF VerdictStands
  <1>1. CASE GateDecides
    BY <1>1, GateStep
  <1>2. CASE artifact' = None
    BY <1>2, ValueAssumption
  <1>3. CASE /\ pc \in AfterEngines /\ EngineOf = "deep"
             /\ UNCHANGED <<artifact, coverage, best, told>>
             /\ evidence'["deep"] = evidence["deep"]
    <2>1. Verdict
      BY <1>3 DEF VerdictStands
    <2>. QED  BY <1>3, <2>1 DEF Verdict, Parses, Valid, IsEnvelope, Covered, ReadCoverage
  <1>. QED  BY <1>1, <1>2, <1>3, Typed, StandingSteps

LEMMA ToldStep ==
    ASSUME TypeOK, CountersAgree, RouteFollowsFormat, BestStands, ToldStands, [Next]_vars
    PROVE  ToldStands'
  <1>. SUFFICES ASSUME best' # None, pc' \in {"deep_gate"} \cup AfterEngines
                PROVE  (Parses(evidence["deep"], artifact) /\ Holds(evidence["deep"], told))'
    BY DEF ToldStands
  <1>1. EngineOf' = "deep" /\ artifact' \in Artifacts
    BY BestStep DEF BestStands, Parses
  <1>2. CASE DeepWorker
    <2>1. Parses(evidence["deep"]', artifact) /\ Holds(evidence["deep"]', told')
      BY <1>2, WorkerFacts
    <2>2. artifact' = artifact
      BY <1>2 DEF DeepWorker, sampleVars
    <2>. QED  BY <2>1, <2>2 DEF Parses, Valid, IsEnvelope, Holds
  <1>3. CASE ~DeepWorker /\ pc' = "deep_gate"
    <2>1. pc = "deep_gate" /\ UNCHANGED <<artifact, evidence, best, told>>
      BY <1>3 DEF Next, Intake, AcquireSample, AcquireFails, IntakeWithoutSample, Triage,
             Recovery, RecoveryEnds, RecoveryFails, RecoverySkip, EngineOf,
             Ghidra, PrepareGhidra, PrepareGhidraFails, GhidraAnswers, GhidraUser,
             DeepGate, GateWithoutArtifact, GateContinues, GateDecides, GateRaises,
             Decompile, NativePivot, NativeWorker, Lens, Characterise,
             EvidenceCritic, Report, NewTurn, vars, sampleVars, deepVars, history
    <2>. QED  BY <1>3, <2>1 DEF ToldStands, Parses, Valid, IsEnvelope, Holds
  <1>4. CASE pc' \in AfterEngines
    <2>1. CASE GateDecides
      <3>1. /\ Verdict' /\ evidence'["deep"].findings = DeepEvidence.findings
            /\ artifact' = artifact /\ best' = best /\ told' = told
        BY <2>1, GateStep
      <3>2. Parses(evidence["deep"], artifact) /\ Holds(evidence["deep"], told)
        BY <2>1, <3>1 DEF ToldStands, GateDecides
      <3>3. DeepEvidence = evidence["deep"]
        BY <3>2 DEF DeepEvidence
      <3>. QED  BY <3>1, <3>2, <3>3 DEF Verdict, Holds
    <2>2. CASE artifact' = None
      BY <1>1, <2>2, ValueAssumption
    <2>3. CASE /\ pc \in AfterEngines /\ EngineOf = "deep"
               /\ UNCHANGED <<artifact, coverage, best, told>>
               /\ evidence'["deep"] = evidence["deep"]
      BY <2>3 DEF ToldStands, Parses, Valid, IsEnvelope, Holds
    <2>. QED  BY <1>1, <1>4, <2>1, <2>2, <2>3, Typed, StandingSteps
  <1>. QED  BY <1>2, <1>3, <1>4 DEF AfterEngines

-----------------------------------------------------------------------------
(* From the lenses to the report                                             *)

LEMMA NetworkToldKept ==
    ASSUME NEW e, NetworkTold(e), artifact' = artifact, evidence'["network"] = e,
           evidence'["recovery"] = evidence["recovery"], evidence'["deep"] = evidence["deep"]
    PROVE  NetworkTold(evidence["network"])'
  <1>1. Upstream' = Upstream
    BY DEF Upstream, Parses, Valid, IsEnvelope
  <1>2. CompletedSurface(e)' <=> \E x \in {e'} \cup Upstream : x.status = "complete" /\ x.net
    BY <1>1 DEF CompletedSurface
  <1>. QED  BY <1>1 DEF NetworkTold, CompletedSurface, Parses, Valid, IsEnvelope

LEMMA NetworkStep ==
    ASSUME TypeOK, NetworkStands, [Next]_vars
    PROVE  NetworkStands'
  <1>. USE DEF AfterEngines, sampleVars, deepVars, ghidraVars, history
  <1>. SUFFICES ASSUME pc' \in AfterEngines, pc' = "lenses" => "network" \notin lenses',
                       artifact' \in Artifacts
                PROVE  NetworkTold(evidence["network"])'
    BY DEF NetworkStands
  <1>1. CASE Lens("network")
    <2>1. artifact' = artifact
      BY <1>1 DEF Lens
    <2>2. /\ NetworkTold(evidence'["network"])
          /\ \A r \in Stages \ {"network"} : evidence'[r] = evidence[r]
      BY <1>1, <2>1, LensTyped
    <2>. QED  BY <2>1, <2>2, StagesAre, NetworkToldKept
  <1>2. CASE ~Lens("network")
    <2>1. /\ pc \in AfterEngines /\ (pc = "lenses" => "network" \notin lenses)
          /\ artifact' = artifact
      BY <1>2 DEF Next, Intake, AcquireSample, AcquireFails, IntakeWithoutSample, Triage,
             Recovery, RecoveryEnds, RecoveryFails, RecoverySkip, EngineOf,
             Ghidra, PrepareGhidra, PrepareGhidraFails, GhidraAnswers, GhidraUser, DeepWorker,
             DeepGate, GateWithoutArtifact, GateContinues, GateDecides, GateRaises,
             Decompile, NativePivot, NativeWorker, Lens, Characterise,
             EvidenceCritic, Report, NewTurn, vars
    <2>2. /\ evidence'["network"] = evidence["network"]
          /\ evidence'["recovery"] = evidence["recovery"] /\ evidence'["deep"] = evidence["deep"]
      <3>1. CASE UNCHANGED evidence
        BY <3>1
      <3>2. CASE Lens("host")
        BY <3>2, StagesAre, LensTyped
      <3>3. CASE Characterise("behavior", "attack") \/ Characterise("attack", "critic")
        BY <3>3, Typed, StagesAre DEF Characterise, StageAnswers, EvidenceTyped
      <3>. QED  BY <1>2, <2>1, <3>1, <3>2, <3>3
                DEF Next, Intake, AcquireSample, AcquireFails, IntakeWithoutSample, Triage,
                    Recovery, RecoveryEnds, RecoveryFails, RecoverySkip,
                    Ghidra, PrepareGhidra, PrepareGhidraFails, GhidraAnswers, GhidraUser,
                    DeepWorker, DeepGate, GateWithoutArtifact, GateContinues, GateDecides,
                    GateRaises, Decompile, NativePivot, NativeWorker,
                    EvidenceCritic, Report, NewTurn, vars
    <2>3. NetworkTold(evidence["network"])
      BY <2>1 DEF NetworkStands
    <2>. QED  BY <2>1, <2>2, <2>3, NetworkToldKept
  <1>. QED  BY <1>1, <1>2

\* What has been judged was judged in this step, or is as it was.
LEMMA JudgedSteps ==
    ASSUME [Next]_vars, Judged'
    PROVE  /\ artifact \in Artifacts
           /\ UNCHANGED <<artifact, format, evidence, told>>
           /\ EvidenceCritic \/ (Judged /\ UNCHANGED validated)
  BY DEF Judged, Next, Intake, AcquireSample, AcquireFails, IntakeWithoutSample, Triage,
         Recovery, RecoveryEnds, RecoveryFails, RecoverySkip, EngineOf,
         Ghidra, PrepareGhidra, PrepareGhidraFails, GhidraAnswers, GhidraUser, DeepWorker,
         DeepGate, GateWithoutArtifact, GateContinues, GateDecides, GateRaises,
         Decompile, NativePivot, NativeWorker, Lens, Characterise,
         EvidenceCritic, Report, NewTurn, vars, sampleVars, history

LEMMA DeepReadable ==
    ASSUME TypeOK, Parses(evidence["deep"], artifact)
    PROVE  "deep" \in Readable
  BY StagesAre DEF Readable, Present, Parses, Valid, IsEnvelope

LEMMA ReportStep ==
    ASSUME TypeOK, VerdictStands, ReportFollows, [Next]_vars
    PROVE  ReportFollows'
  <1>. SUFFICES ASSUME Judged', EngineOf' = "deep", validated'.status = "complete"
                PROVE  evidence'["deep"].status = "complete"
    BY DEF ReportFollows
  <1>1. /\ artifact \in Artifacts /\ EngineOf = "deep" /\ evidence' = evidence
        /\ EvidenceCritic \/ (Judged /\ UNCHANGED validated)
    BY JudgedSteps DEF EngineOf
  <1>2. CASE EvidenceCritic
    <2>1. PICK v \in VerdictType : validated' = Verdicts(v, Accepted(v) \cup Qualified(v))
      BY <1>1, <1>2, CriticFacts
    <2>2. validated'.status = CriticStatus(Accepted(v) \cup Qualified(v))
      BY <2>1 DEF Verdicts
    <2>3. ~UpstreamFailed
      BY <2>2 DEF CriticStatus
    <2>4. "deep" \in Readable
      BY <1>1, <1>2, DeepReadable DEF EvidenceCritic, VerdictStands, Verdict, AfterEngines
    <2>. QED  BY <1>1, <2>3, <2>4 DEF UpstreamFailed
  <1>3. CASE Judged /\ UNCHANGED validated
    BY <1>1, <1>3 DEF ReportFollows
  <1>. QED  BY <1>1, <1>2, <1>3

LEMMA KeptStep ==
    ASSUME TypeOK, BestStands, ToldStands, ToldIsKept, [Next]_vars
    PROVE  ToldIsKept'
  <1>. SUFFICES ASSUME Judged', NEW f \in told'
                PROVE  (\/ f \in validated.accepted \cup validated.qualified
                        \/ \E m \in validated.rejected :
                              /\ m[1] = "deep" /\ m[2] \in DOMAIN evidence["deep"].findings
                              /\ evidence["deep"].findings[m[2]] = f
                        \/ Len(evidence["deep"].findings) = MaxFindings
                        \/ Cardinality(validated.accepted) = MaxFindings)'
    BY DEF ToldIsKept
  <1>1. /\ artifact \in Artifacts /\ evidence' = evidence /\ told' = told
        /\ EvidenceCritic \/ (Judged /\ UNCHANGED validated)
    BY JudgedSteps
  <1>2. CASE EvidenceCritic
    <2>1. PICK v \in VerdictType : validated' = Verdicts(v, Accepted(v) \cup Qualified(v))
      BY <1>1, <1>2, CriticFacts
    <2>2. /\ validated'.accepted = Accepted(v) /\ validated'.qualified = Qualified(v)
          /\ validated'.rejected = v.rejected
      BY <2>1 DEF Verdicts
    <2>3. Parses(evidence["deep"], artifact) /\ Holds(evidence["deep"], told)
      BY <1>1, <1>2 DEF EvidenceCritic, BestStands, ToldStands, AfterEngines
    <2>4. "deep" \in Readable
      BY <2>3, DeepReadable
    <2>5. CASE Len(evidence["deep"].findings) = MaxFindings
      BY <1>1, <2>5
    <2>6. CASE told \subseteq ToSet(evidence["deep"].findings)
      <3>1. PICK i \in DOMAIN evidence["deep"].findings : evidence["deep"].findings[i] = f
        BY <1>1, <2>6 DEF ToSet
      <3>2. \/ <<"deep", i>> \in v.rejected
            \/ evidence["deep"].findings[i] \in Accepted(v) \cup Qualified(v)
            \/ Cardinality(Accepted(v)) = MaxFindings
        BY <2>4, Typed, Criticised
      <3>3. <<"deep", i>>[1] = "deep" /\ <<"deep", i>>[2] = i
        OBVIOUS
      <3>. QED  BY <1>1, <2>2, <3>1, <3>2, <3>3
    <2>. QED  BY <2>3, <2>5, <2>6 DEF Holds
  <1>3. CASE Judged /\ UNCHANGED validated
    BY <1>1, <1>3 DEF ToldIsKept
  <1>. QED  BY <1>1, <1>2, <1>3

LEMMA AbsenceStep ==
    ASSUME TypeOK, NetworkStands, AbsenceDetermined, [Next]_vars
    PROVE  AbsenceDetermined'
  <1>1. CASE ~Judged'
    BY <1>1 DEF AbsenceDetermined
  <1>2. CASE Judged' /\ ~EvidenceCritic
    <2>1. Judged /\ UNCHANGED <<artifact, evidence, validated>>
      BY <1>2, JudgedSteps
    <2>2. CompletedSurface(evidence["network"])' <=> CompletedSurface(evidence["network"])
      BY <2>1 DEF CompletedSurface, Upstream, Parses, Valid, IsEnvelope
    <2>. QED  BY <1>2, <2>1, <2>2 DEF AbsenceDetermined
  <1>3. CASE Judged' /\ EvidenceCritic
    <2>1. artifact \in Artifacts /\ UNCHANGED <<artifact, evidence>>
      BY <1>3, JudgedSteps
    <2>2. PICK v \in VerdictType : validated' = Verdicts(v, Accepted(v) \cup Qualified(v))
      BY <1>3, <2>1, CriticFacts
    <2>3. /\ validated'.accepted = Accepted(v) /\ validated'.qualified = Qualified(v)
          /\ validated'.rejected = v.rejected
          /\ validated'.limits = ToSet(Prefix(SetToSeq(UpstreamLimits), MaxLimits))
      BY <2>2 DEF Verdicts
    <2>4. NetworkTold(evidence["network"])
      BY <1>3, <2>1 DEF NetworkStands, EvidenceCritic, AfterEngines
    <2>5. "network" \in Readable
      BY <2>4, StagesAre DEF NetworkTold, Readable, Present, Parses, Valid, IsEnvelope
    <2>6. CompletedSurface(evidence["network"])' <=> CompletedSurface(evidence["network"])
      BY <2>1 DEF CompletedSurface, Upstream, Parses, Valid, IsEnvelope
    <2>7. CASE \E f \in ToSet(evidence["network"].findings) : f.kind = "network"
      <3>1. PICK i \in DOMAIN evidence["network"].findings :
                    evidence["network"].findings[i].kind = "network"
        BY <2>7 DEF ToSet
      <3>2. \/ <<"network", i>> \in v.rejected
            \/ evidence["network"].findings[i] \in Accepted(v) \cup Qualified(v)
            \/ Cardinality(Accepted(v)) = MaxFindings
        BY <2>5, Typed, Criticised
      <3>. QED  BY <2>3, <3>1, <3>2, LimitAssumption DEF AbsenceDetermined
    <2>8. CASE "not_determined" \in ToSet(evidence["network"].limits)
      <3>1. "not_determined" \in UpstreamLimits
        BY <2>5, <2>8 DEF UpstreamLimits
      <3>2. \/ validated'.limits = UpstreamLimits
            \/ Cardinality(validated'.limits) = MaxLimits
        BY <2>3, UpstreamLimitsFinite, LimitAssumption, PrefixOfSet
      <3>. QED  BY <3>1, <3>2, LimitAssumption DEF AbsenceDetermined
    <2>9. CASE CompletedSurface(evidence["network"]) \/ Len(evidence["network"].limits) = MaxLimits
      BY <2>1, <2>6, <2>9 DEF AbsenceDetermined
    <2>. QED  BY <2>4, <2>7, <2>8, <2>9 DEF NetworkTold
  <1>. QED  BY <1>1, <1>2, <1>3

-----------------------------------------------------------------------------
(* What holds of the pipeline                                                *)

LEMMA PipelineStep == PipelineInv /\ [Next]_vars => PipelineInv'
  <1>. SUFFICES ASSUME PipelineInv, [Next]_vars  PROVE PipelineInv'
    OBVIOUS
  <1>. USE DEF PipelineInv
  <1>1. TypeOK'
    BY TypeStep
  <1>2. CountersAgree'
    BY CountersStep
  <1>3. RouteFollowsFormat'
    BY RouteStep
  <1>4. BestStands'
    BY BestStep
  <1>5. ToldStands'
    BY ToldStep
  <1>6. VerdictStands'
    BY VerdictStep
  <1>7. NetworkStands'
    BY NetworkStep
  <1>8. ReportFollows'
    BY ReportStep
  <1>9. ToldIsKept'
    BY KeptStep
  <1>10. AbsenceDetermined'
    BY AbsenceStep
  <1>. QED  BY <1>1, <1>2, <1>3, <1>4, <1>5, <1>6, <1>7, <1>8, <1>9, <1>10

LEMMA PipelineInvariant == Spec => []PipelineInv
  BY PipelineInit, PipelineStep, PTL DEF Spec

\* Every key holds what its readers can meet; what the guards wrote, merged,
\* salvaged and truncated is within the strict model's bounds.
THEOREM EvidenceTypes == Spec => []TypeOK
  <1>1. PipelineInv => TypeOK
    BY DEF PipelineInv
  <1>. QED  BY <1>1, PipelineInvariant, PTL

\* deep_analysis_gate.py: whichever way the loop ends, the lenses find the
\* gate's verdict on the artifact's coverage, and not the model's.
THEOREM VerdictIsTheGates == Spec => []DeepStatusIsTheGates
  <1>1. PipelineInv => DeepStatusIsTheGates
    BY DEF PipelineInv, VerdictStands, Verdict, DeepStatusIsTheGates, AfterEngines
  <1>. QED  BY <1>1, PipelineInvariant, PTL

\* evidence_output.py and the critic: what any pass of the deep worker told is
\* in the report or named by a rejection, unless an envelope is full.
THEOREM ToldIsNeverLost == Spec => []ToldIsKept
  <1>1. PipelineInv => ToldIsKept
    BY DEF PipelineInv
  <1>. QED  BY <1>1, PipelineInvariant, PTL

\* malware_analyst/evidence.py and the critic: a report does not pass the silence of
\* the network stage for absence.
THEOREM AbsenceIsDetermined == Spec => []AbsenceDetermined
  <1>1. PipelineInv => AbsenceDetermined
    BY DEF PipelineInv
  <1>. QED  BY <1>1, PipelineInvariant, PTL

\* The whole chain: a native sample's report says "complete" only of an
\* artifact whose search and decompilation Ghidra answered.
THEOREM CompletionIsEarned == Spec => []CompleteIsEarned
  <1>1. PipelineInv /\ CoveredIsEarned => CompleteIsEarned
    <2>. SUFFICES ASSUME PipelineInv, CoveredIsEarned, Judged, EngineOf = "deep",
                         validated.status = "complete"
                  PROVE  {<<artifact, "search">>, <<artifact, "target">>} \subseteq receipts
      BY DEF CompleteIsEarned
    <2>1. evidence["deep"].status = "complete"
      BY DEF PipelineInv, ReportFollows
    <2>2. Verdict
      BY DEF PipelineInv, VerdictStands, AfterEngines, Judged
    <2>3. Covered
      BY <2>1, <2>2 DEF Verdict
    <2>. QED  BY <2>3 DEF CoveredIsEarned
  <1>. QED  BY <1>1, PipelineInvariant, CoverIsEarned, PTL
=============================================================================
