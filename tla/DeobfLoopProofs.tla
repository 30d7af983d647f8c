---------------------------- MODULE DeobfLoopProofs ----------------------------
(***************************************************************************)
(* Theorems about DeobfLoop, for every value of its constants.              *)
(***************************************************************************)
EXTENDS DeobfLoop, FiniteSetTheorems, TLAPS

-----------------------------------------------------------------------------
(* The operators the actions are built from *)

\* Every way a tool's answer is recorded is a ToolState.
LEMMA RecoveredType ==
    ASSUME NEW a \in Artifacts, NEW b \in Artifacts
    PROVE  Called(Recovered(a, b)) \in ToolState
  BY DEF Called, Recovered, ToolState, Result, Codes

\* A result that blames the plan, whoever was asked.
LEMMA RejectedType == Called(Degraded("invalid_classification", None)) \in ToolState
  BY DEF Called, Degraded, ToolState, Result, Codes

LEMMA FailedType ==
    ASSUME NEW a \in Artifacts
    PROVE  Called(Degraded("tool_failed", a)) \in ToolState
           /\ Called(Degraded("seen_state_overflow", a)) \in ToolState
           /\ Called(NotApplicable(a)) \in ToolState
  BY DEF Called, Degraded, NotApplicable, ToolState, Result, Codes

\* FLOSS's count is a number, because the strings of an artifact are finitely many.
LEMMA DecodedType ==
    ASSUME NEW a \in Artifacts
    PROVE  DecodedFrom(a, Decoded[a] \ seen) \in Result
  <1>1. Decoded[a] \subseteq Strings
    BY InputAssumption
  <1>2. IsFiniteSet(Decoded[a] \ seen)
    BY <1>1, InputAssumption, FS_Subset
  <1>3. Cardinality(Decoded[a] \ seen) \in Nat
    BY <1>2, FS_CardinalityType
  <1> QED
    BY <1>1, <1>3 DEF DecodedFrom, Result, Codes

\* A plan that matches is a plan, of an artifact that is one.
LEMMA MatchingPlan ==
    ASSUME TypeOK, PlanMatches
    PROVE  plan \in PlanType /\ current \in Artifacts /\ plan.artifact = current
  BY DEF TypeOK, PlanMatches

\* Advancing keeps plan, artifact and provenance well typed and in step.
LEMMA AdvanceTypes ==
    ASSUME TypeOK, PlanMatches, NEW b \in Artifacts,
           NEW tool \in {"upx_unpack", "de4dot_deobfuscate", "scripted_recover"},
           Advance(tool, b)
    PROVE  /\ current' = b
           /\ plan' \in PlanType /\ plan'.artifact = b
           /\ provenance' \in Provenance
           /\ analysed' = {}
  BY MatchingPlan DEF Advance, PlanType, Provenance

-----------------------------------------------------------------------------
(* TypeOK, action by action *)

LEMMA TypeInit == Init => TypeOK
  BY BoundAssumption
  DEF Init, TypeOK, Agents, ToolState, NotCalled, NotAttempted

LEMMA TypeIntake == TypeOK /\ Intake => TypeOK'
  <1> SUFFICES ASSUME TypeOK, Intake PROVE TypeOK'
    OBVIOUS
  <1> USE InputAssumption, BoundAssumption
  <1>1. ASSUME NEW a \in Artifacts, AcquireSample(a) PROVE TypeOK'
    BY <1>1 DEF AcquireSample, Route, TypeOK, Agents, ToolState, NotCalled, NotAttempted
  <1>2. CASE AcquireFails
    BY <1>2 DEF AcquireFails, Route, TypeOK, Agents, toolVars, workVars
  <1>3. CASE AcquireByHashFails
    BY <1>3 DEF AcquireByHashFails, Route, TypeOK, Agents, sampleVars, toolVars, workVars
  <1>4. CASE IntakeWithoutSample
    BY <1>4 DEF IntakeWithoutSample, Route, TypeOK, Agents, turnVars, sampleVars,
                toolVars, workVars
  <1> QED
    BY <1>1, <1>2, <1>3, <1>4 DEF Intake

LEMMA TypeTurns == TypeOK /\ (SkipRecovery \/ NewTurn \/ Classify) => TypeOK'
  <1> SUFFICES ASSUME TypeOK, SkipRecovery \/ NewTurn \/ Classify PROVE TypeOK'
    OBVIOUS
  <1> USE InputAssumption, BoundAssumption
  <1>1. CASE SkipRecovery
    <2>1. evidence' \in Envelope \cup {None}
      BY <1>1 DEF SkipRecovery, TypeOK, EmptyEnvelope, Envelope
    <2> QED
      BY <1>1, <2>1 DEF SkipRecovery, TypeOK, Agents, turnVars, sampleVars, toolVars, workVars
  <1>2. CASE NewTurn
    BY <1>2 DEF NewTurn, TypeOK, Agents, sampleVars, toolVars, workVars, gateVars
  <1>3. CASE Classify
    BY <1>3 DEF Classify, TypeOK, Agents, turnVars, toolVars, workVars, gateVars
  <1> QED
    BY <1>1, <1>2, <1>3

LEMMA TypeUpx == TypeOK /\ UpxUnpack => TypeOK'
  <1> SUFFICES ASSUME TypeOK, UpxUnpack PROVE TypeOK'
    OBVIOUS
  <1>1. CASE UpxNotRun
    BY <1>1 DEF UpxNotRun, TypeOK, Agents, turnVars, sampleVars, toolVars, workVars, gateVars
  <1>2. CASE UpxRuns
    <2>1. ASSUME UpxAnswers
          PROVE  /\ upx' \in ToolState
                 /\ current' \in Artifacts \cup {None}
                 /\ plan' \in PlanType \cup {None}
                 /\ provenance' \in Provenance \cup {None}
                 /\ analysed' \in SUBSET Artifacts
      <3>1. CASE ~PlanMatches
        BY <2>1, <3>1, RejectedType DEF UpxAnswers, TypeOK
      <3>2. CASE PlanMatches
        <4>1. current \in Artifacts
          BY <3>2, MatchingPlan
        <4>2. {Called(NotApplicable(current)), Called(Degraded("tool_failed", current)),
               Called(Recovered(current, current))} \subseteq ToolState
          BY <4>1, FailedType, RecoveredType
        <4> QED
          BY <2>1, <3>2, <4>2 DEF UpxAnswers, FreshProvenance, TypeOK
      <3> QED
        BY <3>1, <3>2
    <2>2. ASSUME NEW b \in Artifacts, UpxUnpacks(b)
          PROVE  /\ upx' \in ToolState
                 /\ current' \in Artifacts \cup {None}
                 /\ plan' \in PlanType \cup {None}
                 /\ provenance' \in Provenance \cup {None}
                 /\ analysed' \in SUBSET Artifacts
      BY <2>2, RecoveredType, MatchingPlan, AdvanceTypes DEF UpxUnpacks
    <2>3. current # None => Yields[current] \subseteq Artifacts
      BY InputAssumption DEF TypeOK
    <2>4. /\ upx' \in ToolState
          /\ current' \in Artifacts \cup {None}
          /\ plan' \in PlanType \cup {None}
          /\ provenance' \in Provenance \cup {None}
          /\ analysed' \in SUBSET Artifacts
      BY <1>2, <2>1, <2>2, <2>3 DEF UpxRuns
    <2> QED
      BY <1>2, <2>4 DEF UpxRuns, TypeOK, Agents, turnVars, workVars, gateVars
  <1> QED
    BY <1>1, <1>2 DEF UpxUnpack

LEMMA TypeFloss == TypeOK /\ FlossDecode => TypeOK'
  <1> SUFFICES ASSUME TypeOK, FlossDecode PROVE TypeOK'
    OBVIOUS
  <1>1. CASE FlossNotRun
    <2>1. floss' \in ToolState
      BY <1>1, RejectedType DEF FlossNotRun, TypeOK
    <2> QED
      BY <1>1, <2>1 DEF FlossNotRun, AfterFloss, TypeOK, Agents, turnVars, sampleVars,
                        workVars, gateVars
  <1>2. CASE FlossRuns
    <2>1. ASSUME FlossAnswers PROVE floss' \in ToolState /\ seen' \in SUBSET Strings
      <3>1. CASE ~PlanMatches
        BY <2>1, <3>1, RejectedType DEF FlossAnswers, TypeOK
      <3>2. CASE PlanMatches
        <4>1. {Called(NotApplicable(current)), Called(Degraded("tool_failed", current)),
               Called(None)} \subseteq ToolState
          BY <3>2, MatchingPlan, FailedType DEF Called, ToolState
        <4> QED
          BY <2>1, <3>2, <4>1 DEF FlossAnswers, TypeOK
      <3> QED
        BY <3>1, <3>2
    <2>2. ASSUME FlossDecodes PROVE floss' \in ToolState /\ seen' \in SUBSET Strings
      <3>1. current \in Artifacts
        BY <2>2, MatchingPlan DEF FlossDecodes
      <3>2. DecodedFrom(current, Decoded[current] \ seen) \in Result
        BY <3>1, DecodedType
      <3>3. Decoded[current] \subseteq Strings
        BY <3>1, InputAssumption
      <3>4. Called(DecodedFrom(current, Decoded[current] \ seen)) \in ToolState
        BY <3>2 DEF Called, ToolState
      <3>5. Called(Degraded("seen_state_overflow", current)) \in ToolState
        BY <3>1, FailedType
      <3> QED
        BY <2>2, <3>3, <3>4, <3>5 DEF FlossDecodes, TypeOK
    <2>3. floss' \in ToolState /\ seen' \in SUBSET Strings
      BY <1>2, <2>1, <2>2 DEF FlossRuns
    <2> QED
      BY <1>2, <2>3 DEF FlossRuns, AfterFloss, TypeOK, Agents, turnVars, sampleVars,
                        workVars, gateVars
  <1> QED
    BY <1>1, <1>2 DEF FlossDecode

LEMMA TypeDe4dot == TypeOK /\ De4dotDeobfuscate => TypeOK'
  <1> SUFFICES ASSUME TypeOK, De4dotDeobfuscate PROVE TypeOK'
    OBVIOUS
  <1> DEFINE Typed == /\ de4dot' \in ToolState
                      /\ current' \in Artifacts \cup {None}
                      /\ plan' \in PlanType \cup {None}
                      /\ provenance' \in Provenance \cup {None}
                      /\ analysed' \in SUBSET Artifacts
  <1>1. CASE De4dotNotRun
    BY <1>1 DEF De4dotNotRun, TypeOK, Agents, turnVars, sampleVars, toolVars, workVars, gateVars
  <1>2. CASE De4dotRuns
    <2>1. ASSUME De4dotAnswers PROVE Typed
      <3>1. CASE ~PlanMatches
        BY <2>1, <3>1, RejectedType DEF De4dotAnswers, TypeOK
      <3>2. CASE PlanMatches
        <4>1. {Called(NotApplicable(current)), Called(Degraded("tool_failed", current))}
                \subseteq ToolState
          BY <3>2, MatchingPlan, FailedType
        <4> QED
          BY <2>1, <3>2, <4>1 DEF De4dotAnswers, TypeOK
      <3> QED
        BY <3>1, <3>2
    <2>2. ASSUME NEW b \in Artifacts, De4dotDeobfuscates(b) PROVE Typed
      BY <2>2, RecoveredType, MatchingPlan, AdvanceTypes DEF De4dotDeobfuscates
    <2>3. current # None => Yields[current] \subseteq Artifacts
      BY InputAssumption DEF TypeOK
    <2>4. Typed
      BY <1>2, <2>1, <2>2, <2>3 DEF De4dotRuns
    <2> QED
      BY <1>2, <2>4 DEF De4dotRuns, TypeOK, Agents, turnVars, workVars, gateVars
  <1> QED
    BY <1>1, <1>2 DEF De4dotDeobfuscate

LEMMA TypeDnlib == TypeOK /\ DnlibRoundtrip => TypeOK'
  <1> SUFFICES ASSUME TypeOK, DnlibRoundtrip PROVE TypeOK'
    OBVIOUS
  <1> DEFINE Typed == /\ dnlib' \in ToolState
                      /\ current' \in Artifacts \cup {None}
                      /\ plan' \in PlanType \cup {None}
                      /\ provenance' \in Provenance \cup {None}
                      /\ analysed' \in SUBSET Artifacts
                      /\ scripted' \in [attempted : BOOLEAN, result : ScriptedResult \cup {None}]
  <1>1. CASE DnlibNotRun
    BY <1>1 DEF DnlibNotRun, TypeOK, Agents, turnVars, sampleVars, toolVars, workVars, gateVars
  <1>2. CASE DnlibRuns
    <2>1. ASSUME DnlibAnswers PROVE Typed
      <3>1. CASE ~PlanMatches
        BY <2>1, <3>1, RejectedType DEF DnlibAnswers, TypeOK
      <3>2. CASE PlanMatches
        <4>1. {Called(NotApplicable(current)), Called(Degraded("tool_failed", current))}
                \subseteq ToolState
          BY <3>2, MatchingPlan, FailedType
        <4> QED
          BY <2>1, <3>2, <4>1 DEF DnlibAnswers, TypeOK
      <3> QED
        BY <3>1, <3>2
    <2>2. ASSUME NEW b \in Artifacts, DnlibRecovers(b) PROVE Typed
      <3>1. current \in Artifacts
        BY <2>2, MatchingPlan DEF DnlibRecovers
      <3>2. scripted' \in [attempted : BOOLEAN, result : ScriptedResult \cup {None}]
        BY <2>2, <3>1 DEF DnlibRecovers, TypeOK, ScriptedResult, Methods
      <3> QED
        BY <2>2, <3>1, <3>2, RecoveredType, AdvanceTypes DEF DnlibRecovers
    <2>3. current # None => Yields[current] \subseteq Artifacts
      BY InputAssumption DEF TypeOK
    <2>4. Typed
      BY <1>2, <2>1, <2>2, <2>3 DEF DnlibRuns
    <2> QED
      BY <1>2, <2>4 DEF DnlibRuns, TypeOK, Agents, turnVars, gateVars
  <1> QED
    BY <1>1, <1>2 DEF DnlibRoundtrip

LEMMA TypeWorkers ==
    TypeOK /\ (\/ ScriptedRecover \/ DotnetScriptedRecover \/ RunPython \/ WorkerReturns
               \/ Retriage \/ \E b \in Artifacts : Register(b)) => TypeOK'
  <1> SUFFICES ASSUME TypeOK,
                      \/ ScriptedRecover \/ DotnetScriptedRecover \/ RunPython
                      \/ WorkerReturns \/ Retriage \/ \E b \in Artifacts : Register(b)
               PROVE  TypeOK'
    OBVIOUS
  <1>1. CASE ScriptedRecover
    <2>1. scripted' \in [attempted : BOOLEAN, result : ScriptedResult \cup {None}]
      BY <1>1 DEF ScriptedRecover, TypeOK
    <2> QED
      BY <1>1, <2>1 DEF ScriptedRecover, TypeOK, Agents, Workers, turnVars, sampleVars,
                        toolVars, gateVars
  <1>2. CASE DotnetScriptedRecover
    <2>1. scripted' \in [attempted : BOOLEAN, result : ScriptedResult \cup {None}]
      BY <1>2 DEF DotnetScriptedRecover, TypeOK
    <2>2. deepAttempted' \in Artifacts \cup {None} /\ analysed' \in SUBSET Artifacts
      BY <1>2 DEF DotnetScriptedRecover, DotnetGateOpen, TypeOK
    <2> QED
      BY <1>2, <2>1, <2>2 DEF DotnetScriptedRecover, TypeOK, Agents, Workers, turnVars,
                              sampleVars, toolVars, gateVars
  <1>3. CASE RunPython
    BY <1>3, BoundAssumption DEF RunPython, TypeOK, turnVars, sampleVars, toolVars, gateVars
  <1>4. CASE WorkerReturns
    BY <1>4 DEF WorkerReturns, TypeOK, Agents, Workers, turnVars, sampleVars, toolVars,
                workVars, gateVars
  <1>5. CASE Retriage
    <2>1. retriage' \in Snapshot \cup {None}
      BY <1>5 DEF Retriage, TypeOK, Snapshot
    <2> QED
      BY <1>5, <2>1 DEF Retriage, TypeOK, Agents, turnVars, sampleVars, toolVars, workVars,
                        gateVars
  <1>6. ASSUME NEW b \in Artifacts, Register(b) PROVE TypeOK'
    <2>1. current \in Artifacts
      BY <1>6 DEF Register, TypeOK
    <2>2. plan' \in PlanType \cup {None}
      BY <1>6, MatchingPlan DEF Register, TypeOK, PlanType
    <2>3. provenance' \in Provenance
      BY <1>6, <2>1 DEF Register, Provenance
    <2>4. scripted' \in [attempted : BOOLEAN, result : ScriptedResult \cup {None}]
      BY <1>6, <2>1 DEF Register, TypeOK, ScriptedResult, Methods
    <2> QED
      BY <1>6, <2>2, <2>3, <2>4 DEF Register, TypeOK, turnVars, toolVars, gateVars
  <1> QED
    BY <1>1, <1>2, <1>3, <1>4, <1>5, <1>6

-----------------------------------------------------------------------------
(* What the gate reads and writes *)

LEMMA OutcomeTypes ==
    ASSUME TypeOK
    PROVE  UpxOutcome.code \in Codes /\ FlossOutcome.code \in Codes /\ De4dotOutcome.code \in Codes
  <1>1. UpxOutcome.code \in Codes
    BY DEF UpxOutcome, NotApplied, ResultInvalid, Outcome, TypeOK, ToolState, Result, Codes
  <1>2. FlossOutcome.code \in Codes
    BY DEF FlossOutcome, NotApplied, ResultInvalid, Outcome, TypeOK, ToolState, Result, Codes
  <1>3. De4dotOutcome.code \in Codes
    BY DEF De4dotOutcome, NotApplied, Outcome, TypeOK, ToolState, Result, Codes
  <1> QED
    BY <1>1, <1>2, <1>3

\* Appending keeps what is there and adds nothing that is not new.
LEMMA AppendedBounds ==
    ASSUME NEW fs, NEW new, NEW gs \in Appended(fs, new)
    PROVE  fs \subseteq gs /\ gs \subseteq fs \cup new
  BY DEF Appended

\* The findings of a round are those of earlier rounds and this round's.
LEMMA RoundFindingsBounds ==
    ASSUME NEW f \in RoundFindings
    PROVE  /\ Prior.findings \subseteq f
           /\ f \subseteq Prior.findings \cup FlossFindings \cup ScriptedFindings
                            \cup De4dotFindings
  <1>1. PICK g \in Appended(Prior.findings, FlossFindings) :
          \E h \in Appended(g, ScriptedFindings) : f \in Appended(h, De4dotFindings)
    BY DEF RoundFindings
  <1>2. PICK h \in Appended(g, ScriptedFindings) : f \in Appended(h, De4dotFindings)
    BY <1>1
  <1>3. Prior.findings \subseteq g /\ g \subseteq Prior.findings \cup FlossFindings
    BY AppendedBounds
  <1>4. g \subseteq h /\ h \subseteq g \cup ScriptedFindings
    BY AppendedBounds
  <1>5. h \subseteq f /\ f \subseteq h \cup De4dotFindings
    BY <1>2, AppendedBounds
  <1> QED
    BY <1>3, <1>4, <1>5

LEMMA GateEvidenceType ==
    ASSUME TypeOK, PlanMatches, NEW e \in GateEvidence
    PROVE  e \in Envelope
  <1>1. current \in Artifacts
    BY MatchingPlan
  <1>2. Prior \in Envelope
    BY <1>1 DEF Prior, EmptyEnvelope, Envelope, TypeOK
  <1>3. PICK f \in RoundFindings :
          e = [artifact |-> current, findings |-> f,
               surfaces |-> Prior.surfaces \cup RoundSurfaces,
               limitations |-> Prior.limitations \cup SummaryLimitations
                                 \cup RoundLimitations \cup GateLimitations]
    BY DEF GateEvidence
  <1>4. f \subseteq Finding
    <2>1. FlossFindings \subseteq Finding
      BY DEF FlossFindings, FlossOutcome, Outcome, NotApplied, ResultInvalid, TypeOK,
             ToolState, Result, Finding
    <2>2. ScriptedFindings \subseteq Finding
      BY DEF ScriptedFindings, ScriptedRecovered, When, TypeOK, Finding
    <2>3. De4dotFindings \subseteq Finding
      BY DEF De4dotFindings, When, Finding
    <2> QED
      BY <1>2, <2>1, <2>2, <2>3, RoundFindingsBounds DEF Envelope
  <1>5. RoundSurfaces \subseteq Surfaces
    BY DEF RoundSurfaces, When, Surfaces
  <1>6. RoundLimitations \subseteq Limitations
    BY OutcomeTypes DEF RoundLimitations, When, Limitations
  <1>7. GateLimitations \subseteq Limitations
    BY DEF GateLimitations, When, Limitations
  <1>8. SummaryLimitations \subseteq Limitations
    BY DEF SummaryLimitations, TypeOK, Summary
  <1> QED
    BY <1>1, <1>2, <1>3, <1>4, <1>5, <1>6, <1>7, <1>8 DEF Envelope

LEMMA SummaryType ==
    ASSUME TypeOK, PlanMatches, ExitReason # "continue", NEW e \in Envelope
    PROVE  [artifact |-> current, reason |-> ExitReason,
            limitations |-> SummaryLimitations \cup e.limitations] \in Summary
  <1>1. ExitReason \in Reasons
    BY DEF ExitReason, Reasons
  <1>2. SummaryLimitations \cup e.limitations \subseteq Limitations
    BY DEF SummaryLimitations, TypeOK, Summary, Envelope
  <1> QED
    BY <1>1, <1>2, MatchingPlan DEF Summary

LEMMA TypeGate == TypeOK /\ DeobfGate => TypeOK'
  <1> SUFFICES ASSUME TypeOK, DeobfGate PROVE TypeOK'
    OBVIOUS
  <1> USE BoundAssumption
  <1>1. CASE GateFailsClosed
    BY <1>1 DEF GateFailsClosed, GateFault, GateErrors, TypeOK, Agents, turnVars, sampleVars, toolVars,
                workVars
  <1>2. CASE GateDecides
    <2>1. PlanMatches
      BY <1>2, NoneAssumption DEF GateDecides, GateFault, GateErrors
    <2>2. current \in Artifacts /\ plan \in PlanType
      BY <2>1, MatchingPlan
    <2>3. evidence' \in Envelope
      BY <1>2, <2>1, GateEvidenceType DEF GateDecides
    <2>4. previous' \in Snapshots \cup {None}
      BY <1>2, <2>2 DEF GateDecides, SnapshotInvalid, Baseline, TypeOK, Snapshot, PlanType
    <2>5. /\ upx' \in ToolState /\ floss' \in ToolState /\ de4dot' \in ToolState
          /\ dnlib' \in ToolState
          /\ scripted' \in [attempted : BOOLEAN, result : ScriptedResult \cup {None}]
      BY <1>2 DEF GateDecides, ResetRound, NotCalled, NotAttempted, ToolState
    <2>6. CASE ExitReason = "continue"
      BY <1>2, <2>3, <2>4, <2>5, <2>6 DEF GateDecides, TypeOK, Agents, turnVars, sampleVars
    <2>7. CASE ExitReason # "continue"
      <3>1. summary' \in Summary
        BY <1>2, <2>1, <2>3, <2>7, SummaryType DEF GateDecides
      <3> QED
        BY <1>2, <2>3, <2>4, <2>5, <2>7, <3>1 DEF GateDecides, TypeOK, Agents, turnVars,
                                                 sampleVars
    <2> QED
      BY <2>6, <2>7
  <1> QED
    BY <1>1, <1>2 DEF DeobfGate

LEMMA TypeStep == TypeOK /\ [Next]_vars => TypeOK'
  <1>1. TypeOK /\ UNCHANGED vars => TypeOK'
    BY DEF TypeOK, vars, turnVars, sampleVars, toolVars, workVars, gateVars
  <1> QED
    BY <1>1, TypeIntake, TypeTurns, TypeUpx, TypeFloss, TypeDe4dot, TypeDnlib, TypeWorkers,
       TypeGate
    DEF Next

\* Every key of the session state is well typed and every counter within its
\* cap, after any sequence of turns and answers.
THEOREM TypeCorrect == Spec => []TypeOK
  BY TypeInit, TypeStep, PTL DEF Spec

-----------------------------------------------------------------------------
(* Recovery keeps the classification's authority *)

\* The session's plan, once it names the artifact, names every layer recovery puts
\* in its place: no tool and no worker can make the gate fail closed by succeeding.
LEMMA AuthorityStep ==
    TypeOK /\ [Next]_vars
      => [(pc \notin {"intake", "classify"} /\ PlanMatches) => PlanMatches']_vars
  <1> SUFFICES ASSUME TypeOK, Next, pc \notin {"intake", "classify"}, PlanMatches
               PROVE  PlanMatches'
    BY DEF vars
  <1> DEFINE Same == UNCHANGED <<current, plan>>
  <1>1. Same => PlanMatches'
    BY DEF PlanMatches
  <1>2. ASSUME NEW b \in Artifacts, current' = b, plan' = [plan EXCEPT !.artifact = b]
        PROVE  PlanMatches'
    <2>1. plan' \in PlanType /\ plan'.artifact = b
      BY <1>2, MatchingPlan DEF PlanType
    <2> QED
      BY <1>2, <2>1, NoneAssumption DEF PlanMatches
  <1>3. ASSUME NEW b \in Artifacts, NEW tool, Advance(tool, b) PROVE PlanMatches'
    BY <1>2, <1>3 DEF Advance
  <1>4. Yields[current] \subseteq Artifacts
    BY MatchingPlan, InputAssumption
  <1>5. CASE SkipRecovery \/ NewTurn
    BY <1>1, <1>5 DEF SkipRecovery, NewTurn, sampleVars
  <1>6. CASE UpxUnpack
    BY <1>1, <1>3, <1>4, <1>6
    DEF UpxUnpack, UpxNotRun, UpxRuns, UpxAnswers, UpxUnpacks, sampleVars
  <1>7. CASE FlossDecode
    BY <1>1, <1>7 DEF FlossDecode, FlossNotRun, FlossRuns, sampleVars
  <1>8. CASE De4dotDeobfuscate
    BY <1>1, <1>3, <1>4, <1>8
    DEF De4dotDeobfuscate, De4dotNotRun, De4dotRuns, De4dotAnswers, De4dotDeobfuscates,
        sampleVars
  <1>9. CASE DnlibRoundtrip
    BY <1>1, <1>3, <1>4, <1>9
    DEF DnlibRoundtrip, DnlibNotRun, DnlibRuns, DnlibAnswers, DnlibRecovers, sampleVars
  <1>10. CASE ScriptedRecover \/ DotnetScriptedRecover \/ RunPython \/ WorkerReturns \/ Retriage
    BY <1>1, <1>10
    DEF ScriptedRecover, DotnetScriptedRecover, RunPython, WorkerReturns, Retriage, sampleVars
  <1>11. ASSUME NEW b \in Artifacts, Register(b) PROVE PlanMatches'
    BY <1>2, <1>11 DEF Register
  <1>12. CASE DeobfGate
    BY <1>1, <1>12 DEF DeobfGate, GateFailsClosed, GateDecides, sampleVars
  <1>13. ~Intake /\ ~Classify
    BY DEF Intake, AcquireSample, AcquireFails, AcquireByHashFails, IntakeWithoutSample, Classify
  <1> QED
    BY <1>5, <1>6, <1>7, <1>8, <1>9, <1>10, <1>11, <1>12, <1>13 DEF Next

\* Every recovery step of every run hands the plan on with the artifact.
THEOREM AuthorityIsKept == Spec => AuthorityKept
  BY TypeCorrect, AuthorityStep, PTL DEF Spec, AuthorityKept

-----------------------------------------------------------------------------
(* The provenance line *)

LEMMA ProvenanceStep ==
    ProvenanceFollowsArtifact /\ [Next]_vars => ProvenanceFollowsArtifact'
  <1> SUFFICES ASSUME ProvenanceFollowsArtifact, [Next]_vars PROVE ProvenanceFollowsArtifact'
    OBVIOUS
  <1> DEFINE Same == UNCHANGED <<current, provenance>>
  <1>1. Same => ProvenanceFollowsArtifact'
    BY DEF ProvenanceFollowsArtifact
  <1>2. ASSUME NEW b, NEW tool, Advance(tool, b) PROVE ProvenanceFollowsArtifact'
    BY <1>2 DEF Advance, ProvenanceFollowsArtifact
  <1>3. CASE Intake
    BY <1>1, <1>3 DEF Intake, AcquireSample, AcquireFails, AcquireByHashFails,
                      IntakeWithoutSample, sampleVars, ProvenanceFollowsArtifact
  <1>4. CASE SkipRecovery \/ NewTurn \/ Classify
    BY <1>1, <1>4 DEF SkipRecovery, NewTurn, Classify, sampleVars
  <1>5. CASE UpxUnpack
    <2>1. UpxAnswers => ProvenanceFollowsArtifact'
      BY DEF UpxAnswers, FreshProvenance, ProvenanceFollowsArtifact
    <2> QED
      BY <1>1, <1>2, <1>5, <2>1 DEF UpxUnpack, UpxNotRun, UpxRuns, UpxUnpacks, sampleVars
  <1>6. CASE FlossDecode
    BY <1>1, <1>6 DEF FlossDecode, FlossNotRun, FlossRuns, sampleVars
  <1>7. CASE De4dotDeobfuscate
    BY <1>1, <1>2, <1>7
    DEF De4dotDeobfuscate, De4dotNotRun, De4dotRuns, De4dotAnswers, De4dotDeobfuscates,
        sampleVars
  <1>8. CASE DnlibRoundtrip
    BY <1>1, <1>2, <1>8
    DEF DnlibRoundtrip, DnlibNotRun, DnlibRuns, DnlibAnswers, DnlibRecovers, sampleVars
  <1>9. CASE ScriptedRecover \/ DotnetScriptedRecover \/ RunPython \/ WorkerReturns \/ Retriage
    BY <1>1, <1>9
    DEF ScriptedRecover, DotnetScriptedRecover, RunPython, WorkerReturns, Retriage, sampleVars
  <1>10. ASSUME NEW b \in Artifacts, Register(b) PROVE ProvenanceFollowsArtifact'
    BY <1>10 DEF Register, ProvenanceFollowsArtifact
  <1>11. CASE DeobfGate
    BY <1>1, <1>11 DEF DeobfGate, GateFailsClosed, GateDecides, sampleVars
  <1>12. CASE UNCHANGED vars
    BY <1>1, <1>12 DEF vars, sampleVars
  <1> QED
    BY <1>3, <1>4, <1>5, <1>6, <1>7, <1>8, <1>9, <1>10, <1>11, <1>12 DEF Next

\* Whoever replaces the artifact, in whatever round or turn, says where the new
\* one came from: the line never speaks of an artifact that is not in front of
\* the agents (upx.py, _discard_stale_provenance).
THEOREM ProvenanceFollows == Spec => []ProvenanceFollowsArtifact
  <1>1. Init => ProvenanceFollowsArtifact
    BY DEF Init, ProvenanceFollowsArtifact
  <1> QED
    BY <1>1, ProvenanceStep, PTL DEF Spec

-----------------------------------------------------------------------------
(* The loop ends with a summary *)

\* What makes LoopEndsWithSummary inductive: the gate has counted at least the
\* rounds the LoopAgent has, so its cap comes first; and only JVM packages, whose
\* evidence is always empty, go round the loop.
LoopInv ==
    /\ LoopEndsWithSummary
    /\ iteration >= rounds
    /\ pc = "skip" => format = "jvm"
    /\ format = "jvm" =>
         /\ pc \in {"intake", "skip", "done"}
         /\ evidence # None =>
              evidence.findings = {} /\ evidence.surfaces = {} /\ evidence.limitations = {}

LEMMA LoopInit == Init => LoopInv
  BY DEF Init, LoopInv, LoopEndsWithSummary

LEMMA LoopStep == TypeOK /\ LoopInv /\ [Next]_vars => LoopInv'
  <1> SUFFICES ASSUME TypeOK, LoopInv, [Next]_vars PROVE LoopInv'
    OBVIOUS
  <1> USE DEF LoopInv
  <1>1. CASE UNCHANGED vars
    BY <1>1 DEF vars, LoopEndsWithSummary, sampleVars, gateVars
  <1>2. ASSUME NEW a \in Artifacts, AcquireSample(a) PROVE LoopInv'
    BY <1>2 DEF AcquireSample, Route, LoopEndsWithSummary
  <1>3. CASE AcquireFails \/ AcquireByHashFails \/ IntakeWithoutSample
    BY <1>3
    DEF AcquireFails, AcquireByHashFails, IntakeWithoutSample, Route, LoopEndsWithSummary,
        TypeOK, sampleVars
  <1>4. CASE SkipRecovery
    BY <1>4 DEF SkipRecovery, LoopEndsWithSummary, EmptyEnvelope, sampleVars
  <1>5. CASE NewTurn
    BY <1>5 DEF NewTurn, LoopEndsWithSummary, sampleVars, gateVars
  <1>6. CASE Classify
    BY <1>6 DEF Classify, LoopEndsWithSummary, gateVars
  <1>7. CASE UpxUnpack
    BY <1>7 DEF UpxUnpack, UpxNotRun, UpxRuns, LoopEndsWithSummary, sampleVars, gateVars
  <1>8. CASE FlossDecode
    BY <1>8 DEF FlossDecode, FlossNotRun, FlossRuns, AfterFloss, LoopEndsWithSummary,
                sampleVars, gateVars
  <1>9. CASE De4dotDeobfuscate
    BY <1>9 DEF De4dotDeobfuscate, De4dotNotRun, De4dotRuns, LoopEndsWithSummary,
                sampleVars, gateVars
  <1>10. CASE DnlibRoundtrip
    BY <1>10 DEF DnlibRoundtrip, DnlibNotRun, DnlibRuns, LoopEndsWithSummary,
                 sampleVars, gateVars
  <1>11. CASE ScriptedRecover \/ DotnetScriptedRecover \/ RunPython \/ WorkerReturns \/ Retriage
    BY <1>11
    DEF ScriptedRecover, DotnetScriptedRecover, RunPython, WorkerReturns, Retriage, Workers,
        LoopEndsWithSummary, sampleVars, gateVars
  <1>12. ASSUME NEW b \in Artifacts, Register(b) PROVE LoopInv'
    BY <1>12 DEF Register, Workers, LoopEndsWithSummary, gateVars
  <1>13. CASE GateFailsClosed
    BY <1>13, NoneAssumption
    DEF GateFailsClosed, GateFault, GateErrors, LoopEndsWithSummary, sampleVars
  <1>14. CASE GateDecides
    <2>1. format # "jvm" /\ UNCHANGED <<format, current>> /\ iteration' = iteration + 1
      BY <1>14 DEF GateDecides, sampleVars
    <2>2. current \in Artifacts
      BY <1>14, NoneAssumption, MatchingPlan DEF GateDecides, GateFault, GateErrors
    <2>3. evidence' # None /\ evidence'.artifact = current
      <3>1. evidence' \in Envelope /\ evidence'.artifact = current
        BY <1>14, NoneAssumption, GateEvidenceType
        DEF GateDecides, GateFault, GateErrors, GateEvidence
      <3> QED
        BY <3>1, NoneAssumption
    <2>4. CASE ExitReason = "continue"
      <3>1. iteration + 1 < MaxIterations
        BY <2>4, BoundAssumption DEF ExitReason, TypeOK
      <3> QED
        BY <1>14, <2>1, <2>4, <3>1, BoundAssumption DEF GateDecides, LoopEndsWithSummary, TypeOK
    <2>5. CASE ExitReason # "continue"
      <3>1. summary' # None /\ summary'.artifact = current
        <4>1. summary' \in Summary
          BY <1>14, <2>5, NoneAssumption, SummaryType, GateEvidenceType
          DEF GateDecides, GateFault, GateErrors
        <4> QED
          BY <1>14, <2>5, <4>1, NoneAssumption DEF GateDecides
      <3> QED
        BY <1>14, <2>1, <2>3, <2>5, <3>1 DEF GateDecides, LoopEndsWithSummary, TypeOK
    <2> QED
      BY <2>4, <2>5
  <1> QED
    BY <1>1, <1>2, <1>3, <1>4, <1>5, <1>6, <1>7, <1>8, <1>9, <1>10, <1>11, <1>12, <1>13, <1>14
    DEF Next, Intake, DeobfGate

\* A loop that did not fail closed leaves a summary and an envelope of the artifact
\* the deep engines go on with.
THEOREM LoopEndsSummarised == Spec => []LoopEndsWithSummary
  <1>1. TypeOK /\ LoopInv /\ [Next]_vars => LoopInv'
    BY LoopStep
  <1>2. LoopInv => LoopEndsWithSummary
    BY DEF LoopInv
  <1> QED
    BY TypeCorrect, LoopInit, <1>1, <1>2, PTL DEF Spec

-----------------------------------------------------------------------------
(* Rounds start clean, and what a round recovers is evidence *)

AfterDe4dot == {"dnlib", "scripted_recover", "dotnet_scripted_recover", "retriage", "gate"}
AfterDnlib  == {"scripted_recover", "dotnet_scripted_recover", "retriage", "gate"} \cup Workers

\* What makes both inductive: until a gate fails, a scripted or de4dot result lives
\* from the step that recovers the layer to the round's gate, and nothing advances
\* the artifact past it without replacing it.
RoundInv ==
    /\ pc \in {"de4dot", "dnlib"} => format = "dotnet"
    /\ pc = "packer_analyst" => format # "dotnet"
    /\ gateError = None =>
         /\ pc \in {"intake", "skip", "classify", "done"} =>
              /\ upx = NotCalled /\ floss = NotCalled /\ de4dot = NotCalled
              /\ scripted = NotAttempted
         /\ scripted.result # None =>
              pc \in AfterDnlib /\ scripted.result.artifact = current
         /\ Succeeded(de4dot) =>
              /\ pc \in AfterDe4dot /\ format = "dotnet"
              /\ de4dot.result.recovered = current

LEMMA AnswerKinds ==
    ASSUME NEW a, NEW code
    PROVE  NotApplicable(a).kind = "na" /\ Degraded(code, a).kind = "degraded"
  BY DEF NotApplicable, Degraded

LEMMA RoundInit == Init => RoundInv
  BY DEF Init, RoundInv, NotCalled, NotAttempted, Succeeded

LEMMA RoundStep == TypeOK /\ RoundInv /\ [Next]_vars => RoundInv'
  <1> SUFFICES ASSUME TypeOK, RoundInv, [Next]_vars PROVE RoundInv'
    OBVIOUS
  <1> USE DEF RoundInv, AfterDe4dot, AfterDnlib, Workers, Succeeded
  <1>1. CASE UNCHANGED vars
    BY <1>1 DEF vars, sampleVars, toolVars, workVars, gateVars
  <1>2. ASSUME NEW a \in Artifacts, AcquireSample(a) PROVE RoundInv'
    BY <1>2 DEF AcquireSample, Route, NotCalled, NotAttempted
  <1>3. CASE AcquireFails \/ AcquireByHashFails \/ IntakeWithoutSample
    BY <1>3 DEF AcquireFails, AcquireByHashFails, IntakeWithoutSample, Route, NotCalled,
                NotAttempted, sampleVars, toolVars, workVars
  <1>4. CASE SkipRecovery \/ NewTurn
    BY <1>4 DEF SkipRecovery, NewTurn, NotCalled, NotAttempted, sampleVars, toolVars,
                workVars, gateVars
  <1>5. CASE Classify
    BY <1>5 DEF Classify, NotCalled, NotAttempted, toolVars, workVars, gateVars
  <1>6. CASE UpxUnpack
    BY <1>6 DEF UpxUnpack, UpxNotRun, UpxRuns, sampleVars, toolVars, workVars, gateVars
  <1>7. CASE FlossDecode
    BY <1>7 DEF FlossDecode, FlossNotRun, FlossRuns, AfterFloss, sampleVars, toolVars,
                workVars, gateVars
  <1>8. CASE De4dotNotRun
    BY <1>8 DEF De4dotNotRun, sampleVars, toolVars, workVars, gateVars
  <1>9. CASE De4dotRuns
    <2>1. scripted.result = None \/ gateError # None
      BY <1>9 DEF De4dotRuns
    <2>2. ASSUME De4dotAnswers PROVE de4dot'.result.kind # "success"
      <3>1. PICK r \in {NotApplicable(current), Degraded("tool_failed", current),
                        Degraded("invalid_classification", None)} : de4dot' = Called(r)
        <4>1. CASE PlanMatches
          BY <2>2, <4>1 DEF De4dotAnswers
        <4>2. CASE ~PlanMatches
          BY <2>2, <4>2 DEF De4dotAnswers
        <4> QED
          BY <4>1, <4>2
      <3>2. r.kind # "success"
        BY <3>1, AnswerKinds
      <3> QED
        BY <3>1, <3>2 DEF Called
    <2>3. ASSUME NEW b, De4dotDeobfuscates(b)
          PROVE  de4dot'.result.recovered = current'
      BY <2>3 DEF De4dotDeobfuscates, Advance, Called, Recovered
    <2> QED
      BY <1>9, <2>1, <2>2, <2>3 DEF De4dotRuns, workVars, gateVars
  <1>10. CASE DnlibNotRun
    BY <1>10 DEF DnlibNotRun, sampleVars, toolVars, workVars, gateVars
  <1>11. CASE DnlibRuns
    <2>1. CASE DnlibAnswers
      BY <1>11, <2>1 DEF DnlibRuns, DnlibAnswers, gateVars
    <2>2. ASSUME NEW b, DnlibRecovers(b) PROVE RoundInv'
      <3>1. scripted'.result.artifact = current' /\ ~Succeeded(de4dot)
        BY <2>2 DEF DnlibRecovers, Advance, TypeOK
      <3> QED
        BY <1>11, <2>2, <3>1 DEF DnlibRuns, DnlibRecovers, gateVars
    <2> QED
      BY <1>11, <2>1, <2>2 DEF DnlibRuns
  <1>12. CASE ScriptedRecover
    <2>1. scripted'.result = scripted.result
      BY <1>12 DEF ScriptedRecover, TypeOK
    <2> QED
      BY <1>12, <2>1 DEF ScriptedRecover, ScriptedGateOpen, sampleVars, toolVars, gateVars
  <1>13. CASE DotnetScriptedRecover
    <2>1. scripted'.result = scripted.result
      BY <1>13 DEF DotnetScriptedRecover, TypeOK
    <2> QED
      BY <1>13, <2>1 DEF DotnetScriptedRecover, DotnetGateOpen, sampleVars, toolVars, gateVars
  <1>14. CASE RunPython \/ WorkerReturns \/ Retriage
    BY <1>14 DEF RunPython, WorkerReturns, Retriage, sampleVars, toolVars, workVars, gateVars
  <1>15. ASSUME NEW b \in Artifacts, Register(b) PROVE RoundInv'
    <2>1. scripted'.result.artifact = current'
      BY <1>15 DEF Register, TypeOK
    <2> QED
      BY <1>15, <2>1 DEF Register, toolVars, gateVars
  <1>16. CASE GateFailsClosed
    BY <1>16, NoneAssumption
    DEF GateFailsClosed, GateFault, GateErrors, sampleVars, toolVars, workVars
  <1>17. CASE GateDecides
    BY <1>17 DEF GateDecides, ResetRound, NotCalled, NotAttempted, sampleVars
  <1> QED
    BY <1>1, <1>2, <1>3, <1>4, <1>5, <1>6, <1>7, <1>8, <1>9, <1>10, <1>11, <1>12, <1>13,
       <1>14, <1>15, <1>16, <1>17
    DEF Next, Intake, De4dotDeobfuscate, DnlibRoundtrip, DeobfGate

LEMMA RoundInvariant == Spec => []RoundInv
  BY TypeCorrect, RoundInit, RoundStep, PTL DEF Spec

\* Until a gate fails, no round, of any turn or sample, starts with a result of an
\* earlier one.
THEOREM RoundsStartClean == Spec => []RoundStartsClean
  <1>1. RoundInv => RoundStartsClean
    BY DEF RoundInv, RoundStartsClean
  <1> QED
    BY RoundInvariant, <1>1, PTL

\* Either everything new was appended or the envelope is full.
LEMMA AppendedOrFull ==
    ASSUME NEW fs, NEW new, NEW gs \in Appended(fs, new)
    PROVE  new \subseteq gs \/ Cardinality(gs) = MaxFindings
  <1>1. PICK k \in SUBSET (new \ fs) :
          /\ gs = fs \cup k
          /\ \/ k = new \ fs
             \/ Cardinality(fs \cup k) = MaxFindings
    BY DEF Appended
  <1> QED
    BY <1>1

LEMMA FindingFinite == IsFiniteSet(Finding)
  <1>1. IsFiniteSet({"floss_decode"} \X Strings)
    BY InputAssumption, FS_Product, FS_Singleton
  <1>2. IsFiniteSet(ScriptedResult)
    <2> DEFINE Triples == Artifacts \X (Artifacts \X Methods)
               parts == [r \in ScriptedResult |-> <<r.source, <<r.artifact, r.method>>>>]
    <2>1. Methods = {"dnlib_metadata_roundtrip"} \cup {"script"}
      BY DEF Methods
    <2>2. IsFiniteSet(Methods)
      BY <2>1, FS_Singleton, FS_Union
    <2>3. IsFiniteSet(Artifacts \X Methods)
      BY <2>2, InputAssumption, FS_Product
    <2>4. IsFiniteSet(Triples)
      BY <2>3, InputAssumption, FS_Product
    <2>5. parts \in [ScriptedResult -> Triples]
      BY DEF ScriptedResult
    <2>6. ASSUME NEW r \in ScriptedResult, NEW q \in ScriptedResult, parts[r] = parts[q]
          PROVE  r = q
      <3>1. r.source = q.source /\ r.artifact = q.artifact /\ r.method = q.method
        BY <2>6
      <3> QED
        BY <3>1 DEF ScriptedResult
    <2>7. parts \in Injection(ScriptedResult, Triples)
      BY <2>5, <2>6 DEF Injection, IsInjective
    <2> HIDE DEF Triples, parts
    <2> QED
      BY <2>4, <2>7, FS_Injection
  <1>3. IsFiniteSet({"scripted_recover"} \X ScriptedResult)
    BY <1>2, FS_Product, FS_Singleton
  <1>4. IsFiniteSet({<<"de4dot", "net">>})
    BY FS_Singleton
  <1>5. IsFiniteSet(({"floss_decode"} \X Strings) \cup ({"scripted_recover"} \X ScriptedResult))
    BY <1>1, <1>3, FS_Union
  <1> QED
    BY <1>4, <1>5, FS_Union DEF Finding

\* The gate's appends in order: what each adds is still there at the end, or the
\* envelope was full by then and is.
LEMMA RoundFindingsOrFull ==
    ASSUME NEW f \in RoundFindings, f \subseteq Finding
    PROVE  \/ Cardinality(f) >= MaxFindings
           \/ FlossFindings \cup ScriptedFindings \cup De4dotFindings \subseteq f
  <1>1. PICK g \in Appended(Prior.findings, FlossFindings) :
          \E h \in Appended(g, ScriptedFindings) : f \in Appended(h, De4dotFindings)
    BY DEF RoundFindings
  <1>2. PICK h \in Appended(g, ScriptedFindings) : f \in Appended(h, De4dotFindings)
    BY <1>1
  <1>3. g \subseteq h /\ h \subseteq f
    BY <1>2, AppendedBounds
  <1>4. IsFiniteSet(f)
    BY FindingFinite, FS_Subset
  <1>5. ASSUME NEW x \in {g, h, f}, Cardinality(x) = MaxFindings
        PROVE  Cardinality(f) >= MaxFindings
    <2>1. x \subseteq f
      BY <1>3
    <2>2. IsFiniteSet(x) /\ Cardinality(x) <= Cardinality(f)
      BY <1>4, <2>1, FS_Subset
    <2>3. Cardinality(f) \in Nat /\ Cardinality(x) \in Nat
      BY <1>4, <2>2, FS_CardinalityType
    <2> QED
      BY <1>5, <2>2, <2>3
  <1>6. /\ FlossFindings \subseteq g \/ Cardinality(g) = MaxFindings
        /\ ScriptedFindings \subseteq h \/ Cardinality(h) = MaxFindings
        /\ De4dotFindings \subseteq f \/ Cardinality(f) = MaxFindings
    BY <1>2, AppendedOrFull
  <1> QED
    BY <1>3, <1>5, <1>6

\* A gate that decides knows its plan, and so its artifact.
LEMMA GateKnowsArtifact ==
    ASSUME TypeOK, GateDecides
    PROVE  PlanMatches /\ current \in Artifacts /\ plan \in PlanType
  <1>1. PlanMatches
    BY NoneAssumption DEF GateDecides, GateFault, GateErrors
  <1> QED
    BY <1>1, MatchingPlan

\* The gate's turn, with no error before or after it, is a gate that decides.
LEMMA GateErrorIsTold ==
    ASSUME TypeOK, Next, pc = "gate", gateError' = None
    PROVE  GateDecides
  <1>1. DeobfGate
    BY DEF Next, Intake, AcquireSample, AcquireFails, AcquireByHashFails, IntakeWithoutSample,
           SkipRecovery, NewTurn, Classify, UpxUnpack, UpxNotRun, UpxRuns, FlossDecode,
           FlossNotRun, FlossRuns, De4dotDeobfuscate, De4dotNotRun, De4dotRuns,
           DnlibRoundtrip, DnlibNotRun, DnlibRuns, ScriptedRecover, DotnetScriptedRecover,
           RunPython, Register, WorkerReturns, Retriage, Workers
  <1> QED
    BY <1>1, NoneAssumption DEF DeobfGate, GateFailsClosed, GateFault, GateErrors

LEMMA LayerStep ==
    TypeOK /\ RoundInv /\ [Next]_vars
      => [(pc = "gate" /\ gateError = None /\ gateError' = None) =>
            \/ Cardinality(evidence'.findings) >= MaxFindings
            \/ /\ scripted.result # None =>
                    <<"scripted_recover", scripted.result>> \in evidence'.findings
               /\ Succeeded(de4dot) => <<"de4dot", "net">> \in evidence'.findings]_vars
  <1> SUFFICES ASSUME TypeOK, RoundInv, Next, pc = "gate", gateError = None, gateError' = None
               PROVE  \/ Cardinality(evidence'.findings) >= MaxFindings
                      \/ /\ scripted.result # None =>
                              <<"scripted_recover", scripted.result>> \in evidence'.findings
                         /\ Succeeded(de4dot) => <<"de4dot", "net">> \in evidence'.findings
    BY DEF vars
  <1>1. GateDecides
    BY GateErrorIsTold
  <1>2. PICK f \in RoundFindings : evidence'.findings = f
    BY <1>1 DEF GateDecides, GateEvidence
  <1>3. f \subseteq Finding
    BY <1>1, <1>2, GateKnowsArtifact, GateEvidenceType DEF GateDecides, Envelope
  <1>4. scripted.result # None =>
          ScriptedFindings = {<<"scripted_recover", scripted.result>>}
    BY DEF RoundInv, ScriptedFindings, ScriptedRecovered, When
  <1>5. Succeeded(de4dot) => De4dotFindings = {<<"de4dot", "net">>}
    BY DEF RoundInv, Succeeded, De4dotFindings, De4dotOutcome, Outcome, When
  <1> QED
    BY <1>2, <1>3, <1>4, <1>5, RoundFindingsOrFull

\* A layer recovered in a round is in the evidence its gate writes, unless the
\* envelope is full.
THEOREM LayersAreEvidence == Spec => RecoveredLayerIsEvidence
  BY TypeCorrect, RoundInvariant, LayerStep, PTL DEF Spec, RecoveredLayerIsEvidence

-----------------------------------------------------------------------------
(* Evidence only grows *)

LEMMA EvidenceStep ==
    TypeOK /\ LoopInv /\ [Next]_vars
      => [(pc # "intake" /\ evidence # None) =>
            /\ evidence' # None
            /\ evidence.findings \subseteq evidence'.findings
            /\ evidence.surfaces \subseteq evidence'.surfaces
            /\ evidence.limitations \subseteq evidence'.limitations]_vars
  <1> DEFINE Kept == /\ evidence' # None
                     /\ evidence.findings \subseteq evidence'.findings
                     /\ evidence.surfaces \subseteq evidence'.surfaces
                     /\ evidence.limitations \subseteq evidence'.limitations
  <1> SUFFICES ASSUME TypeOK, LoopInv, Next, pc # "intake", evidence # None PROVE Kept
    BY DEF vars
  <1>1. CASE UNCHANGED evidence
    BY <1>1
  <1>2. CASE SkipRecovery
    <2>1. CASE current = None
      BY <1>2, <2>1 DEF SkipRecovery
    <2>2. CASE current # None
      <3>1. EmptyEnvelope(current) \in Envelope
        BY <2>2 DEF TypeOK, EmptyEnvelope, Envelope
      <3>2. evidence.findings = {} /\ evidence.surfaces = {} /\ evidence.limitations = {}
        BY <1>2 DEF SkipRecovery, LoopInv
      <3>3. evidence' # None
        BY <1>2, <2>2, <3>1, NoneAssumption DEF SkipRecovery
      <3> QED
        BY <3>2, <3>3
    <2> QED
      BY <2>1, <2>2
  <1>3. CASE GateDecides
    <2>1. evidence' \in Envelope /\ evidence' \in GateEvidence
      BY <1>3, GateKnowsArtifact, GateEvidenceType DEF GateDecides
    <2>2. PICK f \in RoundFindings :
            evidence' = [artifact |-> current, findings |-> f,
                         surfaces |-> Prior.surfaces \cup RoundSurfaces,
                         limitations |-> Prior.limitations \cup SummaryLimitations
                                           \cup RoundLimitations \cup GateLimitations]
      BY <2>1 DEF GateEvidence
    <2>3. Prior = evidence
      BY DEF Prior
    <2>4. evidence.findings \subseteq f
      BY <2>3, RoundFindingsBounds
    <2> QED
      BY <2>1, <2>2, <2>3, <2>4, NoneAssumption
  <1>4. UNCHANGED evidence \/ SkipRecovery \/ GateDecides
    BY DEF Next, Intake, AcquireSample, AcquireFails, AcquireByHashFails, IntakeWithoutSample,
           NewTurn, Classify, UpxUnpack, UpxNotRun, UpxRuns, FlossDecode, FlossNotRun,
           FlossRuns, De4dotDeobfuscate, De4dotNotRun, De4dotRuns, DnlibRoundtrip,
           DnlibNotRun, DnlibRuns, ScriptedRecover, DotnetScriptedRecover, RunPython,
           Register, WorkerReturns, Retriage, DeobfGate, GateFailsClosed, gateVars
  <1> QED
    BY <1>1, <1>2, <1>3, <1>4

\* No round, layer, turn or failed gate takes back what the loop has told of a sample.
THEOREM EvidenceGrows == Spec => EvidenceOnlyGrows
  <1>1. Spec => []LoopInv
    BY TypeCorrect, LoopInit, LoopStep, PTL DEF Spec
  <1> QED
    BY TypeCorrect, <1>1, EvidenceStep, PTL DEF Spec, EvidenceOnlyGrows

-----------------------------------------------------------------------------
(* What FLOSS decoded is accounted for *)

\* The gate either takes FLOSS's records or says that it could not use them.
LEMMA FlossStep ==
    TypeOK /\ [Next]_vars
      => [(pc = "gate" /\ gateError = None /\ gateError' = None /\ Succeeded(floss)) =>
            \/ Cardinality(evidence'.findings) >= MaxFindings
            \/ \A s \in floss.result.records : <<"floss_decode", s>> \in evidence'.findings
            \/ <<"floss", "result_invalid">> \in evidence'.limitations]_vars
  <1> SUFFICES ASSUME TypeOK, Next, pc = "gate", gateError = None, gateError' = None,
                      Succeeded(floss)
               PROVE  \/ Cardinality(evidence'.findings) >= MaxFindings
                      \/ \A s \in floss.result.records :
                           <<"floss_decode", s>> \in evidence'.findings
                      \/ <<"floss", "result_invalid">> \in evidence'.limitations
    BY DEF vars
  <1>1. GateDecides
    BY GateErrorIsTold
  <1>2. PICK f \in RoundFindings :
          /\ evidence'.findings = f
          /\ RoundLimitations \subseteq evidence'.limitations
    BY <1>1 DEF GateDecides, GateEvidence
  <1>3. f \subseteq Finding
    BY <1>1, <1>2, GateKnowsArtifact, GateEvidenceType DEF GateDecides, Envelope
  <1>4. CASE floss.result.source # current
    <2>1. FlossOutcome = ResultInvalid
      BY <1>4 DEF FlossOutcome, Succeeded
    <2>2. <<"floss", "result_invalid">> \in RoundLimitations
      BY <2>1 DEF RoundLimitations, ResultInvalid, When
    <2> QED
      BY <1>2, <2>2
  <1>5. CASE floss.result.source = current
    <2>1. FlossOutcome.kind = "success"
      BY <1>5 DEF FlossOutcome, Outcome, Succeeded
    <2>2. FlossFindings = {<<"floss_decode", s>> : s \in floss.result.records}
      BY <2>1 DEF FlossFindings
    <2> QED
      BY <1>2, <1>3, <2>2, RoundFindingsOrFull
  <1> QED
    BY <1>4, <1>5

\* No string that FLOSS decoded in a round is dropped in silence: it is in the
\* evidence, or the evidence says the result was not usable, or it is full.
THEOREM DecodedIsAccounted == Spec => DecodedStringsAccounted
  BY TypeCorrect, FlossStep, PTL DEF Spec, DecodedStringsAccounted

-----------------------------------------------------------------------------
(* The .NET analyst and the layers *)

\* A layer the analyst has run on carries the mark as long as it is current.
MarkedWhenAnalysed == \A a \in analysed : a = current /\ deepAttempted = a

LEMMA MarkedStep ==
    ASSUME TypeOK, MarkedWhenAnalysed, [Next]_vars
    PROVE  MarkedWhenAnalysed'
  <1>1. CASE UNCHANGED vars
    BY <1>1 DEF vars, sampleVars, workVars, MarkedWhenAnalysed
  <1>2. CASE Intake
    BY <1>2 DEF Intake, AcquireSample, AcquireFails, AcquireByHashFails,
                IntakeWithoutSample, sampleVars, workVars, MarkedWhenAnalysed
  <1>3. CASE DotnetScriptedRecover
    BY <1>3 DEF DotnetScriptedRecover, DotnetGateOpen, MarkedWhenAnalysed
  <1>4. CASE UpxRuns
    BY <1>4 DEF UpxRuns, UpxAnswers, UpxUnpacks, Advance, workVars, MarkedWhenAnalysed
  <1>5. CASE De4dotRuns
    BY <1>5 DEF De4dotRuns, De4dotAnswers, De4dotDeobfuscates, Advance, workVars,
                MarkedWhenAnalysed
  <1>6. CASE DnlibRuns
    BY <1>6 DEF DnlibRuns, DnlibAnswers, DnlibRecovers, Advance, MarkedWhenAnalysed
  <1>7. CASE \E b \in Artifacts : Register(b)
    BY <1>7 DEF Register, MarkedWhenAnalysed
  <1>8. CASE \/ SkipRecovery \/ NewTurn \/ Classify \/ UpxNotRun \/ FlossDecode
             \/ De4dotNotRun \/ DnlibNotRun \/ ScriptedRecover \/ RunPython
             \/ WorkerReturns \/ Retriage \/ DeobfGate
    <2>1. UNCHANGED <<current, analysed, deepAttempted>>
      BY <1>8 DEF SkipRecovery, NewTurn, Classify, UpxNotRun, FlossDecode, FlossNotRun,
                  FlossRuns, De4dotNotRun, DnlibNotRun, ScriptedRecover, RunPython,
                  WorkerReturns, Retriage, DeobfGate, GateFailsClosed, GateDecides,
                  sampleVars, workVars
    <2> QED
      BY <2>1 DEF MarkedWhenAnalysed
  <1> QED
    BY <1>1, <1>2, <1>3, <1>4, <1>5, <1>6, <1>7, <1>8
       DEF Next, UpxUnpack, De4dotDeobfuscate, DnlibRoundtrip

LEMMA DeepStep ==
    TypeOK /\ MarkedWhenAnalysed /\ [Next]_vars
        => [(pc # "dotnet_analyst" /\ pc' = "dotnet_analyst") => current \notin analysed]_vars
  <1> SUFFICES ASSUME TypeOK, MarkedWhenAnalysed, Next, pc # "dotnet_analyst",
                      pc' = "dotnet_analyst"
               PROVE  current \notin analysed
    BY DEF vars
  <1>1. DotnetScriptedRecover
    BY DEF Next, Intake, AcquireSample, AcquireFails, AcquireByHashFails, IntakeWithoutSample,
           Route, SkipRecovery, NewTurn, Classify, UpxUnpack, UpxNotRun, UpxRuns, FlossDecode,
           FlossNotRun, FlossRuns, AfterFloss, De4dotDeobfuscate, De4dotNotRun, De4dotRuns,
           DnlibRoundtrip, DnlibNotRun, DnlibRuns, ScriptedRecover, RunPython, Register,
           WorkerReturns, Retriage, DeobfGate, GateFailsClosed, GateDecides, Workers
  <1>2. deepAttempted # current
    BY <1>1 DEF DotnetScriptedRecover, DotnetGateOpen
  <1> QED
    BY <1>2 DEF MarkedWhenAnalysed

\* dotnet_scripted_recover.py: in whatever order tools and workers replace the
\* artifact, the one mark is enough for one pass on a layer until it is replaced.
THEOREM DeepRunsOncePerLayer == Spec => DeepOncePerLayer
  <1>1. Init => MarkedWhenAnalysed
    BY DEF Init, MarkedWhenAnalysed
  <1>2. TypeOK /\ MarkedWhenAnalysed /\ [Next]_vars => MarkedWhenAnalysed'
    BY MarkedStep
  <1> QED
    BY TypeCorrect, <1>1, <1>2, DeepStep, PTL DEF Spec, DeepOncePerLayer

=============================================================================
