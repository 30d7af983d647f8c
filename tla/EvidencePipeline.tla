--------------------------- MODULE EvidencePipeline ---------------------------
(***************************************************************************)
(* The malware pipeline's evidence: what each stage leaves at its key for   *)
(* the next ones, and what the critic makes of it.                          *)
(*                                                                         *)
(*   intake -> triage -> recovery -> deep engine (by format)                *)
(*     -> host and network lenses -> behavior -> attack -> critic -> report *)
(*                                                                         *)
(* The deep engine is the Ghidra loop with its coverage gate (native), the  *)
(* decompiler and its native pivot (managed), or jadx and the native        *)
(* libraries (JVM).  Every model-written stage goes through the output      *)
(* guard of evidence_output.py: strict parse, salvage, failed envelope.     *)
(*                                                                         *)
(* Recovery is the loop of module DeobfLoop, here as what it may leave      *)
(* behind.  The session survives its user turns.  What a model answers is a *)
(* choice among Answers; a finding is about the sample its stage was        *)
(* looking at when it was told, whatever artifact it is later anchored to.  *)
(***************************************************************************)
EXTENDS Naturals, Sequences, FiniteSets, SequencesExt

CONSTANTS
    Artifacts,          \* content ids
    Samples,            \* the artifacts a user brings
    SampleOf,           \* the sample a recovered layer belongs to
    Layers,             \* Layers[a]: a and what recovery may make of it
    Route,              \* the engine each sample's format selects
    Kinds,              \* what a finding may claim
    Surfaces,           \* the Ghidra tools; all of them can carry network indicators
    Answers,            \* Answers[s]: what the model of stage s may answer
    Judgments,          \* what the critic model may answer
    Prose,              \* an answer that is no envelope
    Silent,             \* no answer: the key keeps what it held
    Empty,              \* an identity that an acquire dropped: ""
    Foreign,            \* a content id of nothing in this session
    None,               \* an unset key
    MaxFindings,        \* MAX_FINDINGS
    MaxLimits,          \* MAX_LIMITATIONS
    MaxDeepIterations,  \* MAX_DEEP_ITERATIONS and the LoopAgent's max_iterations
    MaxTurns            \* bound of the model: user turns of the session

\* CRITIC_STAGE_KEYS, in order.
StageKeys == <<"triage", "recovery", "deep", "native", "host", "network", "behavior", "attack">>
Stages    == ToSet(StageKeys)
Engines   == {"native", "dotnet", "jvm"}
Statuses  == {"complete", "partial", "failed"}

\* "own" stands for whatever limitation a model writes itself.
Limits == {"own", "findings_dropped", "evidence_rebound", "envelope_invalid",
           "analysis_incomplete", "not_determined"}

\* The semantic and the targeted tools, and the preparation before them.
Required == {"prepared", "search", "target"}

\* "none": the strict model accepts it; "shape": it does not, every finding
\* still validates; "findings": some finding does not.
Flaws == {"none", "shape", "findings"}

AnswerType ==
    [anchor : {"current", "other", "none"}, flaw : Flaws, status : Statuses,
     kinds : Seq(Kinds), limits : Seq({"own"}), net : BOOLEAN]

Markers      == Stages \X (1 .. MaxFindings)
\* What the strict model of a judgment accepts.
JudgmentType ==
    {j \in [rejected : SUBSET Markers, qualified : SUBSET Markers] :
       Cardinality(j.rejected) <= MaxFindings /\ Cardinality(j.qualified) <= MaxFindings}

ASSUME SampleAssumption ==
    /\ Samples \subseteq Artifacts
    /\ SampleOf \in [Artifacts -> Samples] /\ \A a \in Samples : SampleOf[a] = a
    /\ Layers \in [Artifacts -> SUBSET Artifacts]
    /\ \A a \in Artifacts : a \in Layers[a] /\ \A b \in Layers[a] : SampleOf[b] = SampleOf[a]
    /\ Route \in [Samples -> Engines]
    /\ {"search", "target"} \subseteq Surfaces /\ "prepared" \notin Surfaces

ASSUME AnswerAssumption ==
    /\ \A s \in Stages : Answers[s] \subseteq AnswerType \cup {Prose, Silent}
    /\ \A s \in Stages : \A t \in Answers[s] \ {Prose, Silent} :
          (t.anchor = "none" => t.flaw # "none")
    \* The gate, not a model, builds the envelope of the recovery.
    /\ Answers["recovery"] \subseteq {t \in AnswerType : t.flaw = "none"}
    /\ Judgments \subseteq JudgmentType \cup {Prose, Silent}

ASSUME LimitAssumption ==
    /\ MaxFindings \in Nat \ {0} /\ MaxLimits \in Nat \ {0}
    /\ MaxDeepIterations \in Nat \ {0} /\ MaxTurns \in Nat \ {0}

VARIABLES
    pc,         \* the agent whose turn it is
    turn,       \* user turns begun
    format,     \* sample:format, as the engine it selects; None when unset
    artifact,   \* deobf:current_artifact_id
    evidence,   \* the stages' output keys
    summary,    \* recovery_summary_json: None, "clean" or "limited"
    best,       \* temp:evidence_accum:deep_evidence_json, of one invocation
    coverage,   \* deep:coverage
    iteration,  \* deep:iteration
    passes,     \* the LoopAgent's own count of completed passes
    lenses,     \* the parallel lenses still running
    validated,  \* validated_evidence_json
    loaded,     \* _GHIDRA_CASE_STATE: the artifact Ghidra was loaded with
    held,       \* whether the pod it was loaded on is still the case's
    receipts,   \* history: the surfaces of each artifact that answered
    told,       \* history: usable deep findings of this invocation
    nativeRan   \* history: samples a native worker ran for

sampleVars == <<format, artifact>>
deepVars   == <<best, coverage, iteration, passes>>
ghidraVars == <<loaded, held>>
history    == <<receipts, told, nativeRan>>
vars == <<pc, turn, sampleVars, evidence, summary, deepVars, lenses, validated, ghidraVars,
          history>>

-----------------------------------------------------------------------------
(* Envelopes *)

Finding  == [sample : Samples \cup {None}, kind : Kinds]
Envelope == [artifact : Artifacts \cup {Foreign, None}, status : Statuses,
             findings : Seq(Finding), limits : Seq(Limits), net : BOOLEAN, flaw : Flaws]

\* The unset key, the raw text and the ids of nothing are told from the rest.
ASSUME ValueAssumption ==
    /\ {None, Empty, Foreign} \cap Artifacts = {} /\ None # Prose
    /\ None \notin Samples /\ {None, Prose} \cap Envelope = {}

IsEnvelope(e) == e \notin {None, Prose}
Prefix(s, n)  == SubSeq(s, 1, IF Len(s) <= n THEN Len(s) ELSE n)

AppendNew(s, x) == IF x \in ToSet(s) THEN s ELSE Append(s, x)
\* s and what t adds to it, in order and without repetition.
Extended(s, t)  == FoldLeft(AppendNew, s, t)

\* The strict model: no flaw, an id, and the bounds of every field.
Valid(e) ==
    /\ IsEnvelope(e)
    /\ e.flaw = "none" /\ e.artifact # None
    /\ Len(e.findings) <= MaxFindings /\ Len(e.limits) <= MaxLimits

\* The authority of the session: a canonical id that the envelope names.
Parses(e, a) == a \in Artifacts /\ Valid(e) /\ e.artifact = a

\* Mutant of Salvaged: the survivors keep what the strict model rejected.
SalvagedAsIs(e, a) == [e EXCEPT !.artifact = a]

\* Findings that still validate are kept, anchored to the current artifact;
\* what was lost or moved is recorded, as far as the limitations have room.
Salvaged(e, a) ==
    LET lost  == e.flaw = "findings" \/ Len(e.findings) > MaxFindings
        codes == (IF lost THEN <<"findings_dropped">> ELSE <<>>)
                   \o (IF e.artifact \notin {a, None} THEN <<"evidence_rebound">> ELSE <<>>)
    IN [artifact |-> a,
        status   |-> IF lost /\ e.status = "complete" THEN "partial" ELSE e.status,
        findings |-> Prefix(e.findings, MaxFindings),
        limits   |-> Prefix(Extended(Prefix(e.limits, MaxLimits), codes), MaxLimits),
        net      |-> e.net, flaw |-> "none"]

FailedEnvelope(a) ==
    [artifact |-> a, status |-> "failed", findings |-> <<>>, limits |-> <<"envelope_invalid">>,
     net |-> FALSE, flaw |-> "none"]

EmptyEnvelope(a) ==
    [artifact |-> a, status |-> "complete", findings |-> <<>>, limits |-> <<>>,
     net |-> FALSE, flaw |-> "none"]

\* Whether the guard finds any evidence in what a stage answered.
Usable(e) == Parses(e, artifact) \/ (IsEnvelope(e) /\ e.findings # <<>>)

\* The output guard: without an artifact to anchor to it leaves the key alone.
Normalized(e) ==
    IF artifact \notin Artifacts THEN e
    ELSE IF Parses(e, artifact) THEN e
    ELSE IF Usable(e) THEN Salvaged(e, artifact)
    ELSE FailedEnvelope(artifact)

Merged(prior, new) ==
    [new EXCEPT !.findings = Prefix(Extended(prior.findings, new.findings), MaxFindings),
                !.limits   = Prefix(Extended(<<>>, prior.limits \o new.limits), MaxLimits),
                !.net      = prior.net \/ new.net]

\* Mutant of Accumulated: the last pass wins.
AccumulatedLast(e) == Normalized(e)

\* The running best of the looped deep worker.
Accumulated(e) ==
    LET prior == IF Parses(best, artifact) THEN best ELSE None
    IN IF Usable(e)
       THEN IF prior = None THEN Normalized(e) ELSE Merged(prior, Normalized(e))
       ELSE IF prior = None THEN Normalized(e) ELSE prior

-----------------------------------------------------------------------------
(* Answers *)

Subject == IF artifact \in Artifacts THEN SampleOf[artifact] ELSE None

Said(t) ==
    [artifact |-> CASE t.anchor = "none" -> None
                    [] t.anchor = "current" /\ artifact \in Artifacts -> artifact
                    [] OTHER -> Foreign,
     status   |-> t.status,
     findings |-> [i \in DOMAIN t.kinds |-> [sample |-> Subject, kind |-> t.kinds[i]]],
     limits   |-> t.limits, net |-> t.net, flaw |-> t.flaw]

\* What is at the key when the guard reads it.
Written(s, t) ==
    CASE t = Silent -> evidence[s]
      [] t = Prose  -> Prose
      [] OTHER      -> Said(t)

StageAnswers(s) ==
    \E t \in Answers[s] : evidence' = [evidence EXCEPT ![s] = Normalized(Written(s, t))]

-----------------------------------------------------------------------------
Init ==
    /\ pc = "intake" /\ turn = 1
    /\ format = None /\ artifact = None
    /\ evidence = [s \in Stages |-> None] /\ summary = None
    /\ best = None /\ coverage = None /\ iteration = 0 /\ passes = 0
    /\ lenses = {} /\ validated = None
    /\ loaded = None /\ held = FALSE
    /\ receipts = {} /\ told = {} /\ nativeRan = {}

-----------------------------------------------------------------------------
(* Intake: a new sample clears the recovery and the deep keys, and no other *)

AcquireSample(a) ==
    /\ pc = "intake" /\ pc' = "triage"
    /\ artifact' = a /\ format' = Route[a]
    /\ evidence' = [evidence EXCEPT !["recovery"] = None, !["deep"] = None]
    /\ summary' = None /\ coverage' = None /\ iteration' = 0
    /\ UNCHANGED <<turn, best, passes, lenses, validated, ghidraVars, history>>

\* The identity is dropped before the store can raise; the resets come after.
AcquireFails ==
    /\ pc = "intake" /\ pc' = "triage"
    /\ artifact' = Empty /\ format' = None
    /\ UNCHANGED <<turn, evidence, summary, deepVars, lenses, validated, ghidraVars, history>>

\* A turn without a sample, or with a hash nobody has.
IntakeWithoutSample ==
    /\ pc = "intake" /\ pc' = "triage"
    /\ UNCHANGED <<turn, sampleVars, evidence, summary, deepVars, lenses, validated, ghidraVars,
                   history>>

Intake == (\E a \in Samples : AcquireSample(a)) \/ AcquireFails \/ IntakeWithoutSample

Triage ==
    /\ pc = "triage" /\ pc' = "recovery"
    /\ StageAnswers("triage")
    /\ UNCHANGED <<turn, sampleVars, summary, deepVars, lenses, validated, ghidraVars, history>>

-----------------------------------------------------------------------------
(* Recovery, and the route to the engine *)

EngineOf ==
    CASE format = "dotnet" -> "decompile"
      [] format = "jvm"    -> "java"
      [] OTHER             -> "deep"

\* The gate's envelope for layer b: what earlier rounds and turns left, moved
\* to b, and what this loop found; its status follows from the limitations.
RecoveryEnvelope(b, t) ==
    LET prior  == IF Valid(evidence["recovery"]) THEN evidence["recovery"] ELSE EmptyEnvelope(b)
        all    == Merged(prior, [Said(t) EXCEPT !.artifact = b])
        usable == all.findings # <<>> \/ all.net
    IN [all EXCEPT !.status = IF all.limits = <<>> THEN "complete"
                              ELSE IF usable THEN "partial" ELSE "failed"]

RecoveryEnds ==
    /\ pc = "recovery" /\ format # "jvm" /\ artifact \in Artifacts
    /\ \E b \in Layers[artifact], t \in Answers["recovery"] :
          LET e == RecoveryEnvelope(b, t)
          IN /\ artifact' = b
             /\ evidence' = [evidence EXCEPT !["recovery"] = e]
             /\ summary' = IF e.limits # <<>> \/ summary = "limited" THEN "limited" ELSE "clean"
    /\ pc' = EngineOf
    /\ UNCHANGED <<turn, format, deepVars, lenses, validated, ghidraVars, history>>

\* The gate failed closed: evidence and summary are those of an earlier round.
RecoveryFails ==
    /\ pc = "recovery" /\ format # "jvm"
    /\ IF artifact \in Artifacts
       THEN \E c \in Layers[artifact] : \E b \in Layers[c] :
              /\ artifact' = b
              /\ \/ UNCHANGED evidence
                 \/ \E t \in Answers["recovery"] :
                      evidence' = [evidence EXCEPT !["recovery"] = RecoveryEnvelope(c, t)]
       ELSE UNCHANGED <<artifact, evidence>>
    /\ pc' = EngineOf
    /\ UNCHANGED <<turn, format, summary, deepVars, lenses, validated, ghidraVars, history>>

RecoverySkip ==
    /\ pc = "recovery" /\ format = "jvm" /\ pc' = EngineOf
    /\ evidence' = [evidence EXCEPT !["recovery"] =
                      IF artifact \in Artifacts THEN EmptyEnvelope(artifact) ELSE @]
    /\ UNCHANGED <<turn, sampleVars, summary, deepVars, lenses, validated, ghidraVars, history>>

Recovery == RecoveryEnds \/ RecoveryFails \/ RecoverySkip

-----------------------------------------------------------------------------
(* Ghidra: one loaded project per case, and receipts bound to an artifact *)

\* Mutant of ReadCoverage: whatever artifact it was recorded for.
ReadAnyCoverage(a) == coverage

\* read_deep_coverage refuses the record of another artifact.
ReadCoverage(a) == IF coverage # None /\ coverage.artifact = a THEN coverage ELSE None

Recorded(a, done) ==
    LET read == ReadCoverage(a)
    IN [artifact |-> a, done |-> done \cup (IF read = None THEN {} ELSE read.done)]

GhidraUser == pc \in {"deep", "native"}

\* The session's artifact overrides the argument.  A project loaded for it
\* counts as prepared, whatever became of its pod.
PrepareGhidra ==
    /\ GhidraUser /\ artifact \in Artifacts
    /\ coverage' = Recorded(artifact, {"prepared"})
    /\ loaded' = artifact
    /\ IF loaded = artifact THEN UNCHANGED held ELSE held' = TRUE
    /\ UNCHANGED <<pc, turn, sampleVars, evidence, summary, best, iteration, passes, lenses,
                   validated, history>>

\* A load that fails leaves the entry of the artifact before; the pod survives
\* a failed load and not a failed attempt.
PrepareGhidraFails ==
    /\ GhidraUser /\ artifact \in Artifacts /\ loaded # artifact
    /\ held' \in BOOLEAN
    /\ UNCHANGED <<pc, turn, sampleVars, evidence, summary, deepVars, lenses, validated, loaded,
                   history>>

\* A tool asks the loaded project.  A usable answer is recorded if the project
\* is of the current artifact and preparation was recorded for it.
GhidraAnswers(s) ==
    /\ GhidraUser /\ loaded # None /\ held
    /\ receipts' = receipts \cup {<<loaded, s>>}
    /\ coverage' = IF loaded = artifact /\ ReadCoverage(loaded) # None
                   THEN Recorded(loaded, {s}) ELSE coverage
    /\ UNCHANGED <<pc, turn, sampleVars, evidence, summary, best, iteration, passes, lenses,
                   validated, ghidraVars, told, nativeRan>>

Ghidra == PrepareGhidra \/ PrepareGhidraFails \/ \E s \in Surfaces : GhidraAnswers(s)

-----------------------------------------------------------------------------
(* The deep loop of a native sample *)

DeepWorker ==
    /\ pc = "deep" /\ pc' = "deep_gate"
    /\ \E t \in Answers["deep"] :
          LET raw == Written("deep", t)
              new == IF artifact \in Artifacts THEN Accumulated(raw) ELSE raw
              use == artifact \in Artifacts /\ Usable(raw)
          IN /\ evidence' = [evidence EXCEPT !["deep"] = new]
             /\ best' = IF use THEN new ELSE best
             /\ told' = IF use THEN told \cup ToSet(Normalized(raw).findings) ELSE told
    /\ UNCHANGED <<turn, sampleVars, summary, coverage, iteration, passes, lenses, validated,
                   ghidraVars, receipts, nativeRan>>

Covered   == ReadCoverage(artifact) # None /\ Required \subseteq ReadCoverage(artifact).done

\* Mutant of Exhausted: one pass too late.
ExhaustedLate == iteration >= MaxDeepIterations

Exhausted == iteration + 1 >= MaxDeepIterations

GateLimits(e) ==
    IF Covered THEN e.limits ELSE AppendNew(e.limits, "analysis_incomplete")

GateStatus(e) ==
    CASE Covered             -> "complete"
      [] ~Covered /\ e.findings # <<>> -> "partial"
      [] OTHER               -> "failed"

\* The coverage surfaces replace the ones the model claimed.
GateEnvelope(e) ==
    [e EXCEPT !.status = GateStatus(e), !.limits = GateLimits(e),
              !.net = ReadCoverage(artifact) # None
                        /\ ReadCoverage(artifact).done \cap Surfaces # {}]

DeepEvidence ==
    IF Parses(evidence["deep"], artifact) THEN evidence["deep"] ELSE FailedEnvelope(artifact)

GateWithoutArtifact ==
    /\ pc = "deep_gate" /\ artifact = None /\ pc' = "lenses"
    /\ lenses' = {"host", "network"}
    /\ UNCHANGED <<turn, sampleVars, evidence, summary, deepVars, validated, ghidraVars, history>>

GateContinues ==
    /\ pc = "deep_gate" /\ artifact # None /\ ~Covered /\ ~Exhausted
    /\ iteration' = iteration + 1 /\ passes' = passes + 1
    /\ IF passes + 1 < MaxDeepIterations
       THEN pc' = "deep" /\ UNCHANGED lenses
       ELSE pc' = "lenses" /\ lenses' = {"host", "network"}
    /\ UNCHANGED <<turn, sampleVars, evidence, summary, best, coverage, validated, ghidraVars,
                   history>>

GateDecides ==
    /\ pc = "deep_gate" /\ artifact \in Artifacts /\ (Covered \/ Exhausted)
    /\ Len(GateLimits(DeepEvidence)) <= MaxLimits
    /\ evidence' = [evidence EXCEPT !["deep"] = GateEnvelope(DeepEvidence)]
    /\ iteration' = iteration + 1
    /\ pc' = "lenses" /\ lenses' = {"host", "network"}
    /\ UNCHANGED <<turn, sampleVars, summary, best, coverage, passes, validated, ghidraVars,
                   history>>

\* The two ways the gate's last pass cannot build its envelope: no identity to
\* anchor a failed one to, and no room for the limitation it has to add.  The
\* exception ends the turn, before any of its state is written.
GateRaises ==
    /\ pc = "deep_gate" /\ artifact # None /\ (Covered \/ Exhausted)
    /\ \/ artifact = Empty
       \/ Len(GateLimits(DeepEvidence)) > MaxLimits
    /\ pc' = "raised"
    /\ UNCHANGED <<turn, sampleVars, evidence, summary, deepVars, lenses, validated, ghidraVars,
                   history>>

DeepGate == GateWithoutArtifact \/ GateContinues \/ GateDecides \/ GateRaises

-----------------------------------------------------------------------------
(* The engines of managed and JVM samples *)

Decompile ==
    /\ pc \in {"decompile", "java"}
    /\ pc' = IF pc = "decompile" THEN "pivot" ELSE "native"
    /\ StageAnswers("deep")
    /\ UNCHANGED <<turn, sampleVars, summary, deepVars, lenses, validated, ghidraVars, history>>

ManagedEvidenceIsEmpty ==
    \/ ~Parses(evidence["deep"], artifact)
    \/ evidence["deep"].findings = <<>>

\* Ghidra looks at a managed sample only when the managed leg found nothing.
NativePivot ==
    /\ pc = "pivot"
    /\ IF ManagedEvidenceIsEmpty
       THEN pc' = "native" /\ UNCHANGED lenses
       ELSE pc' = "lenses" /\ lenses' = {"host", "network"}
    /\ UNCHANGED <<turn, sampleVars, evidence, summary, deepVars, validated, ghidraVars, history>>

NativeWorker ==
    /\ pc = "native" /\ pc' = "lenses" /\ lenses' = {"host", "network"}
    /\ StageAnswers("native")
    /\ nativeRan' = nativeRan \cup {Subject}
    /\ UNCHANGED <<turn, sampleVars, summary, deepVars, validated, ghidraVars, receipts, told>>

-----------------------------------------------------------------------------
(* The lenses *)

\* The recovery and deep envelopes that stand for the current artifact.
Upstream == {e \in {evidence["recovery"], evidence["deep"]} : Parses(e, artifact)}

CompletedSurface(e) == \E x \in {e} \cup Upstream : x.status = "complete" /\ x.net

\* Mutant of NetworkEnforced: a surface that was only begun counts.
NetworkEnforcedWhenObserved(e) ==
    IF ~Parses(e, artifact) \/ (\E f \in ToSet(e.findings) : f.kind = "network")
         \/ (\E x \in {e} \cup Upstream : x.net)
    THEN e
    ELSE [e EXCEPT !.status = "partial", !.limits = Prefix(Append(@, "not_determined"), MaxLimits)]

\* No network finding means "none found" only after a completed surface that
\* could have shown one.
NetworkEnforced(e) ==
    IF ~Parses(e, artifact) \/ (\E f \in ToSet(e.findings) : f.kind = "network")
         \/ CompletedSurface(e)
    THEN e
    ELSE [e EXCEPT !.status = "partial",
                   !.net    = \E x \in Upstream : x.net,
                   !.limits = Prefix(SetToSeq(ToSet(e.limits) \cup {"not_determined"}
                                                \cup UNION {ToSet(x.limits) : x \in Upstream}),
                                     MaxLimits)]

Lens(s) ==
    /\ pc = "lenses" /\ s \in lenses
    /\ \E t \in Answers[s] :
          LET new == Normalized(Written(s, t))
          IN evidence' = [evidence EXCEPT ![s] = IF s = "network" THEN NetworkEnforced(new)
                                                                  ELSE new]
    /\ lenses' = lenses \ {s}
    /\ pc' = IF lenses = {s} THEN "behavior" ELSE "lenses"
    /\ UNCHANGED <<turn, sampleVars, summary, deepVars, validated, ghidraVars, history>>

Characterise(s, next) ==
    /\ pc = s /\ pc' = next
    /\ StageAnswers(s)
    /\ UNCHANGED <<turn, sampleVars, summary, deepVars, lenses, validated, ghidraVars, history>>

-----------------------------------------------------------------------------
(* The critic *)

\* The answer is read from the key the validated envelope is written to, so a
\* silent critic is judged by the previous one: without qualified findings
\* that envelope passes for a judgment of the same artifact.
Judgment(j) ==
    LET nothing == [rejected |-> {}, qualified |-> {}]
    IN IF j = Prose THEN nothing
       ELSE IF j # Silent THEN j
       ELSE IF validated \in {None, Prose} THEN nothing
       ELSE IF validated.artifact = artifact /\ validated.qualified = {}
            THEN [nothing EXCEPT !.rejected = validated.rejected]
            ELSE nothing

Present   == {s \in Stages : evidence[s] # None}
\* Parsed under the id it names itself, then moved to the current artifact.
Readable  == {s \in Present : Valid(evidence[s])}

\* The findings the critic reads, by stage and index, in order.
MarkersOf(s) ==
    IF s \in Readable THEN [i \in DOMAIN evidence[s].findings |-> <<s, i>>] ELSE <<>>

Concatenated(ss) == FoldLeft(LAMBDA acc, s : acc \o s, <<>>, ss)

AllMarkers == Concatenated([k \in DOMAIN StageKeys |-> MarkersOf(StageKeys[k])])

\* Those of the sequence ms that are chosen, in its order.
Picked(ms, chosen) ==
    FoldLeft(LAMBDA acc, m : IF m \in chosen THEN Append(acc, m) ELSE acc, <<>>, ms)

AllFindings(chosen) ==
    LET ms == Picked(AllMarkers, chosen)
    IN [k \in DOMAIN ms |-> evidence[ms[k][1]].findings[ms[k][2]]]

Accepted(j) ==
    ToSet(Prefix(Extended(<<>>, AllFindings(Markers \ (j.rejected \cup j.qualified))),
                 MaxFindings))
Qualified(j) == ToSet(Prefix(AllFindings(j.qualified \ j.rejected), MaxFindings))

UpstreamLimits ==
    (UNION {ToSet(evidence[s].limits) : s \in Readable})
      \cup (IF Present = Readable THEN {} ELSE {"envelope_invalid"})
      \cup (IF summary = "limited" THEN {"own"} ELSE {})

UpstreamFailed == Present # Readable \/ \E s \in Readable : evidence[s].status # "complete"

CriticStatus(found) ==
    CASE ~UpstreamFailed /\ UpstreamLimits = {}  -> "complete"
      [] (UpstreamFailed \/ UpstreamLimits # {}) /\ found # {} -> "partial"
      [] OTHER -> "failed"

EvidenceCritic ==
    /\ pc = "critic" /\ pc' = "report"
    /\ \E j \in Judgments :
          IF artifact \in Artifacts
          THEN LET verdict == Judgment(j)
               IN validated' =
                    [artifact  |-> artifact,
                     status    |-> CriticStatus(Accepted(verdict) \cup Qualified(verdict)),
                     limits    |-> ToSet(Prefix(SetToSeq(UpstreamLimits), MaxLimits)),
                     accepted  |-> Accepted(verdict), qualified |-> Qualified(verdict),
                     rejected  |-> verdict.rejected]
          ELSE validated' = IF j = Silent THEN validated ELSE Prose
    /\ UNCHANGED <<turn, sampleVars, evidence, summary, deepVars, lenses, ghidraVars, history>>

\* The report, and the release of the case's pods at the pipeline's end.
Report ==
    /\ pc = "report" /\ pc' = "done"
    /\ held' = FALSE
    /\ UNCHANGED <<turn, sampleVars, evidence, summary, deepVars, lenses, validated, loaded,
                   history>>

\* The next message on the session; temp keys do not outlive the invocation.
NewTurn ==
    /\ pc \in {"done", "raised"} /\ turn < MaxTurns
    /\ turn' = turn + 1 /\ pc' = "intake"
    /\ best' = None /\ passes' = 0 /\ told' = {}
    /\ UNCHANGED <<sampleVars, evidence, summary, coverage, iteration, lenses, validated,
                   ghidraVars, receipts, nativeRan>>

-----------------------------------------------------------------------------
Next ==
    \/ Intake \/ Triage \/ Recovery
    \/ Ghidra \/ DeepWorker \/ DeepGate
    \/ Decompile \/ NativePivot \/ NativeWorker
    \/ Lens("host") \/ Lens("network")
    \/ Characterise("behavior", "attack") \/ Characterise("attack", "critic")
    \/ EvidenceCritic \/ Report \/ NewTurn

Spec == Init /\ [][Next]_vars

-----------------------------------------------------------------------------
(* Properties *)

Agents == {"intake", "triage", "recovery", "deep", "deep_gate", "decompile", "java", "pivot",
           "native", "lenses", "behavior", "attack", "critic", "report", "done", "raised"}

Validated == [artifact : Artifacts, status : Statuses, limits : SUBSET Limits,
              accepted : SUBSET Finding, qualified : SUBSET Finding, rejected : SUBSET Markers]

\* Every key holds what its readers can meet, what the guards wrote is within
\* the strict bounds, and a pass in progress is one the LoopAgent still allows.
TypeOK ==
    /\ pc \in Agents /\ turn \in 1 .. MaxTurns
    /\ format \in Engines \cup {None} /\ artifact \in Artifacts \cup {Empty, None}
    /\ evidence \in [Stages -> Envelope \cup {Prose, None}]
    /\ summary \in {None, "clean", "limited"}
    /\ best \in Envelope \cup {None} /\ (best # None => Valid(best))
    /\ coverage \in [artifact : Artifacts, done : SUBSET (Surfaces \cup {"prepared"})] \cup {None}
    /\ iteration \in Nat
    /\ passes \in 0 .. MaxDeepIterations
    /\ (pc \in {"deep", "deep_gate"} => passes < MaxDeepIterations)
    /\ lenses \subseteq {"host", "network"}
    /\ validated \in Validated \cup {None, Prose}
    /\ loaded \in Artifacts \cup {None} /\ held \in BOOLEAN
    /\ receipts \in SUBSET (Artifacts \X Surfaces)
    /\ told \in SUBSET Finding /\ nativeRan \in SUBSET (Samples \cup {None})

Judged == pc \in {"report", "done"} /\ artifact \in Artifacts

\* A report that calls a native sample's analysis complete stands on a search
\* and a decompilation that Ghidra answered for this very artifact, in this
\* turn or before: not on another layer's, another sample's or a dead load's.
CompleteIsEarned ==
    Judged /\ EngineOf = "deep" /\ validated.status = "complete"
      => {<<artifact, "search">>, <<artifact, "target">>} \subseteq receipts

\* What the deep worker has told in any pass of this invocation is accepted,
\* qualified or named by a rejection, whatever its later passes answered,
\* unless an envelope is full.
ToldIsKept ==
    Judged =>
      \A f \in told :
        \/ f \in validated.accepted \cup validated.qualified
        \/ \E m \in validated.rejected :
              /\ m[1] = "deep" /\ m[2] \in DOMAIN evidence["deep"].findings
              /\ evidence["deep"].findings[m[2]] = f
        \/ Len(evidence["deep"].findings) = MaxFindings
        \/ Cardinality(validated.accepted) = MaxFindings

\* A report without a network finding, whose coverage does not say that the
\* network was not determined, follows a completed surface that would have
\* shown one, unless the critic rejected a finding or the limitations are full.
AbsenceDetermined ==
    Judged /\ (\A f \in validated.accepted \cup validated.qualified : f.kind # "network")
           /\ validated.rejected = {} /\ "not_determined" \notin validated.limits
           /\ Cardinality(validated.limits) < MaxLimits
           /\ Cardinality(validated.accepted) < MaxFindings
      => \/ CompletedSurface(evidence["network"])
         \/ Len(evidence["network"].limits) = MaxLimits

\* However the deep loop ends, by coverage, by its bound or after earlier turns
\* used the bound up, the lenses find an envelope of the artifact whose status
\* is the gate's and not the one the model claimed.
DeepStatusIsTheGates ==
    pc = "lenses" /\ EngineOf = "deep" /\ artifact \in Artifacts
      => /\ Parses(evidence["deep"], artifact)
         /\ IF Covered THEN evidence["deep"].status = "complete"
            ELSE evidence["deep"].status # "complete"
                   /\ "analysis_incomplete" \in ToSet(evidence["deep"].limits)

\* evidence_output.py on a stage that has no envelope: it "never produced
\* evidence for this sample's format", "native/.NET samples never reach it".
NativeIsOfThisSample ==
    Judged /\ SampleOf[artifact] \notin nativeRan
      => \A f \in validated.accepted \cup validated.qualified : f.sample = SampleOf[artifact]

\* deep_analysis_gate.py: "failing closed on bad state".
GateNeverRaises == pc # "raised"
=============================================================================
