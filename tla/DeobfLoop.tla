------------------------------- MODULE DeobfLoop -------------------------------
(***************************************************************************)
(* The deobfuscation stage of the reverse-engineering pipeline, over the   *)
(* session state its agents share: sample intake, the format router, and   *)
(* the bounded loop                                                         *)
(*                                                                         *)
(*   deobf_classify -> upx -> floss -> (de4dot -> dnlib, .NET only)         *)
(*     -> scripted_recover -> dotnet_scripted_recover -> retriage -> gate   *)
(*                                                                         *)
(* Agents run one after the other, so pc names the agent whose turn it is.  *)
(* What a model or an external tool answers is a nondeterministic choice;   *)
(* every write to session state is the code's.  A session has several user  *)
(* turns: state survives from one to the next, and a turn may bring a new   *)
(* sample, fail to, or bring none.                                          *)
(*                                                                         *)
(* The keys that repeat part of a tool's result (UPX_CHANGED, UPX_DEGRADED, *)
(* FLOSS_COUNT, FLOSS_DEGRADED) are written in the step that writes the     *)
(* result and always agree with it; they are read from the result here.     *)
(***************************************************************************)
EXTENDS Naturals, FiniteSets

CONSTANTS
    Artifacts,      \* content ids (SHA-256) of samples and recovered layers
    Strings,        \* FLOSS records
    Metrics,        \* the fields of a retriage snapshot
    None,           \* an unset key: None, "" or absent
    FormatOf,       \* container format of each artifact, read once at intake
    Yields,         \* Yields[a]: what a recovery tool can make of a
    Decoded,        \* Decoded[a]: the records FLOSS decodes from a
    Plans,          \* the classifications the model may write
    Snapshots,      \* the snapshots the retriage model may write
    MaxIterations,  \* DEOBF_MAX_ITERATIONS
    MaxExecutions,  \* WORKBENCH_MAX_EXECUTIONS
    MaxSeen,        \* MAX_SEEN_FINGERPRINTS
    MaxFindings,    \* MAX_FINDINGS
    MaxTurns        \* bound of the model: user turns of the session

Formats    == {"native", "dotnet", "jvm"}
ObfClasses == {"none", "upx", "packed-other", "vm", "unknown"}

GateErrors == {"invalid_state", "recovery_not_called"}

PlanType ==
    [artifact : Artifacts, upx : BOOLEAN, floss : BOOLEAN, pcode : BOOLEAN,
     obf : ObfClasses, snap : Snapshots]

ASSUME InputAssumption ==
    /\ FormatOf \in [Artifacts -> Formats]
    /\ Yields \in [Artifacts -> SUBSET Artifacts]
    /\ \A a \in Artifacts : a \notin Yields[a]
    /\ Decoded \in [Artifacts -> SUBSET Strings]
    /\ Snapshots \subseteq [Metrics -> Nat]
    /\ Plans \subseteq PlanType
    /\ IsFiniteSet(Artifacts) /\ IsFiniteSet(Strings)

ASSUME BoundAssumption ==
    /\ MaxIterations \in Nat \ {0} /\ MaxTurns \in Nat \ {0}
    /\ MaxExecutions \in Nat /\ MaxSeen \in Nat /\ MaxFindings \in Nat

VARIABLES
    pc,             \* the agent whose turn it is
    turn,           \* user turns begun
    acquired,       \* history: how this turn's intake ended
    format,         \* sample:format
    current,        \* deobf:current_artifact_id
    plan,           \* deobf:classification, None when missing or malformed
    provenance,     \* deobf_upx_provenance
    analysed,       \* history: {current} once the .NET analyst has run on it, else {}
    upx, floss, de4dot, dnlib,   \* *_called and *_result of each tool
    seen,           \* deobf:floss_seen_fingerprints
    scripted,       \* deobf:scripted_attempted and deobf:scripted_result
    deepAttempted,  \* deobf:dotnet_deep_attempted
    execs,          \* workbench:exec_count
    retriage,       \* deobf:retriage_snapshot, None when missing or malformed
    previous,       \* deobf:previous_snapshot
    iteration,      \* deobf:iteration
    rounds,         \* the LoopAgent's own count of completed rounds
    evidence,       \* recovery_evidence_json
    summary,        \* recovery_summary_json
    gateError       \* deobf:gate_error

turnVars   == <<turn, acquired>>
sampleVars == <<format, current, plan, provenance, analysed>>
toolVars   == <<upx, floss, de4dot, dnlib, seen>>
workVars   == <<scripted, deepAttempted, execs>>
gateVars   == <<previous, iteration, rounds, evidence, summary, gateError>>
vars == <<pc, turnVars, sampleVars, toolVars, workVars, retriage, gateVars>>

-----------------------------------------------------------------------------
(* Results and evidence *)

Codes == {"", "invalid_classification", "tool_failed", "seen_state_overflow",
          "result_invalid"}

\* Every tool answers a success, a non-applicable or a degraded result; the
\* tools' own failure codes are one code here, "tool_failed".
Result ==
    [kind : {"success", "na", "degraded"}, code : Codes,
     source : Artifacts \cup {None}, recovered : Artifacts \cup {None},
     records : SUBSET Strings, new : Nat]

NotApplicable(a) ==
    [kind |-> "na", code |-> "", source |-> a, recovered |-> None,
     records |-> {}, new |-> 0]

Degraded(code, a) ==
    [kind |-> "degraded", code |-> code, source |-> a, recovered |-> None,
     records |-> {}, new |-> 0]

Recovered(a, b) ==
    [kind |-> "success", code |-> "", source |-> a, recovered |-> b,
     records |-> {}, new |-> 0]

DecodedFrom(a, fresh) ==
    [kind |-> "success", code |-> "", source |-> a, recovered |-> None,
     records |-> Decoded[a], new |-> Cardinality(fresh)]

NotCalled == [called |-> FALSE, result |-> None]
Called(r) == [called |-> TRUE, result |-> r]
Succeeded(tool) == tool.result # None /\ tool.result.kind = "success"

Methods == {"dnlib_metadata_roundtrip", "script"}
ScriptedResult == [source : Artifacts, artifact : Artifacts, method : Methods]
NotAttempted == [attempted |-> FALSE, result |-> None]

Provenance == [tool : {"upx_unpack", "de4dot_deobfuscate", "scripted_recover"},
               source : Artifacts, destination : Artifacts]

\* A finding is known by its tool and its detail (the FLOSS record; method and
\* entropies of a recovered layer; the obfuscator's name); re-anchoring an
\* envelope renames the artifact of all its findings, so they carry none here.
Finding == ({"floss_decode"} \X Strings)
             \cup ({"scripted_recover"} \X ScriptedResult) \cup {<<"de4dot", "net">>}
Surfaces == {"floss_decode", "scripted_recover", "de4dot"}
Limitations == ({"upx", "floss", "de4dot"} \X Codes)
                 \cup ({"deobfuscation"} \X {"retriage_snapshot_invalid", "iteration_cap"})
                 \cup {<<"recovery", "scripted_unavailable">>}

Envelope == [artifact : Artifacts, findings : SUBSET Finding,
             surfaces : SUBSET Surfaces, limitations : SUBSET Limitations]
EmptyEnvelope(a) ==
    [artifact |-> a, findings |-> {}, surfaces |-> {}, limitations |-> {}]

Reasons == {"complete", "pcode_handoff", "degraded", "retriage_snapshot_invalid",
            "no_progress", "iteration_cap"}
Summary == [artifact : Artifacts, reason : Reasons, limitations : SUBSET Limitations]
Snapshot == [artifact : Artifacts, snap : Snapshots]

\* None is no value a key may be set to.
ASSUME NoneAssumption ==
    /\ None \notin Artifacts /\ None \notin PlanType /\ None \notin Provenance
    /\ None \notin Result /\ None \notin ScriptedResult
    /\ None \notin Snapshots /\ None \notin Snapshot
    /\ None \notin Envelope /\ None \notin Summary /\ None \notin GateErrors

\* parse_current_classification succeeds: the plan is well formed and names
\* the artifact the session holds.
PlanMatches == plan # None /\ current # None /\ plan.artifact = current

\* Mutant of Advance: the provenance line is left as it was.
AdvanceSilently(tool, b) ==
    /\ current' = b
    /\ plan' = [plan EXCEPT !.artifact = b]
    /\ analysed' = {}
    /\ UNCHANGED provenance

\* A recovered layer becomes the artifact under analysis: the canonical id, the
\* provenance line and the classification move together.
Advance(tool, b) ==
    /\ current' = b
    /\ provenance' = [tool |-> tool, source |-> current, destination |-> b]
    /\ plan' = [plan EXCEPT !.artifact = b]
    /\ analysed' = {}

Init ==
    /\ pc = "intake" /\ turn = 1 /\ acquired = "none"
    /\ format = "unset" /\ current = None /\ plan = None /\ provenance = None
    /\ analysed = {}
    /\ upx = NotCalled /\ floss = NotCalled /\ de4dot = NotCalled /\ dnlib = NotCalled
    /\ seen = {}
    /\ scripted = NotAttempted /\ deepAttempted = None /\ execs = 0
    /\ retriage = None /\ previous = None /\ iteration = 0 /\ rounds = 0
    /\ evidence = None /\ summary = None /\ gateError = None

-----------------------------------------------------------------------------
(* Sample intake: one of its two tools ingests a sample, or the turn has none *)

\* The format router sends JVM packages round the loop.
Route(f) == pc' = IF f = "jvm" THEN "skip" ELSE "classify"

\* acquire_sample: everything reset_deobfuscation_state clears.
AcquireSample(a) ==
    /\ pc = "intake"
    /\ acquired' = "ok"
    /\ format' = FormatOf[a] /\ current' = a /\ plan' = None /\ provenance' = None
    /\ analysed' = {}
    /\ upx' = NotCalled /\ floss' = NotCalled /\ de4dot' = NotCalled /\ seen' = {}
    /\ scripted' = NotAttempted
    /\ retriage' = None /\ previous' = None /\ iteration' = 0 /\ rounds' = 0
    /\ evidence' = None /\ summary' = None /\ gateError' = None
    /\ Route(FormatOf[a])
    /\ UNCHANGED <<turn, dnlib, deepAttempted, execs>>

\* acquire_sample on a missing file: the sample's identity goes first, then the
\* store raises, before anything is reset.
AcquireFails ==
    /\ pc = "intake"
    /\ acquired' = "failed" /\ format' = "unset" /\ current' = None
    /\ analysed' = {}
    /\ rounds' = 0
    /\ Route("unset")
    /\ UNCHANGED <<turn, plan, provenance, toolVars, workVars, retriage, previous,
                   iteration, evidence, summary, gateError>>

\* acquire_sample_by_hash answers its error before it touches the state.
AcquireByHashFails ==
    /\ pc = "intake"
    /\ acquired' = "failed"
    /\ rounds' = 0
    /\ Route(format)
    /\ UNCHANGED <<turn, sampleVars, toolVars, workVars, retriage, previous,
                   iteration, evidence, summary, gateError>>

\* A follow-up turn for which the intake model ingests nothing.
IntakeWithoutSample ==
    /\ pc = "intake"
    /\ rounds' = 0
    /\ Route(format)
    /\ UNCHANGED <<turnVars, sampleVars, toolVars, workVars, retriage, previous,
                   iteration, evidence, summary, gateError>>

Intake ==
    \/ \E a \in Artifacts : AcquireSample(a)
    \/ AcquireFails \/ AcquireByHashFails \/ IntakeWithoutSample

\* recovery_skip: an empty, complete envelope; none for a malformed artifact id.
SkipRecovery ==
    /\ pc = "skip"
    /\ evidence' = IF current = None THEN evidence ELSE EmptyEnvelope(current)
    /\ pc' = "done"
    /\ UNCHANGED <<turnVars, sampleVars, toolVars, workVars, retriage, previous,
                   iteration, rounds, summary, gateError>>

\* The next user message starts the pipeline over on the same session state.
NewTurn ==
    /\ pc = "done" /\ turn < MaxTurns
    /\ turn' = turn + 1 /\ acquired' = "none" /\ pc' = "intake"
    /\ UNCHANGED <<sampleVars, toolVars, workVars, retriage, gateVars>>

-----------------------------------------------------------------------------
(* The loop: classification and the deterministic recovery tools *)

\* deobf_classify writes a classification, writes something unusable, or ends
\* on a blank answer, which leaves the previous one in place.
Classify ==
    /\ pc = "classify"
    /\ plan' \in Plans \cup {None, plan}
    /\ pc' = "upx"
    /\ UNCHANGED <<turnVars, format, current, provenance, analysed, toolVars, workVars,
                   retriage, gateVars>>

\* upx_unpack's agent ends its turn without the tool running: it made no call,
\* or the call was answered from the round's cache.
UpxNotRun ==
    /\ pc = "upx"
    /\ pc' = "floss"
    /\ UNCHANGED <<turnVars, sampleVars, toolVars, workVars, retriage, gateVars>>

\* _discard_stale_provenance
FreshProvenance ==
    IF provenance # None /\ provenance.destination = current THEN provenance ELSE None

\* The tool runs and changes no artifact: the plan is rejected, disabled, UPX
\* does not apply, it fails, or it hands back the bytes it was given.
UpxAnswers ==
    /\ upx' \in
         IF ~PlanMatches THEN {Called(Degraded("invalid_classification", None))}
         ELSE IF ~plan.upx THEN {Called(NotApplicable(current))}
         ELSE {Called(r) : r \in {NotApplicable(current), Degraded("tool_failed", current),
                                  Recovered(current, current)}}
    /\ provenance' = IF PlanMatches THEN FreshProvenance ELSE provenance
    /\ UNCHANGED <<current, plan, analysed>>

UpxUnpacks(b) ==
    /\ PlanMatches /\ plan.upx
    /\ upx' = Called(Recovered(current, b))
    /\ Advance("upx_unpack", b)

UpxRuns ==
    /\ pc = "upx" /\ ~upx.called
    /\ UpxAnswers \/ (current # None /\ \E b \in Yields[current] : UpxUnpacks(b))
    /\ pc' = "floss"
    /\ UNCHANGED <<turnVars, format, floss, de4dot, dnlib, seen, workVars,
                   retriage, gateVars>>

UpxUnpack == UpxNotRun \/ UpxRuns

\* The dotnet_recover format gate opens for managed samples only.
AfterFloss == IF format = "dotnet" THEN "de4dot" ELSE "scripted_recover"

\* A cached answer is served as it is.  A call that left no result (the tool
\* raised) is answered as corrupt state.
FlossNotRun ==
    /\ pc = "floss"
    /\ floss' \in
         {floss} \cup (IF floss.called /\ floss.result = None
                       THEN {Called(Degraded("invalid_classification", None))} ELSE {})
    /\ pc' = AfterFloss
    /\ UNCHANGED <<turnVars, sampleVars, upx, de4dot, dnlib, seen, workVars,
                   retriage, gateVars>>

\* Not a PE or too large, degraded, or raised: staging's ValueError (an invalid
\* namespace or pod name) is not among the exceptions floss_decode catches.
FlossAnswers ==
    /\ floss' \in
         IF ~PlanMatches THEN {Called(Degraded("invalid_classification", None))}
         ELSE {Called(r) : r \in {NotApplicable(current),
                                  Degraded("tool_failed", current), None}}
    /\ UNCHANGED seen

\* FLOSS decodes the artifact's strings; those no earlier round saw are new.
FlossDecodes ==
    /\ PlanMatches
    /\ LET records == Decoded[current] IN
         IF Cardinality(seen \cup records) > MaxSeen
         THEN /\ floss' = Called(Degraded("seen_state_overflow", current))
              /\ UNCHANGED seen
         ELSE /\ floss' = Called(DecodedFrom(current, records \ seen))
              /\ seen' = seen \cup records

FlossRuns ==
    /\ pc = "floss" /\ ~floss.called
    /\ FlossAnswers \/ FlossDecodes
    /\ pc' = AfterFloss
    /\ UNCHANGED <<turnVars, sampleVars, upx, de4dot, dnlib, workVars, retriage, gateVars>>

FlossDecode == FlossNotRun \/ FlossRuns

De4dotNotRun ==
    /\ pc = "de4dot"
    /\ pc' = "dnlib"
    /\ UNCHANGED <<turnVars, sampleVars, toolVars, workVars, retriage, gateVars>>

De4dotAnswers ==
    /\ de4dot' \in
         IF ~PlanMatches THEN {Called(Degraded("invalid_classification", None))}
         ELSE {Called(r) : r \in {NotApplicable(current), Degraded("tool_failed", current)}}
    /\ UNCHANGED <<current, plan, provenance, analysed>>

De4dotDeobfuscates(b) ==
    /\ PlanMatches
    /\ de4dot' = Called(Recovered(current, b))
    /\ Advance("de4dot_deobfuscate", b)

De4dotRuns ==
    /\ pc = "de4dot" /\ ~de4dot.called
    /\ De4dotAnswers \/ (current # None /\ \E b \in Yields[current] : De4dotDeobfuscates(b))
    /\ pc' = "dnlib"
    /\ UNCHANGED <<turnVars, format, upx, floss, dnlib, seen, workVars, retriage, gateVars>>

De4dotDeobfuscate == De4dotNotRun \/ De4dotRuns

\* The metadata round-trip leaves the loop's state alone: no call, or a call
\* answered from the cache (a call that left no result is run again).
DnlibNotRun ==
    /\ pc = "dnlib"
    /\ pc' = "scripted_recover"
    /\ UNCHANGED <<turnVars, sampleVars, toolVars, workVars, retriage, gateVars>>

DnlibAnswers ==
    /\ dnlib' \in
         IF ~PlanMatches THEN {Called(Degraded("invalid_classification", None))}
         ELSE {Called(NotApplicable(current))} \cup
              IF Succeeded(de4dot) \/ execs >= MaxExecutions THEN {}
              ELSE {Called(Degraded("tool_failed", current))}
    /\ UNCHANGED <<current, plan, provenance, analysed, scripted>>

\* A changed, loadable assembly is admitted on the scripted-recovery rail.
DnlibRecovers(b) ==
    /\ PlanMatches /\ ~Succeeded(de4dot) /\ execs < MaxExecutions
    /\ dnlib' = Called(Recovered(current, b))
    /\ scripted' = [scripted EXCEPT !.result =
                      [source |-> current, artifact |-> b,
                       method |-> "dnlib_metadata_roundtrip"]]
    /\ Advance("scripted_recover", b)

DnlibRuns ==
    /\ pc = "dnlib" /\ (dnlib.called => dnlib.result = None)
    /\ DnlibAnswers \/ (current # None /\ \E b \in Yields[current] : DnlibRecovers(b))
    /\ pc' = "scripted_recover"
    /\ UNCHANGED <<turnVars, format, upx, floss, de4dot, seen, deepAttempted,
                   execs, retriage, gateVars>>

DnlibRoundtrip == DnlibNotRun \/ DnlibRuns

-----------------------------------------------------------------------------
(* The loop: the two gated workers, who run scripts and register what they get *)

Workers == {"packer_analyst", "dotnet_analyst"}

UpxChanged == Succeeded(upx) /\ upx.result.recovered # upx.result.source
FlossCount == IF Succeeded(floss) THEN floss.result.new ELSE 0

\* _should_run of the native gate.
ScriptedGateOpen ==
    /\ format # "dotnet"
    /\ PlanMatches /\ plan.obf = "packed-other"
    /\ ~UpxChanged /\ FlossCount = 0
    /\ execs < MaxExecutions

ScriptedRecover ==
    /\ pc = "scripted_recover"
    /\ IF ScriptedGateOpen
       THEN /\ pc' = "packer_analyst"
            /\ scripted' = [scripted EXCEPT !.attempted = TRUE]
       ELSE /\ pc' = "dotnet_scripted_recover"
            /\ UNCHANGED scripted
    /\ UNCHANGED <<turnVars, sampleVars, toolVars, deepAttempted, execs,
                   retriage, gateVars>>

\* Mutant of DotnetGateOpen: the layer's own mark is not looked at.
DotnetGateIgnoresMark ==
    /\ format = "dotnet" /\ current # None
    /\ ~Succeeded(de4dot)
    /\ execs < MaxExecutions

\* _should_run of the .NET gate: once per layer.
DotnetGateOpen ==
    /\ format = "dotnet" /\ current # None
    /\ deepAttempted # current
    /\ ~Succeeded(de4dot)
    /\ execs < MaxExecutions

DotnetScriptedRecover ==
    /\ pc = "dotnet_scripted_recover"
    /\ IF DotnetGateOpen
       THEN /\ pc' = "dotnet_analyst"
            /\ scripted' = [scripted EXCEPT !.attempted = TRUE]
            /\ deepAttempted' = current
            /\ analysed' = {current}
       ELSE /\ pc' = "retriage"
            /\ UNCHANGED <<scripted, deepAttempted, analysed>>
    /\ UNCHANGED <<turnVars, format, current, plan, provenance, toolVars, execs,
                   retriage, gateVars>>

\* Mutant of RunPython: the call is charged but never refused.
RunPythonUnguarded ==
    /\ pc \in Workers
    /\ execs' = execs + 1
    /\ UNCHANGED <<pc, turnVars, sampleVars, toolVars, scripted, deepAttempted,
                   retriage, gateVars>>

\* run_python, charged by its guard before it runs; a refused call changes nothing.
RunPython ==
    /\ pc \in Workers /\ execs < MaxExecutions
    /\ execs' = execs + 1
    /\ UNCHANGED <<pc, turnVars, sampleVars, toolVars, scripted, deepAttempted,
                   retriage, gateVars>>

\* Mutant of Register: the plan is read after the artifact is repointed, when it
\* no longer matches, and so is not advanced.
RegisterReadsPlanLate(b) ==
    /\ pc \in Workers /\ current # None /\ b \in Yields[current]
    /\ current' = b /\ analysed' = {}
    /\ provenance' = [tool |-> "scripted_recover", source |-> current, destination |-> b]
    /\ scripted' = [scripted EXCEPT !.result =
                      [source |-> current, artifact |-> b, method |-> "script"]]
    /\ UNCHANGED <<pc, turnVars, format, plan, toolVars, deepAttempted, execs,
                   retriage, gateVars>>

\* register_unpacked_artifact admits a dump: unlike the tools, with or without a
\* valid plan.
Register(b) ==
    /\ pc \in Workers /\ current # None /\ b \in Yields[current]
    /\ current' = b /\ analysed' = {}
    /\ plan' = IF PlanMatches THEN [plan EXCEPT !.artifact = b] ELSE plan
    /\ provenance' = [tool |-> "scripted_recover", source |-> current, destination |-> b]
    /\ scripted' = [scripted EXCEPT !.result =
                      [source |-> current, artifact |-> b, method |-> "script"]]
    /\ UNCHANGED <<pc, turnVars, format, toolVars, deepAttempted, execs,
                   retriage, gateVars>>

WorkerReturns ==
    /\ pc \in Workers
    /\ pc' = IF pc = "packer_analyst" THEN "dotnet_scripted_recover" ELSE "retriage"
    /\ UNCHANGED <<turnVars, sampleVars, toolVars, workVars, retriage, gateVars>>

-----------------------------------------------------------------------------
(* The loop: retriage and the gate *)

\* The retriage model measures the current artifact, writes something the gate
\* cannot use, or answers nothing, which leaves the last snapshot in place.
Retriage ==
    /\ pc = "retriage"
    /\ retriage' \in {None, retriage} \cup
         (IF current = None THEN {} ELSE {[artifact |-> current, snap |-> s] : s \in Snapshots})
    /\ pc' = "gate"
    /\ UNCHANGED <<turnVars, sampleVars, toolVars, workVars, gateVars>>

\* _parse_summary: an earlier turn's summary must be of this artifact and give
\* one of the reasons the parser knows.
SummaryReadable ==
    summary = None \/ ( /\ summary.artifact = plan.artifact
                        /\ summary.reason # "retriage_snapshot_invalid")

\* Why the gate fails closed; None when it does not.
GateFault ==
    IF ~PlanMatches THEN "invalid_state"
    ELSE IF ~(upx.called /\ floss.called) THEN "recovery_not_called"
    ELSE IF ~SummaryReadable THEN "invalid_state"
    ELSE None

NotApplied    == [kind |-> "na", code |-> ""]
ResultInvalid == [kind |-> "degraded", code |-> "result_invalid"]
Outcome(r)    == [kind |-> r.kind, code |-> r.code]

UpxOutcome ==
    IF ~plan.upx THEN NotApplied
    ELSE IF upx.result = None THEN ResultInvalid ELSE Outcome(upx.result)

\* Mutant of FlossOutcome: only a plan that asked for FLOSS lets its result in.
FlossOutcomeIfPlanned ==
    IF ~plan.floss THEN NotApplied
    ELSE IF floss.result = None THEN ResultInvalid
    ELSE IF floss.result.kind = "success" /\ floss.result.source # current
    THEN ResultInvalid ELSE Outcome(floss.result)

\* An applicable result counts whatever the plan said; one that FLOSS took from
\* another layer does not.
FlossOutcome ==
    IF floss.result = None
    THEN IF plan.floss THEN ResultInvalid ELSE NotApplied
    ELSE IF floss.result.kind = "success" /\ floss.result.source # current
    THEN ResultInvalid ELSE Outcome(floss.result)

De4dotOutcome ==
    IF de4dot.result = None \/ (Succeeded(de4dot) /\ de4dot.result.recovered # current)
    THEN NotApplied ELSE Outcome(de4dot.result)

\* Mutant of ScriptedRecovered: matched by the layer it came from, as a FLOSS
\* result is.
ScriptedSourceRecovered == scripted.result # None /\ scripted.result.source = current

ScriptedRecovered == scripted.result # None /\ scripted.result.artifact = current

\* Mutant of Prior: evidence of an earlier layer is not re-anchored but dropped.
PriorOfThisLayer ==
    IF evidence # None /\ evidence.artifact = current THEN evidence ELSE EmptyEnvelope(current)

\* _parse_previous_evidence
Prior == IF evidence = None THEN EmptyEnvelope(current) ELSE evidence

When(condition, x) == IF condition THEN {x} ELSE {}

FlossFindings ==
    IF FlossOutcome.kind = "success" THEN {<<"floss_decode", s>> : s \in floss.result.records}
    ELSE {}
ScriptedFindings == When(ScriptedRecovered, <<"scripted_recover", scripted.result>>)
De4dotFindings == When(De4dotOutcome.kind = "success", <<"de4dot", "net">>)

\* The sets that appending the findings of new to fs can give: all of them, or as
\* many as MAX_FINDINGS leaves room for.
Appended(fs, new) ==
    {fs \cup kept : kept \in {k \in SUBSET (new \ fs) :
        \/ k = new \ fs /\ Cardinality(fs \cup new) <= MaxFindings
        \/ Cardinality(fs \cup new) > MaxFindings /\ Cardinality(fs \cup k) = MaxFindings}}

RoundFindings ==
    UNION {UNION {Appended(g, De4dotFindings) : g \in Appended(f, ScriptedFindings)} :
             f \in Appended(Prior.findings, FlossFindings)}

RoundSurfaces ==
    When(FlossOutcome.kind = "success", "floss_decode")
      \cup When(ScriptedRecovered, "scripted_recover")
      \cup When(De4dotOutcome.kind = "success", "de4dot")

RoundLimitations ==
    When(UpxOutcome.kind = "degraded", <<"upx", UpxOutcome.code>>)
      \cup When(FlossOutcome.kind = "degraded", <<"floss", FlossOutcome.code>>)
      \cup When(De4dotOutcome.kind = "degraded", <<"de4dot", De4dotOutcome.code>>)

SummaryLimitations == IF summary = None THEN {} ELSE summary.limitations

Baseline == IF previous # None THEN previous ELSE plan.snap
SnapshotInvalid == retriage = None \/ retriage.artifact # current
Grew == ~SnapshotInvalid /\ \E m \in Metrics : retriage.snap[m] > Baseline[m]

CleanPlan == ~plan.upx /\ ~plan.floss /\ plan.obf \in {"none", "unknown"}
ToolDegraded(tool) == tool.result # None /\ tool.result.kind = "degraded"
EnabledDegraded ==
    /\ plan.upx \/ plan.floss
    /\ plan.upx => ToolDegraded(upx)
    /\ plan.floss => ToolDegraded(floss)
NoProgress == ~UpxChanged /\ FlossCount = 0 /\ ~Grew

\* Mutant of ExitReason: the iteration cap is one round late.
ExitReasonCapLate ==
    IF CleanPlan THEN "complete"
    ELSE IF plan.pcode THEN "pcode_handoff"
    ELSE IF EnabledDegraded THEN "degraded"
    ELSE IF SnapshotInvalid THEN "retriage_snapshot_invalid"
    ELSE IF NoProgress THEN "no_progress"
    ELSE IF iteration + 1 > MaxIterations THEN "iteration_cap"
    ELSE "continue"

\* Why the loop ends here, in the gate's order of reasons, or "continue".
ExitReason ==
    IF CleanPlan THEN "complete"
    ELSE IF plan.pcode THEN "pcode_handoff"
    ELSE IF EnabledDegraded THEN "degraded"
    ELSE IF SnapshotInvalid THEN "retriage_snapshot_invalid"
    ELSE IF NoProgress THEN "no_progress"
    ELSE IF iteration + 1 >= MaxIterations THEN "iteration_cap"
    ELSE "continue"

GateLimitations ==
    When(SnapshotInvalid, <<"deobfuscation", "retriage_snapshot_invalid">>)
      \cup When(ExitReason = "iteration_cap", <<"deobfuscation", "iteration_cap">>)
      \cup When(scripted.attempted /\ ~ScriptedRecovered /\ ExitReason = "no_progress",
               <<"recovery", "scripted_unavailable">>)

\* _build_evidence and the limitations the gate adds to it: the earlier rounds'
\* evidence, re-anchored to the current artifact, and this round's.
GateEvidence ==
    {[artifact |-> current, findings |-> f,
      surfaces |-> Prior.surfaces \cup RoundSurfaces,
      limitations |-> Prior.limitations \cup SummaryLimitations \cup RoundLimitations
                        \cup GateLimitations] : f \in RoundFindings}

\* Mutant of ResetRound: the scripted result of the round is not dropped.
ResetRoundKeepsScripted ==
    /\ upx' = NotCalled /\ floss' = NotCalled /\ de4dot' = NotCalled /\ dnlib' = NotCalled
    /\ scripted' = [scripted EXCEPT !.attempted = FALSE]

ResetRound ==
    /\ upx' = NotCalled /\ floss' = NotCalled /\ de4dot' = NotCalled /\ dnlib' = NotCalled
    /\ scripted' = NotAttempted

\* _fail_closed: nothing but the error is written, and the loop ends.
GateFailsClosed ==
    /\ pc = "gate" /\ GateFault # None
    /\ gateError' = GateFault /\ pc' = "done"
    /\ UNCHANGED <<turnVars, sampleVars, toolVars, workVars, retriage, previous,
                   iteration, rounds, evidence, summary>>

\* A round well accounted for: its evidence is added, its results are dropped,
\* and the loop ends with a summary or goes round (the LoopAgent has a cap of
\* its own).
GateDecides ==
    /\ pc = "gate" /\ GateFault = None
    /\ evidence' \in GateEvidence
    /\ previous' = IF SnapshotInvalid THEN Baseline ELSE retriage.snap
    /\ iteration' = iteration + 1
    /\ ResetRound
    /\ IF ExitReason = "continue"
       THEN /\ rounds' = rounds + 1
            /\ pc' = IF rounds + 1 >= MaxIterations THEN "done" ELSE "classify"
            /\ UNCHANGED summary
       ELSE /\ summary' = [artifact |-> current, reason |-> ExitReason,
                           limitations |-> SummaryLimitations \cup evidence'.limitations]
            /\ pc' = "done"
            /\ UNCHANGED rounds
    /\ UNCHANGED <<turnVars, sampleVars, seen, deepAttempted, execs, retriage,
                   gateError>>

DeobfGate == GateFailsClosed \/ GateDecides

-----------------------------------------------------------------------------
Next ==
    \/ Intake \/ SkipRecovery \/ NewTurn
    \/ Classify \/ UpxUnpack \/ FlossDecode \/ De4dotDeobfuscate \/ DnlibRoundtrip
    \/ ScriptedRecover \/ DotnetScriptedRecover
    \/ RunPython \/ (\E b \in Artifacts : Register(b)) \/ WorkerReturns
    \/ Retriage \/ DeobfGate

Spec == Init /\ [][Next]_vars

-----------------------------------------------------------------------------
(* Properties *)

Agents == {"intake", "skip", "classify", "upx", "floss", "de4dot", "dnlib",
           "scripted_recover", "dotnet_scripted_recover", "retriage", "gate", "done"}
            \cup Workers

ToolState == [called : BOOLEAN, result : Result \cup {None}]

\* Every key of the session holds what its readers expect, and no counter
\* passes its cap.
TypeOK ==
    /\ pc \in Agents
    /\ turn \in 1 .. MaxTurns /\ acquired \in {"none", "ok", "failed"}
    /\ format \in Formats \cup {"unset"} /\ current \in Artifacts \cup {None}
    /\ plan \in PlanType \cup {None} /\ provenance \in Provenance \cup {None}
    /\ analysed \in SUBSET Artifacts
    /\ upx \in ToolState /\ floss \in ToolState
    /\ de4dot \in ToolState /\ dnlib \in ToolState
    /\ seen \in SUBSET Strings
    /\ scripted \in [attempted : BOOLEAN, result : ScriptedResult \cup {None}]
    /\ deepAttempted \in Artifacts \cup {None}
    /\ execs \in 0 .. MaxExecutions
    /\ retriage \in Snapshot \cup {None} /\ previous \in Snapshots \cup {None}
    /\ iteration \in Nat /\ rounds \in 0 .. MaxIterations
    /\ pc \notin {"intake", "done"} => rounds < MaxIterations
    /\ evidence \in Envelope \cup {None} /\ summary \in Summary \cup {None}
    /\ gateError \in GateErrors \cup {None}

\* A classification that names the artifact keeps naming it while tools and
\* workers replace the artifact under it, so that recovery alone never makes the
\* next agent or the gate reject the plan (advance_classification_artifact).
AuthorityKept ==
    [][(pc \notin {"intake", "classify"} /\ PlanMatches) => PlanMatches']_vars

\* The provenance line shown to the agents is about the artifact in front of
\* them, whichever of the four tools made it and whichever turn it came in.
ProvenanceFollowsArtifact ==
    current # None => (provenance = None \/ provenance.destination = current)

\* What the loop has told about a sample stays told: no later round, layer, turn
\* or failed gate loses a finding, a surface or a limitation.
EvidenceOnlyGrows ==
    [][(pc # "intake" /\ evidence # None) =>
         /\ evidence' # None
         /\ evidence.findings \subseteq evidence'.findings
         /\ evidence.surfaces \subseteq evidence'.surfaces
         /\ evidence.limitations \subseteq evidence'.limitations]_vars

\* After a loop that did not fail closed, summary and evidence are there, both of
\* the artifact the deep engines will read: the LoopAgent's own cap never ends the
\* loop behind the gate's back.
LoopEndsWithSummary ==
    (pc = "done" /\ gateError = None /\ format # "jvm") =>
        /\ summary # None /\ summary.artifact = current
        /\ evidence # None /\ evidence.artifact = current

\* A layer a round recovered is in the evidence the gate writes for the round,
\* even when other layers were recovered before and after it, unless the
\* envelope is full.
RecoveredLayerIsEvidence ==
    [][(pc = "gate" /\ gateError = None /\ gateError' = None) =>
         \/ Cardinality(evidence'.findings) >= MaxFindings
         \/ /\ scripted.result # None =>
                 <<"scripted_recover", scripted.result>> \in evidence'.findings
            /\ Succeeded(de4dot) => <<"de4dot", "net">> \in evidence'.findings]_vars

\* Strings FLOSS decoded in a round, whatever the plan said of FLOSS, are in the
\* evidence, or the evidence says the result was not usable, or it is full.
DecodedStringsAccounted ==
    [][(pc = "gate" /\ gateError = None /\ gateError' = None /\ Succeeded(floss)) =>
         \/ Cardinality(evidence'.findings) >= MaxFindings
         \/ \A s \in floss.result.records : <<"floss_decode", s>> \in evidence'.findings
         \/ <<"floss", "result_invalid">> \in evidence'.limitations]_vars

\* The .NET analyst, the most expensive agent of the loop, runs once on a layer:
\* however many rounds, failed gates and turns come by, it is not run again until
\* a recovery or a new sample has replaced the artifact.  (The mark remembers one
\* layer, so one that recovery comes back to may be analysed anew.)
DeepOncePerLayer ==
    [][(pc # "dotnet_analyst" /\ pc' = "dotnet_analyst") => current \notin analysed]_vars

\* A round that follows no failed gate starts with no result of an earlier one.
RoundStartsClean ==
    (pc = "classify" /\ gateError = None) =>
        /\ {upx, floss, de4dot} = {NotCalled}
        /\ scripted = NotAttempted

-----------------------------------------------------------------------------
(* What the code's comments say of it and the code does not keep *)

\* reset_deobfuscation_state starts "a new sample analysis without retaining
\* prior loop authority": no tool answers for it, and no layer of it counts as
\* analysed, before its first round.  (The dnlib result and the deep-pass mark
\* are not among the keys it clears.)
NewSampleOwesNothing ==
    (pc = "classify" /\ acquired = "ok" /\ rounds = 0) =>
        ~dnlib.called /\ deepAttempted # current

\* "A FAILED acquire can never leave the previous turn's format + artifact for
\* the routers and analysis stages to run on."  (acquire_sample_by_hash answers
\* its error without invalidating them.)
FailedAcquireLeavesNoSample ==
    (acquired = "failed" /\ pc # "intake") => current = None

\* "When it registers a recovered inner layer, CURRENT_ARTIFACT advances and the
\* pass re-runs on the new layer", bounded by the run_python budget and the loop's
\* iteration cap.  (The gate asks UPX, FLOSS and retriage for progress, not the
\* workers, and ends the loop for want of it.)
LayersArePeeled ==
    (pc = "done" /\ gateError = None /\ format = "dotnet"
       /\ summary # None /\ summary.reason = "no_progress"
       /\ provenance # None /\ provenance.tool = "scripted_recover") =>
        current \in analysed \/ execs >= MaxExecutions \/ iteration >= MaxIterations

\* A bad retriage snapshot "must never fail closed and discard the deterministic
\* FLOSS/UPX recovery evidence": the gate can read the summary that such a
\* snapshot made it write.
OwnSummaryReadable ==
    (pc = "gate" /\ PlanMatches /\ upx.called /\ floss.called
       /\ summary # None /\ summary.artifact = current) => GateFault = None

=============================================================================
