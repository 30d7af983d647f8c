# A verification project for AREMA

AREMA is a multi-agent static malware-analysis pipeline on Google ADK. Agents hand
a sample to each other through one session state; tools run in claimed Kubernetes
pods; events and findings go to a memory store. The project models the parts in which
order, failure and leftover state decide whether an analysis is right, checks them
with TLC on small instances, and proves the main results with TLAPS for any instance.

The reference is the code under `src/`. "The loop" below is the deobfuscation loop.

## 1. Inventory

### The pipeline

`malware_analyst` is a sequence of stages: `sample_intake`, `triage_router`,
`deobfuscation` (the loop), `deep_engine_router`, the characterisation stages (the
host and network lenses in parallel, behavior, ATT&CK), `evidence_critic`, the report
and the usage reporter. The stages communicate only through session state. `adk run`
and `adk web` keep the session over several user messages, so the pipeline starts again
on the state the previous turn left. `adk web` serves several sessions in one process.
Under every agent lies the runtime: a callback chain round each model and tool call.

| Component | State | Operations | Interacts with | Must be right |
|---|---|---|---|---|
| Sample intake (`tools/acquire_*.py`) | format, artifact, everything `reset_deobfuscation_state` clears | acquire a file, acquire by hash | artifact store, intel fetch, routers | a turn analyses the sample it was given, or none |
| The loop (`agents/deobf*.py`, gates) | classification, snapshots, iteration, evidence, summary, gate error | classify, retriage, decide | the tools' results, the workers' results | ends, with evidence and a summary of the artifact that goes on |
| Recovery tools (`tools/deobfuscation/`) | `called`, `result`, provenance, artifact, seen fingerprints | upx, floss, de4dot, dnlib | pods, artifact store | artifact, plan and provenance move together; once per round |
| Workbench (`tools/workbench/`) | execution count, token baseline, thrash streak | `run_python`, `register_unpacked_artifact` | the two workers of the loop | bounded; a registered layer is counted and told |
| Sandbox session (`runtime/`, `sandbox/k8s.py`, `prepare_*`) | executor entries, `_SESSIONS`, forwards, Ghidra's case state | claim, provision with retries, open a tunnel, release, sweep at exit | kubectl, the cluster, every engine tool | the four tables agree; nothing leaks; nobody else's pod is given back |
| Deep analysis (`deep_analysis_gate.py`, `ghidra/coverage.py`) | coverage receipts, deep iteration, running best | prepare, record, decide | the artifact of the loop, Ghidra's pod | coverage claimed was reached on this artifact |
| Evidence (`evidence_envelope.py`, `evidence_output.py`) | one envelope per stage, the validated evidence | guard, salvage, merge, re-anchor, criticise | all stages | findings belong to the artifact they name; nothing told is lost |
| Memory store (`arema/memory/`) | scopes, records, relations; lock, depth, open transaction | open, migrate, transact, write, page, retrieve | the memory callbacks, other processes | whole units of work; no update lost; health tells the truth |
| Callback chain (`runtime/callbacks/`, `agent_factory.py`) | per-run counters in the session, the throttle stamp, usage slots | hooks before and after every call | every agent | usage exact, calls spaced, every run ends |
| Context budget, compactor (`runtime/context/`) | none between calls | compact, refuse, checkpoint | every request | fits the budget, keeps what it must |
| Artifact store | files named by digest | acquire, path | all tools | a stored name is the digest of its bytes |
| Registry, composition | descriptor tables | register in a transaction, validate | start-up | no partial registration |
| `SandboxSessionManager` | handle table under a lock | claim, release | not wired in production | one handle per key |
| Intel, reporting, MCP wrappers, detectors, configuration, CLI | none that outlives a call | I/O and parsing | | |

### What is hard

* **Leftover state.** A turn that fails, a second sample, or a follow-up without a
  sample starts from the keys earlier turns wrote. Resets are lists of keys.
* **Several writers of one fact.** Four tools and two workers replace the artifact
  under analysis in the same round; three keys must follow it, and results taken
  from an earlier layer must not be read as this layer's.
* **Two counters for one bound.** ADK's loops count passes and so do both gates.
* **Four tables for one pod.** Claim, session, tunnel and Ghidra project are keyed
  alike and updated by different modules; failures fall between the updates.
* **Envelopes that change hands.** A guard salvages what a model wrote, a gate merges,
  the critic re-anchors: at each hand a finding can be lost or attributed wrongly.
* **Two backends for one port.** SQLite and dictionaries isolate and roll back by
  different means; threads, processes, failed commits and crashes come between.
* **Concurrency.** Cases interleave between calls; the cluster and the kubectl
  children move at any time; Ctrl-C falls anywhere; parallel branches share session
  keys and a throttle stamp.
* **Boundaries.** `MAX_FINDINGS`, `MAX_LIMITATIONS`, the fingerprint bound, the
  execution cap, page limits, token thresholds, turn limits.

`PROJECT.json` lists each hazard at its line with the properties aimed at it.

## 2. Modules and plan

| Modules | Part | State |
|---|---|---|
| `DeobfLoop`, `MCDeobfLoop`, `DeobfLoopProofs` | the loop, its tools and workers, intake, several turns | modelled, checked, proved |
| `SandboxSession`, `MCSandboxSession`, `SandboxSessionProofs` | the pods of concurrent cases | modelled, checked, proved |
| `EvidencePipeline`, `MCEvidencePipeline`, `EvidencePipelineProofs` | the stages after the loop; composes the loop's interface, Ghidra's case state and the pipeline | modelled, checked, proved |
| `MemoryModels`, `UnitsOfWork`, `MemoryStore`, `MCMemoryStore`, `MemoryModelsProofs`, `MemoryStoreProofs` | the memory store; abstract port and its two implementations | modelled, checked, proved, the refinement too |
| `ContextBudget`, `AgentRun`, `MCAgentRun`, `ContextBudgetProofs`, `AgentRunProofs` | the runtime under every agent; `AgentRun` extends the budget's operators | modelled, checked, proved but for `RunEnds` |
| `FoldLemmas` | what the proofs use of numbers and folds | proved |

Left for later, in this order: the workbench's token ceiling, thrash detector and
advisor, and what a new sample inherits of them; the artifact store with a crash inside
its copy, against an abstract store; an abstract authority over the artifact under
analysis that `DeobfLoop` refines; the registry's validation as operators.

In every model, what a language model answers and what an external tool computes is a
choice from a small set; what the code writes is the code's.

## 3. `DeobfLoop`

`pc` is the agent whose turn it is; agents are sequential, so it orders the actions
as `DEOBFUSCATION_LOOP_DESCRIPTOR` orders its sub-agents. One action (or one per
outcome) stands for an agent's whole turn, every state write included.

| Variables | Session keys |
|---|---|
| `format`, `current`, `plan`, `provenance` | `sample:format`, `deobf:current_artifact_id`, `deobf:classification`, the provenance line |
| `upx`, `floss`, `de4dot`, `dnlib`, `seen` | the tools' `_called` and `_result` keys, the seen fingerprints |
| `scripted`, `deepAttempted`, `execs` | `deobf:scripted_*`, `deobf:dotnet_deep_attempted`, `workbench:exec_count` |
| `retriage`, `previous`, `iteration`, `evidence`, `summary`, `gateError` | the gate's keys |
| `rounds` | the LoopAgent's own counter, not in the session |
| `turn`, `acquired`, `deepRan` | history variables |

* **Intake** (`AcquireSample`, `AcquireFails`, `AcquireByHashFails`,
  `IntakeWithoutSample`) writes exactly the keys the code writes on each path, in
  its order: `acquire_sample` drops the identity before the store can raise, and
  resets the rest only afterwards.
* **Models** (`Classify`, `Retriage`) write any value of a small set, an unusable one,
  or nothing (the earlier value stays).
* **Tools** (`UpxRuns`, `FlossRuns`, `De4dotRuns`, `DnlibRuns`) check the plan, then
  succeed, do not apply or degrade; a call in a round that already has a result is
  answered from it (`...NotRun`). Their own failure codes are one code.
* **Workers** run when their gate is open, run any number of scripts the cap allows
  and register any layer.
* **The gate** (`GateFailsClosed`, `GateDecides`) is `evaluate_deobf_gate`: the parse
  checks in order, the outcomes, the accumulated evidence, the exit reasons in
  order, the reset of the round.

A finding is its tool and its detail, as the gate identifies it. What `Yields` and
`Decoded` give for an artifact is arbitrary, so every packer is some instance; the runs
take chains of layers, the managed one with a step back.
Entropy, formats of names, and the wording of limitations are left out; the bound on
the number of limitations is not modelled (the model has fewer kinds than it allows).

| Run | Instance | Checks |
|---|---|---|
| `layers` | a native sample of three layers and a managed one whose second layer may lead on to the third or back to the first, plans with and without UPX and FLOSS, 3 rounds, fingerprint bound reached; 9.4 million states | `TypeOK`, `ProvenanceFollowsArtifact`, `RoundStartsClean`, `AuthorityKept`, `DecodedStringsAccounted`, `RecoveredLayerIsEvidence`, `DeepOncePerLayer` |
| `turns` | a managed and a JVM sample, 2 turns, 2 rounds, p-code plans | `LoopEndsWithSummary`, `EvidenceOnlyGrows` |

Bounds: three layers let one round recover two layers in a row (the order hazards need
two), and a later one start from a layer that is neither first nor last. Three rounds
(the code has a constant) separate the first, a middle and the last. One execution puts
the cap between a worker's gate and its script. Two turns give every pair of a turn and
its successor: with a sample, a failed acquire, or none. `MaxFindings` and `MaxSeen` are
so small that the envelope and the seen set overflow. `CHECK_DEADLOCK FALSE`, because
the session ends after the last turn.

## 4. `SandboxSession`

Tools are synchronous, so `call` is the one tool call or release in progress. A call
is a sequence of steps (claim, stage, serve, probe, register, or failed; pop, close,
free), because between them the cluster moves (`LosePod`, `TunnelExits`), any of them
can fail, and an `Interrupt` can end the process.

| Variables | Code |
|---|---|
| `entries` | `K8sSandboxExecutor._entries` |
| `sessions` | `_SESSIONS` of `sandbox_session.py` |
| `forwards`, `procs` | `PortForwardRegistry._forwards`, the kubectl processes behind it |
| `ghidra` | `_GHIDRA_CASE_STATE` |
| `status`, `undeleted` | the cluster; which claims no delete removed |
| `ready` | history: what the last answers of the prepare tools told the agent |

`Claim` is idempotent per case and pool, as in the executor. `Terminate` pops the entry
first and may then fail with both clients. `Provision` is `provision_pod` with the
engine's callable: engines behind a port open a tunnel (`OpenForward`, `ProbeForward`),
Ghidra loads the artifact or degrades in place (`LoadGhidra`), jadx only stages.
`Release` is `release_case`, used by the pipeline end and by the exit sweep. The
deobfuscation tools and the workbench claim pods directly (`DirectClaim`). The
model is of the process `adk run` or `adk web` hosts; the `arema` command hosts an
agent without tools.

Not modelled: the bytes staged, the daemon's own retries inside a load, the stderr
diagnostics; a probe that fails although a serving pod is behind the tunnel is a
failed attempt like any other. A pod lost after its exit sweep began is left out:
`LosePod` and `TunnelExits` stop with the process.

`sandbox` has two cases, two engines (one behind a port, Ghidra), one direct pool, two
pods, three attempts (the code's number) and three pipelines. Two cases are needed for
the shared port and for releases that reach too far; two pods let a retry get another
pod than the first; three pipelines let a case begin again while the other runs. It
checks `TypeOK`, `SessionBacksEntry`, `ReadyEngineWired`, `NoOrphanForward`,
`ScopedRelease`, and under fairness `CallReturns` and `ExitCompletes`.
`CHECK_DEADLOCK FALSE`, because an exited process does nothing.

Fairness is weak fairness of `Proceed`, the steps of a call in progress and of the exit
handlers: kubectl runs under timeouts, the probe has fifteen tries, and the client's
requests time out, so every step ends one way or the other. Nothing is assumed of
users, pods or tunnels: pipelines may never begin or end.

## 5. `EvidencePipeline`

The pipeline from intake to report, over user turns of one session. `pc` is the stage
whose turn it is; the two lenses run in either order (`lenses`). The loop is not run
again here: `RecoveryEnds`, `RecoveryFails` and `RecoverySkip` are what `DeobfLoop`
may leave behind (an artifact of the same sample, an envelope and a summary of it, or
those of an earlier round when its gate fails closed).

| Variables | Code |
|---|---|
| `format`, `artifact` | `sample:format` as the engine it selects, `deobf:current_artifact_id` |
| `evidence` | the output keys of `CRITIC_STAGE_KEYS` |
| `summary`, `validated` | `recovery_summary_json`, `validated_evidence_json` |
| `best` | the running best of the looped worker, a `temp:` key of one invocation |
| `coverage`, `iteration`, `passes` | `deep:coverage`, `deep:iteration`, the LoopAgent's own counter |
| `loaded`, `held` | `_GHIDRA_CASE_STATE`, and whether its pod is still the case's |
| `receipts`, `told`, `nativeRan` | history: what Ghidra answered for which artifact, what the deep worker told, for which samples a native worker ran |

* **Intake** resets the recovery and the deep keys, and drops the identity before a
  failing store raises.
* **Output guard** (`Normalized`): an answer is parsed strictly; else its surviving
  findings are salvaged and re-anchored, with `findings_dropped` and `evidence_rebound`
  recorded as far as there is room; else the stage gets a failed envelope. `Accumulated`
  is its running best for the looped worker.
* **Ghidra** (`PrepareGhidra`, `PrepareGhidraFails`, `GhidraAnswers`) records a receipt
  only when the loaded project is of the current artifact; a failed load leaves the
  earlier entry.
* **The deep gate** ends on coverage or on its bound, writes its own status over the
  model's, or raises (`GateRaises`).
* **The lenses** and `NetworkEnforced`: no network finding counts as "none found" only
  after a completed surface.
* **The critic** re-anchors every stage's envelope, judges by markers, and reads its own
  earlier output when its model is silent (`Judgment`).

A finding carries the sample its stage was looking at when it told it: that is what
re-anchoring hides. Not modelled: JSON repair, verdict and execution-flow fields, the
wording of limitations (one stands for all that a model writes itself).

| Run | Instance | Checks |
|---|---|---|
| `pipeline` | a two-layer native, a managed and a JVM sample, two turns, two deep passes, three findings and three limitations to an envelope; 1.4 million states | `TypeOK`, `CompleteIsEarned`, `ToldIsKept`, `AbsenceDetermined`, `DeepStatusIsTheGates` |

Two turns give every order of two kinds of sample with a failed acquire or none; two
deep passes let a later one be worse than an earlier one; two Ghidra surfaces are the two
the gate requires; three findings and limitations let answers fit, just fit and
overflow. `CHECK_DEADLOCK FALSE`, because a session ends after its last turn.

## 6. `MemoryStore`, `UnitsOfWork`, `MemoryModels`

`MemoryModels` holds the vocabulary of `memory/models.py` and the reads as functions of
the contents (pages, bounded retrieval). `UnitsOfWork` is the port of `store.py` as a
specification of its own: contents change by whole units of work, one at a time, that
take effect completely or not at all. `MemoryStore` is both backends and the service
above them; `backend` is chosen initially.

| Variables | Code |
|---|---|
| `rows` | SQLite: the committed database; in memory: the dictionaries |
| `saved` | SQLite: the connection's open transaction; in memory: the snapshot of `transaction()` |
| `owner`, `depth` | the reentrant lock of a process, `_depth` |
| `schema`, `phase` | the migrated schema; a process that is down, has read the ledger, or is up |
| `pc` | where a thread is in its unit |
| `degraded`, `reading` | `MemoryService._degraded`; the reader's pages so far |
| `pending`, `granted`, `lost` | history: updates won, updates committed, processes with a lost event |

`Enter` is `BEGIN IMMEDIATE` or the snapshot, `Nest`/`Unnest` an inner `transaction()`,
`Write` an operation with the checks each backend makes (`Accepts`), `Commit`,
`CommitFails`, `Reject` and `Raise` the ways a unit ends, `Crash` a process that dies.
`WriteInMemory` is a single operation on the dictionaries, atomic under the lock.
`Open` and `Migrate` are the start, with two processes that read the ledger before
either migrates. `BusyTimeout` is an event that meets a locked database.

The refinement maps `db` to what a reader outside any unit is entitled to
(`Committed`: the rows, or the snapshot while the dictionaries are being changed) and
`work[p]` to what process `p` has open (`Opened`: the connection's transaction, or the
dictionaries themselves): the two backends hold the old and the new contents in opposite
places, and the mapping says so. `Enter` is `Begin`, `Write` is `Do`, `Commit` is
`Commit`, every other end of a unit is `Abort`, `WriteInMemory` is `Once`.

| Run | Instance | Checks |
|---|---|---|
| `memory` | two processes, three threads, three records, two scopes (one that may be missing), colliding instants, pages of one record; 462 thousand states | `TypeOK`, `RevisionCountsUpdates`, `ReferencesHold`, `PagesExact`, `TruncationTold`, `ImplementsPort` |

Two processes are the least that contend for the file; a writer and a reader in one
process interleave pages with inserts; two revisions to be won by three threads let an
update lose; pages of one record with equal instants need the tie-breaker.
`CHECK_DEADLOCK FALSE`, because the operations run out. No liveness is claimed: a thread
may hold its transaction for ever. Left out: codecs, expiry and tags, which filter a read;
the contents of events.

## 7. `ContextBudget`, `AgentRun`

`ContextBudget` is what the two context layers do to contents, as operators: the
after-tool chain of `runtime/context/` and the sanitising membrane (`Completed`), and the
budget check with its pressure tiers, compaction and refusal (`Fitted`, `Refused`). A
content is its kind, its size in tokens and the form the layers leave it in. A tool's
response also carries what the layers find out about it and the model takes as given:
whether the tool's output comes from a binary and the sanitizer can serialise it, what the
compactor leaves of it as it is (list cap, largest-first truncation with its pass limit,
or all of it where the compactor raises) and its size in the sanitizer's frame.

A framed response is one string, so the compactor can only keep it or cut it to 40
characters, all of them inside the BEGIN line: over its bound, nothing a binary's tool
said remains, and no END line either. `run_python` sizes its dict so that
"the always-last after-tool compactor never silently truncates a value"
(`run_python.py:60`); the frame and the
escaping of JSON within JSON come on top of that size, and what goes over the bound then
goes as a whole. `BinaryDataFramed` says what the order of the chain does guarantee:
data of a binary are never in a conversation or a request outside a frame, or in part.
It is not said of a response the sanitizer raises on, which passes as it is.

`AgentRun` is a run of a pipeline of agents: the sequential shell and its parallel groups,
and for each agent the loop of model and tool calls with the callback chain in its order
(capture, throttle, turn limit, budget, usage slot; usage; guards and recoveries; the
after-tool chain; the checkpoint recorder). Agents are coroutines of one event loop, so a
step runs to the next await.

| Variables | Code |
|---|---|
| `session` | the callbacks' session keys: captured request, turn counts, usage slots, the token accumulator, the two checkpoint keys |
| `cool`, `left` | the process-wide throttle stamp as time left; an agent's remaining sleep |
| `history`, `request` | the conversation of an agent; the contents its provider works on |
| `run`, `pc`, `groups`, `entry` | the run and its position; `run_single_query` or ADK's web runner |
| `saved`, `report` | checkpoints persisted; `token_usage_json` |
| `spent`, `made`, `since` | observations: what the models answered with, calls made, time since an agent's last call |

Left out: the model- and tool-call counters, retries inside one provider call (one
answer or failure), the texts other agents contribute "for context", the system
instruction (the budget does not estimate it either). ADK's rebuilding of the
conversation is external and modelled from how the callbacks use it.

| Run | Instance | Checks |
|---|---|---|
| `agent_run` | an agent with its conversation, or two isolated lenses on two models, in parallel or in sequence; two runs; 540 thousand states | `TypeOK`, `UsageExact`, `RequestFits`, `BinaryDataFramed`, `AgentCallsSpaced`, `RunEnds` |

Two agents on two models are the least that can mix usage rows; two runs show what a
session inherits; limits of one and two turns with the grace of two reach the hard stop;
the sizes reach every tier, a framed response within its bound and one over it, one that
truncation leaves over the bound, and one that compaction lengthens, so that a request
in the warning tier grows and one in the hard tier is refused. `CHECK_DEADLOCK FALSE`, because the user stops asking.

`RunEnds` assumes weak fairness of `Going`: as long as anything can go on without the
user, something does. The event loop runs its coroutines, time passes, and a provider or
tool answers or fails (requests have timeouts and a bounded number of retries). Nothing
is assumed of the user.

## 8. Where the code and its comments disagree

Each of these runs finds the property violated. `PROJECT.json` quotes the lines.

| Run | Property | In short |
|---|---|---|
| `reset_keeps_dnlib` | `NewSampleOwesNothing` | the reset for a new sample keeps the dnlib result and the deep-pass mark |
| `failed_by_hash` | `FailedAcquireLeavesNoSample` | a failed acquire by hash leaves the previous sample to be analysed again |
| `ghidra_reuse` | `ReusedProjectIsHeld` | the next pipeline of a session is told to reuse a project on a pod already given back |
| `stale_native` | `NativeIsOfThisSample` | a JVM package's native evidence is re-anchored to the native sample of the next turn |
| `silent_loss` | `LossIsSurfaced` | an event is lost to a locked database while the service reports itself healthy |
| `turn_limit` | `TurnLimitIsPerRun` | the turn count outlives the run: a follow-up turn stops an agent that did less than its limit |

Stated in the modules, known to fail, without a run of their own:

| Property | Where | In short |
|---|---|---|
| `LayersArePeeled` (`DeobfLoop`) | `deobf_gate.py:183` | the gate ends the loop for want of progress right after a worker recovered a layer |
| `OwnSummaryReadable` (`DeobfLoop`) | `deobf_gate.py:570` | the gate cannot read the exit reason it writes for a bad snapshot |
| `NothingLeftAtExit` (`SandboxSession`) | `sandbox_session.py:107`, `:159` | pods claimed without a session, or interrupted between two tables, are given back by nobody |
| `OwnTunnelAnswers` (`SandboxSession`) | `portforward.py:196` | with two cases in a process, an engine can be ready behind the other case's tunnel |
| `GateNeverRaises` (`EvidencePipeline`) | `deep_analysis_gate.py:94`, `:111` | the gate raises on a dropped identity, or when its own limitation has no room |
| `CheckpointKept` (`AgentRun`) | `budget.py:55`, `services.py:220` | the budget check and the recorder use different keys, so no checkpoint is persisted |

Met while modelling, promised by no line, and so no property: parallel branches that wake
in the throttle together call in a burst; a refused budget ends its agent and not the run;
a `[Compacted]` marker is longer than a tiny result; an error caught inside an outer SQLite
transaction keeps the inner operation's partial writes; the in-memory backend accepts
unknown scopes where SQLite's foreign keys do not, and there the raw `IntegrityError`
passes the port; the second of two processes that migrate together fails to start once.

## 9. Proofs

`DeobfLoopProofs` proves, for any finite sets of artifacts and strings, any plans,
snapshots and bounds that satisfy `InputAssumption`, `BoundAssumption` and
`NoneAssumption`:

| Theorem | Property | Argument |
|---|---|---|
| `TypeCorrect` | `TypeOK` | one lemma per group of actions; `TypeOK` carries its own strengthening, that a loop in progress has rounds left |
| `AuthorityIsKept` | `AuthorityKept` | every action that changes the artifact goes through `Advance` or advances the plan itself |
| `ProvenanceFollows` | `ProvenanceFollowsArtifact` | inductive as it stands: whoever moves the artifact writes the line, and UPX drops a stale one |
| `LoopEndsSummarised` | `LoopEndsWithSummary` | the gate's iteration is never behind the LoopAgent's rounds (`rounds <= iteration`), so a last round always takes an exit reason |
| `RoundsStartClean` | `RoundStartsClean` | results are written only between a round's start and its gate, and the gate that goes round resets them |
| `LayersAreEvidence` | `RecoveredLayerIsEvidence` | a scripted or de4dot result of the round names the current artifact unless a later recovery replaced it |
| `EvidenceGrows` | `EvidenceOnlyGrows` | the prior envelope is part of every envelope the gate builds |
| `DecodedIsAccounted` | `DecodedStringsAccounted` | the gate's outcome for FLOSS is either the result itself, whose records are appended unless the envelope is full, or `result_invalid`, which becomes a limitation |
| `DeepRunsOncePerLayer` | `DeepOncePerLayer` | whatever replaces the artifact, a layer the analyst ran on since it became current carries the mark (`MarkedWhenAnalysed`) |

`DeepOncePerLayer` is of a stay on a layer. A managed dump is admitted unless it is the
current artifact, so a worker may hand back the layer it came from two steps ago, and the
mark is of one layer: such a layer is analysed once more, which the instance of `layers`
reaches.

`SandboxSessionProofs` proves, for any cases, pods, pools and ports that satisfy
`PoolAssumption` (an engine's port is its own, as the descriptors' constants are) and
`NoneAssumption`, and for any number of attempts and pipelines:

| Theorem | Property | Argument |
|---|---|---|
| `TablesTyped` | `TypeOK` | one lemma per group of actions; needs that the call's pod is a pod (`CallHoldsPod`) |
| `SessionsAreClaims` | `SessionBacksEntry` | from claim to registration the call has the pod of its entry (`CallHoldsPod`); a failed attempt drops entry and session together; a release frees claims only of a case whose sessions it has popped (`ReleasePopped`) |
| `ReleaseIsScoped` | `ScopedRelease` | the two steps that delete a claim take it from the call's case |
| `ReadyEnginesWired` | `ReadyEngineWired` | only running cases have ready engines and the one being prepared is not ready (`LifeInv`), so failures and releases touch none; two engines never share a key (`KeysApart`) |
| `ForwardsAccounted` | `NoOrphanForward` | a tunnel is unregistered while it is probed (`ProbeUnregistered`), so registering it replaces no other |

The inductive invariants are `SessionInv` and, above it, `WireInv`. The strengthenings
are stated at the head of each part of the two modules, with the reason they are needed.

`FoldLemmas` carries what the next three components need of the folds of the community
modules, by which envelopes are merged and sizes summed. Induction is over sets of
numbers (`InductionTo`: a set that holds 0, and with a number its successor, holds all up
to a bound), which a proof instantiates with a set it defines. `FoldExists` and
`FoldOnSegments` say that a fold is a function and what it is on the first k elements of
a sequence: the value after k elements, one step on from the value after k - 1.

`MemoryStoreProofs` proves, for any processes, threads, scopes, records, operations and
either backend, under `ModelAssumption`, `ThreadAssumption` and `OperationAssumption`:

| Theorem | Property | Argument |
|---|---|---|
| `UnitsAgree` | the part of `TypeOK` about units | inductive with `HostOnly`: only one process ever runs the dictionaries |
| `StoreImplementsPort` | `ImplementsPort` | every step has one of six shapes (`Shaped`) in terms of `Committed` and `Work`, each an action of the port or a stutter; a rolled back unit leaves what everybody saw (`RolledBackIsCommitted`) |
| `ReferencesAlwaysHold` | `ReferencesHold` (relations in either backend, records and scopes in SQLite) | an accepted operation preserves `Resolved`; the six shapes move only resolved contents |
| `NoUpdateLost` | `RevisionCountsUpdates` | `granted` is exactly the rungs below the committed revisions (`GrantsExact`), and a unit's own updates are what it raised them by; nobody has won before writing (`PendingInUnit`) |
| `PagesAlwaysExact` | `PagesExact` | what a reader has seen is the start of the order of the rows that its cursor marks (`Followed`), and committed contents only grow, by rows whose place in the order never changes (`WorkGrows`); a row inserted before the cursor was not there at the first page |
| `TruncationAlwaysTold` | `TruncationTold` | proved of the retrieval for any contents, limits and costs (`RetrievalTold`), then of the contents a reader can see |
| `StoreTyped` | `TypeOK` | `UnitsAgree` and the reader of `PagesInv` |

The six shapes are shown once, action by action, and the refinement, the references and
the revisions rest on them alone. `MemoryModelsProofs` has the lemmas about the order of
the rows: the key is a strict total order, so the sorted sequence exists and is one
(`SortedExists`, `SortedIs`), and a page continues the start of the order that its cursor
ends (`PageHolds`).

`EvidencePipelineProofs` proves, for any samples, layers, answers, judgments and bounds,
under `SampleAssumption`, `AnswerAssumption` (the gate, not a model, builds the envelope
of the recovery), `ValueAssumption` and `LimitAssumption`:

| Theorem | Property | Argument |
|---|---|---|
| `CoverIsEarned` | what the gate takes for covered was answered for the current artifact | every surface a coverage record counts has its receipt (`CoverageEarned`) |
| `LoopIsDecided` | the deep loop never ends undecided | the gate's counter is never behind the loop's, and both start a turn in order (`CountersAgree`) |
| `EvidenceTypes` | `TypeOK` | one lemma per helper that makes an envelope: what a guard, a salvage, a merge, the gate, the network rule and the critic return is within the bounds of the strict model |
| `VerdictIsTheGates` | `DeepStatusIsTheGates` | the loop is left only through a gate that decides (`CountersAgree`), and after it nobody writes the deep key (`VerdictStands`) |
| `ToldIsNeverLost` | `ToldIsKept` | the running best is of this invocation and this artifact and holds all that was told (`BestStands`), the gate puts it at the deep key (`ToldStands`), and the critic visits every finding there: it accepts, qualifies or rejects it by name |
| `AbsenceIsDetermined` | `AbsenceDetermined` | after the network lens's turn the key says what the rule made it say (`NetworkStands`); the critic keeps each limitation, or its list is full |
| `CompletionIsEarned` | `CompleteIsEarned` | the critic calls nothing complete that the gate did not (`ReportFollows`), the gate nothing that was not covered (`VerdictStands`), and what is covered was earned (`CoverIsEarned`) |

The inductive invariant, `PipelineInv`, is the conjunction of the parts named above with
`RouteFollowsFormat` (where the pipeline is tells which engine the format selected:
without it the gate of one engine could speak for another's key). None of the properties
is inductive alone: each is about the last stage and says nothing of the keys from which
an earlier stage leads there. `PipelineInv` holds in every state of the run `pipeline`.

`ContextBudgetProofs` and `AgentRunProofs` prove, for any agents, models, pipelines, sizes
and limits that satisfy `PipelineAssumption`, `ContentAssumption` (a tool returns a
response no layer has touched) and `BudgetAssumption`:

| Theorem | Property | Argument |
|---|---|---|
| `CallsWithinLimit` | `TypeOK` | the calls of a run never exceed the turns the session has counted (`MadeWithinTurns`), and once a run is in progress or an agent is not waiting, a first run has begun (`Begun`) |
| `UsageIsExact` | `UsageExact` | a calling agent's slot names its model (`SlotNamesModel`), and the accumulator is never of a later run than the current one, which has spent nothing while the accumulator is still of an earlier one (`AccumulatorOfRun`) |
| `CallsAreSpaced` | `AgentCallsSpaced` | the throttle's stamp, or the agent's own remaining sleep, covers the time since the agent's last call (`StampCovers`) |
| `RequestsFit` | `RequestFits` | the request at a model is what the budget check made of the agent's conversation and let pass (`Submitted`); both compactions keep what is latest of its kind (`FittedKeeps`) and the estimate is a number below the threshold (`PassedIsBelow`) |
| `BinaryDataIsFramed` | `BinaryDataFramed` | the after-tool chain is the frame and then the bound (`CompletedIs`), which keeps a frame whole or cuts it to its preview (`BoundedIs`); conversations only grow by such responses, by texts and by the guard's notes, and the budget check replaces a response as a whole (`FittedKeeps`) |

Only model-checked: the liveness properties (`CallReturns`, `ExitCompletes`, `RunEnds`),
since the prover does not handle fairness, and the six counterexamples of section 8.

## 10. Not modelled

Everything `PROJECT.json` lists as `not_modelled`. The artifact store is one copy whose
crash is a listed hazard. `SandboxSessionManager` is wired by no program of the
repository. The registry's validation runs once, on immutable descriptors, before any
agent. Intel clients, reporting, MCP descriptors, detectors, configuration and CLI only
convert data or do I/O. Of the workbench, only the execution cap and the registration of
layers matter to the loop; its token ceiling and advisor stop an agent earlier, which
`WorkerReturns` admits anyway. Model answers and tool outputs are choices throughout;
nothing is said about their quality.
