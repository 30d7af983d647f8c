--------------------------- MODULE SandboxSession ---------------------------
(***************************************************************************)
(* The sandbox pods of concurrent analyses in one process: the executor's   *)
(* claims, the session registry, the port-forward registry and Ghidra's      *)
(* per-case cache, four tables keyed by case that nothing keeps in step but  *)
(* the order of the calls made here.                                         *)
(*                                                                         *)
(* Tools are synchronous and run on the event loop, so one call is in        *)
(* progress at a time and the cases interleave between calls.  Inside a call *)
(* the cluster moves: a pod is lost, a tunnel dies, a claim or a delete       *)
(* fails.  The process can be interrupted at any step.                        *)
(***************************************************************************)
EXTENDS Naturals, FiniteSets

CONSTANTS
    Cases,          \* sandbox case ids, one per session
    Pods,           \* pods the warm pools ever hand out
    Ports,          \* local ports of the MCP engines
    EnginePools,    \* pools claimed by the prepare_* tools, through provision_pod
    DirectPools,    \* pools the deobfuscation tools and the workbench claim directly
    PortOf,         \* the port of an engine reached by port-forward, None for the others
    GhidraPool,     \* the engine that keeps the loaded project per case
    Artifacts,
    None,
    MaxAttempts,    \* RETRY_ATTEMPTS
    MaxTurns        \* bound of the model: pipelines begun in the process

Pools == EnginePools \cup DirectPools

ASSUME PoolAssumption ==
    /\ EnginePools \cap DirectPools = {} /\ GhidraPool \in EnginePools
    /\ PortOf \in [EnginePools -> Ports \cup {None}] /\ PortOf[GhidraPool] = None
    /\ \A p, q \in EnginePools : PortOf[p] = PortOf[q] => p = q \/ PortOf[p] = None
    /\ None \notin Pods \cup Ports \cup Cases
    /\ MaxAttempts \in Nat \ {0} /\ MaxTurns \in Nat

VARIABLES
    mode,           \* "up", "sweeping" (the atexit handlers run) or "exited"
    turns,          \* pipelines begun
    running,        \* cases whose pipeline is running
    call,           \* the tool call or release in progress, None between calls
    status,         \* cluster: what became of each pod
    undeleted,      \* history: pods whose claim no delete removed
    entries,        \* K8sSandboxExecutor._entries: the claimed pod per case and pool
    sessions,       \* _SESSIONS: the registered pod per case and engine
    forwards,       \* PortForwardRegistry._forwards: the pod per case and port
    procs,          \* the kubectl processes, by case, port and pod
    ghidra,         \* _GHIDRA_CASE_STATE: loaded pod and artifact per case
    ready           \* what the agent was last told of its engines in this pipeline

tables == <<entries, sessions, forwards, ghidra>>
cluster == <<status, undeleted>>
vars == <<mode, turns, running, call, cluster, tables, procs, ready>>

Keys == Cases \X Ports
PortPools == {p \in EnginePools : PortOf[p] # None}

PrepareSteps == {"claim", "stage", "serve", "probe", "register", "failed"}
PrepareCall == [kind : {"prepare"}, case : Cases, pool : EnginePools, artifact : Artifacts,
                attempt : 1 .. MaxAttempts, step : PrepareSteps, pod : Pods \cup {None}]
ReleaseCall == [kind : {"release"}, case : Cases, step : {"pop", "close", "free"},
                held : BOOLEAN]

\* "No call in progress" is not a call.
ASSUME NoneAssumption == None \notin PrepareCall \cup ReleaseCall

\* A pod is warm, claimed, lost under its claim (recycled or crashed), or gone
\* with its claim.
Statuses == {"warm", "claimed", "lost", "gone"}

\* A kubectl port-forward listens, is about to exit because the port is taken, or
\* has exited; "none" once reaped.
ProcStates == {"none", "listening", "blocked", "exited"}

Serving(pod) == status[pod] = "claimed"

\* Some process forwards the local port to a pod that answers.
Answers(port) ==
    \E c \in Cases, q \in Pods : procs[<<c, port, q>>] = "listening" /\ Serving(q)

Init ==
    /\ mode = "up" /\ turns = 0 /\ running = {} /\ call = None
    /\ status = [q \in Pods |-> "warm"] /\ undeleted = {}
    /\ entries = [c \in Cases |-> [p \in Pools |-> None]]
    /\ sessions = [c \in Cases |-> [p \in EnginePools |-> None]]
    /\ forwards = [k \in Keys |-> None]
    /\ procs = [k \in Cases \X Ports \X Pods |-> "none"]
    /\ ghidra = [c \in Cases |-> None]
    /\ ready = [c \in Cases |-> {}]

-----------------------------------------------------------------------------
(* The executor *)

\* claim: the pod the case holds, or a warm one.  (A failing claim is the
\* caller's to handle.)
Claim(c, p, q) ==
    \/ /\ entries[c][p] = q /\ UNCHANGED <<entries, status>>
    \/ /\ entries[c][p] = None /\ status[q] = "warm"
       /\ entries' = [entries EXCEPT ![c][p] = q]
       /\ status' = [status EXCEPT ![q] = "claimed"]

\* terminate: the entry goes first; the claim is then deleted by the client or by
\* kubectl, or by neither.
Terminate(c, p) ==
    LET q == entries[c][p] IN
      /\ entries' = [entries EXCEPT ![c][p] = None]
      /\ \/ q = None /\ UNCHANGED cluster
         \/ q # None /\ status' = [status EXCEPT ![q] = "gone"] /\ UNCHANGED undeleted
         \/ q # None /\ undeleted' = undeleted \cup {q} /\ UNCHANGED status

-----------------------------------------------------------------------------
(* A pipeline's life *)

Begin(c) ==
    /\ mode = "up" /\ call = None /\ c \notin running /\ turns < MaxTurns
    /\ running' = running \cup {c} /\ turns' = turns + 1
    /\ UNCHANGED <<mode, call, cluster, tables, procs, ready>>

\* The deobfuscation tools and the workbench claim their pod and register nothing;
\* a claim that fails degrades the tool's result.
DirectClaim(c, p) ==
    /\ mode = "up" /\ call = None /\ c \in running
    /\ \E q \in Pods : Claim(c, p, q)
    /\ UNCHANGED <<mode, turns, running, call, undeleted, sessions, forwards, procs,
                   ghidra, ready>>

\* prepare_*: Ghidra first looks for a project it has loaded for the case.
Prepare(c, p, a) ==
    /\ mode = "up" /\ call = None /\ c \in running
    /\ IF p = GhidraPool /\ ghidra[c] # None /\ ghidra[c].artifact = a
       THEN /\ ready' = [ready EXCEPT ![c] = @ \cup {p}]
            /\ UNCHANGED call
       ELSE /\ call' = [kind |-> "prepare", case |-> c, pool |-> p, artifact |-> a,
                        attempt |-> 1, step |-> "claim", pod |-> None]
            /\ ready' = [ready EXCEPT ![c] = @ \ {p}]
    /\ UNCHANGED <<mode, turns, running, cluster, tables, procs>>

PipelineEnd(c) ==
    /\ mode = "up" /\ call = None /\ c \in running
    /\ running' = running \ {c}
    /\ ready' = [ready EXCEPT ![c] = {}]
    /\ call' = [kind |-> "release", case |-> c, step |-> "pop", held |-> FALSE]
    /\ UNCHANGED <<mode, turns, cluster, tables, procs>>

\* A pipeline that raises never reaches its after-agent callback.
PipelineAborts(c) ==
    /\ mode = "up" /\ call = None /\ c \in running
    /\ running' = running \ {c}
    /\ ready' = [ready EXCEPT ![c] = {}]
    /\ UNCHANGED <<mode, turns, call, cluster, tables, procs>>

-----------------------------------------------------------------------------
(* provision_pod, one attempt after another *)

Preparing(step) == call # None /\ call.kind = "prepare" /\ call.step = step
Goto(step) == call' = [call EXCEPT !.step = step]

ClaimPod ==
    /\ Preparing("claim")
    /\ \/ \E q \in Pods :
            /\ Claim(call.case, call.pool, q)
            /\ call' = [call EXCEPT !.step = "stage", !.pod = q]
       \/ /\ entries[call.case][call.pool] = None
          /\ Goto("failed") /\ UNCHANGED <<entries, status>>
    /\ UNCHANGED <<mode, turns, running, undeleted, sessions, forwards, procs, ghidra, ready>>

\* kubectl cp and the check that the pod holds the file.
StagePod ==
    /\ Preparing("stage")
    /\ \/ Serving(call.pod) /\ Goto(IF call.pool \in PortPools \/ call.pool = GhidraPool
                                    THEN "serve" ELSE "register")
       \/ Goto("failed")
    /\ UNCHANGED <<mode, turns, running, cluster, tables, procs, ready>>

\* Ghidra loads the artifact, or fails to and is kept all the same: a failed load
\* degrades in place, and the session is registered.
LoadGhidra ==
    /\ Preparing("serve") /\ call.pool = GhidraPool
    /\ \/ /\ Serving(call.pod)
          /\ ghidra' = [ghidra EXCEPT ![call.case] =
                          [pod |-> call.pod, artifact |-> call.artifact]]
          /\ Goto("register") /\ UNCHANGED <<sessions, entries, forwards>>
       \/ /\ sessions' = [sessions EXCEPT ![call.case][call.pool] = call.pod]
          /\ call' = None /\ UNCHANGED <<ghidra, entries, forwards>>
    /\ UNCHANGED <<mode, turns, running, cluster, procs, ready>>

Key == <<call.case, PortOf[call.pool]>>
Proc == <<call.case, PortOf[call.pool], call.pod>>
Old == <<call.case, PortOf[call.pool], forwards[Key]>>

\* Mutant of Usable: an existing forward is kept whatever pod it points at.
UsableWhateverPod ==
    /\ forwards[Key] # None
    /\ procs[Old] # "exited" /\ Answers(PortOf[call.pool])

\* A forward is reused when it points at this pod, its process is alive and one
\* probe of the port is answered.
Usable ==
    /\ forwards[Key] = call.pod
    /\ procs[Old] # "exited" /\ Answers(PortOf[call.pool])

\* open: a forward that is not usable (or whose one probe fails) is reaped and
\* replaced; the new process listens unless another one has the port.
Reaped == IF forwards[Key] = None THEN procs ELSE [procs EXCEPT ![Old] = "none"]
Taken(pr) == \E c \in Cases, q \in Pods : pr[<<c, PortOf[call.pool], q>>] = "listening"

OpenForward ==
    /\ Preparing("serve") /\ call.pool \in PortPools
    /\ \/ /\ Usable
          /\ Goto("register") /\ UNCHANGED <<forwards, procs>>
       \/ /\ forwards' = [forwards EXCEPT ![Key] = None]
          /\ procs' = [Reaped EXCEPT ![Proc] = IF Taken(Reaped) THEN "blocked" ELSE "listening"]
          /\ Goto("probe")
    /\ UNCHANGED <<mode, turns, running, cluster, entries, sessions, ghidra, ready>>

\* Mutant of GiveUp: a forward that never answers is not reaped.
GiveUpUnreaped == Goto("failed") /\ UNCHANGED procs
\* A forward that never answers is reaped before the error is raised.
GiveUp == Goto("failed") /\ procs' = [procs EXCEPT ![Proc] = "none"]

\* The port is probed until something answers it, the process is seen to have
\* exited, or the probes run out.
ProbeForward ==
    /\ Preparing("probe")
    /\ \/ /\ procs[Proc] # "exited" /\ Answers(PortOf[call.pool])
          /\ forwards' = [forwards EXCEPT ![Key] = call.pod]
          /\ Goto("register") /\ UNCHANGED procs
       \/ GiveUp /\ UNCHANGED forwards
    /\ UNCHANGED <<mode, turns, running, cluster, entries, sessions, ghidra, ready>>

RegisterSession ==
    /\ Preparing("register")
    /\ sessions' = [sessions EXCEPT ![call.case][call.pool] = call.pod]
    /\ ready' = [ready EXCEPT ![call.case] = @ \cup {call.pool}]
    /\ call' = None
    /\ UNCHANGED <<mode, turns, running, cluster, entries, forwards, procs, ghidra>>

\* Mutant of DropSession: the failed engine's session stays registered.
DropSessionKept == UNCHANGED sessions
DropSession == sessions' = [sessions EXCEPT ![call.case][call.pool] = None]

\* Mutants of NextAttempt: the last attempt is not the last; attempts are not counted.
NextAttemptUnbounded == call' = [call EXCEPT !.attempt = @ + 1, !.step = "claim", !.pod = None]
NextAttemptUncounted == call' = [call EXCEPT !.step = "claim", !.pod = None]
\* The next attempt on a fresh pod, or the error if this was the last.
NextAttempt ==
    call' = IF call.attempt < MaxAttempts
            THEN [call EXCEPT !.attempt = @ + 1, !.step = "claim", !.pod = None]
            ELSE None

\* _release_pool_scoped after a failed attempt: this case's claim of this pool.
AttemptFails ==
    /\ Preparing("failed")
    /\ Terminate(call.case, call.pool)
    /\ DropSession /\ NextAttempt
    /\ UNCHANGED <<mode, turns, running, forwards, procs, ghidra, ready>>

Provision ==
    \/ ClaimPod \/ StagePod \/ LoadGhidra \/ OpenForward \/ ProbeForward
    \/ RegisterSession \/ AttemptFails

-----------------------------------------------------------------------------
(* release_case *)

Releasing(step) == call # None /\ call.kind = "release" /\ call.step = step

\* Mutant of PoppedSessions: the case's sessions stay registered.
PoppedSessionsKept == sessions
PoppedSessions == [sessions EXCEPT ![call.case] = [p \in EnginePools |-> None]]

\* The sessions are popped and their cleanup hooks run.
PopSessions ==
    /\ Releasing("pop")
    /\ sessions' = PoppedSessions
    /\ call' = [call EXCEPT !.step = "close",
                  !.held = \E p \in EnginePools : sessions[call.case][p] # None]
    /\ UNCHANGED <<mode, turns, running, cluster, entries, forwards, procs, ghidra, ready>>

CloseForwards ==
    /\ Releasing("close")
    /\ forwards' = [k \in Keys |-> IF k[1] = call.case THEN None ELSE forwards[k]]
    /\ procs' = [k \in DOMAIN procs |->
                   IF k[1] = call.case /\ forwards[<<k[1], k[2]>>] = k[3] THEN "none" ELSE procs[k]]
    /\ call' = IF call.held THEN [call EXCEPT !.step = "free"] ELSE None
    /\ UNCHANGED <<mode, turns, running, cluster, entries, sessions, ghidra, ready>>

\* Mutant of OwnedBy: every claim of the executor is released.
OwnedByAnyone(c, d) == TRUE
OwnedBy(c, d) == c = d

\* The executor of the case's sessions releases all claims of the case, one by one.
FreeClaims ==
    /\ Releasing("free")
    /\ \/ \E c \in Cases, p \in Pools :
            /\ OwnedBy(c, call.case) /\ entries[c][p] # None
            /\ Terminate(c, p) /\ UNCHANGED call
       \/ /\ \A p \in Pools : entries[call.case][p] = None
          /\ call' = None /\ UNCHANGED <<entries, cluster>>
    /\ UNCHANGED <<mode, turns, running, sessions, forwards, procs, ghidra, ready>>

Release == PopSessions \/ CloseForwards \/ FreeClaims

-----------------------------------------------------------------------------
(* The end of the process *)

\* Ctrl-C, at any step: the call in progress is abandoned, the kubectl children
\* die of the same signal, and the exit handlers run.
Interrupt ==
    /\ mode = "up"
    /\ mode' = "sweeping" /\ call' = None /\ running' = {}
    /\ procs' = [k \in DOMAIN procs |-> IF procs[k] = "none" THEN "none" ELSE "exited"]
    /\ ready' = [c \in Cases |-> {}]
    /\ UNCHANGED <<turns, cluster, tables>>

\* The user leaves between two pipelines.
Quit ==
    /\ mode = "up" /\ call = None /\ running = {}
    /\ mode' = "sweeping"
    /\ UNCHANGED <<turns, running, call, cluster, tables, procs, ready>>

\* release_all_cases: every case that still has a session.
Sweep(c) ==
    /\ mode = "sweeping" /\ call = None
    /\ \E p \in EnginePools : sessions[c][p] # None
    /\ call' = [kind |-> "release", case |-> c, step |-> "pop", held |-> FALSE]
    /\ UNCHANGED <<mode, turns, running, cluster, tables, procs, ready>>

\* Then the port-forward registry's close_all.
Exit ==
    /\ mode = "sweeping" /\ call = None
    /\ \A c \in Cases, p \in EnginePools : sessions[c][p] = None
    /\ mode' = "exited"
    /\ forwards' = [k \in Keys |-> None]
    /\ procs' = [k \in DOMAIN procs |->
                   IF forwards[<<k[1], k[2]>>] = k[3] THEN "none" ELSE procs[k]]
    /\ UNCHANGED <<turns, running, call, cluster, entries, sessions, ghidra, ready>>

-----------------------------------------------------------------------------
(* What the cluster and the children do on their own *)

LosePod(q) ==
    /\ mode = "up" /\ status[q] = "claimed"
    /\ status' = [status EXCEPT ![q] = "lost"]
    /\ UNCHANGED <<mode, turns, running, call, undeleted, tables, procs, ready>>

TunnelExits(k) ==
    /\ mode = "up" /\ procs[k] \in {"listening", "blocked"}
    /\ procs' = [procs EXCEPT ![k] = "exited"]
    /\ UNCHANGED <<mode, turns, running, call, cluster, tables, ready>>

-----------------------------------------------------------------------------
\* What the code does by itself once a call or the exit has begun.
Proceed == Provision \/ Release \/ (\E c \in Cases : Sweep(c)) \/ Exit

Next ==
    \/ \E c \in Cases : Begin(c) \/ PipelineEnd(c) \/ PipelineAborts(c)
    \/ \E c \in Cases, p \in DirectPools : DirectClaim(c, p)
    \/ \E c \in Cases, p \in EnginePools, a \in Artifacts : Prepare(c, p, a)
    \/ Proceed \/ Interrupt \/ Quit
    \/ (\E q \in Pods : LosePod(q)) \/ (\E k \in Cases \X Ports \X Pods : TunnelExits(k))

Spec == Init /\ [][Next]_vars
\* Every step of a call has a time limit (kubectl's timeouts, the probe budget), and
\* the exit handlers run to their end.
FairSpec == Spec /\ WF_vars(Proceed)

-----------------------------------------------------------------------------
(* Properties *)

\* Every table holds what its readers expect, and no engine is tried more often
\* than RETRY_ATTEMPTS.
TypeOK ==
    /\ mode \in {"up", "sweeping", "exited"} /\ turns \in 0 .. MaxTurns
    /\ running \in SUBSET Cases /\ call \in PrepareCall \cup ReleaseCall \cup {None}
    /\ status \in [Pods -> Statuses] /\ undeleted \in SUBSET Pods
    /\ entries \in [Cases -> [Pools -> Pods \cup {None}]]
    /\ sessions \in [Cases -> [EnginePools -> Pods \cup {None}]]
    /\ forwards \in [Keys -> Pods \cup {None}]
    /\ procs \in [Cases \X Ports \X Pods -> ProcStates]
    /\ ghidra \in [Cases -> [pod : Pods, artifact : Artifacts] \cup {None}]
    /\ ready \in [Cases -> SUBSET EnginePools]

\* A registered session is a claim the executor still has: what release_case finds
\* in _SESSIONS is never a pod that a failed attempt has already given back.
SessionBacksEntry ==
    \A c \in Cases, p \in EnginePools :
        sessions[c][p] # None => entries[c][p] = sessions[c][p]

\* An engine behind a port the agent was told is ready is one pod in the three
\* tables: the claim, the session to release it by, and the tunnel to it, even
\* after a failed attempt has put a new pod under an old tunnel.
ReadyEngineWired ==
    \A c \in Cases : \A p \in ready[c] \cap PortPools :
        /\ sessions[c][p] # None
        /\ entries[c][p] = sessions[c][p] /\ forwards[<<c, PortOf[p]>>] = sessions[c][p]

\* No claim is given back but by a call of the case that holds it: "a per-analysis
\* teardown never touches another in-flight analysis's claims".
ScopedRelease ==
    [][\A q \in Pods : (status[q] # "gone" /\ status'[q] = "gone") =>
          call # None /\ \E p \in Pools : entries[call.case][p] = q]_vars

\* A kubectl process that runs is one the registry can close, or the one being
\* opened: an unregistered one would outlive the run.
NoOrphanForward ==
    \A k \in Cases \X Ports \X Pods : procs[k] \in {"listening", "blocked"} =>
        forwards[<<k[1], k[2]>>] = k[3] \/ (Preparing("probe") /\ k = Proc)

\* A call ends, however often the cluster fails it.
CallReturns == (call # None) ~> (call = None)

\* The exit handlers end.
ExitCompletes == (mode = "sweeping") ~> (mode = "exited")

-----------------------------------------------------------------------------
(* What the code's comments say of it and the code does not keep *)

\* "Scoped, leak-free release of every pod a case holds", with the atexit sweep as
\* the backstop "for a crashed or interrupted run".  (Only executors of registered
\* sessions are asked to release; direct claims register none, and an interrupt
\* can fall between a claim and its session, or between a session and its claim.)
NothingLeftAtExit ==
    mode = "exited" => \A q \in Pods : status[q] \in {"claimed", "lost"} => q \in undeleted

\* Ghidra preparation "reuses its claimed state": the project a case is told to
\* reuse is on a pod it holds.  (The release at pipeline end does not clear the
\* cache that the next pipeline of the session reads.)
ReusedProjectIsHeld ==
    \A c \in Cases : GhidraPool \in ready[c] =>
        entries[c][GhidraPool] = ghidra[c].pod

\* open blocks "until it forwards" for this case, and one process is owned "per
\* (case, port)": a ready engine's port is not another case's tunnel.  (The port is
\* one per engine, not per case, and the probe takes any answer.)
OwnTunnelAnswers ==
    \A c, d \in Cases : \A p \in ready[c] \cap PortPools : \A q \in Pods :
        procs[<<d, PortOf[p], q>>] = "listening" => d = c

=============================================================================
