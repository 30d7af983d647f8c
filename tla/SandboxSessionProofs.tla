------------------------ MODULE SandboxSessionProofs ------------------------
(***************************************************************************)
(* Theorems about SandboxSession, for any number of cases, pods, engines     *)
(* and attempts: the tables stay in step.                                    *)
(***************************************************************************)
EXTENDS SandboxSession, TLAPS

\* A call in progress is a prepare_* tool or a release.
InPrepare == call # None /\ call.kind = "prepare"
InRelease == call # None /\ call.kind = "release"

LEMMA CallCases ==
    ASSUME TypeOK
    PROVE  /\ InPrepare => call \in PrepareCall
           /\ InRelease => call \in ReleaseCall
           /\ \A s : Preparing(s) <=> InPrepare /\ call.step = s
           /\ \A s : Releasing(s) <=> InRelease /\ call.step = s
  BY DEF TypeOK, InPrepare, InRelease, Preparing, Releasing, PrepareCall, ReleaseCall

\* From the claim to the registration, provision_pod has the pod that the executor
\* holds for the call.
CallHoldsPod ==
    (InPrepare /\ call.step \in {"stage", "serve", "probe", "register"}) =>
        /\ call.pod \in Pods /\ entries[call.case][call.pool] = call.pod

\* Only an engine with a port is probed.
ProbeHasPort == Preparing("probe") => call.pool \in PortPools

\* Once release_case has popped a case's sessions, the case has none.
ReleasePopped ==
    (InRelease /\ call.step # "pop") =>
        \A p \in EnginePools : sessions[call.case][p] = None

SessionInv == TypeOK /\ CallHoldsPod /\ ProbeHasPort /\ ReleasePopped /\ SessionBacksEntry

-----------------------------------------------------------------------------
(* The executor's two operations *)

LEMMA PoolFacts ==
    /\ EnginePools \subseteq Pools /\ DirectPools \subseteq Pools
    /\ PortPools \subseteq EnginePools /\ GhidraPool \notin PortPools
    /\ \A p \in PortPools : PortOf[p] \in Ports
  BY PoolAssumption DEF Pools, PortPools

\* claim gives the call its pod and disturbs no other claim.
LEMMA ClaimEntries ==
    ASSUME TypeOK, NEW c \in Cases, NEW p \in Pools, NEW q \in Pods, Claim(c, p, q)
    PROVE  /\ entries' \in [Cases -> [Pools -> Pods \cup {None}]]
           /\ entries'[c][p] = q
           /\ \A d \in Cases, r \in Pools :
                 entries[d][r] # None => entries'[d][r] = entries[d][r]
  <1>1. entries \in [Cases -> [Pools -> Pods \cup {None}]]
    BY DEF TypeOK
  <1>2. CASE entries[c][p] = q /\ UNCHANGED <<entries, status>>
    BY <1>1, <1>2
  <1>3. CASE entries[c][p] = None /\ entries' = [entries EXCEPT ![c][p] = q]
    BY <1>1, <1>3
  <1>. QED  BY <1>2, <1>3 DEF Claim

LEMMA ClaimCluster ==
    ASSUME TypeOK, NEW c \in Cases, NEW p \in Pools, NEW q \in Pods, Claim(c, p, q)
    PROVE  /\ status' \in [Pods -> Statuses]
           /\ \A r \in Pods : status'[r] = "gone" => status[r] = "gone"
  BY DEF TypeOK, Claim, Statuses

\* terminate drops one entry and deletes at most its pod.
LEMMA TerminateEntries ==
    ASSUME TypeOK, NEW c \in Cases, NEW p \in Pools, Terminate(c, p)
    PROVE  /\ entries' \in [Cases -> [Pools -> Pods \cup {None}]]
           /\ entries'[c][p] = None
           /\ \A d \in Cases, r \in Pools :
                 (d # c \/ r # p) => entries'[d][r] = entries[d][r]
  <1>1. entries \in [Cases -> [Pools -> Pods \cup {None}]]
    BY DEF TypeOK
  <1>2. entries' = [entries EXCEPT ![c][p] = None]
    BY DEF Terminate
  <1>. QED  BY <1>1, <1>2

LEMMA TerminateCluster ==
    ASSUME TypeOK, NEW c \in Cases, NEW p \in Pools, Terminate(c, p)
    PROVE  /\ status' \in [Pods -> Statuses] /\ undeleted' \in SUBSET Pods
           /\ \A q \in Pods : (status[q] # "gone" /\ status'[q] = "gone") => q = entries[c][p]
  <1>1. entries[c][p] \in Pods \cup {None}
    BY DEF TypeOK
  <1>2. CASE UNCHANGED <<status, undeleted>>
    BY <1>2 DEF TypeOK
  <1>3. CASE entries[c][p] # None /\ status' = [status EXCEPT ![entries[c][p]] = "gone"]
               /\ UNCHANGED undeleted
    BY <1>1, <1>3 DEF TypeOK, Statuses
  <1>4. CASE entries[c][p] # None /\ undeleted' = undeleted \cup {entries[c][p]}
               /\ UNCHANGED status
    BY <1>1, <1>4 DEF TypeOK
  <1>. QED  BY <1>2, <1>3, <1>4 DEF Terminate, cluster

-----------------------------------------------------------------------------
(* TypeOK, action by action *)

LEMMA TypeInit == Init => TypeOK
  BY PoolAssumption DEF Init, TypeOK, Keys, Pools, ProcStates, Statuses

LEMMA TypeLife ==
    ASSUME TypeOK, NEW c \in Cases, Begin(c) \/ PipelineEnd(c) \/ PipelineAborts(c)
    PROVE  TypeOK'
  <1> USE DEF tables, cluster
  <1>1. CASE Begin(c)
    BY <1>1, PoolAssumption DEF Begin, TypeOK
  <1>2. CASE PipelineEnd(c)
    <2>1. call' \in ReleaseCall
      BY <1>2 DEF PipelineEnd, ReleaseCall
    <2>. QED  BY <1>2, <2>1 DEF PipelineEnd, TypeOK
  <1>3. CASE PipelineAborts(c)
    BY <1>3 DEF PipelineAborts, TypeOK
  <1>. QED  BY <1>1, <1>2, <1>3

LEMMA TypeDirectClaim ==
    ASSUME TypeOK, NEW c \in Cases, NEW p \in DirectPools, DirectClaim(c, p)
    PROVE  TypeOK'
  <1>1. PICK q \in Pods : Claim(c, p, q)
    BY DEF DirectClaim
  <1>. QED  BY <1>1, PoolFacts, ClaimEntries, ClaimCluster DEF DirectClaim, TypeOK

LEMMA TypePrepare ==
    ASSUME TypeOK, NEW c \in Cases, NEW p \in EnginePools, NEW a \in Artifacts, Prepare(c, p, a)
    PROVE  TypeOK'
  <1>1. call' \in PrepareCall \cup ReleaseCall \cup {None}
    BY PoolAssumption DEF Prepare, TypeOK, PrepareCall, PrepareSteps
  <1>2. ready' \in [Cases -> SUBSET EnginePools]
    <2>1. ready \in [Cases -> SUBSET EnginePools]
      BY DEF TypeOK
    <2>2. ready' = [ready EXCEPT ![c] = @ \cup {p}] \/ ready' = [ready EXCEPT ![c] = @ \ {p}]
      BY DEF Prepare
    <2>. QED  BY <2>1, <2>2
  <1>. QED  BY <1>1, <1>2 DEF Prepare, TypeOK, tables, cluster

\* A step of provision_pod leaves the call typed.
LEMMA GotoTyped ==
    ASSUME TypeOK, InPrepare, NEW s \in PrepareSteps, Goto(s)
    PROVE  call' \in PrepareCall
  <1>1. call \in PrepareCall
    BY CallCases
  <1>. QED  BY <1>1 DEF Goto, PrepareCall

LEMMA TypeClaimStage ==
    ASSUME TypeOK, ClaimPod \/ StagePod
    PROVE  TypeOK'
  <1>1. InPrepare /\ call \in PrepareCall /\ call.case \in Cases /\ call.pool \in Pools
    BY CallCases, PoolFacts DEF ClaimPod, StagePod, PrepareCall
  <1>2. CASE ClaimPod
    <2>1. ASSUME NEW q \in Pods, Claim(call.case, call.pool, q),
                 call' = [call EXCEPT !.step = "stage", !.pod = q]
          PROVE  TypeOK'
      <3>1. call' \in PrepareCall
        BY <1>1, <2>1 DEF PrepareCall, PrepareSteps
      <3>. QED  BY <1>1, <1>2, <2>1, <3>1, ClaimEntries, ClaimCluster DEF ClaimPod, TypeOK
    <2>2. ASSUME Goto("failed"), UNCHANGED <<entries, status>>
          PROVE  TypeOK'
      <3>1. call' \in PrepareCall
        BY <1>1, <2>2, GotoTyped DEF PrepareSteps
      <3>. QED  BY <1>2, <2>2, <3>1 DEF ClaimPod, TypeOK
    <2>. QED  BY <1>2, <2>1, <2>2 DEF ClaimPod
  <1>3. CASE StagePod
    <2>1. call' \in PrepareCall
      BY <1>1, <1>3, GotoTyped DEF StagePod, PrepareSteps
    <2>. QED  BY <1>3, <2>1 DEF StagePod, TypeOK, tables, cluster
  <1>. QED  BY <1>2, <1>3

LEMMA TypeLoadRegister ==
    ASSUME TypeOK, CallHoldsPod, LoadGhidra \/ RegisterSession
    PROVE  TypeOK'
  <1>1. InPrepare /\ call \in PrepareCall /\ call.case \in Cases /\ call.pool \in EnginePools
        /\ call.artifact \in Artifacts /\ call.pod \in Pods
    BY CallCases DEF LoadGhidra, RegisterSession, PrepareCall, CallHoldsPod
  <1>2. [sessions EXCEPT ![call.case][call.pool] = call.pod]
           \in [Cases -> [EnginePools -> Pods \cup {None}]]
    BY <1>1 DEF TypeOK
  <1>3. CASE LoadGhidra
    <2>1. CASE ghidra' = [ghidra EXCEPT ![call.case] =
                            [pod |-> call.pod, artifact |-> call.artifact]]
                 /\ Goto("register") /\ UNCHANGED <<sessions, entries, forwards>>
      <3>1. call' \in PrepareCall
        BY <1>1, <2>1, GotoTyped DEF PrepareSteps
      <3>2. ghidra' \in [Cases -> [pod : Pods, artifact : Artifacts] \cup {None}]
        BY <1>1, <2>1 DEF TypeOK
      <3>. QED  BY <1>3, <2>1, <3>1, <3>2 DEF LoadGhidra, TypeOK, cluster
    <2>2. CASE sessions' = [sessions EXCEPT ![call.case][call.pool] = call.pod]
                 /\ call' = None /\ UNCHANGED <<ghidra, entries, forwards>>
      BY <1>2, <1>3, <2>2 DEF LoadGhidra, TypeOK, cluster
    <2>. QED  BY <1>3, <2>1, <2>2 DEF LoadGhidra
  <1>4. CASE RegisterSession
    <2>1. ready' \in [Cases -> SUBSET EnginePools]
      BY <1>1, <1>4 DEF RegisterSession, TypeOK
    <2>. QED  BY <1>2, <1>4, <2>1 DEF RegisterSession, TypeOK, cluster
  <1>. QED  BY <1>3, <1>4

LEMMA KeyTyped ==
    ASSUME TypeOK, CallHoldsPod, ProbeHasPort,
           Preparing("probe") \/ (Preparing("serve") /\ call.pool \in PortPools)
    PROVE  /\ InPrepare /\ call \in PrepareCall /\ call.pod \in Pods
           /\ call.pool \in PortPools /\ call.case \in Cases
           /\ Key \in Keys /\ Proc \in Cases \X Ports \X Pods
  <1>1. InPrepare /\ call \in PrepareCall /\ call.pod \in Pods /\ call.pool \in PortPools
    BY CallCases DEF CallHoldsPod, ProbeHasPort
  <1>2. call.case \in Cases /\ PortOf[call.pool] \in Ports
    BY <1>1, PoolFacts DEF PrepareCall
  <1>. QED  BY <1>1, <1>2 DEF Key, Keys, Proc

LEMMA TypeForward ==
    ASSUME TypeOK, CallHoldsPod, ProbeHasPort, OpenForward \/ ProbeForward
    PROVE  TypeOK'
  <1>1. /\ InPrepare /\ call \in PrepareCall /\ call.pod \in Pods
        /\ Key \in Keys /\ Proc \in Cases \X Ports \X Pods
    BY KeyTyped DEF OpenForward, ProbeForward
  <1>2. forwards \in [Keys -> Pods \cup {None}] /\ procs \in [Cases \X Ports \X Pods -> ProcStates]
    BY DEF TypeOK
  <1>3. CASE OpenForward
    <2>1. call' \in PrepareCall
      BY <1>1, <1>3, GotoTyped DEF OpenForward, PrepareSteps
    <2>2. forwards' \in [Keys -> Pods \cup {None}]
      BY <1>1, <1>2, <1>3 DEF OpenForward
    <2>3. Reaped \in [Cases \X Ports \X Pods -> ProcStates]
      BY <1>2 DEF Reaped, ProcStates
    <2>4. procs' \in [Cases \X Ports \X Pods -> ProcStates]
      <3>1. CASE UNCHANGED procs
        BY <1>2, <3>1
      <3>2. CASE procs' = [Reaped EXCEPT ![Proc] = IF Taken(Reaped) THEN "blocked" ELSE "listening"]
        BY <2>3, <3>2 DEF ProcStates
      <3>. QED  BY <1>3, <3>1, <3>2 DEF OpenForward
    <2>. QED  BY <1>3, <2>1, <2>2, <2>4 DEF OpenForward, TypeOK, cluster
  <1>4. CASE ProbeForward
    <2>1. call' \in PrepareCall
      BY <1>1, <1>4, GotoTyped DEF ProbeForward, GiveUp, PrepareSteps
    <2>2. forwards' \in [Keys -> Pods \cup {None}]
      BY <1>1, <1>2, <1>4 DEF ProbeForward
    <2>3. procs' \in [Cases \X Ports \X Pods -> ProcStates]
      BY <1>2, <1>4 DEF ProbeForward, GiveUp, ProcStates
    <2>. QED  BY <1>4, <2>1, <2>2, <2>3 DEF ProbeForward, TypeOK, cluster
  <1>. QED  BY <1>3, <1>4

LEMMA TypeAttemptFails ==
    ASSUME TypeOK, AttemptFails
    PROVE  TypeOK'
  <1>1. call \in PrepareCall /\ call.case \in Cases /\ call.pool \in EnginePools
        /\ call.pool \in Pools /\ call.attempt \in 1 .. MaxAttempts
    BY CallCases, PoolFacts DEF AttemptFails, PrepareCall
  <1>2. Terminate(call.case, call.pool)
    BY DEF AttemptFails
  <1>3. sessions' \in [Cases -> [EnginePools -> Pods \cup {None}]]
    BY <1>1 DEF AttemptFails, DropSession, TypeOK
  <1>4. call' \in PrepareCall \cup {None}
    <2>1. call.attempt < MaxAttempts => call.attempt + 1 \in 1 .. MaxAttempts
      BY <1>1, PoolAssumption
    <2>. QED  BY <1>1, <2>1 DEF AttemptFails, NextAttempt, PrepareCall, PrepareSteps
  <1>. QED  BY <1>1, <1>2, <1>3, <1>4, TerminateEntries, TerminateCluster DEF AttemptFails, TypeOK

LEMMA TypeRelease ==
    ASSUME TypeOK, Release
    PROVE  TypeOK'
  <1>1. call \in ReleaseCall /\ call.case \in Cases
    BY CallCases DEF Release, PopSessions, CloseForwards, FreeClaims, ReleaseCall
  <1>2. CASE PopSessions
    <2>1. call' \in ReleaseCall
      BY <1>1, <1>2 DEF PopSessions, ReleaseCall
    <2>2. sessions' \in [Cases -> [EnginePools -> Pods \cup {None}]]
      BY <1>1, <1>2 DEF PopSessions, PoppedSessions, TypeOK
    <2>. QED  BY <1>2, <2>1, <2>2 DEF PopSessions, TypeOK, cluster
  <1>3. CASE CloseForwards
    <2>1. call' \in ReleaseCall \cup {None}
      BY <1>1, <1>3 DEF CloseForwards, ReleaseCall
    <2>2. forwards' \in [Keys -> Pods \cup {None}]
      BY <1>3 DEF CloseForwards, TypeOK
    <2>3. procs' \in [Cases \X Ports \X Pods -> ProcStates]
      BY <1>3 DEF CloseForwards, TypeOK, ProcStates
    <2>. QED  BY <1>3, <2>1, <2>2, <2>3 DEF CloseForwards, TypeOK, cluster
  <1>4. CASE FreeClaims
    <2>1. CASE \E c \in Cases, p \in Pools :
                  OwnedBy(c, call.case) /\ entries[c][p] # None
                    /\ Terminate(c, p) /\ UNCHANGED call
      <3>1. PICK c \in Cases, p \in Pools : Terminate(c, p) /\ UNCHANGED call
        BY <2>1
      <3>. QED  BY <1>4, <3>1, TerminateEntries, TerminateCluster DEF FreeClaims, TypeOK
    <2>2. CASE call' = None /\ UNCHANGED <<entries, cluster>>
      BY <1>4, <2>2 DEF FreeClaims, TypeOK, cluster
    <2>. QED  BY <1>4, <2>1, <2>2 DEF FreeClaims
  <1>. QED  BY <1>2, <1>3, <1>4 DEF Release

LEMMA TypeExit ==
    ASSUME TypeOK, Interrupt \/ Quit \/ (\E c \in Cases : Sweep(c)) \/ Exit
    PROVE  TypeOK'
  <1> USE DEF tables, cluster
  <1>1. CASE Interrupt
    <2>1. procs' \in [Cases \X Ports \X Pods -> ProcStates]
      BY <1>1 DEF Interrupt, TypeOK, ProcStates
    <2>. QED  BY <1>1, <2>1 DEF Interrupt, TypeOK
  <1>2. CASE Quit
    BY <1>2 DEF Quit, TypeOK
  <1>3. ASSUME NEW c \in Cases, Sweep(c) PROVE TypeOK'
    <2>1. call' \in ReleaseCall
      BY <1>3 DEF Sweep, ReleaseCall
    <2>. QED  BY <1>3, <2>1 DEF Sweep, TypeOK
  <1>4. CASE Exit
    <2>1. procs' \in [Cases \X Ports \X Pods -> ProcStates]
      BY <1>4 DEF Exit, TypeOK, ProcStates
    <2>2. forwards' \in [Keys -> Pods \cup {None}]
      BY <1>4 DEF Exit, TypeOK
    <2>. QED  BY <1>4, <2>1, <2>2 DEF Exit, TypeOK
  <1>. QED  BY <1>1, <1>2, <1>3, <1>4

LEMMA TypeCluster ==
    ASSUME TypeOK,
           (\E q \in Pods : LosePod(q)) \/ (\E k \in Cases \X Ports \X Pods : TunnelExits(k))
    PROVE  TypeOK'
  <1> USE DEF tables, cluster
  <1>1. ASSUME NEW q \in Pods, LosePod(q) PROVE TypeOK'
    BY <1>1 DEF LosePod, TypeOK, Statuses
  <1>2. ASSUME NEW k \in Cases \X Ports \X Pods, TunnelExits(k) PROVE TypeOK'
    <2>1. procs' \in [Cases \X Ports \X Pods -> ProcStates]
      BY <1>2 DEF TunnelExits, TypeOK, ProcStates
    <2>. QED  BY <1>2, <2>1 DEF TunnelExits, TypeOK
  <1>. QED  BY <1>1, <1>2

LEMMA TypeStep ==
    ASSUME SessionInv, [Next]_vars
    PROVE  TypeOK'
  <1>1. TypeOK /\ CallHoldsPod /\ ProbeHasPort
    BY DEF SessionInv
  <1>2. CASE UNCHANGED vars
    BY <1>1, <1>2 DEF vars, tables, cluster, TypeOK
  <1>3. CASE Next
    BY <1>1, <1>3, TypeLife, TypeDirectClaim, TypePrepare, TypeClaimStage, TypeLoadRegister,
       TypeForward, TypeAttemptFails, TypeRelease, TypeExit, TypeCluster
       DEF Next, Proceed, Provision
  <1>. QED  BY <1>2, <1>3

-----------------------------------------------------------------------------
(* The claim, the session and the call *)

\* Most steps move neither the claims nor the sessions.
LEMMA TablesFrame ==
    ASSUME [Next]_vars
    PROVE  \/ UNCHANGED <<entries, sessions>>
           \/ ClaimPod \/ LoadGhidra \/ RegisterSession \/ AttemptFails
           \/ PopSessions \/ FreeClaims
           \/ \E c \in Cases, p \in DirectPools : DirectClaim(c, p)
  BY DEF Next, vars, tables, Proceed, Provision, Release, Begin, PipelineEnd, PipelineAborts,
     Prepare, StagePod, OpenForward, ProbeForward, CloseForwards, Interrupt, Quit, Sweep, Exit,
     LosePod, TunnelExits

\* A claim keeps the pods that the sessions name.
LEMMA ClaimKeepsSessions ==
    ASSUME TypeOK, SessionBacksEntry, NEW c \in Cases, NEW p \in Pools, NEW q \in Pods,
           Claim(c, p, q), UNCHANGED sessions
    PROVE  SessionBacksEntry'
  <1> SUFFICES ASSUME NEW d \in Cases, NEW r \in EnginePools, sessions[d][r] # None
               PROVE  entries'[d][r] = sessions[d][r]
    BY DEF SessionBacksEntry
  <1>1. r \in Pools /\ entries[d][r] = sessions[d][r]
    BY PoolFacts DEF SessionBacksEntry
  <1>. QED  BY <1>1, ClaimEntries

\* A session registered for the call's engine names the pod the call holds.
LEMMA RegisterKeepsSessions ==
    ASSUME TypeOK, CallHoldsPod, SessionBacksEntry, LoadGhidra \/ RegisterSession
    PROVE  SessionBacksEntry'
  <1>1. /\ call.case \in Cases /\ call.pool \in EnginePools
        /\ entries[call.case][call.pool] = call.pod /\ UNCHANGED entries
    BY CallCases DEF LoadGhidra, RegisterSession, PrepareCall, CallHoldsPod
  <1>2. CASE UNCHANGED sessions
    BY <1>1, <1>2 DEF SessionBacksEntry
  <1>3. CASE sessions' = [sessions EXCEPT ![call.case][call.pool] = call.pod]
    <2>1. sessions \in [Cases -> [EnginePools -> Pods \cup {None}]]
      BY DEF TypeOK
    <2>2. \A d \in Cases, r \in EnginePools :
             sessions'[d][r] = IF d = call.case /\ r = call.pool THEN call.pod
                               ELSE sessions[d][r]
      BY <1>1, <1>3, <2>1
    <2>. QED  BY <1>1, <2>2 DEF SessionBacksEntry
  <1>. QED  BY <1>2, <1>3 DEF LoadGhidra, RegisterSession

\* A failed attempt gives back the claim and drops the session of the same engine.
LEMMA FailureKeepsSessions ==
    ASSUME TypeOK, SessionBacksEntry, AttemptFails
    PROVE  SessionBacksEntry'
  <1>1. call.case \in Cases /\ call.pool \in EnginePools /\ call.pool \in Pools
    BY CallCases, PoolFacts DEF AttemptFails, PrepareCall
  <1>2. \A d \in Cases, r \in EnginePools :
           sessions'[d][r] = IF d = call.case /\ r = call.pool THEN None ELSE sessions[d][r]
    <2>1. sessions \in [Cases -> [EnginePools -> Pods \cup {None}]]
      BY DEF TypeOK
    <2>. QED  BY <1>1, <2>1 DEF AttemptFails, DropSession
  <1>3. \A d \in Cases, r \in EnginePools :
           (d # call.case \/ r # call.pool) => entries'[d][r] = entries[d][r]
    BY <1>1, PoolFacts, TerminateEntries DEF AttemptFails
  <1>. QED  BY <1>2, <1>3 DEF SessionBacksEntry

\* A release pops the sessions before it gives a claim back.
LEMMA ReleaseKeepsSessions ==
    ASSUME TypeOK, ReleasePopped, SessionBacksEntry, PopSessions \/ FreeClaims
    PROVE  SessionBacksEntry'
  <1>1. call \in ReleaseCall /\ call.case \in Cases
    BY CallCases DEF PopSessions, FreeClaims, ReleaseCall
  <1>2. CASE PopSessions
    <2>1. \A d \in Cases, r \in EnginePools :
             sessions'[d][r] = IF d = call.case THEN None ELSE sessions[d][r]
      BY <1>1, <1>2 DEF PopSessions, PoppedSessions, TypeOK
    <2>. QED  BY <1>2, <2>1 DEF PopSessions, SessionBacksEntry
  <1>3. CASE FreeClaims
    <2>1. UNCHANGED sessions /\ \A r \in EnginePools : sessions[call.case][r] = None
      BY <1>3, CallCases DEF FreeClaims, ReleasePopped
    <2>2. CASE UNCHANGED entries
      BY <2>1, <2>2 DEF SessionBacksEntry
    <2>3. ASSUME NEW p \in Pools, Terminate(call.case, p)
          PROVE  SessionBacksEntry'
      <3>1. \A d \in Cases, r \in EnginePools : d # call.case => entries'[d][r] = entries[d][r]
        BY <1>1, <2>3, PoolFacts, TerminateEntries
      <3>. QED  BY <2>1, <3>1 DEF SessionBacksEntry
    <2>. QED  BY <1>3, <2>2, <2>3 DEF FreeClaims, OwnedBy
  <1>. QED  BY <1>2, <1>3

LEMMA SessionStep ==
    ASSUME SessionInv, [Next]_vars
    PROVE  SessionBacksEntry'
  <1>1. TypeOK /\ CallHoldsPod /\ ReleasePopped /\ SessionBacksEntry
    BY DEF SessionInv
  <1>2. CASE UNCHANGED <<entries, sessions>>
    BY <1>1, <1>2 DEF SessionBacksEntry
  <1>3. ASSUME NEW c \in Cases, NEW p \in DirectPools, DirectClaim(c, p)
        PROVE  SessionBacksEntry'
    BY <1>1, <1>3, PoolFacts, ClaimKeepsSessions DEF DirectClaim
  <1>4. CASE ClaimPod
    <2>1. call.case \in Cases /\ call.pool \in Pools
      BY <1>1, <1>4, CallCases, PoolFacts DEF ClaimPod, PrepareCall
    <2>. QED  BY <1>1, <1>2, <1>4, <2>1, ClaimKeepsSessions DEF ClaimPod
  <1>. QED  BY <1>1, <1>2, <1>3, <1>4, TablesFrame, RegisterKeepsSessions,
               FailureKeepsSessions, ReleaseKeepsSessions

-----------------------------------------------------------------------------
(* What the call in progress knows *)

LEMMA HoldsStep ==
    ASSUME SessionInv, [Next]_vars
    PROVE  CallHoldsPod'
  <1>1. TypeOK /\ CallHoldsPod /\ (InPrepare => call \in PrepareCall)
        /\ (InRelease => call \in ReleaseCall)
    BY CallCases DEF SessionInv
  <1>2. CASE UNCHANGED <<call, entries>>
    BY <1>1, <1>2 DEF CallHoldsPod, InPrepare
  <1>3. CASE call' = None \/ call'.kind = "release"
    BY <1>3 DEF CallHoldsPod, InPrepare
  <1>4. CASE call'.step = "claim" \/ call'.step = "failed"
    BY <1>4 DEF CallHoldsPod, InPrepare
  <1>5. CASE ClaimPod
    <2>1. call \in PrepareCall /\ call.case \in Cases /\ call.pool \in Pools
      BY <1>1, <1>5, CallCases, PoolFacts DEF ClaimPod, PrepareCall
    <2>2. ASSUME NEW q \in Pods, Claim(call.case, call.pool, q),
                 call' = [call EXCEPT !.step = "stage", !.pod = q]
          PROVE  CallHoldsPod'
      <3>1. call'.case = call.case /\ call'.pool = call.pool /\ call'.pod = q
        BY <2>1, <2>2 DEF PrepareCall
      <3>. QED  BY <1>1, <2>1, <2>2, <3>1, ClaimEntries DEF CallHoldsPod
    <2>3. Goto("failed") => call'.step = "failed"
      BY <2>1 DEF Goto, PrepareCall
    <2>. QED  BY <1>4, <1>5, <2>2, <2>3 DEF ClaimPod
  <1>6. CASE StagePod \/ LoadGhidra \/ OpenForward \/ ProbeForward
    <2>1. /\ InPrepare /\ call \in PrepareCall /\ UNCHANGED entries
          /\ call.step \in {"stage", "serve", "probe"}
      BY <1>1, <1>6, CallCases
         DEF StagePod, LoadGhidra, OpenForward, ProbeForward, tables
    <2>2. call' = None \/ \E s \in PrepareSteps : Goto(s)
      BY <1>6 DEF StagePod, LoadGhidra, OpenForward, ProbeForward, GiveUp, PrepareSteps
    <2>3. ASSUME NEW s \in PrepareSteps, Goto(s)
          PROVE  CallHoldsPod'
      <3>1. call'.case = call.case /\ call'.pool = call.pool /\ call'.pod = call.pod
        BY <2>1, <2>3 DEF Goto, PrepareCall
      <3>. QED  BY <1>1, <2>1, <3>1 DEF CallHoldsPod
    <2>. QED  BY <1>3, <2>2, <2>3
  <1>7. CASE AttemptFails
    <2>1. call' = None \/ call'.step = "claim"
      BY <1>1, <1>7, CallCases DEF AttemptFails, NextAttempt, PrepareCall
    <2>. QED  BY <1>3, <1>4, <2>1
  <1>8. CASE Release \/ RegisterSession
    <2>1. CASE RegisterSession
      BY <1>3, <2>1 DEF RegisterSession
    <2>2. CASE Release
      <3>1. call \in ReleaseCall
        BY <1>1, <2>2, CallCases DEF Release, PopSessions, CloseForwards, FreeClaims
      <3>2. call' = None \/ call'.kind = "release"
        BY <2>2, <3>1 DEF Release, PopSessions, CloseForwards, FreeClaims, ReleaseCall
      <3>. QED  BY <1>3, <3>2
    <2>. QED  BY <1>8, <2>1, <2>2
  <1>9. CASE \E c \in Cases, p \in DirectPools : DirectClaim(c, p)
    BY <1>3, <1>9 DEF DirectClaim
  <1>10. CASE \E c \in Cases, p \in EnginePools, a \in Artifacts : Prepare(c, p, a)
    <2>1. UNCHANGED <<call, entries>> \/ call'.step = "claim"
      BY <1>10 DEF Prepare, tables
    <2>. QED  BY <1>2, <1>4, <2>1
  <1>11. CASE \E c \in Cases : PipelineEnd(c) \/ Sweep(c)
    BY <1>3, <1>11 DEF PipelineEnd, Sweep
  <1>12. CASE Interrupt \/ Quit \/ Exit \/ UNCHANGED vars
              \/ (\E c \in Cases : Begin(c) \/ PipelineAborts(c))
              \/ (\E q \in Pods : LosePod(q))
              \/ (\E k \in Cases \X Ports \X Pods : TunnelExits(k))
    BY <1>2, <1>3, <1>12
       DEF Interrupt, Quit, Exit, Begin, PipelineAborts, LosePod, TunnelExits, vars, tables
  <1>. QED  BY <1>5, <1>6, <1>7, <1>8, <1>9, <1>10, <1>11, <1>12 DEF Next, Proceed, Provision

\* A call in progress goes on to a step of its own kind, or ends; a new one starts
\* at its first step.
LEMMA CallMoves ==
    ASSUME TypeOK, [Next]_vars
    PROVE  \/ call' = call
           \/ call' = None
           \/ OpenForward /\ call'.pool = call.pool /\ call'.kind = "prepare"
           \/ PopSessions /\ call'.kind = "release" /\ call'.case = call.case
           \/ CloseForwards /\ call'.kind = "release" /\ call'.case = call.case
           \/ call'.kind = "prepare" /\ call'.step # "probe"
           \/ call'.kind = "release" /\ call'.step = "pop"
  <1>1. (InPrepare => call \in PrepareCall) /\ (InRelease => call \in ReleaseCall)
    BY CallCases
  <1>2. CASE ClaimPod \/ StagePod \/ LoadGhidra \/ OpenForward \/ ProbeForward
             \/ RegisterSession \/ AttemptFails
    <2>1. call \in PrepareCall
      BY <1>1, <1>2, CallCases DEF ClaimPod, StagePod, LoadGhidra, OpenForward, ProbeForward,
         RegisterSession, AttemptFails
    <2>. QED  BY <1>2, <2>1 DEF PrepareCall, ClaimPod, StagePod, LoadGhidra, OpenForward,
              ProbeForward, GiveUp, RegisterSession, AttemptFails, NextAttempt, Goto
  <1>3. CASE PopSessions \/ CloseForwards \/ FreeClaims
    <2>1. call \in ReleaseCall
      BY <1>1, <1>3, CallCases DEF PopSessions, CloseForwards, FreeClaims
    <2>. QED  BY <1>3, <2>1 DEF ReleaseCall, PopSessions, CloseForwards, FreeClaims
  <1>4. CASE (\E c \in Cases, p \in DirectPools : DirectClaim(c, p))
             \/ (\E c \in Cases, p \in EnginePools, a \in Artifacts : Prepare(c, p, a))
    BY <1>4 DEF DirectClaim, Prepare
  <1>5. CASE (\E c \in Cases : PipelineEnd(c) \/ Sweep(c) \/ Begin(c) \/ PipelineAborts(c))
             \/ Interrupt \/ Quit \/ Exit \/ UNCHANGED vars
             \/ (\E q \in Pods : LosePod(q))
             \/ (\E k \in Cases \X Ports \X Pods : TunnelExits(k))
    BY <1>5 DEF PipelineEnd, Sweep, Begin, PipelineAborts, Interrupt, Quit, Exit, LosePod,
       TunnelExits, vars
  <1>. QED  BY <1>2, <1>3, <1>4, <1>5 DEF Next, Proceed, Provision, Release

LEMMA ProbeStep ==
    ASSUME SessionInv, [Next]_vars
    PROVE  ProbeHasPort'
  <1>1. TypeOK /\ ProbeHasPort
    BY DEF SessionInv
  <1>2. CASE OpenForward /\ call'.pool = call.pool
    BY <1>2 DEF OpenForward, ProbeHasPort
  <1>. QED  BY <1>1, <1>2, CallMoves DEF ProbeHasPort, Preparing

\* No session is registered while a release is in progress.
LEMMA PoppedStep ==
    ASSUME SessionInv, [Next]_vars
    PROVE  ReleasePopped'
  <1>1. TypeOK /\ ReleasePopped /\ SessionBacksEntry
    BY DEF SessionInv
  <1>2. CASE PopSessions /\ call'.case = call.case
    <2>1. call.case \in Cases
      BY <1>1, <1>2, CallCases DEF PopSessions, ReleaseCall
    <2>2. \A p \in EnginePools : sessions'[call.case][p] = None
      BY <1>1, <1>2, <2>1 DEF PopSessions, PoppedSessions, TypeOK
    <2>. QED  BY <1>2, <2>2 DEF ReleasePopped
  <1>3. CASE CloseForwards /\ call'.case = call.case
    <2>1. InRelease /\ call.step = "close" /\ UNCHANGED sessions
      BY <1>1, <1>3, CallCases DEF CloseForwards
    <2>. QED  BY <1>1, <1>3, <2>1 DEF ReleasePopped
  <1>4. CASE call' = call
    <2>1. CASE UNCHANGED sessions
      BY <1>1, <1>4, <2>1 DEF ReleasePopped, InRelease
    <2>2. CASE LoadGhidra \/ RegisterSession \/ AttemptFails \/ ClaimPod
      BY <1>1, <1>4, <2>2, CallCases
         DEF LoadGhidra, RegisterSession, AttemptFails, ClaimPod, ReleasePopped, InRelease,
             InPrepare
    <2>3. CASE PopSessions
      <3>1. call \in ReleaseCall /\ call.step = "pop"
        BY <1>1, <2>3, CallCases DEF PopSessions
      <3>. QED  BY <1>4, <2>3, <3>1 DEF PopSessions, ReleasePopped
    <2>4. CASE FreeClaims \/ \E c \in Cases, p \in DirectPools : DirectClaim(c, p)
      BY <2>1, <2>4 DEF FreeClaims, DirectClaim
    <2>. QED  BY <2>1, <2>2, <2>3, <2>4, TablesFrame
  <1>5. CASE call' = None \/ call'.kind = "prepare" \/ call'.step = "pop"
    BY <1>5 DEF ReleasePopped, InRelease
  <1>. QED  BY <1>1, <1>2, <1>3, <1>4, <1>5, CallMoves

-----------------------------------------------------------------------------
(* The theorems *)

LEMMA SessionInit == Init => SessionInv
  <1>. SUFFICES ASSUME Init PROVE SessionInv
    OBVIOUS
  <1>1. TypeOK
    BY TypeInit
  <1>2. CallHoldsPod /\ ProbeHasPort /\ ReleasePopped
    BY DEF Init, CallHoldsPod, ProbeHasPort, ReleasePopped, InPrepare, InRelease, Preparing
  <1>3. SessionBacksEntry
    BY DEF Init, SessionBacksEntry
  <1>. QED  BY <1>1, <1>2, <1>3 DEF SessionInv

LEMMA SessionInvariant == Spec => []SessionInv
  <1>1. SessionInv /\ [Next]_vars => SessionInv'
    <2> SUFFICES ASSUME SessionInv, [Next]_vars PROVE SessionInv'
      OBVIOUS
    <2>. QED  BY TypeStep, SessionStep, HoldsStep, ProbeStep, PoppedStep DEF SessionInv
  <1>. QED  BY <1>1, SessionInit, PTL DEF Spec

\* The four tables are well formed in every reachable state, and no call of
\* provision_pod makes more than RETRY_ATTEMPTS attempts.
THEOREM TablesTyped == Spec => []TypeOK
  <1>1. SessionInv => TypeOK
    BY DEF SessionInv
  <1>. QED  BY <1>1, SessionInvariant, PTL

\* However claims, failed attempts, losses and releases interleave, a session in
\* _SESSIONS names the pod the executor still holds for the same case and engine.
THEOREM SessionsAreClaims == Spec => []SessionBacksEntry
  <1>1. SessionInv => SessionBacksEntry
    BY DEF SessionInv
  <1>. QED  BY <1>1, SessionInvariant, PTL

\* A claim is deleted only by a call of the case that holds it.
THEOREM ReleaseIsScoped == Spec => ScopedRelease
  <1> DEFINE Scoped == \A q \in Pods : (status[q] # "gone" /\ status'[q] = "gone") =>
                           call # None /\ \E p \in Pools : entries[call.case][p] = q
  <1>1. SessionInv /\ [Next]_vars => [Scoped]_vars
    <2> SUFFICES ASSUME SessionInv, Next PROVE Scoped
      OBVIOUS
    <2>1. TypeOK
      BY DEF SessionInv
    <2>2. CASE UNCHANGED status
      BY <2>2
    <2>3. ASSUME NEW c \in Cases, NEW p \in Pools, NEW q \in Pods, Claim(c, p, q)
          PROVE  Scoped
      BY <2>1, <2>3, ClaimCluster
    <2>4. CASE ClaimPod
      <3>1. call.case \in Cases /\ call.pool \in Pools
        BY <2>1, <2>4, CallCases, PoolFacts DEF ClaimPod, PrepareCall
      <3>. QED  BY <2>2, <2>3, <2>4, <3>1 DEF ClaimPod
    <2>5. CASE \E c \in Cases, p \in DirectPools : DirectClaim(c, p)
      BY <2>3, <2>5, PoolFacts DEF DirectClaim
    <2>6. ASSUME NEW p \in Pools, call # None, call.case \in Cases, Terminate(call.case, p)
          PROVE  Scoped
      BY <2>1, <2>6, TerminateCluster
    <2>7. CASE AttemptFails
      BY <2>1, <2>6, <2>7, CallCases, PoolFacts DEF AttemptFails, PrepareCall, InPrepare
    <2>8. CASE FreeClaims
      <3>1. call # None /\ call.case \in Cases
        BY <2>1, <2>8, CallCases DEF FreeClaims, ReleaseCall, InRelease
      <3>. QED  BY <2>2, <2>6, <2>8, <3>1 DEF FreeClaims, OwnedBy, cluster
    <2>9. ASSUME NEW q \in Pods, LosePod(q)
          PROVE  Scoped
      BY <2>1, <2>9 DEF LosePod, TypeOK
    <2>10. CASE StagePod \/ LoadGhidra \/ OpenForward \/ ProbeForward \/ RegisterSession
                \/ PopSessions \/ CloseForwards
      BY <2>2, <2>10 DEF StagePod, LoadGhidra, OpenForward, ProbeForward, RegisterSession,
         PopSessions, CloseForwards, cluster
    <2>11. CASE Interrupt \/ Quit \/ Exit
                \/ (\E c \in Cases : Begin(c) \/ PipelineEnd(c) \/ PipelineAborts(c) \/ Sweep(c))
                \/ (\E c \in Cases, p \in EnginePools, a \in Artifacts : Prepare(c, p, a))
                \/ (\E k \in Cases \X Ports \X Pods : TunnelExits(k))
      BY <2>2, <2>11 DEF Interrupt, Quit, Exit, Begin, PipelineEnd, PipelineAborts, Sweep,
         Prepare, TunnelExits, cluster
    <2>. QED  BY <2>4, <2>5, <2>7, <2>8, <2>9, <2>10, <2>11 DEF Next, Proceed, Provision, Release
  <1>. QED  BY <1>1, SessionInvariant, PTL DEF Spec, ScopedRelease

-----------------------------------------------------------------------------
(* The tunnel of a ready engine *)

\* Only a running pipeline's engines are ready, and the engine being prepared is not
\* ready yet; a release runs when the case's pipeline does not.
LifeInv ==
    /\ \A c \in Cases : ready[c] # {} => c \in running
    /\ InPrepare => call.case \in running /\ call.pool \notin ready[call.case]
    /\ InRelease => call.case \notin running
    /\ mode # "up" => running = {}

\* The tunnel that provision_pod goes on to register is open to the call's pod.
ForwardOpened ==
    (Preparing("register") /\ call.pool \in PortPools) => forwards[Key] = call.pod

\* A tunnel is not registered before it is known to answer.
ProbeUnregistered == Preparing("probe") => forwards[Key] = None

WireInv == LifeInv /\ ForwardOpened /\ ProbeUnregistered /\ ReadyEngineWired /\ NoOrphanForward

\* An attempt stays with its case and engine; a release with its case.
LEMMA ProvisionCall ==
    ASSUME TypeOK, Provision
    PROVE  /\ InPrepare /\ call \in PrepareCall /\ call.case \in Cases
           /\ call.pool \in EnginePools /\ UNCHANGED <<mode, running>>
           /\ \/ call' = None
              \/ call'.kind = "prepare" /\ call'.case = call.case /\ call'.pool = call.pool
  <1>1. InPrepare /\ call \in PrepareCall
    BY CallCases DEF Provision, ClaimPod, StagePod, LoadGhidra, OpenForward, ProbeForward,
       RegisterSession, AttemptFails
  <1>. QED  BY <1>1 DEF PrepareCall, Provision, ClaimPod, StagePod, LoadGhidra, OpenForward,
            ProbeForward, GiveUp, RegisterSession, AttemptFails, NextAttempt, Goto

LEMMA ReleasingCall ==
    ASSUME TypeOK, Release
    PROVE  /\ InRelease /\ call \in ReleaseCall /\ call.case \in Cases
           /\ UNCHANGED <<mode, running, ready>>
           /\ \/ call' = None
              \/ call'.kind = "release" /\ call'.case = call.case
  <1>1. InRelease /\ call \in ReleaseCall
    BY CallCases DEF Release, PopSessions, CloseForwards, FreeClaims
  <1>. QED  BY <1>1 DEF ReleaseCall, Release, PopSessions, CloseForwards, FreeClaims

LEMMA LifeStep ==
    ASSUME SessionInv, LifeInv, [Next]_vars
    PROVE  LifeInv'
  <1>1. TypeOK /\ ready \in [Cases -> SUBSET EnginePools] /\ running \in SUBSET Cases
    BY DEF SessionInv, TypeOK
  <1>2. ASSUME NEW c \in Cases, Begin(c)
        PROVE  LifeInv'
    BY <1>1, <1>2 DEF Begin, LifeInv, InPrepare, InRelease
  <1>3. ASSUME NEW c \in Cases, PipelineEnd(c) \/ PipelineAborts(c)
        PROVE  LifeInv'
    <2>1. \A d \in Cases : ready'[d] = IF d = c THEN {} ELSE ready[d]
      BY <1>1, <1>3 DEF PipelineEnd, PipelineAborts
    <2>. QED  BY <1>1, <1>3, <2>1
              DEF PipelineEnd, PipelineAborts, LifeInv, InPrepare, InRelease
  <1>4. ASSUME NEW c \in Cases, NEW p \in EnginePools, NEW a \in Artifacts, Prepare(c, p, a)
        PROVE  LifeInv'
    <2>1. CASE ready' = [ready EXCEPT ![c] = @ \cup {p}] /\ UNCHANGED call
      BY <1>1, <1>4, <2>1 DEF Prepare, LifeInv, InPrepare, InRelease
    <2>2. CASE ready' = [ready EXCEPT ![c] = @ \ {p}]
               /\ call'.kind = "prepare" /\ call'.case = c /\ call'.pool = p
      <3>1. \A d \in Cases : ready'[d] = IF d = c THEN ready[c] \ {p} ELSE ready[d]
        BY <1>1, <2>2
      <3>. QED  BY <1>1, <1>4, <2>2, <3>1 DEF Prepare, LifeInv, InPrepare, InRelease
    <2>. QED  BY <1>4, <2>1, <2>2 DEF Prepare
  <1>5. CASE Provision
    <2>1. CASE RegisterSession
      <3>1. \A d \in Cases : ready'[d] = IF d = call.case THEN ready[d] \cup {call.pool}
                                         ELSE ready[d]
        BY <1>1, <2>1 DEF RegisterSession
      <3>. QED  BY <1>1, <1>5, <2>1, <3>1, ProvisionCall
                DEF RegisterSession, LifeInv, InPrepare, InRelease
    <2>2. CASE UNCHANGED ready
      BY <1>1, <1>5, <2>2, ProvisionCall DEF LifeInv, InPrepare, InRelease
    <2>. QED  BY <1>5, <2>1, <2>2 DEF Provision, ClaimPod, StagePod, LoadGhidra, OpenForward,
              ProbeForward, AttemptFails
  <1>6. CASE Release
    BY <1>1, <1>6, ReleasingCall DEF LifeInv, InPrepare, InRelease
  <1>7. CASE Interrupt
    BY <1>1, <1>7 DEF Interrupt, LifeInv, InPrepare, InRelease
  <1>8. ASSUME NEW c \in Cases, Sweep(c)
        PROVE  LifeInv'
    BY <1>1, <1>8 DEF Sweep, LifeInv, InPrepare, InRelease
  <1>9. CASE Quit \/ Exit \/ UNCHANGED vars
             \/ (\E c \in Cases, p \in DirectPools : DirectClaim(c, p))
             \/ (\E q \in Pods : LosePod(q))
             \/ (\E k \in Cases \X Ports \X Pods : TunnelExits(k))
    BY <1>1, <1>9 DEF Quit, Exit, DirectClaim, LosePod, TunnelExits, vars, LifeInv,
       InPrepare, InRelease
  <1>. QED  BY <1>2, <1>3, <1>4, <1>5, <1>6, <1>7, <1>8, <1>9 DEF Next, Proceed

\* Two engines with a port never share it, so one engine's key is never another's.
LEMMA KeysApart ==
    ASSUME NEW p \in PortPools, NEW q \in PortPools, NEW c, NEW d,
           <<c, PortOf[p]>> = <<d, PortOf[q]>>
    PROVE  c = d /\ p = q
  BY PoolAssumption DEF PortPools

\* Only these steps move a tunnel or its registration.
LEMMA ForwardsFrame ==
    ASSUME [Next]_vars
    PROVE  \/ UNCHANGED <<forwards, procs>>
           \/ OpenForward \/ ProbeForward \/ CloseForwards \/ Exit \/ Interrupt
           \/ \E k \in Cases \X Ports \X Pods : TunnelExits(k)
  BY DEF Next, vars, tables, Proceed, Provision, Release, Begin, PipelineEnd, PipelineAborts,
     Prepare, DirectClaim, ClaimPod, StagePod, LoadGhidra, RegisterSession, AttemptFails,
     PopSessions, FreeClaims, Quit, Sweep, LosePod

LEMMA OpenedStep ==
    ASSUME SessionInv, WireInv, [Next]_vars
    PROVE  ForwardOpened' /\ ProbeUnregistered'
  <1>1. TypeOK /\ CallHoldsPod /\ ProbeHasPort /\ ForwardOpened /\ ProbeUnregistered
    BY DEF SessionInv, WireInv
  <1>2. CASE call' = None \/ call'.kind = "release"
    BY <1>2 DEF ForwardOpened, ProbeUnregistered, Preparing
  <1>3. CASE call'.step \notin {"register", "probe"}
    BY <1>3 DEF ForwardOpened, ProbeUnregistered, Preparing
  <1>4. CASE UNCHANGED <<call, forwards>>
    BY <1>1, <1>4 DEF ForwardOpened, ProbeUnregistered, Preparing, Key
  <1>5. CASE OpenForward \/ ProbeForward
    <2>1. /\ call \in PrepareCall /\ call.pod \in Pods /\ Key \in Keys
          /\ forwards \in [Keys -> Pods \cup {None}]
      BY <1>1, <1>5, KeyTyped DEF OpenForward, ProbeForward, TypeOK
    <2>2. ASSUME NEW s \in PrepareSteps, Goto(s)
          PROVE  Key' = Key /\ call'.pod = call.pod /\ call'.step = s
      BY <2>1, <2>2 DEF Goto, PrepareCall, Key
    <2>3. CASE Goto("register") /\ forwards'[Key] = call.pod
      BY <2>2, <2>3 DEF ForwardOpened, ProbeUnregistered, Preparing, PrepareSteps
    <2>4. CASE Goto("probe") /\ forwards'[Key] = None
      BY <2>2, <2>4 DEF ForwardOpened, ProbeUnregistered, Preparing, PrepareSteps
    <2>5. CASE Goto("failed")
      BY <1>3, <2>2, <2>5 DEF PrepareSteps
    <2>. QED  BY <1>5, <2>1, <2>3, <2>4, <2>5 DEF OpenForward, ProbeForward, Usable, GiveUp
  <1>6. CASE StagePod \/ LoadGhidra
    <2>1. call \in PrepareCall
      BY <1>1, <1>6, CallCases DEF StagePod, LoadGhidra
    <2>2. CASE Goto("register") /\ call.pool \notin PortPools
      BY <2>1, <2>2 DEF Goto, PrepareCall, ForwardOpened, ProbeUnregistered, Preparing
    <2>3. CASE Goto("serve") \/ Goto("failed")
      BY <1>3, <2>1, <2>3 DEF Goto, PrepareCall
    <2>. QED  BY <1>2, <1>6, <2>2, <2>3, PoolFacts DEF StagePod, LoadGhidra
  <1>7. CASE ClaimPod \/ AttemptFails
    <2>1. call \in PrepareCall
      BY <1>1, <1>7, CallCases DEF ClaimPod, AttemptFails
    <2>. QED  BY <1>2, <1>3, <1>7, <2>1
              DEF ClaimPod, AttemptFails, NextAttempt, Goto, PrepareCall
  <1>8. CASE Release \/ RegisterSession \/ Interrupt \/ Exit
    <2>1. CASE Release
      BY <1>1, <1>2, <2>1, ReleasingCall
    <2>2. CASE RegisterSession \/ Interrupt \/ Exit
      BY <1>2, <2>2 DEF RegisterSession, Interrupt, Exit
    <2>. QED  BY <1>8, <2>1, <2>2
  <1>9. CASE \E c \in Cases, p \in EnginePools, a \in Artifacts : Prepare(c, p, a)
    <2>1. UNCHANGED <<call, forwards>> \/ call'.step = "claim"
      BY <1>9 DEF Prepare, tables
    <2>. QED  BY <1>3, <1>4, <2>1
  <1>10. CASE (\E c \in Cases : PipelineEnd(c) \/ Sweep(c) \/ Begin(c) \/ PipelineAborts(c))
              \/ Quit \/ UNCHANGED vars
              \/ (\E c \in Cases, p \in DirectPools : DirectClaim(c, p))
              \/ (\E q \in Pods : LosePod(q))
              \/ (\E k \in Cases \X Ports \X Pods : TunnelExits(k))
    BY <1>2, <1>4, <1>10 DEF PipelineEnd, Sweep, Begin, PipelineAborts, Quit, DirectClaim,
       LosePod, TunnelExits, vars, tables
  <1>. QED  BY <1>5, <1>6, <1>7, <1>8, <1>9, <1>10 DEF Next, Proceed, Provision

\* No step undoes the wiring of an engine that stays ready.
LEMMA WiredStep ==
    ASSUME SessionInv, WireInv, [Next]_vars
    PROVE  ReadyEngineWired'
  <1>1. /\ TypeOK /\ CallHoldsPod /\ ProbeHasPort /\ ForwardOpened /\ ReadyEngineWired /\ LifeInv
        /\ ready \in [Cases -> SUBSET EnginePools]
        /\ sessions \in [Cases -> [EnginePools -> Pods \cup {None}]]
        /\ forwards \in [Keys -> Pods \cup {None}]
    BY DEF SessionInv, WireInv, TypeOK
  <1>2. \A p \in PortPools : p \in EnginePools /\ p \in Pools /\ p # GhidraPool
    BY PoolFacts
  \* A step that neither makes an engine ready nor disturbs a ready one.
  <1>3. ASSUME \A c \in Cases : \A p \in ready'[c] \cap PortPools :
                  /\ p \in ready[c] /\ sessions'[c][p] = sessions[c][p]
                  /\ entries[c][p] # None => entries'[c][p] = entries[c][p]
                  /\ forwards'[<<c, PortOf[p]>>] = forwards[<<c, PortOf[p]>>]
        PROVE  ReadyEngineWired'
    <2>1. ASSUME NEW c \in Cases, NEW p \in ready'[c] \cap PortPools
          PROVE  /\ sessions'[c][p] # None
                 /\ entries'[c][p] = sessions'[c][p]
                 /\ forwards'[<<c, PortOf[p]>>] = sessions'[c][p]
      <3>1. /\ p \in ready[c] \cap PortPools /\ sessions'[c][p] = sessions[c][p]
            /\ entries[c][p] # None => entries'[c][p] = entries[c][p]
            /\ forwards'[<<c, PortOf[p]>>] = forwards[<<c, PortOf[p]>>]
        BY <1>3, <2>1
      <3>2. /\ sessions[c][p] # None /\ entries[c][p] = sessions[c][p]
            /\ forwards[<<c, PortOf[p]>>] = sessions[c][p]
        BY <1>1, <3>1 DEF ReadyEngineWired
      <3>. QED  BY <3>1, <3>2
    <2>. QED  BY <2>1 DEF ReadyEngineWired
  <1>4. ASSUME NEW c \in Cases, NEW p \in Pools, NEW q \in Pods, Claim(c, p, q),
               UNCHANGED <<sessions, forwards, ready>>
        PROVE  ReadyEngineWired'
    BY <1>1, <1>2, <1>3, <1>4, ClaimEntries
  <1>5. CASE UNCHANGED <<entries, sessions, forwards, ready>>
    BY <1>3, <1>5
  <1>6. CASE \E c \in Cases, p \in DirectPools : DirectClaim(c, p)
    BY <1>4, <1>6, PoolFacts DEF DirectClaim
  <1>7. CASE Provision
    <2>1. /\ InPrepare /\ call \in PrepareCall /\ call.case \in Cases /\ call.pool \in EnginePools
          /\ call.pool \in Pools /\ call.pool \notin ready[call.case]
      BY <1>1, <1>7, ProvisionCall, PoolFacts DEF LifeInv
    <2>2. CASE ClaimPod
      BY <1>4, <1>5, <2>1, <2>2 DEF ClaimPod
    <2>3. CASE LoadGhidra
      <3>1. CASE UNCHANGED sessions
        BY <1>5, <2>3, <3>1 DEF LoadGhidra
      <3>2. CASE sessions' = [sessions EXCEPT ![call.case][call.pool] = call.pod]
        <4>1. \A d \in Cases, r \in PortPools : sessions'[d][r] = sessions[d][r]
          BY <1>1, <1>2, <2>1, <2>3, <3>2 DEF LoadGhidra
        <4>2. UNCHANGED <<entries, forwards, ready>>
          BY <2>3 DEF LoadGhidra
        <4>. QED  BY <1>3, <4>1, <4>2
      <3>. QED  BY <2>3, <3>1, <3>2 DEF LoadGhidra
    <2>4. CASE OpenForward \/ ProbeForward
      <3>1. call.pool \in PortPools /\ Key \in Keys /\ UNCHANGED <<entries, sessions, ready>>
        BY <1>1, <2>4, KeyTyped DEF OpenForward, ProbeForward
      <3>2. \A k \in Keys : k # Key => forwards'[k] = forwards[k]
        BY <1>1, <2>4 DEF OpenForward, ProbeForward
      <3>3. \A d \in Cases : \A r \in ready[d] \cap PortPools :
               <<d, PortOf[r]>> \in Keys /\ <<d, PortOf[r]>> # Key
        BY <2>1, <3>1, KeysApart, PoolFacts DEF Key, Keys
      <3>. QED  BY <1>3, <3>1, <3>2, <3>3
    <2>5. CASE RegisterSession
      <3>1. /\ entries[call.case][call.pool] = call.pod /\ call.pod \in Pods
            /\ UNCHANGED <<entries, forwards>>
            /\ call.pool \in PortPools => forwards[Key] = call.pod
        BY <1>1, <2>1, <2>5, CallCases DEF RegisterSession, CallHoldsPod, ForwardOpened
      <3>2. \A d \in Cases, r \in EnginePools :
               sessions'[d][r] = IF d = call.case /\ r = call.pool THEN call.pod
                                 ELSE sessions[d][r]
        BY <1>1, <2>1, <2>5 DEF RegisterSession
      <3>3. \A d \in Cases : ready'[d] = IF d = call.case THEN ready[d] \cup {call.pool}
                                         ELSE ready[d]
        BY <1>1, <2>1, <2>5 DEF RegisterSession
      <3>4. ASSUME NEW d \in Cases, NEW r \in ready'[d] \cap PortPools
            PROVE  /\ sessions'[d][r] # None
                   /\ entries'[d][r] = sessions'[d][r]
                   /\ forwards'[<<d, PortOf[r]>>] = sessions'[d][r]
        <4>1. CASE d = call.case /\ r = call.pool
          BY <2>1, <3>1, <3>2, <3>4, <4>1, PoolAssumption DEF Key
        <4>2. CASE ~ (d = call.case /\ r = call.pool)
          <5>1. r \in ready[d] /\ sessions'[d][r] = sessions[d][r]
            BY <1>2, <3>2, <3>3, <3>4, <4>2
          <5>2. /\ sessions[d][r] # None /\ entries[d][r] = sessions[d][r]
                /\ forwards[<<d, PortOf[r]>>] = sessions[d][r]
            BY <1>1, <3>4, <5>1 DEF ReadyEngineWired
          <5>. QED  BY <3>1, <5>1, <5>2
        <4>. QED  BY <4>1, <4>2
      <3>. QED  BY <3>4 DEF ReadyEngineWired
    <2>6. CASE AttemptFails
      <3>1. \A d \in Cases, r \in PortPools :
               (d # call.case \/ r # call.pool) =>
                  entries'[d][r] = entries[d][r] /\ sessions'[d][r] = sessions[d][r]
        BY <1>1, <1>2, <2>1, <2>6, TerminateEntries DEF AttemptFails, DropSession
      <3>. QED  BY <1>3, <2>1, <2>6, <3>1 DEF AttemptFails
    <2>7. CASE StagePod
      BY <1>5, <2>7 DEF StagePod, tables
    <2>. QED  BY <1>7, <2>2, <2>3, <2>4, <2>5, <2>6, <2>7 DEF Provision
  <1>8. CASE Release
    <2>1. call.case \in Cases /\ ready[call.case] = {} /\ UNCHANGED ready
      BY <1>1, <1>8, ReleasingCall DEF LifeInv
    <2>2. CASE PopSessions
      <3>1. \A d \in Cases : d # call.case => sessions'[d] = sessions[d]
        BY <1>1, <2>1, <2>2 DEF PopSessions, PoppedSessions
      <3>. QED  BY <1>3, <2>1, <2>2, <3>1 DEF PopSessions
    <2>3. CASE CloseForwards
      <3>1. \A d \in Cases, r \in PortPools : d # call.case =>
               forwards'[<<d, PortOf[r]>>] = forwards[<<d, PortOf[r]>>]
        BY <1>1, <2>3, PoolFacts DEF CloseForwards, Keys
      <3>. QED  BY <1>3, <2>1, <2>3, <3>1 DEF CloseForwards
    <2>4. CASE FreeClaims
      <3>1. ASSUME NEW p \in Pools, Terminate(call.case, p)
            PROVE  ReadyEngineWired'
        BY <1>1, <1>2, <1>3, <2>1, <2>4, <3>1, TerminateEntries DEF FreeClaims
      <3>. QED  BY <1>5, <2>4, <3>1 DEF FreeClaims, OwnedBy
    <2>. QED  BY <1>8, <2>2, <2>3, <2>4 DEF Release
  <1>9. ASSUME NEW c \in Cases, NEW p \in EnginePools, NEW a \in Artifacts, Prepare(c, p, a)
        PROVE  ReadyEngineWired'
    <2>1. \A d \in Cases : \A r \in ready'[d] : r \in ready[d] \/ r = GhidraPool
      BY <1>1, <1>9 DEF Prepare
    <2>. QED  BY <1>2, <1>3, <1>9, <2>1 DEF Prepare, tables
  <1>10. CASE \E c \in Cases : PipelineEnd(c) \/ PipelineAborts(c)
    <2>1. PICK c \in Cases : PipelineEnd(c) \/ PipelineAborts(c)
      BY <1>10
    <2>2. \A d \in Cases : ready'[d] \subseteq ready[d]
      BY <1>1, <2>1 DEF PipelineEnd, PipelineAborts
    <2>. QED  BY <1>3, <2>1, <2>2 DEF PipelineEnd, PipelineAborts, tables
  <1>11. CASE Interrupt
    BY <1>11 DEF Interrupt, ReadyEngineWired
  <1>12. CASE Exit
    BY <1>1, <1>12 DEF Exit, LifeInv, ReadyEngineWired
  <1>13. CASE (\E c \in Cases : Sweep(c) \/ Begin(c)) \/ Quit \/ UNCHANGED vars
              \/ (\E q \in Pods : LosePod(q))
              \/ (\E k \in Cases \X Ports \X Pods : TunnelExits(k))
    BY <1>5, <1>13 DEF Sweep, Begin, Quit, LosePod, TunnelExits, vars, tables
  <1>. QED  BY <1>6, <1>7, <1>8, <1>9, <1>10, <1>11, <1>12, <1>13 DEF Next, Proceed

\* A running kubectl process is registered, or is the one being probed.
Accounted(k) ==
    procs[k] \in {"listening", "blocked"} =>
        forwards[<<k[1], k[2]>>] = k[3] \/ (Preparing("probe") /\ k = Proc)

LEMMA OrphanStep ==
    ASSUME SessionInv, WireInv, [Next]_vars
    PROVE  NoOrphanForward'
  <1>1. /\ TypeOK /\ CallHoldsPod /\ ProbeHasPort /\ ProbeUnregistered
        /\ forwards \in [Keys -> Pods \cup {None}]
        /\ procs \in [Cases \X Ports \X Pods -> ProcStates]
    BY DEF SessionInv, WireInv, TypeOK
  <1>2. \A k \in Cases \X Ports \X Pods : Accounted(k)
    BY DEF WireInv, NoOrphanForward, Accounted
  <1> SUFFICES ASSUME NEW k \in Cases \X Ports \X Pods
               PROVE  Accounted(k)'
    BY DEF NoOrphanForward, Accounted
  <1>3. /\ <<k[1], k[2]>> \in Keys /\ k = <<k[1], k[2], k[3]>> /\ k[3] # None
        /\ k[1] \in Cases /\ Accounted(k)
    BY <1>2, PoolAssumption DEF Keys
  <1>4. CASE UNCHANGED <<forwards, procs, call>>
    BY <1>3, <1>4 DEF Accounted, Preparing, Proc
  <1>5. CASE OpenForward
    <2>1. /\ call \in PrepareCall /\ call.step = "serve" /\ Key \in Keys
          /\ Proc \in Cases \X Ports \X Pods
      BY <1>1, <1>5, KeyTyped, CallCases DEF OpenForward
    <2>2. procs[k] \in {"listening", "blocked"} => forwards[<<k[1], k[2]>>] = k[3]
      BY <1>3, <2>1 DEF Accounted, Preparing
    <2>3. CASE UNCHANGED <<forwards, procs>>
      BY <2>2, <2>3 DEF Accounted
    <2>4. CASE /\ forwards' = [forwards EXCEPT ![Key] = None]
               /\ procs' = [Reaped EXCEPT ![Proc] = IF Taken(Reaped) THEN "blocked"
                                                    ELSE "listening"]
               /\ Goto("probe")
      <3>1. Preparing("probe")' /\ Proc' = Proc
        <4>1. call' \in PrepareCall /\ call'.step = "probe"
          BY <2>1, <2>4 DEF Goto, PrepareCall, PrepareSteps
        <4>2. Proc' = Proc
          BY <2>1, <2>4 DEF Goto, PrepareCall, Proc
        <4>. QED  BY <4>1, <4>2, NoneAssumption DEF PrepareCall, Preparing
      <3>2. Reaped \in [Cases \X Ports \X Pods -> ProcStates]
        BY <1>1 DEF Reaped, ProcStates
      <3>3. CASE k # Proc
        <4>1. procs'[k] = Reaped[k]
          BY <2>4, <3>2, <3>3
        <4>2. CASE <<k[1], k[2]>> = Key
          <5>1. procs[k] \in {"listening", "blocked"} => k = Old /\ forwards[Key] # None
            BY <1>3, <2>2, <4>2 DEF Old, Key
          <5>. QED  BY <1>1, <4>1, <5>1 DEF Reaped, Accounted
        <4>3. CASE <<k[1], k[2]>> # Key
          <5>1. forwards'[<<k[1], k[2]>>] = forwards[<<k[1], k[2]>>]
            BY <1>1, <1>3, <2>4, <4>3
          <5>2. procs'[k] = procs[k] \/ procs'[k] = "none"
            BY <1>1, <4>1 DEF Reaped
          <5>. QED  BY <2>2, <5>1, <5>2 DEF Accounted
        <4>. QED  BY <4>2, <4>3
      <3>. QED  BY <3>1, <3>3 DEF Accounted
    <2>. QED  BY <1>5, <2>3, <2>4 DEF OpenForward
  <1>6. CASE ProbeForward
    <2>1. /\ call \in PrepareCall /\ Preparing("probe") /\ Key \in Keys
          /\ Proc \in Cases \X Ports \X Pods /\ forwards[Key] = None
      BY <1>1, <1>6, KeyTyped DEF ProbeForward, ProbeUnregistered
    <2>2. CASE forwards' = [forwards EXCEPT ![Key] = call.pod] /\ UNCHANGED procs
      <3>1. CASE k = Proc
        <4>1. <<k[1], k[2]>> = Key /\ k[3] = call.pod
          BY <3>1 DEF Proc, Key
        <4>. QED  BY <1>1, <2>1, <2>2, <4>1 DEF Accounted
      <3>2. CASE k # Proc
        <4>1. procs[k] \in {"listening", "blocked"} =>
                 forwards[<<k[1], k[2]>>] = k[3] /\ <<k[1], k[2]>> # Key
          BY <1>3, <2>1, <3>2 DEF Accounted
        <4>. QED  BY <1>1, <1>3, <2>2, <4>1 DEF Accounted
      <3>. QED  BY <3>1, <3>2
    <2>3. CASE GiveUp /\ UNCHANGED forwards
      <3>1. procs'[k] = IF k = Proc THEN "none" ELSE procs[k]
        BY <1>1, <2>3 DEF GiveUp
      <3>. QED  BY <1>3, <2>3, <3>1 DEF Accounted
    <2>. QED  BY <1>6, <2>2, <2>3 DEF ProbeForward
  <1>7. CASE CloseForwards
    <2>1. ~ Preparing("probe")
      BY <1>1, <1>7, CallCases DEF CloseForwards, InPrepare, InRelease
    <2>2. procs'[k] = IF k[1] = call.case /\ forwards[<<k[1], k[2]>>] = k[3] THEN "none"
                      ELSE procs[k]
      BY <1>1, <1>7 DEF CloseForwards
    <2>3. k[1] # call.case => forwards'[<<k[1], k[2]>>] = forwards[<<k[1], k[2]>>]
      BY <1>3, <1>7 DEF CloseForwards
    <2>. QED  BY <1>3, <2>1, <2>2, <2>3 DEF Accounted
  <1>8. CASE Interrupt
    BY <1>1, <1>8 DEF Interrupt, Accounted
  <1>9. CASE Exit
    <2>1. procs'[k] = IF forwards[<<k[1], k[2]>>] = k[3] THEN "none" ELSE procs[k]
      BY <1>1, <1>9 DEF Exit
    <2>. QED  BY <1>3, <1>9, <2>1 DEF Exit, Accounted, Preparing
  <1>10. CASE \E j \in Cases \X Ports \X Pods : TunnelExits(j)
    <2>1. PICK j \in Cases \X Ports \X Pods : TunnelExits(j)
      BY <1>10
    <2>2. procs'[k] = IF k = j THEN "exited" ELSE procs[k]
      BY <1>1, <2>1 DEF TunnelExits
    <2>. QED  BY <1>3, <2>1, <2>2 DEF TunnelExits, tables, Accounted, Preparing, Proc
  <1>11. CASE UNCHANGED <<forwards, procs>> /\ ~ Preparing("probe")
    BY <1>3, <1>11 DEF Accounted
  <1>12. ASSUME Preparing("probe")
         PROVE  UNCHANGED call \/ ProbeForward \/ Interrupt
    <2>1. CASE Provision
      BY <1>12, <2>1 DEF Provision, ClaimPod, StagePod, LoadGhidra, OpenForward,
         RegisterSession, AttemptFails, Preparing
    <2>2. CASE Release
      BY <1>1, <1>12, <2>2, ReleasingCall, CallCases DEF InPrepare, InRelease
    <2>. QED  BY <1>12, <2>1, <2>2 DEF Next, Proceed, Preparing, Begin, PipelineEnd,
              PipelineAborts, DirectClaim, Prepare, Quit, Sweep, Exit, LosePod, TunnelExits, vars
  <1>. QED  BY <1>4, <1>5, <1>6, <1>7, <1>8, <1>9, <1>10, <1>11, <1>12, ForwardsFrame

LEMMA WireInit == Init => WireInv
  <1>. SUFFICES ASSUME Init PROVE WireInv
    OBVIOUS
  <1>1. LifeInv /\ ForwardOpened /\ ProbeUnregistered
    BY DEF Init, LifeInv, ForwardOpened, ProbeUnregistered, InPrepare, InRelease, Preparing
  <1>2. ReadyEngineWired /\ NoOrphanForward
    BY DEF Init, ReadyEngineWired, NoOrphanForward
  <1>. QED  BY <1>1, <1>2 DEF WireInv

LEMMA WireInvariant == Spec => []WireInv
  <1>1. SessionInv /\ WireInv /\ [Next]_vars => WireInv'
    <2> SUFFICES ASSUME SessionInv, WireInv, [Next]_vars PROVE WireInv'
      OBVIOUS
    <2>1. LifeInv
      BY DEF WireInv
    <2>. QED  BY <2>1, LifeStep, OpenedStep, WiredStep, OrphanStep DEF WireInv
  <1>. QED  BY <1>1, WireInit, SessionInvariant, PTL DEF Spec

\* An engine behind a port that the agent was told is ready is one pod in the claim,
\* the session and the tunnel, for any number of cases sharing any ports.
THEOREM ReadyEnginesWired == Spec => []ReadyEngineWired
  <1>1. WireInv => ReadyEngineWired
    BY DEF WireInv
  <1>. QED  BY <1>1, WireInvariant, PTL

\* No kubectl process runs that the port-forward registry could not close, but the
\* one whose opening is in progress.
THEOREM ForwardsAccounted == Spec => []NoOrphanForward
  <1>1. WireInv => NoOrphanForward
    BY DEF WireInv
  <1>. QED  BY <1>1, WireInvariant, PTL
=============================================================================
