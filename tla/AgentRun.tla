------------------------------- MODULE AgentRun -------------------------------
(***************************************************************************)
(* A run of a pipeline of agents: the sequential shell, its parallel groups *)
(* and, for every agent, the loop of model and tool calls with the callback *)
(* chain that arema.runtime wires around each of them.                      *)
(*                                                                         *)
(* Agents are coroutines of one event loop: a step of an agent runs up to   *)
(* its next await (the throttle's sleep, the provider's answer, a tool).    *)
(* The agents of a group share the session state and the process-wide       *)
(* throttle stamp. Two entry points start runs: run_single_query opens a    *)
(* memory scope and a session of its own, ADK's web runner takes one user   *)
(* turn after another on the same session.                                  *)
(***************************************************************************)
EXTENDS ContextBudget

CONSTANTS
    Agents,
    Pipelines,          \* the root agents: each a sequence of groups of agents
    Isolated,           \* agents that see no earlier conversation
    Model, TurnLimit,   \* each agent's model and turn limit
    Interval,           \* llm_min_call_interval; 0 disables the throttle
    ToolResults,        \* what the tools of each agent may return
    Metered,            \* the models whose provider reports usage
    TextSizes,          \* the sizes of the texts each agent may answer with
    UserSizes,
    Runs                \* bound: user requests in one behaviour

Grace == 2

Models == {Model[a] : a \in Agents}

ASSUME PipelineAssumption ==
    /\ \A p \in Pipelines : p \in Seq(SUBSET Agents) /\ p # <<>>
    /\ Isolated \subseteq Agents
    /\ TurnLimit \in [Agents -> Nat \ {0}]
    /\ Interval \in Nat /\ Runs \in Nat

\* A tool returns a response that no layer has touched yet.
ASSUME ContentAssumption ==
    /\ UserSizes \subseteq Nat /\ TextSizes \in [Agents -> SUBSET Nat]
    /\ \A a \in Agents : \A r \in ToolResults[a] :
         r \in Content /\ r = Result(r.size, r.kept, r.whole, r.origin)

VARIABLES
    entry,     \* "query" (run_single_query) or "web" (ADK's runner)
    groups,    \* the pipeline being run
    run,       \* id, phase, position in groups, memory scope of the current run
    session,   \* session state the callbacks keep
    history,   \* the conversation each agent's requests are built from
    pc,        \* where each agent is
    left,      \* remaining sleep of an agent in the throttle
    request,   \* the contents each agent's provider is working on
    cool,      \* time until the interval since the last stamped call is over
    saved,     \* runs whose checkpoint was persisted to memory
    report,    \* token_usage_json, as the last reporter rendered it
    spent,     \* observation: tokens the models answered with, this run
    made,      \* observation: calls each agent made, this run
    since      \* observation: time since an agent's last call, up to Interval

loopVars == <<left, request>>
seen     == <<spent, made, since>>
vars == <<entry, groups, run, session, history, pc, loopVars, cool, saved, report, seen>>

\* The two session keys of a context checkpoint: the budget check writes the
\* first, the after-agent recorder reads the second.
BudgetKey   == "context_budget:checkpoint"
RecorderKey == "_runtime:context_checkpoint"

NoUsage   == [m \in Models |-> 0]
FreshSession == [captured |-> 0, turns |-> [a \in Agents |-> 0],
                 slot |-> [a \in Agents |-> {}],
                 usage |-> [run |-> 0, by |-> NoUsage],
                 checkpoint |-> [k \in {BudgetKey, RecorderKey} |-> 0]]

EndedByAnswer == {"answered", "exhausted"}
Ended == {"answered", "limited", "exhausted"}
Busy == {"ready", "sleeping", "calling", "tool"}

Init ==
    /\ entry \in {"query", "web"} /\ groups \in Pipelines
    /\ run = [id |-> 0, phase |-> "idle", at |-> 0, scope |-> "none"]
    /\ session = FreshSession
    /\ history = [a \in Agents |-> <<>>]
    /\ pc = [a \in Agents |-> "waiting"]
    /\ left = [a \in Agents |-> 0]
    /\ request = [a \in Agents |-> <<>>]
    /\ cool = 0 /\ saved = {} /\ report = [run |-> 0, by |-> NoUsage]
    /\ spent = NoUsage /\ made = [a \in Agents |-> 0]
    /\ since = [a \in Agents |-> Interval]

-----------------------------------------------------------------------------
(* Starting and ending a run.                                               *)

WithGroup(i) == [a \in Agents |-> IF a \in groups[i] THEN "ready" ELSE "waiting"]

Asked(size, kept) ==
    [a \in Agents |-> IF a \in Isolated \/ ~kept THEN <<User(size)>>
                                                 ELSE Append(history[a], User(size))]

Begin(scope, kept) == \E size \in UserSizes :
    /\ run.phase = "idle" /\ run.id < Runs
    /\ run' = [id |-> run.id + 1, phase |-> "running", at |-> 1, scope |-> scope]
    /\ session' = IF kept THEN session ELSE FreshSession
    /\ history' = Asked(size, kept)
    /\ pc' = WithGroup(1)
    /\ spent' = NoUsage /\ made' = [a \in Agents |-> 0]
    /\ UNCHANGED <<entry, groups, loopVars, cool, saved, report, since>>

\* run_single_query: a scope, a session seeded with the run id, one message.
RunSingleQuery == entry = "query" /\ Begin("open", FALSE)

\* The next user turn of an ADK session; its invocation id is the run id.
UserTurn == entry = "web" /\ Begin("none", TRUE)

\* The `finally' of run_single_query: closing the scope is attempted whatever
\* happened, and its own failure is logged.
Close(failed) ==
    /\ pc' = [a \in Agents |-> "waiting"]
    /\ left' = [a \in Agents |-> 0]
    /\ request' = [a \in Agents |-> <<>>]
    /\ \E scope \in IF run.scope = "open" THEN {"open", "closed"} ELSE {"none"} :
         run' = [run EXCEPT !.phase = IF failed THEN "failed" ELSE "reported",
                            !.at = 0, !.scope = scope]

\* The token-usage reporter, the pipeline's last stage.
Reported == report' = session.usage

\* A sequential shell starts its next sub-agent when the current one, a single
\* agent or a parallel group, has ended.
NextGroup ==
    /\ run.phase = "running" /\ \A a \in groups[run.at] : pc[a] \in Ended
    /\ IF run.at < Len(groups)
       THEN /\ run' = [run EXCEPT !.at = @ + 1]
            /\ pc' = [a \in Agents |-> IF a \in groups[run.at + 1] THEN "ready" ELSE pc[a]]
            /\ UNCHANGED <<loopVars, report>>
       ELSE Close(FALSE) /\ Reported
    /\ UNCHANGED <<entry, groups, session, history, cool, saved, seen>>

\* The caller of a finished run may ask again.
Rest ==
    /\ run.phase \in {"reported", "failed"} /\ run' = [run EXCEPT !.phase = "idle"]
    /\ UNCHANGED <<entry, groups, session, history, pc, loopVars, cool, saved, report, seen>>

-----------------------------------------------------------------------------
(* Before a model call: capture, throttle, turn limit, budget, metrics.      *)

\* An agent ends with a last model text, and the after-agent recorder runs.
End(a, how, size, left_by) ==
    /\ session' = left_by
    /\ pc' = [pc EXCEPT ![a] = how]
    /\ history' = [history EXCEPT ![a] = Append(@, Text(size))]
    /\ saved' = IF run.scope = "open" /\ left_by.checkpoint[RecorderKey] # 0
                THEN saved \cup {run.id} ELSE saved

Note == 1     \* the size of a stop notice and of the recovery text

\* capture_request keeps the first request of a session.
Captured == IF session.captured = 0 THEN run.id ELSE session.captured

Counted(a) == [session EXCEPT !.turns[a] = @ + 1, !.captured = Captured]

SlotOfAgent(a) == a
SharedSlot(a)  == CHOOSE b \in Agents : TRUE
Slot(a)        == SlotOfAgent(a)

OverLimitLate(a) == Counted(a).turns[a] > TurnLimit[a] + Grace
OverLimit(a)     == Counted(a).turns[a] >= TurnLimit[a] + Grace

\* The chain after the throttle, up to the await of the provider: hard stop,
\* refusal, or a submitted request.
HardStop(a) ==
    /\ OverLimit(a) /\ End(a, "limited", Note, Counted(a))
    /\ UNCHANGED <<request, made, since>>

Refuse(a) ==
    /\ End(a, "exhausted", Note, [Counted(a) EXCEPT !.checkpoint[BudgetKey] = run.id])
    /\ UNCHANGED <<request, made, since>>

Call(a, fitted) ==
    /\ session' = [Counted(a) EXCEPT !.slot[Slot(a)] = {Model[a]}]
    /\ request' = [request EXCEPT ![a] = fitted]
    /\ pc' = [pc EXCEPT ![a] = "calling"]
    /\ made' = [made EXCEPT ![a] = @ + 1] /\ since' = [since EXCEPT ![a] = 0]
    /\ UNCHANGED <<history, saved>>

Submit(a) ==
    \/ HardStop(a)
    \/ /\ ~OverLimit(a)
       /\ \E fitted \in {Fitted(history[a])} :
            IF Refused(history[a], fitted) THEN Refuse(a) ELSE Call(a, fitted)

\* throttle_model_calls reads the stamp; it sleeps what is left of the interval
\* or stamps the call and goes on.
MustSleep == Interval > 0 /\ cool > 0

Unstamped == cool
Stamped   == Interval

Sleep(a) ==
    /\ pc[a] = "ready" /\ MustSleep
    /\ pc' = [pc EXCEPT ![a] = "sleeping"] /\ left' = [left EXCEPT ![a] = cool]
    /\ UNCHANGED <<entry, groups, run, session, history, request, cool, saved, report, seen>>

Proceed(a) ==
    /\ pc[a] = "ready" /\ ~MustSleep
    /\ cool' = Stamped /\ Submit(a)
    /\ UNCHANGED <<entry, groups, run, left, report, spent>>

\* Woken, the throttle stamps the call without looking at the stamp again.
Wake(a) ==
    /\ pc[a] = "sleeping" /\ left[a] = 0
    /\ cool' = Stamped /\ Submit(a)
    /\ UNCHANGED <<entry, groups, run, left, report, spent>>

Less(n) == IF n > 0 THEN n - 1 ELSE 0

Tick ==
    /\ cool > 0 \/ \E a \in Agents : left[a] > 0
    /\ cool' = Less(cool)
    /\ left' = [a \in Agents |-> Less(left[a])]
    /\ since' = [a \in Agents |-> Smaller(since[a] + 1, Interval)]
    /\ UNCHANGED <<entry, groups, run, session, history, pc, request, saved, report, spent, made>>

-----------------------------------------------------------------------------
(* After a model call.                                                      *)

\* record_model_tokens: the sample is folded into the row of the model the
\* agent's slot names; an accumulator of another run starts again from zero.
Base == IF session.usage.run = run.id THEN session.usage.by ELSE NoUsage
Sampled(a) ==
    [run |-> run.id,
     by  |-> [m \in Models |-> IF m \in session.slot[Slot(a)] THEN Base[m] + 1 ELSE Base[m]]]

\* The session after an answer, with usage metadata if the provider sends any.
After(a) == IF Model[a] \in Metered THEN [session EXCEPT !.usage = Sampled(a)] ELSE session
Spend(a) == spent' = IF Model[a] \in Metered THEN [spent EXCEPT ![Model[a]] = @ + 1] ELSE spent

Answers(a) == /\ pc[a] = "calling" /\ request' = [request EXCEPT ![a] = <<>>]
              /\ UNCHANGED <<entry, groups, left, cool, made, since>>

\* A text: the agent's final response.
AnswerText(a) == \E size \in TextSizes[a] :
    /\ Answers(a) /\ Spend(a) /\ End(a, "answered", size, After(a))
    /\ UNCHANGED <<run, report>>

\* A call of a registered tool, executed at once; the model may say something
\* along with it.
AnswerTool(a) == \E said \in {<<>>} \cup {<<Text(size)>> : size \in TextSizes[a]} :
    /\ Answers(a) /\ Spend(a) /\ session' = After(a)
    /\ pc' = [pc EXCEPT ![a] = "tool"]
    /\ history' = [history EXCEPT ![a] = @ \o said]
    /\ UNCHANGED <<run, saved, report>>

\* A call of a name no tool has: the error handler answers in its place.
UnknownTool == Result(Note, Note, Note, "own")

AnswerUnknownTool(a) ==
    /\ Answers(a) /\ Spend(a) /\ session' = After(a)
    /\ pc' = [pc EXCEPT ![a] = "ready"]
    /\ history' = [history EXCEPT ![a] = Append(@, UnknownTool)]
    /\ UNCHANGED <<run, saved, report>>

\* Arguments that are no JSON: the recovery text is a final response, and no
\* usage comes with it.
AnswerBadJson(a) ==
    /\ Answers(a) /\ End(a, "answered", Note, session) /\ UNCHANGED <<run, report, spent>>

\* An error that is not retried, or the last of the bounded retries: it leaves
\* the shells, which cancel the siblings, and the run fails.
ProviderFails(a) ==
    /\ pc[a] = "calling" /\ Close(TRUE)
    /\ UNCHANGED <<entry, groups, session, history, cool, saved, report, seen>>

\* A tool returns, or raises and recover_tool_exception answers; either way the
\* response passes the after-tool chain.
ToolReturns(a) == \E r \in ToolResults[a] :
    /\ pc[a] = "tool" /\ pc' = [pc EXCEPT ![a] = "ready"]
    /\ history' = [history EXCEPT ![a] = Append(@, Completed(r))]
    /\ UNCHANGED <<entry, groups, run, session, loopVars, cool, saved, report, seen>>

-----------------------------------------------------------------------------
AgentStep(a) ==
    \/ Sleep(a) \/ Proceed(a) \/ Wake(a)
    \/ AnswerText(a) \/ AnswerTool(a) \/ AnswerUnknownTool(a) \/ AnswerBadJson(a)
    \/ ProviderFails(a) \/ ToolReturns(a)

Next ==
    \/ RunSingleQuery \/ UserTurn \/ NextGroup \/ Rest \/ Tick
    \/ \E a \in Agents : AgentStep(a)

\* What goes on without the user.
Going == NextGroup \/ Tick \/ \E a \in Agents : AgentStep(a)

\* The process lives: as long as anything can go on, something does. The event
\* loop runs its coroutines, time passes, the provider and the tools answer or
\* fail.
Fairness == WF_vars(Going)

Spec == Init /\ [][Next]_vars /\ Fairness

-----------------------------------------------------------------------------
(* Properties.                                                              *)

Session ==
    [captured : 0 .. Runs, turns : [Agents -> Nat], slot : [Agents -> SUBSET Models],
     usage : [run : 0 .. Runs, by : [Models -> Nat]],
     checkpoint : [{BudgetKey, RecorderKey} -> 0 .. Runs]]

\* Types; a run has no more calls of an agent than its limit and its grace.
TypeOK ==
    /\ entry \in {"query", "web"} /\ groups \in Pipelines
    /\ run \in [id : 0 .. Runs, phase : {"idle", "running", "reported", "failed"},
                at : 0 .. Len(groups), scope : {"none", "open", "closed"}]
    /\ pc \in [Agents -> {"waiting"} \cup Busy \cup Ended]
    /\ session \in Session
    /\ left \in [Agents -> 0 .. Interval] /\ since \in [Agents -> 0 .. Interval]
    /\ cool \in 0 .. Interval
    /\ saved \subseteq 1 .. Runs /\ report \in [run : 0 .. Runs, by : [Models -> Nat]]
    /\ spent \in [Models -> Nat] /\ made \in [Agents -> Nat]
    /\ \A a \in Agents : made[a] < TurnLimit[a] + Grace

\* The usage accounted to a run is what its models answered with, row by row,
\* whatever the order in which the branches of a parallel group call and
\* answer, and never with an earlier run's counts in it.
UsageExact == session.usage.run = run.id => session.usage.by = spent

\* The place of the most recent content of its kind.
IsLatest(contents, i) ==
    \A j \in DOMAIN contents : contents[j].kind = contents[i].kind => j <= i

\* A request at the model is under the critical threshold after its compaction
\* and still has the agent's most recent tool result and text where they were
\* and as they were.
RequestFits == \A a \in Agents : pc[a] = "calling" =>
    /\ Tokens(request[a]) < Critical
    /\ \A i \in DOMAIN history[a] :
         IsLatest(history[a], i) => i \in DOMAIN request[a] /\ request[a][i] = history[a][i]

\* What a binary made a tool say is in a conversation, and in a request at the
\* model, only as a whole: between both lines of its frame and within the bound
\* of a response, or not at all (the preview and the marker of a compacted
\* result have none of it). The chain goes on to the compaction after the frame
\* has replaced the response, and never cuts data out of the frame. What the
\* sanitizer raises on ("opaque") passes without a frame.
BinaryDataFramed == \A a \in Agents : \A contents \in {history[a], request[a]} :
    \A i \in DOMAIN contents :
        LET c == contents[i]
        IN  c.origin = "binary" => \/ c.form = "framed" /\ c.size <= OutputBound
                                   \/ c.form \in {"preview", "short"}

\* Two model calls of one agent are never closer than the interval.
AgentCallsSpaced ==
    [][\A a \in Agents : made'[a] = made[a] + 1 => since[a] = Interval]_vars

\* Every run ends: the turn limit ends the loop of an agent that would call
\* tools for ever, and an agent waiting in the throttle is woken.
RunEnds == [](run.phase = "running" => <>(run.phase # "running"))

\* As documented: the turn limit counts the turns of a run.
TurnLimitIsPerRun == \A a \in Agents : pc[a] = "limited" => made[a] >= TurnLimit[a]

\* As documented: the after-agent recorder persists the checkpoint the budget
\* check left, before the scope closes.
CheckpointKept == \A a \in Agents :
    pc[a] = "exhausted" /\ run.scope = "open" => run.id \in saved
===============================================================================
