---------------------------- MODULE AgentRunProofs ----------------------------
(***************************************************************************)
(* Theorems about AgentRun, for any pipelines, models, limits, interval and *)
(* texts: types and the turn limit, the accounting of usage under every     *)
(* order of calls and answers, the spacing of an agent's calls, the requests *)
(* that reach a model and the responses that come back from a tool.         *)
(***************************************************************************)
EXTENDS AgentRun, ContextBudgetProofs

-----------------------------------------------------------------------------
(* Types and the turn limit                                                 *)

\* A call was counted before it was made, and a new run starts with none made.
MadeWithinTurns == \A a \in Agents : made[a] <= session.turns[a]

\* Agents leave their places only in a run.
Begun == run.phase # "idle" \/ (\E a \in Agents : pc[a] # "waiting") => run.id >= 1

TypeInv == TypeOK /\ MadeWithinTurns /\ Begun

LEMMA ConstantFacts ==
    /\ NoUsage \in [Models -> Nat] /\ FreshSession \in Session
    /\ Interval \in Nat /\ Runs \in Nat /\ TurnLimit \in [Agents -> Nat \ {0}]
    /\ \A a \in Agents : Model[a] \in Models
    /\ \A p \in Pipelines : p \in Seq(SUBSET Agents) /\ Len(p) \in Nat \ {0}
  <1>1. NoUsage \in [Models -> Nat]
    BY DEF NoUsage
  <1>2. FreshSession \in Session
    BY <1>1, PipelineAssumption DEF FreshSession, Session
  <1>3. \A p \in Pipelines : p \in Seq(SUBSET Agents) /\ Len(p) \in Nat \ {0}
    BY PipelineAssumption
  <1>. QED  BY <1>1, <1>2, <1>3, PipelineAssumption DEF Models

LEMMA TypeInit == Init => TypeInv
  BY ConstantFacts DEF Init, TypeInv, TypeOK, MadeWithinTurns, Begun, Grace, FreshSession, Session

\* What is left of the session when a call is counted, and when an answer was.
LEMMA CountedType ==
    ASSUME TypeOK, NEW a \in Agents
    PROVE  /\ Counted(a) \in Session
           /\ Counted(a).turns = [session.turns EXCEPT ![a] = @ + 1]
           /\ Counted(a).usage = session.usage /\ Counted(a).slot = session.slot
           /\ Counted(a).checkpoint = session.checkpoint
  <1>1. session \in Session /\ Captured \in 0 .. Runs
    BY DEF TypeOK, Session, Captured
  <1>2. [session.turns EXCEPT ![a] = @ + 1] \in [Agents -> Nat]
    BY <1>1 DEF Session
  <1>. QED  BY <1>1, <1>2 DEF Session, Counted

LEMMA AfterType ==
    ASSUME TypeOK, NEW a \in Agents
    PROVE  /\ After(a) \in Session
           /\ After(a).turns = session.turns /\ After(a).slot = session.slot
  <1>1. Base \in [Models -> Nat]
    BY ConstantFacts DEF TypeOK, Session, Base
  <1>2. Sampled(a) \in [run : 0 .. Runs, by : [Models -> Nat]]
    BY <1>1 DEF TypeOK, Sampled
  <1>. QED  BY <1>2 DEF TypeOK, Session, After

LEMMA RefusedType ==
    ASSUME TypeOK, NEW a \in Agents
    PROVE  LET c == [Counted(a) EXCEPT !.checkpoint[BudgetKey] = run.id]
           IN  c \in Session /\ c.turns = Counted(a).turns /\ c.slot = session.slot
               /\ c.usage = session.usage
  <1>1. run.id \in 0 .. Runs
    BY DEF TypeOK
  <1>2. Counted(a) \in Session /\ Counted(a).slot = session.slot
        /\ Counted(a).usage = session.usage
    BY CountedType
  <1>. QED  BY <1>1, <1>2 DEF Session

LEMMA CalledType ==
    ASSUME TypeOK, NEW a \in Agents
    PROVE  LET c == [Counted(a) EXCEPT !.slot[Slot(a)] = {Model[a]}]
           IN  c \in Session /\ c.turns = Counted(a).turns /\ c.usage = session.usage
               /\ c.slot = [session.slot EXCEPT ![a] = {Model[a]}]
  <1>1. Counted(a) \in Session /\ Counted(a).slot = session.slot
        /\ Counted(a).usage = session.usage
    BY CountedType
  <1>2. Slot(a) = a /\ {Model[a]} \in SUBSET Models
    BY ConstantFacts DEF Slot, SlotOfAgent
  <1>. QED  BY <1>1, <1>2 DEF Session

\* An agent that ends leaves the session it is given and takes its last state.
LEMMA EndType ==
    ASSUME TypeOK, NEW a \in Agents, NEW how \in Ended, NEW size, NEW c \in Session,
           End(a, how, size, c), run.id \in 1 .. Runs
    PROVE  /\ session' = c /\ session' \in Session
           /\ pc' \in [Agents -> {"waiting"} \cup Busy \cup Ended]
           /\ saved' \subseteq 1 .. Runs
  <1>1. saved \subseteq 1 .. Runs /\ pc \in [Agents -> {"waiting"} \cup Busy \cup Ended]
    BY DEF TypeOK
  <1>2. saved' = saved \/ saved' = saved \cup {run.id}
    BY DEF End
  <1>3. saved' \subseteq 1 .. Runs
    BY <1>1, <1>2
  <1>4. pc' = [pc EXCEPT ![a] = how]
    BY DEF End
  <1>. QED  BY <1>1, <1>3, <1>4 DEF End

LEMMA BeginStep ==
    ASSUME TypeInv, NEW scope \in {"none", "open"}, NEW kept \in BOOLEAN, Begin(scope, kept)
    PROVE  TypeInv'
  <1>1. run.id \in Nat /\ run.id < Runs /\ Runs \in Nat /\ Len(groups) \in Nat \ {0}
        /\ groups' = groups
    BY ConstantFacts DEF TypeInv, TypeOK, Begin
  <1>2. run' = [id |-> run.id + 1, phase |-> "running", at |-> 1, scope |-> scope]
        /\ pc' = WithGroup(1)
    BY DEF Begin
  <1>3. run' \in [id : 0 .. Runs, phase : {"idle", "running", "reported", "failed"},
                  at : 0 .. Len(groups'), scope : {"none", "open", "closed"}]
    BY <1>1, <1>2
  <1>4. pc' \in [Agents -> {"waiting"} \cup Busy \cup Ended]
    BY <1>2 DEF WithGroup, Busy
  <1>5. session' \in Session
    BY ConstantFacts DEF TypeInv, TypeOK, Begin
  <1>6. made' = [a \in Agents |-> 0] /\ spent' \in [Models -> Nat]
    BY ConstantFacts DEF Begin
  <1>7. \A a \in Agents : made'[a] < TurnLimit[a] + Grace /\ made'[a] <= session'.turns[a]
    BY <1>5, <1>6, ConstantFacts DEF Session, Grace
  <1>8. Begun'
    BY <1>1, <1>2 DEF Begun
  <1>. QED  BY <1>3, <1>4, <1>5, <1>6, <1>7, <1>8 DEF TypeInv, TypeOK, MadeWithinTurns, Begin, loopVars

Place == [id : 0 .. Runs, phase : {"idle", "running", "reported", "failed"},
          at : 0 .. Len(groups), scope : {"none", "open", "closed"}]

LEMMA CloseType ==
    ASSUME TypeInv, NEW failed \in BOOLEAN, Close(failed), groups' = groups
    PROVE  /\ run' \in Place' /\ run'.id = run.id /\ run'.phase \in {"reported", "failed"}
           /\ pc' \in [Agents -> {"waiting"}] /\ left' \in [Agents -> 0 .. Interval]
  <1>1. PICK scope \in {"none", "open", "closed"} :
           run' = [run EXCEPT !.phase = IF failed THEN "failed" ELSE "reported",
                              !.at = 0, !.scope = scope]
    BY DEF Close
  <1>2. Len(groups) \in Nat \ {0} /\ groups' = groups /\ run \in Place
    BY ConstantFacts DEF TypeInv, TypeOK, Place
  <1>3. run' \in Place' /\ run'.id = run.id /\ run'.phase \in {"reported", "failed"}
    <2>. DEFINE phase == IF failed THEN "failed" ELSE "reported"
    <2>1. phase \in {"reported", "failed"} /\ 0 \in 0 .. Len(groups)
      BY <1>2
    <2>. HIDE DEF phase
    <2>2. run' = [run EXCEPT !.phase = phase, !.at = 0, !.scope = scope]
      BY <1>1 DEF phase
    <2>. QED  BY <1>2, <2>1, <2>2 DEF Place
  <1>4. pc' = [a \in Agents |-> "waiting"] /\ left' = [a \in Agents |-> 0]
    BY DEF Close
  <1>. QED  BY <1>3, <1>4, ConstantFacts

LEMMA NextGroupStep == TypeInv /\ NextGroup => TypeInv'
  <1>. SUFFICES ASSUME TypeInv, NextGroup PROVE TypeInv'
    OBVIOUS
  <1>1. groups' = groups /\ UNCHANGED <<entry, session, cool, saved, seen>>
    BY DEF NextGroup
  <1>2. CASE run.at < Len(groups)
    <2>1. run' = [run EXCEPT !.at = @ + 1] /\ UNCHANGED <<loopVars, report>>
      BY <1>2 DEF NextGroup
    <2>2. pc' \in [Agents -> {"waiting"} \cup Busy \cup Ended]
      BY <1>2 DEF NextGroup, TypeInv, TypeOK, Busy
    <2>3. Len(groups) \in Nat
      BY ConstantFacts DEF TypeInv, TypeOK
    <2>6. run \in Place /\ run.at \in Nat /\ run.at + 1 \in 0 .. Len(groups)
      BY <1>2, <2>3 DEF TypeInv, TypeOK, Place
    <2>4. run' \in Place' /\ run'.id = run.id
      BY <1>1, <2>1, <2>6 DEF Place
    <2>5. run.id >= 1
      BY DEF NextGroup, TypeInv, Begun
    <2>. QED  BY <1>1, <2>1, <2>2, <2>4, <2>5
              DEF TypeInv, TypeOK, MadeWithinTurns, Begun, Place, seen, loopVars
  <1>3. CASE ~(run.at < Len(groups))
    <2>1. Close(FALSE) /\ report' = session.usage
      BY <1>3 DEF NextGroup, Reported
    <2>2. report' \in [run : 0 .. Runs, by : [Models -> Nat]]
      BY <2>1 DEF TypeInv, TypeOK, Session
    <2>3. run.id >= 1
      BY DEF NextGroup, TypeInv, Begun
    <2>. QED  BY <1>1, <2>1, <2>2, <2>3, CloseType
              DEF TypeInv, TypeOK, MadeWithinTurns, Begun, Place, seen
  <1>. QED  BY <1>2, <1>3

LEMMA RestTickStep == TypeInv /\ (Rest \/ Tick) => TypeInv'
  <1>1. TypeInv /\ Rest => TypeInv'
    BY DEF Rest, TypeInv, TypeOK, MadeWithinTurns, Begun, seen, loopVars
  <1>2. ASSUME TypeInv, Tick PROVE TypeInv'
    <2>1. Interval \in Nat /\ cool \in 0 .. Interval
          /\ left \in [Agents -> 0 .. Interval] /\ since \in [Agents -> 0 .. Interval]
      BY <1>2, ConstantFacts DEF TypeInv, TypeOK
    <2>2. \A n \in 0 .. Interval : Less(n) \in 0 .. Interval
          /\ Smaller(n + 1, Interval) \in 0 .. Interval
      BY <2>1 DEF Less, Smaller
    <2>3. /\ cool' = Less(cool) /\ left' = [a \in Agents |-> Less(left[a])]
          /\ since' = [a \in Agents |-> Smaller(since[a] + 1, Interval)]
      BY <1>2 DEF Tick
    <2>4. cool' \in 0 .. Interval
      BY <2>1, <2>2, <2>3
    <2>5. left' \in [Agents -> 0 .. Interval]
      BY <2>1, <2>2, <2>3
    <2>6. since' \in [Agents -> 0 .. Interval]
      BY <2>1, <2>2, <2>3
    <2>. QED  BY <1>2, <2>4, <2>5, <2>6 DEF Tick, TypeInv, TypeOK, MadeWithinTurns, Begun
  <1>. QED  BY <1>1, <1>2

\* The chain after the throttle: the session counts the call before it is made.
LEMMA SubmitType ==
    ASSUME TypeInv, NEW a \in Agents, Submit(a), pc[a] # "waiting"
    PROVE  /\ session' \in Session
           /\ pc' \in [Agents -> {"waiting"} \cup Busy \cup Ended]
           /\ saved' \subseteq 1 .. Runs
           /\ made' \in [Agents -> Nat] /\ since' \in [Agents -> 0 .. Interval]
           /\ \A b \in Agents : made'[b] <= session'.turns[b] /\ made'[b] < TurnLimit[b] + Grace
  <1>1. run.id \in 1 .. Runs /\ TypeOK
    BY DEF TypeInv, TypeOK, Begun
  <1>2. Counted(a) \in Session /\ Counted(a).turns = [session.turns EXCEPT ![a] = @ + 1]
    BY <1>1, CountedType
  <1>3. \A b \in Agents : made[b] <= Counted(a).turns[b]
    BY <1>2, <1>1 DEF TypeInv, MadeWithinTurns, TypeOK, Session
  <1>4. CASE HardStop(a)
    <2>1. End(a, "limited", Note, Counted(a)) /\ made' = made /\ since' = since
      BY <1>4 DEF HardStop
    <2>2. session' = Counted(a) /\ pc' \in [Agents -> {"waiting"} \cup Busy \cup Ended]
          /\ saved' \subseteq 1 .. Runs
      BY <1>1, <1>2, <2>1, EndType DEF Ended
    <2>. QED  BY <1>1, <1>2, <1>3, <2>1, <2>2 DEF TypeOK
  <1>5. CASE Refuse(a)
    <2>. DEFINE c == [Counted(a) EXCEPT !.checkpoint[BudgetKey] = run.id]
    <2>1. End(a, "exhausted", Note, c) /\ made' = made /\ since' = since
      BY <1>5 DEF Refuse
    <2>2. c \in Session /\ c.turns = Counted(a).turns
      BY <1>1, RefusedType
    <2>. HIDE DEF c
    <2>3. session' = c /\ pc' \in [Agents -> {"waiting"} \cup Busy \cup Ended]
          /\ saved' \subseteq 1 .. Runs
      BY <1>1, <2>1, <2>2, EndType DEF Ended
    <2>. QED  BY <1>1, <1>3, <2>1, <2>2, <2>3 DEF TypeOK
  <1>6. ASSUME ~OverLimit(a), NEW fitted, Call(a, fitted)
        PROVE  /\ session' \in Session
               /\ pc' \in [Agents -> {"waiting"} \cup Busy \cup Ended]
               /\ saved' \subseteq 1 .. Runs
               /\ made' \in [Agents -> Nat] /\ since' \in [Agents -> 0 .. Interval]
               /\ \A b \in Agents :
                    made'[b] <= session'.turns[b] /\ made'[b] < TurnLimit[b] + Grace
    <2>1. session' \in Session /\ session'.turns = Counted(a).turns
      BY <1>1, <1>6, CalledType DEF Call
    <2>2. made' = [made EXCEPT ![a] = @ + 1] /\ since' = [since EXCEPT ![a] = 0]
          /\ saved' = saved /\ pc' = [pc EXCEPT ![a] = "calling"]
      BY <1>6 DEF Call
    <2>8. Counted(a).turns[a] \in Nat /\ TurnLimit[a] \in Nat
      BY <1>2, ConstantFacts DEF Session
    <2>3. Counted(a).turns[a] < TurnLimit[a] + Grace
      BY <1>6, <2>8 DEF OverLimit, Grace
    <2>9. made[a] \in Nat /\ session.turns[a] \in Nat /\ made[a] <= session.turns[a]
          /\ Counted(a).turns[a] = session.turns[a] + 1
      BY <1>1, <1>2 DEF TypeInv, TypeOK, MadeWithinTurns, Session
    <2>10. made'[a] = made[a] + 1
      BY <1>1, <2>2 DEF TypeOK
    <2>4. made'[a] <= Counted(a).turns[a] /\ made'[a] \in Nat
      BY <2>9, <2>10
    <2>5. made'[a] < TurnLimit[a] + Grace
      BY <2>3, <2>4, <2>8 DEF Grace
    <2>6. made' \in [Agents -> Nat] /\ since' \in [Agents -> 0 .. Interval]
          /\ pc' \in [Agents -> {"waiting"} \cup Busy \cup Ended]
      BY <1>1, <2>2, ConstantFacts DEF TypeOK, Busy
    <2>7. \A b \in Agents : made'[b] <= session'.turns[b] /\ made'[b] < TurnLimit[b] + Grace
      BY <1>1, <1>3, <2>1, <2>2, <2>4, <2>5 DEF TypeOK
    <2>. QED  BY <1>1, <2>1, <2>2, <2>6, <2>7 DEF TypeOK
  <1>. QED  BY <1>4, <1>5, <1>6 DEF Submit

\* An agent that ends as it answers, from the model call it was in.
LEMMA AnswerEndType ==
    ASSUME TypeInv, NEW a \in Agents, pc[a] = "calling", NEW size, NEW c \in Session,
           c.turns = session.turns, End(a, "answered", size, c)
    PROVE  /\ session' \in Session /\ saved' \subseteq 1 .. Runs
           /\ pc' \in [Agents -> {"waiting"} \cup Busy \cup Ended]
           /\ \A b \in Agents : made[b] <= session'.turns[b]
  <1>1. run.id \in 1 .. Runs /\ TypeOK
    BY DEF TypeInv, TypeOK, Begun
  <1>2. session' = c /\ saved' \subseteq 1 .. Runs
        /\ pc' \in [Agents -> {"waiting"} \cup Busy \cup Ended]
    BY <1>1, EndType DEF Ended
  <1>. QED  BY <1>2 DEF TypeInv, MadeWithinTurns

LEMMA SpendType ==
    ASSUME TypeOK, NEW a \in Agents, Spend(a)
    PROVE  spent' \in [Models -> Nat]
  <1>1. spent \in [Models -> Nat] /\ Model[a] \in Models
    BY ConstantFacts DEF TypeOK
  <1>2. [spent EXCEPT ![Model[a]] = @ + 1] \in [Models -> Nat]
    BY <1>1
  <1>. QED  BY <1>1, <1>2 DEF Spend

LEMMA AgentTypeStep ==
    ASSUME TypeInv, NEW a \in Agents, AgentStep(a)
    PROVE  TypeInv'
  <1>. USE DEF Answers
  <1>1. CASE Sleep(a)
    <2>1. pc' \in [Agents -> {"waiting"} \cup Busy \cup Ended] /\ left' \in [Agents -> 0 .. Interval]
      BY <1>1 DEF Sleep, TypeInv, TypeOK, Busy
    <2>2. run.id >= 1
      BY <1>1 DEF Sleep, TypeInv, Begun
    <2>. QED  BY <1>1, <2>1, <2>2 DEF Sleep, TypeInv, TypeOK, MadeWithinTurns, Begun, seen
  <1>2. CASE Proceed(a) \/ Wake(a)
    <2>1. Submit(a) /\ pc[a] # "waiting" /\ cool' \in 0 .. Interval
          /\ UNCHANGED <<entry, groups, run, left, report, spent>>
      BY <1>2, ConstantFacts DEF Proceed, Wake, Stamped
    <2>2. run.id >= 1
      BY <2>1 DEF TypeInv, Begun
    <2>. QED  BY <2>1, <2>2, SubmitType DEF TypeInv, TypeOK, MadeWithinTurns, Begun
  <1>3. CASE AnswerText(a)
    <2>1. PICK size : End(a, "answered", size, After(a)) /\ Spend(a) /\ Answers(a)
                      /\ UNCHANGED <<run, report>>
      BY <1>3 DEF AnswerText
    <2>2. After(a) \in Session /\ After(a).turns = session.turns
      BY AfterType DEF TypeInv
    <2>3. spent' \in [Models -> Nat]
      BY <2>1, SpendType DEF TypeInv
    <2>4. run.id >= 1
      BY <2>1 DEF TypeInv, Begun
    <2>. QED  BY <2>1, <2>2, <2>3, <2>4, AnswerEndType
              DEF TypeInv, TypeOK, MadeWithinTurns, Begun
  <1>4. CASE AnswerTool(a) \/ AnswerUnknownTool(a)
    <2>1. /\ Answers(a) /\ Spend(a) /\ session' = After(a) /\ UNCHANGED <<run, saved, report>>
          /\ pc' = [pc EXCEPT ![a] = "tool"] \/ pc' = [pc EXCEPT ![a] = "ready"]
      BY <1>4 DEF AnswerTool, AnswerUnknownTool
    <2>2. After(a) \in Session /\ After(a).turns = session.turns
      BY AfterType DEF TypeInv
    <2>3. spent' \in [Models -> Nat]
      BY <2>1, SpendType DEF TypeInv
    <2>4. pc' \in [Agents -> {"waiting"} \cup Busy \cup Ended]
      BY <2>1 DEF TypeInv, TypeOK, Busy
    <2>5. run.id >= 1
      BY <2>1 DEF TypeInv, Begun
    <2>. QED  BY <2>1, <2>2, <2>3, <2>4, <2>5 DEF TypeInv, TypeOK, MadeWithinTurns, Begun
  <1>5. CASE AnswerBadJson(a)
    <2>1. End(a, "answered", Note, session) /\ Answers(a) /\ UNCHANGED <<run, report, spent>>
      BY <1>5 DEF AnswerBadJson
    <2>2. session \in Session /\ run.id >= 1
      BY <2>1 DEF TypeInv, TypeOK, Begun
    <2>. QED  BY <2>1, <2>2, AnswerEndType DEF TypeInv, TypeOK, MadeWithinTurns, Begun
  <1>6. CASE ProviderFails(a)
    <2>1. Close(TRUE) /\ UNCHANGED <<entry, groups, session, cool, saved, report, seen>>
      BY <1>6 DEF ProviderFails
    <2>2. run.id >= 1
      BY <1>6 DEF ProviderFails, TypeInv, Begun
    <2>. QED  BY <2>1, <2>2, CloseType
              DEF TypeInv, TypeOK, MadeWithinTurns, Begun, Place, seen
  <1>7. CASE ToolReturns(a)
    <2>1. /\ pc' = [pc EXCEPT ![a] = "ready"] /\ pc[a] = "tool"
          /\ UNCHANGED <<entry, groups, run, session, loopVars, cool, saved, report, seen>>
      BY <1>7 DEF ToolReturns
    <2>2. run.id >= 1
      BY <2>1 DEF TypeInv, Begun
    <2>3. pc' \in [Agents -> {"waiting"} \cup Busy \cup Ended]
      BY <2>1 DEF TypeInv, TypeOK, Busy
    <2>. QED  BY <2>1, <2>2, <2>3
              DEF TypeInv, TypeOK, MadeWithinTurns, Begun, seen, loopVars
  <1>. QED  BY <1>1, <1>2, <1>3, <1>4, <1>5, <1>6, <1>7 DEF AgentStep

LEMMA TypeStep == TypeInv /\ [Next]_vars => TypeInv'
  <1>. SUFFICES ASSUME TypeInv, [Next]_vars PROVE TypeInv'
    OBVIOUS
  <1>1. CASE RunSingleQuery
    BY <1>1, BeginStep DEF RunSingleQuery
  <1>2. CASE UserTurn
    BY <1>2, BeginStep DEF UserTurn
  <1>3. CASE NextGroup \/ Rest \/ Tick
    BY <1>3, NextGroupStep, RestTickStep
  <1>4. CASE \E a \in Agents : AgentStep(a)
    BY <1>4, AgentTypeStep
  <1>5. CASE UNCHANGED vars
    BY <1>5 DEF vars, TypeInv, TypeOK, MadeWithinTurns, Begun, seen, loopVars
  <1>. QED  BY <1>1, <1>2, <1>3, <1>4, <1>5 DEF Next

\* Types, and an agent never makes more calls in a run than its limit and its
\* grace allow: turn_limit.py counts a turn before the call is made.
THEOREM CallsWithinLimit == Spec => []TypeOK
  <1>1. TypeInv => TypeOK
    BY DEF TypeInv
  <1>. QED  BY <1>1, TypeInit, TypeStep, PTL DEF Spec

-----------------------------------------------------------------------------
(* Usage                                                                    *)

\* From the call to the answer an agent's slot names its own model.
SlotNamesModel == \A a \in Agents : pc[a] = "calling" => session.slot[a] = {Model[a]}

\* An accumulator of another run is an earlier one's, and then the models have
\* answered nothing yet in this run.
AccumulatorOfRun ==
    /\ session.usage.run <= run.id
    /\ session.usage.run # run.id => spent = NoUsage

UsageInv == TypeInv /\ SlotNamesModel /\ AccumulatorOfRun /\ UsageExact

LEMMA UsageInit == Init => UsageInv
  BY TypeInit DEF Init, UsageInv, SlotNamesModel, AccumulatorOfRun, UsageExact, FreshSession

\* An answer is booked to the row of the model that gave it.
LEMMA AnswerBooked ==
    ASSUME UsageInv, NEW a \in Agents, pc[a] = "calling", Spend(a), run' = run,
           session'.usage = After(a).usage
    PROVE  AccumulatorOfRun' /\ UsageExact'
  <1>1. /\ spent \in [Models -> Nat] /\ Model[a] \in Models /\ session.slot[a] = {Model[a]}
        /\ Slot(a) = a
    BY ConstantFacts DEF UsageInv, TypeInv, TypeOK, SlotNamesModel, Slot, SlotOfAgent
  <1>2. CASE Model[a] \notin Metered
    BY <1>2 DEF After, Spend, UsageInv, AccumulatorOfRun, UsageExact
  <1>3. CASE Model[a] \in Metered
    <2>1. Base = spent
      BY DEF Base, UsageInv, AccumulatorOfRun, UsageExact
    <2>2. spent' = [spent EXCEPT ![Model[a]] = @ + 1]
      BY <1>3 DEF Spend
    <2>3. After(a).usage = Sampled(a)
      BY <1>3 DEF After, UsageInv, TypeInv, TypeOK, Session
    <2>4. Sampled(a).run = run.id /\ Sampled(a).by = spent'
      BY <1>1, <2>1, <2>2 DEF Sampled
    <2>5. run.id \in Nat
      BY DEF UsageInv, TypeInv, TypeOK
    <2>. QED  BY <2>3, <2>4, <2>5 DEF AccumulatorOfRun, UsageExact
  <1>. QED  BY <1>2, <1>3

\* The chain before a call leaves the accumulator and the other agents' slots
\* alone, and gives the caller its own.
LEMMA SubmitBooks ==
    ASSUME UsageInv, NEW a \in Agents, Submit(a), run' = run, spent' = spent
    PROVE  SlotNamesModel' /\ AccumulatorOfRun' /\ UsageExact'
  <1>1. TypeOK /\ \A b \in Agents : b # a /\ pc[b] = "calling" => session.slot[b] = {Model[b]}
    BY DEF UsageInv, TypeInv, SlotNamesModel
  <1>2. Counted(a).slot = session.slot /\ Counted(a).usage = session.usage
    BY <1>1, CountedType
  <1>3. ASSUME NEW how \in Ended, NEW c, End(a, how, Note, c), c.slot = session.slot,
               c.usage = session.usage
        PROVE  SlotNamesModel' /\ session'.usage = session.usage
    <2>1. session' = c /\ pc' = [pc EXCEPT ![a] = how] /\ how # "calling"
      BY <1>3 DEF End, Ended
    <2>. QED  BY <1>1, <1>3, <2>1 DEF TypeOK, SlotNamesModel
  <1>4. CASE HardStop(a)
    <2>1. End(a, "limited", Note, Counted(a))
      BY <1>4 DEF HardStop
    <2>2. SlotNamesModel' /\ session'.usage = session.usage
      BY <1>2, <1>3, <2>1 DEF Ended
    <2>. QED  BY <2>2 DEF UsageInv, AccumulatorOfRun, UsageExact
  <1>5. CASE Refuse(a)
    <2>. DEFINE c == [Counted(a) EXCEPT !.checkpoint[BudgetKey] = run.id]
    <2>1. End(a, "exhausted", Note, c)
      BY <1>5 DEF Refuse
    <2>2. c.slot = session.slot /\ c.usage = session.usage
      BY <1>1, RefusedType
    <2>. HIDE DEF c
    <2>3. SlotNamesModel' /\ session'.usage = session.usage
      BY <1>3, <2>1, <2>2 DEF Ended
    <2>. QED  BY <2>3 DEF UsageInv, AccumulatorOfRun, UsageExact
  <1>6. ASSUME NEW fitted, Call(a, fitted)
        PROVE  SlotNamesModel' /\ AccumulatorOfRun' /\ UsageExact'
    <2>1. /\ session'.slot = [session.slot EXCEPT ![a] = {Model[a]}]
          /\ session'.usage = session.usage /\ pc' = [pc EXCEPT ![a] = "calling"]
      BY <1>1, <1>6, CalledType DEF Call
    <2>2. session.slot \in [Agents -> SUBSET Models] /\ pc \in [Agents -> {"waiting"} \cup Busy \cup Ended]
      BY <1>1 DEF TypeOK, Session
    <2>3. SlotNamesModel'
      BY <1>1, <2>1, <2>2 DEF SlotNamesModel
    <2>. QED  BY <2>1, <2>3 DEF UsageInv, AccumulatorOfRun, UsageExact
  <1>. QED  BY <1>4, <1>5, <1>6 DEF Submit

\* A step after which no agent is calling that was not, on the same session.
LEMMA QuietStep ==
    ASSUME UsageInv, session' = session, run'.id = run.id, spent' = spent,
           \A b \in Agents : pc'[b] = "calling" => pc[b] = "calling"
    PROVE  SlotNamesModel' /\ AccumulatorOfRun' /\ UsageExact'
  BY DEF UsageInv, SlotNamesModel, AccumulatorOfRun, UsageExact

LEMMA AgentUsageStep ==
    ASSUME UsageInv, NEW a \in Agents, AgentStep(a)
    PROVE  SlotNamesModel' /\ AccumulatorOfRun' /\ UsageExact'
  <1>. USE DEF Answers
  <1>1. pc \in [Agents -> {"waiting"} \cup Busy \cup Ended] /\ TypeOK
    BY DEF UsageInv, TypeInv, TypeOK
  <1>2. CASE Sleep(a) \/ ToolReturns(a)
    BY <1>1, <1>2, QuietStep DEF Sleep, ToolReturns, seen
  <1>3. CASE ProviderFails(a)
    <2>1. run'.id = run.id /\ \A b \in Agents : pc'[b] = "waiting"
      BY <1>3, CloseType DEF ProviderFails, UsageInv
    <2>. QED  BY <1>3, <2>1, QuietStep DEF ProviderFails, seen
  <1>4. CASE Proceed(a) \/ Wake(a)
    BY <1>4, SubmitBooks DEF Proceed, Wake
  <1>5. CASE AnswerText(a) \/ AnswerTool(a) \/ AnswerUnknownTool(a)
    <2>1. /\ pc[a] = "calling" /\ Spend(a) /\ session' = After(a) /\ run' = run
          /\ pc' = [pc EXCEPT ![a] = pc'[a]] /\ pc'[a] # "calling"
      BY <1>1, <1>5 DEF AnswerText, AnswerTool, AnswerUnknownTool, End
    <2>2. After(a).slot = session.slot
      BY <1>1, AfterType
    <2>3. SlotNamesModel'
      BY <1>1, <2>1, <2>2 DEF UsageInv, SlotNamesModel
    <2>. QED  BY <2>1, <2>3, AnswerBooked
  <1>6. CASE AnswerBadJson(a)
    BY <1>1, <1>6, QuietStep DEF AnswerBadJson, End
  <1>. QED  BY <1>2, <1>3, <1>4, <1>5, <1>6 DEF AgentStep

LEMMA BeginUsage ==
    ASSUME UsageInv, NEW scope \in {"none", "open"}, NEW kept \in BOOLEAN, Begin(scope, kept)
    PROVE  SlotNamesModel' /\ AccumulatorOfRun' /\ UsageExact'
  <1>1. run'.id = run.id + 1 /\ spent' = NoUsage /\ pc' = WithGroup(1) /\ run.id \in Nat
    BY DEF Begin, UsageInv, TypeInv, TypeOK
  <1>2. session'.usage.run <= run.id /\ session'.usage.run \in Nat
    BY DEF Begin, UsageInv, AccumulatorOfRun, FreshSession, TypeInv, TypeOK, Session
  <1>3. \A b \in Agents : pc'[b] # "calling"
    BY <1>1 DEF WithGroup
  <1>. QED  BY <1>1, <1>2, <1>3 DEF SlotNamesModel, AccumulatorOfRun, UsageExact

LEMMA UsageStep == UsageInv /\ [Next]_vars => UsageInv'
  <1>. SUFFICES ASSUME UsageInv, [Next]_vars
                PROVE  SlotNamesModel' /\ AccumulatorOfRun' /\ UsageExact'
    BY TypeStep DEF UsageInv
  <1>1. CASE RunSingleQuery
    BY <1>1, BeginUsage DEF RunSingleQuery
  <1>2. CASE UserTurn
    BY <1>2, BeginUsage DEF UserTurn
  <1>3. CASE NextGroup
    <2>1. UNCHANGED <<session, seen>> /\ groups' = groups /\ TypeInv
      BY <1>3 DEF NextGroup, UsageInv
    <2>2. /\ run'.id = run.id
          /\ \A b \in Agents : pc'[b] = "calling" => pc[b] = "calling"
      <3>1. CASE run.at < Len(groups)
        BY <1>3, <3>1 DEF NextGroup, UsageInv, TypeInv, TypeOK
      <3>2. CASE ~(run.at < Len(groups))
        BY <1>3, <2>1, <3>2, CloseType DEF NextGroup
      <3>. QED  BY <3>1, <3>2
    <2>. QED  BY <2>1, <2>2, QuietStep DEF seen
  <1>4. CASE Rest \/ Tick \/ UNCHANGED vars
    BY <1>4, QuietStep DEF Rest, Tick, vars, seen, UsageInv, TypeInv, TypeOK
  <1>5. CASE \E a \in Agents : AgentStep(a)
    BY <1>5, AgentUsageStep
  <1>. QED  BY <1>1, <1>2, <1>3, <1>4, <1>5 DEF Next

\* The usage accounted to a run is exactly what its models answered with, for
\* any number of agents in parallel: metrics.py keys the slot by agent and
\* token_usage.py starts the accumulator again with each run.
THEOREM UsageIsExact == Spec => []UsageExact
  <1>1. UsageInv => UsageExact
    BY DEF UsageInv
  <1>. QED  BY <1>1, UsageInit, UsageStep, PTL DEF Spec

-----------------------------------------------------------------------------
(* Spacing                                                                  *)

\* What is left of the interval after an agent's last call is covered by the
\* stamp's rest, and by the agent's own sleep if it is in one.
StampCovers ==
    \A a \in Agents : /\ cool + since[a] >= Interval
                      /\ pc[a] = "sleeping" => left[a] + since[a] >= Interval

SpacingInv == TypeInv /\ StampCovers

LEMMA SpacingInit == Init => SpacingInv
  BY TypeInit, ConstantFacts DEF Init, SpacingInv, StampCovers

\* A stamped step: the agent leaves the throttle with the interval over.
LEMMA SubmitSpaced ==
    ASSUME SpacingInv, NEW a \in Agents, Proceed(a) \/ Wake(a)
    PROVE  /\ since[a] = Interval
           /\ StampCovers'
           /\ \A b \in Agents : b # a => made'[b] = made[b]
  <1>1. /\ Interval \in Nat /\ cool \in 0 .. Interval /\ since \in [Agents -> 0 .. Interval]
        /\ left \in [Agents -> 0 .. Interval] /\ made \in [Agents -> Nat]
        /\ pc \in [Agents -> {"waiting"} \cup Busy \cup Ended]
    BY ConstantFacts DEF SpacingInv, TypeInv, TypeOK
  <1>2. Submit(a) /\ cool' = Interval /\ left' = left
    BY DEF Proceed, Wake, Stamped
  <1>3. since[a] = Interval
    BY <1>1 DEF SpacingInv, StampCovers, Proceed, Wake, MustSleep
  <1>4. /\ pc' = [pc EXCEPT ![a] = pc'[a]] /\ pc'[a] # "sleeping"
        /\ \/ made' = made /\ since' = since
           \/ made' = [made EXCEPT ![a] = @ + 1] /\ since' = [since EXCEPT ![a] = 0]
    BY <1>1, <1>2 DEF Submit, HardStop, Refuse, Call, End
  <1>5. StampCovers'
    BY <1>1, <1>2, <1>4 DEF SpacingInv, StampCovers
  <1>. QED  BY <1>1, <1>3, <1>4, <1>5

LEMMA SpacingStep == SpacingInv /\ [Next]_vars => StampCovers'
  <1>. SUFFICES ASSUME SpacingInv, [Next]_vars PROVE StampCovers'
    OBVIOUS
  <1>1. /\ Interval \in Nat /\ cool \in 0 .. Interval /\ since \in [Agents -> 0 .. Interval]
        /\ left \in [Agents -> 0 .. Interval] /\ TypeInv
        /\ pc \in [Agents -> {"waiting"} \cup Busy \cup Ended]
    BY ConstantFacts DEF SpacingInv, TypeInv, TypeOK
  <1>2. ASSUME cool' = cool, since' = since,
               \A a \in Agents : pc'[a] = "sleeping" => pc[a] = "sleeping" /\ left'[a] = left[a]
        PROVE  StampCovers'
    BY <1>2 DEF SpacingInv, StampCovers
  <1>3. CASE RunSingleQuery \/ UserTurn
    BY <1>2, <1>3 DEF RunSingleQuery, UserTurn, Begin, WithGroup
  <1>4. CASE NextGroup
    <2>1. \A a \in Agents : pc'[a] = "sleeping" => pc[a] = "sleeping" /\ left'[a] = left[a]
      BY <1>1, <1>4 DEF NextGroup, Close, loopVars
    <2>. QED  BY <1>2, <1>4, <2>1 DEF NextGroup, seen
  <1>5. CASE Rest \/ UNCHANGED vars
    BY <1>2, <1>5 DEF Rest, vars, seen, loopVars
  <1>6. CASE Tick
    <2>1. \A a \in Agents : /\ since'[a] = Smaller(since[a] + 1, Interval)
                            /\ left'[a] = Less(left[a])
      BY <1>1, <1>6 DEF Tick
    <2>. QED  BY <1>1, <1>6, <2>1 DEF Tick, SpacingInv, StampCovers, Smaller, Less
  <1>7. ASSUME NEW a \in Agents, AgentStep(a) PROVE StampCovers'
    <2>1. CASE Sleep(a)
      BY <1>1, <2>1 DEF Sleep, SpacingInv, StampCovers, seen
    <2>2. CASE Proceed(a) \/ Wake(a)
      BY <2>2, SubmitSpaced
    <2>3. CASE AnswerText(a) \/ AnswerTool(a) \/ AnswerUnknownTool(a) \/ AnswerBadJson(a)
      BY <1>1, <1>2, <2>3
         DEF AnswerText, AnswerTool, AnswerUnknownTool, AnswerBadJson, Answers, End
    <2>4. CASE ProviderFails(a)
      BY <1>2, <2>4 DEF ProviderFails, Close, seen
    <2>5. CASE ToolReturns(a)
      BY <1>1, <1>2, <2>5 DEF ToolReturns, seen, loopVars
    <2>. QED  BY <1>7, <2>1, <2>2, <2>3, <2>4, <2>5 DEF AgentStep
  <1>. QED  BY <1>3, <1>4, <1>5, <1>6, <1>7 DEF Next

\* No step but one that leaves the throttle makes a call.
LEMMA CallsStamped ==
    ASSUME SpacingInv, [Next]_vars, NEW a \in Agents, made'[a] = made[a] + 1
    PROVE  Proceed(a) \/ Wake(a)
  <1>1. made \in [Agents -> Nat]
    BY DEF SpacingInv, TypeInv, TypeOK
  <1>2. made' # made
    BY <1>1
  <1>3. CASE RunSingleQuery \/ UserTurn
    <2>1. made' = [b \in Agents |-> 0]
      BY <1>3 DEF RunSingleQuery, UserTurn, Begin
    <2>2. made'[a] = 0 /\ made[a] \in Nat
      BY <1>1, <2>1
    <2>. QED  BY <2>2
  <1>4. CASE NextGroup \/ Rest \/ Tick \/ UNCHANGED vars
    BY <1>2, <1>4 DEF NextGroup, Rest, Tick, vars, seen
  <1>5. ASSUME NEW b \in Agents, AgentStep(b) PROVE Proceed(a) \/ Wake(a)
    <2>1. Proceed(b) \/ Wake(b)
      BY <1>2, <1>5 DEF AgentStep, Sleep, AnswerText, AnswerTool, AnswerUnknownTool,
                        AnswerBadJson, Answers, ProviderFails, ToolReturns, seen
    <2>2. b # a => made'[a] = made[a]
      BY <2>1, SubmitSpaced
    <2>. QED  BY <1>1, <2>1, <2>2
  <1>. QED  BY <1>3, <1>4, <1>5 DEF Next

\* Two calls of one agent are never closer than the interval: throttle.py
\* stamps after its sleep, and nobody else calls for the agent meanwhile.
THEOREM CallsAreSpaced == Spec => AgentCallsSpaced
  <1>1. SpacingInv /\ [Next]_vars => SpacingInv'
    BY TypeStep, SpacingStep DEF SpacingInv
  <1>2. SpacingInv /\ [Next]_vars
          => [\A a \in Agents : made'[a] = made[a] + 1 => since[a] = Interval]_vars
    BY CallsStamped, SubmitSpaced
  <1>. QED  BY SpacingInit, <1>1, <1>2, PTL DEF Spec, AgentCallsSpaced

-----------------------------------------------------------------------------
(* The conversation and the request                                         *)

\* What BinaryDataFramed says of a conversation, and its type.
ShapedSeq(s) == s \in Seq(Content) /\ \A i \in DOMAIN s : WholeOrGone(s[i])

\* A request at the model is what the budget check let pass of the agent's
\* conversation, which nobody changes while the model is working on it.
Submitted == \A a \in Agents : pc[a] = "calling" =>
    request[a] = Fitted(history[a]) /\ ~Refused(history[a], request[a])

RequestInv ==
    /\ TypeInv
    /\ DOMAIN history = Agents /\ DOMAIN request = Agents
    /\ \A a \in Agents : ShapedSeq(history[a])
    /\ \A a \in Agents : \A i \in DOMAIN request[a] : WholeOrGone(request[a][i])
    /\ Submitted

LEMMA ContentsShaped ==
    /\ \A size \in Nat : /\ User(size) \in Content /\ WholeOrGone(User(size))
                         /\ Text(size) \in Content /\ WholeOrGone(Text(size))
    /\ UnknownTool \in Content /\ WholeOrGone(UnknownTool)
    /\ \A a \in Agents : \A r \in ToolResults[a] :
          Completed(r) \in Content /\ WholeOrGone(Completed(r))
    /\ Note \in Nat /\ \A size \in UserSizes : size \in Nat
    /\ \A a \in Agents : \A size \in TextSizes[a] : size \in Nat
  <1>1. \A size \in Nat : User(size) \in Content /\ WholeOrGone(User(size))
                          /\ Text(size) \in Content /\ WholeOrGone(Text(size))
    BY DEF User, Text, Plain, Content, WholeOrGone
  <1>2. UnknownTool \in Content /\ WholeOrGone(UnknownTool) /\ Note \in Nat
    BY DEF UnknownTool, Result, Plain, Content, WholeOrGone, Note
  <1>3. ASSUME NEW a \in Agents, NEW r \in ToolResults[a]
        PROVE  Completed(r) \in Content /\ WholeOrGone(Completed(r))
    BY ContentAssumption, CompletedFramed
  <1>. QED  BY <1>1, <1>2, <1>3, ContentAssumption

LEMMA AppendShaped ==
    ASSUME NEW s, ShapedSeq(s), NEW c \in Content, WholeOrGone(c)
    PROVE  ShapedSeq(Append(s, c)) /\ ShapedSeq(<<c>>) /\ ShapedSeq(s \o <<c>>)
           /\ ShapedSeq(s \o <<>>)
  <1>1. /\ Append(s, c) \in Seq(Content) /\ Len(Append(s, c)) = Len(s) + 1
        /\ \A i \in 1 .. Len(s) + 1 :
              Append(s, c)[i] = IF i = Len(s) + 1 THEN c ELSE s[i]
    BY DEF ShapedSeq
  <1>2. ShapedSeq(Append(s, c))
    BY <1>1 DEF ShapedSeq
  <1>3. ShapedSeq(<<c>>)
    BY DEF ShapedSeq
  <1>4. s \o <<c>> = Append(s, c) /\ s \o <<>> = s
    BY DEF ShapedSeq
  <1>. QED  BY <1>2, <1>3, <1>4

LEMMA RequestInit == Init => RequestInv
  <1>. SUFFICES ASSUME Init  PROVE RequestInv
    OBVIOUS
  <1>1. TypeInv
    BY TypeInit
  <1>2. ShapedSeq(<<>>)
    BY DEF ShapedSeq
  <1>. QED  BY <1>1, <1>2 DEF Init, RequestInv, Submitted

\* A step that leaves the conversations alone and starts no call.
LEMMA ConversationsKept ==
    ASSUME RequestInv, TypeInv', history' = history, DOMAIN request' = Agents,
           \A a \in Agents : request'[a] \in {request[a], <<>>},
           \A a \in Agents : pc'[a] = "calling" => pc[a] = "calling" /\ request'[a] = request[a]
    PROVE  RequestInv'
  BY DEF RequestInv, Submitted

\* A step of one agent that adds to its own conversation and ends no call of
\* another.
LEMMA ConversationGrows ==
    ASSUME RequestInv, TypeInv', NEW a \in Agents, NEW s, ShapedSeq(s),
           history' = [history EXCEPT ![a] = s], DOMAIN request' = Agents,
           pc'[a] # "calling",
           request'[a] \in {request[a], <<>>},
           \A b \in Agents \ {a} : pc'[b] = pc[b] /\ request'[b] = request[b]
    PROVE  RequestInv'
  <1>1. \A b \in Agents : history'[b] = IF b = a THEN s ELSE history[b]
    BY DEF RequestInv
  <1>2. DOMAIN history' = Agents
    BY DEF RequestInv
  <1>. QED  BY <1>1, <1>2 DEF RequestInv, Submitted

LEMMA BeginRequests ==
    ASSUME RequestInv, TypeInv', NEW scope, NEW kept, Begin(scope, kept)
    PROVE  RequestInv'
  <1>1. PICK size \in UserSizes : history' = Asked(size, kept) /\ pc' = WithGroup(1)
                                  /\ request' = request
    BY DEF Begin, loopVars
  <1>2. User(size) \in Content /\ WholeOrGone(User(size))
    BY ContentsShaped
  <1>3. ShapedSeq(<<User(size)>>)
    <2>1. ShapedSeq(<<>>)
      BY DEF ShapedSeq
    <2>. QED  BY <1>2, <2>1, AppendShaped
  <1>4. ASSUME NEW a \in Agents  PROVE ShapedSeq(history'[a])
    <2>1. ShapedSeq(Append(history[a], User(size)))
      BY <1>2, AppendShaped DEF RequestInv
    <2>. QED  BY <1>1, <1>3, <2>1 DEF Asked
  <1>5. DOMAIN history' = Agents /\ \A a \in Agents : pc'[a] # "calling"
    BY <1>1 DEF Asked, WithGroup
  <1>. QED  BY <1>1, <1>4, <1>5 DEF RequestInv, Submitted

LEMMA SubmitRequests ==
    ASSUME RequestInv, TypeInv', NEW a \in Agents, Submit(a), pc[a] \in {"ready", "sleeping"}
    PROVE  RequestInv'
  <1>0. pc \in [Agents -> {"waiting"} \cup Busy \cup Ended]
    BY DEF RequestInv, TypeInv, TypeOK
  <1>1. ShapedSeq(Append(history[a], Text(Note)))
    BY ContentsShaped, AppendShaped DEF RequestInv
  <1>2. ASSUME NEW how \in Ended, NEW c, End(a, how, Note, c), request' = request
        PROVE  RequestInv'
    <2>1. history' = [history EXCEPT ![a] = Append(history[a], Text(Note))]
          /\ pc' = [pc EXCEPT ![a] = how] /\ how # "calling"
      BY <1>2 DEF End, RequestInv, Ended
    <2>. QED  BY <1>0, <1>1, <1>2, <2>1, ConversationGrows DEF RequestInv
  <1>3. CASE HardStop(a)
    BY <1>2, <1>3 DEF HardStop, Ended
  <1>4. CASE ~OverLimit(a) /\ Refuse(a)
    BY <1>2, <1>4 DEF Refuse, Ended
  <1>5. CASE ~Refused(history[a], Fitted(history[a])) /\ Call(a, Fitted(history[a]))
    <2>1. /\ request' = [request EXCEPT ![a] = Fitted(history[a])] /\ history' = history
          /\ pc' = [pc EXCEPT ![a] = "calling"]
      BY <1>5 DEF Call
    <2>2. DOMAIN request' = Agents /\ request'[a] = Fitted(history[a])
          /\ \A b \in Agents \ {a} : pc'[b] = pc[b] /\ request'[b] = request[b]
      BY <1>0, <2>1 DEF RequestInv
    <2>3. \A i \in DOMAIN request'[a] : WholeOrGone(request'[a][i])
      <3>. DEFINE s == history[a]
                  n == Len(s)
      <3>1. /\ n \in Nat /\ DOMAIN s = 1 .. n
            /\ \A i \in 1 .. n : s[i] \in Content /\ WholeOrGone(s[i])
        BY DEF RequestInv, ShapedSeq
      <3>. HIDE DEF s, n
      <3>2. \A i \in DOMAIN Fitted(s) : WholeOrGone(Fitted(s)[i])
        BY <3>1, FittedKeeps DEF Keeps
      <3>. QED  BY <2>2, <3>2 DEF s
    <2>. QED  BY <1>5, <2>1, <2>2, <2>3 DEF RequestInv, Submitted
  <1>. QED  BY <1>3, <1>4, <1>5 DEF Submit

LEMMA AgentRequests ==
    ASSUME RequestInv, TypeInv', NEW a \in Agents, AgentStep(a)
    PROVE  RequestInv'
  <1>0. /\ pc \in [Agents -> {"waiting"} \cup Busy \cup Ended]
        /\ ShapedSeq(history[a]) /\ DOMAIN request = Agents
    BY DEF RequestInv, TypeInv, TypeOK
  <1>1. CASE Sleep(a)
    BY <1>0, <1>1, ConversationsKept DEF Sleep, RequestInv
  <1>2. CASE Proceed(a) \/ Wake(a)
    BY <1>2, SubmitRequests DEF Proceed, Wake
  <1>3. ASSUME NEW c \in Content, WholeOrGone(c), history' = [history EXCEPT ![a] = Append(@, c)],
               pc'[a] # "calling", DOMAIN request' = Agents,
               request'[a] \in {request[a], <<>>},
               \A b \in Agents \ {a} : pc'[b] = pc[b] /\ request'[b] = request[b]
        PROVE  RequestInv'
    <2>1. history' = [history EXCEPT ![a] = Append(history[a], c)]
      BY <1>3 DEF RequestInv
    <2>2. ShapedSeq(Append(history[a], c))
      BY <1>0, <1>3, AppendShaped
    <2>. QED  BY <1>3, <2>1, <2>2, ConversationGrows
  <1>4. ASSUME Answers(a)
        PROVE  /\ DOMAIN request' = Agents /\ request'[a] = <<>>
               /\ \A b \in Agents \ {a} : request'[b] = request[b]
    BY <1>0, <1>4 DEF Answers
  <1>5. CASE AnswerText(a)
    <2>1. PICK size \in TextSizes[a] : End(a, "answered", size, After(a))
      BY <1>5 DEF AnswerText
    <2>2. Text(size) \in Content /\ WholeOrGone(Text(size))
      BY ContentsShaped
    <2>. QED  BY <1>0, <1>3, <1>4, <1>5, <2>1, <2>2 DEF AnswerText, End
  <1>6. CASE AnswerTool(a)
    <2>1. PICK said \in {<<>>} \cup {<<Text(size)>> : size \in TextSizes[a]} :
             history' = [history EXCEPT ![a] = @ \o said]
      BY <1>6 DEF AnswerTool
    <2>2. ShapedSeq(history[a] \o said)
      <3>1. CASE said = <<>>
        BY <1>0, <3>1, ContentsShaped, AppendShaped
      <3>2. ASSUME NEW size \in TextSizes[a], said = <<Text(size)>>
            PROVE  ShapedSeq(history[a] \o said)
        BY <1>0, <3>2, ContentsShaped, AppendShaped
      <3>. QED  BY <3>1, <3>2
    <2>3. history' = [history EXCEPT ![a] = history[a] \o said]
      BY <2>1 DEF RequestInv
    <2>4. pc'[a] # "calling" /\ \A b \in Agents \ {a} : pc'[b] = pc[b]
      BY <1>0, <1>6 DEF AnswerTool
    <2>. QED  BY <1>4, <1>6, <2>2, <2>3, <2>4, ConversationGrows DEF AnswerTool
  <1>7. CASE AnswerUnknownTool(a)
    BY <1>0, <1>3, <1>4, <1>7, ContentsShaped DEF AnswerUnknownTool
  <1>8. CASE AnswerBadJson(a)
    <2>1. Text(Note) \in Content /\ WholeOrGone(Text(Note))
      BY ContentsShaped
    <2>. QED  BY <1>0, <1>3, <1>4, <1>8, <2>1 DEF AnswerBadJson, End
  <1>9. CASE ProviderFails(a)
    <2>1. history' = history /\ DOMAIN request' = Agents
          /\ \A b \in Agents : pc'[b] # "calling" /\ request'[b] = <<>>
      BY <1>9 DEF ProviderFails, Close
    <2>. QED  BY <2>1, ConversationsKept
  <1>10. CASE ToolReturns(a)
    <2>1. PICK r \in ToolResults[a] : history' = [history EXCEPT ![a] = Append(@, Completed(r))]
                                   /\ pc' = [pc EXCEPT ![a] = "ready"] /\ request' = request
      BY <1>10 DEF ToolReturns, loopVars
    <2>2. Completed(r) \in Content /\ WholeOrGone(Completed(r))
      BY ContentsShaped
    <2>. QED  BY <1>0, <1>3, <2>1, <2>2
  <1>. QED  BY <1>1, <1>2, <1>5, <1>6, <1>7, <1>8, <1>9, <1>10 DEF AgentStep

LEMMA RequestStep == RequestInv /\ [Next]_vars => RequestInv'
  <1>. SUFFICES ASSUME RequestInv, [Next]_vars  PROVE RequestInv'
    OBVIOUS
  <1>0. TypeInv' /\ pc \in [Agents -> {"waiting"} \cup Busy \cup Ended]
    BY TypeStep DEF RequestInv, TypeInv, TypeOK
  <1>1. CASE RunSingleQuery \/ UserTurn
    BY <1>0, <1>1, BeginRequests DEF RunSingleQuery, UserTurn
  <1>2. CASE NextGroup
    <2>1. CASE run.at < Len(groups)
      <3>1. /\ history' = history /\ request' = request
            /\ \A a \in Agents : pc'[a] = "calling" => pc[a] = "calling"
        BY <1>2, <2>1 DEF NextGroup, loopVars
      <3>. QED  BY <1>0, <3>1, ConversationsKept DEF RequestInv
    <2>2. CASE ~(run.at < Len(groups))
      <3>1. history' = history /\ DOMAIN request' = Agents
            /\ \A a \in Agents : pc'[a] # "calling" /\ request'[a] = <<>>
        BY <1>2, <2>2 DEF NextGroup, Close
      <3>. QED  BY <1>0, <3>1, ConversationsKept
    <2>. QED  BY <2>1, <2>2
  <1>3. CASE Rest \/ Tick \/ UNCHANGED vars
    <2>1. history' = history /\ request' = request /\ pc' = pc
      BY <1>3 DEF Rest, Tick, vars, loopVars
    <2>. QED  BY <1>0, <2>1, ConversationsKept DEF RequestInv
  <1>4. CASE \E a \in Agents : AgentStep(a)
    BY <1>0, <1>4, AgentRequests
  <1>. QED  BY <1>1, <1>2, <1>3, <1>4 DEF Next

\* Whatever the conversation has grown to, a request at the model is below the
\* critical threshold and has the latest content of each kind as it was:
\* budget.py estimates what it has compacted, and spares the most recent.
THEOREM RequestsFit == Spec => []RequestFits
  <1>1. RequestInv => RequestFits
    <2>. SUFFICES ASSUME RequestInv, NEW a \in Agents, pc[a] = "calling"
                  PROVE  /\ Tokens(request[a]) < Critical
                         /\ \A i \in DOMAIN history[a] :
                              IsLatest(history[a], i)
                                => i \in DOMAIN request[a] /\ request[a][i] = history[a][i]
      BY DEF RequestFits
    <2>. DEFINE s == history[a]
                n == Len(s)
    <2>1. n \in Nat /\ DOMAIN s = 1 .. n /\ \A i \in 1 .. n : s[i] \in Content
      BY DEF RequestInv, ShapedSeq
    <2>2. request[a] = Fitted(s) /\ ~Refused(s, Fitted(s))
      BY DEF RequestInv, Submitted
    <2>. HIDE DEF s, n
    <2>3. Tokens(Fitted(s)) < Critical
      BY <2>1, <2>2, PassedIsBelow
    <2>4. Keeps(s, Fitted(s), n)
      BY <2>1, FittedKeeps
    <2>5. \A i \in DOMAIN s : IsLatest(s, i) => i \in DOMAIN Fitted(s) /\ Fitted(s)[i] = s[i]
      BY <2>1, <2>4 DEF Keeps, IsLatest
    <2>. QED  BY <2>2, <2>3, <2>5 DEF s
  <1>. QED  BY <1>1, RequestInit, RequestStep, PTL DEF Spec

\* Whatever a tool on a binary returns, its data reach a conversation and a
\* request whole and in their frame, or not at all: the chain of
\* callback_chain.py goes on to the compaction after the sanitizer has replaced
\* the response, and the budget check replaces a response as a whole.
THEOREM BinaryDataIsFramed == Spec => []BinaryDataFramed
  <1>1. RequestInv => BinaryDataFramed
    <2>. SUFFICES ASSUME RequestInv, NEW a \in Agents,
                         NEW contents \in {history[a], request[a]}, NEW i \in DOMAIN contents
                  PROVE  WholeOrGone(contents[i])
      BY DEF BinaryDataFramed, WholeOrGone
    <2>. QED  BY DEF RequestInv, ShapedSeq
  <1>. QED  BY <1>1, RequestInit, RequestStep, PTL DEF Spec
===============================================================================
