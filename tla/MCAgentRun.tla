------------------------------ MODULE MCAgentRun ------------------------------
(***************************************************************************)
(* An instance of AgentRun: an agent with its conversation, or two isolated *)
(* lenses on two models, in parallel or one after the other.                *)
(***************************************************************************)
EXTENDS AgentRun

CONSTANTS analyst, host, network, small, large

AllAgents == {analyst, host, network}
Lenses    == {host, network}
Roots     == {<<{analyst}>>, <<Lenses>>, <<{host}, {network}>>}
ModelOf   == [a \in AllAgents |-> IF a = network THEN large ELSE small]
LimitOf   == [a \in AllAgents |-> IF a = analyst THEN 2 ELSE 1]
TextsOf   == [a \in AllAgents |-> IF a = analyst THEN {1, 5} ELSE {1}]

\* A tiny response of a binary, which compaction lengthens, one whose frame is
\* above the bound, and one that truncation leaves above it.
Tiny == Result(1, 1, 2, "binary")
Long == Result(3, 3, 5, "binary")
Odd  == Result(9, 6, 10, "opaque")
Returned == [a \in AllAgents |-> CASE a = analyst -> {Tiny, Long, Odd}
                                  [] a = host    -> {Tiny, Odd}
                                  [] a = network -> {Long}]
==============================================================================
