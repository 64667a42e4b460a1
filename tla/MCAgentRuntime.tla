---------------------------- MODULE MCAgentRuntime ----------------------------
(* Instances of AgentRuntime for TLC. *)
EXTENDS AgentRuntime, TLC

CONSTANTS h1, h2, w1, w2, p1, p2

\* Plan p1 asks for both workers, plan p2 for one of them.
MCPlanWorkers == (p1 :> {w1, w2}) @@ (p2 :> {w1})

MCOneWorker == [p \in Plans |-> Workers]

\* The tabs of one user are interchangeable.
MCSymmetry == Permutations(Handlers)
===============================================================================
