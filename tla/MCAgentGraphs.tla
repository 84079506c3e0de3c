---------------------------- MODULE MCAgentGraphs ----------------------------
(***************************************************************************)
(* The instance of AgentGraphs that TLC checks: two runs at a time of any  *)
(* of the graphs, two targets, initiatives of up to two risks.             *)
(***************************************************************************)
EXTENDS AgentGraphs, TLC

Interchangeable == Permutations(Runs) \cup Permutations(Targets)
==============================================================================
