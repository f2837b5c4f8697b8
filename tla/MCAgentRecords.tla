--------------------------- MODULE MCAgentRecords ---------------------------
EXTENDS AgentRecords, TLC

Symmetric == Permutations(Callers)
=============================================================================
