-------------------------- MODULE MCAgentSessions --------------------------
EXTENDS AgentSessions, TLC

CONSTANTS plain, effort, model  \* specifications that name nothing, an effort, a model

MCProfile == [d \in {plain, effort, model} |->
                CASE d = plain -> "default" [] d = effort -> "effort" [] d = model -> "model"]

Symmetry == Permutations(Procs)
=============================================================================
