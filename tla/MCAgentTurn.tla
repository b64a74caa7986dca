---------------------------- MODULE MCAgentTurn ----------------------------
EXTENDS AgentTurn

\* One skill of each kind; two rounds before max_iterations ends a call.
MCTypeOf == [s \in Skills |-> CASE s = "style" -> "reference"
                               [] s = "build" -> "task"
                               [] s = "history_reader" -> "history"]
MCMaxIter == [who \in {"main", "sub"} |-> IF who = "main" THEN 2 ELSE 1]
============================================================================
