------------------------------ MODULE MCRunner ------------------------------
(* Constants for the Runner runs: two wakes that carry their reason and one  *)
(* that CronService built for a team key, a command and a text on a person's *)
(* key, and more tasks than there are keys.                                  *)
EXTENDS Runner

CONSTANTS a1, a2, a3, b1, b2, none, p2p, pm, t1, t2, t3

MCMsgs == {a1, a2, a3, b1, b2}
MCKeys == {p2p, pm}
MCTeamKeys == {pm}
MCKeyOf == [m \in Msgs |-> IF m \in {b1, b2} THEN p2p ELSE pm]
MCKindOf == [m \in Msgs |-> CASE m = b1 -> "slash"
                              [] m = b2 -> "chat"
                              [] m = a3 -> "cron"
                              [] OTHER -> "wake"]
MCTasks == {t1, t2, t3}
=============================================================================
