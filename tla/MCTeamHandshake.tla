-------------------------- MODULE MCTeamHandshake --------------------------
(* Constants for the TeamHandshake runs: the manager assigns to pm, asks qa  *)
(* for a review, and pm reports back.                                        *)
EXTENDS TeamHandshake

CONSTANTS assign, review, report, manager, pm, qa, p2p, none

MCTwoMails == {assign, report}
MCThreeMails == {assign, review, report}
MCRoles == {manager, pm, qa}
MCTwoRoles == {manager, pm}
MCFrom == [m \in Mails |-> IF m \in {assign, review} THEN manager ELSE pm]
MCTo == [m \in Mails |-> CASE m = assign -> pm
                           [] m = report -> manager
                           [] OTHER -> qa]
=============================================================================
