--------------------------- MODULE MCMailboxFile ---------------------------
(* Constants for the MailboxFile runs: two mails, host threads and sandbox   *)
(* processes as model values.                                                *)
EXTENDS MailboxFile, TLC

CONSTANTS m1, m2, h1, h2, c1, none

MCMails == {m1, m2}
MCHosts == {h1, h2}
MCCli == {c1}
MCSymmetry == Permutations(MCMails) \union Permutations(MCHosts)
=============================================================================
