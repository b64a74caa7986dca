------------------------------ MODULE MCMailbox ------------------------------
(* Constants for Mailbox.cfg: the abstract mailbox, two mails, two readers.  *)
EXTENDS Mailbox, TLC

CONSTANTS m1, m2, r1, r2

MCMails == {m1, m2}
MCReaders == {r1, r2}
MCSymmetry == Permutations(MCMails) \union Permutations(MCReaders)
=============================================================================
