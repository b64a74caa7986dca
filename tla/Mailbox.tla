------------------------------- MODULE Mailbox -------------------------------
(***************************************************************************)
(* What xiaopaw_team/tools/mailbox.py promises of one inbox file           *)
(* (projects/{pid}/mailboxes/{role}.json): a three-state mailbox whose     *)
(* operations are atomic.  No operation touches two inboxes, so one inbox  *)
(* is the whole story.  MailboxFile is the same mailbox as the code runs   *)
(* it, with lock, load, truncate and write, and implements this module.    *)
(***************************************************************************)
EXTENDS Naturals

CONSTANTS
  Mails,       (* message ids; uuid4 makes every send_mail draw a new one  *)
  Readers,     (* callers of read_inbox / mark_done: turns of the role     *)
  StaleAfter,  (* reset_stale's timeout_sec, in clock ticks                *)
  MaxTime,     (* bound: the clock stops here                              *)
  MaxResets    (* bound: how often one message is taken back               *)

ASSUME MailboxAssumption ==
  /\ StaleAfter \in Nat
  /\ MaxTime \in Nat \ {0}
  /\ MaxResets \in Nat

(* "lost" is no status the code writes: it tells a message that a crash took *)
(* out of the file from one that was never in it.                           *)
Statuses == {"absent", "unread", "in_progress", "done", "lost"}

VARIABLES
  status,      (* status of each message, "absent" when not in the file    *)
  since,       (* processing_since; 0 stands for None                      *)
  now,         (* wall clock, never 0                                      *)
  held,        (* ids each reader was handed and has not acknowledged      *)
  deliveries,  (* history: how often read_inbox returned each message      *)
  resets       (* history: how often reset_stale took each message back    *)

mvars == <<status, since, now, held, deliveries, resets>>

(* Every field has its type; the clock starts at 1 so that 0 can be None.   *)
TypeOK ==
  /\ status \in [Mails -> Statuses]
  /\ since \in [Mails -> Nat]
  /\ now \in Nat \ {0}
  /\ held \in [Readers -> SUBSET Mails]
  /\ deliveries \in [Mails -> Nat]
  /\ resets \in [Mails -> Nat]

Init ==
  /\ status = [m \in Mails |-> "absent"]
  /\ since = [m \in Mails |-> 0]
  /\ now = 1
  /\ held = [r \in Readers |-> {}]
  /\ deliveries = [m \in Mails |-> 0]
  /\ resets = [m \in Mails |-> 0]

Unread == {m \in Mails : status[m] = "unread"}

InitialStatus == "unread"

SendMail(m) ==
  /\ status[m] = "absent"
  /\ status' = [status EXCEPT ![m] = InitialStatus]
  /\ UNCHANGED <<since, now, held, deliveries, resets>>

(* read_inbox: everything unread becomes in_progress and is handed to r.    *)
(* The stamp is taken inside the lock, hence no later than now.             *)
ReadInbox(r) ==
  /\ Unread # {}
  /\ \E t \in 1..now :
       since' = [m \in Mails |-> IF m \in Unread THEN t ELSE since[m]]
  /\ status' = [m \in Mails |-> IF m \in Unread THEN "in_progress"
                                                ELSE status[m]]
  /\ held' = [held EXCEPT ![r] = @ \union Unread]
  /\ deliveries' = [m \in Mails |-> IF m \in Unread THEN deliveries[m] + 1
                                                    ELSE deliveries[m]]
  /\ UNCHANGED <<now, resets>>

(* Mutant: mark_done without its check of the status.                       *)
Present(m) == status[m] # "absent"
Acknowledgeable(m) == status[m] = "in_progress"

(* mark_done accepts any id the caller names, and only from in_progress.    *)
MarkDone(r, m) ==
  /\ Acknowledgeable(m)
  /\ status' = [status EXCEPT ![m] = "done"]
  /\ held' = [held EXCEPT ![r] = @ \ {m}]
  /\ UNCHANGED <<since, now, deliveries, resets>>

(* reset_stale: hands back messages claimed more than StaleAfter ago.  The  *)
(* code reads the clock before it waits for the lock, so it may pass over   *)
(* a message that has become stale since: any non-empty subset is allowed.  *)
ResetStale ==
  \E S \in SUBSET {m \in Mails : /\ status[m] = "in_progress"
                                 /\ now > since[m] + StaleAfter
                                 /\ resets[m] < MaxResets} :
    /\ S # {}
    /\ status' = [m \in Mails |-> IF m \in S THEN "unread" ELSE status[m]]
    /\ since' = [m \in Mails |-> IF m \in S THEN 0 ELSE since[m]]
    /\ resets' = [m \in Mails |-> IF m \in S THEN resets[m] + 1
                                             ELSE resets[m]]
    /\ UNCHANGED <<now, held, deliveries>>

(* A turn of the agent ends (or dies) with mail it never acknowledged.      *)
Abandon(r) ==
  /\ held[r] # {}
  /\ held' = [held EXCEPT ![r] = {}]
  /\ UNCHANGED <<status, since, now, deliveries, resets>>

(* The host process dies and with it the turns R.  Every operation rewrites *)
(* the inbox in place: if one was between truncation and write, all that    *)
(* was in the file is gone.                                                 *)
Crash(R) ==
  /\ held' = [r \in Readers |-> IF r \in R THEN {} ELSE held[r]]
  /\ \/ UNCHANGED <<status, since>>
     \/ /\ status' = [m \in Mails |-> IF status[m] = "absent" THEN "absent"
                                                             ELSE "lost"]
        /\ since' = [m \in Mails |-> 0]
  /\ UNCHANGED <<now, deliveries, resets>>

Tick ==
  /\ now < MaxTime
  /\ now' = now + 1
  /\ UNCHANGED <<status, since, held, deliveries, resets>>

Next ==
  \/ \E m \in Mails : SendMail(m)
  \/ \E r \in Readers : ReadInbox(r)
  \/ \E r \in Readers, m \in Mails : MarkDone(r, m)
  \/ ResetStale
  \/ \E r \in Readers : Abandon(r)
  \/ \E R \in SUBSET Readers : Crash(R)
  \/ Tick

Spec == Init /\ [][Next]_mvars

-----------------------------------------------------------------------------
(* Every delivery is accounted for: a message has been handed out once for  *)
(* the claim it is under now (or was completed under), plus once for every  *)
(* time reset_stale took it back.  Re-reading an inbox after a duplicate    *)
(* wake therefore never delivers a message twice.  Of a message that a      *)
(* crash took away nobody can tell whether it was under a claim; it is      *)
(* handed out no more.                                                      *)
DeliveryLedger ==
  \A m \in Mails :
    IF status[m] = "lost"
    THEN deliveries[m] \in {resets[m], resets[m] + 1}
    ELSE deliveries[m] = resets[m] + (IF status[m] \in {"in_progress", "done"}
                                      THEN 1 ELSE 0)

(* Two turns work on the same message only if reset_stale intervened.       *)
SharedOnlyAfterReset ==
  \A r1, r2 \in Readers :
    r1 # r2 => \A m \in held[r1] \intersect held[r2] : resets[m] > 0
=============================================================================
