---------------------------- MODULE TeamHandshake ----------------------------
(***************************************************************************)
(* How a mail reaches its reader: send_mail writes the inbox and registers *)
(* a wake (tools/team_tools.py), CronService fires the wake into the       *)
(* Runner's queue, the recipient's turn reads its inbox and acknowledges   *)
(* (workspace/shared/team_protocol.md).  The parts are abstracted to what  *)
(* their own modules implement, too: an atomic inbox (Mailbox), wakes that *)
(* stay on disk until they ring (WakeBook), lines in memory and one turn   *)
(* at a time (Dispatch).  One project; per role one inbox.                 *)
(***************************************************************************)
EXTENDS Naturals, Sequences, FiniteSets

CONSTANTS
  Mails,        (* mails that may be written                               *)
  Roles,        (* manager, pm, rd, qa                                     *)
  Manager,      (* the role that talks to people                           *)
  P2P,          (* a person's routing key, served by the manager           *)
  From, To,     (* sender and recipient of each mail                       *)
  MaxAsks,      (* bound on messages of the person                         *)
  MaxFailures,  (* bound on turns that raise and wakes that cannot be saved*)
  MaxCrashes,   (* bound on crashes of the host process                    *)
  NoOne         (* no turn runs, no send is under way                      *)

ASSUME TeamHandshakeAssumption ==
  /\ Manager \in Roles
  /\ P2P \notin Roles
  /\ From \in [Mails -> Roles]
  /\ To \in [Mails -> Roles]
  /\ NoOne \notin Roles \union {P2P} \union Mails
  /\ MaxAsks \in Nat /\ MaxFailures \in Nat /\ MaxCrashes \in Nat

Keys == Roles \union {P2P}
RoleOf(k) == IF k = P2P THEN Manager ELSE k

VARIABLES
  box,       (* status of each mail in its recipient's inbox               *)
  wakes,     (* <<role, "waiting" or "due">>: wake jobs in tasks.json      *)
  queue,     (* per routing key, the texts queued in the Runner            *)
  turn,      (* the routing key whose turn runs                            *)
  text,      (* what woke it                                               *)
  phase,     (* "kickoff" or "work"                                        *)
  hand,      (* mails the turn read and has not acknowledged               *)
  sending,   (* the mail that is in the inbox but has no wake yet          *)
  asks, failures, crashes

faults == <<failures, crashes>>
vars == <<box, wakes, queue, turn, text, phase, hand, sending, asks, faults>>

Texts == {"mail", "heartbeat", "person"}

(* Types of all variables.                                                  *)
TypeOK ==
  /\ box \in [Mails -> {"absent", "unread", "in_progress", "done"}]
  /\ wakes \in SUBSET (Roles \X {"waiting", "due"})
  /\ queue \in [Keys -> Seq(Texts)]
  /\ turn \in Keys \union {NoOne}
  /\ text \in Texts
  /\ phase \in {"kickoff", "work"}
  /\ hand \in SUBSET Mails
  /\ sending \in Mails \union {NoOne}
  /\ asks \in Nat /\ failures \in Nat /\ crashes \in Nat

Init ==
  /\ box = [m \in Mails |-> "absent"]
  /\ wakes = {}
  /\ queue = [k \in Keys |-> <<>>]
  /\ turn = NoOne
  /\ text = "person"
  /\ phase = "kickoff"
  /\ hand = {}
  /\ sending = NoOne
  /\ asks = 0
  /\ failures = 0
  /\ crashes = 0

-----------------------------------------------------------------------------
(* A person writes to the manager.                                          *)
Ask ==
  /\ asks < MaxAsks
  /\ asks' = asks + 1
  /\ queue' = [queue EXCEPT ![P2P] = Append(@, "person")]
  /\ UNCHANGED <<box, wakes, turn, text, phase, hand, sending, faults>>

(* A heartbeat fires; bounded to one per queue.                             *)
Beat(r) ==
  /\ \A i \in DOMAIN queue[r] : queue[r][i] # "heartbeat"
  /\ queue' = [queue EXCEPT ![r] = Append(@, "heartbeat")]
  /\ UNCHANGED <<box, wakes, turn, text, phase, hand, sending, asks, faults>>

(* A wake's time comes, and CronService fires it and saves.  Mutant: the    *)
(* save drops every due job.                                                *)
Ripen(r) ==
  /\ <<r, "waiting">> \in wakes
  /\ wakes' = (wakes \ {<<r, "waiting">>}) \union {<<r, "due">>}
  /\ UNCHANGED <<box, queue, turn, text, phase, hand, sending, asks, faults>>

SavedDue(r) == {w \in wakes : w[2] = "due"}
SavedFired(r) == {<<r, "due">>}

WakeText == "mail"

Fire(r) ==
  /\ <<r, "due">> \in wakes
  /\ wakes' = wakes \ SavedFired(r)
  /\ queue' = [queue EXCEPT ![r] = Append(@, WakeText)]
  /\ UNCHANGED <<box, turn, text, phase, hand, sending, asks, faults>>

-----------------------------------------------------------------------------
(* A worker has taken the next text of its key and has the team lock.       *)
StartTurn(k) ==
  /\ turn = NoOne
  /\ queue[k] # <<>>
  /\ turn' = k
  /\ text' = Head(queue[k])
  /\ queue' = [queue EXCEPT ![k] = Tail(@)]
  /\ phase' = "kickoff"
  /\ UNCHANGED <<box, wakes, hand, sending, asks, faults>>

(* Back to Init's values, as far as a turn has any.                         *)
NoTurn ==
  /\ turn' = NoOne
  /\ text' = "person"
  /\ phase' = "kickoff"
  /\ hand' = {}
  /\ sending' = NoOne

(* "If a heartbeat has no pid: ignore it."  The one tasks_store writes has  *)
(* none.  Mutant: no wake names a project.                                  *)
OnlyPeopleName == text = "person"
NamesProject == text \in {"mail", "person"}

(* What the turn's read_inbox returns.                                      *)
UnreadOf(r) == {m \in Mails : To[m] = r /\ box[m] = "unread"}

Kickoff ==
  /\ turn # NoOne
  /\ phase = "kickoff"
  /\ IF NamesProject
     THEN LET read == UnreadOf(RoleOf(turn)) IN
          /\ box' = [m \in Mails |-> IF m \in read THEN "in_progress" ELSE box[m]]
          /\ hand' = read
          /\ phase' = "work"
          /\ UNCHANGED <<turn, text, sending>>
     ELSE NoTurn /\ UNCHANGED box
  /\ UNCHANGED <<wakes, queue, asks, faults>>

Working == turn # NoOne /\ phase = "work" /\ sending = NoOne

(* SendMailTool._run: mailbox.send_mail ...                                 *)
SendMail(m) ==
  /\ Working
  /\ From[m] = RoleOf(turn)
  /\ box[m] = "absent"
  /\ box' = [box EXCEPT ![m] = "unread"]
  /\ sending' = m
  /\ UNCHANGED <<wakes, queue, turn, text, phase, hand, asks, faults>>

(* ... then tasks_store.schedule_wake, which reuses a waiting wake of the   *)
(* same target.  Mutant: of any target.                                     *)
AnyWaiting(r) == \E q \in Roles : <<q, "waiting">> \in wakes
Waiting(r) == <<r, "waiting">> \in wakes

ScheduleWake ==
  /\ sending # NoOne
  /\ wakes' = IF Waiting(To[sending]) THEN wakes
              ELSE wakes \union {<<To[sending], "waiting">>}
  /\ sending' = NoOne
  /\ UNCHANGED <<box, queue, turn, text, phase, hand, asks, faults>>

(* ... or raises: the tool answers errcode 1 and the mail stays.            *)
ScheduleFails ==
  /\ failures < MaxFailures
  /\ sending # NoOne
  /\ failures' = failures + 1
  /\ sending' = NoOne
  /\ UNCHANGED <<box, wakes, queue, turn, text, phase, hand, asks, crashes>>

MarkDone(m) ==
  /\ Working
  /\ m \in hand
  /\ box' = [box EXCEPT ![m] = "done"]
  /\ hand' = hand \ {m}
  /\ UNCHANGED <<wakes, queue, turn, text, phase, sending, asks, faults>>

(* The turn ends when all it read is acknowledged, ...                      *)
EndTurn ==
  /\ Working
  /\ hand = {}
  /\ NoTurn
  /\ UNCHANGED <<box, wakes, queue, asks, faults>>

(* ... or raises at any point between two tools; _worker logs and goes on.  *)
FailTurn ==
  /\ failures < MaxFailures
  /\ turn # NoOne
  /\ sending = NoOne
  /\ failures' = failures + 1
  /\ NoTurn
  /\ UNCHANGED <<box, wakes, queue, asks, crashes>>

(* The host process dies and is restarted: files stay, queues and the turn  *)
(* do not.                                                                  *)
Crash ==
  /\ crashes < MaxCrashes
  /\ crashes' = crashes + 1
  /\ queue' = [k \in Keys |-> <<>>]
  /\ NoTurn
  /\ UNCHANGED <<box, wakes, asks, failures>>

TurnStep ==
  \/ Kickoff \/ ScheduleWake \/ EndTurn
  \/ \E m \in Mails : MarkDone(m)

Next ==
  \/ Ask
  \/ \E r \in Roles : Beat(r) \/ Ripen(r) \/ Fire(r)
  \/ \E k \in Keys : StartTurn(k)
  \/ TurnStep
  \/ \E m \in Mails : SendMail(m)
  \/ ScheduleFails \/ FailTurn \/ Crash

Spec == Init /\ [][Next]_vars

(* The scheduler ticks, turns go on, and the team lock, first come first    *)
(* served, leaves no key waiting for ever (strong: other keys may go first).*)
Fairness ==
  /\ \A r \in Roles : WF_vars(Beat(r)) /\ WF_vars(Ripen(r)) /\ WF_vars(Fire(r))
  /\ \A k \in Keys : SF_vars(StartTurn(k))
  /\ WF_vars(TurnStep)

FairSpec == Spec /\ Fairness

-----------------------------------------------------------------------------
(* Each role's inbox behaves as Mailbox promises; time stands still and     *)
(* nobody calls reset_stale.                                                *)
Inbox(r) == INSTANCE Mailbox WITH
  Mails <- {m \in Mails : To[m] = r},
  Readers <- {r},
  StaleAfter <- 0, MaxTime <- 1, MaxResets <- 0,
  status <- [m \in {n \in Mails : To[n] = r} |-> box[m]],
  since <- [m \in {n \in Mails : To[n] = r} |->
              IF box[m] \in {"in_progress", "done"} THEN 1 ELSE 0],
  now <- 1,
  held <- [q \in {r} |-> IF turn # NoOne /\ RoleOf(turn) = r THEN hand ELSE {}],
  deliveries <- [m \in {n \in Mails : To[n] = r} |->
                   IF box[m] \in {"in_progress", "done"} THEN 1 ELSE 0],
  resets <- [m \in {n \in Mails : To[n] = r} |-> 0]

InboxesKeepPromise ==
  /\ \A r \in Roles : Inbox(r)!Init
  /\ [][\A r \in Roles : Inbox(r)!Next \/ UNCHANGED Inbox(r)!mvars]_vars

(* The wakes behave as cron/tasks.json promises.  A ring and its save are   *)
(* one step here; whoever has an entry is owed a ring.                      *)
WaitingNow == {r \in Roles : <<r, "waiting">> \in wakes}
DueNow == {r \in Roles : <<r, "due">> \in wakes}

Book == INSTANCE WakeBook WITH
  Targets <- Roles,
  waiting <- WaitingNow,
  passed <- DueNow,
  promised <- WaitingNow \union DueNow

(* Queues and turns behave as the dispatcher promises.                      *)
TurnsNow == IF turn = NoOne THEN {} ELSE {<<turn, text>>}

Lines == INSTANCE Dispatch WITH Items <- Texts, line <- queue, turns <- TurnsNow

(* The parts the protocol is built from are those their own modules         *)
(* establish, whatever fails or crashes: inboxes, wakes on disk and turns.  *)
PartsKeepPromise == InboxesKeepPromise /\ Book!Spec /\ Lines!Spec

(* Something will still make the recipient read: the sender is about to     *)
(* register a wake, a wake is on disk, queued, or has just started a turn.  *)
Covered(m) ==
  \/ sending = m
  \/ \E s \in {"waiting", "due"} : <<To[m], s>> \in wakes
  \/ \E k \in Keys : /\ RoleOf(k) = To[m]
                     /\ \E i \in DOMAIN queue[k] : queue[k][i] # "heartbeat"
  \/ /\ turn # NoOne /\ RoleOf(turn) = To[m]
     /\ phase = "kickoff" /\ text # "heartbeat"

(* Unread mail is never forgotten while nothing fails.                      *)
UnreadIsCovered ==
  failures = 0 /\ crashes = 0 => \A m \in Mails : box[m] = "unread" => Covered(m)

(* Every mail is read and acknowledged unless something fails.              *)
MailDone ==
  \A m \in Mails :
    box[m] = "unread" ~> box[m] = "done" \/ failures > 0 \/ crashes > 0

(* Every mail is read, whatever was lost: the heartbeat makes up for it.    *)
(* False after a crash: heartbeats name no project.                         *)
MailRead == \A m \in Mails : box[m] = "unread" ~> box[m] # "unread"
=============================================================================
