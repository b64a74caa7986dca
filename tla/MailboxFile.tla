----------------------------- MODULE MailboxFile -----------------------------
(***************************************************************************)
(* The mailbox as the code runs it.  Host threads execute the functions of *)
(* tools/mailbox.py under a FileLock; sandbox processes execute the same   *)
(* read-modify-write from workspace/*/skills/mailbox_ops/scripts/          *)
(* mailbox_cli.py, whose _locked() is a no-op.  A call is split where      *)
(* another process, or a crash, can see the difference:                    *)
(*     Begin -> Load -> Truncate -> Fill                                   *)
(* Path.write_text opens the inbox itself with mode "w", so the old        *)
(* content is gone before the new content is there, and a reader in        *)
(* between sees an empty file, which `read_text() or "[]"` takes for a     *)
(* mailbox without messages.                                               *)
(***************************************************************************)
EXTENDS Naturals, FiniteSets

CONSTANTS
  Mails,        (* message ids                                             *)
  Host,         (* threads of the host process: mailbox.py, with FileLock  *)
  Cli,          (* sandbox processes: mailbox_cli.py, no lock              *)
  NoOne,        (* the FileLock is free                                    *)
  CliOverlaps,  (* FALSE: "single agent, sequential" as mailbox_cli.py says*)
  StaleAfter,   (* reset_stale's timeout_sec                               *)
  MaxTime,      (* bound on the clock                                      *)
  MaxResets,    (* bound on resets of one message                          *)
  MaxCrashes    (* bound on crashes of the host process                    *)

ASSUME MailboxFileAssumption ==
  /\ Host \intersect Cli = {}
  /\ NoOne \notin Host \union Cli
  /\ CliOverlaps \in BOOLEAN
  /\ StaleAfter \in Nat
  /\ MaxTime \in Nat \ {0}
  /\ MaxResets \in Nat
  /\ MaxCrashes \in Nat

Procs == Host \union Cli

Statuses == {"absent", "unread", "in_progress", "done"}

(* One message in the JSON array: status and processing_since (0 is None).  *)
Cells == [st : Statuses, ps : Nat]
Absent == [st |-> "absent", ps |-> 0]

(* Content of the inbox file: the array as a function of the message id.    *)
Files == [Mails -> Cells]
EmptyFile == [m \in Mails |-> Absent]

(* A call: which operation, on which message (send, mark_done).             *)
Ops == [kind : {"send", "done"}, mail : Mails] \union [kind : {"read", "reset"}]
NoOp == [kind |-> "read"]

VARIABLES
  file,        (* content of the inbox, when it parses                     *)
  torn,        (* what the file holds is part of a write, or two over each *)
               (* other, and no JSON                                       *)
  lock,        (* holder of {role}.json.lock                               *)
  pc,          (* where each process is in its call                        *)
  op,          (* the call each process runs                               *)
  snap,        (* the messages each process loaded                         *)
  stamp,       (* the clock value each call uses                           *)
  now,         (* wall clock                                               *)
  sent,        (* message ids already drawn by a send                      *)
  held,        (* ids each process was handed and has not acknowledged     *)
  deliveries, resets, (* history, as in Mailbox                            *)
  accepted,    (* history: sends that returned their msg_id                *)
  crashes      (* crashes of the host process so far                       *)

hist == <<deliveries, resets, accepted>>
vars == <<file, torn, lock, pc, op, snap, stamp, now, sent, held, hist, crashes>>

(* Types of all variables; the lock is only ever taken by host threads.     *)
TypeOK ==
  /\ file \in Files
  /\ torn \in BOOLEAN
  /\ lock \in Host \union {NoOne}
  /\ pc \in [Procs -> {"idle", "load", "truncate", "fill"}]
  /\ op \in [Procs -> Ops]
  /\ snap \in [Procs -> Files]
  /\ stamp \in [Procs -> Nat \ {0}]
  /\ now \in Nat \ {0}
  /\ sent \in SUBSET Mails
  /\ held \in [Procs -> SUBSET Mails]
  /\ deliveries \in [Mails -> Nat]
  /\ resets \in [Mails -> Nat]
  /\ accepted \in SUBSET Mails
  /\ crashes \in Nat

(* init_mailboxes wrote "[]".                                               *)
Init ==
  /\ file = EmptyFile
  /\ torn = FALSE
  /\ lock = NoOne
  /\ pc = [p \in Procs |-> "idle"]
  /\ op = [p \in Procs |-> NoOp]
  /\ snap = [p \in Procs |-> EmptyFile]
  /\ stamp = [p \in Procs |-> 1]
  /\ now = 1
  /\ sent = {}
  /\ held = [p \in Procs |-> {}]
  /\ deliveries = [m \in Mails |-> 0]
  /\ resets = [m \in Mails |-> 0]
  /\ accepted = {}
  /\ crashes = 0

-----------------------------------------------------------------------------
(* A message as send_mail appends it and reset_stale puts it back, and as   *)
(* read_inbox leaves it.                                                    *)
Unclaimed == [st |-> "unread", ps |-> 0]
Claimed(t) == [st |-> "in_progress", ps |-> t]

(* What an operation finds to do in the messages it loaded.  Mutants: a     *)
(* read that does not skip what is in progress; a reset that looks at       *)
(* processing_since only, which done messages keep.                         *)
UnreadOrClaimedIn(f) == {m \in Mails : f[m].st \in {"unread", "in_progress"}}
UnreadIn(f) == {m \in Mails : f[m].st = "unread"}

OldIn(f, t) == {m \in Mails : f[m].ps > 0 /\ t > f[m].ps + StaleAfter}
StaleIn(f, t) == {m \in Mails : /\ f[m].st = "in_progress"
                                /\ f[m].ps > 0
                                /\ t > f[m].ps + StaleAfter}

(* Does the operation write the file?  A read that finds nothing unread and *)
(* a reset that finds nothing stale do not; a mark_done of a message that   *)
(* is missing (KeyError) or not in_progress (ValueError) fails instead.     *)
Writes(o, f, t) ==
  \/ o.kind = "send"
  \/ o.kind = "read" /\ UnreadIn(f) # {}
  \/ o.kind = "done" /\ f[o.mail].st = "in_progress"
  \/ o.kind = "reset" /\ StaleIn(f, t) # {}

(* The messages an operation dumps, computed from the ones it loaded.       *)
NewContent(o, f, t) ==
  CASE o.kind = "send" -> [f EXCEPT ![o.mail] = Unclaimed]
    [] o.kind = "read" ->
         [m \in Mails |-> IF m \in UnreadIn(f) THEN Claimed(t) ELSE f[m]]
    [] o.kind = "done" -> [f EXCEPT ![o.mail] = [@ EXCEPT !.st = "done"]]
    [] o.kind = "reset" ->
         [m \in Mails |-> IF m \in StaleIn(f, t) THEN Unclaimed ELSE f[m]]

-----------------------------------------------------------------------------
(* The environment's promise that nothing else runs beside a CLI call.      *)
MayBegin(p) ==
  CliOverlaps \/ \A q \in Procs : pc[q] = "idle" \/ (p \in Host /\ q \in Host)

(* Host threads wait for the FileLock.  Mutant: no lock, as in the CLI.    *)
NoLock(p) == TRUE
LockFree(p) == p \in Host => lock = NoOne

(* Entering a call: the id of a new message is drawn before the lock is     *)
(* taken, and reset_stale reads its clock before the lock too (t <= now);   *)
(* a host thread then waits until the FileLock is free.                     *)
Begin(p, o) ==
  /\ pc[p] = "idle"
  /\ MayBegin(p)
  /\ LockFree(p)
  /\ p \in Cli => o.kind # "reset"
  /\ o.kind = "send" => o.mail \notin sent
  /\ o.kind = "reset" => \A m \in Mails : resets[m] < MaxResets
  /\ \E t \in IF o.kind = "reset" THEN 1..now ELSE {now} :
       stamp' = [stamp EXCEPT ![p] = t]
  /\ sent' = IF o.kind = "send" THEN sent \union {o.mail} ELSE sent
  /\ lock' = IF p \in Host THEN p ELSE lock
  /\ op' = [op EXCEPT ![p] = o]
  /\ pc' = [pc EXCEPT ![p] = "load"]
  /\ UNCHANGED <<file, torn, snap, now, held, hist, crashes>>

(* The call is over: its locals are gone and a host thread's lock is free.  *)
Return(p) ==
  /\ pc' = [pc EXCEPT ![p] = "idle"]
  /\ lock' = IF lock = p THEN NoOne ELSE lock
  /\ op' = [op EXCEPT ![p] = NoOp]
  /\ snap' = [snap EXCEPT ![p] = EmptyFile]
  /\ stamp' = [stamp EXCEPT ![p] = 1]

(* json.loads(read_text() or "[]").  A torn file raises JSONDecodeError, so *)
(* nothing overwrites it; an operation with nothing to write returns (or    *)
(* raises) right here.                                                      *)
Load(p) ==
  /\ pc[p] = "load"
  /\ LET t == IF op[p].kind = "read" THEN now ELSE stamp[p] IN
     IF ~torn /\ Writes(op[p], file, t)
     THEN /\ pc' = [pc EXCEPT ![p] = "truncate"]
          /\ snap' = [snap EXCEPT ![p] = file]
          /\ stamp' = [stamp EXCEPT ![p] = t]
          /\ UNCHANGED <<lock, op>>
     ELSE Return(p)
  /\ UNCHANGED <<file, torn, now, sent, held, hist, crashes>>

(* write_text opens the inbox with "w".                                     *)
Truncate(p) ==
  /\ pc[p] = "truncate"
  /\ file' = EmptyFile
  /\ torn' = FALSE
  /\ pc' = [pc EXCEPT ![p] = "fill"]
  /\ UNCHANGED <<lock, op, snap, stamp, now, sent, held, hist, crashes>>

(* ... writes and closes it, and the call returns.  If somebody else wrote  *)
(* since the truncation, this write lands over it from offset 0: it wins    *)
(* when it is at least as long, and leaves a tail of the other otherwise.   *)
Fill(p) ==
  LET o == op[p]
      new == NewContent(o, snap[p], stamp[p])
      got == IF o.kind = "read" THEN UnreadIn(snap[p]) ELSE {}
      taken == IF o.kind = "reset" THEN StaleIn(snap[p], stamp[p]) ELSE {}
  IN
  /\ pc[p] = "fill"
  /\ file' = new
  /\ torn' \in IF file = EmptyFile /\ ~torn THEN {FALSE} ELSE BOOLEAN
  /\ Return(p)
  /\ held' = [held EXCEPT ![p] = IF o.kind = "done" THEN @ \ {o.mail}
                                                    ELSE @ \union got]
  /\ deliveries' = [m \in Mails |-> IF m \in got THEN deliveries[m] + 1
                                                 ELSE deliveries[m]]
  /\ resets' = [m \in Mails |-> IF m \in taken THEN resets[m] + 1
                                               ELSE resets[m]]
  /\ accepted' = IF o.kind = "send" THEN accepted \union {o.mail}
                                    ELSE accepted
  /\ UNCHANGED <<now, sent, crashes>>

(* A turn ends with mail it never acknowledged.                             *)
Abandon(p) ==
  /\ pc[p] = "idle"
  /\ held[p] # {}
  /\ held' = [held EXCEPT ![p] = {}]
  /\ UNCHANGED <<file, torn, lock, pc, op, snap, stamp, now, sent, hist, crashes>>

Tick ==
  /\ now < MaxTime
  /\ now' = now + 1
  /\ UNCHANGED <<file, torn, lock, pc, op, snap, stamp, sent, held, hist, crashes>>

(* The host process dies: its threads vanish, the kernel drops the lock,    *)
(* the file stays as the last system call left it: of a dump that was under *)
(* way there may be nothing, or a part, which is no JSON; one that was      *)
(* complete is a Fill before the crash.                                     *)
Crash ==
  /\ crashes < MaxCrashes
  /\ crashes' = crashes + 1
  /\ lock' = NoOne
  /\ pc' = [p \in Procs |-> IF p \in Host THEN "idle" ELSE pc[p]]
  /\ held' = [p \in Procs |-> IF p \in Host THEN {} ELSE held[p]]
  /\ op' = [p \in Procs |-> IF p \in Host THEN NoOp ELSE op[p]]
  /\ snap' = [p \in Procs |-> IF p \in Host THEN EmptyFile ELSE snap[p]]
  /\ stamp' = [p \in Procs |-> IF p \in Host THEN 1 ELSE stamp[p]]
  /\ torn' \in IF \E p \in Host : pc[p] = "fill" THEN BOOLEAN ELSE {torn}
  /\ UNCHANGED <<file, now, sent, hist>>

Step(p) == Load(p) \/ Truncate(p) \/ Fill(p)

Next ==
  \/ \E p \in Procs, o \in Ops : Begin(p, o)
  \/ \E p \in Procs : Step(p)
  \/ \E p \in Procs : Abandon(p)
  \/ Tick
  \/ Crash

Spec == Init /\ [][Next]_vars

(* Host threads alone, and the host process stays up.                       *)
HostNext ==
  \/ \E p \in Host, o \in Ops : Begin(p, o)
  \/ \E p \in Host : Step(p)
  \/ \E p \in Host : Abandon(p)
  \/ Tick

HostSpec == Init /\ [][HostNext]_vars

-----------------------------------------------------------------------------
(* The content the file stands for: while a writer is between truncation    *)
(* and write, the mailbox is still what that writer loaded.                 *)
LogicalOf(at, loaded, content) ==
  IF \E p \in Procs : at[p] = "fill"
  THEN loaded[CHOOSE p \in Procs : at[p] = "fill"] ELSE content

Logical == LogicalOf(pc, snap, file)

(* A message that was in the mailbox (its send wrote it and returned) and   *)
(* is not any more was lost.                                                *)
StatusOf(m) == IF m \in accepted /\ Logical[m].st = "absent"
               THEN "lost" ELSE Logical[m].st

Abs == INSTANCE Mailbox WITH
         Readers <- Procs,
         status <- [m \in Mails |-> StatusOf(m)],
         since <- [m \in Mails |-> Logical[m].ps]

(* The code's mailbox is the promised one: every call takes effect at once, *)
(* at its write, whatever other calls run meanwhile, and a death of the     *)
(* host leaves the mailbox either as it was or without any of its messages. *)
ImplementsMailbox == Abs!Spec

(* The FileLock admits one host thread at a time to load-modify-write.      *)
LockExclusion == \A p \in Host : pc[p] # "idle" => lock = p

(* A step other than the host's death never leaves an inbox that does not   *)
(* parse, whoever writes it meanwhile: two writes never overlap.            *)
OnlyACrashTears == [][torn' => torn \/ crashes' > crashes]_vars

(* The promise's account of every delivery holds of the file: a message was *)
(* handed out once for the claim it is under and once for each reset,       *)
(* whoever crashes between claiming it and working on it.  False with       *)
(* CliOverlaps = TRUE.                                                      *)
DeliveryLedger == Abs!DeliveryLedger

(* Two processes work on the same message only if reset_stale took it back  *)
(* meanwhile.                                                               *)
SharedOnlyAfterReset ==
  \A p, q \in Procs :
    p # q => \A m \in held[p] \intersect held[q] : resets[m] > 0

(* A message whose send returned is in the mailbox from then on.            *)
AcceptedMailKept == \A m \in accepted : Logical[m].st # "absent"

(* Mail disappears only when a crash hit between truncation and write.      *)
LossTakesACrash == crashes = 0 => AcceptedMailKept
=============================================================================
