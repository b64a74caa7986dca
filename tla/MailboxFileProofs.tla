-------------------------- MODULE MailboxFileProofs --------------------------
(***************************************************************************)
(* Proofs about the mailbox file, in the two settings in which the code    *)
(* promises something:                                                     *)
(*   - Spec with ~CliOverlaps: host threads and sandbox processes, a CLI   *)
(*     call never beside another call, the host process may die;           *)
(*   - HostSpec: host threads alone, whatever the CLI promises.            *)
(* Load-modify-write is exclusive, the file never holds the overlay of two *)
(* writes, the code implements the promised mailbox, and mail is lost only *)
(* to the death of the host process.                                       *)
(***************************************************************************)
EXTENDS MailboxFile, TLAPS

(* One call at a time, of whichever side.                                   *)
Single == \A p, q \in Procs : pc[p] # "idle" /\ pc[q] # "idle" => p = q

(* Nothing outside the host process runs.                                   *)
CliIdle == \A p \in Cli : pc[p] = "idle"

(* What a running call knows: the file is as it loaded it until it          *)
(* truncates, and empty from then on; its reason to write still holds; its  *)
(* clock value is not in the future.                                        *)
CallInv ==
  \A p \in Procs :
    /\ pc[p] = "truncate" => snap[p] = file
    /\ pc[p] = "fill" => file = EmptyFile
    /\ pc[p] \in {"truncate", "fill"} => ~torn
    /\ pc[p] \in {"truncate", "fill"} => Writes(op[p], snap[p], stamp[p])
    /\ pc[p] # "idle" => stamp[p] \leq now
    /\ pc[p] # "idle" /\ op[p].kind = "reset"
         => \A m \in Mails : resets[m] < MaxResets

(* A message whose id is not drawn yet, or whose send is still running, is  *)
(* not in the mailbox: ids are never reused.                                *)
FreshInv ==
  /\ \A m \in Mails \ sent : file[m] = Absent
  /\ \A p \in Procs : pc[p] # "idle" /\ op[p].kind = "send"
                       => /\ op[p].mail \in sent
                          /\ file[op[p].mail] = Absent
  /\ \A p \in Procs : pc[p] = "fill"
       => /\ \A m \in Mails \ sent : snap[p][m] = Absent
          /\ op[p].kind = "send" => snap[p][op[p].mail] = Absent

(* The inductive invariant.  It says nothing of crashes: a host thread that *)
(* dies takes its locals along, and what it leaves in the file is a mailbox *)
(* again, be it empty, or torn, which no call writes to any more.           *)
CallsInv ==
  /\ TypeOK
  /\ Single
  /\ LockExclusion
  /\ CallInv
  /\ FreshInv

HostInv == CallsInv /\ CliIdle /\ ~torn

-----------------------------------------------------------------------------
(* Reading the logical content off the only process that can be in "fill".  *)
LEMMA LogicalOfFiller ==
  ASSUME NEW at, NEW loaded, NEW content, NEW p \in Procs,
         at[p] = "fill", \A q \in Procs : at[q] = "fill" => q = p
  PROVE  LogicalOf(at, loaded, content) = loaded[p]
<1> DEFINE c == CHOOSE q \in Procs : at[q] = "fill"
<1>1. c \in Procs /\ at[c] = "fill"
  BY Zenon
<1>2. c = p
  BY <1>1
<1> QED
  BY <1>2 DEF LogicalOf

(* While nobody is about to write, the mailbox is the file.                 *)
LEMMA LogicalOfFile ==
  ASSUME NEW at, NEW loaded, NEW content,
         \A q \in Procs : at[q] # "fill"
  PROVE  LogicalOf(at, loaded, content) = content
BY DEF LogicalOf

(* The truncated file is a file content.                                    *)
LEMMA EmptyFileType == EmptyFile \in Files
BY DEF EmptyFile, Files, Cells, Absent, Statuses

(* What an operation dumps is a mailbox again.                              *)
LEMMA NewContentType ==
  ASSUME NEW o \in Ops, NEW f \in Files, NEW t \in Nat
  PROVE  NewContent(o, f, t) \in Files
<1> USE DEF Files, Cells, Statuses
<1>1. Unclaimed \in Cells /\ Claimed(t) \in Cells
  BY DEF Unclaimed, Claimed
<1>2. CASE o.kind = "send"
  BY <1>1, <1>2 DEF NewContent, Ops
<1>3. CASE o.kind = "read"
  BY <1>1, <1>3 DEF NewContent
<1>4. CASE o.kind = "done"
  BY <1>4 DEF NewContent, Ops
<1>5. CASE o.kind = "reset"
  BY <1>1, <1>5 DEF NewContent
<1> QED
  BY <1>2, <1>3, <1>4, <1>5 DEF Ops

(* Which operations there are.                                              *)
LEMMA OpsKinds ==
  ASSUME NEW o \in Ops
  PROVE  /\ o.kind \in {"send", "done", "read", "reset"}
         /\ o.kind \in {"send", "done"} => o.mail \in Mails
BY DEF Ops

(* An initialised inbox satisfies the invariant.                            *)
LEMMA CallsInvInit == Init => HostInv
<1> SUFFICES ASSUME Init PROVE HostInv
  OBVIOUS
<1>1. TypeOK
  <2>1. NoOp \in Ops
    BY DEF NoOp, Ops
  <2>2. lock \in Host \union {NoOne} /\ pc \in [Procs -> {"idle", "load", "truncate", "fill"}]
    BY DEF Init
  <2>3. op \in [Procs -> Ops] /\ snap \in [Procs -> Files]
    BY <2>1, EmptyFileType DEF Init
  <2>4. /\ stamp \in [Procs -> Nat \ {0}] /\ held \in [Procs -> SUBSET Mails]
        /\ deliveries \in [Mails -> Nat] /\ resets \in [Mails -> Nat]
    BY DEF Init
  <2>5. torn \in BOOLEAN
    BY DEF Init
  <2>6. /\ file \in Files /\ now \in Nat \ {0} /\ sent \in SUBSET Mails
        /\ accepted \in SUBSET Mails /\ crashes \in Nat
    BY EmptyFileType DEF Init
  <2> QED
    BY <2>2, <2>3, <2>4, <2>5, <2>6 DEF TypeOK
<1>2. ~torn /\ CliIdle /\ Single /\ LockExclusion
  BY DEF Init, CliIdle, Single, LockExclusion, Procs
<1>3. CallInv
  BY DEF Init, CallInv, Procs
<1>4. FreshInv
  BY DEF Init, FreshInv, Procs, EmptyFile
<1> QED
  BY <1>1, <1>2, <1>3, <1>4 DEF CallsInv, HostInv

-----------------------------------------------------------------------------
(* Entering a call keeps the invariant.                                     *)
LEMMA BeginPreserves ==
  ASSUME CallsInv, NEW p \in Procs, NEW o \in Ops, Begin(p, o),
         \A q \in Procs : pc[q] = "idle"
  PROVE  CallsInv'
<1> USE DEF CallsInv, Procs
<1> USE MailboxFileAssumption
<1>1. \A q \in Procs : pc[q] = "idle"
  OBVIOUS
<1>2. PICK t \in 1..now : stamp' = [stamp EXCEPT ![p] = t]
  <2>1. PICK t \in IF o.kind = "reset" THEN 1..now ELSE {now} :
          stamp' = [stamp EXCEPT ![p] = t]
    BY DEF Begin
  <2>2. t \in 1..now
    BY <2>1 DEF TypeOK
  <2> QED
    BY <2>1, <2>2
<1>3. TypeOK'
  <2>1. stamp' \in [Procs -> Nat \ {0}]
    BY <1>2 DEF TypeOK
  <2>2. sent' \in SUBSET Mails
    BY OpsKinds DEF Begin, TypeOK
  <2> QED
    BY <2>1, <2>2 DEF Begin, TypeOK, hist
<1>4. Single' /\ LockExclusion'
  BY <1>1 DEF Begin, Single, LockExclusion, TypeOK
<1>5. CallInv'
  <2> SUFFICES ASSUME NEW q \in Procs
      PROVE /\ pc'[q] = "truncate" => snap'[q] = file'
            /\ pc'[q] = "fill" => file' = EmptyFile
            /\ pc'[q] \in {"truncate", "fill"} => ~torn'
            /\ pc'[q] \in {"truncate", "fill"}
                 => Writes(op'[q], snap'[q], stamp'[q])
            /\ pc'[q] # "idle" => stamp'[q] \leq now'
            /\ pc'[q] # "idle" /\ op'[q].kind = "reset"
                 => \A m \in Mails : resets'[m] < MaxResets
    BY DEF CallInv, Writes, StaleIn, UnreadIn
  <2>1. CASE q = p
    <3>1. pc'[q] = "load" /\ op'[q] = o /\ now' = now /\ resets' = resets
      BY <2>1 DEF Begin, TypeOK, hist
    <3>2. stamp'[q] \leq now
      BY <2>1, <1>2 DEF TypeOK
    <3>3. o.kind = "reset" => \A m \in Mails : resets[m] < MaxResets
      BY DEF Begin
    <3> QED
      BY <3>1, <3>2, <3>3
  <2>2. CASE q # p
    BY <2>2, <1>1 DEF Begin, TypeOK
  <2> QED
    BY <2>1, <2>2
<1>6. FreshInv'
  <2>1. file' = file /\ snap' = snap
    BY DEF Begin
  <2>2. \A q \in Procs : pc'[q] # "idle" => q = p /\ pc'[q] = "load"
    BY <1>1 DEF Begin, TypeOK
  <2>3. op'[p] = o
    BY DEF Begin, TypeOK
  <2>4. o.kind = "send" => /\ o.mail \in Mails \ sent
                           /\ o.mail \in sent'
    BY OpsKinds DEF Begin
  <2>5. sent \subseteq sent'
    BY DEF Begin
  <2> QED
    BY <2>1, <2>2, <2>3, <2>4, <2>5 DEF FreshInv
<1> QED
  BY <1>3, <1>4, <1>5, <1>6

(* The call ends: it is idle and its locals are reset.                 *)
LEMMA ReturnEffect ==
  ASSUME TypeOK, NEW p \in Procs, Return(p)
  PROVE  /\ lock' \in Host \union {NoOne}
         /\ pc'[p] = "idle"
         /\ \A q \in Procs : q # p => pc'[q] = pc[q]
         /\ pc' \in [Procs -> {"idle", "load", "truncate", "fill"}]
         /\ op' \in [Procs -> Ops]
         /\ snap' \in [Procs -> Files]
         /\ stamp' \in [Procs -> Nat \ {0}]
<1>1. NoOp \in Ops
  BY DEF NoOp, Ops
<1> QED
  BY <1>1, EmptyFileType DEF Return, TypeOK

(* While p is in a call, every other process is idle.                       *)
LEMMA Alone ==
  ASSUME CallsInv, NEW p \in Procs, pc[p] # "idle"
  PROVE  \A q \in Procs : q # p => pc[q] = "idle"
BY DEF CallsInv, Single

(* Loading, or returning without a write, keeps the invariant.              *)
LEMMA LoadPreserves ==
  ASSUME CallsInv, NEW p \in Procs, Load(p)
  PROVE  CallsInv'
<1> USE DEF CallsInv
<1> USE MailboxFileAssumption
<1> DEFINE t == IF op[p].kind = "read" THEN now ELSE stamp[p]
<1>a. p \in Procs /\ pc[p] = "load" /\ op[p] \in Ops
  BY DEF Load, Procs, TypeOK
<1>b. \A q \in Procs : q # p => pc[q] = "idle"
  BY Alone, <1>a
<1>c. /\ file' = file /\ torn' = torn /\ now' = now /\ sent' = sent
      /\ held' = held /\ deliveries' = deliveries /\ resets' = resets
      /\ accepted' = accepted /\ crashes' = crashes
  BY DEF Load, hist
<1>1. CASE ~torn /\ Writes(op[p], file, t)
  <2>1. /\ pc' = [pc EXCEPT ![p] = "truncate"]
        /\ snap' = [snap EXCEPT ![p] = file]
        /\ stamp' = [stamp EXCEPT ![p] = t]
        /\ lock' = lock /\ op' = op
    BY <1>1 DEF Load
  <2>2. t \in Nat \ {0} /\ t \leq now
    BY <1>a DEF TypeOK, CallInv
  <2>3. TypeOK'
    <3>1. pc' \in [Procs -> {"idle", "load", "truncate", "fill"}]
      BY <2>1 DEF TypeOK
    <3>2. snap' \in [Procs -> Files] /\ stamp' \in [Procs -> Nat \ {0}]
      BY <2>1, <2>2 DEF TypeOK
    <3> QED
      BY <1>c, <2>1, <3>1, <3>2 DEF TypeOK
  <2>4. Single' /\ LockExclusion'
    BY <1>a, <1>b, <1>c, <2>1 DEF Single, LockExclusion, Procs, TypeOK
  <2>5. /\ pc'[p] = "truncate" /\ snap'[p] = file /\ stamp'[p] = t
        /\ \A q \in Procs : q # p => pc'[q] = "idle"
    BY <1>a, <1>b, <2>1 DEF TypeOK, Procs
  <2>6. CallInv'
    <3>1. Writes(op'[p], snap'[p], stamp'[p])
      BY <1>1, <2>1, <2>5
    <3>2. op[p].kind = "reset" => \A m \in Mails : resets[m] < MaxResets
      BY <1>a DEF CallInv
    <3> QED
      BY <1>1, <3>1, <3>2, <2>5, <2>2, <2>1, <1>c DEF CallInv
  <2>7. FreshInv'
    BY <2>5, <2>1, <1>c, <1>a DEF FreshInv
  <2> QED
    BY <2>3, <2>4, <2>6, <2>7
<1>2. CASE ~(~torn /\ Writes(op[p], file, t))
  <2>1. Return(p)
    BY <1>2 DEF Load
  <2>2. \A q \in Procs : pc'[q] = "idle"
    BY <2>1, <1>a, <1>b, ReturnEffect
  <2>3. TypeOK'
    BY <2>1, <2>2, <1>a, <1>c, ReturnEffect DEF TypeOK
  <2>4. Single' /\ LockExclusion' /\ CallInv'
    BY <2>2, <1>c DEF Single, LockExclusion, CallInv, Procs
  <2>5. FreshInv'
    BY <2>2, <1>c DEF FreshInv, Procs
  <2> QED
    BY <2>3, <2>4, <2>5
<1> QED
  BY <1>1, <1>2

(* Opening the inbox for writing keeps the invariant.                       *)
LEMMA TruncatePreserves ==
  ASSUME CallsInv, NEW p \in Procs, Truncate(p)
  PROVE  CallsInv'
<1> USE DEF CallsInv
<1>a. p \in Procs /\ pc[p] = "truncate" /\ op[p] \in Ops
  BY DEF Truncate, Procs, TypeOK
<1>b. \A q \in Procs : q # p => pc[q] = "idle"
  BY Alone, <1>a
<1>c. /\ lock' = lock /\ op' = op /\ snap' = snap /\ stamp' = stamp
      /\ now' = now /\ sent' = sent /\ held' = held /\ resets' = resets
      /\ deliveries' = deliveries /\ accepted' = accepted
      /\ crashes' = crashes /\ file' = EmptyFile
      /\ pc' = [pc EXCEPT ![p] = "fill"]
  BY DEF Truncate, hist
<1>d. torn' = FALSE
  BY DEF Truncate
<1>e. pc'[p] = "fill" /\ \A q \in Procs : q # p => pc'[q] = "idle"
  BY <1>a, <1>b, <1>c DEF TypeOK
<1>1. TypeOK'
  <2>1. pc' \in [Procs -> {"idle", "load", "truncate", "fill"}]
    BY <1>c DEF TypeOK
  <2>2. torn' \in BOOLEAN
    BY <1>d
  <2> QED
    BY <1>c, <2>1, <2>2, EmptyFileType DEF TypeOK
<1>2. Single' /\ LockExclusion'
  BY <1>a, <1>c, <1>e, MailboxFileAssumption
     DEF Single, LockExclusion, Procs
<1>3. CallInv'
  <2>1. Writes(op[p], snap[p], stamp[p]) /\ stamp[p] \leq now
        /\ (op[p].kind = "reset" => \A m \in Mails : resets[m] < MaxResets)
    BY <1>a DEF CallInv
  <2>2. Writes(op'[p], snap'[p], stamp'[p])
    BY <2>1, <1>c
  <2> QED
    BY <2>1, <2>2, <1>c, <1>d, <1>e DEF CallInv, Procs
<1>4. FreshInv'
  <2>1. snap[p] = file
    BY <1>a DEF CallInv
  <2>2. \A m \in Mails : EmptyFile[m] = Absent
    BY DEF EmptyFile
  <2>3. op[p].kind = "send" => op[p].mail \in sent /\ op[p].mail \in Mails
                               /\ file[op[p].mail] = Absent
    BY <1>a, OpsKinds DEF FreshInv
  <2> QED
    BY <2>1, <2>2, <2>3, <1>c, <1>e DEF FreshInv, Procs
<1> QED
  BY <1>1, <1>2, <1>3, <1>4

(* The write that ends a call keeps the invariant.                          *)
LEMMA FillPreserves ==
  ASSUME CallsInv, NEW p \in Procs, Fill(p)
  PROVE  CallsInv'
<1> USE DEF CallsInv
<1>a. /\ p \in Procs /\ pc[p] = "fill" /\ op[p] \in Ops
      /\ snap[p] \in Files /\ stamp[p] \in Nat
  BY DEF Fill, Procs, TypeOK
<1>b. \A q \in Procs : q # p => pc[q] = "idle"
  BY Alone, <1>a
<1>c. Return(p) /\ now' = now /\ sent' = sent /\ crashes' = crashes
      /\ file' = NewContent(op[p], snap[p], stamp[p])
  BY DEF Fill
<1>d. \A q \in Procs : pc'[q] = "idle"
  BY <1>a, <1>b, <1>c, ReturnEffect
<1>e. torn' = FALSE
  <2>1. file = EmptyFile /\ ~torn
    BY <1>a DEF CallInv
  <2> QED
    BY <2>1 DEF Fill
<1>1. TypeOK'
  <2>1. file' \in Files
    BY <1>a, <1>c, NewContentType
  <2>2. torn' \in BOOLEAN
    BY <1>e
  <2>3. UnreadIn(snap[p]) \subseteq Mails
    BY DEF UnreadIn
  <2>4. held' \in [Procs -> SUBSET Mails]
    BY <2>3, <1>a DEF Fill, TypeOK
  <2>5. deliveries' \in [Mails -> Nat] /\ resets' \in [Mails -> Nat]
    BY DEF Fill, TypeOK
  <2>6. accepted' \in SUBSET Mails
    BY <1>a, OpsKinds DEF Fill, TypeOK
  <2> QED
    BY <2>1, <2>2, <2>4, <2>5, <2>6, <1>a, <1>c, <1>d, ReturnEffect
       DEF TypeOK
<1>2. Single' /\ LockExclusion' /\ CallInv'
  BY <1>d DEF Single, LockExclusion, CallInv, Procs
<1>3. FreshInv'
  <2> SUFFICES ASSUME NEW m \in Mails \ sent
               PROVE NewContent(op[p], snap[p], stamp[p])[m] = Absent
    BY <1>c, <1>d DEF FreshInv, Procs
  <2>1. snap[p][m] = Absent /\ snap[p][m].st = "absent"
    BY <1>a DEF FreshInv, Absent
  <2>2. op[p].kind = "send" => op[p].mail # m
    BY <1>a DEF FreshInv
  <2>3. op[p].kind = "done" => op[p].mail # m
    BY <1>a, <2>1 DEF CallInv, Writes
  <2>4. m \notin UnreadIn(snap[p]) /\ m \notin StaleIn(snap[p], stamp[p])
    BY <2>1 DEF UnreadIn, StaleIn
  <2>5. op[p].kind \in {"send", "done", "read", "reset"}
    BY <1>a, OpsKinds
  <2> QED
    BY <2>1, <2>2, <2>3, <2>4, <2>5, <1>a DEF NewContent, Files
<1> QED
  BY <1>1, <1>2, <1>3

(* The end of a turn keeps the invariant.                                   *)
LEMMA AbandonPreserves ==
  ASSUME CallsInv, NEW p \in Procs, Abandon(p)
  PROVE  CallsInv'
<1>1. held' \in [Procs -> SUBSET Mails]
  BY DEF Abandon, CallsInv, TypeOK
<1> QED
  BY <1>1 DEF Abandon, hist, CallsInv, TypeOK, Single,
              LockExclusion, CallInv, FreshInv, Writes, StaleIn, UnreadIn

(* The clock keeps the invariant: stamps are of the past.                   *)
LEMMA TickPreserves == CallsInv /\ Tick => CallsInv'
<1> SUFFICES ASSUME CallsInv, Tick PROVE CallsInv'
  OBVIOUS
<1>1. now' = now + 1 /\ now \in Nat \ {0}
  BY DEF Tick, CallsInv, TypeOK
<1>2. TypeOK' /\ Single' /\ LockExclusion' /\ FreshInv'
  BY <1>1 DEF Tick, hist, CallsInv, TypeOK, Single,
              LockExclusion, FreshInv
<1>3. CallInv'
  BY <1>1 DEF Tick, hist, CallsInv, TypeOK, CallInv, Writes, StaleIn, UnreadIn
<1> QED
  BY <1>2, <1>3 DEF CallsInv

(* The death of the host process keeps the invariant: its threads know      *)
(* nothing any more, and a CLI call, if one runs, is the only one.          *)
LEMMA CrashPreserves == CallsInv /\ Crash => CallsInv'
<1> SUFFICES ASSUME CallsInv, Crash PROVE CallsInv'
  OBVIOUS
<1> USE DEF CallsInv
<1>1. /\ file' = file /\ now' = now /\ sent' = sent
      /\ deliveries' = deliveries /\ resets' = resets /\ accepted' = accepted
      /\ lock' = NoOne /\ crashes' = crashes + 1
      /\ torn' \in IF \E p \in Host : pc[p] = "fill" THEN BOOLEAN ELSE {torn}
  BY DEF Crash, hist
<1>2. \A p \in Procs :
        /\ p \in Host => pc'[p] = "idle"
        /\ p \notin Host => /\ pc'[p] = pc[p] /\ op'[p] = op[p]
                          /\ snap'[p] = snap[p] /\ stamp'[p] = stamp[p]
  BY DEF Crash
<1>3. TypeOK'
  <2>1. NoOp \in Ops /\ EmptyFile \in Files
    BY EmptyFileType DEF NoOp, Ops
  <2>2. /\ pc' \in [Procs -> {"idle", "load", "truncate", "fill"}]
        /\ held' \in [Procs -> SUBSET Mails]
        /\ stamp' \in [Procs -> Nat \ {0}]
    BY DEF Crash, TypeOK
  <2>3. op' \in [Procs -> Ops] /\ snap' \in [Procs -> Files]
    BY <2>1 DEF Crash, TypeOK
  <2> QED
    BY <1>1, <2>2, <2>3 DEF TypeOK
<1>4. Single' /\ LockExclusion'
  BY <1>1, <1>2 DEF Single, LockExclusion, Procs
<1>5. CallInv'
  <2> SUFFICES ASSUME NEW p \in Procs, pc'[p] # "idle"
      PROVE /\ pc'[p] = "truncate" => snap'[p] = file'
            /\ pc'[p] = "fill" => file' = EmptyFile
            /\ pc'[p] \in {"truncate", "fill"} => ~torn'
            /\ pc'[p] \in {"truncate", "fill"}
                 => Writes(op'[p], snap'[p], stamp'[p])
            /\ stamp'[p] \leq now'
            /\ op'[p].kind = "reset"
                 => \A m \in Mails : resets'[m] < MaxResets
    BY DEF CallInv, Writes, StaleIn, UnreadIn
  <2>1. p \notin Host /\ pc[p] # "idle" /\ pc'[p] = pc[p]
    BY <1>2
  <2>2. torn' = torn
    BY <2>1, <1>1, Alone DEF Procs
  <2> QED
    BY <1>1, <1>2, <2>1, <2>2 DEF CallInv
<1>6. FreshInv'
  BY <1>1, <1>2 DEF FreshInv
<1> QED
  BY <1>3, <1>4, <1>5, <1>6

(* Nothing runs when a call begins: the FileLock keeps host threads from    *)
(* each other, and the CLI's promise, or its absence, the two sides apart.  *)
LEMMA BeginAlone ==
  ASSUME CallsInv, NEW p \in Procs, NEW o \in Ops, Begin(p, o),
         ~CliOverlaps \/ (CliIdle /\ p \in Host)
  PROVE  \A q \in Procs : pc[q] = "idle"
BY MailboxFileAssumption
   DEF Begin, MayBegin, LockFree, CallsInv, LockExclusion, CliIdle, Procs

(* The invariant is inductive when CLI calls run beside nothing, ...        *)
LEMMA CallsInvStep ==
  ASSUME ~CliOverlaps, CallsInv, [Next]_vars
  PROVE  CallsInv'
<1>1. ASSUME NEW p \in Procs, NEW o \in Ops, Begin(p, o) PROVE CallsInv'
  BY <1>1, BeginAlone, BeginPreserves
<1>2. ASSUME NEW p \in Procs, Step(p) PROVE CallsInv'
  BY <1>2, LoadPreserves, TruncatePreserves, FillPreserves DEF Step
<1>3. CASE UNCHANGED vars
  BY <1>3 DEF vars, hist, CallsInv, TypeOK, Single,
              LockExclusion, CallInv, FreshInv, Writes, StaleIn, UnreadIn
<1> QED
  BY <1>1, <1>2, <1>3, AbandonPreserves, TickPreserves, CrashPreserves DEF Next

(* No call tears the inbox: its write meets the empty file it truncated.    *)
LEMMA StepTearsNothing ==
  ASSUME CallsInv, NEW p \in Procs, Step(p)
  PROVE  torn' => torn
<1>1. ASSUME Fill(p) PROVE torn' = FALSE
  BY <1>1 DEF Fill, CallsInv, CallInv
<1> QED
  BY <1>1 DEF Step, Load, Truncate

(* ... and when there are no CLI calls.                                     *)
LEMMA HostInvStep == HostInv /\ [HostNext]_vars => HostInv'
<1> SUFFICES ASSUME HostInv, [HostNext]_vars PROVE HostInv'
  OBVIOUS
<1> USE DEF HostInv
<1>a. Host \subseteq Procs
  BY DEF Procs
<1>1. CallsInv'
  <2>1. ASSUME NEW p \in Host, NEW o \in Ops, Begin(p, o) PROVE CallsInv'
    BY <2>1, <1>a, BeginAlone, BeginPreserves
  <2>2. ASSUME NEW p \in Host, Step(p) PROVE CallsInv'
    BY <2>2, <1>a, LoadPreserves, TruncatePreserves, FillPreserves DEF Step
  <2>3. CASE UNCHANGED vars
    BY <2>3 DEF vars, hist, CallsInv, TypeOK, Single,
                LockExclusion, CallInv, FreshInv, Writes, StaleIn, UnreadIn
  <2> QED
    BY <2>1, <2>2, <2>3, <1>a, AbandonPreserves, TickPreserves DEF HostNext
<1>2. CliIdle'
  <2>1. \A c \in Cli : c \in Procs /\ c \notin Host
    BY MailboxFileAssumption DEF Procs
  <2>2. ASSUME NEW c \in Cli PROVE pc'[c] = pc[c]
    <3>1. c \in Procs /\ c \notin Host
      BY <2>1
    <3>2. pc \in [Procs -> {"idle", "load", "truncate", "fill"}]
      BY DEF CallsInv, TypeOK
    <3>3. ASSUME NEW p \in Host, NEW v, pc' = [pc EXCEPT ![p] = v]
          PROVE  pc'[c] = pc[c]
      BY <3>1, <3>2, <3>3
    <3>4. ASSUME NEW p \in Host, NEW o \in Ops, Begin(p, o) PROVE pc'[c] = pc[c]
      BY <3>3, <3>4 DEF Begin
    <3>5. ASSUME NEW p \in Host, Step(p) PROVE pc'[c] = pc[c]
      BY <3>3, <3>5 DEF Step, Load, Return, Truncate, Fill
    <3>6. pc' = pc => pc'[c] = pc[c]
      OBVIOUS
    <3> QED
      BY <3>4, <3>5, <3>6 DEF HostNext, Abandon, Tick, vars
  <2> QED
    BY <2>2 DEF CliIdle
<1>3. ~torn'
  <2>1. ASSUME NEW p \in Host, Step(p) PROVE ~torn'
    BY <2>1, <1>a, StepTearsNothing
  <2> QED
    BY <2>1 DEF HostNext, Begin, Abandon, Tick, vars
<1> QED
  BY <1>1, <1>2, <1>3

-----------------------------------------------------------------------------
(* The refinement.  CallsInv tells what the file stands for in each place.   *)
LEMMA LogicalWhenFilling ==
  ASSUME CallsInv, NEW p \in Procs, pc[p] = "fill"
  PROVE  Logical = snap[p]
<1>1. p \in Procs /\ \A q \in Procs : pc[q] = "fill" => q = p
  BY Alone DEF Procs
<1> QED
  BY <1>1, LogicalOfFiller DEF Logical

(* With nobody about to write, the mailbox is the content.                  *)
LEMMA LogicalElsewhere ==
  ASSUME \A q \in Procs : pc[q] # "fill"
  PROVE  Logical = file
BY LogicalOfFile DEF Logical

(* The initial inbox is an initial mailbox.                                 *)
LEMMA InitMaps == Init => Abs!Init
<1> SUFFICES ASSUME Init PROVE Abs!Init
  OBVIOUS
<1>1. Logical = EmptyFile
  BY LogicalElsewhere DEF Init
<1>2. \A m \in Mails : Logical[m].st = "absent" /\ Logical[m].ps = 0
  BY <1>1 DEF EmptyFile, Absent
<1>3. \A m \in Mails : StatusOf(m) = "absent"
  BY <1>2 DEF Init, StatusOf
<1> QED
  BY <1>2, <1>3 DEF Init, Abs!Init

(* Entering a call, loading and truncating do not change what the inbox     *)
(* stands for, ...                                                          *)
LEMMA QuietContent ==
  ASSUME CallsInv, NEW p \in Procs,
         \/ (\A q \in Procs : pc[q] = "idle") /\ \E o \in Ops : Begin(p, o)
         \/ Load(p)
         \/ Truncate(p)
  PROVE  Logical' = Logical
<1> USE DEF CallsInv
<1>2. Logical' = Logical
  <2>1. CASE Truncate(p)
    <3>1. pc[p] = "truncate" /\ p \in Procs
      BY <2>1 DEF Truncate, Procs
    <3>2. \A q \in Procs : pc[q] # "fill"
      BY <3>1, Alone
    <3>3. Logical = file /\ snap[p] = file
      BY <3>1, <3>2, LogicalElsewhere DEF CallInv
    <3>4. snap' = snap /\ pc'[p] = "fill" /\ \A q \in Procs : q # p => pc'[q] # "fill"
      BY <2>1, <3>1, <3>2 DEF Truncate, TypeOK
    <3>5. LogicalOf(pc', snap', file') = snap'[p]
      BY <3>1, <3>4, LogicalOfFiller
    <3> QED
      BY <3>3, <3>4, <3>5 DEF Logical
  <2>2. CASE Load(p)
    <3>1. pc[p] = "load" /\ p \in Procs
      BY <2>2 DEF Load, Procs
    <3>2. \A q \in Procs : pc[q] # "fill"
      BY <3>1, Alone
    <3>3. \A q \in Procs : pc'[q] # "fill"
      BY <2>2, <3>1, <3>2 DEF Load, Return, TypeOK
    <3>4. file' = file
      BY <2>2 DEF Load
    <3> QED
      BY <3>2, <3>3, <3>4, LogicalOfFile DEF Logical
  <2>3. ASSUME \A q \in Procs : pc[q] = "idle", NEW o \in Ops, Begin(p, o)
        PROVE  Logical' = Logical
    <3>1. \A q \in Procs : pc[q] # "fill"
      BY <2>3
    <3>2. \A q \in Procs : pc'[q] # "fill"
      BY <2>3, <3>1 DEF Begin, TypeOK
    <3>3. file' = file
      BY <2>3 DEF Begin
    <3> QED
      BY <3>1, <3>2, <3>3, LogicalOfFile DEF Logical
  <2> QED
    BY <2>1, <2>2, <2>3
<1> QED
  BY <1>2

(* ... and so do not show in the promised mailbox.                          *)
LEMMA QuietSteps ==
  ASSUME CallsInv, NEW p \in Procs,
         \/ (\A q \in Procs : pc[q] = "idle") /\ \E o \in Ops : Begin(p, o)
         \/ Load(p)
         \/ Truncate(p)
  PROVE  UNCHANGED Abs!mvars
<1>1. /\ now' = now /\ held' = held /\ deliveries' = deliveries
      /\ resets' = resets /\ accepted' = accepted
  BY DEF Begin, Load, Truncate, hist
<1> QED
  BY <1>1, QuietContent DEF Abs!mvars, StatusOf

(* The write is where a call takes effect.                                  *)
LEMMA FillMaps ==
  ASSUME CallsInv, NEW p \in Procs, Fill(p),
         op[p].kind = "send" => op[p].mail \notin accepted
  PROVE  Abs!Next
<1> USE DEF CallsInv
<1> DEFINE f == snap[p]
           t == stamp[p]
           o == op[p]
           g == NewContent(o, f, t)
<1>a. /\ p \in Procs /\ pc[p] = "fill" /\ o \in Ops
      /\ f \in Files /\ t \in Nat \ {0} /\ t \leq now /\ now \in Nat
  BY DEF Fill, Procs, TypeOK, CallInv
<1>b. Writes(o, f, t)
  BY <1>a DEF CallInv
<1>c. Logical = f
  BY <1>a, LogicalWhenFilling
<1>d. Logical' = g
  <2>1. \A q \in Procs : pc'[q] = "idle"
    BY <1>a, Alone, ReturnEffect DEF Fill
  <2>2. file' = g
    BY DEF Fill
  <2> QED
    BY <2>1, <2>2, LogicalOfFile DEF Logical
<1>e. now' = now
  BY DEF Fill
<1>f. /\ deliveries \in [Mails -> Nat] /\ resets \in [Mails -> Nat]
      /\ held \in [Procs -> SUBSET Mails]
  BY DEF TypeOK
<1> DEFINE Seen(c, A, m) == IF m \in A /\ c = "absent" THEN "lost" ELSE c
           st == [m \in Mails |-> StatusOf(m)]
           ps == [m \in Mails |-> Logical[m].ps]
<1>g. /\ st = [m \in Mails |-> Seen(f[m].st, accepted, m)]
      /\ ps = [m \in Mails |-> f[m].ps]
      /\ st' = [m \in Mails |-> Seen(g[m].st, accepted', m)]
      /\ ps' = [m \in Mails |-> g[m].ps]
  BY <1>c, <1>d DEF StatusOf
<1>h. accepted' = IF o.kind = "send" THEN accepted \union {o.mail} ELSE accepted
  BY DEF Fill
<1>1. CASE o.kind = "send"
  <2>1. o.mail \in Mails /\ f[o.mail] = Absent
    BY <1>a, <1>1, OpsKinds DEF FreshInv
  <2>2. g = [f EXCEPT ![o.mail] = Unclaimed]
    BY <1>1 DEF NewContent
  <2>3. PICK k \in Mails : k = o.mail
    BY <2>1
  <2>4. /\ f[k].st = "absent" /\ f[k].ps = 0
        /\ \A m \in Mails : g[m] = IF m = k THEN Unclaimed ELSE f[m]
    BY <1>a, <2>1, <2>2, <2>3 DEF Absent, Files
  <2>5. \A m \in Mails : /\ g[m].st = IF m = k THEN "unread" ELSE f[m].st
                         /\ g[m].ps = f[m].ps
    BY <2>4 DEF Unclaimed
  <2>6. st[k] = "absent" /\ st' = [st EXCEPT ![k] = "unread"] /\ ps' = ps
    <3>1. \A m \in Mails : Seen(g[m].st, accepted', m)
            = IF m = k THEN "unread" ELSE Seen(f[m].st, accepted, m)
      BY <1>h, <1>1, <2>3, <2>5
    <3>2. st' = [m \in Mails |-> IF m = k THEN "unread" ELSE Seen(f[m].st, accepted, m)]
      BY <1>g, <3>1, Zenon
    <3>3. [st EXCEPT ![k] = "unread"]
            = [m \in Mails |-> IF m = k THEN "unread" ELSE Seen(f[m].st, accepted, m)]
      BY <1>g
    <3>4. ps' = ps
      BY <1>g, <2>5, Zenon
    <3>5. st[k] = "absent"
      BY <1>g, <1>1, <2>3, <2>4
    <3> QED
      BY <3>2, <3>3, <3>4, <3>5
  <2>7. held' = held /\ deliveries' = deliveries /\ resets' = resets
    BY <1>1, <1>f, <1>a DEF Fill
  <2>8. Abs!SendMail(k)
    BY <2>6, <2>7, <1>e DEF Abs!SendMail, Abs!InitialStatus
  <2> QED
    BY <2>8 DEF Abs!Next
<1>2. CASE o.kind = "read"
  <2> DEFINE U == UnreadIn(f)
  <2>1. U # {} /\ U \subseteq Mails /\ U = Abs!Unread
    <3>1. \A m \in Mails : StatusOf(m) = "unread" <=> f[m].st = "unread"
      BY <1>c DEF StatusOf
    <3> QED
      BY <1>2, <1>b, <3>1 DEF Writes, UnreadIn, Abs!Unread
  <2>2. g = [m \in Mails |-> IF m \in U THEN Claimed(t) ELSE f[m]]
    BY <1>2 DEF NewContent
  <2>3. /\ st' = [m \in Mails |-> IF m \in U THEN "in_progress" ELSE st[m]]
        /\ ps' = [m \in Mails |-> IF m \in U THEN t ELSE ps[m]]
    BY <1>g, <1>h, <1>2, <2>2 DEF Claimed
  <2>4. /\ held' = [held EXCEPT ![p] = @ \union U]
        /\ deliveries' = [m \in Mails |-> IF m \in U THEN deliveries[m] + 1
                                                       ELSE deliveries[m]]
        /\ resets' = resets
    BY <1>2, <1>f, <1>a DEF Fill
  <2>5. t \in 1..now
    BY <1>a
  <2>6. Abs!ReadInbox(p)
    BY <2>1, <2>3, <2>4, <2>5, <1>e DEF Abs!ReadInbox
  <2> QED
    BY <2>6, <1>a DEF Abs!Next
<1>3. CASE o.kind = "done"
  <2>1. o.mail \in Mails /\ f[o.mail].st = "in_progress"
    BY <1>a, <1>b, <1>3, OpsKinds DEF Writes
  <2>2. g = [f EXCEPT ![o.mail] = [@ EXCEPT !.st = "done"]]
    BY <1>3 DEF NewContent
  <2>3. PICK k \in Mails : k = o.mail
    BY <2>1
  <2>4. /\ f[k].st = "in_progress"
        /\ \A m \in Mails : g[m] = IF m = k THEN [f[m] EXCEPT !.st = "done"]
                                            ELSE f[m]
    BY <1>a, <2>1, <2>2, <2>3 DEF Files
  <2>5. \A m \in Mails : /\ g[m].st = IF m = k THEN "done" ELSE f[m].st
                         /\ g[m].ps = f[m].ps
    BY <1>a, <2>4 DEF Files, Cells
  <2>6. st[k] = "in_progress" /\ st' = [st EXCEPT ![k] = "done"] /\ ps' = ps
    <3>1. \A m \in Mails : Seen(g[m].st, accepted', m)
            = IF m = k THEN "done" ELSE Seen(f[m].st, accepted, m)
      BY <1>h, <1>3, <2>5
    <3>2. st' = [m \in Mails |-> IF m = k THEN "done" ELSE Seen(f[m].st, accepted, m)]
      BY <1>g, <3>1, Zenon
    <3>3. [st EXCEPT ![k] = "done"]
            = [m \in Mails |-> IF m = k THEN "done" ELSE Seen(f[m].st, accepted, m)]
      BY <1>g
    <3>4. ps' = ps
      BY <1>g, <2>5, Zenon
    <3>5. st[k] = "in_progress"
      BY <1>g, <2>4
    <3> QED
      BY <3>2, <3>3, <3>4, <3>5
  <2>7. /\ held' = [held EXCEPT ![p] = @ \ {k}]
        /\ deliveries' = deliveries /\ resets' = resets
    BY <1>3, <1>f, <1>a, <2>3 DEF Fill
  <2>8. Abs!MarkDone(p, k)
    BY <2>6, <2>7, <1>e DEF Abs!MarkDone, Abs!Acknowledgeable
  <2> QED
    BY <2>8, <1>a DEF Abs!Next
<1>4. CASE o.kind = "reset"
  <2> DEFINE S == StaleIn(f, t)
  <2>1. S # {} /\ S \subseteq Mails
    BY <1>4, <1>b DEF Writes, StaleIn
  <2>2. \A m \in S : /\ st[m] = "in_progress"
                     /\ now > ps[m] + StaleAfter
                     /\ resets[m] < MaxResets
    <3>1. \A m \in S : /\ f[m].st = "in_progress" /\ m \in Mails
                       /\ t > f[m].ps + StaleAfter
      BY DEF StaleIn
    <3>2. \A m \in Mails : f[m].ps \in Nat
      BY <1>a DEF Files, Cells
    <3>3. \A m \in Mails : resets[m] < MaxResets
      BY <1>4, <1>a DEF CallInv
    <3> QED
      BY <3>1, <3>2, <3>3, <1>a, <1>g, MailboxFileAssumption
  <2>3. g = [m \in Mails |-> IF m \in S THEN Unclaimed ELSE f[m]]
    BY <1>4 DEF NewContent
  <2>4. /\ st' = [m \in Mails |-> IF m \in S THEN "unread" ELSE st[m]]
        /\ ps' = [m \in Mails |-> IF m \in S THEN 0 ELSE ps[m]]
    BY <1>g, <1>h, <1>4, <2>3 DEF Unclaimed
  <2>5. /\ held' = held /\ deliveries' = deliveries
        /\ resets' = [m \in Mails |-> IF m \in S THEN resets[m] + 1
                                               ELSE resets[m]]
    BY <1>4, <1>f, <1>a DEF Fill
  <2>6. Abs!ResetStale
    <3>1. S \in SUBSET {m \in Mails : /\ st[m] = "in_progress"
                                     /\ now > ps[m] + StaleAfter
                                     /\ resets[m] < MaxResets}
      BY <2>1, <2>2
    <3> QED
      BY <2>1, <2>4, <2>5, <3>1, <1>e DEF Abs!ResetStale
  <2> QED
    BY <2>6 DEF Abs!Next
<1> QED
  BY <1>1, <1>2, <1>3, <1>4, <1>a, OpsKinds

(* The rest of a process: abandoning mail is a step of the mailbox too.     *)
LEMMA CallMaps ==
  ASSUME CallsInv, NEW p \in Procs, Step(p) \/ Abandon(p),
         pc[p] = "fill" /\ op[p].kind = "send" => op[p].mail \notin accepted
  PROVE  [Abs!Next]_(Abs!mvars)
<1>1. CASE Step(p)
  <2>1. Fill(p) => pc[p] = "fill"
    BY DEF Fill
  <2> QED
    BY <1>1, <2>1, QuietSteps, FillMaps DEF Step
<1>2. CASE Abandon(p)
  <2>1. /\ Logical' = Logical /\ now' = now /\ deliveries' = deliveries
        /\ resets' = resets /\ accepted' = accepted
    BY <1>2 DEF Abandon, hist, Logical
  <2>2. Abs!Abandon(p)
    BY <1>2, <2>1 DEF Abandon, Abs!Abandon, StatusOf
  <2> QED
    BY <2>2 DEF Abs!Next
<1> QED
  BY <1>1, <1>2

(* The clock is the mailbox's clock.                                        *)
LEMMA TickMaps == Tick \/ UNCHANGED vars => [Abs!Next]_(Abs!mvars)
<1>1. CASE Tick
  <2>1. /\ Logical' = Logical /\ held' = held /\ deliveries' = deliveries
        /\ resets' = resets /\ accepted' = accepted
    BY <1>1 DEF Tick, hist, Logical
  <2>2. Abs!Tick
    BY <1>1, <2>1 DEF Tick, Abs!Tick, StatusOf
  <2> QED
    BY <2>2 DEF Abs!Next
<1>2. CASE UNCHANGED vars
  <2>1. Logical' = Logical
    BY <1>2 DEF vars, Logical
  <2> QED
    BY <1>2, <2>1 DEF vars, hist, Abs!mvars, StatusOf
<1> QED
  BY <1>1, <1>2

-----------------------------------------------------------------------------
(* What a call dumps still holds every message it loaded, ...               *)
LEMMA NothingDropped ==
  ASSUME NEW o \in Ops, NEW f \in Files, NEW t \in Nat, NEW m \in Mails,
         f[m].st # "absent"
  PROVE  NewContent(o, f, t)[m].st # "absent"
<1>1. o.kind \in {"send", "done", "read", "reset"}
      /\ (o.kind \in {"send", "done"} => o.mail \in Mails)
  BY OpsKinds
<1>2. CASE o.kind = "send"
  BY <1>2 DEF NewContent, Unclaimed, Files
<1>3. CASE o.kind = "read"
  BY <1>3 DEF NewContent, Claimed
<1>4. CASE o.kind = "done"
  BY <1>4 DEF NewContent, Files, Cells
<1>5. CASE o.kind = "reset"
  BY <1>5 DEF NewContent, Unclaimed
<1> QED
  BY <1>1, <1>2, <1>3, <1>4, <1>5

(* ... and a send's dump holds the message sent.                            *)
LEMMA SentIsThere ==
  ASSUME NEW o \in Ops, NEW f \in Files, NEW t \in Nat, o.kind = "send"
  PROVE  NewContent(o, f, t)[o.mail].st # "absent"
BY OpsKinds DEF NewContent, Unclaimed, Files

(* A write keeps accepted mail.                                             *)
LEMMA FillKeeps ==
  ASSUME CallsInv, AcceptedMailKept, NEW p \in Procs, Fill(p)
  PROVE  AcceptedMailKept'
<1> DEFINE g == NewContent(op[p], snap[p], stamp[p])
<1>1. /\ pc[p] = "fill" /\ op[p] \in Ops /\ snap[p] \in Files
      /\ stamp[p] \in Nat /\ accepted \subseteq Mails
  BY DEF Fill, CallsInv, TypeOK
<1>2. Logical = snap[p]
  BY <1>1, LogicalWhenFilling
<1>3. Logical' = g
  <2>1. \A q \in Procs : pc'[q] = "idle"
    BY <1>1, Alone, ReturnEffect DEF Fill, CallsInv
  <2> QED
    BY <2>1, LogicalOfFile DEF Logical, Fill
<1>4. accepted' = IF op[p].kind = "send" THEN accepted \union {op[p].mail}
                                         ELSE accepted
  BY DEF Fill
<1>5. \A m \in accepted : g[m].st # "absent"
  BY <1>1, <1>2, NothingDropped DEF AcceptedMailKept
<1>6. op[p].kind = "send" => g[op[p].mail].st # "absent"
  BY <1>1, SentIsThere
<1> QED
  BY <1>3, <1>4, <1>5, <1>6 DEF AcceptedMailKept

(* Every other step of a process leaves accepted mail alone.                *)
LEMMA CallKeeps ==
  ASSUME CallsInv, AcceptedMailKept, NEW p \in Procs,
         \/ (\A q \in Procs : pc[q] = "idle") /\ \E o \in Ops : Begin(p, o)
         \/ Step(p)
         \/ Abandon(p)
  PROVE  AcceptedMailKept'
<1>1. CASE Abandon(p)
  BY <1>1 DEF Abandon, hist, Logical, AcceptedMailKept
<1>2. CASE Fill(p)
  BY <1>2, FillKeeps
<1>3. CASE ~Abandon(p) /\ ~Fill(p)
  <2>1. Logical' = Logical
    BY <1>3, QuietContent DEF Step
  <2>2. accepted' = accepted
    BY <1>3 DEF Step, Begin, Load, Truncate, hist
  <2> QED
    BY <2>1, <2>2 DEF AcceptedMailKept
<1> QED
  BY <1>1, <1>2, <1>3

(* So does the clock.                                                       *)
LEMMA TickKeeps == AcceptedMailKept /\ (Tick \/ UNCHANGED vars) => AcceptedMailKept'
BY DEF Tick, vars, hist, Logical, AcceptedMailKept

(* With the host alone, accepted mail is kept.                              *)
LEMMA HostKeeps ==
  HostInv /\ AcceptedMailKept /\ [HostNext]_vars => AcceptedMailKept'
<1> SUFFICES ASSUME HostInv, AcceptedMailKept, [HostNext]_vars
             PROVE  AcceptedMailKept'
  OBVIOUS
<1>a. CallsInv /\ Host \subseteq Procs
  BY DEF HostInv, Procs
<1>1. ASSUME NEW p \in Host, NEW o \in Ops, Begin(p, o)
      PROVE  AcceptedMailKept'
  BY <1>1, <1>a, BeginAlone, CallKeeps DEF HostInv
<1> QED
  BY <1>1, <1>a, CallKeeps, TickKeeps DEF HostNext

(* Every step of a host thread is a mailbox step or a stutter: whoever      *)
(* writes a message finds it absent, hence not accepted before.             *)
LEMMA HostStepMaps ==
  ASSUME HostInv, AcceptedMailKept, [HostNext]_vars
  PROVE  [Abs!Next]_(Abs!mvars)
<1>a. CallsInv /\ Host \subseteq Procs
  BY DEF HostInv, Procs
<1>1. ASSUME NEW p \in Host, NEW o \in Ops, Begin(p, o)
      PROVE  UNCHANGED Abs!mvars
  BY <1>1, <1>a, BeginAlone, QuietSteps DEF HostInv
<1>2. ASSUME NEW p \in Procs, pc[p] = "fill", op[p].kind = "send"
      PROVE  op[p].mail \notin accepted
  <2>1. Logical[op[p].mail].st = "absent"
    BY <1>2, <1>a, LogicalWhenFilling DEF CallsInv, FreshInv, Absent
  <2> QED
    BY <2>1 DEF AcceptedMailKept
<1> QED
  BY <1>1, <1>2, <1>a, CallMaps, TickMaps DEF HostNext

(* With CLI calls and crashes, accepted mail is kept until the first crash. *)
LEMMA LossStep ==
  ASSUME ~CliOverlaps, CallsInv, LossTakesACrash, [Next]_vars
  PROVE  LossTakesACrash'
<1>a. crashes \in Nat
  BY DEF CallsInv, TypeOK
<1>1. CASE Crash
  BY <1>a, <1>1 DEF Crash, LossTakesACrash
<1>2. CASE ~Crash
  <2>1. crashes' = crashes
    BY <1>2 DEF Next, Begin, Step, Load, Truncate, Fill, Abandon, Tick, vars, hist
  <2>2. ASSUME AcceptedMailKept PROVE AcceptedMailKept'
    <3>1. ASSUME NEW p \in Procs, NEW o \in Ops, Begin(p, o)
          PROVE  AcceptedMailKept'
      BY <3>1, <2>2, BeginAlone, CallKeeps
    <3> QED
      BY <3>1, <2>2, <1>2, CallKeeps, TickKeeps DEF Next
  <2> QED
    BY <2>1, <2>2 DEF LossTakesACrash
<1> QED
  BY <1>1, <1>2

-----------------------------------------------------------------------------
(* The ledger of one message, with its status and its counters.             *)
Accounted(st, d, n) ==
  IF st = "lost" THEN d \in {n, n + 1}
  ELSE d = n + (IF st \in {"in_progress", "done"} THEN 1 ELSE 0)

(* Who was handed what, through crashes.  A message whose send has not      *)
(* returned is not in the file and was handed to nobody; the others were    *)
(* handed out once per reset and once for their claim, and one that lies    *)
(* unread was reset if somebody still holds it.                             *)
PendingSend(m) == \E p \in Procs : pc[p] # "idle" /\ op[p].kind = "send" /\ op[p].mail = m
HandedInv ==
  /\ accepted \subseteq sent
  /\ \A m \in Mails : PendingSend(m) => m \notin accepted
  /\ \A m \in Mails : Logical[m].st # "absent" => m \in accepted
  /\ \A m \in Mails \ accepted : deliveries[m] = 0 /\ \A p \in Procs : m \notin held[p]
  /\ \A m \in Mails : Accounted(StatusOf(m), deliveries[m], resets[m])
  /\ \A p \in Procs : \A m \in held[p] : Logical[m].st # "unread" \/ resets[m] > 0
  /\ SharedOnlyAfterReset

(* An empty inbox was handed to nobody.                                     *)
LEMMA HandedInit == Init => HandedInv
<1> SUFFICES ASSUME Init PROVE HandedInv
  OBVIOUS
<1>1. /\ Logical = EmptyFile /\ accepted = {} /\ \A p \in Procs : pc[p] = "idle" /\ held[p] = {}
      /\ \A m \in Mails : deliveries[m] = 0 /\ resets[m] = 0
  BY LogicalElsewhere DEF Init
<1>2. \A m \in Mails : EmptyFile[m].st = "absent"
  BY DEF EmptyFile, Absent
<1>3. \A m \in Mails : Accounted(StatusOf(m), deliveries[m], resets[m])
  BY <1>1, <1>2 DEF StatusOf, Accounted
<1> QED
  BY <1>1, <1>2, <1>3 DEF HandedInv, PendingSend, SharedOnlyAfterReset

(* A step that hands nothing out, resets nothing and puts no message back   *)
(* keeps it.                                                                *)
LEMMA HandedQuietly ==
  ASSUME CallsInv, HandedInv,
         deliveries' = deliveries, resets' = resets, accepted' = accepted,
         sent \subseteq sent',
         \A m \in Mails : PendingSend(m)' => PendingSend(m) \/ m \notin sent,
         \A p \in Procs : held'[p] \subseteq held[p],
         \A m \in Mails : Logical'[m] = Logical[m] \/ Logical'[m].st = "absent"
  PROVE  HandedInv'
<1>1. /\ deliveries \in [Mails -> Nat] /\ resets \in [Mails -> Nat]
      /\ \A p \in Procs : held[p] \subseteq Mails
      /\ accepted \subseteq Mails
  BY DEF CallsInv, TypeOK
<1>2. (accepted \subseteq sent)'
  BY DEF HandedInv
<1>3. \A m \in Mails : PendingSend(m)' => m \notin accepted'
  BY DEF HandedInv
<1>4. /\ \A m \in Mails \ accepted' : deliveries'[m] = 0 /\ \A p \in Procs : m \notin held'[p]
      /\ \A m \in Mails : Logical'[m].st # "absent" => m \in accepted'
  BY DEF HandedInv
<1>a. \A m \in Mails : Logical'[m].st = "unread" => Logical[m].st = "unread"
  OBVIOUS
<1>5. \A m \in Mails : Accounted(StatusOf(m), deliveries[m], resets[m])'
  <2> SUFFICES ASSUME NEW m \in Mails
               PROVE  Accounted(StatusOf(m)', deliveries[m], resets[m])
    BY DEF Accounted
  <2>1. Accounted(StatusOf(m), deliveries[m], resets[m])
    BY DEF HandedInv
  <2>2. CASE Logical'[m] = Logical[m]
    <3>1. StatusOf(m)' = StatusOf(m)
      BY <2>2 DEF StatusOf
    <3> QED
      BY <2>1, <3>1
  <2>3. CASE Logical'[m].st = "absent" /\ m \in accepted
    <3>1. StatusOf(m)' = "lost"
      BY <2>3 DEF StatusOf
    <3>2. deliveries[m] \in {resets[m], resets[m] + 1}
      BY <2>1, <1>1 DEF Accounted
    <3> QED
      BY <3>1, <3>2 DEF Accounted
  <2>4. CASE Logical'[m].st = "absent" /\ m \notin accepted
    <3>1. StatusOf(m)' = "absent" /\ StatusOf(m) = "absent"
      BY <2>4 DEF StatusOf, HandedInv
    <3> QED
      BY <2>1, <3>1
  <2> QED
    BY <2>2, <2>3, <2>4
<1>6. \A p \in Procs : \A m \in held'[p] : Logical'[m].st # "unread" \/ resets'[m] > 0
  BY <1>1, <1>a DEF HandedInv
<1>7. SharedOnlyAfterReset'
  BY DEF HandedInv, SharedOnlyAfterReset
<1> QED
  BY <1>2, <1>3, <1>4, <1>5, <1>6, <1>7 DEF HandedInv

(* A write hands out what was unread, and only a reset puts it back.        *)
LEMMA FillHands ==
  ASSUME CallsInv, HandedInv, NEW p \in Procs, Fill(p)
  PROVE  HandedInv'
<1> DEFINE f == snap[p]
           t == stamp[p]
           o == op[p]
           g == NewContent(o, f, t)
           got == IF o.kind = "read" THEN UnreadIn(f) ELSE {}
           taken == IF o.kind = "reset" THEN StaleIn(f, t) ELSE {}
<1>1. /\ pc[p] = "fill" /\ o \in Ops /\ f \in Files /\ t \in Nat
      /\ deliveries \in [Mails -> Nat] /\ resets \in [Mails -> Nat]
      /\ held \in [Procs -> SUBSET Mails] /\ accepted \subseteq Mails
  BY DEF Fill, CallsInv, TypeOK
<1>2. Logical = f
  BY <1>1, LogicalWhenFilling
<1>3. \A q \in Procs : pc'[q] = "idle"
  BY <1>1, Alone, ReturnEffect DEF Fill, CallsInv
<1>4. Logical' = g
  BY <1>3, LogicalOfFile DEF Logical, Fill
<1>5. \A m \in Mails : ~PendingSend(m)'
  BY <1>3 DEF PendingSend
<1>6. /\ \A m \in Mails : deliveries'[m] = IF m \in got THEN deliveries[m] + 1 ELSE deliveries[m]
      /\ \A m \in Mails : resets'[m] = IF m \in taken THEN resets[m] + 1 ELSE resets[m]
      /\ \A q \in Procs : held'[q] \subseteq held[q] \union (IF q = p THEN got ELSE {})
      /\ accepted' = IF o.kind = "send" THEN accepted \union {o.mail} ELSE accepted
      /\ sent' = sent
  BY <1>1 DEF Fill
<1>7. o.kind = "send" => o.mail \in Mails /\ o.mail \in sent /\ o.mail \notin accepted
  BY <1>1, OpsKinds DEF HandedInv, PendingSend, CallsInv, FreshInv
<1>8. \A m \in got : m \in Mails /\ f[m].st = "unread" /\ g[m].st # "unread"
  BY <1>1 DEF UnreadIn, NewContent, Claimed
<1>9. \A m \in Mails : g[m].st = "unread" =>
        \/ f[m].st = "unread" /\ m \notin got
        \/ m \in taken
        \/ o.kind = "send" /\ m = o.mail
  <2> SUFFICES ASSUME NEW m \in Mails, g[m].st = "unread",
                      ~(o.kind = "send" /\ m = o.mail), m \notin taken
               PROVE  f[m].st = "unread"
    BY <1>8
  <2>1. CASE o.kind = "send"
    BY <2>1, <1>1 DEF NewContent, Files
  <2>2. CASE o.kind = "read"
    BY <2>2 DEF NewContent, Claimed
  <2>3. CASE o.kind = "done"
    BY <2>3, <1>1 DEF NewContent, Files, Cells
  <2>4. CASE o.kind = "reset"
    BY <2>4 DEF NewContent
  <2> QED
    BY <1>1, <2>1, <2>2, <2>3, <2>4, OpsKinds
<1>10. \A m \in taken : m \notin got
  OBVIOUS
<1>11. \A m \in Mails : /\ deliveries[m] \in Nat /\ resets[m] \in Nat
                        /\ Accounted(StatusOf(m), deliveries[m], resets[m])
  BY <1>1 DEF HandedInv
<1>12. \A m \in Mails : m \notin accepted =>
         deliveries[m] = 0 /\ \A q \in Procs : m \notin held[q]
  BY DEF HandedInv
<1>13. \A q \in Procs : \A m \in held[q] : f[m].st # "unread" \/ resets[m] > 0
  BY <1>2 DEF HandedInv
<1>14. \A m \in got : m \in accepted
  BY <1>2, <1>8 DEF HandedInv
<1>15. (accepted \subseteq sent)'
  BY <1>6, <1>7 DEF HandedInv
<1>16. \A m \in Mails \ accepted' : deliveries'[m] = 0 /\ \A q \in Procs : m \notin held'[q]
  BY <1>6, <1>12, <1>14
<1>b. \A m \in Mails : g[m].st # "absent" => m \in accepted'
  <2> SUFFICES ASSUME NEW m \in Mails, g[m].st # "absent", f[m].st = "absent"
               PROVE  o.kind = "send" /\ m = o.mail
    BY <1>2, <1>6 DEF HandedInv
  <2>1. CASE o.kind = "send"
    BY <2>1, <1>1 DEF NewContent, Files
  <2>2. CASE o.kind = "read"
    BY <2>2 DEF NewContent, UnreadIn
  <2>3. CASE o.kind = "done"
    <3>1. Writes(o, f, t) /\ o.mail \in Mails
      BY <2>3, <1>1, OpsKinds DEF CallsInv, CallInv
    <3>2. f[o.mail].st = "in_progress"
      BY <2>3, <3>1 DEF Writes
    <3>3. m # o.mail
      BY <3>2
    <3> QED
      BY <2>3, <3>3, <1>1 DEF NewContent, Files
  <2>4. CASE o.kind = "reset"
    BY <2>4 DEF NewContent, StaleIn
  <2> QED
    BY <1>1, <2>1, <2>2, <2>3, <2>4, OpsKinds
<1>17. \A m \in Mails : Accounted(StatusOf(m), deliveries[m], resets[m])'
  <2> SUFFICES ASSUME NEW m \in Mails
               PROVE  Accounted(StatusOf(m)', deliveries'[m], resets'[m])
    BY DEF Accounted
  <2>a. /\ StatusOf(m) = IF m \in accepted /\ f[m].st = "absent" THEN "lost" ELSE f[m].st
        /\ StatusOf(m)' = IF m \in accepted' /\ g[m].st = "absent" THEN "lost" ELSE g[m].st
    BY <1>2, <1>4 DEF StatusOf
  <2>1. CASE m \in got
    <3>1. StatusOf(m) = "unread" /\ StatusOf(m)' = "in_progress"
      <4>1. o.kind = "read" /\ g[m] = Claimed(t) /\ f[m].st = "unread"
        BY <2>1, <1>8 DEF NewContent
      <4> QED
        BY <4>1, <2>a DEF Claimed
    <3> QED
      BY <2>1, <3>1, <1>6, <1>10, <1>11 DEF Accounted
  <2>2. CASE m \in taken
    <3>1. StatusOf(m) = "in_progress" /\ StatusOf(m)' = "unread"
      <4>1. o.kind = "reset" /\ g[m] = Unclaimed /\ f[m].st = "in_progress"
        BY <2>2 DEF NewContent, StaleIn
      <4> QED
        BY <4>1, <2>a DEF Unclaimed
    <3> QED
      BY <2>2, <3>1, <1>6, <1>10, <1>11 DEF Accounted
  <2>3. CASE m \notin got /\ m \notin taken
    <3>1. deliveries'[m] = deliveries[m] /\ resets'[m] = resets[m]
      BY <2>3, <1>6
    <3>2. CASE o.kind = "send" /\ m = o.mail
      <4>1. m \notin accepted /\ f[m].st = "absent"
        BY <3>2, <1>2, <1>7 DEF HandedInv
      <4>2. g[m].st = "unread"
        BY <3>2, <1>1 DEF NewContent, Unclaimed, Files
      <4>3. StatusOf(m) = "absent" /\ StatusOf(m)' = "unread"
        BY <4>1, <4>2, <2>a
      <4> QED
        BY <3>1, <4>3, <1>11 DEF Accounted
    <3>3. CASE o.kind = "done" /\ m = o.mail
      <4>1. f[m].st = "in_progress"
        BY <3>3, <1>1 DEF CallsInv, CallInv, Writes
      <4>2. g[m].st = "done"
        BY <3>3, <1>1 DEF NewContent, Files, Cells
      <4>3. StatusOf(m) = "in_progress" /\ StatusOf(m)' = "done"
        BY <4>1, <4>2, <2>a
      <4> QED
        BY <3>1, <4>3, <1>11 DEF Accounted
    <3>4. CASE ~(o.kind \in {"send", "done"} /\ m = o.mail)
      <4>1. g[m] = f[m]
        BY <2>3, <3>4, <1>1, OpsKinds DEF NewContent, Files
      <4>2. m \in accepted' <=> m \in accepted
        BY <3>4, <1>6
      <4> QED
        BY <3>1, <4>1, <4>2, <2>a, <1>11
    <3> QED
      BY <3>2, <3>3, <3>4
  <2> QED
    BY <2>1, <2>2, <2>3
<1>18. \A q \in Procs : \A m \in held'[q] : g[m].st # "unread" \/ resets'[m] > 0
  <2> SUFFICES ASSUME NEW q \in Procs, NEW m \in held'[q], g[m].st = "unread"
               PROVE  resets'[m] > 0
    OBVIOUS
  <2>1. m \in held[q] /\ m \in Mails
    BY <1>1, <1>6, <1>8
  <2>2. CASE m \in taken
    BY <2>1, <2>2, <1>6, <1>11
  <2>3. CASE m \notin taken
    <3>1. f[m].st = "unread"
      BY <2>1, <2>3, <1>7, <1>9, <1>12
    <3>2. resets[m] > 0 /\ resets'[m] = resets[m]
      BY <2>1, <2>3, <3>1, <1>6, <1>13
    <3> QED
      BY <3>2
  <2> QED
    BY <2>2, <2>3
<1>19. SharedOnlyAfterReset'
  <2> SUFFICES ASSUME NEW a \in Procs, NEW b \in Procs, a # b,
                      NEW m \in held'[a] \intersect held'[b]
               PROVE  resets'[m] > 0
    BY DEF SharedOnlyAfterReset
  <2>1. m \in Mails
    BY <1>1, <1>6, <1>8
  <2>2. CASE m \in held[a] /\ m \in held[b]
    BY <2>1, <2>2, <1>6, <1>11 DEF HandedInv, SharedOnlyAfterReset
  <2>3. CASE ~(m \in held[a] /\ m \in held[b])
    <3>1. m \in got /\ \E q \in Procs : m \in held[q]
      BY <2>3, <1>6
    <3>2. resets[m] > 0
      BY <3>1, <1>8, <1>13
    <3> QED
      BY <2>1, <3>2, <1>6, <1>11
  <2> QED
    BY <2>2, <2>3
<1> QED
  BY <1>4, <1>5, <1>15, <1>16, <1>17, <1>18, <1>19, <1>b DEF HandedInv

(* The death of the host takes what its threads hold, and a file that was   *)
(* truncated is empty from then on.                                         *)
LEMMA CrashHands == CallsInv /\ HandedInv /\ Crash => HandedInv'
<1> SUFFICES ASSUME CallsInv, HandedInv, Crash PROVE HandedInv'
  OBVIOUS
<1>1. /\ file' = file /\ sent' = sent
      /\ deliveries' = deliveries /\ resets' = resets /\ accepted' = accepted
  BY DEF Crash, hist
<1>2. \A p \in Procs :
        /\ p \in Host => pc'[p] = "idle" /\ held'[p] = {}
        /\ p \notin Host => /\ pc'[p] = pc[p] /\ op'[p] = op[p]
                          /\ snap'[p] = snap[p] /\ held'[p] = held[p]
  BY DEF Crash
<1>3. \A m \in Mails : Logical'[m] = Logical[m] \/ Logical'[m].st = "absent"
  <2>1. CASE \E p \in Procs : pc[p] = "fill"
    <3>1. PICK p \in Procs : pc[p] = "fill"
      BY <2>1
    <3>2. /\ Logical = snap[p] /\ file = EmptyFile
          /\ \A q \in Procs : q # p => pc[q] = "idle"
      BY <3>1, LogicalWhenFilling, Alone DEF CallsInv, CallInv
    <3>3. CASE p \in Host
      <4>1. \A q \in Procs : pc'[q] # "fill"
        BY <3>2, <3>3, <1>2
      <4>2. Logical' = EmptyFile
        BY <4>1, <3>2, <1>1, LogicalOfFile DEF Logical
      <4> QED
        BY <4>2 DEF EmptyFile, Absent
    <3>4. CASE p \notin Host
      <4>1. pc'[p] = "fill" /\ snap'[p] = snap[p] /\ \A q \in Procs : pc'[q] = "fill" => q = p
        BY <3>1, <3>2, <3>4, <1>2
      <4>2. Logical' = snap'[p]
        BY <4>1, LogicalOfFiller DEF Logical
      <4> QED
        BY <4>1, <4>2, <3>2
    <3> QED
      BY <3>3, <3>4
  <2>2. CASE \A p \in Procs : pc[p] # "fill"
    <3>1. \A p \in Procs : pc'[p] # "fill"
      BY <2>2, <1>2
    <3>2. Logical = file /\ Logical' = file'
      BY <2>2, <3>1, LogicalOfFile DEF Logical
    <3> QED
      BY <3>2, <1>1
  <2> QED
    BY <2>1, <2>2
<1>4. /\ \A m \in Mails : PendingSend(m)' => PendingSend(m)
      /\ \A p \in Procs : held'[p] \subseteq held[p]
  BY <1>2 DEF PendingSend
<1> QED
  BY <1>1, <1>3, <1>4, HandedQuietly

(* Every step keeps it.                                                     *)
LEMMA HandedStep ==
  ASSUME ~CliOverlaps, CallsInv, HandedInv, [Next]_vars
  PROVE  HandedInv'
<1>a. /\ op \in [Procs -> Ops] /\ pc \in [Procs -> {"idle", "load", "truncate", "fill"}]
      /\ held \in [Procs -> SUBSET Mails]
  BY DEF CallsInv, TypeOK
<1>1. ASSUME NEW p \in Procs, NEW o \in Ops, Begin(p, o) PROVE HandedInv'
  <2>1. Logical' = Logical
    BY <1>1, BeginAlone, QuietContent
  <2>2. /\ held' = held /\ deliveries' = deliveries /\ resets' = resets /\ accepted' = accepted
        /\ sent \subseteq sent'
    BY <1>1 DEF Begin, hist
  <2>3. ASSUME NEW m \in Mails, PendingSend(m)' PROVE PendingSend(m) \/ m \notin sent
    <3>1. PICK q \in Procs : pc'[q] # "idle" /\ op'[q].kind = "send" /\ op'[q].mail = m
      BY <2>3 DEF PendingSend
    <3>2. CASE q = p
      BY <3>1, <3>2, <1>1, <1>a DEF Begin
    <3>3. CASE q # p
      BY <3>1, <3>3, <1>1, <1>a DEF Begin, PendingSend
    <3> QED
      BY <3>2, <3>3
  <2> QED
    BY <2>1, <2>2, <2>3, HandedQuietly
<1>2. ASSUME NEW p \in Procs, Load(p) \/ Truncate(p) PROVE HandedInv'
  <2>1. Logical' = Logical
    BY <1>2, QuietContent
  <2>2. /\ held' = held /\ deliveries' = deliveries /\ resets' = resets /\ accepted' = accepted
        /\ sent' = sent
    BY <1>2 DEF Load, Truncate, hist
  <2>3. ASSUME NEW m \in Mails, PendingSend(m)' PROVE PendingSend(m)
    <3>1. PICK q \in Procs : pc'[q] # "idle" /\ op'[q].kind = "send" /\ op'[q].mail = m
      BY <2>3 DEF PendingSend
    <3>2. pc[q] # "idle" /\ op'[q] = op[q]
      BY <3>1, <1>2, <1>a DEF Load, Truncate, Return
    <3> QED
      BY <3>1, <3>2 DEF PendingSend
  <2> QED
    BY <2>1, <2>2, <2>3, HandedQuietly
<1>3. ASSUME NEW p \in Procs, Abandon(p) PROVE HandedInv'
  <2>1. /\ Logical' = Logical /\ deliveries' = deliveries /\ resets' = resets
        /\ accepted' = accepted /\ sent' = sent /\ pc' = pc /\ op' = op
        /\ \A q \in Procs : held'[q] \subseteq held[q]
    BY <1>3, <1>a DEF Abandon, hist, Logical
  <2> QED
    BY <2>1, HandedQuietly DEF PendingSend
<1>4. CASE Tick \/ UNCHANGED vars
  <2>1. /\ Logical' = Logical /\ deliveries' = deliveries /\ resets' = resets
        /\ accepted' = accepted /\ sent' = sent /\ pc' = pc /\ op' = op /\ held' = held
    BY <1>4 DEF Tick, vars, hist, Logical
  <2> QED
    BY <2>1, HandedQuietly DEF PendingSend
<1> QED
  BY <1>1, <1>2, <1>3, <1>4, FillHands, CrashHands DEF Next, Step

(* What the death of the host leaves is the mailbox it found or, if one of  *)
(* its threads was between truncation and write, an empty one.              *)
LEMMA CrashMaps ==
  ASSUME CallsInv, HandedInv, Crash
  PROVE  Abs!Crash(Host)
<1>1. /\ file' = file /\ now' = now /\ deliveries' = deliveries
      /\ resets' = resets /\ accepted' = accepted
      /\ held' = [p \in Procs |-> IF p \in Host THEN {} ELSE held[p]]
  BY DEF Crash, hist
<1>2. \A p \in Procs :
        /\ p \in Host => pc'[p] = "idle"
        /\ p \notin Host => pc'[p] = pc[p] /\ snap'[p] = snap[p]
  BY DEF Crash
<1> DEFINE st == [m \in Mails |-> StatusOf(m)]
           ps == [m \in Mails |-> Logical[m].ps]
<1>3. \/ st' = st /\ ps' = ps
      \/ /\ st' = [m \in Mails |-> IF st[m] = "absent" THEN "absent" ELSE "lost"]
         /\ ps' = [m \in Mails |-> 0]
  <2>1. CASE \E p \in Host : pc[p] = "fill"
    <3>1. PICK p \in Host : pc[p] = "fill"
      BY <2>1
    <3>2. p \in Procs /\ file = EmptyFile /\ \A q \in Procs : q # p => pc[q] = "idle"
      BY <3>1, Alone DEF CallsInv, CallInv, Procs
    <3>3. \A q \in Procs : pc'[q] # "fill"
      BY <1>2, <3>2
    <3>4. Logical' = EmptyFile
      BY <1>1, <3>2, <3>3, LogicalOfFile DEF Logical
    <3>5. \A m \in Mails : /\ StatusOf(m)' = IF m \in accepted THEN "lost" ELSE "absent"
                           /\ Logical'[m].ps = 0
      BY <1>1, <3>4 DEF StatusOf, EmptyFile, Absent
    <3>6. \A m \in Mails : StatusOf(m) = "absent" <=> m \notin accepted
      BY DEF StatusOf, HandedInv
    <3> QED
      BY <3>5, <3>6
  <2>2. CASE \A p \in Host : pc[p] # "fill"
    <3>1. Logical' = Logical
      <4>1. CASE \E p \in Procs : pc[p] = "fill"
        <5>1. PICK p \in Procs : pc[p] = "fill"
          BY <4>1
        <5>2. p \notin Host /\ \A q \in Procs : q # p => pc[q] = "idle"
          BY <5>1, <2>2, Alone
        <5>3. pc'[p] = "fill" /\ snap'[p] = snap[p] /\ \A q \in Procs : pc'[q] = "fill" => q = p
          BY <1>2, <5>1, <5>2
        <5> QED
          BY <5>1, <5>2, <5>3, LogicalWhenFilling, LogicalOfFiller DEF Logical
      <4>2. CASE \A p \in Procs : pc[p] # "fill"
        BY <1>1, <1>2, <4>2, LogicalOfFile DEF Logical
      <4> QED
        BY <4>1, <4>2
    <3> QED
      BY <1>1, <3>1 DEF StatusOf
  <2> QED
    BY <2>1, <2>2
<1> QED
  BY <1>1, <1>3 DEF Abs!Crash

(* So every step with CLI calls and crashes is a mailbox step or a stutter. *)
LEMMA StepMaps ==
  ASSUME ~CliOverlaps, CallsInv, HandedInv, [Next]_vars
  PROVE  [Abs!Next]_(Abs!mvars)
<1>1. ASSUME NEW p \in Procs, NEW o \in Ops, Begin(p, o)
      PROVE  UNCHANGED Abs!mvars
  BY <1>1, BeginAlone, QuietSteps
<1>2. ASSUME NEW p \in Procs, pc[p] = "fill", op[p].kind = "send"
      PROVE  op[p].mail \notin accepted
  <2>1. op[p].mail \in Mails
    BY <1>2, OpsKinds DEF CallsInv, TypeOK
  <2> QED
    BY <1>2, <2>1 DEF HandedInv, PendingSend
<1>3. CASE Crash
  <2>1. Abs!Crash(Host)
    BY <1>3, CrashMaps
  <2>2. Host \in SUBSET Procs
    BY DEF Procs
  <2> QED
    BY <2>1, <2>2 DEF Abs!Next
<1> QED
  BY <1>1, <1>2, <1>3, CallMaps, TickMaps DEF Next

-----------------------------------------------------------------------------
(* The FileLock excludes: at most one host thread is between load and       *)
(* write, and it holds the lock.                                            *)
THEOREM HostExclusion == HostSpec => []LockExclusion
<1>1. HostInv => LockExclusion
  BY DEF HostInv, CallsInv
<1> QED
  BY <1>1, CallsInvInit, HostInvStep, PTL DEF HostSpec

(* Host threads never leave the inbox in a state that does not parse.       *)
THEOREM HostNeverTorn == HostSpec => []~torn
<1>1. HostInv => ~torn
  BY DEF HostInv
<1> QED
  BY <1>1, CallsInvInit, HostInvStep, PTL DEF HostSpec

(* Host threads never lose a message whose send returned.                   *)
THEOREM HostKeepsMail == HostSpec => []AcceptedMailKept
<1>1. Init => AcceptedMailKept
  BY DEF Init, AcceptedMailKept
<1> QED
  BY <1>1, CallsInvInit, HostInvStep, HostKeeps, PTL DEF HostSpec

(* Lock, load, truncate and write together are the atomic three-state       *)
(* mailbox of the documentation, for any number of threads and messages.    *)
THEOREM HostImplementsMailbox == HostSpec => ImplementsMailbox
<1>1. HostInv /\ AcceptedMailKept /\ [HostNext]_vars => [Abs!Next]_(Abs!mvars)
  BY HostStepMaps
<1> QED
  BY InitMaps, CallsInvInit, HostInvStep, HostKeepsMail, <1>1, PTL
     DEF HostSpec, ImplementsMailbox, Abs!Spec

(* With sandbox processes that run beside nothing and a host that may die,  *)
(* the invariant still holds: types, ...                                    *)
THEOREM CallsInvariant ==
  ASSUME ~CliOverlaps
  PROVE  Spec => []CallsInv
<1>1. Init => CallsInv
  BY CallsInvInit DEF HostInv
<1>2. CallsInv /\ [Next]_vars => CallsInv'
  BY CallsInvStep
<1> QED
  BY <1>1, <1>2, PTL DEF Spec

(* ... the FileLock excludes, also across crashes, ...                      *)
THEOREM LockExcludes ==
  ASSUME ~CliOverlaps
  PROVE  Spec => []LockExclusion
<1>1. CallsInv => LockExclusion
  BY DEF CallsInv
<1> QED
  BY <1>1, CallsInvariant, PTL

(* ... the inbox parses unless the host's death left a part of a write.     *)
THEOREM InboxParses ==
  ASSUME ~CliOverlaps
  PROVE  Spec => OnlyACrashTears
<1>1. CallsInv /\ [Next]_vars => [torn' => torn \/ crashes' > crashes]_vars
  <2> SUFFICES ASSUME CallsInv, [Next]_vars, torn'
               PROVE  torn \/ crashes' > crashes
    OBVIOUS
  <2>1. ASSUME NEW p \in Procs, Step(p) PROVE torn
    BY <2>1, StepTearsNothing
  <2>2. Crash => crashes' > crashes
    BY DEF Crash, CallsInv, TypeOK
  <2> QED
    BY <2>1, <2>2 DEF Next, Begin, Abandon, Tick, vars
<1> QED
  BY <1>1, CallsInvariant, PTL DEF Spec, OnlyACrashTears

(* A message whose send returned is lost only to a crash of the host.       *)
THEOREM LossNeedsACrash ==
  ASSUME ~CliOverlaps
  PROVE  Spec => []LossTakesACrash
<1>1. Init => LossTakesACrash
  BY DEF Init, LossTakesACrash, AcceptedMailKept
<1>2. CallsInv /\ LossTakesACrash /\ [Next]_vars => LossTakesACrash'
  BY LossStep
<1> QED
  BY <1>1, <1>2, CallsInvariant, PTL DEF Spec

(* Who was handed what is an invariant, through any number of crashes.      *)
THEOREM HandedInvariant ==
  ASSUME ~CliOverlaps
  PROVE  Spec => []HandedInv
<1>1. CallsInv /\ HandedInv /\ [Next]_vars => HandedInv'
  BY HandedStep
<1> QED
  BY <1>1, HandedInit, CallsInvariant, PTL DEF Spec

(* Every step of host and CLI is a step of the promised mailbox, and so is  *)
(* the death of the host, wherever it hits a call.                          *)
THEOREM CodeImplementsMailbox ==
  ASSUME ~CliOverlaps
  PROVE  Spec => ImplementsMailbox
<1>1. CallsInv /\ HandedInv /\ [Next]_vars => [Abs!Next]_(Abs!mvars)
  BY StepMaps
<1> QED
  BY InitMaps, CallsInvariant, HandedInvariant, <1>1, PTL
     DEF Spec, ImplementsMailbox, Abs!Spec

(* Whoever crashes, a message was handed out once for its claim and once    *)
(* per reset, although read_inbox claims it in the file before the turn has *)
(* seen it.                                                                 *)
THEOREM HandedOutOnce ==
  ASSUME ~CliOverlaps
  PROVE  Spec => []DeliveryLedger
<1>1. HandedInv => DeliveryLedger
  BY DEF HandedInv, Accounted, DeliveryLedger, Abs!DeliveryLedger
<1> QED
  BY <1>1, HandedInvariant, PTL

(* Whoever crashes, host threads and CLI processes share a message only     *)
(* after reset_stale took it back.                                          *)
THEOREM SharingTakesAReset ==
  ASSUME ~CliOverlaps
  PROVE  Spec => []SharedOnlyAfterReset
<1>1. HandedInv => SharedOnlyAfterReset
  BY DEF HandedInv
<1> QED
  BY <1>1, CallsInvariant, HandedInvariant, PTL

-----------------------------------------------------------------------------
(***************************************************************************)
(* The promised mailbox itself, module Mailbox, for any messages and any   *)
(* readers.  It shares the names of the file's variables; status and since *)
(* are its own.                                                            *)
(***************************************************************************)
CONSTANT Readers
VARIABLES status, since

Promise == INSTANCE Mailbox

(* The state every operation of mailbox.py finds and leaves is well typed.  *)
THEOREM PromiseTypes == Promise!Spec => []Promise!TypeOK
<1>1. Promise!Init => Promise!TypeOK
  BY DEF Promise!Init, Promise!TypeOK, Promise!Statuses
<1>2. Promise!TypeOK /\ [Promise!Next]_(Promise!mvars) => Promise!TypeOK'
  <2> SUFFICES ASSUME Promise!TypeOK, [Promise!Next]_(Promise!mvars) PROVE Promise!TypeOK'
    OBVIOUS
  <2> USE DEF Promise!TypeOK, Promise!Statuses
  <2>1. ASSUME NEW m \in Mails, Promise!SendMail(m) PROVE Promise!TypeOK'
    BY <2>1 DEF Promise!SendMail, Promise!InitialStatus
  <2>2. ASSUME NEW r \in Readers, Promise!ReadInbox(r) PROVE Promise!TypeOK'
    <3>1. PICK t \in 1..now :
            since' = [m \in Mails |-> IF m \in Promise!Unread THEN t ELSE since[m]]
      BY <2>2 DEF Promise!ReadInbox
    <3>2. since' \in [Mails -> Nat]
      BY <3>1
    <3>3. Promise!Unread \subseteq Mails
      BY DEF Promise!Unread
    <3>4. held' \in [Readers -> SUBSET Mails]
      BY <2>2, <3>3 DEF Promise!ReadInbox
    <3>5. deliveries' \in [Mails -> Nat]
      BY <2>2 DEF Promise!ReadInbox
    <3> QED
      BY <2>2, <3>2, <3>4, <3>5 DEF Promise!ReadInbox
  <2>3. ASSUME NEW r \in Readers, NEW m \in Mails, Promise!MarkDone(r, m)
        PROVE Promise!TypeOK'
    BY <2>3 DEF Promise!MarkDone
  <2>4. CASE Promise!ResetStale
    <3>1. PICK S \in SUBSET Mails :
            /\ status' = [m \in Mails |-> IF m \in S THEN "unread"
                                                     ELSE status[m]]
            /\ since' = [m \in Mails |-> IF m \in S THEN 0 ELSE since[m]]
            /\ resets' = [m \in Mails |-> IF m \in S THEN resets[m] + 1
                                                     ELSE resets[m]]
            /\ UNCHANGED <<now, held, deliveries>>
      BY <2>4 DEF Promise!ResetStale
    <3> QED
      BY <3>1
  <2>5. ASSUME NEW r \in Readers, Promise!Abandon(r) PROVE Promise!TypeOK'
    BY <2>5 DEF Promise!Abandon
  <2>6. ASSUME NEW R \in SUBSET Readers, Promise!Crash(R) PROVE Promise!TypeOK'
    BY <2>6 DEF Promise!Crash
  <2>7. CASE Promise!Tick
    BY <2>7 DEF Promise!Tick
  <2>8. CASE UNCHANGED Promise!mvars
    BY <2>8 DEF Promise!mvars
  <2> QED
    BY <2>1, <2>2, <2>3, <2>4, <2>5, <2>6, <2>7, <2>8 DEF Promise!Next
<1> QED
  BY <1>1, <1>2, PTL DEF Promise!Spec

-----------------------------------------------------------------------------
(* The ledger is inductive by itself: an operation changes a message's      *)
(* counters exactly when it moves the message into or out of a claim, and a *)
(* message that was lost takes no part any more.                            *)
THEOREM PromiseLedger == Promise!Spec => []Promise!DeliveryLedger
<1>0. /\ Promise!DeliveryLedger
           <=> \A m \in Mails : Accounted(status[m], deliveries[m], resets[m])
      /\ Promise!DeliveryLedger'
           <=> \A m \in Mails : Accounted(status'[m], deliveries'[m], resets'[m])
  BY DEF Promise!DeliveryLedger, Accounted
<1>1. Promise!Init => Promise!DeliveryLedger
  <2> SUFFICES ASSUME Promise!Init, NEW m \in Mails
               PROVE  Accounted(status[m], deliveries[m], resets[m])
    BY <1>0
  <2>1. status[m] = "absent" /\ deliveries[m] = 0 /\ resets[m] = 0
    BY DEF Promise!Init
  <2> QED
    BY <2>1 DEF Accounted
<1>2. Promise!TypeOK /\ Promise!DeliveryLedger /\ [Promise!Next]_(Promise!mvars) => Promise!DeliveryLedger'
  <2> SUFFICES ASSUME Promise!TypeOK, [Promise!Next]_(Promise!mvars), NEW m \in Mails,
                      Accounted(status[m], deliveries[m], resets[m])
               PROVE  Accounted(status'[m], deliveries'[m], resets'[m])
    BY <1>0
  <2> USE DEF Accounted
  <2>a. status[m] \in Promise!Statuses /\ deliveries[m] \in Nat /\ resets[m] \in Nat
        /\ status \in [Mails -> Promise!Statuses]
    BY DEF Promise!TypeOK
  <2>1. ASSUME NEW k \in Mails, Promise!SendMail(k)
        PROVE  Accounted(status'[m], deliveries'[m], resets'[m])
    BY <2>1, <2>a DEF Promise!SendMail, Promise!InitialStatus
  <2>2. ASSUME NEW r \in Readers, Promise!ReadInbox(r)
        PROVE  Accounted(status'[m], deliveries'[m], resets'[m])
    <3>1. CASE status[m] = "unread"
      <4>1. deliveries'[m] = deliveries[m] + 1 /\ resets'[m] = resets[m]
            /\ status'[m] = "in_progress"
        BY <2>2, <3>1, <2>a DEF Promise!ReadInbox, Promise!Unread, Promise!TypeOK
      <4> QED
        BY <3>1, <4>1, <2>a
    <3>2. CASE status[m] # "unread"
      BY <2>2, <3>2 DEF Promise!ReadInbox, Promise!Unread
    <3> QED
      BY <3>1, <3>2
  <2>3. ASSUME NEW r \in Readers, NEW k \in Mails, Promise!MarkDone(r, k)
        PROVE  Accounted(status'[m], deliveries'[m], resets'[m])
    BY <2>3, <2>a DEF Promise!MarkDone, Promise!Acknowledgeable
  <2>4. CASE Promise!ResetStale
    <3>1. PICK S \in SUBSET Mails :
            /\ \A k \in S : status[k] = "in_progress"
            /\ status' = [k \in Mails |-> IF k \in S THEN "unread"
                                                     ELSE status[k]]
            /\ resets' = [k \in Mails |-> IF k \in S THEN resets[k] + 1
                                                     ELSE resets[k]]
            /\ deliveries' = deliveries
      BY <2>4 DEF Promise!ResetStale
    <3>2. CASE m \in S
      BY <3>1, <3>2, <2>a
    <3>3. CASE m \notin S
      BY <3>1, <3>3
    <3> QED
      BY <3>2, <3>3
  <2>5. ASSUME NEW R \in SUBSET Readers, Promise!Crash(R)
        PROVE  Accounted(status'[m], deliveries'[m], resets'[m])
    BY <2>5, <2>a DEF Promise!Crash
  <2>6. CASE UNCHANGED <<status, deliveries, resets>>
    BY <2>6
  <2> QED
    BY <2>1, <2>2, <2>3, <2>4, <2>5, <2>6 DEF Promise!Next, Promise!mvars, Promise!Abandon, Promise!Tick
<1> QED
  BY <1>1, <1>2, PromiseTypes, PTL DEF Promise!Spec

-----------------------------------------------------------------------------
(* Promise!SharedOnlyAfterReset is not inductive: a message read by a second reader *)
(* must have been unread while the first still held it, and HeldIsClaimed   *)
(* says that takes a reset.                                                 *)
HeldIsClaimed ==
  \A r \in Readers : \A m \in held[r] :
    status[m] \in {"in_progress", "done", "lost"} \/ resets[m] > 0

HoldingInv == HeldIsClaimed /\ Promise!SharedOnlyAfterReset

(* Two turns of a role share a message only after reset_stale took it back  *)
(* from the first: read_inbox never hands out a claimed message.            *)
THEOREM PromiseSharing == Promise!Spec => []Promise!SharedOnlyAfterReset
<1>1. Promise!Init => HoldingInv
  BY DEF Promise!Init, HoldingInv, HeldIsClaimed, Promise!SharedOnlyAfterReset
<1>2. Promise!TypeOK /\ HoldingInv /\ [Promise!Next]_(Promise!mvars) => HoldingInv'
  <2> SUFFICES ASSUME Promise!TypeOK, HoldingInv, [Promise!Next]_(Promise!mvars) PROVE HoldingInv'
    OBVIOUS
  <2> USE DEF Promise!TypeOK, Promise!Statuses, HoldingInv, HeldIsClaimed,
              Promise!SharedOnlyAfterReset
  <2>1. ASSUME NEW m \in Mails, Promise!SendMail(m) PROVE HoldingInv'
    BY <2>1 DEF Promise!SendMail, Promise!InitialStatus
  <2>2. ASSUME NEW r \in Readers, Promise!ReadInbox(r) PROVE HoldingInv'
    <3>1. \A m \in Promise!Unread : m \in Mails /\ status[m] = "unread"
      BY DEF Promise!Unread
    <3>2. resets' = resets
      BY <2>2 DEF Promise!ReadInbox
    <3>3. \A q \in Readers : held'[q] = IF q = r THEN held[r] \union Promise!Unread
                                                 ELSE held[q]
      BY <2>2 DEF Promise!ReadInbox
    <3>4. \A m \in Mails : status'[m] = IF m \in Promise!Unread THEN "in_progress"
                                                        ELSE status[m]
      BY <2>2 DEF Promise!ReadInbox
    <3>5. HeldIsClaimed'
      BY <3>1, <3>2, <3>3, <3>4
    <3>6. Promise!SharedOnlyAfterReset'
      <4> SUFFICES ASSUME NEW a \in Readers, NEW b \in Readers, a # b,
                          NEW m \in held'[a] \intersect held'[b]
                   PROVE resets[m] > 0
        BY <3>2
      <4>1. CASE m \in Promise!Unread
        <5>1. PICK q \in {a, b} : q # r /\ m \in held[q]
          BY <3>3
        <5> QED
          BY <5>1, <4>1, <3>1
      <4>2. CASE m \notin Promise!Unread
        BY <3>3, <4>2
      <4> QED
        BY <4>1, <4>2
    <3> QED
      BY <3>5, <3>6
  <2>3. ASSUME NEW r \in Readers, NEW m \in Mails, Promise!MarkDone(r, m)
        PROVE HoldingInv'
    BY <2>3 DEF Promise!MarkDone
  <2>4. CASE Promise!ResetStale
    <3>1. PICK S \in SUBSET Mails :
            /\ status' = [k \in Mails |-> IF k \in S THEN "unread"
                                                     ELSE status[k]]
            /\ resets' = [k \in Mails |-> IF k \in S THEN resets[k] + 1
                                                     ELSE resets[k]]
            /\ held' = held
      BY <2>4 DEF Promise!ResetStale
    <3>2. \A k \in Mails : resets[k] > 0 \/ k \in S => resets'[k] > 0
      BY <3>1
    <3> QED
      BY <3>1, <3>2
  <2>5. ASSUME NEW r \in Readers, Promise!Abandon(r) PROVE HoldingInv'
    BY <2>5 DEF Promise!Abandon
  <2>6. ASSUME NEW R \in SUBSET Readers, Promise!Crash(R) PROVE HoldingInv'
    <3>1. resets' = resets /\ \A r \in Readers : held'[r] \subseteq held[r]
      BY <2>6 DEF Promise!Crash
    <3>2. \A m \in Mails : status[m] \in {"in_progress", "done", "lost"}
                           => status'[m] \in {"in_progress", "done", "lost"}
      BY <2>6 DEF Promise!Crash
    <3> QED
      BY <3>1, <3>2
  <2>7. CASE UNCHANGED <<status, held, resets>>
    BY <2>7
  <2> QED
    BY <2>1, <2>2, <2>3, <2>4, <2>5, <2>6, <2>7 DEF Promise!Next, Promise!mvars, Promise!Tick
<1>3. HoldingInv => Promise!SharedOnlyAfterReset
  BY DEF HoldingInv
<1> QED
  BY <1>1, <1>2, <1>3, PromiseTypes, PTL DEF Promise!Spec
=============================================================================
