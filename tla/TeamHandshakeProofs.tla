------------------------ MODULE TeamHandshakeProofs ------------------------
(***************************************************************************)
(* Proofs about the handshake, for any roles, mails and bounds: an unread  *)
(* mail is covered while nothing fails; inboxes, wakes, queues and turns,  *)
(* as failures and crashes leave them, keep what Mailbox, WakeBook and     *)
(* Dispatch promise.                                                       *)
(***************************************************************************)
EXTENDS TeamHandshake, TLAPS

(* What the turn holds: it is in the middle of a send, or has mail in its   *)
(* hands, only at work; that mail is its own role's, read and not           *)
(* acknowledged.                                                            *)
TurnInv ==
  /\ turn = NoOne \/ phase = "kickoff" => hand = {} /\ sending = NoOne
  /\ \A m \in hand : To[m] = RoleOf(turn) /\ box[m] = "in_progress"

(* The inductive invariant.                                                 *)
HandshakeInv ==
  /\ TypeOK
  /\ TurnInv
  /\ UnreadIsCovered

(* A routing key is served by a role.                                       *)
LEMMA RoleOfType == \A k \in Keys : RoleOf(k) \in Roles
BY TeamHandshakeAssumption DEF Keys, RoleOf

(* No routing key is nobody.                                                *)
LEMMA NoKeyIsNoOne == NoOne \notin Keys /\ NoOne \notin Mails
BY TeamHandshakeAssumption DEF Keys

-----------------------------------------------------------------------------
(* Types.                                                                   *)
LEMMA TypeInit == Init => TypeOK
BY TeamHandshakeAssumption DEF Init, TypeOK, Texts

LEMMA TypeStep == TypeOK /\ [Next]_vars => TypeOK'
<1> SUFFICES ASSUME TypeOK, [Next]_vars PROVE TypeOK'
  OBVIOUS
<1> USE TeamHandshakeAssumption DEF TypeOK
<1>1. CASE Ask
  <2>1. queue' \in [Keys -> Seq(Texts)]
    BY <1>1 DEF Ask, Keys, Texts
  <2> QED
    BY <1>1, <2>1 DEF Ask, faults
<1>2. ASSUME NEW r \in Roles, Beat(r) PROVE TypeOK'
  <2>1. queue' \in [Keys -> Seq(Texts)]
    BY <1>2 DEF Beat, Keys, Texts
  <2> QED
    BY <1>2, <2>1 DEF Beat, faults
<1>3. ASSUME NEW r \in Roles, Ripen(r) PROVE TypeOK'
  BY <1>3 DEF Ripen, faults
<1>4. ASSUME NEW r \in Roles, Fire(r) PROVE TypeOK'
  <2>1. queue' \in [Keys -> Seq(Texts)]
    BY <1>4 DEF Fire, WakeText, Keys, Texts
  <2>2. wakes' \subseteq wakes
    BY <1>4 DEF Fire
  <2> QED
    BY <1>4, <2>1, <2>2 DEF Fire, faults
<1>5. ASSUME NEW k \in Keys, StartTurn(k) PROVE TypeOK'
  <2>1. queue[k] \in Seq(Texts) /\ queue[k] # <<>>
    BY <1>5 DEF StartTurn
  <2>2. Head(queue[k]) \in Texts /\ Tail(queue[k]) \in Seq(Texts)
    BY <2>1
  <2>3. queue' \in [Keys -> Seq(Texts)]
    BY <1>5, <2>2 DEF StartTurn
  <2> QED
    BY <1>5, <2>2, <2>3 DEF StartTurn, faults
<1>6. CASE Kickoff
  <2>1. box' \in [Mails -> {"absent", "unread", "in_progress", "done"}]
    BY <1>6 DEF Kickoff, NoTurn
  <2>2. hand' \in SUBSET Mails
    BY <1>6 DEF Kickoff, NoTurn, UnreadOf
  <2>3. /\ turn' \in Keys \union {NoOne} /\ text' \in Texts
        /\ phase' \in {"kickoff", "work"} /\ sending' \in Mails \union {NoOne}
    BY <1>6 DEF Kickoff, NoTurn, Texts
  <2> QED
    BY <1>6, <2>1, <2>2, <2>3 DEF Kickoff, faults
<1>7. CASE ScheduleWake
  <2>1. sending \in Mails /\ To[sending] \in Roles
    BY <1>7 DEF ScheduleWake
  <2> QED
    BY <1>7, <2>1 DEF ScheduleWake, faults
<1>8. CASE EndTurn
  BY <1>8 DEF EndTurn, NoTurn, faults, Texts
<1>9. ASSUME NEW m \in Mails, MarkDone(m) PROVE TypeOK'
  BY <1>9 DEF MarkDone, faults
<1>10. ASSUME NEW m \in Mails, SendMail(m) PROVE TypeOK'
  BY <1>10 DEF SendMail, faults
<1>11. CASE ScheduleFails
  BY <1>11 DEF ScheduleFails
<1>12. CASE FailTurn
  BY <1>12 DEF FailTurn, NoTurn, Texts
<1>13. CASE Crash
  <2>1. queue' \in [Keys -> Seq(Texts)]
    BY <1>13 DEF Crash
  <2> QED
    BY <1>13, <2>1 DEF Crash, NoTurn, Texts
<1>14. CASE UNCHANGED vars
  BY <1>14 DEF vars, faults
<1> QED
  BY <1>1, <1>2, <1>3, <1>4, <1>5, <1>6, <1>7, <1>8, <1>9, <1>10, <1>11,
     <1>12, <1>13, <1>14 DEF Next, TurnStep

(* What a turn holds stays its own.                                         *)
LEMMA TurnInvStep == TypeOK /\ TurnInv /\ [Next]_vars => TurnInv'
<1> SUFFICES ASSUME TypeOK, TurnInv, [Next]_vars PROVE TurnInv'
  OBVIOUS
<1>1. CASE UNCHANGED <<box, turn, phase, hand, sending>>
  BY <1>1 DEF TurnInv, RoleOf
<1>2. CASE NoTurn
  BY <1>2 DEF NoTurn, TurnInv
<1>3. ASSUME NEW k \in Keys, StartTurn(k) PROVE TurnInv'
  BY <1>3 DEF StartTurn, TurnInv, RoleOf
<1>4. CASE Kickoff /\ NamesProject
  <2>1. /\ turn # NoOne /\ turn' = turn /\ phase' = "work"
        /\ hand' = UnreadOf(RoleOf(turn))
        /\ box' = [m \in Mails |-> IF m \in hand' THEN "in_progress" ELSE box[m]]
    BY <1>4 DEF Kickoff
  <2> QED
    BY <2>1 DEF TurnInv, UnreadOf, RoleOf
<1>5. ASSUME NEW m \in Mails, SendMail(m) PROVE TurnInv'
  <2>1. /\ turn # NoOne /\ phase = "work" /\ box[m] = "absent"
        /\ box' = [box EXCEPT ![m] = "unread"]
        /\ UNCHANGED <<turn, phase, hand>>
    BY <1>5 DEF SendMail, Working
  <2> QED
    BY <2>1 DEF TurnInv, RoleOf, TypeOK
<1>6. CASE ScheduleWake \/ ScheduleFails
  BY <1>6 DEF ScheduleWake, ScheduleFails, TurnInv, RoleOf
<1>7. ASSUME NEW m \in Mails, MarkDone(m) PROVE TurnInv'
  <2>1. /\ turn # NoOne /\ phase = "work" /\ hand' = hand \ {m}
        /\ box' = [box EXCEPT ![m] = "done"]
        /\ UNCHANGED <<turn, phase, sending>>
    BY <1>7 DEF MarkDone, Working
  <2> QED
    BY <2>1 DEF TurnInv, RoleOf, TypeOK
<1> QED
  BY <1>1, <1>2, <1>3, <1>4, <1>5, <1>6, <1>7
     DEF Next, TurnStep, Ask, Beat, Ripen, Fire, Kickoff, EndTurn, FailTurn,
         Crash, vars
-----------------------------------------------------------------------------
(* A queue holds a text that names a project.                               *)
Calls(s) == \E i \in DOMAIN s : s[i] # "heartbeat"

(* What is queued stays queued behind a new text, which is queued too.      *)
LEMMA CallsAppend ==
  ASSUME NEW s \in Seq(Texts), NEW x \in Texts, Calls(s) \/ x # "heartbeat"
  PROVE  Calls(Append(s, x))
<1>1. /\ DOMAIN Append(s, x) = 1..(Len(s) + 1) /\ DOMAIN s = 1..Len(s)
      /\ Len(s) \in Nat
      /\ Append(s, x)[Len(s) + 1] = x
      /\ \A i \in 1..Len(s) : Append(s, x)[i] = s[i]
  OBVIOUS
<1>2. CASE Calls(s)
  <2>1. PICK i \in 1..Len(s) : s[i] # "heartbeat"
    BY <1>1, <1>2 DEF Calls
  <2>2. i \in 1..(Len(s) + 1)
    BY <1>1
  <2> QED
    BY <1>1, <2>1, <2>2, Zenon DEF Calls
<1>3. CASE x # "heartbeat"
  <2>1. Len(s) + 1 \in 1..(Len(s) + 1)
    BY <1>1
  <2> QED
    BY <1>1, <1>3, <2>1, Zenon DEF Calls
<1> QED
  BY <1>2, <1>3

(* What is queued is at the head or behind it.                              *)
LEMMA CallsTail ==
  ASSUME NEW s \in Seq(Texts), Calls(s)
  PROVE  Head(s) # "heartbeat" \/ Calls(Tail(s))
<1>1. PICK i \in 1..Len(s) : s[i] # "heartbeat"
  BY DEF Calls
<1>2. CASE i = 1
  BY <1>1, <1>2
<1>3. CASE i # 1
  <2>1. s # <<>> /\ i - 1 \in 1..Len(Tail(s)) /\ Tail(s)[i - 1] = s[i]
    BY <1>1, <1>3
  <2>2. DOMAIN Tail(s) = 1..Len(Tail(s))
    BY <2>1
  <2> QED
    BY <1>1, <2>1, <2>2, Zenon DEF Calls
<1> QED
  BY <1>2, <1>3

(* The three places a call for a role can be in, apart from a send under    *)
(* way: on disk, in a queue, in a turn that has not read its inbox.         *)
OnDisk(r) == \E s \in {"waiting", "due"} : <<r, s>> \in wakes
Queued(r) == \E k \in Keys : RoleOf(k) = r /\ Calls(queue[k])
Starting(r) == /\ turn # NoOne /\ RoleOf(turn) = r
               /\ phase = "kickoff" /\ text # "heartbeat"
CalledFor(r) == OnDisk(r) \/ Queued(r) \/ Starting(r)

(* Being covered is a send under way or a call for the recipient.           *)
LEMMA CoveredBy == \A m \in Mails : Covered(m) <=> sending = m \/ CalledFor(To[m])
BY DEF Covered, CalledFor, OnDisk, Queued, Starting, Calls

(* Queues only grow at the end, but for the one a turn is started from.     *)
LEMMA QueuedGrows ==
  ASSUME TypeOK, NEW k \in Keys, NEW x \in Texts,
         queue' = [queue EXCEPT ![k] = Append(@, x)]
  PROVE  /\ \A r : Queued(r) => Queued(r)'
         /\ x # "heartbeat" => Queued(RoleOf(k))'
<1>1. /\ queue[k] \in Seq(Texts) /\ queue'[k] = Append(queue[k], x)
      /\ \A j \in Keys : j # k => queue'[j] = queue[j]
  BY DEF TypeOK
<1>2. \A j \in Keys : Calls(queue[j]) => Calls(queue'[j])
  BY <1>1, CallsAppend
<1>3. x # "heartbeat" => Calls(queue'[k])
  BY <1>1, CallsAppend
<1> QED
  BY <1>2, <1>3 DEF Queued, RoleOf

(* A call survives every step that does not fail, unless the step is the    *)
(* reading of the inbox it calls for.                                       *)
LEMMA CallSurvives ==
  ASSUME TypeOK, TurnInv, NEW r \in Roles, CalledFor(r),
         [Next]_vars, failures' = failures, crashes' = crashes,
         ~(Kickoff /\ NamesProject /\ RoleOf(turn) = r)
  PROVE  CalledFor(r)'
<1> USE DEF CalledFor
<1>1. CASE UNCHANGED <<wakes, queue, turn, text, phase>>
  BY <1>1 DEF OnDisk, Queued, Starting, RoleOf
<1>2. CASE Ask
  <2>1. Queued(r) => Queued(r)'
    BY <1>2, QueuedGrows DEF Ask, Keys, Texts
  <2> QED
    BY <1>2, <2>1 DEF Ask, OnDisk, Starting, RoleOf
<1>3. ASSUME NEW q \in Roles, Beat(q) PROVE CalledFor(r)'
  <2>1. Queued(r) => Queued(r)'
    BY <1>3, QueuedGrows DEF Beat, Keys, Texts
  <2> QED
    BY <1>3, <2>1 DEF Beat, OnDisk, Starting, RoleOf
<1>4. ASSUME NEW q \in Roles, Ripen(q) PROVE CalledFor(r)'
  <2>1. OnDisk(r) => OnDisk(r)'
    BY <1>4 DEF Ripen, OnDisk
  <2> QED
    BY <1>4, <2>1 DEF Ripen, Queued, Starting, RoleOf
<1>5. ASSUME NEW q \in Roles, Fire(q) PROVE CalledFor(r)'
  <2>1. /\ queue' = [queue EXCEPT ![q] = Append(@, "mail")]
        /\ wakes' = wakes \ {<<q, "due">>}
        /\ UNCHANGED <<turn, text, phase>>
    BY <1>5 DEF Fire, WakeText, SavedFired
  <2>2. q \in Keys /\ RoleOf(q) = q
    BY TeamHandshakeAssumption DEF Keys, RoleOf
  <2>3. (Queued(r) => Queued(r)') /\ Queued(q)'
    <3>1. "mail" \in Texts /\ "mail" # "heartbeat"
      BY DEF Texts
    <3>2. Queued(RoleOf(q))'
      BY <2>1, <2>2, <3>1, QueuedGrows
    <3>3. Queued(r) => Queued(r)'
      BY <2>1, <2>2, <3>1, QueuedGrows
    <3> QED
      BY <3>2, <3>3, <2>2
  <2>4. OnDisk(r) /\ r # q => OnDisk(r)'
    BY <2>1 DEF OnDisk
  <2>5. Starting(r) => Starting(r)'
    BY <2>1 DEF Starting, RoleOf
  <2> QED
    BY <2>3, <2>4, <2>5
<1>6. ASSUME NEW k \in Keys, StartTurn(k) PROVE CalledFor(r)'
  <2>1. /\ turn' = k /\ text' = Head(queue[k]) /\ phase' = "kickoff"
        /\ queue[k] \in Seq(Texts) /\ turn = NoOne
        /\ queue'[k] = Tail(queue[k]) /\ wakes' = wakes
        /\ \A j \in Keys : j # k => queue'[j] = queue[j]
    BY <1>6 DEF StartTurn, TypeOK
  <2>2. ASSUME Queued(r) PROVE CalledFor(r)'
    <3>1. PICK j \in Keys : RoleOf(j) = r /\ Calls(queue[j])
      BY <2>2 DEF Queued
    <3>2. CASE j # k
      BY <2>1, <3>1, <3>2 DEF Queued, RoleOf
    <3>3. CASE j = k
      <4>1. Head(queue[k]) # "heartbeat" \/ Calls(queue'[k])
        BY <2>1, <3>1, <3>3, CallsTail
      <4> QED
        BY <2>1, <3>1, <3>3, <4>1, NoKeyIsNoOne DEF Queued, Starting, RoleOf
    <3> QED
      BY <3>2, <3>3
  <2> QED
    BY <2>1, <2>2 DEF OnDisk, Starting
<1>7. CASE Kickoff
  <2>1. Starting(r) => NamesProject /\ RoleOf(turn) = r
    BY DEF Starting, NamesProject, TypeOK, Texts
  <2>2. ~Starting(r)
    BY <1>7, <2>1
  <2> QED
    BY <1>7, <2>2 DEF Kickoff, OnDisk, Queued, RoleOf
<1>8. CASE ScheduleWake
  BY <1>8 DEF ScheduleWake, OnDisk, Queued, Starting, RoleOf
<1>9. CASE EndTurn
  BY <1>9 DEF EndTurn, Working, OnDisk, Queued, Starting, RoleOf
<1>10. ~ScheduleFails /\ ~FailTurn /\ ~Crash
  BY DEF ScheduleFails, FailTurn, Crash, TypeOK
<1>11. ASSUME NEW m \in Mails, MarkDone(m) \/ SendMail(m) PROVE CalledFor(r)'
  BY <1>1, <1>11 DEF MarkDone, SendMail
<1> QED
  BY <1>1, <1>2, <1>3, <1>4, <1>5, <1>6, <1>7, <1>8, <1>9, <1>10, <1>11
     DEF Next, TurnStep, vars

(* Faults are only counted up.                                              *)
LEMMA FaultsGrow ==
  ASSUME TypeOK, [Next]_vars, failures' = 0, crashes' = 0
  PROVE  failures' = failures /\ crashes' = crashes
<1>1. ~ScheduleFails /\ ~FailTurn /\ ~Crash
  BY DEF TypeOK, ScheduleFails, FailTurn, Crash
<1> QED
  BY <1>1, Zenon DEF Next, TurnStep, Ask, Beat, Ripen, Fire, StartTurn, Kickoff,
                     SendMail, ScheduleWake, MarkDone, EndTurn, vars, faults

(* A mail is unread because it was, and not read in this step, or because   *)
(* its send has just written it.                                            *)
LEMMA UnreadBefore ==
  ASSUME TypeOK, [Next]_vars, NEW m \in Mails, box'[m] = "unread"
  PROVE  \/ /\ box[m] = "unread"
            /\ ~(Kickoff /\ NamesProject /\ RoleOf(turn) = To[m])
         \/ sending' = m
<1>1. CASE box' = box /\ ~Kickoff
  BY <1>1
<1>2. CASE Kickoff
  <2>1. CASE NamesProject
    <3>1. box' = [n \in Mails |-> IF n \in UnreadOf(RoleOf(turn))
                                  THEN "in_progress" ELSE box[n]]
      BY <1>2, <2>1 DEF Kickoff
    <3>2. m \notin UnreadOf(RoleOf(turn)) /\ box[m] = "unread"
      BY <3>1
    <3> QED
      BY <3>2 DEF UnreadOf
  <2>2. CASE ~NamesProject
    BY <1>2, <2>2 DEF Kickoff
  <2> QED
    BY <2>1, <2>2
<1>3. ASSUME NEW n \in Mails, SendMail(n)
      PROVE  (box[m] = "unread" /\ ~Kickoff) \/ sending' = m
  <2>1. /\ box' = [box EXCEPT ![n] = "unread"] /\ sending' = n
        /\ phase = "work"
    BY <1>3 DEF SendMail, Working
  <2>2. ~Kickoff
    BY <2>1 DEF Kickoff
  <2> QED
    BY <2>1, <2>2 DEF TypeOK
<1>4. ASSUME NEW n \in Mails, MarkDone(n) PROVE box[m] = "unread" /\ ~Kickoff
  <2>1. box' = [box EXCEPT ![n] = "done"] /\ phase = "work"
    BY <1>4 DEF MarkDone, Working
  <2>2. ~Kickoff
    BY <2>1 DEF Kickoff
  <2> QED
    BY <2>1, <2>2 DEF TypeOK
<1> QED
  BY <1>1, <1>2, <1>3, <1>4
     DEF Next, TurnStep, Ask, Beat, Ripen, Fire, StartTurn, ScheduleWake,
         ScheduleFails, EndTurn, FailTurn, Crash, vars, faults

(* A send under way ends with a call for the recipient.                     *)
LEMMA SendEnds ==
  ASSUME TypeOK, TurnInv, [Next]_vars, failures' = failures, crashes' = crashes,
         NEW m \in Mails, sending = m
  PROVE  sending' = m \/ CalledFor(To[m])'
<1>a. sending # NoOne /\ turn # NoOne /\ phase # "kickoff"
  BY NoKeyIsNoOne DEF TurnInv
<1>1. CASE ScheduleWake
  BY <1>1, <1>a DEF ScheduleWake, Waiting, CalledFor, OnDisk
<1>2. ~Kickoff /\ ~EndTurn /\ ~ScheduleFails /\ ~FailTurn /\ ~Crash
  BY <1>a DEF Kickoff, EndTurn, Working, ScheduleFails, FailTurn, Crash, TypeOK
<1>3. \A k \in Keys : ~StartTurn(k)
  BY <1>a DEF StartTurn
<1>4. \A n \in Mails : ~SendMail(n)
  BY <1>a DEF SendMail, Working
<1> QED
  BY <1>1, <1>2, <1>3, <1>4
     DEF Next, TurnStep, Ask, Beat, Ripen, Fire, MarkDone, vars

(* Unread mail stays covered.                                               *)
LEMMA CoverStep == HandshakeInv /\ [Next]_vars => UnreadIsCovered'
<1> SUFFICES ASSUME HandshakeInv, [Next]_vars,
                    failures' = 0, crashes' = 0,
                    NEW m \in Mails, box'[m] = "unread"
             PROVE  Covered(m)'
  BY DEF UnreadIsCovered
<1> USE DEF HandshakeInv
<1>1. failures' = failures /\ crashes' = crashes
  BY FaultsGrow
<1>2. Covered(m)' <=> sending' = m \/ CalledFor(To[m])'
  BY DEF Covered, CalledFor, OnDisk, Queued, Starting, Calls
<1>3. CASE sending' = m
  BY <1>2, <1>3
<1>4. CASE /\ box[m] = "unread"
           /\ ~(Kickoff /\ NamesProject /\ RoleOf(turn) = To[m])
  <2>1. sending = m \/ CalledFor(To[m])
    BY <1>1, <1>4, CoveredBy DEF UnreadIsCovered
  <2>2. To[m] \in Roles
    BY TeamHandshakeAssumption
  <2>3. CASE sending = m
    BY <1>1, <1>2, <2>3, SendEnds
  <2>4. CASE CalledFor(To[m])
    BY <1>1, <1>2, <1>4, <2>2, <2>4, CallSurvives
  <2> QED
    BY <2>1, <2>3, <2>4
<1> QED
  BY <1>3, <1>4, UnreadBefore

(* The invariant holds in every state, for any number of roles and mails,   *)
(* whatever fails.                                                          *)
THEOREM HandshakeInvariant == Spec => []HandshakeInv
<1>1. Init => HandshakeInv
  <2>1. Init => TurnInv /\ UnreadIsCovered
    BY DEF Init, TurnInv, UnreadIsCovered
  <2> QED
    BY <2>1, TypeInit DEF HandshakeInv
<1>2. HandshakeInv /\ [Next]_vars => HandshakeInv'
  BY TypeStep, TurnInvStep, CoverStep DEF HandshakeInv
<1> QED
  BY <1>1, <1>2, PTL DEF Spec

(* All variables keep their types.                                          *)
THEOREM TypeCorrect == Spec => []TypeOK
<1>1. HandshakeInv => TypeOK
  BY DEF HandshakeInv
<1> QED
  BY <1>1, HandshakeInvariant, PTL

(* No unread mail is forgotten while nothing fails.                         *)
THEOREM UnreadCovered == Spec => []UnreadIsCovered
<1>1. HandshakeInv => UnreadIsCovered
  BY DEF HandshakeInv
<1> QED
  BY <1>1, HandshakeInvariant, PTL

-----------------------------------------------------------------------------
(* The refinement, one inbox at a time.  The initial state maps to an       *)
(* empty inbox.                                                             *)
LEMMA InboxInit == Init => \A r \in Roles : Inbox(r)!Init
<1> SUFFICES ASSUME Init, NEW r \in Roles PROVE Inbox(r)!Init
  OBVIOUS
<1> QED
  BY DEF Init, Inbox!Init, RoleOf

(* What the role holds, by whose turn it is.                                *)
HeldBy(r, at, mails) == IF at # NoOne /\ RoleOf(at) = r THEN mails ELSE {}

(* An inbox sees its own mails and what its role holds, nothing else.       *)
LEMMA InboxUnseen ==
  ASSUME NEW r \in Roles,
         \A m \in Mails : To[m] = r => box'[m] = box[m],
         HeldBy(r, turn', hand') = HeldBy(r, turn, hand)
  PROVE  UNCHANGED Inbox(r)!mvars
BY DEF Inbox!mvars, HeldBy, RoleOf

(* The functions the inbox is made of, from the statuses of all mails.      *)
Claims == {"in_progress", "done"}
Mine(r) == {n \in Mails : To[n] = r}
StatusOf(r, b) == [n \in Mine(r) |-> b[n]]
SinceOf(r, b) == [n \in Mine(r) |-> IF b[n] \in Claims THEN 1 ELSE 0]
HandsOf(r, at, mails) == [q \in {r} |-> HeldBy(r, at, mails)]

(* A send is a send to the recipient's inbox.                               *)
LEMMA InboxSend ==
  ASSUME TypeOK, TurnInv, NEW m \in Mails, SendMail(m)
  PROVE  Inbox(To[m])!SendMail(m)
<1> DEFINE r == To[m]
<1>1. /\ box[m] = "absent" /\ box' = [box EXCEPT ![m] = "unread"]
      /\ turn' = turn /\ hand' = hand
  BY DEF SendMail
<1>2. \A n \in Mails : box'[n] = IF n = m THEN "unread" ELSE box[n]
  BY <1>1 DEF TypeOK
<1>3. m \in Mine(r)
  BY DEF Mine
<1>4. /\ StatusOf(r, box)[m] = "absent"
      /\ StatusOf(r, box') = [StatusOf(r, box) EXCEPT ![m] = "unread"]
  BY <1>1, <1>2, <1>3 DEF StatusOf, Mine
<1>5. SinceOf(r, box') = SinceOf(r, box)
  BY <1>1, <1>2 DEF SinceOf, Mine, Claims
<1>6. HandsOf(r, turn', hand') = HandsOf(r, turn, hand)
  BY <1>1
<1> QED
  BY <1>4, <1>5, <1>6
     DEF Inbox!SendMail, Inbox!InitialStatus, StatusOf, SinceOf, HandsOf,
         HeldBy, Mine, Claims, RoleOf

(* Acknowledging is mark_done in the inbox of the turn's role.              *)
LEMMA InboxDone ==
  ASSUME TypeOK, TurnInv, NEW m \in Mails, MarkDone(m)
  PROVE  Inbox(To[m])!MarkDone(To[m], m)
<1> DEFINE r == To[m]
<1>1. /\ m \in hand /\ hand' = hand \ {m} /\ turn' = turn /\ turn # NoOne
      /\ box' = [box EXCEPT ![m] = "done"]
  BY DEF MarkDone, Working
<1>2. box[m] = "in_progress" /\ RoleOf(turn) = r
  BY <1>1 DEF TurnInv
<1>3. \A n \in Mails : box'[n] = IF n = m THEN "done" ELSE box[n]
  BY <1>1 DEF TypeOK
<1>4. m \in Mine(r)
  BY DEF Mine
<1>5. /\ StatusOf(r, box)[m] = "in_progress"
      /\ StatusOf(r, box') = [StatusOf(r, box) EXCEPT ![m] = "done"]
  BY <1>2, <1>3, <1>4 DEF StatusOf, Mine
<1>6. SinceOf(r, box') = SinceOf(r, box)
  BY <1>2, <1>3 DEF SinceOf, Mine, Claims
<1>7. HandsOf(r, turn', hand') = [HandsOf(r, turn, hand) EXCEPT ![r] = @ \ {m}]
  BY <1>1, <1>2 DEF HandsOf, HeldBy, RoleOf
<1> QED
  BY <1>5, <1>6, <1>7
     DEF Inbox!MarkDone, Inbox!Acknowledgeable, StatusOf, SinceOf, HandsOf,
         HeldBy, Mine, Claims, RoleOf

(* A kickoff that finds mail is read_inbox of the turn's role.              *)
LEMMA InboxRead ==
  ASSUME TypeOK, TurnInv, Kickoff, NamesProject,
         NEW r \in Roles, r = RoleOf(turn), UnreadOf(r) # {}
  PROVE  Inbox(r)!ReadInbox(r)
<1> DEFINE U == UnreadOf(r)
<1>1. /\ turn # NoOne /\ turn' = turn /\ hand = {} /\ hand' = U
      /\ box' = [n \in Mails |-> IF n \in U THEN "in_progress" ELSE box[n]]
  BY DEF Kickoff, TurnInv
<1>2. \A n \in Mails : box'[n] = IF n \in U THEN "in_progress" ELSE box[n]
  BY <1>1
<1>3. U = {n \in Mine(r) : StatusOf(r, box)[n] = "unread"}
  BY DEF UnreadOf, Mine, StatusOf
<1>4. StatusOf(r, box') = [n \in Mine(r) |-> IF n \in U THEN "in_progress"
                                               ELSE StatusOf(r, box)[n]]
  BY <1>2 DEF StatusOf, Mine
<1>5. SinceOf(r, box') = [n \in Mine(r) |-> IF n \in U THEN 1
                                              ELSE SinceOf(r, box)[n]]
  BY <1>2 DEF SinceOf, Mine, Claims
<1>6. SinceOf(r, box') = [n \in Mine(r) |-> IF n \in U
                                              THEN SinceOf(r, box)[n] + 1
                                              ELSE SinceOf(r, box)[n]]
  BY <1>2 DEF SinceOf, Mine, Claims, UnreadOf
<1>7. HandsOf(r, turn', hand') = [HandsOf(r, turn, hand) EXCEPT ![r] = @ \union U]
  BY <1>1 DEF HandsOf, HeldBy, RoleOf
<1>8. Inbox(r)!Unread = U
  BY <1>3 DEF Inbox!Unread, StatusOf, Mine
<1>9. 1 \in 1..1 /\ U # {}
  OBVIOUS
<1> HIDE DEF U
<1>10. \E t \in 1..1 : SinceOf(r, box') = [n \in Mine(r) |-> IF n \in U THEN t
                                              ELSE SinceOf(r, box)[n]]
  BY <1>5, <1>9
<1> DEFINE st == [n \in {k \in Mails : To[k] = r} |-> box[n]]
           si == [n \in {k \in Mails : To[k] = r} |->
                    IF box[n] \in {"in_progress", "done"} THEN 1 ELSE 0]
           he == [q \in {r} |-> IF turn # NoOne /\ RoleOf(turn) = r
                                THEN hand ELSE {}]
           no == [n \in {k \in Mails : To[k] = r} |-> 0]
<1>11. /\ st = StatusOf(r, box) /\ st' = StatusOf(r, box')
       /\ si = SinceOf(r, box) /\ si' = SinceOf(r, box')
       /\ he = HandsOf(r, turn, hand) /\ he' = HandsOf(r, turn', hand')
       /\ no' = no
  BY DEF StatusOf, SinceOf, HandsOf, HeldBy, Mine, Claims, RoleOf
<1>12. /\ Inbox(r)!Unread # {}
       /\ \E t \in 1..1 : si' = [n \in {k \in Mails : To[k] = r} |->
                                  IF n \in Inbox(r)!Unread THEN t ELSE si[n]]
       /\ st' = [n \in {k \in Mails : To[k] = r} |->
                   IF n \in Inbox(r)!Unread THEN "in_progress" ELSE st[n]]
       /\ he' = [he EXCEPT ![r] = @ \union Inbox(r)!Unread]
       /\ si' = [n \in {k \in Mails : To[k] = r} |->
                   IF n \in Inbox(r)!Unread THEN si[n] + 1 ELSE si[n]]
       /\ no' = no
  <2> HIDE DEF st, si, he, no
  <2> QED
    BY <1>4, <1>6, <1>7, <1>8, <1>9, <1>10, <1>11 DEF Mine
<1> QED
  BY <1>12, Zenon DEF Inbox!ReadInbox

(* A turn that ends with mail in its hands abandons it.                     *)
LEMMA InboxAbandon ==
  ASSUME TypeOK, NoTurn, box' = box, NEW r \in Roles,
         HeldBy(r, turn, hand) # {}
  PROVE  Inbox(r)!Abandon(r)
<1>1. HeldBy(r, turn', hand') = {}
  BY DEF NoTurn, HeldBy
<1>2. HandsOf(r, turn, hand)[r] # {}
  BY DEF HandsOf
<1>3. HandsOf(r, turn', hand') = [HandsOf(r, turn, hand) EXCEPT ![r] = {}]
  BY <1>1 DEF HandsOf
<1> QED
  BY <1>2, <1>3 DEF Inbox!Abandon, HandsOf, HeldBy, RoleOf
(* Every step is a step of the inbox, or does not touch it.                 *)
LEMMA InboxStep ==
  ASSUME HandshakeInv, [Next]_vars, NEW r \in Roles
  PROVE  Inbox(r)!Next \/ UNCHANGED Inbox(r)!mvars
<1> USE DEF HandshakeInv
<1>1. CASE UNCHANGED <<box, turn, hand>>
  BY <1>1, InboxUnseen
<1>2. ASSUME NEW k \in Keys, StartTurn(k)
      PROVE  UNCHANGED Inbox(r)!mvars
  <2>1. turn = NoOne /\ hand' = hand /\ hand = {} /\ box' = box
    BY <1>2 DEF StartTurn, TurnInv
  <2> QED
    BY <2>1, InboxUnseen DEF HeldBy
<1>3. CASE NoTurn /\ box' = box
  <2>1. CASE HeldBy(r, turn, hand) # {}
    <3>1. Inbox(r)!Abandon(r)
      BY <1>3, <2>1, InboxAbandon
    <3> QED
      BY <3>1, Zenon DEF Inbox!Next
  <2>2. CASE HeldBy(r, turn, hand) = {}
    BY <1>3, <2>2, InboxUnseen DEF NoTurn, HeldBy
  <2> QED
    BY <2>1, <2>2
<1>4. CASE Kickoff /\ NamesProject
  <2>1. /\ turn # NoOne /\ turn' = turn /\ hand = {}
        /\ hand' = UnreadOf(RoleOf(turn))
        /\ box' = [m \in Mails |-> IF m \in hand' THEN "in_progress" ELSE box[m]]
    BY <1>4 DEF Kickoff, TurnInv
  <2>2. CASE r = RoleOf(turn) /\ UnreadOf(r) # {}
    <3>1. Inbox(r)!ReadInbox(r)
      BY <1>4, <2>2, InboxRead
    <3> QED
      BY <3>1, Zenon DEF Inbox!Next
  <2>3. CASE r # RoleOf(turn) \/ UnreadOf(r) = {}
    <3>1. \A m \in Mails : To[m] = r => box'[m] = box[m]
      BY <2>1, <2>3 DEF UnreadOf
    <3>2. HeldBy(r, turn', hand') = HeldBy(r, turn, hand)
      BY <2>1, <2>3 DEF HeldBy, RoleOf
    <3> QED
      BY <3>1, <3>2, InboxUnseen
  <2> QED
    BY <2>2, <2>3
<1>5. ASSUME NEW m \in Mails, SendMail(m)
      PROVE  Inbox(r)!Next \/ UNCHANGED Inbox(r)!mvars
  <2>1. CASE To[m] = r
    <3>1. Inbox(r)!SendMail(m)
      BY <1>5, <2>1, InboxSend
    <3>2. m \in {n \in Mails : To[n] = r}
      BY <2>1
    <3> QED
      BY <3>1, <3>2, Zenon DEF Inbox!Next
  <2>2. CASE To[m] # r
    <3>1. \A n \in Mails : To[n] = r => box'[n] = box[n]
      BY <1>5, <2>2 DEF SendMail, TypeOK
    <3>2. turn' = turn /\ hand' = hand
      BY <1>5 DEF SendMail
    <3> QED
      BY <3>1, <3>2, InboxUnseen
  <2> QED
    BY <2>1, <2>2
<1>6. ASSUME NEW m \in Mails, MarkDone(m)
      PROVE  Inbox(r)!Next \/ UNCHANGED Inbox(r)!mvars
  <2>1. CASE To[m] = r
    <3>1. Inbox(r)!MarkDone(r, m)
      BY <1>6, <2>1, InboxDone
    <3>2. m \in {n \in Mails : To[n] = r} /\ r \in {r}
      BY <2>1
    <3> QED
      BY <3>1, <3>2, Zenon DEF Inbox!Next
  <2>2. CASE To[m] # r
    <3>1. \A n \in Mails : To[n] = r => box'[n] = box[n]
      BY <1>6, <2>2 DEF MarkDone, TypeOK
    <3>2. turn' = turn /\ RoleOf(turn) # r
      BY <1>6, <2>2 DEF MarkDone, TurnInv
    <3>3. HeldBy(r, turn', hand') = HeldBy(r, turn, hand)
      BY <3>2 DEF HeldBy
    <3> QED
      BY <3>1, <3>3, InboxUnseen
  <2> QED
    BY <2>1, <2>2
<1> QED
  BY <1>1, <1>2, <1>3, <1>4, <1>5, <1>6
     DEF Next, TurnStep, Ask, Beat, Ripen, Fire, ScheduleWake, ScheduleFails,
         Kickoff, EndTurn, FailTurn, Crash, vars

(* Each role's inbox is the promised mailbox, for any number of roles and   *)
(* mails: nothing else a turn does, no failed turn and no crash touches it  *)
(* otherwise than by the mailbox's operations.                              *)
THEOREM InboxesAreMailboxes == Spec => InboxesKeepPromise
<1>1. HandshakeInv /\ [Next]_vars
        => [\A r \in Roles : Inbox(r)!Next \/ UNCHANGED Inbox(r)!mvars]_vars
  BY InboxStep
<1> QED
  BY InboxInit, <1>1, HandshakeInvariant, PTL DEF Spec, InboxesKeepPromise

-----------------------------------------------------------------------------
(* The wakes: every step is one of the book's, or does not touch it.        *)
LEMMA BookStep ==
  ASSUME HandshakeInv, [Next]_vars
  PROVE  [Book!Next]_(Book!bvars)
<1>0. TypeOK
  BY DEF HandshakeInv
<1>1. CASE wakes' = wakes
  BY <1>1 DEF Book!bvars, WaitingNow, DueNow
<1>2. CASE ScheduleWake
  <2>1. PICK r \in Roles : r = To[sending]
    BY <1>0, <1>2, TeamHandshakeAssumption DEF TypeOK, ScheduleWake
  <2>2. wakes' = wakes \union {<<r, "waiting">>}
    BY <1>2, <2>1 DEF ScheduleWake, Waiting
  <2>3. WaitingNow' = WaitingNow \union {r} /\ DueNow' = DueNow
    BY <2>2 DEF WaitingNow, DueNow
  <2>4. Book!Schedule(r)
    BY <2>3 DEF Book!Schedule
  <2> QED BY <2>4 DEF Book!Next
<1>3. ASSUME NEW r \in Roles, Ripen(r)
      PROVE  Book!Next
  <2>1. /\ <<r, "waiting">> \in wakes
        /\ wakes' = (wakes \ {<<r, "waiting">>}) \union {<<r, "due">>}
    BY <1>3 DEF Ripen
  <2>2. /\ r \in WaitingNow /\ WaitingNow' = WaitingNow \ {r}
        /\ DueNow' = DueNow \union {r}
    BY <2>1 DEF WaitingNow, DueNow
  <2>3. Book!Pass(r)
    BY <2>2 DEF Book!Pass
  <2> QED BY <2>3 DEF Book!Next
<1>4. ASSUME NEW r \in Roles, Fire(r)
      PROVE  Book!Next
  <2>1. <<r, "due">> \in wakes /\ wakes' = wakes \ {<<r, "due">>}
    BY <1>4 DEF Fire, SavedFired
  <2>2. r \in DueNow /\ WaitingNow' = WaitingNow /\ DueNow' = DueNow \ {r}
    BY <2>1 DEF WaitingNow, DueNow
  <2>3. Book!Ring(r)
    BY <2>2 DEF Book!Ring, Book!Kept
  <2> QED BY <2>3 DEF Book!Next
<1> QED
  BY <1>1, <1>2, <1>3, <1>4
     DEF Next, TurnStep, Ask, Beat, StartTurn, Kickoff, SendMail, ScheduleFails,
         MarkDone, EndTurn, FailTurn, Crash, vars

(* The lines and the turn: every step is one of the dispatcher's, or does   *)
(* not touch them.                                                          *)
LEMMA LinesStep ==
  ASSUME HandshakeInv, [Next]_vars
  PROVE  [Lines!Next]_(Lines!dvars)
<1>0. TypeOK
  BY DEF HandshakeInv
<1>1. CASE UNCHANGED <<queue, turn, text>>
  BY <1>1 DEF Lines!dvars, TurnsNow
<1>2. ASSUME NEW k \in Keys, NEW i \in Texts,
             queue' = [queue EXCEPT ![k] = Append(@, i)],
             turn' = turn, text' = text
      PROVE  Lines!Next
  <2>1. Lines!Put(k, i)
    BY <1>2 DEF Lines!Put, TurnsNow
  <2> QED BY <2>1 DEF Lines!Next, Lines!Serve
<1>3. CASE Ask
  BY <1>2, <1>3 DEF Ask, Keys, Texts
<1>4. ASSUME NEW r \in Roles, Beat(r) \/ Fire(r)
      PROVE  Lines!Next
  BY <1>2, <1>4 DEF Beat, Fire, WakeText, Keys, Texts
<1>5. ASSUME NEW k \in Keys, StartTurn(k)
      PROVE  Lines!Next
  <2>1. TurnsNow = {} /\ TurnsNow' = {<<k, Head(queue[k])>>}
    BY <1>5, NoKeyIsNoOne DEF StartTurn, TurnsNow
  <2>2. Lines!Begin(k)
    BY <1>5, <2>1 DEF StartTurn, Lines!Begin
  <2> QED BY <2>2 DEF Lines!Next, Lines!Serve
<1>6. CASE NoTurn /\ turn # NoOne /\ queue' = queue
  <2>1. TurnsNow # {} /\ TurnsNow' = {}
    BY <1>6 DEF NoTurn, TurnsNow
  <2>2. Lines!End
    BY <1>6, <2>1 DEF Lines!End
  <2> QED BY <2>2 DEF Lines!Next, Lines!Serve
<1>7. CASE Crash
  <2>1. TurnsNow' = {} /\ queue' = [k \in Keys |-> <<>>]
    BY <1>7 DEF Crash, NoTurn, TurnsNow
  <2> QED BY <2>1 DEF Lines!Die, Lines!Next
<1> QED
  BY <1>1, <1>3, <1>4, <1>5, <1>6, <1>7
     DEF Next, TurnStep, Ripen, Kickoff, SendMail, ScheduleWake, ScheduleFails,
         MarkDone, EndTurn, FailTurn, Working, vars

(* Inboxes, wakes, queues and turns of the protocol are the abstract parts  *)
(* that the mailbox file, tasks.json and the runner implement, for any      *)
(* number of roles and mails, whatever fails or crashes.                    *)
THEOREM PartsArePromised == Spec => PartsKeepPromise
<1>1. Init => Book!Init /\ Lines!Init
  BY DEF Init, Book!Init, WaitingNow, DueNow, Lines!Init, TurnsNow
<1>2. HandshakeInv /\ [Next]_vars
        => [Book!Next]_(Book!bvars) /\ [Lines!Next]_(Lines!dvars)
  BY BookStep, LinesStep
<1>3. Spec => Book!Spec /\ Lines!Spec
  BY <1>1, <1>2, HandshakeInvariant, PTL DEF Spec, Book!Spec, Lines!Spec
<1> QED
  BY <1>3, InboxesAreMailboxes, PTL DEF PartsKeepPromise
=============================================================================
