----------------------------- MODULE RunnerProofs -----------------------------
(***************************************************************************)
(* Proofs about Runner for any messages, routing keys and tasks: types,    *)
(* one worker per key, one turn at a time, order without loss, and that a  *)
(* wake is dropped only beside another.                                    *)
(***************************************************************************)
EXTENDS Runner, TLAPS, SequenceTheorems

(* A task in the middle of a message has that message.                      *)
Working == {"slash", "session", "queued", "running", "append", "reply"}
MsgInv == \A t \in Tasks : state[t] \in Working => msg[t] \in Msgs

(* self._workers and the tasks that exist point at each other.              *)
WorkerInv ==
  /\ \A t \in Tasks : Live(t) => key[t] \in Keys /\ workers[key[t]] = t
  /\ \A k \in Keys : workers[k] # NoOne =>
       workers[k] \in Tasks /\ Live(workers[k]) /\ key[workers[k]] = k

(* The task whose turn runs heads the line for the team lock.               *)
TeamInv == \A t \in Tasks : state[t] = "running" => HasTeamLock(t)

-----------------------------------------------------------------------------
(* Moving the head of one sequence to the end of another keeps their        *)
(* concatenation: taking a message neither loses nor reorders any.          *)
LEMMA MoveHead ==
  ASSUME NEW S, NEW b \in Seq(S), NEW q \in Seq(S), q # <<>>
  PROVE  Append(b, Head(q)) \o Tail(q) = b \o q
<1>1. Tail(q) \in Seq(S) /\ Len(Tail(q)) = Len(q) - 1 /\ Head(q) \in S
  BY HeadTailProperties
<1>2. Append(b, Head(q)) \in Seq(S) /\ Len(Append(b, Head(q))) = Len(b) + 1
  BY <1>1, AppendProperties
<1> DEFINE l == Append(b, Head(q)) \o Tail(q)
           r == b \o q
<1>3. Len(q) \in Nat /\ Len(b) \in Nat /\ Len(q) >= 1
  BY EmptySeq
<1>4. l \in Seq(S) /\ Len(l) = Len(b) + Len(q)
  BY <1>1, <1>2, <1>3, ConcatProperties
<1>5. r \in Seq(S) /\ Len(r) = Len(b) + Len(q)
  BY ConcatProperties
<1>6. ASSUME NEW i \in 1..Len(l) PROVE l[i] = r[i]
  <2>1. CASE i <= Len(b)
    BY <2>1, <1>1, <1>2, <1>3, <1>4
  <2>2. CASE i = Len(b) + 1
    BY <2>2, <1>1, <1>2, <1>3, <1>4
  <2>3. CASE i > Len(b) + 1
    BY <2>3, <1>1, <1>2, <1>3, <1>4
  <2> QED BY <2>1, <2>2, <2>3, <1>3, <1>4
<1> QED BY <1>4, <1>5, <1>6, SeqEqual

(* Enqueueing at the end appends to the concatenation.                      *)
LEMMA AppendConcat ==
  ASSUME NEW S, NEW b \in Seq(S), NEW q \in Seq(S), NEW m \in S
  PROVE  b \o Append(q, m) = Append(b \o q, m)
OBVIOUS

-----------------------------------------------------------------------------
(* What taking a message, or finding none, does to the variables it sets.   *)
LEMMA TakeNextEffect ==
  ASSUME TypeOK, NEW t \in Tasks, key[t] \in Keys, TakeNext(t)
  PROVE  /\ queues' \in [Keys -> Seq(Msgs)]
         /\ begun' \in [Keys -> Seq(Msgs)]
         /\ msg' \in [Tasks -> Msgs \union {NoOne}]
         /\ \E s \in {"slash", "session", "wait"} :
              /\ state' = [state EXCEPT ![t] = s]
              /\ s # "wait" => msg'[t] \in Msgs
         /\ \A u \in Tasks : u # t => msg'[u] = msg[u]
         /\ waived' \in SUBSET Keys
         /\ \A k \in Keys : begun'[k] \o queues'[k] = begun[k] \o queues[k]
<1> DEFINE k == key[t]
<1>1. CASE queues[k] # <<>>
  <2> DEFINE m == Head(queues[k])
  <2>1. queues[k] \in Seq(Msgs) /\ begun[k] \in Seq(Msgs)
    BY DEF TypeOK
  <2>2. m \in Msgs /\ Tail(queues[k]) \in Seq(Msgs)
    BY <1>1, <2>1, HeadTailProperties
  <2>3. /\ queues' = [queues EXCEPT ![k] = Tail(@)]
        /\ msg' = [msg EXCEPT ![t] = m]
        /\ state' = [state EXCEPT ![t] =
                       IF KindOf[m] = "slash" THEN "slash" ELSE "session"]
        /\ begun' = [begun EXCEPT ![k] = Append(@, m)]
        /\ waived' = IF IsWake(m) THEN waived \ {k} ELSE waived
    BY <1>1 DEF TakeNext
  <2>4. Append(begun[k], m) \in Seq(Msgs)
    BY <2>1, <2>2, AppendProperties
  <2>5. /\ queues' \in [Keys -> Seq(Msgs)]
        /\ begun' \in [Keys -> Seq(Msgs)]
        /\ msg' \in [Tasks -> Msgs \union {NoOne}]
        /\ msg'[t] \in Msgs
        /\ \A u \in Tasks : u # t => msg'[u] = msg[u]
        /\ waived' \in SUBSET Keys
    BY <2>2, <2>3, <2>4 DEF TypeOK
  <2>6. \E s \in {"slash", "session", "wait"} :
          /\ state' = [state EXCEPT ![t] = s]
          /\ s # "wait" => msg'[t] \in Msgs
    BY <2>3, <2>5
  <2>7. Append(begun[k], m) \o Tail(queues[k]) = begun[k] \o queues[k]
    BY <1>1, <2>1, MoveHead
  <2>8. ASSUME NEW j \in Keys
        PROVE  begun'[j] \o queues'[j] = begun[j] \o queues[j]
    BY <2>3, <2>7 DEF TypeOK
  <2> QED BY <2>5, <2>6, <2>8
<1>2. CASE queues[k] = <<>>
  <2>1. /\ msg' = [msg EXCEPT ![t] = NoOne]
        /\ state' = [state EXCEPT ![t] = "wait"]
        /\ UNCHANGED <<queues, begun, waived>>
    BY <1>2 DEF TakeNext
  <2> QED BY <2>1 DEF TypeOK
<1> QED BY <1>1, <1>2

-----------------------------------------------------------------------------
(* Types, messages in hand and the table of workers, as one invariant.      *)
BaseInv == TypeOK /\ MsgInv /\ WorkerInv

(* An empty runner satisfies the base invariant.                            *)
LEMMA BaseInit == Init => BaseInv
  BY EmptySeq, RunnerAssumption
     DEF Init, BaseInv, TypeOK, States, MsgInv, Working, WorkerInv, Live

(* A step of a task t that moves only t, to s, keeping key and worker.      *)
LEMMA MoveKeepsWorkers ==
  ASSUME BaseInv, NEW t \in Tasks, NEW s \in States \ {"free"}, Live(t),
         state' = [state EXCEPT ![t] = s], UNCHANGED <<workers, key>>
  PROVE  WorkerInv'
  BY DEF BaseInv, TypeOK, WorkerInv, Live

(* ... keeps its message in hand.                                           *)
LEMMA MoveKeepsMsg ==
  ASSUME BaseInv, NEW t \in Tasks, NEW s \in States,
         state' = [state EXCEPT ![t] = s],
         \A u \in Tasks : u # t => msg'[u] = msg[u],
         s \in Working => msg'[t] \in Msgs
  PROVE  MsgInv'
  BY DEF BaseInv, TypeOK, MsgInv

(* Every step that ends in TakeNext keeps the base invariant.               *)
LEMMA TakeKeepsBase ==
  ASSUME BaseInv, NEW t \in Tasks, Live(t), TakeNext(t),
         UNCHANGED <<workers, key>>,
         team' \in Seq(Tasks), UNCHANGED <<arrived, accepted>>,
         finished' \in SUBSET Msgs
  PROVE  BaseInv'
<1>1. TypeOK /\ key[t] \in Keys
  BY DEF BaseInv, WorkerInv
<1>2. PICK s \in {"slash", "session", "wait"} :
         /\ state' = [state EXCEPT ![t] = s]
         /\ s # "wait" => msg'[t] \in Msgs
  BY <1>1, TakeNextEffect
<1>3. TypeOK'
  BY <1>1, <1>2, TakeNextEffect DEF TypeOK, States
<1>4. MsgInv'
  BY <1>1, <1>2, TakeNextEffect, MoveKeepsMsg DEF States, Working
<1>5. WorkerInv'
  BY <1>2, MoveKeepsWorkers DEF States
<1> QED BY <1>3, <1>4, <1>5 DEF BaseInv

(* dispatch keeps the base invariant.                                       *)
LEMMA BaseDispatch ==
  ASSUME BaseInv, NEW m \in Msgs, Dispatch(m)
  PROVE  BaseInv'
<1>1. KeyOf[m] \in Keys
  BY RunnerAssumption
<1>2. arrived' \in SUBSET Msgs /\ UNCHANGED <<msg, team, begun, finished>>
  BY DEF Dispatch, BaseInv, TypeOK
<1>3. CASE Drop(m)
  BY <1>1, <1>2, <1>3
     DEF Drop, BaseInv, TypeOK, MsgInv, WorkerInv, Live
<1>4. CASE Enqueue(m)
  <2> DEFINE k == KeyOf[m]
  <2>1. /\ queues' \in [Keys -> Seq(Msgs)]
        /\ accepted' \in [Keys -> Seq(Msgs)]
        /\ waived' \in SUBSET Keys
    <3>1. Put(queues[k], m) \in Seq(Msgs) /\ Append(accepted[k], m) \in Seq(Msgs)
      BY <1>1, AppendProperties DEF Put, BaseInv, TypeOK
    <3> QED BY <1>4, <3>1 DEF Enqueue, BaseInv, TypeOK
  <2>2. CASE ~NoWorker(k)
    <3>1. UNCHANGED <<workers, state, key>>
      BY <1>4, <2>2 DEF Enqueue
    <3> QED BY <1>2, <2>1, <3>1 DEF BaseInv, TypeOK, MsgInv, WorkerInv, Live
  <2>3. CASE NoWorker(k)
    <3>1. PICK t \in Tasks :
             /\ state[t] = "free"
             /\ workers' = [workers EXCEPT ![k] = t]
             /\ state' = [state EXCEPT ![t] = "new"]
             /\ key' = [key EXCEPT ![t] = k]
      BY <1>4, <2>3 DEF Enqueue
    <3>2. TypeOK'
      BY <1>1, <1>2, <2>1, <3>1 DEF BaseInv, TypeOK, States
    <3>3. MsgInv'
      BY <1>2, <3>1 DEF BaseInv, TypeOK, MsgInv, Working
    <3>4. ASSUME NEW u \in Tasks, Live(u)'
          PROVE  key'[u] \in Keys /\ workers'[key'[u]] = u
      <4>1. CASE u = t
        BY <1>1, <3>1, <4>1 DEF BaseInv, TypeOK
      <4>2. CASE u # t
        <5>1. Live(u) /\ key'[u] = key[u]
          BY <3>1, <3>4, <4>2 DEF BaseInv, TypeOK, Live
        <5>2. key[u] \in Keys /\ workers[key[u]] = u
          BY <5>1 DEF BaseInv, WorkerInv
        <5>3. key[u] # k
          BY <2>3, <5>2, RunnerAssumption DEF NoWorker
        <5> QED BY <1>1, <3>1, <5>1, <5>2, <5>3 DEF BaseInv, TypeOK
      <4> QED BY <4>1, <4>2
    <3>5. ASSUME NEW j \in Keys, workers'[j] # NoOne
          PROVE  /\ workers'[j] \in Tasks
                 /\ state'[workers'[j]] # "free"
                 /\ key'[workers'[j]] = j
      <4>1. CASE j = k
        BY <1>1, <3>1, <4>1 DEF BaseInv, TypeOK, Live
      <4>2. CASE j # k
        <5>1. workers'[j] = workers[j]
          BY <3>1, <4>2 DEF BaseInv, TypeOK
        <5>2. /\ workers[j] \in Tasks
              /\ Live(workers[j])
              /\ key[workers[j]] = j
          BY <3>5, <5>1 DEF BaseInv, WorkerInv
        <5>3. workers[j] # t
          BY <3>1, <5>2 DEF Live
        <5> QED BY <3>1, <5>1, <5>2, <5>3 DEF BaseInv, TypeOK, Live
      <4> QED BY <4>1, <4>2
    <3>6. WorkerInv'
      BY <3>4, <3>5 DEF WorkerInv, Live
    <3> QED BY <3>2, <3>3, <3>6 DEF BaseInv
  <2> QED BY <2>2, <2>3
<1> QED BY <1>3, <1>4 DEF Dispatch

(* Going on to the next message keeps the base invariant,                   *)
LEMMA HandledKeepsBase ==
  ASSUME BaseInv, NEW t \in Tasks, Live(t), state[t] \in Working, NextMessage(t),
         UNCHANGED <<workers, key, team, arrived, accepted>>
  PROVE  BaseInv'
<1>1. TypeOK /\ msg[t] \in Msgs
  BY DEF BaseInv, MsgInv
<1> QED BY <1>1, TakeKeepsBase DEF NextMessage, TypeOK

(* and so does going on to the reply.                                       *)
LEMMA ToReplyKeepsBase ==
  ASSUME BaseInv, NEW t \in Tasks, Live(t), state[t] \in Working,
         state' = [state EXCEPT ![t] = "reply"],
         UNCHANGED <<queues, msg, begun, finished, waived>>,
         UNCHANGED <<workers, key, team, arrived, accepted>>
  PROVE  BaseInv'
<1>1. TypeOK /\ msg[t] \in Msgs
  BY DEF BaseInv, MsgInv
<1>2. TypeOK'
  BY <1>1 DEF TypeOK, States
<1>3. MsgInv'
  BY <1>1, MoveKeepsMsg DEF States
<1>4. WorkerInv'
  BY MoveKeepsWorkers DEF States
<1> QED BY <1>2, <1>3, <1>4 DEF BaseInv

(* Every step of a worker keeps the base invariant.                         *)
LEMMA BaseTask ==
  ASSUME BaseInv, TeamInv, NEW t \in Tasks, TaskStep(t) \/ Expire(t)
  PROVE  BaseInv'
<1>0. TypeOK /\ MsgInv /\ WorkerInv
  BY DEF BaseInv
<1>1. CASE Resume(t)
  <2>1. Live(t) /\ TakeNext(t)
    BY <1>1 DEF Resume, Live
  <2>2. UNCHANGED <<workers, key, team, arrived, accepted, finished>>
    BY <1>1 DEF Resume
  <2> QED BY <1>0, <2>1, <2>2, TakeKeepsBase DEF TypeOK
<1>2. CASE Expire(t)
  <2>1. Live(t) /\ state' = [state EXCEPT ![t] = "expired"]
    BY <1>2 DEF Expire, Live
  <2>2. UNCHANGED <<queues, workers, key, msg, team, arrived, hist>>
    BY <1>2 DEF Expire
  <2>3. TypeOK'
    BY <1>0, <2>1, <2>2 DEF TypeOK, States, hist
  <2>4. MsgInv'
    BY <2>1, <2>2, MoveKeepsMsg DEF States, Working
  <2>5. WorkerInv'
    BY <2>1, <2>2, MoveKeepsWorkers DEF States
  <2> QED BY <2>3, <2>4, <2>5 DEF BaseInv
<1>3. CASE Exit(t)
  <2>1. /\ state[t] = "expired"
        /\ state' = [state EXCEPT ![t] = "free"]
        /\ workers' = [workers EXCEPT ![key[t]] = NoOne]
        /\ key' = [key EXCEPT ![t] = NoOne]
        /\ UNCHANGED <<queues, msg, team, arrived, hist>>
    BY <1>3 DEF Exit
  <2>2. key[t] \in Keys /\ workers[key[t]] = t
    BY <1>0, <2>1 DEF WorkerInv, Live
  <2>3. TypeOK'
    BY <1>0, <2>1 DEF TypeOK, States, hist
  <2>4. MsgInv'
    BY <2>1, MoveKeepsMsg DEF States, Working
  <2>5. ASSUME NEW u \in Tasks, Live(u)'
        PROVE  key'[u] \in Keys /\ workers'[key'[u]] = u
    <3>1. u # t
      BY <1>0, <2>1, <2>5 DEF Live, TypeOK
    <3>2. Live(u) /\ key'[u] = key[u]
      BY <1>0, <2>1, <2>5, <3>1 DEF Live, TypeOK
    <3>3. key[u] \in Keys /\ workers[key[u]] = u
      BY <1>0, <3>2 DEF WorkerInv
    <3>4. key[u] # key[t]
      BY <2>2, <3>1, <3>3
    <3> QED BY <1>0, <2>1, <3>2, <3>3, <3>4 DEF TypeOK
  <2>6. ASSUME NEW j \in Keys, workers'[j] # NoOne
        PROVE  /\ workers'[j] \in Tasks
               /\ state'[workers'[j]] # "free"
               /\ key'[workers'[j]] = j
    <3>1. j # key[t] /\ workers'[j] = workers[j]
      BY <1>0, <2>1, <2>2, <2>6 DEF TypeOK
    <3>2. /\ workers[j] \in Tasks
          /\ Live(workers[j])
          /\ key[workers[j]] = j
      BY <1>0, <2>6, <3>1 DEF WorkerInv
    <3> QED BY <1>0, <2>1, <3>1, <3>2 DEF TypeOK, Live
  <2>7. WorkerInv'
    BY <2>5, <2>6 DEF WorkerInv, Live
  <2> QED BY <2>3, <2>4, <2>7 DEF BaseInv
<1>4. CASE Slash(t)
  <2>1. /\ Live(t)
        /\ state[t] \in Working
        /\ UNCHANGED <<workers, key, team, arrived, accepted>>
    BY <1>4 DEF Slash, Live, Working
  <2>2. CASE NextMessage(t)
    BY <2>1, <2>2, HandledKeepsBase
  <2>3. CASE /\ state' = [state EXCEPT ![t] = "reply"]
             /\ UNCHANGED <<queues, msg, begun, finished, waived>>
    BY <2>1, <2>3, ToReplyKeepsBase
  <2> QED BY <1>4, <2>2, <2>3 DEF Slash
<1>5. CASE OpenSession(t)
  <2>1. Live(t) /\ state[t] \in Working /\ UNCHANGED <<workers, key, arrived>>
    BY <1>5 DEF OpenSession, Live, Working
  <2>2. msg[t] \in Msgs
    BY <1>0, <2>1 DEF MsgInv
  <2>3. CASE NextMessage(t) /\ UNCHANGED <<team, accepted>>
    BY <1>0, <2>1, <2>2, <2>3, TakeKeepsBase DEF NextMessage, TypeOK
  <2>4. CASE /\ state' = [state EXCEPT ![t] = "queued"]
             /\ team' = Append(team, t)
             /\ UNCHANGED <<queues, msg, hist>>
    <3>1. team' \in Seq(Tasks)
      BY <1>0, <2>4, AppendProperties DEF TypeOK
    <3>2. TypeOK'
      BY <1>0, <2>1, <2>4, <3>1 DEF TypeOK, States, hist
    <3>3. MsgInv'
      BY <2>2, <2>4, MoveKeepsMsg DEF States
    <3>4. WorkerInv'
      BY <2>1, <2>4, MoveKeepsWorkers DEF States
    <3> QED BY <3>2, <3>3, <3>4 DEF BaseInv
  <2> QED BY <1>5, <2>3, <2>4 DEF OpenSession
<1>6. CASE Acquire(t)
  <2>1. Live(t) /\ state[t] \in Working /\ state' = [state EXCEPT ![t] = "running"]
    BY <1>6 DEF Acquire, Live, Working
  <2>2. UNCHANGED <<queues, workers, key, msg, team, arrived, hist>>
    BY <1>6 DEF Acquire
  <2>3. TypeOK'
    BY <1>0, <2>1, <2>2 DEF TypeOK, States, hist
  <2>4. MsgInv'
    BY <1>0, <2>1, <2>2, MoveKeepsMsg DEF States, Working, MsgInv
  <2>5. WorkerInv'
    BY <2>1, <2>2, MoveKeepsWorkers DEF States
  <2> QED BY <2>3, <2>4, <2>5 DEF BaseInv
<1>7. CASE Turn(t)
  <2>0. team # <<>>
    BY <1>7 DEF Turn, TeamInv, HasTeamLock
  <2>1. Live(t) /\ state[t] \in Working /\ UNCHANGED <<workers, key, arrived>>
    BY <1>7 DEF Turn, Live, Working
  <2>2. msg[t] \in Msgs
    BY <1>0, <2>1 DEF MsgInv
  <2>3. Tail(team) \in Seq(Tasks)
    BY <1>0, <2>0, HeadTailProperties DEF TypeOK
  <2>4. CASE NextMessage(t) /\ team' = PassedOn(FALSE) /\ UNCHANGED accepted
    BY <1>0, <2>1, <2>2, <2>3, <2>4, TakeKeepsBase
       DEF NextMessage, PassedOn, TypeOK
  <2>5. CASE /\ state' = [state EXCEPT ![t] = "append"]
             /\ team' = PassedOn(TRUE)
             /\ UNCHANGED <<queues, msg, hist>>
    <3>1. TypeOK'
      BY <1>0, <2>1, <2>3, <2>5 DEF TypeOK, States, hist, PassedOn
    <3>2. MsgInv'
      BY <2>2, <2>5, MoveKeepsMsg DEF States
    <3>3. WorkerInv'
      BY <2>1, <2>5, MoveKeepsWorkers DEF States
    <3> QED BY <3>1, <3>2, <3>3 DEF BaseInv
  <2> QED BY <1>7, <2>4, <2>5 DEF Turn
<1>8. CASE AppendSession(t)
  <2>1. /\ Live(t)
        /\ state[t] \in Working
        /\ UNCHANGED <<workers, key, team, arrived, accepted>>
    BY <1>8 DEF AppendSession, Live, Working
  <2>2. CASE NextMessage(t)
    BY <2>1, <2>2, HandledKeepsBase
  <2>3. CASE /\ state' = [state EXCEPT ![t] = "reply"]
             /\ UNCHANGED <<queues, msg, begun, finished, waived>>
    BY <2>1, <2>3, ToReplyKeepsBase
  <2> QED BY <1>8, <2>2, <2>3 DEF AppendSession
<1>9. CASE Reply(t)
  <2>1. /\ Live(t)
        /\ state[t] \in Working
        /\ UNCHANGED <<workers, key, team, arrived, accepted>>
    BY <1>9 DEF Reply, Live, Working
  <2>2. msg[t] \in Msgs
    BY <1>0, <2>1 DEF MsgInv
  <2> QED BY <1>0, <1>9, <2>1, <2>2, TakeKeepsBase DEF Reply, NextMessage, TypeOK
<1> QED BY <1>1, <1>2, <1>3, <1>4, <1>5, <1>6, <1>7, <1>8, <1>9 DEF TaskStep

-----------------------------------------------------------------------------
(* The team lock: only its holder runs, and the line moves up when it ends. *)
LEMMA TeamInit == Init => TeamInv
  BY DEF Init, TeamInv

(* A step that moves t to a state other than running and leaves the line.   *)
LEMMA LeavesLine ==
  ASSUME TypeOK, TeamInv, NEW t \in Tasks, NEW s \in States \ {"running"},
         state' = [state EXCEPT ![t] = s], team' = team
  PROVE  TeamInv'
  BY DEF TypeOK, TeamInv, HasTeamLock

(* Taking the next message is such a step.                                  *)
LEMMA TakeStops ==
  ASSUME BaseInv, NEW t \in Tasks, Live(t), TakeNext(t)
  PROVE  \E s \in States \ {"running"} : state' = [state EXCEPT ![t] = s]
<1>1. TypeOK /\ key[t] \in Keys
  BY DEF BaseInv, WorkerInv
<1>2. PICK s \in {"slash", "session", "wait"} : state' = [state EXCEPT ![t] = s]
  BY <1>1, TakeNextEffect
<1> QED BY <1>2 DEF States

(* The team lock has one holder in every step.                              *)
LEMMA TeamStep ==
  ASSUME BaseInv, TeamInv, [Next]_vars
  PROVE  TeamInv'
<1>0. TypeOK
  BY DEF BaseInv
<1>1. ASSUME NEW m \in Msgs, Dispatch(m)
      PROVE  TeamInv'
  <2>1. team' = team
    BY <1>1 DEF Dispatch
  <2>2. ASSUME NEW u \in Tasks, state'[u] = "running" PROVE state[u] = "running"
    <3>1. CASE state' = state
      BY <2>2, <3>1
    <3>2. CASE \E t \in Tasks : state' = [state EXCEPT ![t] = "new"]
      BY <1>0, <2>2, <3>2 DEF TypeOK
    <3> QED BY <1>1, <3>1, <3>2 DEF Dispatch, Drop, Enqueue
  <2> QED BY <2>1, <2>2 DEF TeamInv, HasTeamLock
<1>2. ASSUME NEW t \in Tasks, Resume(t) \/ Reply(t)
      PROVE  TeamInv'
  <2>1. Live(t) /\ TakeNext(t) /\ team' = team
    BY <1>2 DEF Resume, Reply, NextMessage, Live
  <2> QED BY <1>0, <2>1, TakeStops, LeavesLine
<1>3. ASSUME NEW t \in Tasks, Slash(t) \/ AppendSession(t)
      PROVE  TeamInv'
  <2>1. Live(t) /\ team' = team
    BY <1>3 DEF Slash, AppendSession, Live
  <2>2. CASE TakeNext(t)
    BY <1>0, <2>1, <2>2, TakeStops, LeavesLine
  <2>3. CASE state' = [state EXCEPT ![t] = "reply"]
    BY <1>0, <2>1, <2>3, LeavesLine DEF States
  <2> QED BY <1>3, <2>2, <2>3 DEF Slash, AppendSession, NextMessage
<1>4. ASSUME NEW t \in Tasks, OpenSession(t)
      PROVE  TeamInv'
  <2>1. Live(t)
    BY <1>4 DEF OpenSession, Live
  <2>2. CASE TakeNext(t) /\ team' = team
    BY <1>0, <2>1, <2>2, TakeStops, LeavesLine
  <2>3. CASE /\ state' = [state EXCEPT ![t] = "queued"]
             /\ team' = Append(team, t)
    <3>1. ASSUME NEW u \in Tasks, state'[u] = "running"
          PROVE  team' # <<>> /\ Head(team') = u
      <4>1. state[u] = "running"
        BY <1>0, <2>3, <3>1 DEF TypeOK
      <4>2. team \in Seq(Tasks) /\ team # <<>> /\ Head(team) = u
        BY <1>0, <4>1 DEF TypeOK, TeamInv, HasTeamLock
      <4> QED BY <2>3, <4>2, AppendProperties, EmptySeq
    <3> QED BY <3>1 DEF TeamInv, HasTeamLock
  <2> QED BY <1>4, <2>2, <2>3 DEF OpenSession, NextMessage
<1>5. ASSUME NEW t \in Tasks, Acquire(t)
      PROVE  TeamInv'
  BY <1>0, <1>5 DEF Acquire, TypeOK, TeamInv, HasTeamLock
<1>6. ASSUME NEW t \in Tasks, Turn(t)
      PROVE  TeamInv'
  <2>1. Live(t) /\ team # <<>> /\ Head(team) = t
    BY <1>6 DEF Turn, Live, TeamInv, HasTeamLock
  <2>2. \E s \in States \ {"running"} : state' = [state EXCEPT ![t] = s]
    <3>1. CASE TakeNext(t)
      BY <2>1, <3>1, TakeStops
    <3>2. CASE state' = [state EXCEPT ![t] = "append"]
      BY <3>2 DEF States
    <3> QED BY <1>6, <3>1, <3>2 DEF Turn, NextMessage
  <2>3. ASSUME NEW u \in Tasks, state'[u] = "running" PROVE FALSE
    <3>1. u # t /\ state[u] = "running"
      BY <1>0, <2>2, <2>3 DEF TypeOK
    <3> QED BY <2>1, <3>1 DEF TeamInv, HasTeamLock
  <2> QED BY <2>3 DEF TeamInv
<1>7. ASSUME NEW t \in Tasks, Expire(t) \/ Exit(t)
      PROVE  TeamInv'
  <2>1. team' = team
    BY <1>7 DEF Expire, Exit
  <2>2. \E s \in States \ {"running"} : state' = [state EXCEPT ![t] = s]
    BY <1>7 DEF Expire, Exit, States
  <2> QED BY <1>0, <2>1, <2>2, LeavesLine
<1>8. CASE UNCHANGED vars
  BY <1>8 DEF vars, TeamInv, HasTeamLock
<1> QED
  BY <1>1, <1>2, <1>3, <1>4, <1>5, <1>6, <1>7, <1>8 DEF Next, TaskStep

(* The base invariant is inductive beside the team lock.                    *)
LEMMA BaseStep ==
  ASSUME BaseInv, TeamInv, [Next]_vars
  PROVE  BaseInv'
<1>1. CASE UNCHANGED vars
  BY <1>1 DEF vars, hist, BaseInv, TypeOK, MsgInv, WorkerInv, Live
<1> QED BY <1>1, BaseDispatch, BaseTask DEF Next

-----------------------------------------------------------------------------
(* Every step keeps begun \o queues equal to accepted.                      *)
LEMMA OrderStep ==
  ASSUME BaseInv, InOrder, [Next]_vars
  PROVE  InOrder'
<1>0. TypeOK
  BY DEF BaseInv
<1>1. ASSUME NEW m \in Msgs, Dispatch(m)
      PROVE  InOrder'
  <2>1. KeyOf[m] \in Keys /\ begun' = begun
    BY <1>1, RunnerAssumption DEF Dispatch
  <2>2. CASE Drop(m)
    BY <2>1, <2>2 DEF Drop, InOrder
  <2>3. CASE Enqueue(m)
    <3> DEFINE j == KeyOf[m]
    <3>1. /\ queues' = [queues EXCEPT ![j] = Append(queues[j], m)]
          /\ accepted' = [accepted EXCEPT ![j] = Append(accepted[j], m)]
      BY <2>3 DEF Enqueue, Put
    <3>2. begun[j] \o Append(queues[j], m) = Append(begun[j] \o queues[j], m)
      BY <1>0, <2>1, AppendConcat DEF TypeOK
    <3>3. ASSUME NEW k \in Keys PROVE begun'[k] \o queues'[k] = accepted'[k]
      <4>1. CASE k = j
        BY <1>0, <2>1, <3>1, <3>2, <4>1 DEF TypeOK, InOrder
      <4>2. CASE k # j
        BY <1>0, <2>1, <3>1, <4>2 DEF TypeOK, InOrder
      <4> QED BY <4>1, <4>2
    <3> QED BY <3>3 DEF InOrder
  <2> QED BY <1>1, <2>2, <2>3 DEF Dispatch
<1>2. ASSUME NEW t \in Tasks, Live(t), TakeNext(t), accepted' = accepted
      PROVE  InOrder'
  <2>1. key[t] \in Keys
    BY <1>2 DEF BaseInv, WorkerInv
  <2> QED BY <1>0, <1>2, <2>1, TakeNextEffect DEF InOrder
<1>3. CASE UNCHANGED <<queues, begun, accepted>>
  BY <1>3 DEF InOrder
<1>4. ASSUME NEW t \in Tasks, TaskStep(t) \/ Expire(t)
      PROVE  \/ UNCHANGED <<queues, begun, accepted>>
             \/ Live(t) /\ TakeNext(t) /\ accepted' = accepted
  <2>1. CASE Resume(t)
    BY <2>1 DEF Resume, Live
  <2>2. CASE Exit(t) \/ Acquire(t) \/ Expire(t)
    BY <2>2 DEF Exit, Acquire, Expire, hist
  <2>3. CASE OpenSession(t)
    BY <2>3 DEF OpenSession, NextMessage, hist, Live
  <2>4. CASE Turn(t)
    BY <2>4 DEF Turn, NextMessage, hist, Live
  <2>5. CASE Slash(t) \/ AppendSession(t)
    BY <2>5 DEF Slash, AppendSession, NextMessage, Live
  <2>6. CASE Reply(t)
    BY <2>6 DEF Reply, NextMessage, Live
  <2> QED BY <1>4, <2>1, <2>2, <2>3, <2>4, <2>5, <2>6 DEF TaskStep
<1>5. CASE UNCHANGED vars
  BY <1>3, <1>5 DEF vars, hist
<1> QED BY <1>1, <1>2, <1>3, <1>4, <1>5 DEF Next

(* Nothing taken, nothing queued, nothing accepted.                         *)
LEMMA OrderInit == Init => InOrder
<1> SUFFICES ASSUME Init, NEW k \in Keys
             PROVE  begun[k] \o queues[k] = accepted[k]
  BY DEF InOrder
<1> QED BY EmptySeq, ConcatEmptySeq DEF Init

-----------------------------------------------------------------------------
(* Taking a message leaves a pending wake of its key in the queue, or takes *)
(* the wake, after which nothing is owed.                                   *)
LEMMA TakeCovers ==
  ASSUME TypeOK, DroppedWakeCovered, NEW t \in Tasks, key[t] \in Keys, TakeNext(t)
  PROVE  DroppedWakeCovered'
<1> DEFINE k == key[t]
<1>1. CASE queues[k] = <<>>
  <2>1. queues' = queues /\ waived' = waived
    BY <1>1 DEF TakeNext
  <2> QED BY <2>1 DEF DroppedWakeCovered, HasPendingWake, InQueue
<1>2. CASE queues[k] # <<>>
  <2>1. /\ queues' = [queues EXCEPT ![k] = Tail(@)]
        /\ waived' = IF IsWake(Head(queues[k])) THEN waived \ {k} ELSE waived
    BY <1>2 DEF TakeNext
  <2>2. queues[k] \in Seq(Msgs) /\ queues \in [Keys -> Seq(Msgs)]
    BY DEF TypeOK
  <2>3. \A j \in Keys : queues'[j] = IF j = k THEN Tail(queues[k]) ELSE queues[j]
    BY <2>1, <2>2
  <2>4. ASSUME NEW i \in DOMAIN queues[k], i # 1
        PROVE  i - 1 \in DOMAIN Tail(queues[k]) /\ Tail(queues[k])[i - 1] = queues[k][i]
    BY <1>2, <2>2, <2>4
  <2>5. Head(queues[k]) = queues[k][1]
    BY <1>2, <2>2
  <2> SUFFICES ASSUME NEW j \in waived'
               PROVE  \E m \in Msgs : IsWake(m) /\ \E i \in DOMAIN queues'[j] : queues'[j][i] = m
    BY DEF DroppedWakeCovered, HasPendingWake, InQueue
  <2>6. j \in waived /\ (j = k => ~IsWake(Head(queues[k])))
    BY <2>1
  <2>7. j \in Keys
    BY <2>6 DEF TypeOK
  <2>8. PICK m \in Msgs : IsWake(m) /\ \E i \in DOMAIN queues[j] : queues[j][i] = m
    BY <2>6 DEF DroppedWakeCovered, HasPendingWake, InQueue
  <2>9. CASE j = k
    <3>1. PICK i \in DOMAIN queues[k] : queues[k][i] = m
      BY <2>8, <2>9
    <3>2. i # 1
      BY <2>5, <2>6, <2>8, <2>9, <3>1
    <3>3. i - 1 \in DOMAIN queues'[j] /\ queues'[j][i - 1] = m
      BY <2>3, <2>4, <2>7, <2>9, <3>1, <3>2, Zenon
    <3> QED BY <2>8, <3>3, Zenon
  <2>10. CASE j # k
    BY <2>3, <2>7, <2>8, <2>10, Zenon
  <2> QED BY <2>9, <2>10
<1> QED BY <1>1, <1>2

(* No step lets go of a wake that is owed.                                  *)
LEMMA CoverStep ==
  ASSUME BaseInv, DroppedWakeCovered, [Next]_vars
  PROVE  DroppedWakeCovered'
<1>0. TypeOK
  BY DEF BaseInv
<1>1. CASE UNCHANGED <<queues, waived>>
  BY <1>1 DEF DroppedWakeCovered, HasPendingWake, InQueue
<1>2. ASSUME NEW m \in Msgs, Drop(m)
      PROVE  DroppedWakeCovered'
  BY <1>2 DEF Drop, DroppedWakeCovered, HasPendingWake, InQueue
<1>3. ASSUME NEW m \in Msgs, Enqueue(m)
      PROVE  DroppedWakeCovered'
  <2> DEFINE k == KeyOf[m]
  <2>1. k \in Keys /\ queues \in [Keys -> Seq(Msgs)] /\ waived' = waived /\ waived \in SUBSET Keys
    BY <1>0, <1>3, RunnerAssumption DEF Enqueue, TypeOK
  <2>2. queues' = [queues EXCEPT ![k] = Append(queues[k], m)]
    BY <1>3 DEF Enqueue, Put
  <2>3. \A i \in DOMAIN queues[k] :
          i \in DOMAIN Append(queues[k], m) /\ Append(queues[k], m)[i] = queues[k][i]
    <3>1. queues[k] \in Seq(Msgs)
      BY <2>1
    <3> QED BY <3>1
  <2>4. \A j \in Keys : \A i \in DOMAIN queues[j] :
          i \in DOMAIN queues'[j] /\ queues'[j][i] = queues[j][i]
    BY <2>1, <2>2, <2>3
  <2> QED BY <2>1, <2>4 DEF DroppedWakeCovered, HasPendingWake, InQueue
<1>4. ASSUME NEW t \in Tasks, Live(t), TakeNext(t)
      PROVE  DroppedWakeCovered'
  BY <1>0, <1>4, TakeCovers DEF BaseInv, WorkerInv
<1>5. ASSUME NEW t \in Tasks, TaskStep(t) \/ Expire(t)
      PROVE  UNCHANGED <<queues, waived>> \/ (Live(t) /\ TakeNext(t))
  <2>1. CASE Resume(t) \/ Reply(t)
    BY <2>1 DEF Resume, Reply, NextMessage, Live
  <2>2. CASE Exit(t) \/ Acquire(t) \/ Expire(t)
    BY <2>2 DEF Exit, Acquire, Expire, hist
  <2>3. CASE OpenSession(t) \/ Turn(t)
    BY <2>3 DEF OpenSession, Turn, NextMessage, hist, Live
  <2>4. CASE Slash(t) \/ AppendSession(t)
    BY <2>4 DEF Slash, AppendSession, NextMessage, Live
  <2> QED BY <1>5, <2>1, <2>2, <2>3, <2>4 DEF TaskStep
<1>6. CASE UNCHANGED vars
  BY <1>1, <1>6 DEF vars, hist
<1> QED BY <1>1, <1>2, <1>3, <1>4, <1>5, <1>6 DEF Next, Dispatch

-----------------------------------------------------------------------------
RunnerInv == BaseInv /\ TeamInv /\ InOrder /\ DroppedWakeCovered

(* The inductive invariant holds in every reachable state.                  *)
LEMMA Invariance == Spec => []RunnerInv
<1>1. Init => RunnerInv
  BY BaseInit, TeamInit, OrderInit DEF RunnerInv, Init, DroppedWakeCovered
<1>2. RunnerInv /\ [Next]_vars => RunnerInv'
  BY BaseStep, TeamStep, OrderStep, CoverStep DEF RunnerInv
<1> QED BY <1>1, <1>2, PTL DEF Spec

(* Every variable of the runner keeps its type.                             *)
THEOREM TypeCorrect == Spec => []TypeOK
<1>1. RunnerInv => TypeOK
  BY DEF RunnerInv, BaseInv
<1> QED BY <1>1, Invariance, PTL

(* dispatch and _worker never let two workers serve one routing key.        *)
THEOREM OneWorker == Spec => []OneWorkerPerKey
<1>1. RunnerInv => OneWorkerPerKey
  BY DEF RunnerInv, BaseInv, WorkerInv, OneWorkerPerKey
<1> QED BY <1>1, Invariance, PTL

(* wrap_with_lock: turns of all roles run one at a time.                    *)
THEOREM OneTurn == Spec => []TeamSerial
<1>1. RunnerInv => TeamSerial
  BY DEF RunnerInv, TeamInv, HasTeamLock, TeamSerial
<1> QED BY <1>1, Invariance, PTL

(* No accepted message is lost, doubled or overtaken within its key.        *)
THEOREM OrderKept == Spec => []InOrder
<1>1. RunnerInv => InOrder
  BY DEF RunnerInv
<1> QED BY <1>1, Invariance, PTL

(* dispatch drops a wake only beside one that is still to be handled.       *)
THEOREM WakesCovered == Spec => []DroppedWakeCovered
<1>1. RunnerInv => DroppedWakeCovered
  BY DEF RunnerInv
<1> QED BY <1>1, Invariance, PTL

-----------------------------------------------------------------------------
(* The refinement of Dispatch.                                              *)
Prep == {"slash", "session", "queued"}

(* A line with a message before it, as the prepared one is.                 *)
LEMMA FirstInLine ==
  ASSUME NEW S, NEW m \in S, NEW q \in Seq(S)
  PROVE  /\ <<m>> \o q \in Seq(S) /\ <<m>> \o q # <<>>
         /\ Head(<<m>> \o q) = m /\ Tail(<<m>> \o q) = q
         /\ <<>> \o q = q
<1>1. <<m>> \in Seq(S) /\ Len(<<m>>) = 1 /\ <<m>>[1] = m
  OBVIOUS
<1>2. /\ <<m>> \o q \in Seq(S) /\ Len(<<m>> \o q) = 1 + Len(q)
      /\ Len(q) \in Nat
      /\ \A i \in 1..(1 + Len(q)) :
           (<<m>> \o q)[i] = IF i <= 1 THEN <<m>>[i] ELSE q[i - 1]
  BY <1>1, ConcatProperties
<1>3. <<m>> \o q # <<>>
  BY <1>2, EmptySeq
<1>4. Head(<<m>> \o q) = m
  BY <1>1, <1>2, <1>3, HeadTailProperties
<1>5. Tail(<<m>> \o q) = q
  <2>1. /\ Tail(<<m>> \o q) \in Seq(S) /\ Len(Tail(<<m>> \o q)) = Len(q)
        /\ \A i \in 1..Len(q) : Tail(<<m>> \o q)[i] = (<<m>> \o q)[i + 1]
    BY <1>2, <1>3, HeadTailProperties
  <2>2. \A i \in 1..Len(q) : Tail(<<m>> \o q)[i] = q[i]
    BY <1>2, <2>1
  <2> QED BY <2>1, <2>2, SeqEqual
<1>6. <<>> \o q = q
  BY ConcatEmptySeq
<1> QED BY <1>2, <1>3, <1>4, <1>5, <1>6

(* Taking the head of a line out and putting it in front changes nothing.   *)
LEMMA HeadBack ==
  ASSUME NEW S, NEW q \in Seq(S), q # <<>>
  PROVE  <<Head(q)>> \o Tail(q) = q
<1>1. Append(<<>>, Head(q)) \o Tail(q) = <<>> \o q
  BY MoveHead, EmptySeq
<1>2. Append(<<>>, Head(q)) = <<Head(q)>>
  OBVIOUS
<1> QED BY <1>1, <1>2, ConcatEmptySeq

(* What a task's move shows of its line: the lines of other keys stay, its  *)
(* own begins with the message it prepares.                                 *)
LEMMA MoveLines ==
  ASSUME BaseInv, NEW t \in Tasks, NEW s \in States, Live(t),
         state' = [state EXCEPT ![t] = s], UNCHANGED <<workers, key>>,
         \A u \in Tasks : u # t => msg'[u] = msg[u]
  PROVE  /\ key[t] \in Keys
         /\ Preparing(key[t]) = IF state[t] \in Prep THEN <<msg[t]>> ELSE <<>>
         /\ Preparing(key[t])' = IF s \in Prep THEN <<msg'[t]>> ELSE <<>>
         /\ \A k \in Keys : k # key[t] => Preparing(k)' = Preparing(k)
<1>1. key[t] \in Keys /\ workers[key[t]] = t /\ t # NoOne
  BY RunnerAssumption DEF BaseInv, WorkerInv
<1>2. state'[t] = s /\ \A u \in Tasks : u # t => state'[u] = state[u]
  BY DEF BaseInv, TypeOK
<1>3. ASSUME NEW k \in Keys, k # key[t]
      PROVE  Preparing(k)' = Preparing(k)
  <2>1. CASE workers[k] = NoOne
    BY <2>1 DEF Preparing
  <2>2. CASE workers[k] # NoOne
    <3>1. workers[k] \in Tasks /\ workers[k] # t
      BY <1>3, <2>2 DEF BaseInv, WorkerInv
    <3> QED BY <1>2, <2>2, <3>1 DEF Preparing
  <2> QED BY <2>1, <2>2
<1> QED BY <1>1, <1>2, <1>3 DEF Preparing, Prep

(* ... and of the turns: they change only if it starts or ends one.         *)
LEMMA MoveTurns ==
  ASSUME BaseInv, TeamInv, NEW t \in Tasks, NEW s \in States,
         state' = [state EXCEPT ![t] = s], UNCHANGED key,
         \A u \in Tasks : u # t => msg'[u] = msg[u]
  PROVE  /\ state[t] # "running" /\ s # "running" => TurnsNow' = TurnsNow
         /\ state[t] = "running" /\ s # "running" =>
              TurnsNow # {} /\ TurnsNow' = {}
         /\ HasTeamLock(t) /\ state[t] # "running" /\ s = "running" =>
              TurnsNow = {} /\ TurnsNow' = {<<key[t], msg'[t]>>}
<1>1. state'[t] = s /\ \A u \in Tasks : u # t => state'[u] = state[u]
  BY DEF BaseInv, TypeOK
<1>2. \A u \in Running : HasTeamLock(u)
  BY DEF Running, TeamInv
<1>3. CASE state[t] # "running" /\ s # "running"
  <2>1. Running' = Running /\ t \notin Running
    BY <1>1, <1>3 DEF Running
  <2>2. \A u \in Running : key'[u] = key[u] /\ msg'[u] = msg[u]
    BY <2>1 DEF Running
  <2> QED BY <1>3, <2>1, <2>2 DEF TurnsNow
<1>4. CASE state[t] = "running" /\ s # "running"
  <2>1. Running = {t}
    BY <1>2, <1>4 DEF Running, HasTeamLock
  <2>2. Running' = {}
    BY <1>1, <1>4, <2>1 DEF Running
  <2> QED BY <1>4, <2>1, <2>2 DEF TurnsNow
<1>5. CASE HasTeamLock(t) /\ state[t] # "running" /\ s = "running"
  <2>1. Running = {}
    BY <1>2, <1>5 DEF Running, HasTeamLock
  <2>2. Running' = {t}
    BY <1>1, <1>5, <2>1 DEF Running
  <2> QED BY <1>5, <2>1, <2>2 DEF TurnsNow
<1> QED BY <1>3, <1>4, <1>5

(* A worker that takes its next message, or waits for one, leaves the line  *)
(* of its key without what it handled so far, and the other lines alone.    *)
LEMMA TakeLines ==
  ASSUME BaseInv, NEW t \in Tasks, Live(t), TakeNext(t), UNCHANGED <<workers, key>>
  PROVE  /\ key[t] \in Keys
         /\ \A k \in Keys : LineOf(k)' = IF k = key[t] THEN queues[k] ELSE LineOf(k)
         /\ Preparing(key[t]) = IF state[t] \in Prep THEN <<msg[t]>> ELSE <<>>
         /\ \E s \in States \ {"running"} :
              /\ state' = [state EXCEPT ![t] = s]
              /\ \A u \in Tasks : u # t => msg'[u] = msg[u]
<1> DEFINE j == key[t]
<1>1. TypeOK /\ j \in Keys
  BY DEF BaseInv, WorkerInv
<1>2. PICK s \in {"slash", "session", "wait"} :
        /\ state' = [state EXCEPT ![t] = s]
        /\ \A u \in Tasks : u # t => msg'[u] = msg[u]
  BY <1>1, TakeNextEffect
<1>3. s \in States /\ s # "running"
  BY <1>2 DEF States
<1>4. /\ Preparing(j) = IF state[t] \in Prep THEN <<msg[t]>> ELSE <<>>
      /\ Preparing(j)' = IF s \in Prep THEN <<msg'[t]>> ELSE <<>>
      /\ \A k \in Keys : k # j => Preparing(k)' = Preparing(k)
  BY <1>2, <1>3, MoveLines
<1>5. state'[t] = s
  BY <1>1, <1>2 DEF TypeOK
<1>6. queues[j] \in Seq(Msgs)
  BY <1>1 DEF TypeOK
<1>7. LineOf(j)' = queues[j]
  <2>1. CASE queues[j] # <<>>
    <3>1. /\ queues'[j] = Tail(queues[j]) /\ msg'[t] = Head(queues[j])
          /\ s \in Prep
      BY <1>1, <1>2, <1>5, <2>1 DEF TakeNext, TypeOK, Prep
    <3> QED BY <1>4, <1>6, <2>1, <3>1, HeadBack DEF LineOf
  <2>2. CASE queues[j] = <<>>
    <3>1. queues'[j] = queues[j] /\ s \notin Prep
      BY <1>1, <1>2, <1>5, <2>2 DEF TakeNext, TypeOK, Prep
    <3> QED BY <1>4, <1>6, <3>1, ConcatEmptySeq DEF LineOf
  <2> QED BY <2>1, <2>2
<1>8. \A k \in Keys : k # j => queues'[k] = queues[k]
  BY <1>1 DEF TakeNext, TypeOK
<1>9. \A k \in Keys : k # j => LineOf(k)' = LineOf(k)
  BY <1>4, <1>8 DEF LineOf
<1> QED BY <1>1, <1>2, <1>3, <1>4, <1>7, <1>9

(* What a step has to show, line by line, to be one of the dispatcher's.    *)
LineGoes(k, l) ==
  \A j \in Keys : LineOf(j)' = IF j = k THEN l ELSE LineOf(j)

LEMMA LineSteps ==
  ASSUME NEW k \in Keys
  PROVE  /\ \A m \in Msgs :
              LineGoes(k, Append(LineOf(k), m)) /\ TurnsNow' = TurnsNow
                => Lines!Put(k, m)
         /\ /\ LineOf(k) # <<>> /\ LineGoes(k, Tail(LineOf(k)))
            /\ TurnsNow' = TurnsNow
            => Lines!Skip(k)
         /\ /\ LineOf(k) # <<>> /\ LineGoes(k, Tail(LineOf(k)))
            /\ TurnsNow = {} /\ TurnsNow' = {<<k, Head(LineOf(k))>>}
            => Lines!Begin(k)
         /\ LineGoes(k, LineOf(k)) /\ TurnsNow # {} /\ TurnsNow' = {} => Lines!End
         /\ LineGoes(k, LineOf(k)) /\ TurnsNow' = TurnsNow
              => UNCHANGED Lines!dvars
<1>1. ASSUME NEW l, LineGoes(k, l)
      PROVE  AllLines' = [AllLines EXCEPT ![k] = l]
  BY <1>1 DEF LineGoes, AllLines
<1>2. AllLines[k] = LineOf(k) /\ [AllLines EXCEPT ![k] = LineOf(k)] = AllLines
  BY DEF AllLines
<1>3. ASSUME NEW m \in Msgs, LineGoes(k, Append(LineOf(k), m)), TurnsNow' = TurnsNow
      PROVE  Lines!Put(k, m)
  BY <1>1, <1>2, <1>3 DEF Lines!Put
<1>4. ASSUME LineOf(k) # <<>>, LineGoes(k, Tail(LineOf(k)))
      PROVE  /\ TurnsNow' = TurnsNow => Lines!Skip(k)
             /\ TurnsNow = {} /\ TurnsNow' = {<<k, Head(LineOf(k))>>} => Lines!Begin(k)
  BY <1>1, <1>2, <1>4 DEF Lines!Skip, Lines!Begin
<1>5. ASSUME LineGoes(k, LineOf(k))
      PROVE  /\ TurnsNow # {} /\ TurnsNow' = {} => Lines!End
             /\ TurnsNow' = TurnsNow => UNCHANGED Lines!dvars
  BY <1>1, <1>2, <1>5 DEF Lines!End, Lines!dvars
<1> QED BY <1>3, <1>4, <1>5

(* dispatch: a duplicate wake is dropped, anything else joins its line.     *)
LEMMA DispatchPuts ==
  ASSUME BaseInv, NEW m \in Msgs, Dispatch(m)
  PROVE  Lines!Serve \/ UNCHANGED Lines!dvars
<1> DEFINE k == KeyOf[m]
<1>0. TypeOK /\ k \in Keys
  BY RunnerAssumption DEF BaseInv
<1>1. CASE Drop(m)
  <2>1. UNCHANGED <<queues, workers, state, key, msg>>
    BY <1>1 DEF Drop, Dispatch
  <2>2. LineGoes(k, LineOf(k)) /\ TurnsNow' = TurnsNow
    BY <2>1 DEF LineGoes, LineOf, Preparing, TurnsNow, Running
  <2> QED BY <1>0, <2>2, LineSteps
<1>2. CASE Enqueue(m)
  <2>1. queues' = [queues EXCEPT ![k] = Append(@, m)] /\ msg' = msg
    BY <1>2 DEF Enqueue, Put, Dispatch
  <2>2. \A j \in Keys : Preparing(j)' = Preparing(j)
    <3>1. CASE UNCHANGED <<workers, state, key>>
      BY <2>1, <3>1 DEF Preparing
    <3>2. CASE /\ NoWorker(k)
               /\ \E t \in Tasks :
                    /\ state[t] = "free"
                    /\ workers' = [workers EXCEPT ![k] = t]
                    /\ state' = [state EXCEPT ![t] = "new"]
                    /\ key' = [key EXCEPT ![t] = k]
      <4>1. PICK t \in Tasks : /\ state[t] = "free"
                               /\ workers' = [workers EXCEPT ![k] = t]
                               /\ state' = [state EXCEPT ![t] = "new"]
        BY <3>2
      <4>2. Preparing(k) = <<>>
        BY <3>2 DEF NoWorker, Preparing
      <4>3. workers'[k] = t /\ state'[t] = "new"
        BY <1>0, <4>1 DEF TypeOK
      <4>4. Preparing(k)' = <<>>
        BY <4>3 DEF Preparing
      <4>5. ASSUME NEW j \in Keys, j # k
            PROVE  Preparing(j)' = Preparing(j)
        <5>1. workers'[j] = workers[j]
          BY <1>0, <4>1, <4>5 DEF TypeOK
        <5>2. CASE workers[j] # NoOne
          <6>1. workers[j] \in Tasks /\ workers[j] # t
            BY <4>1, <5>2 DEF BaseInv, WorkerInv, Live
          <6>2. state'[workers[j]] = state[workers[j]]
            BY <1>0, <4>1, <6>1 DEF TypeOK
          <6> QED BY <2>1, <5>1, <6>2 DEF Preparing
        <5>3. CASE workers[j] = NoOne
          BY <5>1, <5>3 DEF Preparing
        <5> QED BY <5>2, <5>3
      <4> QED BY <4>2, <4>4, <4>5
    <3> QED BY <1>2, <3>1, <3>2 DEF Enqueue
  <2>3. TurnsNow' = TurnsNow
    <3>1. \A u \in Tasks : /\ state'[u] = "running" <=> state[u] = "running"
                           /\ state[u] = "running" => key'[u] = key[u]
      BY <1>0, <1>2 DEF Enqueue, TypeOK
    <3>2. Running' = Running /\ \A u \in Running : key'[u] = key[u]
      BY <3>1 DEF Running
    <3> QED BY <2>1, <3>2 DEF TurnsNow
  <2>4. Preparing(k) \in Seq(Msgs) /\ queues[k] \in Seq(Msgs)
    <3>1. queues[k] \in Seq(Msgs)
      BY <1>0 DEF TypeOK
    <3>2. CASE workers[k] # NoOne /\ state[workers[k]] \in Prep
      <4>1. msg[workers[k]] \in Msgs
        BY <1>0, <3>2 DEF BaseInv, WorkerInv, MsgInv, Working, Prep
      <4> QED BY <3>1, <3>2, <4>1 DEF Preparing, Prep
    <3>3. CASE ~(workers[k] # NoOne /\ state[workers[k]] \in Prep)
      BY <3>1, <3>3, EmptySeq DEF Preparing, Prep
    <3> QED BY <3>2, <3>3
  <2>5. Preparing(k) \o Append(queues[k], m) = Append(LineOf(k), m)
    <3>1. \A b, q \in Seq(Msgs) : b \o Append(q, m) = Append(b \o q, m)
      BY AppendConcat
    <3> QED BY <2>4, <3>1, Zenon DEF LineOf
  <2>6. /\ queues'[k] = Append(queues[k], m)
        /\ \A j \in Keys : j # k => queues'[j] = queues[j]
    BY <1>0, <2>1 DEF TypeOK
  <2>7. LineGoes(k, Append(LineOf(k), m))
    BY <2>2, <2>5, <2>6 DEF LineGoes, LineOf
  <2>8. Lines!Put(k, m)
    BY <1>0, <2>3, <2>7, LineSteps
  <2> QED BY <1>0, <2>8 DEF Lines!Serve
<1> QED BY <1>1, <1>2 DEF Dispatch

(* A worker that prepares nothing and turns to its queue is not seen; one   *)
(* whose slash command or session failed skips a message; one whose turn    *)
(* failed ends it.                                                          *)
LEMMA TakeServes ==
  ASSUME BaseInv, TeamInv, NEW t \in Tasks, Live(t), TakeNext(t),
         UNCHANGED <<workers, key>>
  PROVE  Lines!Serve \/ UNCHANGED Lines!dvars
<1>0. PICK k \in Keys : k = key[t]
  BY DEF BaseInv, WorkerInv
<1>1. /\ LineGoes(k, queues[k])
      /\ Preparing(k) = IF state[t] \in Prep THEN <<msg[t]>> ELSE <<>>
  BY <1>0, TakeLines DEF LineGoes
<1>2. PICK s \in States \ {"running"} :
        /\ state' = [state EXCEPT ![t] = s]
        /\ \A u \in Tasks : u # t => msg'[u] = msg[u]
  BY TakeLines
<1>3. /\ state[t] # "running" => TurnsNow' = TurnsNow
      /\ state[t] = "running" => TurnsNow # {} /\ TurnsNow' = {}
  BY <1>2, MoveTurns
<1>4. queues[k] \in Seq(Msgs)
  BY DEF BaseInv, TypeOK
<1>5. CASE state[t] \in Prep
  <2>1. msg[t] \in Msgs
    BY <1>5 DEF BaseInv, MsgInv, Prep, Working
  <2>2. LineOf(k) # <<>> /\ Tail(LineOf(k)) = queues[k]
    BY <1>1, <1>4, <1>5, <2>1, FirstInLine DEF LineOf
  <2>3. Lines!Skip(k)
    BY <1>1, <1>3, <1>5, <2>2, LineSteps DEF Prep
  <2> QED BY <2>3 DEF Lines!Serve
<1>6. CASE state[t] \notin Prep
  <2>1. LineOf(k) = queues[k]
    BY <1>1, <1>4, <1>6, ConcatEmptySeq DEF LineOf
  <2>2. Lines!End \/ UNCHANGED Lines!dvars
    BY <1>1, <1>3, <2>1, LineSteps
  <2> QED BY <2>2 DEF Lines!Serve
<1> QED BY <1>5, <1>6

(* The moves of a worker within the handling of a message.                  *)
LEMMA MoveServes ==
  ASSUME BaseInv, TeamInv, NEW t \in Tasks, NEW s \in States, Live(t),
         state' = [state EXCEPT ![t] = s],
         UNCHANGED <<queues, workers, key, msg>>,
         \/ state[t] \in Prep /\ s \in Prep
         \/ state[t] \notin Prep /\ s \notin Prep /\ s # "running"
         \/ state[t] \in Prep /\ s \notin Prep /\ s # "running"
         \/ state[t] \in Prep /\ s = "running" /\ HasTeamLock(t)
  PROVE  Lines!Serve \/ UNCHANGED Lines!dvars
<1> DEFINE k == key[t]
<1>1. /\ k \in Keys
      /\ Preparing(k) = IF state[t] \in Prep THEN <<msg[t]>> ELSE <<>>
      /\ Preparing(k)' = IF s \in Prep THEN <<msg[t]>> ELSE <<>>
      /\ \A j \in Keys : j # k => Preparing(j)' = Preparing(j)
  BY MoveLines
<1>2. queues[k] \in Seq(Msgs)
  BY <1>1 DEF BaseInv, TypeOK
<1>3. CASE (state[t] \in Prep) = (s \in Prep) /\ s # "running"
  <2>1. LineGoes(k, LineOf(k))
    BY <1>1, <1>3 DEF LineGoes, LineOf
  <2>2. \/ TurnsNow' = TurnsNow
        \/ TurnsNow # {} /\ TurnsNow' = {}
    BY <1>3, MoveTurns
  <2> QED BY <1>1, <2>1, <2>2, LineSteps DEF Lines!Serve
<1>4. CASE state[t] \in Prep /\ s \notin Prep
  <2>1. msg[t] \in Msgs
    BY <1>4 DEF BaseInv, MsgInv, Prep, Working
  <2>2. /\ LineOf(k) # <<>> /\ Tail(LineOf(k)) = queues[k]
        /\ Head(LineOf(k)) = msg[t]
    BY <1>1, <1>2, <1>4, <2>1, FirstInLine DEF LineOf
  <2>3. LineGoes(k, Tail(LineOf(k)))
    BY <1>1, <1>2, <1>4, <2>2, ConcatEmptySeq DEF LineGoes, LineOf
  <2>4. CASE s # "running"
    BY <1>1, <1>4, <2>2, <2>3, <2>4, MoveTurns, LineSteps DEF Prep, Lines!Serve
  <2>5. CASE s = "running"
    <3>1. HasTeamLock(t)
      BY <1>4, <2>5
    <3>2. TurnsNow = {} /\ TurnsNow' = {<<k, Head(LineOf(k))>>}
      BY <1>4, <2>2, <2>5, <3>1, MoveTurns DEF Prep
    <3> QED BY <1>1, <2>2, <2>3, <3>2, LineSteps DEF Lines!Serve
  <2> QED BY <2>4, <2>5
<1> QED BY <1>3, <1>4 DEF Prep

(* The steps of one task.                                                   *)
LEMMA TaskServes ==
  ASSUME BaseInv, TeamInv, NEW t \in Tasks, TaskStep(t) \/ Expire(t)
  PROVE  Lines!Serve \/ UNCHANGED Lines!dvars
<1>1. CASE Resume(t)
  BY <1>1, TakeServes DEF Resume, Live
<1>2. CASE Expire(t)
  <2>1. "expired" \in States /\ Live(t) /\ "wait" \notin Prep /\ "expired" \notin Prep
    BY <1>2 DEF States, Expire, Live, Prep
  <2> QED BY <1>2, <2>1, MoveServes DEF Expire
<1>3. CASE Exit(t)
  <2>0. PICK k \in Keys : k = key[t]
    BY <1>3 DEF BaseInv, WorkerInv, Live, Exit
  <2>1. TypeOK /\ workers[k] = t /\ state[t] = "expired"
    BY <1>3, <2>0 DEF BaseInv, WorkerInv, Live, Exit
  <2>2. /\ state' = [state EXCEPT ![t] = "free"]
        /\ workers' = [workers EXCEPT ![k] = NoOne]
        /\ key' = [key EXCEPT ![t] = NoOne]
        /\ UNCHANGED <<queues, msg>>
    BY <1>3, <2>0 DEF Exit
  <2>3. Preparing(k) = <<>> /\ Preparing(k)' = <<>>
    BY <2>1, <2>2 DEF Preparing, TypeOK
  <2>4. ASSUME NEW j \in Keys, j # k
        PROVE  Preparing(j)' = Preparing(j)
    <3>1. workers'[j] = workers[j]
      BY <2>1, <2>2, <2>4 DEF TypeOK
    <3>2. CASE workers[j] = NoOne
      BY <3>1, <3>2 DEF Preparing
    <3>3. CASE workers[j] # NoOne
      <4>1. workers[j] \in Tasks /\ workers[j] # t
        BY <2>0, <2>4, <3>3 DEF BaseInv, WorkerInv
      <4>2. state'[workers[j]] = state[workers[j]]
        BY <2>1, <2>2, <4>1 DEF TypeOK
      <4> QED BY <2>2, <3>1, <4>2 DEF Preparing
    <3> QED BY <3>2, <3>3
  <2>5. TurnsNow' = TurnsNow
    <3>1. Running' = Running /\ t \notin Running
      BY <2>1, <2>2 DEF Running, TypeOK
    <3>2. \A u \in Running : key'[u] = key[u]
      BY <2>1, <2>2, <3>1 DEF Running, TypeOK
    <3> QED BY <2>2, <3>1, <3>2 DEF TurnsNow
  <2>6. LineGoes(k, LineOf(k))
    BY <2>2, <2>3, <2>4 DEF LineGoes, LineOf
  <2> QED BY <2>5, <2>6, LineSteps
<1>4. CASE Slash(t)
  <2>1. state[t] = "slash" /\ Live(t) /\ UNCHANGED <<workers, key>>
    BY <1>4 DEF Slash, Live
  <2>2. CASE state' = [state EXCEPT ![t] = "reply"] /\ UNCHANGED <<queues, msg>>
    BY <2>1, <2>2, MoveServes DEF States, Prep
  <2> QED BY <1>4, <2>1, <2>2, TakeServes DEF Slash, NextMessage
<1>5. CASE OpenSession(t)
  <2>1. state[t] = "session" /\ Live(t) /\ UNCHANGED <<workers, key>>
    BY <1>5 DEF OpenSession, Live
  <2>2. CASE state' = [state EXCEPT ![t] = "queued"] /\ UNCHANGED <<queues, msg>>
    BY <2>1, <2>2, MoveServes DEF States, Prep
  <2> QED BY <1>5, <2>1, <2>2, TakeServes DEF OpenSession, NextMessage
<1>6. CASE Acquire(t)
  <2>1. state[t] = "queued" /\ Live(t) /\ HasTeamLock(t)
    BY <1>6 DEF Acquire, Live
  <2> QED BY <1>6, <2>1, MoveServes DEF Acquire, States, Prep
<1>7. CASE Turn(t)
  <2>1. state[t] = "running" /\ Live(t) /\ UNCHANGED <<workers, key>>
    BY <1>7 DEF Turn, Live
  <2>2. CASE state' = [state EXCEPT ![t] = "append"] /\ UNCHANGED <<queues, msg>>
    BY <2>1, <2>2, MoveServes DEF States, Prep
  <2> QED BY <1>7, <2>1, <2>2, TakeServes DEF Turn, NextMessage
<1>8. CASE AppendSession(t)
  <2>1. state[t] = "append" /\ Live(t) /\ UNCHANGED <<workers, key>>
    BY <1>8 DEF AppendSession, Live
  <2>2. CASE state' = [state EXCEPT ![t] = "reply"] /\ UNCHANGED <<queues, msg>>
    BY <2>1, <2>2, MoveServes DEF States, Prep
  <2> QED BY <1>8, <2>1, <2>2, TakeServes DEF AppendSession, NextMessage
<1>9. CASE Reply(t)
  BY <1>9, TakeServes DEF Reply, NextMessage, Live
<1> QED BY <1>1, <1>2, <1>3, <1>4, <1>5, <1>6, <1>7, <1>8, <1>9 DEF TaskStep

(* An empty runner is an empty dispatcher.                                  *)
LEMMA LinesInit == Init => Lines!Init
<1> SUFFICES ASSUME Init PROVE Lines!Init
  OBVIOUS
<1>1. \A k \in Keys : LineOf(k) = <<>>
  BY EmptySeq, ConcatEmptySeq DEF Init, LineOf, Preparing
<1>2. TurnsNow = {}
  BY DEF Init, TurnsNow, Running
<1> QED BY <1>1, <1>2 DEF Lines!Init, AllLines

(* dispatch, the workers with their idle exits, and the team lock together  *)
(* implement the abstract serial dispatcher.                                *)
THEOREM RunnerIsADispatcher == Spec => ImplementsDispatch
<1>1. RunnerInv /\ [Next]_vars => [Lines!Serve]_(Lines!dvars)
  <2> SUFFICES ASSUME RunnerInv, [Next]_vars
               PROVE  Lines!Serve \/ UNCHANGED Lines!dvars
    OBVIOUS
  <2>1. BaseInv /\ TeamInv
    BY DEF RunnerInv
  <2>2. CASE UNCHANGED vars
    BY <2>2 DEF vars, hist, Lines!dvars, AllLines, LineOf, Preparing, TurnsNow, Running
  <2> QED BY <2>1, <2>2, DispatchPuts, TaskServes DEF Next
<1> QED BY <1>1, LinesInit, Invariance, PTL
     DEF Spec, ImplementsDispatch, Lines!LiveSpec
=============================================================================
