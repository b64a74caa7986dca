------------------------------- MODULE Runner -------------------------------
(***************************************************************************)
(* runner.py: one queue and at most one worker task per routing key, and   *)
(* the team lock of agents/build.py that lets one agent turn run at a time *)
(* across all keys.  Code between two awaits is one step: dispatch never   *)
(* suspends (nobody holds _dispatch_lock across an await), a worker        *)
(* suspends in wait_for(queue.get()), in the session manager, on the team  *)
(* lock, in the turn itself and in the reply.  The idle timer may fire     *)
(* whenever a worker is suspended in wait_for, and what is dispatched      *)
(* between that moment and the worker's next step stays in the queue.      *)
(***************************************************************************)
EXTENDS Naturals, Sequences, FiniteSets

CONSTANTS
  Msgs,      (* inbound messages                                           *)
  Keys,      (* routing keys                                               *)
  TeamKeys,  (* those of the form team:{role}; their turns send no reply   *)
  KeyOf,     (* the routing key of each message                            *)
  KindOf,    (* what each message is                                       *)
  Tasks,     (* pool of asyncio tasks (a finished task is free again)      *)
  NoOne      (* no task, no message                                        *)

(* "chat": a person's text; "slash": a command handled without an agent;    *)
(* "wake": meta.wake_reason is new_mail or heartbeat; "cron": what          *)
(* CronService._fire builds, the same text without any meta.                *)
Kinds == {"chat", "slash", "wake", "cron"}

ASSUME RunnerAssumption ==
  /\ TeamKeys \subseteq Keys
  /\ KeyOf \in [Msgs -> Keys]
  /\ KindOf \in [Msgs -> Kinds]
  /\ NoOne \notin Tasks \union Msgs \union Keys

VARIABLES
  queues,    (* self._queues                                               *)
  workers,   (* self._workers                                              *)
  state,     (* where each task is suspended                               *)
  key,       (* the routing key of each task                               *)
  msg,       (* the message each task handles                              *)
  team,      (* the team lock: its holder first, then the waiters          *)
  arrived,   (* messages handed to dispatch so far                         *)
  accepted,  (* history: per key, the messages enqueued, in order          *)
  begun,     (* history: per key, the messages taken, in order             *)
  finished,  (* history: messages whose handling ended, well or not        *)
  waived     (* history: keys with a wake dropped and none begun since     *)

hist == <<accepted, begun, finished, waived>>
vars == <<queues, workers, state, key, msg, team, arrived, hist>>

States == {"free", "new", "wait", "expired",
           "slash", "session", "queued", "running", "append", "reply"}

(* Types of all variables.                                                  *)
TypeOK ==
  /\ queues \in [Keys -> Seq(Msgs)]
  /\ workers \in [Keys -> Tasks \union {NoOne}]
  /\ state \in [Tasks -> States]
  /\ key \in [Tasks -> Keys \union {NoOne}]
  /\ msg \in [Tasks -> Msgs \union {NoOne}]
  /\ team \in Seq(Tasks)
  /\ arrived \in SUBSET Msgs
  /\ accepted \in [Keys -> Seq(Msgs)]
  /\ begun \in [Keys -> Seq(Msgs)]
  /\ finished \in SUBSET Msgs
  /\ waived \in SUBSET Keys

Init ==
  /\ queues = [k \in Keys |-> <<>>]
  /\ workers = [k \in Keys |-> NoOne]
  /\ state = [t \in Tasks |-> "free"]
  /\ key = [t \in Tasks |-> NoOne]
  /\ msg = [t \in Tasks |-> NoOne]
  /\ team = <<>>
  /\ arrived = {}
  /\ accepted = [k \in Keys |-> <<>>]
  /\ begun = [k \in Keys |-> <<>>]
  /\ finished = {}
  /\ waived = {}

-----------------------------------------------------------------------------
IsWake(m) == KindOf[m] = "wake"

(* A wake is pending while it is in the queue; the one being handled may    *)
(* have read its inbox already.  Mutant: the handled one counts as well.    *)
InQueue(m, k) == \E i \in DOMAIN queues[k] : queues[k][i] = m

PendingOrHandled(k) ==
  \/ \E m \in Msgs : IsWake(m) /\ InQueue(m, k)
  \/ \E t \in Tasks : key[t] = k /\ msg[t] # NoOne /\ IsWake(msg[t])
HasPendingWake(k) == \E m \in Msgs : IsWake(m) /\ InQueue(m, k)

(* queue.put_nowait.  Mutant: newest first.                                 *)
PutFirst(q, m) == <<m>> \o q
Put(q, m) == Append(q, m)

(* (worker := self._workers.get(key)) is None or worker.done().  Mutant: an *)
(* idle worker counts as none.                                              *)
NoBusyWorker(k) == workers[k] # NoOne => state[workers[k]] = "wait"
NoWorker(k) == workers[k] = NoOne

(* dispatch: a wake beside a pending wake is dropped, anything else goes to *)
(* its key's queue; a key without a worker gets one.                        *)
Drop(m) ==
  /\ IsWake(m)
  /\ HasPendingWake(KeyOf[m])
  /\ waived' = waived \union {KeyOf[m]}
  /\ UNCHANGED <<queues, workers, state, key, accepted>>

Enqueue(m) ==
  LET k == KeyOf[m] IN
  /\ ~(IsWake(m) /\ HasPendingWake(k))
  /\ queues' = [queues EXCEPT ![k] = Put(@, m)]
  /\ accepted' = [accepted EXCEPT ![k] = Append(@, m)]
  /\ \/ /\ NoWorker(k)
        /\ \E t \in Tasks :
             /\ state[t] = "free"
             /\ workers' = [workers EXCEPT ![k] = t]
             /\ state' = [state EXCEPT ![t] = "new"]
             /\ key' = [key EXCEPT ![t] = k]
     \/ /\ ~NoWorker(k)
        /\ UNCHANGED <<workers, state, key>>
  /\ UNCHANGED waived

Dispatch(m) ==
  /\ m \notin arrived
  /\ arrived' = arrived \union {m}
  /\ Drop(m) \/ Enqueue(m)
  /\ UNCHANGED <<msg, team, begun, finished>>

-----------------------------------------------------------------------------
(* _worker: take the next message if there is one, suspend in wait_for      *)
(* otherwise.  Slash commands need no session history and no agent.         *)
TakeNext(t) ==
  LET k == key[t] IN
  IF queues[k] # <<>>
  THEN LET m == Head(queues[k]) IN
       /\ queues' = [queues EXCEPT ![k] = Tail(@)]
       /\ msg' = [msg EXCEPT ![t] = m]
       /\ state' = [state EXCEPT ![t] =
                      IF KindOf[m] = "slash" THEN "slash" ELSE "session"]
       /\ begun' = [begun EXCEPT ![k] = Append(@, m)]
       /\ waived' = IF IsWake(m) THEN waived \ {k} ELSE waived
  ELSE /\ msg' = [msg EXCEPT ![t] = NoOne]
       /\ state' = [state EXCEPT ![t] = "wait"]
       /\ UNCHANGED <<queues, begun, waived>>

(* _handle returned, or raised and was logged: the loop goes on.            *)
NextMessage(t) ==
  /\ finished' = finished \union {msg[t]}
  /\ TakeNext(t)

Resume(t) ==
  /\ \/ state[t] = "new"
     \/ state[t] = "wait" /\ queues[key[t]] # <<>>
  /\ TakeNext(t)
  /\ UNCHANGED <<workers, key, team, arrived, accepted, finished>>

(* The idle timer fires; the worker notices at its next step, whatever has  *)
(* been put into the queue since.                                           *)
Expire(t) ==
  /\ state[t] = "wait"
  /\ state' = [state EXCEPT ![t] = "expired"]
  /\ UNCHANGED <<queues, workers, key, msg, team, arrived, hist>>

(* except TimeoutError: break; finally: pop the worker.                     *)
Exit(t) ==
  /\ state[t] = "expired"
  /\ state' = [state EXCEPT ![t] = "free"]
  /\ workers' = [workers EXCEPT ![key[t]] = NoOne]
  /\ key' = [key EXCEPT ![t] = NoOne]
  /\ UNCHANGED <<queues, msg, team, arrived, hist>>

(* _handle_slash asks the session manager, which may raise; then the reply. *)
Slash(t) ==
  /\ state[t] = "slash"
  /\ \/ /\ state' = [state EXCEPT ![t] = "reply"]
        /\ UNCHANGED <<queues, msg, begun, finished, waived>>
     \/ NextMessage(t)
  /\ UNCHANGED <<workers, key, team, arrived, accepted>>

(* get_or_create, load_history and _pick_agent_fn; each may raise.  Then    *)
(* the agent function asks for the team lock, first come first served.      *)
OpenSession(t) ==
  /\ state[t] = "session"
  /\ \/ /\ state' = [state EXCEPT ![t] = "queued"]
        /\ team' = Append(team, t)
        /\ UNCHANGED <<queues, msg, hist>>
     \/ /\ NextMessage(t)
        /\ UNCHANGED <<team, accepted>>
  /\ UNCHANGED <<workers, key, arrived>>

(* async with lock, shared by the agent functions of all roles.  Mutant:    *)
(* every agent function has a lock of its own.                              *)
OwnLock(t) == TRUE
HasTeamLock(t) == team # <<>> /\ Head(team) = t

Acquire(t) ==
  /\ state[t] = "queued"
  /\ HasTeamLock(t)
  /\ state' = [state EXCEPT ![t] = "running"]
  /\ UNCHANGED <<queues, workers, key, msg, team, arrived, hist>>

(* The with-block passes the lock on, also when the turn raised.  Mutant:   *)
(* only after a turn that returned.                                         *)
KeptOnError(ok) == IF ok THEN Tail(team) ELSE team
PassedOn(ok) == Tail(team)

Turn(t) ==
  /\ state[t] = "running"
  /\ \/ /\ state' = [state EXCEPT ![t] = "append"]
        /\ team' = PassedOn(TRUE)
        /\ UNCHANGED <<queues, msg, hist>>
     \/ /\ NextMessage(t)
        /\ team' = PassedOn(FALSE)
        /\ UNCHANGED accepted
  /\ UNCHANGED <<workers, key, arrived>>

(* session_mgr.append (it may raise), and the reply if a person waits.      *)
AppendSession(t) ==
  /\ state[t] = "append"
  /\ \/ /\ key[t] \notin TeamKeys
        /\ state' = [state EXCEPT ![t] = "reply"]
        /\ UNCHANGED <<queues, msg, begun, finished, waived>>
     \/ NextMessage(t)
  /\ UNCHANGED <<workers, key, team, arrived, accepted>>

(* _send_reply logs what the sender raises.                                 *)
Reply(t) ==
  /\ state[t] = "reply"
  /\ NextMessage(t)
  /\ UNCHANGED <<workers, key, team, arrived, accepted>>

TaskStep(t) ==
  \/ Resume(t) \/ Exit(t) \/ Slash(t) \/ OpenSession(t)
  \/ Acquire(t) \/ Turn(t) \/ AppendSession(t) \/ Reply(t)

Next ==
  \/ \E m \in Msgs : Dispatch(m)
  \/ \E t \in Tasks : TaskStep(t)
  \/ \E t \in Tasks : Expire(t)

Spec == Init /\ [][Next]_vars

(* The event loop runs every ready task, and every turn ends.               *)
FairSpec == Spec /\ \A t \in Tasks : WF_vars(TaskStep(t))

-----------------------------------------------------------------------------
Live(t) == state[t] # "free"
Handling(t) == msg[t] # NoOne

(* A routing key never has two workers.                                     *)
OneWorkerPerKey ==
  \A t, u \in Tasks : Live(t) /\ Live(u) /\ key[t] = key[u] => t = u

(* Turns of all roles run one at a time: CrewAI's hooks are global.         *)
TeamSerial ==
  \A t, u \in Tasks : state[t] = "running" /\ state[u] = "running" => t = u

(* Messages of a key are taken in the order they were accepted, none lost,  *)
(* none twice, across exits and restarts of its worker.                     *)
InOrder == \A k \in Keys : begun[k] \o queues[k] = accepted[k]

(* Seen from the messages: those accepted and not begun, after the one the  *)
(* key's worker prepares, and the turns that run.                           *)
Preparing(k) ==
  IF workers[k] # NoOne /\ state[workers[k]] \in {"slash", "session", "queued"}
  THEN <<msg[workers[k]]>>
  ELSE <<>>

LineOf(k) == Preparing(k) \o queues[k]
AllLines == [k \in Keys |-> LineOf(k)]

Running == {t \in Tasks : state[t] = "running"}
TurnsNow == {<<key[t], msg[t]>> : t \in Running}

Lines == INSTANCE Dispatch WITH
  Items <- Msgs, line <- AllLines, turns <- TurnsNow

(* Workers that come and go, their queues and the lock behind which turns   *)
(* of all keys wait are, together, one serial dispatcher.                   *)
ImplementsDispatch == Lines!LiveSpec

(* A dropped wake loses nothing: a wake of its key is still to be handled.  *)
DroppedWakeCovered == \A k \in waived : HasPendingWake(k)

(* A message that waits behind a busy worker is handled, whatever turns     *)
(* fail and however other keys compete for the team lock.                   *)
Served ==
  \A m \in Msgs :
    (\E t \in Tasks : Handling(t) /\ InQueue(m, key[t])) ~> m \in finished

(* A queue with messages has a worker.                                      *)
NoneStranded == \A k \in Keys : queues[k] # <<>> => workers[k] # NoOne
=============================================================================
