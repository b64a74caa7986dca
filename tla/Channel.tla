------------------------------ MODULE Channel ------------------------------
(***************************************************************************)
(* A chat message on its way through the process: pushed by Feishu to      *)
(* feishu/listener.py, queued and handled by runner.py, its turn saved by  *)
(* agents/build.py and indexed by memory/indexer.py, its reply sent by     *)
(* feishu/sender.py; and the messages send_to_human sends meanwhile.       *)
(*                                                                         *)
(* Feishu is external: it pushes an event at least once, and it drops a    *)
(* message whose uuid it has already accepted.  The hop from the           *)
(* WebSocket thread to the event loop is first in, first out and part of   *)
(* Push; how often a key has a worker, and the team lock, are in Runner,   *)
(* the turn's inside in AgentTurn, the saved context in Conversation.  A   *)
(* run <<m, n>> is the handling of the n-th push of message m.             *)
(***************************************************************************)
EXTENDS Integers, FiniteSets, SequencesExt

CONSTANTS
  Msgs,          \* messages and other events
  Event,         \* [Msgs -> what the payload holds]
  AllowedChats,  \* allowed_chats; {} allows all
  None,          \* a field that is not there, an empty uuid
  MaxRetries,    \* FeishuSender.max_retries
  MaxPushes,     \* bound: pushes of one message
  Repeated,      \* bound: the messages pushed more than once
  MaxHuman,      \* bound: calls of send_to_human
  MaxCrashes     \* bound: restarts of the process

ASSUME ChannelAssumption ==
  /\ MaxRetries > 0 /\ None \notin Msgs
  /\ MaxPushes \in Nat /\ MaxHuman \in Nat /\ MaxCrashes \in Nat

VARIABLES
  pushes,    \* [Msgs -> times Feishu pushed it]
  queue,     \* [Keys -> runs waiting in the routing key's queue]
  task,      \* [Keys -> where the key's worker task is in its loop]
  worker,    \* [Keys -> what that worker is doing]
  saved,     \* runs whose context is on disk
  log,       \* [Keys -> runs in the session's JSONL]
  indexing,  \* runs whose index task is under way
  rows,      \* runs in the memories table
  threads,   \* sender threads of send_to_human
  human,     \* calls of send_to_human
  seen,      \* uuids Feishu has accepted
  shown,     \* [Keys -> runs whose reply the chat shows, in order]
  copies,    \* [1..MaxHuman -> times a chat shows what send_to_human sent]
  sent,      \* history: runs whose send came back with success
  failed,    \* history: runs that raised, or whose send was given up
  doubts,    \* history: [1..MaxHuman -> accepted posts whose answer was lost]
  crashes

process == <<queue, task, worker, indexing, threads>>
disk == <<saved, log, rows>>
feishu == <<seen, shown, copies>>
history == <<sent, failed, doubts>>
vars == <<pushes, process, disk, human, feishu, history, crashes>>

----------------------------------------------------------------------------
\* listener.py

\* resolve_routing_key
RoutingKey(m) ==
  LET e == Event[m]
  IN  IF e.chat_type = "p2p" THEN <<"p2p", e.sender>>
      ELSE IF e.thread # None THEN <<"thread", e.chat, e.thread>>
      ELSE <<"group", e.chat>>

\* do_without_validation: what is no message is ignored, and so is a group
\* that is not allowed; p2p always is.
Heard == {m \in Msgs : /\ Event[m].type = "message"
                       /\ \/ Event[m].chat_type = "p2p"
                          \/ AllowedChats = {}
                          \/ Event[m].chat \in AllowedChats}
Keys == {RoutingKey(m) : m \in Heard}

\* _extract_content: images, files and the rest have no text.
Content(m) == IF Event[m].msg_type \in {"text", "post"} THEN Event[m].text ELSE ""
IsSlash(m) == Content(m) = "slash"

\* root_id = message.root_id or msg_id
RootId(m) == IF Event[m].root # None THEN Event[m].root ELSE m

Runs == Heard \X (1..MaxPushes)
Idle == [pc |-> "idle", run |-> None, attempt |-> 0]

Init ==
  /\ pushes = [m \in Msgs |-> 0]
  /\ queue = [k \in Keys |-> <<>>]
  /\ task = [k \in Keys |-> "none"] /\ worker = [k \in Keys |-> Idle]
  /\ saved = {} /\ log = [k \in Keys |-> <<>>] /\ rows = {}
  /\ indexing = {} /\ threads = {} /\ human = 0
  /\ seen = {} /\ shown = [k \in Keys |-> <<>>]
  /\ copies = [h \in 1..MaxHuman |-> 0]
  /\ sent = {} /\ failed = {} /\ doubts = [h \in 1..MaxHuman |-> 0]
  /\ crashes = 0

\* Feishu pushes an event, or pushes it again because it missed the answer;
\* the listener keeps no list of the messages it has seen.  dispatch puts it
\* into its key's queue and starts a worker for a key that has none.
Started(k) == [task EXCEPT ![k] = IF @ = "none" THEN "ready" ELSE @]

Push(m) ==
  /\ pushes[m] < MaxPushes
  /\ pushes[m] > 0 => m \in Repeated
  /\ pushes' = [pushes EXCEPT ![m] = @ + 1]
  /\ IF m \in Heard
     THEN /\ queue' = [queue EXCEPT ![RoutingKey(m)] = Append(@, <<m, pushes[m] + 1>>)]
          /\ task' = Started(RoutingKey(m))
     ELSE UNCHANGED <<queue, task>>
  /\ UNCHANGED <<worker, indexing, threads, disk, human, feishu, history, crashes>>

----------------------------------------------------------------------------
\* runner.py, _worker and _handle

At(k, pc) == worker[k].pc = pc
To(k, pc) == worker' = [worker EXCEPT ![k].pc = pc, ![k].attempt = 0]

\* A worker that has not left takes its next message: a slash command, or,
\* with or without text, a turn.
Take(k) ==
  /\ task[k] \in {"ready", "waiting"} /\ At(k, "idle") /\ queue[k] # <<>>
  /\ LET r == Head(queue[k])
     IN  worker' = [worker EXCEPT ![k] = [pc |-> IF IsSlash(r[1]) THEN "slash" ELSE "turn",
                                          run |-> r, attempt |-> 0]]
  /\ queue' = [queue EXCEPT ![k] = Tail(@)]
  /\ task' = [task EXCEPT ![k] = "ready"]
  /\ UNCHANGED <<pushes, indexing, threads, disk, human, feishu, history, crashes>>

\* The handling is over, well or not: on with the next message, or wait for
\* one.  Mutant: what is raised ends the worker.
Dies(k) ==
  /\ worker' = [worker EXCEPT ![k] = Idle]
  /\ task' = [task EXCEPT ![k] = "none"]
Finish(k) ==
  /\ worker' = [worker EXCEPT ![k] = Idle]
  /\ task' = [task EXCEPT ![k] = IF queue[k] = <<>> THEN "waiting" ELSE "ready"]

\* wait_for's timer fires, and the worker leaves, whatever has been put into
\* its queue by then.  Runner has a step between the two; a push between them
\* meets a registered worker, as one before them does.
Expire(k) ==
  /\ task[k] = "waiting" /\ At(k, "idle")
  /\ task' = [task EXCEPT ![k] = "none"]
  /\ UNCHANGED <<pushes, queue, worker, indexing, threads, disk, human, feishu, history, crashes>>

Answer(k) ==
  /\ At(k, "slash")
  /\ To(k, "send")
  /\ UNCHANGED <<pushes, queue, task, indexing, threads, disk, human, feishu, history, crashes>>

\* The turn ends well: run_and_index saves the context and starts the index
\* task; then the session is appended to.  Mutants: no save; no append.
Unsaved(r) == saved
SavedWith(r) == saved \cup {r}
SendNext(k) == To(k, "send")
LogNext(k) == To(k, "log")

TurnReturns(k) ==
  /\ At(k, "turn")
  /\ saved' = SavedWith(worker[k].run)
  /\ indexing' = indexing \cup {worker[k].run}
  /\ LogNext(k)
  /\ UNCHANGED <<pushes, queue, task, threads, log, rows, human, feishu, history, crashes>>

\* The session manager raises, before the turn or for a slash command, or the
\* turn does: logged by the worker; nothing is stored and nobody is told.
Raises(k) ==
  /\ At(k, "slash") \/ At(k, "turn")
  /\ failed' = failed \cup {worker[k].run}
  /\ Finish(k)
  /\ UNCHANGED <<pushes, queue, indexing, threads, disk, human, feishu, sent, doubts, crashes>>

\* session_mgr.append: the session's lines, then the count in the index.
Logged(k) == [log EXCEPT ![k] = Append(@, worker[k].run)]

AppendSession(k) ==
  /\ At(k, "log")
  /\ log' = Logged(k)
  /\ To(k, "send")
  /\ UNCHANGED <<pushes, queue, task, indexing, threads, saved, rows, human, feishu, history, crashes>>

\* It raises, before the lines are written or after: the context is saved,
\* there is no reply.
AppendRaises(k) ==
  /\ At(k, "log")
  /\ log' \in {log, Logged(k)}
  /\ failed' = failed \cup {worker[k].run}
  /\ Finish(k)
  /\ UNCHANGED <<pushes, queue, indexing, threads, saved, rows, human, feishu, sent, doubts, crashes>>

----------------------------------------------------------------------------
\* memory/indexer.py, in an executor thread: the insert skips an id that is
\* there.  A failure is logged and forgotten, which is a task that never gets
\* to its insert.
Index(r) ==
  /\ r \in indexing
  /\ indexing' = indexing \ {r}
  /\ rows' = rows \cup {r}
  /\ UNCHANGED <<pushes, queue, task, worker, threads, saved, log, human, feishu, history, crashes>>

----------------------------------------------------------------------------
\* feishu/sender.py

\* The uuid of a reply.  Mutants: none; one for the whole chat.
NoUuid(k) == None
ChatUuid(k) == k[2]
Uuid(k) == RootId(worker[k].run[1])

\* Feishu takes a reply: shown, unless its uuid was accepted before.
Accept(k) ==
  /\ seen' = (seen \cup {Uuid(k)}) \ {None}
  /\ shown' = IF Uuid(k) \in seen THEN shown ELSE [shown EXCEPT ![k] = Append(@, worker[k].run)]
  /\ UNCHANGED copies

\* The loop of send()
Exhausted(attempt) == attempt + 1 >= MaxRetries

ReplySent(k) ==
  /\ At(k, "send")
  /\ Accept(k)
  /\ sent' = sent \cup {worker[k].run}
  /\ Finish(k)
  /\ UNCHANGED <<pushes, queue, indexing, threads, disk, human, failed, doubts, crashes>>

\* An attempt fails, before or after Feishu accepted it; the last one ends
\* the send, and nobody is told.
ReplyFails(k) ==
  /\ At(k, "send")
  /\ Accept(k) \/ UNCHANGED feishu
  /\ IF Exhausted(worker[k].attempt)
     THEN /\ failed' = failed \cup {worker[k].run}
          /\ Finish(k)
     ELSE /\ worker' = [worker EXCEPT ![k].attempt = @ + 1]
          /\ UNCHANGED <<task, failed>>
  /\ UNCHANGED <<pushes, queue, indexing, threads, disk, human, sent, doubts, crashes>>

----------------------------------------------------------------------------
\* team_tools.py, send_to_human: a thread with a loop of its own, which the
\* turn stops waiting for after 15 seconds; root_id is "", hence no uuid.

SendToHuman(k) ==
  /\ human < MaxHuman
  /\ human' = human + 1
  /\ threads' = threads \cup {[key |-> k, id |-> human + 1, attempt |-> 0]}
  /\ UNCHANGED <<pushes, queue, task, worker, indexing, disk, feishu, history, crashes>>

\* Replying in a thread needs the message to reply to.
Deliverable(t) == t.key[1] # "thread"

HumanSent(t) ==
  /\ t \in threads /\ Deliverable(t)
  /\ copies' = [copies EXCEPT ![t.id] = @ + 1]
  /\ threads' = threads \ {t}
  /\ UNCHANGED <<pushes, queue, task, worker, indexing, disk, human, seen, shown, history, crashes>>

HumanFails(t) ==
  /\ t \in threads
  /\ \/ UNCHANGED <<copies, doubts>>
     \/ /\ Deliverable(t)
        /\ copies' = [copies EXCEPT ![t.id] = @ + 1]
        /\ doubts' = [doubts EXCEPT ![t.id] = @ + 1]
  /\ threads' = (threads \ {t}) \cup
                (IF Exhausted(t.attempt) THEN {} ELSE {[t EXCEPT !.attempt = @ + 1]})
  /\ UNCHANGED <<pushes, queue, task, worker, indexing, disk, human, seen, shown, sent, failed, crashes>>

\* The process dies and starts again: queues, turns, sends and index tasks
\* are gone.
Crash ==
  /\ crashes < MaxCrashes
  /\ crashes' = crashes + 1
  /\ queue' = [k \in Keys |-> <<>>]
  /\ task' = [k \in Keys |-> "none"] /\ worker' = [k \in Keys |-> Idle]
  /\ indexing' = {} /\ threads' = {}
  /\ UNCHANGED <<pushes, disk, human, feishu, history>>

----------------------------------------------------------------------------
Work(k) ==
  \/ Take(k) \/ Answer(k) \/ TurnReturns(k) \/ Raises(k) \/ AppendSession(k) \/ AppendRaises(k)
  \/ ReplySent(k) \/ ReplyFails(k)

Next ==
  \/ \E m \in Msgs : Push(m)
  \/ \E k \in Keys : Work(k) \/ Expire(k) \/ SendToHuman(k)
  \/ \E r \in indexing : Index(r)
  \/ \E t \in threads : HumanSent(t) \/ HumanFails(t)
  \/ Crash

\* A turn ends (AgentTurn), a post has the client's timeout, and the loop runs
\* a worker that can go on; a worker that has left does nothing.
Spec == Init /\ [][Next]_vars /\ \A k \in Keys : WF_vars(Work(k))

----------------------------------------------------------------------------
\* Types of the variables.
TypeOK ==
  /\ pushes \in [Msgs -> 0..MaxPushes] /\ human \in 0..MaxHuman
  /\ saved \subseteq Runs /\ indexing \subseteq Runs /\ rows \subseteq Runs
  /\ sent \subseteq Runs /\ failed \subseteq Runs
  /\ task \in [Keys -> {"none", "ready", "waiting"}]
  /\ \A k \in Keys : worker[k].pc \in {"idle", "slash", "turn", "log", "send"}
  /\ \A k \in Keys : \A i \in DOMAIN log[k] : log[k][i] \in Runs

\* However often a post is repeated, a chat shows a reply once; what
\* send_to_human sent it shows once more per accepted post whose answer was
\* lost, because those carry no uuid.
CopiesTakeLostAnswers ==
  /\ \A k \in Keys : IsInjective(shown[k])
  /\ \A h \in 1..MaxHuman : copies[h] <= 1 + doubts[h]

\* What a chat shows of the turns' replies is, in this order, part of the
\* session log, which has a run once: a user never reads a reply the next turn
\* does not know of, and never reads two in the order they were not given in.
Replies(k) == {i \in DOMAIN shown[k] : ~IsSlash(shown[k][i][1])}
ShownIsLogged ==
  \A k \in Keys :
    /\ IsInjective(log[k])
    /\ \A i \in Replies(k) : shown[k][i] \in ToSet(log[k])
    /\ \A i, j \in Replies(k), m, n \in DOMAIN log[k] :
         i < j /\ log[k][m] = shown[k][i] /\ log[k][n] = shown[k][j] => m < n

\* A reply that was sent with success and is not shown gave way to one with
\* its root: no other reply is swallowed.
SwallowedByChain ==
  \A r \in sent : \E k \in Keys : \E v \in ToSet(shown[k]) : RootId(v[1]) = RootId(r[1])

\* A message whose reply was sent with success has a reply in the chat.
EveryReplyShown ==
  \A r \in sent : \E v \in ToSet(shown[RoutingKey(r[1])]) : v[1] = r[1]

\* Context, session log and memory index name the same turns, as far as the
\* code keeps them together: a turn is logged or indexed only if its context is
\* saved, and, without a crash, a saved one is missing from the log only while
\* its worker is about to append it, or because that raised and its run failed.
StoresAgree ==
  LET logged == UNION {ToSet(log[k]) : k \in Keys}
      between == {worker[k].run : k \in {j \in Keys : At(j, "log")}}
  IN  /\ logged \subseteq saved /\ rows \subseteq saved
      /\ crashes = 0 => saved \ logged \subseteq between \cup failed

\* Every push of the key's messages so far has had its reply sent, or failed.
AllSettled(k) ==
  \A m \in Heard, n \in 1..MaxPushes :
    RoutingKey(m) = k /\ n <= pushes[m] => <<m, n>> \in sent \cup failed

\* A worker that has been started, or has a message in hand, gets to the end of
\* its queue, and then everything pushed for its key is settled, whatever raises
\* on the way, unless a crash loses it.  Nothing is promised for what is put to
\* a waiting worker, whose timer may fire first: Runner's NoneStranded.
Settled ==
  \A k \in Keys :
    task[k] = "ready" ~> (task[k] = "waiting" /\ AllSettled(k)) \/ crashes > 0
============================================================================
