# xiaopaw-team in TLA+

`xiaopaw-team` is a team of four language-model roles (manager, pm, rd, qa)
that work on a project by writing files and sending each other mail. One host
process runs everything on one asyncio event loop. A message (a person's text
from Feishu, or a wake fired by the scheduler) is queued per routing key, a
worker takes it, runs one turn of the role's crew under a lock all roles share,
and the turn's tools read and write inboxes, the scheduler's job file, the
event log and the shared workspace.

What can go wrong here is not in any one function. It is in what two of them
do to the same file, in the order of a timer and a queue, in what a crash
leaves on disk, and in whether a mail that lies in an inbox is ever looked at.
These modules model that part.

## 1. The system

### Components

| Component | State | Operations | Used by |
|---|---|---|---|
| Mailbox, `tools/mailbox.py` | one JSON file per role and project, its `.lock` | `init_mailboxes`, `send_mail`, `read_inbox`, `mark_done`, `reset_stale` | the mail tools |
| Mailbox CLI, `workspace/*/skills/mailbox_ops/scripts/mailbox_cli.py` | the same files, no lock | send, read, done | skills in the sandbox |
| Cron store, `cron/tasks_store.py` | `tasks.json`, its `.lock`, `tasks.tmp` | `create_job`, `schedule_wake`, `schedule_heartbeat` | `SendMailTool`, start-up |
| CronService, `cron/service.py` | `jobs`, `_last_mtime`, `_last_size`; `tasks.json`, `tasks.tmp` without the lock | `_loop`: reload, fire, save | started by `main.py`, fires into the Runner |
| Runner, `runner.py` | a queue and a worker per routing key, in memory | `dispatch`, `_worker`, `_handle`, slash commands | listener, CronService |
| Team lock, `agents/build.py` | one `asyncio.Lock` | `wrap_with_lock` | every role's turns |
| Mail protocol, `tools/team_tools.py`, `workspace/shared/team_protocol.md` | none of its own | `SendMailTool`, `ReadInboxTool`, `MarkDoneTool`, kickoff rules | the roles |
| Event log, `tools/event_log.py` | `events.jsonl`, its `.lock` | `init_events`, `append_event`, readers | manager's tools |
| Project tree, `tools/workspace.py` | directories and documents of a project | `init_project_tree`, `write_shared`, `check_write` | `CreateProjectTool`, shared tools |
| Session manager, `session/manager.py` | `index.json`, a JSONL history per session, in-process locks | `get_or_create`, `create_new_session`, `append`, `load_history`, `update_verbose` | Runner |
| Crew memory, `agents/build.py`, `memory/context_mgmt.py` | `{sid}_ctx.json`, `{sid}_raw.jsonl`, the message list of a turn | `_restore_session`, prune, compress, save, append | every turn |
| LLM client, `llm/aliyun_llm.py` | none between calls; counters of one call | `call`, `acall`: retries, repeat of an empty answer, function calling | the agents |
| Skill loader, `tools/_skill_loader_base.py`, `tools/skill_loader.py`, `agents/skill_crew.py` | a registry and an instruction cache per turn | build the description, hand out instructions, page the history, start a sub-crew | the main agent |
| Feishu listener, `feishu/listener.py`, `session_key.py` | none | filter an event, find its key and its root, hand it to the Runner | Feishu's WebSocket |
| Feishu sender, `feishu/sender.py` | none | `send` with retries and a uuid | Runner, `send_to_human` |
| Memory indexer, `memory/indexer.py` | rows of a database table | `async_index_turn` | every turn |
| Checkpoints, `tools/feishu_bridge.py` | `pending.jsonl` | register, resolve, pending, classify | tests only, at this commit |
| Downloader, observability, cleanup, test API, legacy runner and crew | external services, logs | I/O | - |

### How they interact

    person --> listener --> Runner.dispatch --> queue --> worker --> team lock --> turn
                               ^                                                   |
                               |                                       tools: send_mail, read_inbox,
                          CronService._fire                            mark_done, append_event, ...
                               ^                                                   |
                               +---- tasks.json <--- schedule_wake <---------------+

- `SendMailTool` writes the recipient's inbox, then calls `schedule_wake`: two
  files, two locks, no transaction.
- `schedule_wake` and CronService share `tasks.json` and `tasks.tmp`; only the
  former takes the FileLock.
- CronService fires into the Runner's queue, which is memory, and then deletes
  the job from disk.
- The Runner and the sessions share the worker's order; the four roles share
  the team lock.
- A turn is saved in four files and a table, logged, and then answered: the
  person sees the reply last. `send_to_human` sends from a thread of its own,
  which the turn stops waiting for after 15 seconds.
- `create_project` makes a directory tree, a document and an event, one after
  the other, the latter two under locks of their own.
- The main agent's tool call may start a sub-crew, which is a conversation of
  its own inside the turn.

### What is hard here

Interleavings (store and scheduler, idle timer and dispatch, CLI and host),
read-modify-write of whole files, crashes between two writes, stale `stat`
results, deduplication that drops a message, and liveness: a mail must be read
although nothing but a chain of wakes ever looks at it. `PROJECT.json` lists
the places under "hazards", each at its line.

### What makes each part correct

- Mailbox: a message is handed to a turn once, and once more for every reset;
  no accepted message disappears; the calls are atomic.
- Cron store and CronService: the file always parses; a promised wake is on disk
  until it fires and does fire, or its firing raises; it fires once per life of
  the host; the scheduler never overlooks a stored job.
- Runner: one worker per key, messages of a key in order and one at a time, a
  dropped wake is covered, every queued message is handled.
- Team lock: one turn at a time.
- Protocol: every mail is read and acknowledged.
- Event log: sequence numbers grow; what was acknowledged stays readable.
- Project: whoever learns of a project from its log finds its requirements,
  whole.
- LLM client and skill loader: every request pairs tool calls with results; a
  tool call runs once whatever is posted again; a turn costs a bounded number of
  posts and ends; a skill reads the same throughout a turn.
- Channel: a chat shows only what the session log holds, in its order, each
  reply once; a reply that is not shown gave way to another; a worker that was
  started gets to the end of its queue, with a reply sent or given up for
  everything its key was pushed.
- Sessions and memory: what a turn saved, later turns restore, in order, each
  tool result behind its call, the latest turns word for word; the history never
  holds an exchange the memory does not; the audit log holds every message.

## 2. Modules

| Module | Models | Abstract specification |
|---|---|---|
| `Mailbox` | what `mailbox.py` promises of one inbox | is one |
| `WakeBook` | what `tasks.json` promises whoever asks to be woken | is one |
| `Dispatch` | what the Runner promises of its queues and turns | is one |
| `MailboxFile` | the same inbox as the code runs it: lock, load, truncate, write; host threads and CLI processes; crash | implements `Mailbox` |
| `CronStore` | `tasks.json` and `tasks.tmp` as inodes, writers under the FileLock, the scheduler without it, crash and restart | implements `WakeBook` while calls take turns |
| `Runner` | queues, workers, idle timer, dedup, team lock | implements `Dispatch` |
| `EventLog` | `events.jsonl` line by line: numbering, appending, torn tails, repeated creation of the project | is one for `Project` |
| `Project` | the log beside the requirements document: write to tmp, rename, both locks, the steps of `create_project` | its log implements `EventLog` |
| `Conversation` | a key's sessions and the memory of its turns: index, histories, snapshots, audit logs; prune, chunk, compress, restore | - |
| `AgentTurn` | a turn below the Runner: client retries, function calling, skill loader, sub-crew, SKILL.md files that change meanwhile | - |
| `Channel` | a message's way from Feishu's push to the reply in the chat, through worker, stores and sender; `send_to_human` beside it | - |
| `TeamHandshake` | a mail's way from `send_mail` to `mark_done`, composed of what the other modules establish | its inboxes implement `Mailbox`, its wakes `WakeBook`, its queues and turns `Dispatch` |

`MC*` modules give the constants for TLC. `*Proofs` modules hold the theorems.
The three abstract modules are where the parts meet: the code of a part and the
protocol that uses it are both shown to keep to the same promise.

                 MailboxFile      CronStore      Runner       the code of a part
                      |               |            |
                   Mailbox        WakeBook     Dispatch       what it promises
                      \               |            /
                       +------ TeamHandshake -----+            the protocol's use of it

A definition used by no behaviour and introduced as "Mutant" in a comment is a
plausible wrong version of the definition below it; properties are tried
against it.

### State and actions against the code

**Mailbox.** `status`, `since` are the fields `status` and `processing_since`
of the messages of one file (0 is `None`). `held` is what a turn was handed and
has not acknowledged, which the code keeps in the model's context only. One
action per function, plus `Abandon`: a turn that ends without `mark_done`.
`ResetStale` may pass over a stale message, because `reset_stale` reads its
clock before it waits for the lock. `Crash` is the death of the host: the turns
are gone, and the inbox, which every operation rewrites in place, is as it was or
has lost all its messages ("lost", which is no status the code writes). It keeps
the promise honest about what a crash may do, and about what it may not: bring a
message back, or hand one out again. `deliveries` and `resets` are history.

**MailboxFile.** A call is `Begin` (draw the id, read the clock where the code
does so before locking, take the FileLock), `Load`, `Truncate` (`write_text`
opens with "w"), `Fill` (write, close, return). A CLI process takes no lock.
`CliOverlaps = FALSE` states what `mailbox_cli.py` says of itself in its
`_locked`: a single agent that runs one call after the other. `torn` stands for
a file that does not parse: two writes overlaid, or one cut short. `Crash` kills
the host threads between any two steps, and inside the write, of which it may
leave a part; `OnlyACrashTears` says that nothing else does. The refinement
mapping reads a mailbox off the file: while a call is between truncation and
write, the mailbox is what that call loaded (`Logical`); a message that was
written once and is not there any more is "lost" (`StatusOf`).

**CronStore.** The two files hold a document with a set of jobs, nothing, an
overlay of two writes, or do not exist. `fd` records which inode each process
has open, because a rename moves the inode under an open descriptor: writer and
scheduler use the same `tasks.tmp`. `changed` is the comparison of mtime and
size with the remembered ones; `SvcStat` clears it before the read, `SvcSaved`
after the rename, where the code does. Clocks are abstracted to `due`.
`SvcFire` puts the message into the Runner's queue or raises (`missed`): either
way the job counts as fired and is removed. It is one step, since nothing on the
way into the queue suspends. `Overlap` separates two readings of the deployment.
FALSE: tools run on the event loop as synchronous calls, so a store call and a
tick never interleave. TRUE: somebody calls the store from another thread or
process. The FileLock exists for that, `docs/design-data.md:130` describes it
for the sandbox, and the host has such a place itself: `acall` runs `call` in a
thread (`asyncio.to_thread`, `aliyun_llm.py:498`), and with it the tools the
client is given to run inline. FALSE is therefore an assumption about how CrewAI
uses the client (that the executor runs the tools), and not a fact of this code.

**WakeBook.** `waiting` and `passed` are the targets with a wake in the file
whose time has not come, or has; `promised` are those somebody was told would be
woken (`schedule_wake` returned) and were not since. An entry leaves the book
only after its time, and not while its target is owed a ring and has no other
(`Kept`). Inodes, locks, the scheduler's copy, its reloads and the death of the
process do not appear: `CronStore` shows that none of them can be told from
outside.

**Runner.** A step is what runs between two awaits. A task is suspended in
`wait_for` ("wait"), has its timer fired but has not run yet ("expired"), is in
the session manager, waits for the team lock, runs a turn, appends, replies.
Every call that may raise has a disjunct in which it does. `accepted`, `begun`,
`finished`, `waived` are history.

**Dispatch.** A line per key and at most one turn, of whatever key. A message
leaves its line when its turn begins, when it needs none (a slash command) or
when preparing it failed. In the mapping a key's line is what its worker took
from the queue and has not begun (`Preparing`), then the queue; the turn is the
task that holds the team lock. Tasks, timers and the lock's queue do not
appear. A process that dies takes the lines along (`Die`): `TeamHandshake` has
that step, `Runner` is about one life (`LiveSpec`).

**EventLog.** `log` is the file as the readers see it: a line is an event both
`_last_seq` and `read_events` parse, an event with a separator inside that only
`read_events` parses ("odd"), or "junk". `open` says that the last line has no
newline, `garbled` that the file does not decode. A call is `AppendEvent` or
`CreateProject` (`init_events` follows: `FindLog` looks for the file and
`InitEvents` writes an empty one, without a lock), then `NextSeq` (take the
FileLock, read the file, add one) and `WriteLine`. `CreateOverlaps = FALSE` lets
nothing else happen to a project while `create_project` builds its tree:
creating projects and appending events are tools of the manager, its turns are
run one at a time under the team lock (`build.py:343`), and it is assumed that a
turn makes one tool call after the other. With TRUE the log that appears between
look and write is emptied, and TLC finds `SeqsIncrease`, `AppendOnly` and
`OneLossPerCrash` violated; `CreatedIsWritten` holds. `Crash` may leave part of
the line a caller was writing (`Remains`). `acked` is history.

**Project.** Extends `EventLog`; its actions are EventLog's with what they do to
the document (`Report`, `Create`, `BuildTree`, `Number`, `Log`, `HostCrash`) and
the steps of `write_shared`: `LockDoc`, `Truncate` and `Fill` (`write_text` on
the tmp file), `Rename`. `at` is the place in `write_shared`, of the tool or of
`create_project`; `append_event` begins only when it is "no". Documents have
different names and locks, so one stands for all; it is the manager's
(`MayWrite`). `created` is history.

**AgentTurn.** `stack` is the turn: the main agent's conversation and, above it,
the sub-crew's that one of its tool calls waits for. There is one action per
outcome of a post (`PostFails`, `PostMalformed`, `PostText`, `PostEmpty`,
`PostCalls`), one per tool call (`RunTool`, `RunSkill`, `ToolBatchFails`), and
`SendResults`. A conversation is inline when CrewAI gave the client
`available_functions`, so that the client recurses; otherwise the executor runs
the tools and calls the client anew. The code serves both, so both are modelled.
Message text is a length; a SKILL.md is a version number. `ran`, `told`, `crews`
(sub-crews started) and `posts` (requests posted) are history of the whole turn.
`PostsBounded` compares `posts` with `PostBound`: `Rounds` of the main
conversation and of each sub-crew so far, each round `Try` posts (the attempts,
and again those of an empty answer's repeat). Answering pages of the history is
a function, checked against its definition on all histories and page sizes up to
a bound (`PagesCover`).

**Channel.** `Event` is what the listener looks at in a payload. A run is the
handling of one push of one message: nothing in the listener remembers the
messages it has seen. `task` is the key's worker task: there is none, it is
ready to run, or it waits for a message. `Expire` is the idle timer, after which
it leaves and looks at its queue no more; the next `Push` starts another.
`worker` is what it is doing: a slash command, a turn, the append to the
session, the send. The session manager and the turn may raise (`Raises`), and so
may the append, before or after its lines are written (`AppendRaises`): the
context is then saved and nobody gets a reply. Feishu is external: it may push
an event again, and it drops a message whose uuid it accepted before. A post
that fails may have been accepted. `sent`, `failed` and `doubts` are history.

**Conversation.** One routing key: no method of SessionManager awaits inside its
lock, and a key has one worker, so keys touch each other only through an index
that is replaced whole. A message of the model's list is a record of a role, the
ids it stands for (its own, or those of the chunk a summary replaced) and
whether its content was pruned; `OfRoles` is the code's filter by role, `Chunks`
its cut of the old part into what one summary stands for; text and token counts
are reduced to `Tokens`. A turn is `Receive`, `LoadHistory`, then `Hook` before
each `CallTool` or `Answer`, then the four writes of `Save`. `torn` holds the
sessions whose snapshot was truncated and not written again. On those the hook
raises, and whether CrewAI swallows that or ends the turn is left open. That
hooks run for the turn's own requests only, and that tool results join the list
as messages, is assumed of CrewAI. `said` and `compressed` are history.

**TeamHandshake.** One project. A turn is `StartTurn`, `Kickoff` (which reads
the inbox if the text that woke it names a project, as `team_protocol.md` says
and `send_mail`'s wakes do), tools, `EndTurn`. `SendMailTool._run` is two
actions, `SendMail` and `ScheduleWake` or `ScheduleFails`. What a language model
does is free within `team_protocol.md`: which mails it writes and when is
nondeterministic; that it acknowledges what it read before it ends is assumed.
`Crash` leaves the inboxes as they were: that a crash inside a write may empty
or tear one is `MailboxFile`'s concern, and `UnreadIsCovered` and `MailDone` ask
nothing of a run with a crash. A wake that fires reaches its queue: that
dispatch may raise (`CronStore`'s `missed`) is left out here, since nothing it
does in this deployment raises.

## 3. Runs

| Run | Bounds | Shows |
|---|---|---|
| `Mailbox` | 2 mails, 2 readers, time 4, stale after 1, 2 resets each, any crashes | every delivery the promise allows is accounted for |
| `MailboxFile` | 2 mails, 2 host threads, 1 sequential CLI process, 1 crash, time 4 | the code implements `Mailbox`, crash included, and keeps its ledger; mail is shared after a reset only; tearing and losing take a crash |
| `CronStore` | 2 writers, 3 one-shot wakes of 2 targets, 1 heartbeat, 2 crashes, turns | the file is whole and implements `WakeBook`; stored wakes fire or their firing raises, refires are bounded by crashes, nothing is overlooked |
| `CronStore_lost` | 1 writer beside the scheduler | **violated**: a stored wake is overwritten by the scheduler's save |
| `Runner` | 5 messages (2 wakes, cron, slash, chat), 2 keys, 3 tasks | one worker per key, order, dropped wakes covered; the Runner implements `Dispatch`; every message is served |
| `Runner_stranded` | the same | **violated**: a message put between timer and exit has no worker |
| `Project` | 2 callers, 4 events (1 with a separator), 2 creations, 2 crashes | order of the numbers, one lost event per crash at most, lines stay, no project announced without its requirements |
| `Conversation` | 5 turns of up to 1 tool call, 2 sessions, 2 turns fresh and kept, 1 crash | nothing remembered is lost, reordered or cut from its call; histories agree with it; the audit log misses compressed turns only |
| `TeamHandshake` | 3 roles, 3 mails, 2 questions, 1 failure, 1 crash | unread mail is covered and, without faults, acknowledged; the protocol uses the parts as they promise (`PartsKeepPromise`) |
| `AgentTurn` | 3 skills (one of each type), 3 tool calls in batches of up to 2, `max_iterations` 3, 1 retry, 1 SKILL.md that changes once, histories of up to 7 messages | requests well formed, tools run once, the turn's posts bounded, one version per turn, pages complete, turns end |
| `Channel` | two messages of a group, a slash command of a thread on the first, pushed twice, 2 attempts per post, 1 `send_to_human`, 1 crash | what chats show is what the log holds, once and in order; stores agree but for appends that raised; a started worker settles its key |
| `Channel_thread` | two messages of one thread, one of a group that is not allowed | **violated**: replies in a thread share a uuid, the second is never shown |

Why the bounds are enough. Two mails and two readers give a mail claimed,
reset and claimed again beside one that is not. Two writers are enough for a
writer to be caught between its two critical sections; three wakes of two
targets give reuse, creation and a due wake beside a waiting one; the second
crash falls into the recovery from the first. In `Runner`, three tasks exceed
the keys, so that a key's second worker could exist; two wakes that carry a
reason beside one without give dropped and undropped duplicates. In
`TeamHandshake` a role both sends and receives, and a mail can be sent to a role
whose wake is waiting, due, queued, or whose turn runs.

In `Project` four events are a torn line, the event glued to it, and two more
to show that numbering and order recover.
In `AgentTurn` three tool calls are a batch of two, one of which may start a
sub-crew, and a call of that crew or of a further round; three iterations let an
inline round run and refuse the one after it; one retry tells a post that is
repeated from one that is not, and the code's own counts enter only through
`PostBound`.
In `Channel` two messages share a chat and another pair a root, and a push is
repeated, so a message can come to a worker that is busy, waiting or gone; two
attempts are a lost answer and its repetition.
In `Project` nothing overlaps a creation, see `CreateOverlaps` above; the second
creation finds the log of the first.
In `Conversation` the third turn is the first that can compress, at its first
request or after its tool's result; the fourth compresses a list that begins
with a restored summary, and the fifth restores what came of that.

Bounds by name: `MaxCalls`, `MaxVersion`, `MaxHistory`, `Edited` (AgentTurn),
`MaxPushes`, `Repeated`, `MaxHuman` (Channel), `MaxTime`, `MaxResets`,
`MaxCrashes`, `MaxCreates`, `MaxSessions`, `MaxTurns`, `MaxTools`, `MaxAsks`,
`MaxFailures`; `Beat` is also bounded to one heartbeat per queue. Messages,
wakes and mails are used once each.

Deadlock is not checked (`CHECK_DEADLOCK FALSE`): when all messages, ids and
clock ticks are used up, these systems rest, and resting is what an idle host
does.

### Fairness

- `CronStore`: a call that has started runs to its end (weak, operating system);
  the process is restarted; time passes. `SvcStat` and `SvcScan` are strong:
  with turns they are disabled while a writer is inside a call, and the event
  loop gives a sleeping tick its turn between two calls.
- `Runner`: weak for every ready task: asyncio runs the ready queue in order.
  That a turn ends is part of it. The idle timer is not fair; it may never fire.
- `AgentTurn`: weak for the turn's next step, since every post has a timeout
  (`aliyun_llm.py:289`) and tools return. Which outcome a post has is not fair.
- `Channel`: weak for what a key's worker task does while there is one, for the
  reasons of `Runner`. A worker that has left has nothing to do and nothing is
  assumed of it: `Settled` begins with a task that is ready and ends with one
  that waits, and says nothing of a message that is put to a waiting worker,
  which `Expire` may strand. Idle timer, sender threads, index tasks and pushes
  are not fair.
- `TeamHandshake`: heartbeats, clock and scheduler weak; `StartTurn` strong per
  key, since other keys may take the team lock first and `asyncio.Lock` serves
  in order (which `Runner` models as a queue). A turn goes on and ends.

## 4. Proofs

Proved by TLAPS, for every value of the constants that the modules' assumptions
admit: any number of messages, mails, keys, tasks, writers, sessions, any
thresholds, and any number of crashes unless a bullet says otherwise. Each bullet
names the invariant the proof rests on and why the property alone does not do.

- `MailboxFileProofs`, three parts.
  - *The promise.* `PromiseTypes`, `PromiseLedger`, `PromiseSharing` are about
    `Mailbox` itself. The ledger is inductive with the types. Sharing needs that
    what is held and not claimed in the file was reset (`HeldIsClaimed`), and
    that a read only hands out unread messages.
  - *Spec with `~CliOverlaps`*, host threads and sandbox processes: that a CLI
    call never runs beside another call is what `mailbox_cli.py` says of itself
    in `_locked`. `CallsInvariant`, `LockExcludes` and `InboxParses` (only a
    crash in a write leaves an inbox that does not parse) hold, as all theorems
    about `Spec` do, through any number of crashes of the host. A call knows the
    file it loaded until it truncates; an empty file belongs to the one call in
    "fill" or to a crash; ids are fresh (`FreshInv`). `HandedInvariant` adds who
    was handed what: a message in the file was accepted, every delivery is
    accounted for by a claim or a reset (a lost message leaves open which),
    whoever still holds one that lies unread had it reset, and a send that runs
    has not been accepted. Both are needed for `CodeImplementsMailbox`: every
    step is a step of `Mailbox` or a stutter, where `Fill` is the abstract
    operation, and the death of the host is `Mailbox`'s `Crash`. That a send
    finds its message absent and not lost, and that a crash in a write makes
    "lost" just what was in the mailbox, follow from `HandedInv` only.
    `LossNeedsACrash`: a message whose send returned is lost to a crash only.
    `HandedOutOnce` and `SharingTakesAReset` follow from the same invariant.
  - *`HostSpec`*, host threads alone and no crash, for either value of
    `CliOverlaps`: `HostExclusion`, `HostNeverTorn`, `HostKeepsMail`, and the whole
    refinement, `HostImplementsMailbox`.
- `CronStoreProofs`: `TypeCorrect` and `WriterExclusion` for any `Overlap`; with
  turns `WholeInTurns`, `WakesKept`, `FiresOncePerLife`, `ReloadComplete`. The
  invariant says who owns `tasks.tmp` at each program point, that the
  scheduler's jobs equal the file while it works, and that a promised wake is in
  both. `StoreIsABook`: with turns, every step of writers, scheduler, clock and
  crash is a step of `WakeBook` or a stutter: the rename is where a call or a
  save takes effect, firing where a target rings. It needs two facts more. A job
  that a writer creates is on disk nowhere, not due, and no other writer's
  (`FreshInv`), or the rename could write down a wake whose time has passed.
  What a tick fires, and what its save leaves out, was due (`DueInv`), or the
  save could cross out a wake that still waits.
- `RunnerProofs`: `TypeCorrect`, `OneWorker`, `OneTurn`, `OrderKept`,
  `WakesCovered`. The invariant ties the worker table to the tasks that are
  alive, and the team lock's queue to the tasks in "queued" and "running", each
  in it once. A dropped wake stays covered because the only step that takes its
  double from the queue puts it into the worker that handles it.
  `RunnerIsADispatcher`: every step is a step of `Dispatch` or a stutter. A queue
  with its worker is a line only because one worker exists per key, and a turn
  begins when no other runs only because who runs is the head of the lock's
  queue: the refinement rests on these two parts of the invariant.
- `ProjectProofs`, the log and the project around it.
  - *`EventLog`*: `TypeCorrect`, and for `~CreateOverlaps` `SeqsInOrder`,
    `LinesStay`, `CrashLosesOne`. Who builds a tree is alone with the project,
    so a log it did not find is not there when it writes one (`Apart`).
    `SeqsIncrease` alone is not inductive: a caller between number and write
    must hold the lock with a number that still fits, and every event must stand
    behind a counted one with the number before its own (`Based`), or
    `_last_seq` could count below a line it does not see. For `CrashLosesOne`
    the acknowledged events that cannot be read are counted together with the
    torn tail: a crash makes a tail at most, and only an append behind a tail
    turns it into a lost event (`LossInv`).
  - *`Project`*: `LogKept` (every step of a project is a step of its log or
    leaves it alone), hence `ProjectSeqsInOrder`, `ProjectLinesStay` and
    `ProjectLosesOne` under the same assumption; and `NoProjectWithoutRequirements`
    under none. For the last one an
    event in the log or in a call was handed over (`Handed`), the tmp file has
    one owner between truncation and rename (`TmpOwned`), and a `create_project`
    that has got as far as its event has its document (`Backed`):
    `CreatedIsWritten` alone says nothing of the event about to be written.
- `ConversationProofs`: `ConversationInvariant` (`ConvInv`) and from it
  `TypeCorrect`, `SnapshotsRemember`, `SavesForgetNothing`, `ListsAreOrdered`,
  `ResultsFollowCalls`, `LatestTurnsUntouched`, `AuditMissesFew`. Every message
  list, in memory or in a snapshot, starts with its head, has the summaries
  before the messages, stands for each id at most once and in order, keeps each
  result behind its call, and summarised or pruned only old turns. That is
  inductive because of what prune, chunk and compress do to *any* such list;
  most of the proof is lemmas about these operators. For the audit log
  the invariant counts a debt: the ids it misses of turns that did not compress,
  plus one while its last line is open. Only a crash raises it.
- `AgentTurnProofs`: `TurnInvariant` and from it `TypeCorrect`, `CallsRunOnce`,
  `PostsAreBounded`, `OneVersion`, `RequestsAreWellFormed`. Each conversation on
  the stack has answered its calls in place and keeps tool calls to run whose
  ids occur nowhere else and have not run. For the posts of the turn, what is
  posted and what the conversations on the stack may still post is within the
  bound (`PostInv`, `Owed`): `PostsBounded` alone does not say what is left for
  the rounds to come. `PagesJoin` and `PagesComplete` say of `history_reader`,
  for a history of any length and any page size, that its pages put together are
  the history; the run checks sizes and lengths up to a bound.
- `ChannelProofs`: `ChannelInvariant` and from it `TypeCorrect`,
  `CopiesBounded`, `RepliesAreLogged`, `RootSwallows`, `StoresNameTheSame`.
  `UuidInv` relates what Feishu accepted to what the chats show and `ThreadInv`
  the copies of `send_to_human`'s messages to lost answers; `Once` says of a key
  that a push waits, is handled and is logged once, `Order` that replies are
  shown in the order of its log, `StoreInv` how the three stores lag behind each
  other: a saved turn the log lacks is about to be appended, or its append
  raised, or there was a crash.
- `TeamHandshakeProofs`: `HandshakeInvariant` and from it `TypeCorrect`,
  `UnreadCovered`, `InboxesAreMailboxes` and `PartsArePromised`: through turns,
  failures and crashes every role's inbox is a `Mailbox`, the wakes are a
  `WakeBook`, queues and turn are a `Dispatch`. So the protocol does nothing to a
  part that the part's promise excludes. The converse is not claimed: `Mailbox`
  may reset or lose mail, `Dispatch` may skip a message, and `TeamHandshake` has
  no such step. What a turn has in hand
  is in progress in its own role's inbox, and what calls for a role goes away only
  when the turn it starts reads that inbox.

`TypeOK` is a theorem of each module and therefore in no run (`ProjectTypeOK`
is a part of `ProjectInv`).

**Induction.** The fold of compression, the chunks of a prune, the filters of a
list and the pages of a history are of any length. The library's induction rules
take an operator, which the provers cannot instantiate. The proofs take the least
counterexample instead: `SmallestOf` (from `WFMin` over the naturals) gives a set
of naturals its smallest member, `InductionUpTo` states that for sets as
induction up to a bound.

**Only model-checked.** Everything under fairness (`WakeFires`, `Served`,
`MailDone`, `TurnEnds`, `Settled`), since neither liveness nor ENABLED is within
reach of the provers; and the properties that the three runs of section 3 show
violated. Without a theorem are also the settings that break promises by
design: `CronStore` with `Overlap`, `MailboxFile` with `CliOverlaps`.

`DeliveryLedger` of the run `Mailbox` is proved where that module is used: theorem
`PromiseLedger` of `MailboxFileProofs` states it of `Promise`, an instance of
`Mailbox` whose constants and variables are left open. `HandedOutOnce` proves the
same ledger of the mailbox that the file stands for.

## 5. Where code and documents part

Shown by a run:

- `CronStore_lost`: `_save_store` takes no FileLock, against
  `docs/DESIGN.md:729`.
- `Runner_stranded`: the worker leaves without looking at its queue again,
  against `runner.py:95` and `docs/design-modules.md:72`.
- `Channel_thread`: the listener takes a message's root for its id
  (`listener.py:116`) and the sender takes that for the reply's uuid
  (`sender.py:42`), so Feishu drops all replies of a thread but the first,
  against `docs/design-modules.md:267`.

Seen while modelling, expressible with the same modules, without a run of their
own:

- `_last_seq` splits lines where the readers do not (`event_log.py:93`), against
  `event_log.py:7` and `docs/DESIGN.md:2808`: `SeqsStrictlyIncrease` fails behind
  an event with U+2028.
- Heartbeats name no project (`tasks_store.py:176`) and do not make up for a wake
  a crash lost, against `docs/DESIGN.md:1466`: `MailRead` fails with one crash.
- The CLI's lock is a no-op (`mailbox_cli.py:14`): with `CliOverlaps = TRUE`
  `DeliveryLedger` fails, against `README.md:378`.
- Inboxes are rewritten in place (`mailbox.py:98`): after a crash
  `AcceptedMailKept` fails, against `docs/design-data.md:134`. A part of
  the document may be left as well: every later call on that inbox raises.
- An append to the session that raises (`session/manager.py:145`) leaves the turn
  in the restored context and not in the history, and the person without a reply.
- `_fire` logs what dispatch raises (`service.py:125`) and the wake is deleted all
  the same: nothing fires it again.
- `init_events` is not safe beside another call (`event_log.py:69`): with
  `CreateOverlaps = TRUE` an event that was acknowledged is erased, against
  "幂等" in `event_log.py:67`.
- With `Overlap = TRUE`, `TasksWhole` fails (`service.py:249`, shared
  `tasks.tmp`) and so does `JobsSeen` (`service.py:252`, stat after the rename).
- `schedule_wake` may store a second wake of the same target
  (`tasks_store.py:127`, two critical sections).
- Wakes of CronService carry no `meta` (`service.py:111`), so `dispatch` does
  not deduplicate them.
- A line torn inside a character makes every later append and read raise
  (`event_log.py:93` decodes outside the `try`), against "跳过损坏行" in
  `event_log.py:10`; an event appended behind a torn line cannot be read
  although its call succeeded.
- `create_project` on an existing project appends a second `project_created`
  and overwrites the needs (`team_tools.py:241`), against
  "幂等" in `team_tools.py:216`.
- `run_and_index` slices the list at `_history_len` after `maybe_compress` has
  shortened it (`build.py:257`), so `raw.jsonl` loses messages of that turn,
  against "完整审计日志" in `context_mgmt.py:20`. Without `compressed` in `Unlogged`,
  `RawMissesCompressed` fails without any crash.
- A history line or a snapshot that a crash cut short is never repaired: the one
  makes every later message of its session fail (`session/manager.py:97`), the
  other leaves the session without memory (`context_mgmt.py:216`).
- The listener keeps no list of message ids: an event pushed again runs a second
  turn, whose reply Feishu drops for its uuid (`listener.py:98`).
- A turn that raises leaves the person without any reply (`runner.py:136`).
- `send_to_human` to a thread's key can never be delivered: replying in a thread
  needs a message to reply to and its `root_id` is "" (`team_tools.py:377`,
  `sender.py:221`). It reports success and logs its event all the same.
- `main.py:199` constructs `FeishuListener` with other arguments than
  `listener.py:151` takes.
- The Runner keeps a downloader and never uses it: attachments are dropped, and
  a message with only an image starts a turn with empty text, against
  `listener.py:3`.
- A post that failed with a 4xx status is repeated like any other
  (`aliyun_llm.py:280`), and the third of the three tries for an empty answer
  (`aliyun_llm.py:401`) cannot be reached.
- Recursing with tool results calls with the text model's name, so a
  conversation that needed the image model loses it (`aliyun_llm.py:242`, `479`).
- With `LLM_TOOL_RESULT_MAX_CHARS` below the length of the suffix, truncation
  makes results longer (`aliyun_llm.py:69`); `LimitAssumption` excludes it.
- A call without id, or with arguments that do not parse, ends an inline turn
  after the calls before it in the batch have run (`aliyun_llm.py:454`).
- `history_reader` is in no role's `load_skills.yaml`.
- If `schedule_wake` raises after `send_mail`, the mail stays without a wake
  (`team_tools.py:98`), against `docs/test-design.md:158`.

## 6. Not modelled

- Checkpoints (`feishu_bridge.py`): no Python code calls `CheckpointStore` or
  `classify`; skills' texts name them, and `handle_checkpoint_reply/SKILL.md:41`
  says that the helper is yet to come. A model would have to invent the caller.
- Reads of files into prompts, the rewriting of image messages, metrics, logs,
  scoring, search: no state whose order matters.
- `delete_job`, `list_jobs`, cron expressions and disabled jobs: nothing in the
  repository uses them; neither `send_thinking` nor `update_card` has a caller,
  nor has the downloader.
- Legacy modules (`_runner_base.py`, `_main_crew_base.py`), which nothing
  imports in production, the test API, and the cleanup service, which `main.py`
  does not start.
- What a language model writes, beyond which tool calls it makes.

## 7. Plan

1. Done: the modules of section 2, their runs, and the theorems of section 4:
   every invariant and action property of a passing run is one, and so are the
   refinements, from the three files and queues of the code through `Mailbox`,
   `WakeBook` and `Dispatch` to the protocol.
2. An abstract memory for `Conversation` (what a turn may count on, without
   lists), which `AgentTurn`'s first request could be built from.
3. A lossy inbox in `TeamHandshake`: `Mailbox`'s `Crash` in full, and what
   `MailDone` then still promises.
4. `Checkpoints`, if production code starts to use them.
