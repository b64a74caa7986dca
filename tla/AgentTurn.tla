----------------------------- MODULE AgentTurn -----------------------------
(***************************************************************************)
(* One agent turn below the runner: the LLM client of llm/aliyun_llm.py    *)
(* (HTTP retries, one repeat of an empty answer, function calling), the    *)
(* skill loader of tools/_skill_loader_base.py (registry, instructions,    *)
(* history pages) and the sub-crew a task skill starts.                    *)
(*                                                                         *)
(* The turn is a stack of conversations with a model: the main agent's at  *)
(* the bottom and, above it, the sub-crew's that one of its tool calls is  *)
(* waiting for.  A conversation is in one of two modes.  Inline: the       *)
(* client was given available_functions and runs the tool calls itself,    *)
(* recursing into call().  Otherwise the client hands the tool calls to    *)
(* CrewAI's executor, which runs them and calls the client anew; executor  *)
(* and model service are external.  A message carries its role, its tool   *)
(* call ids and its length; wording and payload format are left out.       *)
(***************************************************************************)
EXTENDS Integers, SequencesExt, FiniteSetsExt

CONSTANTS
  Skills,         \* the skills load_skills.yaml enables
  TypeOf,         \* [Skills -> {"reference", "task", "history"}]
  Tools,          \* the other tools a model may call
  NoTool,         \* a name no function has
  MaxIterations,  \* call(): max_iterations
  RetryCount,     \* AliyunLLM: retry_count
  MaxIter,        \* [{"main", "sub"} -> Nat]: the executor's iterations
  MaxChars,       \* LLM_TOOL_RESULT_MAX_CHARS
  SuffixLen,      \* length of _TRUNCATE_SUFFIX
  Lengths,        \* lengths of tool results
  ErrorLen,       \* length of an error text, one of Lengths
  PageCap,        \* largest page_size (50 in the code)
  MaxCalls,       \* bound: tool calls in a turn
  Edited,         \* bound: the skills whose SKILL.md changes
  MaxVersion,     \* bound: versions of a SKILL.md
  MaxHistory      \* bound: messages of the history pages are checked on

\* The suffix fits into the limit: with a smaller limit the slice in
\* _truncate_tool_results counts from the end and the result grows.
ASSUME LimitAssumption ==
  SuffixLen \in Nat /\ MaxChars \in Nat /\ MaxChars >= SuffixLen

\* The defaults are 10 rounds and 2 retries; a SKILL.md is there at first; a
\* function has one name, and the loader answers to the skills'.
ASSUME TurnAssumption ==
  /\ MaxIterations \in Nat \ {0} /\ RetryCount \in Nat
  /\ Lengths \subseteq Nat /\ MaxCalls \in Nat /\ MaxVersion \in Nat \ {0}
  /\ PageCap \in Nat \ {0} /\ MaxHistory \in Nat /\ MaxIter \in [{"main", "sub"} -> Nat]
  /\ Skills \cap (Tools \cup {NoTool}) = {}

VARIABLES
  disk,      \* [Skills -> version of SKILL.md, 0 when it is not there]
  registry,  \* the loader's _skill_registry
  cache,     \* the loader's _instruction_cache: the version read, or 0
  stack,     \* the conversations, the main agent's first
  used,      \* tool call ids the models have given out in this turn
  ran,       \* history: ids of the tool calls run, in order
  told,      \* history: <<skill, version>> of the instructions handed out
  crews,     \* history: sub-crews started in this turn
  posts      \* history: requests posted in this turn

vars == <<disk, registry, cache, stack, used, ran, told, crews, posts>>

----------------------------------------------------------------------------
\* Messages and conversations

User == [role |-> "user", calls |-> <<>>, id |-> 0, len |-> 1]
Assistant(batch) ==
  [role |-> "assistant", calls |-> [i \in DOMAIN batch |-> batch[i].id], id |-> 0, len |-> 0]
Result(id, n) == [role |-> "tool", calls |-> <<>>, id |-> id, len |-> n]

\* Python's len(s[:k]) for a string of length n.
Slice(n, k) == IF k >= 0 THEN Min({n, k}) ELSE Max({n + k, 0})

\* Mutant: the suffix is added to the full limit.
TruncatedTail(m) ==
  IF m.role = "tool" /\ m.len > MaxChars
  THEN [m EXCEPT !.len = Slice(m.len, MaxChars) + SuffixLen] ELSE m

\* _truncate_tool_results on one message
Truncated(m) ==
  IF m.role = "tool" /\ m.len > MaxChars
  THEN [m EXCEPT !.len = Slice(m.len, MaxChars - SuffixLen) + SuffixLen]
  ELSE m

\* call() opened by its caller: the loop counters at their defaults
Opened(f) == [f EXCEPT !.left = MaxIterations, !.fresh = TRUE, !.attempt = 0]

Fresh(who, inline) ==
  Opened([who |-> who, inline |-> inline, msgs |-> <<User>>, todo |-> <<>>, rounds |-> 0,
          pc |-> "post", left |-> 0, fresh |-> TRUE, attempt |-> 0])

Top == Last(stack)
Asking == stack # <<>> /\ Top.pc = "post"
Running == stack # <<>> /\ Top.pc = "tools"
With(f) == stack' = Append(Front(stack), f)

\* What a conversation may post: RetryCount + 1 times for an answer and as
\* often for the repeat of an empty one, in every round.  Inline a round takes
\* two of max_iterations; the executor asks once more than it runs tools.
Try == 2 * (RetryCount + 1)
Rounds(who, inline) == IF inline THEN (MaxIterations + 1) \div 2 ELSE MaxIter[who] + 1
PostBound ==
  Rounds("main", stack[1].inline) * Try + crews * (Rounds("sub", FALSE) * Try)

\* A request is posted; one above the bound is as far as posts counts.
Posted == posts' = IF posts > PostBound THEN posts ELSE posts + 1

\* The tool call at the head of the batch is answered.
Answered(f, n) ==
  [f EXCEPT !.msgs = Append(@, Result(Head(f.todo).id, n)), !.todo = Tail(@)]

\* The conversation on top ends, with a text or an exception; whoever waits
\* for it gets a tool result: the text, or the exception as an error text.
Unwind ==
  /\ IF Len(stack) = 1 THEN stack' = <<>>
     ELSE \E n \in Lengths :
            stack' = Append(Front(Front(stack)), Answered(stack[Len(stack) - 1], n))
  /\ UNCHANGED posts

----------------------------------------------------------------------------
\* The loader at the start of a turn: __init__ and _build_description.  With
\* no manifest, or one that does not parse, the registry stays empty.

Registered == {s \in Skills : disk[s] # 0}

StartTurn(inline, manifest) ==
  /\ stack = <<>>
  /\ registry' = IF manifest THEN Registered ELSE {}
  /\ cache' = [s \in Skills |-> 0]
  /\ stack' = <<Fresh("main", inline)>>
  /\ used' = 0 /\ ran' = <<>> /\ told' = {} /\ crews' = 0 /\ posts' = 1
  /\ UNCHANGED disk

\* Somebody edits, removes or restores a SKILL.md while turns are running.
EditSkill(s, v) ==
  /\ v # disk[s]
  /\ disk' = [disk EXCEPT ![s] = v]
  /\ UNCHANGED <<registry, cache, stack, used, ran, told, crews, posts>>

----------------------------------------------------------------------------
\* The client: one action per outcome of requests.post

Idle == UNCHANGED <<disk, registry, cache, used, ran, told, crews>>

\* Mutant: the round before the request is run again with it.
RetryReruns(f) ==
  LET rounds == {j \in DOMAIN f.msgs : f.msgs[j].role = "assistant"}
      k == CHOOSE j \in rounds : \A i \in rounds : i <= j
      again == [i \in DOMAIN f.msgs[k].calls |->
                 [id |-> f.msgs[k].calls[i], name |-> CHOOSE t \in Tools : TRUE, arg |-> "ok"]]
  IN  IF rounds = {} THEN [f EXCEPT !.attempt = @ + 1]
      ELSE [f EXCEPT !.attempt = @ + 1, !.pc = "tools", !.todo = again, !.msgs = SubSeq(@, 1, k)]

\* A failed post is repeated: timeouts, refused connections, bodies that are
\* no JSON, and every status from 400 on (raise_for_status raises a
\* RequestException, so a 4xx is repeated like the others).
Retry(f) == [f EXCEPT !.attempt = @ + 1]

PostFails ==
  /\ Asking
  /\ IF Top.attempt < RetryCount THEN With(Retry(Top)) /\ Posted ELSE Unwind
  /\ Idle

\* No choices, or neither tool_calls nor content: ValueError.
PostMalformed == Asking /\ Unwind /\ Idle

\* A text is the call's result, and the executor's final answer.
PostText == Asking /\ Unwind /\ Idle

\* Mutant: the repeat keeps _retry_on_empty.
EmptyForever(f) == [f EXCEPT !.attempt = 0]

\* An empty text is asked for once more; the second one raises, because the
\* repeat is made with _retry_on_empty=False.
EmptyRepeat(f) == [f EXCEPT !.fresh = FALSE, !.attempt = 0]

PostEmpty ==
  /\ Asking
  /\ IF Top.fresh THEN With(EmptyRepeat(Top)) /\ Posted ELSE Unwind
  /\ Idle

\* _normalize_mcp_tool_arguments: a string "None" is no longer an argument.
Normalized(batch) ==
  [i \in DOMAIN batch |-> IF batch[i].arg = "None" THEN [batch[i] EXCEPT !.arg = "ok"] ELSE batch[i]]

\* Tool calls.  Inline, the round counts against max_iterations before any of
\* it runs; otherwise they go to the executor, which takes part in at most
\* MaxIter rounds before it asks for a final answer.
TakeBatch(f, batch) ==
  [f EXCEPT !.msgs = Append(@, Assistant(batch)), !.todo = batch, !.pc = "tools",
            !.fresh = TRUE, !.attempt = 0]

PostCalls(batch) ==
  /\ Asking
  /\ Top.inline \/ Top.rounds < MaxIter[Top.who]
  /\ used' = used + Len(batch)
  /\ IF Top.inline
     THEN IF Top.left - 1 <= 0 THEN Unwind
          ELSE With([TakeBatch(Top, batch) EXCEPT !.left = @ - 1]) /\ UNCHANGED posts
     ELSE /\ With([Opened(TakeBatch(Top, Normalized(batch))) EXCEPT !.rounds = @ + 1])
          /\ UNCHANGED posts
  /\ UNCHANGED <<disk, registry, cache, ran, told, crews>>

----------------------------------------------------------------------------
\* One tool call of the batch

Call == Head(Top.todo)

\* Inline, a call with no id or arguments that do not parse is a ValueError:
\* the rest of the batch does not run, what ran before it stays done.
Unusable(c) == c.id = 0 \/ (c.arg = "bad" /\ c.name # NoTool)

ToolBatchFails ==
  /\ Running /\ Top.todo # <<>>
  /\ Top.inline /\ Unusable(Call)
  /\ Unwind
  /\ Idle

\* A tool that is not there, arguments the executor cannot use, a plain tool
\* that returns or raises: each ends in a result text.
RunTool(n) ==
  /\ Running /\ Top.todo # <<>>
  /\ ~(Top.inline /\ Unusable(Call))
  /\ Call.name \notin Skills \/ Unusable(Call)
  /\ Call.name \in Tools \/ n = ErrorLen
  /\ With(Answered(Top, n))
  /\ ran' = IF Call.name \in Tools /\ ~Unusable(Call) THEN Append(ran, Call.id) ELSE ran
  /\ UNCHANGED <<disk, registry, cache, used, told, crews, posts>>

\* Mutant: the cache is not looked at.
VersionOnDisk(s) == disk[s]

\* _get_skill_instructions: the file is read once per loader.
VersionOf(s) == IF cache[s] # 0 THEN cache[s] ELSE disk[s]

\* skill_loader: an unknown name is told so, history_reader is answered from
\* the history, a file that has gone raises (an error text), a reference
\* skill's instructions are the result, a task skill starts a sub-crew whose
\* outcome will be.
RunSkill(n) ==
  /\ Running /\ Top.todo # <<>>
  /\ ~Unusable(Call) /\ Call.name \in Skills
  /\ ran' = Append(ran, Call.id)
  /\ LET s == Call.name
         v == VersionOf(s)
     IN  IF s \notin registry \/ TypeOf[s] = "history" \/ v = 0
         THEN /\ s \in registry \/ n = ErrorLen
              /\ With(Answered(Top, n)) /\ UNCHANGED <<cache, told, crews, posts>>
         ELSE /\ cache' = [cache EXCEPT ![s] = v]
              /\ told' = told \cup {<<s, v>>}
              /\ IF TypeOf[s] = "reference"
                 THEN With(Answered(Top, n)) /\ UNCHANGED <<crews, posts>>
                 ELSE /\ n = ErrorLen
                      /\ stack' = Append(stack, Fresh("sub", FALSE))
                      /\ crews' = crews + 1 /\ Posted
  /\ UNCHANGED <<disk, registry, used>>

\* The results go back: inline by recursing into call(), whose check of
\* max_iterations comes first; from the executor by a new call.
Recurse(f) == [f EXCEPT !.left = @ - 1, !.pc = "post"]

SendResults ==
  /\ Running /\ Top.todo = <<>>
  /\ IF ~Top.inline THEN With([Top EXCEPT !.pc = "post"]) /\ Posted
     ELSE IF Top.left - 1 <= 0 THEN Unwind ELSE With(Recurse(Top)) /\ Posted
  /\ Idle

----------------------------------------------------------------------------
\* What a model may ask for: the main agent has the skill loader and the team
\* tools, a sub-crew has the sandbox's tools only.
Names(who) == Tools \cup {NoTool} \cup (IF who = "main" THEN Skills ELSE {})

\* Only the second of two calls is malformed here: the first of a batch of one
\* or two is, or is not, followed by it.
Batches(f) ==
  LET Well(i) == [id : {used + i}, name : Names(f.who), arg : {"ok"}]
      Ill(i)  == [id : {used + i}, name : Tools, arg : {"None", "bad"}]
                 \cup [id : {used + i}, name : {NoTool}, arg : {"bad"}]
                 \cup [id : {0}, name : Tools, arg : {"ok"}]
  IN  { <<c>> : c \in Well(1) } \cup
      IF used + 2 > MaxCalls THEN {}
      ELSE { <<c, d>> : c \in Well(1), d \in Well(2) \cup Ill(2) }

Init ==
  /\ disk = [s \in Skills |-> 1]
  /\ registry = {} /\ cache = [s \in Skills |-> 0]
  /\ stack = <<>> /\ used = 0 /\ ran = <<>> /\ told = {} /\ crews = 0 /\ posts = 0

Step ==
  \/ PostFails \/ PostMalformed \/ PostText \/ PostEmpty
  \/ Asking /\ used < MaxCalls /\ \E batch \in Batches(Top) : PostCalls(batch)
  \/ ToolBatchFails
  \/ \E n \in Lengths : RunTool(n) \/ RunSkill(n)
  \/ SendResults

Next ==
  \/ Step
  \/ \E inline, manifest \in BOOLEAN : StartTurn(inline, manifest)
  \/ \E s \in Edited, v \in 0..MaxVersion : EditSkill(s, v)

\* Every request ends: requests.post has a timeout, and tools return.
Spec == Init /\ [][Next]_vars /\ WF_vars(Step)

----------------------------------------------------------------------------
\* history_reader's pages: _handle_history_reader's clamping and slice

SizeOf(size) == Max({1, Min({PageCap, size})})
PageOf(history, page, size) ==
  LET start == (Max({page, 1}) - 1) * SizeOf(size)
  IN  SubSeq(history, start + 1, Min({start + SizeOf(size), Len(history)}))

\* Mutant: a last, shorter page is not counted.
TotalPagesFloor(history, size) ==
  IF history = <<>> THEN 1 ELSE Len(history) \div SizeOf(size)

TotalPages(history, size) ==
  Max({1, (Len(history) + SizeOf(size) - 1) \div SizeOf(size)})

----------------------------------------------------------------------------
\* Properties

\* The shape of the loader's and the client's state.
TypeOK ==
  /\ disk \in [Skills -> 0..MaxVersion] /\ cache \in [Skills -> 0..MaxVersion]
  /\ registry \subseteq Skills /\ told \subseteq Skills \X (1..MaxVersion)
  /\ Len(stack) <= 2 /\ used \in 0..MaxCalls

\* Every request the client posts answers each tool call of an assistant
\* message, in order and directly behind it, and holds no tool result over
\* the limit: the service refuses anything else.  It has to hold across
\* rounds, sub-crews, failed tools and repeats of an empty answer.
RequestWellFormed ==
  Asking =>
    LET sent == [i \in DOMAIN Top.msgs |-> Truncated(Top.msgs[i])]
    IN  \A i \in DOMAIN sent :
          /\ sent[i].role = "tool" => sent[i].len <= MaxChars
          /\ \A k \in DOMAIN sent[i].calls :
               /\ i + k <= Len(sent)
               /\ sent[i + k].role = "tool" /\ sent[i + k].id = sent[i].calls[k]

\* A tool call runs at most once, whatever is posted again: a repeat sends
\* the same messages, it never runs the round before it again.
RanOnce == \A i, j \in DOMAIN ran : ran[i] = ran[j] => i = j

\* A turn posts at most what the main agent's conversation may, and what a
\* sub-crew's may for each task skill called, whatever fails, comes back empty
\* or is asked for meanwhile: times the timeout, the longest time its posts
\* hold the team lock.
PostsBounded == stack # <<>> => posts <= PostBound

\* Within a turn a skill's instructions are one version, however often the
\* main agent asks and whenever SKILL.md is edited meanwhile.
OneVersionPerTurn == \A a, b \in told : a[1] = b[1] => a[2] = b[2]

\* A turn that reads history_reader's pages 1 to total_pages, with any page
\* size, gets the whole history, each message once and in order.
PagesCover ==
  stack # <<>> => \A n \in 0..MaxHistory, size \in -1..(PageCap + 2) :
    LET h == [i \in 1..n |-> i]
    IN  FlattenSeq([p \in 1..TotalPages(h, size) |-> PageOf(h, p, size)]) = h

\* Every turn ends, with an answer or an exception: retries, repeats, rounds
\* and sub-crews are all bounded.
TurnEnds == stack # <<>> ~> stack = <<>>
============================================================================
