----------------------------- MODULE Conversation -----------------------------
(***************************************************************************)
(* One routing key's conversations: SessionManager (index.json, a JSONL    *)
(* history per session) and the memory of a role's crew (ctx.json and      *)
(* raw.jsonl per session), which every turn restores, prunes, compresses   *)
(* and saves.  A worker handles one message of a key at a time, and no     *)
(* method of SessionManager awaits inside its lock, so the steps of a turn *)
(* are the writes to disk and the calls of the language model; only a      *)
(* crash or a failing model comes between them.                            *)
(***************************************************************************)
EXTENDS Naturals, Sequences, FiniteSets, SequencesExt

CONSTANTS
  MaxSessions, MaxTurns, MaxTools, MaxCrashes,  (* bounds; tools per turn  *)
  KeepTurns,   (* turns whose tool results are kept: _PRUNE_KEEP_TURNS      *)
  FreshTurns,  (* turns that are never compressed: _FRESH_KEEP_TURNS        *)
  Threshold,   (* tokens from which on the list is compressed               *)
  ChunkTokens, (* _CHUNK_TOKENS                                             *)
  ToolTokens   (* of a tool result; any other message counts 1              *)

ASSUME ConversationAssumption ==
  /\ MaxSessions \in Nat /\ MaxTurns \in Nat /\ MaxTools \in Nat /\ MaxCrashes \in Nat
  /\ KeepTurns \in Nat \ {0} /\ FreshTurns \in Nat \ {0}
  /\ Threshold \in Nat /\ ChunkTokens \in Nat /\ ToolTokens \in Nat

VARIABLES
  active, made,  (* index.json: the active session, 0 if none; how many    *)
  count,         (* index.json: message_count of each session              *)
  jsonl,         (* the histories                                          *)
  ctx, torn,     (* the snapshots last written, and those that do not parse *)
  raw,           (* the audit logs                                         *)
  pc, turn,      (* the worker's place and the number of its turn          *)
  msgs,          (* the list that goes to the model                        *)
  historyLen,    (* _history_len                                           *)
  loaded,        (* _session_loaded                                        *)
  said,          (* history: how many messages each turn produced          *)
  compressed,    (* history: turns in which the list was compressed        *)
  crashes

index == <<active, made, count>>
crew == <<msgs, historyLen, loaded>>
memory == <<ctx, torn, raw>>
vars == <<index, jsonl, memory, pc, turn, crew, said, compressed, crashes>>

Sessions == 1..MaxSessions
Ids == (1..MaxTurns) \X (1..(2 + 2 * MaxTools))

(* A message stands for itself (one id), a summary for the messages of its  *)
(* chunk.  "call" and "answer" have the role assistant.                     *)
Messages == [role : {"system", "summary", "user", "call", "tool", "answer"},
             ids : SUBSET Ids, pruned : BOOLEAN]
Message(role, n) == [role |-> role, ids |-> {<<turn, n>>}, pruned |-> FALSE]
System == [role |-> "system", ids |-> {}, pruned |-> FALSE]
Summary(ids) == [role |-> "summary", ids |-> ids, pruned |-> FALSE]

(* Types of all variables.  A history's tail is "open" without a newline at *)
(* its end, "torn" with a line on which load_history raises.                *)
TypeOK ==
  /\ active \in Sessions \union {0} /\ made \in 0..MaxSessions
  /\ count \in [Sessions -> Nat]
  /\ jsonl \in [Sessions -> [lines : Seq((1..MaxTurns) \X {"user", "assistant"}),
                             tail : {"whole", "open", "torn"}]]
  /\ ctx \in [Sessions -> Seq(Messages)] /\ torn \in SUBSET Sessions
  /\ raw \in [Sessions -> [lines : Seq(SUBSET Ids), open : BOOLEAN]]
  /\ pc \in {"idle", "meta", "new", "load", "hook", "model", "raw", "truncate",
             "fill", "history", "count"}
  /\ turn \in 0..MaxTurns
  /\ msgs \in Seq(Messages) /\ historyLen \in Nat /\ loaded \in BOOLEAN
  /\ said \in [1..MaxTurns -> 0..(2 + 2 * MaxTools)]
  /\ compressed \in SUBSET (1..MaxTurns)
  /\ crashes \in 0..MaxCrashes

Init ==
  /\ active = 0 /\ made = 0
  /\ count = [s \in Sessions |-> 0]
  /\ jsonl = [s \in Sessions |-> [lines |-> <<>>, tail |-> "whole"]]
  /\ ctx = [s \in Sessions |-> <<>>] /\ torn = {}
  /\ raw = [s \in Sessions |-> [lines |-> <<>>, open |-> FALSE]]
  /\ pc = "idle" /\ turn = 0
  /\ msgs = <<>> /\ historyLen = 0 /\ loaded = FALSE
  /\ said = [t \in 1..MaxTurns |-> 0]
  /\ compressed = {}
  /\ crashes = 0

-----------------------------------------------------------------------------
SystemRoles == {"system", "summary"}
TalkRoles == {"user", "call", "tool", "answer"}
Users(list) == {i \in DOMAIN list : list[i].role = "user"}

(* [m for m in list if m["role"] in roles]                                  *)
OfRoles(list, roles) ==
  LET of[i \in 0..Len(list)] ==
        IF i = 0 THEN <<>>
        ELSE IF list[i].role \in roles THEN Append(of[i - 1], list[i]) ELSE of[i - 1]
  IN  of[Len(list)]

(* Where the last n turns begin: user_indices[-n].                          *)
TurnsFrom(list, n) ==
  CHOOSE i \in Users(list) : Cardinality({j \in Users(list) : j >= i}) = n

(* prune_tool_results: tool results of older turns become a placeholder.    *)
(* Mutant: of all turns.                                                    *)
ListEnd(list) == Len(list) + 1
PruneEnd(list) == TurnsFrom(list, KeepTurns)
Prune(list) ==
  IF Cardinality(Users(list)) <= KeepTurns THEN list
  ELSE [i \in DOMAIN list |->
          [list[i] EXCEPT !.pruned =
             @ \/ (list[i].role = "tool" /\ i < PruneEnd(list))]]

Tokens(m) == IF m.role = "tool" /\ ~m.pruned THEN ToolTokens ELSE 1
AllTokens(list) == FoldLeft(LAMBDA n, m : n + Tokens(m), 0, list)

(* chunk_by_tokens and _summarize_chunk: one summary per chunk, a           *)
(* placeholder if the model fails; either stands for its chunk.             *)
Put(chunks, m) ==
  LET n == Len(chunks) IN
  IF n > 0 /\ chunks[n].tokens + Tokens(m) <= ChunkTokens
  THEN [chunks EXCEPT ![n] = [ids |-> chunks[n].ids \union m.ids,
                              tokens |-> chunks[n].tokens + Tokens(m)]]
  ELSE Append(chunks, [ids |-> m.ids, tokens |-> Tokens(m)])

Chunks(list) ==
  LET upto[i \in 0..Len(list)] == IF i = 0 THEN <<>> ELSE Put(upto[i - 1], list[i])
  IN  upto[Len(list)]

Summaries(list) == [i \in DOMAIN Chunks(list) |-> Summary(Chunks(list)[i].ids)]

(* maybe_compress.  Mutants: the cut counts messages instead of turns; the  *)
(* new summaries go before the old ones.                                    *)
CutAtMessages(conv) == Len(conv) - FreshTurns
Cut(conv) == TurnsFrom(conv, FreshTurns)
NewFirst(systems, summaries) == summaries \o systems
OldFirst(systems, summaries) == systems \o summaries

Compress(list) ==
  LET conv == OfRoles(list, TalkRoles) IN
  IF AllTokens(conv) < Threshold \/ Cardinality(Users(conv)) <= FreshTurns THEN list
  ELSE OldFirst(OfRoles(list, SystemRoles), Summaries(SubSeq(conv, 1, Cut(conv) - 1)))
         \o SubSeq(conv, Cut(conv), Len(conv))

(* _restore_session keeps what is no old system prompt.  Mutants: it keeps  *)
(* no summary either; _history_len counts the old prompt.                   *)
KeptSystemless(history) == OfRoles(history, TalkRoles)
Kept(history) == OfRoles(history, {"summary"} \union TalkRoles)
LenOfFile(history) == 1 + Len(history)
HistoryLen(history) == 1 + Len(Kept(history))

-----------------------------------------------------------------------------
(* Session creation: the index is renamed into place, then the meta line is *)
(* written, by /new or for a key's first message.                           *)
Create(next) ==
  /\ made < MaxSessions
  /\ made' = made + 1
  /\ active' = made + 1
  /\ pc' = next
  /\ UNCHANGED <<count, jsonl, memory, crew, said, compressed, crashes>>

NewSession == pc = "idle" /\ Create("new") /\ UNCHANGED turn

WriteMeta ==
  /\ pc \in {"meta", "new"}
  /\ pc' = IF pc = "meta" THEN "load" ELSE "idle"
  /\ UNCHANGED <<index, jsonl, memory, turn, crew, said, compressed, crashes>>

(* A message arrives: get_or_create.                                        *)
Receive ==
  /\ pc = "idle"
  /\ turn < MaxTurns
  /\ turn' = turn + 1
  /\ IF active = 0 THEN Create("meta")
     ELSE pc' = "load" /\ UNCHANGED <<index, jsonl, memory, crew, said, compressed, crashes>>

(* The turn is over and its crew is forgotten.                              *)
Over ==
  /\ pc' = "idle"
  /\ msgs' = <<>> /\ historyLen' = 0 /\ loaded' = FALSE

(* load_history raises on a line that does not parse; otherwise a crew is   *)
(* made and its system and user prompts are the list.                       *)
LoadHistory ==
  /\ pc = "load"
  /\ IF jsonl[active].tail = "torn"
     THEN Over /\ UNCHANGED said
     ELSE /\ msgs' = <<System, Message("user", 1)>>
          /\ said' = [said EXCEPT ![turn] = 1]
          /\ pc' = "hook"
          /\ UNCHANGED <<historyLen, loaded>>
  /\ UNCHANGED <<index, jsonl, memory, turn, compressed, crashes>>

(* before_llm_hook: restore at the first call, then prune and compress.     *)
Restored ==
  IF loaded \/ ctx[active] = <<>> THEN msgs
  ELSE <<System>> \o Kept(ctx[active]) \o OfRoles(msgs, {"user"})

Hook ==
  /\ pc = "hook"
  /\ loaded \/ active \notin torn
  /\ msgs' = Compress(Prune(Restored))
  /\ historyLen' = IF loaded THEN historyLen
                   ELSE IF ctx[active] = <<>> THEN 0 ELSE HistoryLen(ctx[active])
  /\ loaded' = TRUE
  /\ compressed' = IF Len(msgs') < Len(Restored) THEN compressed \union {turn} ELSE compressed
  /\ pc' = "model"
  /\ UNCHANGED <<index, jsonl, memory, turn, said, crashes>>

(* json.loads raises in the hook; the framework swallows that or the turn   *)
(* fails.                                                                   *)
HookRaises ==
  /\ pc = "hook"
  /\ ~loaded /\ active \in torn
  /\ \/ pc' = "model" /\ UNCHANGED crew
     \/ Over
  /\ UNCHANGED <<index, jsonl, memory, turn, said, compressed, crashes>>

(* The model calls a tool, whose result joins the list, or answers.         *)
CallTool ==
  /\ pc = "model"
  /\ said[turn] < 1 + 2 * MaxTools
  /\ msgs' = msgs \o <<Message("call", said[turn] + 1), Message("tool", said[turn] + 2)>>
  /\ said' = [said EXCEPT ![turn] = @ + 2]
  /\ pc' = "hook"
  /\ UNCHANGED <<index, jsonl, memory, turn, historyLen, loaded, compressed, crashes>>

(* Without a list from the hook (_last_msgs) run_and_index saves nothing.   *)
Answer ==
  /\ pc = "model"
  /\ msgs' = Append(msgs, Message("answer", said[turn] + 1))
  /\ said' = [said EXCEPT ![turn] = @ + 1]
  /\ pc' = IF loaded THEN "raw" ELSE "history"
  /\ UNCHANGED <<index, jsonl, memory, turn, historyLen, loaded, compressed, crashes>>

ModelFails ==
  /\ pc = "model"
  /\ Over
  /\ UNCHANGED <<index, jsonl, memory, turn, said, compressed, crashes>>

(* run_and_index: _last_msgs[_history_len:] to raw.jsonl; behind an         *)
(* unterminated line the first of them cannot be read.                      *)
NewMsgs == SubSeq(msgs, historyLen + 1, Len(msgs))
RawWith(list) ==
  LET readable == IF raw[active].open /\ list # <<>> THEN Tail(list) ELSE list
  IN  raw[active].lines \o [i \in DOMAIN readable |-> readable[i].ids]

AppendRaw ==
  /\ pc = "raw"
  /\ raw' = [raw EXCEPT ![active] = [lines |-> RawWith(NewMsgs),
                                     open |-> @.open /\ NewMsgs = <<>>]]
  /\ pc' = "truncate"
  /\ UNCHANGED <<index, jsonl, ctx, torn, turn, crew, said, compressed, crashes>>

(* save_session_ctx: write_text empties the file, then writes the whole     *)
(* list (NewMsgs in its place is a mutant).                                 *)
TruncateCtx ==
  /\ pc = "truncate"
  /\ torn' = torn \union {active}
  /\ pc' = "fill"
  /\ UNCHANGED <<index, jsonl, ctx, raw, turn, crew, said, compressed, crashes>>

Snapshot == msgs

FillCtx ==
  /\ pc = "fill"
  /\ ctx' = [ctx EXCEPT ![active] = Snapshot]
  /\ torn' = torn \ {active}
  /\ pc' = "history"
  /\ UNCHANGED <<index, jsonl, raw, turn, crew, said, compressed, crashes>>

(* SessionManager.append: both lines, then message_count.                   *)
Exchange == <<<<turn, "user">>, <<turn, "assistant">>>>

AppendHistory ==
  /\ pc = "history"
  /\ jsonl' = [jsonl EXCEPT ![active] =
       IF @.tail = "open" THEN [lines |-> @.lines, tail |-> "torn"]
       ELSE [lines |-> @.lines \o Exchange, tail |-> "whole"]]
  /\ pc' = "count"
  /\ UNCHANGED <<index, memory, turn, crew, said, compressed, crashes>>

UpdateCount ==
  /\ pc = "count"
  /\ count' = [count EXCEPT ![active] = @ + 2]
  /\ Over
  /\ UNCHANGED <<active, made, jsonl, memory, turn, said, compressed, crashes>>

(* What a write of lines that is cut short may leave: some of them, and     *)
(* behind these part of the next, perhaps all of it but the newline.        *)
HistoryTorn ==
  \E n \in 0..2, tail \in {"whole", "open", "torn"} :
    /\ n = 0 => tail # "open"
    /\ n = 2 => tail # "torn"
    /\ jsonl' = [jsonl EXCEPT ![active] =
         IF n = 0 /\ tail = "whole" THEN @
         ELSE IF @.tail = "open" THEN [lines |-> @.lines, tail |-> "torn"]
         ELSE [lines |-> @.lines \o SubSeq(Exchange, 1, n), tail |-> tail]]

MetaTorn ==
  \E tail \in {"whole", "open", "torn"} : jsonl' = [jsonl EXCEPT ![active].tail = tail]

RawTorn ==
  \E n \in 0..Len(NewMsgs), open \in BOOLEAN :
    raw' = [raw EXCEPT ![active] =
      [lines |-> RawWith(SubSeq(NewMsgs, 1, n)),
       open |-> IF n = 0 THEN @.open \/ (open /\ NewMsgs # <<>>) ELSE open /\ n < Len(NewMsgs)]]

Crash ==
  /\ crashes < MaxCrashes
  /\ crashes' = crashes + 1
  /\ \/ pc \in {"meta", "new"} /\ MetaTorn /\ UNCHANGED raw
     \/ pc = "history" /\ HistoryTorn /\ UNCHANGED raw
     \/ pc = "raw" /\ RawTorn /\ UNCHANGED jsonl
     \/ pc \notin {"idle", "meta", "new", "history", "raw"} /\ UNCHANGED <<jsonl, raw>>
  /\ Over
  /\ UNCHANGED <<index, ctx, torn, turn, said, compressed>>

Save == AppendRaw \/ TruncateCtx \/ FillCtx \/ AppendHistory \/ UpdateCount

Next ==
  \/ NewSession \/ WriteMeta \/ Receive \/ LoadHistory
  \/ Hook \/ HookRaises \/ CallTool \/ Answer \/ ModelFails
  \/ Save
  \/ Crash

Spec == Init /\ [][Next]_vars

-----------------------------------------------------------------------------
Covered(list) == UNION {list[i].ids : i \in DOMAIN list}
IdsOf(t) == {t} \X (1..said[t])
Before(a, b) == a[1] < b[1] \/ (a[1] = b[1] /\ a[2] < b[2])

(* The lists that go to the model, and the snapshots.                       *)
Lists == {msgs} \union {ctx[s] : s \in Sessions}

(* The two stores of a session agree: whatever exchange its history gives,  *)
(* the snapshot that later turns restore has in full, as it was or in a     *)
(* summary, unless a crash destroyed the snapshot.                          *)
HistoryRemembered ==
  \A s \in Sessions \ torn : \A i \in DOMAIN jsonl[s].lines :
    IdsOf(jsonl[s].lines[i][1]) \subseteq Covered(ctx[s])

(* No save forgets what a save before remembered: restoring, pruning and    *)
(* compressing in between lose no message without a summary in its place.   *)
NothingForgotten ==
  [][\A s \in Sessions : Covered(ctx[s]) \subseteq Covered(ctx'[s])]_vars

(* Each list is in the order of the conversation, summaries included.       *)
InOrder ==
  \A list \in Lists : \A i, j \in DOMAIN list :
    i < j => \A a \in list[i].ids, b \in list[j].ids : Before(a, b)

(* Each tool result stands right behind the call it answers, as the API     *)
(* demands, however the list was pruned, cut and restored.                  *)
ToolsAnswered ==
  \A list \in Lists : \A i \in DOMAIN list :
    list[i].role = "tool" =>
      /\ i > 1 /\ list[i - 1].role = "call"
      /\ \A a \in list[i - 1].ids, b \in list[i].ids : b = <<a[1], a[2] + 1>>

(* The last FreshTurns turns of a list are in it word for word, the last    *)
(* KeepTurns of these with their tool results.                              *)
Latest(list, n) ==
  LET turns == {id[1] : id \in Covered(list)}
  IN  {t \in turns : Cardinality({u \in turns : u > t}) < n}

RecentVerbatim ==
  \A list \in Lists : \A i \in DOMAIN list : \A id \in list[i].ids :
    /\ id[1] \in Latest(list, FreshTurns) => list[i].role # "summary"
    /\ id[1] \in Latest(list, KeepTurns) => ~list[i].pruned

(* The audit log misses a remembered message only when its turn compressed  *)
(* the list, which then is shorter than _history_len takes it to be, or,    *)
(* once per crash, when its line was glued to a torn one.                   *)
Unlogged(s) ==
  {id \in Covered(ctx[s]) :
     id[1] \notin compressed /\ \A i \in DOMAIN raw[s].lines : id \notin raw[s].lines[i]}

RawMissesCompressed == \A s \in Sessions : Cardinality(Unlogged(s)) <= crashes
=============================================================================
