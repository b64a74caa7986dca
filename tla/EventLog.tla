------------------------------- MODULE EventLog -------------------------------
(***************************************************************************)
(* projects/{pid}/events.jsonl as tools/event_log.py keeps it: append_event*)
(* numbers an event by the last line it can parse and appends it, both     *)
(* under a FileLock; init_events creates the file; read_events skips lines *)
(* that do not parse.  Writer and reader do not agree on what a line is:   *)
(* _last_seq splits with str.splitlines(), read_events iterates over the   *)
(* file, and json.dumps(ensure_ascii=False) leaves U+0085, U+2028 and      *)
(* U+2029, which only the former splits at, as they are.                   *)
(***************************************************************************)
EXTENDS Naturals, Sequences, FiniteSets

CONSTANTS
  Writers,     (* callers: AppendEventTool, SendToHumanTool, CreateProject *)
  Events,      (* events that may be appended                              *)
  Odd,         (* those whose payload holds such a separator               *)
  CreateOverlaps, (* FALSE: nothing else happens to a project while        *)
               (* create_project builds its tree                           *)
  MaxCreates,  (* bound on calls of create_project                         *)
  MaxCrashes,  (* bound on crashes                                         *)
  NoOne        (* the FileLock is free; no event                           *)

ASSUME EventLogAssumption ==
  /\ Odd \subseteq Events
  /\ NoOne \notin Writers \union Events
  /\ CreateOverlaps \in BOOLEAN
  /\ MaxCreates \in Nat /\ MaxCrashes \in Nat

VARIABLES
  log,      (* the lines of the file                                       *)
  present,  (* the file exists                                             *)
  open,     (* its last line has no newline yet                            *)
  garbled,  (* it is not UTF-8: a tear inside a character                  *)
  lock,     (* holder of events.jsonl.lock                                 *)
  pc,       (* where each writer is                                        *)
  event,    (* what it appends                                             *)
  seq,      (* the number it computed                                      *)
  used,     (* events already handed to append_event                       *)
  acked,    (* history: events whose append_event returned                 *)
  creates, crashes

file == <<log, present, open, garbled>>
writer == <<lock, pc, event, seq, used>>
vars == <<file, writer, acked, creates, crashes>>

(* "event": a line both readers parse; "odd": one with a separator inside,  *)
(* which _last_seq sees in pieces; "junk": one that nobody parses.          *)
Lines == [form : {"event", "odd", "junk"}, seq : Nat, id : Events \union {NoOne}]

(* Types of all variables.                                                  *)
TypeOK ==
  /\ log \in Seq(Lines)
  /\ present \in BOOLEAN /\ open \in BOOLEAN /\ garbled \in BOOLEAN
  /\ lock \in Writers \union {NoOne}
  /\ pc \in [Writers -> {"idle", "tree", "init", "lock", "write"}]
  /\ event \in [Writers -> Events \union {NoOne}]
  /\ seq \in [Writers -> Nat]
  /\ used \in SUBSET Events
  /\ acked \in SUBSET Events
  /\ creates \in Nat /\ crashes \in Nat

Init ==
  /\ log = <<>>
  /\ present = FALSE /\ open = FALSE /\ garbled = FALSE
  /\ lock = NoOne
  /\ pc = [w \in Writers |-> "idle"]
  /\ event = [w \in Writers |-> NoOne]
  /\ seq = [w \in Writers |-> 0]
  /\ used = {}
  /\ acked = {}
  /\ creates = 0 /\ crashes = 0

-----------------------------------------------------------------------------
Readable(i) == log[i].form \in {"event", "odd"}
Counted(i) == log[i].form = "event"

(* _last_seq: from the end, the first line that parses; 0 if there is none. *)
IsLastSeq(n) ==
  \/ n = 0 /\ \A i \in DOMAIN log : ~Counted(i)
  \/ \E i \in DOMAIN log : /\ Counted(i) /\ log[i].seq = n
                           /\ \A j \in DOMAIN log : Counted(j) => j <= i

Line(e, n) == [form |-> IF e \in Odd THEN "odd" ELSE "event", seq |-> n, id |-> e]
Junk == [form |-> "junk", seq |-> 0, id |-> NoOne]

(* open(.., "a") and write: behind an unterminated line the new text is     *)
(* part of that line, and two JSON documents on one line do not parse.      *)
Laid(x) == IF open THEN [log EXCEPT ![Len(log)] = Junk] ELSE Append(log, x)

-----------------------------------------------------------------------------
(* init_events takes no lock: what keeps other calls away from it is that   *)
(* only the manager's turns make them, one turn at a time (Runner's team    *)
(* lock) and one tool call after the other.                                 *)
MayBegin == CreateOverlaps \/ \A v \in Writers : pc[v] \notin {"tree", "init"}

(* append_event is called with a valid action; create_project has a call of *)
(* its own below.                                                           *)
AppendEvent(w, e) ==
  /\ pc[w] = "idle"
  /\ MayBegin
  /\ e \notin used
  /\ used' = used \union {e}
  /\ event' = [event EXCEPT ![w] = e]
  /\ pc' = [pc EXCEPT ![w] = "lock"]
  /\ UNCHANGED <<file, lock, seq, acked, creates, crashes>>

CreateProject(w, e) ==
  /\ pc[w] = "idle"
  /\ CreateOverlaps \/ \A v \in Writers : pc[v] = "idle"
  /\ creates < MaxCreates
  /\ creates' = creates + 1
  /\ e \notin used
  /\ used' = used \union {e}
  /\ event' = [event EXCEPT ![w] = e]
  /\ pc' = [pc EXCEPT ![w] = "tree"]
  /\ UNCHANGED <<file, lock, seq, acked, crashes>>

(* init_events writes "" if there is no file.  Mutant: always.              *)
InitAlways == TRUE
InitIfMissing == ~present

(* init_project_tree, whose init_events looks first and writes then; after  *)
(* it append_event("project_created"), also when the project was there      *)
(* before.                                                                  *)
FindLog(w) ==
  /\ pc[w] = "tree"
  /\ pc' = [pc EXCEPT ![w] = IF InitIfMissing THEN "init" ELSE "lock"]
  /\ UNCHANGED <<file, lock, event, seq, used, acked, creates, crashes>>

InitEvents(w) ==
  /\ pc[w] = "init"
  /\ present' = TRUE
  /\ log' = <<>> /\ open' = FALSE /\ garbled' = FALSE
  /\ pc' = [pc EXCEPT ![w] = "lock"]
  /\ UNCHANGED <<lock, event, seq, used, acked, creates, crashes>>

(* Mutant: the FileLock of another path.                                    *)
NoLock == TRUE
LockFree == lock = NoOne

(* The call ends and forgets its locals.                                    *)
Return(w) ==
  /\ pc' = [pc EXCEPT ![w] = "idle"]
  /\ event' = [event EXCEPT ![w] = NoOne]
  /\ seq' = [seq EXCEPT ![w] = 0]

(* With the lock: _last_seq + 1.  decode("utf-8") of a garbled file raises  *)
(* UnicodeDecodeError outside of _last_seq's try.                           *)
NextSeq(w) ==
  /\ pc[w] = "lock"
  /\ LockFree
  /\ \/ /\ ~garbled
        /\ \E n \in {0} \union {log[i].seq : i \in DOMAIN log} :
             /\ IsLastSeq(n)
             /\ seq' = [seq EXCEPT ![w] = n + 1]
        /\ lock' = w
        /\ pc' = [pc EXCEPT ![w] = "write"]
        /\ UNCHANGED event
     \/ /\ garbled
        /\ lock' = NoOne
        /\ Return(w)
  /\ UNCHANGED <<file, used, acked, creates, crashes>>

WriteLine(w) ==
  /\ pc[w] = "write"
  /\ log' = Laid(Line(event[w], seq[w]))
  /\ present' = TRUE
  /\ open' = FALSE
  /\ acked' = acked \union {event[w]}
  /\ lock' = NoOne
  /\ Return(w)
  /\ UNCHANGED <<garbled, used, creates, crashes>>

(* The host dies.  Of a line being written a part may be in the file: not   *)
(* all of the JSON, perhaps cut inside a character; all but the newline;    *)
(* the whole line.  (A cut right behind an odd event's separator is counted *)
(* with the first.)                                                         *)
Remains(w) ==
  LET x == Line(event[w], seq[w]) IN
  \/ log' = Laid(Junk) /\ open' = TRUE /\ garbled' \in {garbled, TRUE}
  \/ log' = Laid(x) /\ open' \in BOOLEAN /\ UNCHANGED garbled

Crash ==
  /\ crashes < MaxCrashes
  /\ crashes' = crashes + 1
  /\ \/ UNCHANGED file
     \/ \E w \in Writers : pc[w] = "write" /\ Remains(w) /\ present' = TRUE
  /\ lock' = NoOne
  /\ pc' = [w \in Writers |-> "idle"]
  /\ event' = [w \in Writers |-> NoOne]
  /\ seq' = [w \in Writers |-> 0]
  /\ UNCHANGED <<used, acked, creates>>

Step(w) == FindLog(w) \/ InitEvents(w) \/ NextSeq(w) \/ WriteLine(w)

Next ==
  \/ \E w \in Writers, e \in Events : AppendEvent(w, e) \/ CreateProject(w, e)
  \/ \E w \in Writers : Step(w)
  \/ Crash

Spec == Init /\ [][Next]_vars

-----------------------------------------------------------------------------
(* What read_events gives is numbered in order; two events share a number   *)
(* only when the earlier one holds a separator that hides it from           *)
(* _last_seq.                                                               *)
SeqsIncrease ==
  \A i, j \in DOMAIN log :
    i < j /\ Readable(i) /\ Readable(j) =>
      log[i].seq < log[j].seq \/ (log[i].seq = log[j].seq /\ ~Counted(i))

(* Strictly, whatever the events say.  False if one holds a separator.      *)
SeqsStrictlyIncrease ==
  \A i, j \in DOMAIN log :
    i < j /\ Readable(i) /\ Readable(j) => log[i].seq < log[j].seq

(* The acknowledged events read_events will not give.                       *)
Lost == {e \in acked : ~\E i \in DOMAIN log : Readable(i) /\ log[i].id = e}

(* A crash costs at most one acknowledged event (the next one, glued to the *)
(* torn line) as long as the file is text at all; no crash, no loss.        *)
OneLossPerCrash == ~garbled => Cardinality(Lost) <= crashes

(* Appending never changes a line other than the unterminated last one.     *)
AppendOnly ==
  [][\A i \in DOMAIN log :
       i < Len(log) \/ ~open => i \in DOMAIN log' /\ log'[i] = log[i]]_log
=============================================================================
