--------------------------- MODULE ProjectProofs ----------------------------
(***************************************************************************)
(* Proofs about EventLog and Project, for any callers, events, separators  *)
(* and bounds: types; that init_events finds the log as it looked for it,  *)
(* while nothing else happens to a project that is being created           *)
(* (~CreateOverlaps); from that the numbering of the events, that lines    *)
(* are never changed and what crashes may cost; then that the log of a     *)
(* project is such a log, so that all of it holds beside the documents,    *)
(* and, whatever overlaps, that no project is announced without its        *)
(* requirements.                                                           *)
(***************************************************************************)
EXTENDS Project, TLAPS, FiniteSetTheorems

(* A line that _last_seq counted is the predecessor of every readable line  *)
(* but those numbered 1.                                                    *)
Based ==
  \A i \in DOMAIN log : Readable(i) =>
    \/ log[i].seq = 1
    \/ \E j \in DOMAIN log : j < i /\ Counted(j) /\ log[j].seq + 1 = log[i].seq

(* n may be given to the next line.                                         *)
Fits(n) ==
  /\ \A i \in DOMAIN log : Readable(i) =>
       log[i].seq < n \/ (log[i].seq = n /\ ~Counted(i))
  /\ n = 1 \/ \E j \in DOMAIN log : Counted(j) /\ log[j].seq + 1 = n

(* The one caller between number and write holds the lock, and its number   *)
(* still fits; a log with lines has a file; a call has its event.           *)
Numbered == \A w \in Writers : pc[w] = "write" => lock = w /\ Fits(seq[w])
Grounded == (log # <<>> => present) /\ (open => log # <<>>)

Busy == \A w \in Writers : pc[w] # "idle" => event[w] \in Events

TypeInv == TypeOK /\ Grounded /\ Busy
LogInv == SeqsIncrease /\ Based /\ Numbered

-----------------------------------------------------------------------------
(* What one write does to the file: it adds a line, or spoils the           *)
(* unterminated last one.                                                   *)
LEMMA LaidShape ==
  ASSUME TypeOK, Grounded, NEW x \in Lines, log' = Laid(x)
  PROVE  /\ log' \in Seq(Lines)
         /\ log' # <<>>
         /\ Len(log) \in Nat /\ DOMAIN log = 1..Len(log)
         /\ \A i \in DOMAIN log : i < Len(log) \/ ~open =>
              i \in DOMAIN log' /\ log'[i] = log[i]
         /\ \A i \in DOMAIN log' :
              \/ i \in DOMAIN log /\ log'[i] = log[i] /\ (open => i < Len(log))
              \/ ~open /\ i = Len(log) + 1 /\ log'[i] = x
              \/ open /\ i = Len(log) /\ log'[i] = Junk
<1>1. Junk \in Lines
  BY DEF Junk, Lines
<1>2. CASE open
  <2>1. log # <<>> /\ log \in Seq(Lines)
    BY <1>2 DEF TypeOK, Grounded
  <2>2. Len(log) \in 1..Len(log)
    BY <2>1
  <2>3. log' = [log EXCEPT ![Len(log)] = Junk]
    BY <1>2 DEF Laid
  <2> QED
    BY <1>1, <1>2, <2>1, <2>2, <2>3
<1>3. CASE ~open
  <2>1. log' = Append(log, x) /\ log \in Seq(Lines)
    BY <1>3 DEF Laid, TypeOK
  <2> QED
    BY <1>3, <2>1
<1> QED
  BY <1>2, <1>3

(* The types hold and a line is well formed.                                *)
LEMMA LineTypes ==
  ASSUME NEW e \in Events \union {NoOne}, NEW n \in Nat
  PROVE  /\ Line(e, n) \in Lines /\ Line(e, n).seq = n
         /\ Junk \in Lines /\ Junk.form = "junk"
  BY DEF Line, Lines, Junk

(* Types hold in every reachable state.                                     *)
LEMMA TypeInvariant == Spec => []TypeInv
<1>1. Init => TypeInv
  <2>1. <<>> \in Seq(Lines)
    OBVIOUS
  <2>2. Init => TypeOK
    <3>1. Init => /\ log \in Seq(Lines) /\ creates \in Nat /\ crashes \in Nat
                  /\ used \in SUBSET Events /\ acked \in SUBSET Events
      BY <2>1 DEF Init
    <3>2. Init => present \in BOOLEAN /\ open \in BOOLEAN /\ garbled \in BOOLEAN
      BY DEF Init
    <3>3. Init => lock \in Writers \union {NoOne}
      BY DEF Init
    <3>4. Init => event \in [Writers -> Events \union {NoOne}]
      BY DEF Init
    <3>5. Init => pc \in [Writers -> {"idle", "tree", "init", "lock", "write"}]
      BY DEF Init
    <3>6. Init => seq \in [Writers -> Nat]
      BY DEF Init
    <3> QED
      BY <3>1, <3>2, <3>3, <3>4, <3>5, <3>6 DEF TypeOK
  <2>3. Init => Grounded
    BY DEF Init, Grounded
  <2>4. Init => Busy
    BY DEF Init, Busy
  <2> QED
    BY <2>2, <2>3, <2>4 DEF TypeInv
<1>2. TypeInv /\ [Next]_vars => TypeInv'
  <2> SUFFICES ASSUME TypeOK, Grounded, Busy, [Next]_vars
               PROVE  TypeInv'
    BY DEF TypeInv
  <2>1. ASSUME NEW w \in Writers, NEW e \in Events, AppendEvent(w, e)
        PROVE  TypeInv'
    BY <2>1 DEF TypeInv, Busy, TypeOK, Grounded, AppendEvent, file
  <2>2. ASSUME NEW w \in Writers, NEW e \in Events, CreateProject(w, e)
        PROVE  TypeInv'
    BY <2>2, EventLogAssumption DEF TypeInv, Busy, TypeOK, Grounded, CreateProject, file
  <2>3. ASSUME NEW w \in Writers, FindLog(w) \/ InitEvents(w)
        PROVE  TypeInv'
    <3>1. CASE FindLog(w)
      BY <3>1 DEF TypeInv, Busy, TypeOK, Grounded, FindLog, file
    <3>2. CASE InitEvents(w)
      <4>1. <<>> \in Seq(Lines)
        OBVIOUS
      <4>2. TypeOK'
        BY <3>2, <4>1 DEF TypeOK, InitEvents
      <4>3. Grounded' /\ Busy'
        BY <3>2 DEF TypeOK, Grounded, Busy, InitEvents
      <4> QED
        BY <4>2, <4>3 DEF TypeInv
    <3> QED
      BY <2>3, <3>1, <3>2
  <2>4. ASSUME NEW w \in Writers, NextSeq(w)
        PROVE  TypeInv'
    <3>1. CASE ~garbled
      <4>1. PICK n \in {0} \union {log[i].seq : i \in DOMAIN log} :
              seq' = [seq EXCEPT ![w] = n + 1]
        BY <2>4, <3>1 DEF NextSeq
      <4>2. n \in Nat
        <5>1. \A i \in DOMAIN log : log[i] \in Lines
          BY DEF TypeOK
        <5> QED
          BY <5>1 DEF Lines
      <4>3. /\ lock' = w /\ pc' = [pc EXCEPT ![w] = "write"]
            /\ UNCHANGED <<event, log, present, open, garbled, used, acked,
                           creates, crashes>>
        BY <2>4, <3>1 DEF NextSeq, file
      <4> QED
        <5>1. TypeOK'
          BY <4>1, <4>2, <4>3 DEF TypeOK
        <5>2. Grounded' /\ Busy'
          BY <2>4, <4>3 DEF Grounded, Busy, TypeOK, NextSeq
        <5> QED
          BY <5>1, <5>2 DEF TypeInv
    <3>2. CASE garbled
      <4>1. /\ lock' = NoOne /\ Return(w)
            /\ UNCHANGED <<log, present, open, garbled, used, acked,
                           creates, crashes>>
        BY <2>4, <3>2 DEF NextSeq, file
      <4>2. TypeOK'
        <5>1. /\ event' \in [Writers -> Events \union {NoOne}]
              /\ pc' \in [Writers -> {"idle", "tree", "init", "lock", "write"}]
              /\ seq' \in [Writers -> Nat]
          BY <4>1 DEF TypeOK, Return
        <5>2. /\ lock' \in Writers \union {NoOne}
              /\ UNCHANGED <<log, present, open, garbled, used, acked,
                             creates, crashes>>
          BY <4>1
        <5> QED
          BY <5>1, <5>2 DEF TypeOK
      <4>3. Grounded'
        BY <4>1 DEF Grounded
      <4>4. Busy'
        BY <4>1 DEF TypeOK, Busy, Return
      <4> QED
        BY <4>2, <4>3, <4>4 DEF TypeInv
    <3> QED
      BY <3>1, <3>2 DEF TypeOK
  <2>5. ASSUME NEW w \in Writers, WriteLine(w)
        PROVE  TypeInv'
    <3>1. Line(event[w], seq[w]) \in Lines
      BY <2>5, LineTypes DEF TypeOK
    <3>2. log' \in Seq(Lines) /\ log' # <<>>
      BY <2>5, <3>1, LaidShape DEF WriteLine
    <3>3. TypeOK'
      <4>1. /\ event' \in [Writers -> Events \union {NoOne}]
            /\ pc' \in [Writers -> {"idle", "tree", "init", "lock", "write"}]
            /\ seq' \in [Writers -> Nat]
        BY <2>5 DEF TypeOK, WriteLine, Return
      <4>2. acked' \in SUBSET Events
        BY <2>5 DEF TypeOK, Busy, WriteLine
      <4> QED
        BY <2>5, <3>2, <4>1, <4>2 DEF TypeOK, WriteLine
    <3>4. Grounded'
      BY <2>5, <3>2 DEF Grounded, WriteLine
    <3>5. Busy'
      BY <2>5 DEF TypeOK, Busy, WriteLine, Return
    <3> QED
      BY <3>3, <3>4, <3>5 DEF TypeInv
  <2>6. ASSUME Crash
        PROVE  TypeInv'
    <3>1. /\ log' \in Seq(Lines) /\ (log' # <<>> => present') /\ (open' => log' # <<>>)
          /\ present' \in BOOLEAN /\ open' \in BOOLEAN /\ garbled' \in BOOLEAN
      <4>1. CASE UNCHANGED file
        BY <4>1 DEF TypeOK, Grounded, file
      <4>2. ASSUME NEW w \in Writers, Remains(w), present' = TRUE
            PROVE  <3>1
        <5>1. Line(event[w], seq[w]) \in Lines /\ Junk \in Lines
          BY LineTypes DEF TypeOK
        <5>2. open' \in BOOLEAN /\ garbled' \in BOOLEAN
          BY <4>2 DEF Remains, TypeOK
        <5>3. log' = Laid(Junk) \/ log' = Laid(Line(event[w], seq[w]))
          BY <4>2 DEF Remains
        <5>4. log' \in Seq(Lines) /\ log' # <<>>
          BY <5>1, <5>3, LaidShape
        <5> QED
          BY <4>2, <5>2, <5>4
      <4> QED
        BY <2>6, <4>1, <4>2 DEF Crash
    <3>2. /\ event' \in [Writers -> Events \union {NoOne}]
          /\ pc' \in [Writers -> {"idle", "tree", "init", "lock", "write"}]
          /\ seq' \in [Writers -> Nat]
      BY <2>6 DEF Crash
    <3>3. lock' \in Writers \union {NoOne} /\ crashes' \in Nat
      BY <2>6 DEF Crash, TypeOK
    <3>4. used' \in SUBSET Events /\ acked' \in SUBSET Events /\ creates' \in Nat
      BY <2>6 DEF Crash, TypeOK
    <3>5. TypeOK'
      BY <3>1, <3>2, <3>3, <3>4 DEF TypeOK
    <3>6. Grounded'
      BY <3>1 DEF Grounded
    <3>7. Busy'
      BY <2>6 DEF Busy, Crash
    <3> QED
      BY <3>5, <3>6, <3>7 DEF TypeInv
  <2>7. CASE UNCHANGED vars
    BY <2>7 DEF TypeInv, Busy, TypeOK, Grounded, vars, file, writer
  <2> QED
    BY <2>1, <2>2, <2>3, <2>4, <2>5, <2>6, <2>7 DEF Next, Step
<1> QED
  BY <1>1, <1>2, PTL DEF Spec

(* The log's lines, the lock and the calls keep their types in every        *)
(* reachable state, through any number of crashes.                          *)
THEOREM TypeCorrect == Spec => []TypeOK
<1>1. TypeInv => TypeOK
  BY DEF TypeInv
<1> QED
  BY <1>1, TypeInvariant, PTL

-----------------------------------------------------------------------------
(* While one caller builds a tree nobody else is in a call, and a log it    *)
(* has not found does not appear before it writes one.                      *)
Apart ==
  \A w \in Writers : pc[w] \in {"tree", "init"} =>
    /\ \A v \in Writers \ {w} : pc[v] = "idle"
    /\ pc[w] = "init" => ~present

LEMMA CreatesApart == ASSUME ~CreateOverlaps PROVE Spec => []Apart
<1>1. Init => Apart
  BY DEF Init, Apart
<1>2. TypeInv /\ Apart /\ [Next]_vars => Apart'
  <2> SUFFICES ASSUME TypeOK, Apart, [Next]_vars
               PROVE  Apart'
    BY DEF TypeInv
  <2>1. ASSUME NEW w \in Writers, NEW e \in Events, AppendEvent(w, e)
        PROVE  Apart'
    BY <2>1 DEF AppendEvent, MayBegin, Apart, TypeOK
  <2>2. ASSUME NEW w \in Writers, NEW e \in Events, CreateProject(w, e)
        PROVE  Apart'
    BY <2>2 DEF CreateProject, Apart, TypeOK
  <2>3. ASSUME NEW w \in Writers, FindLog(w)
        PROVE  Apart'
    BY <2>3 DEF FindLog, InitIfMissing, file, Apart, TypeOK
  <2>4. ASSUME NEW w \in Writers, InitEvents(w)
        PROVE  Apart'
    BY <2>4 DEF InitEvents, Apart, TypeOK
  <2>5. ASSUME NEW w \in Writers, NextSeq(w) \/ WriteLine(w)
        PROVE  Apart'
    <3>1. pc[w] \in {"lock", "write"}
      BY <2>5 DEF NextSeq, WriteLine
    <3>2. \A v \in Writers : pc[v] \notin {"tree", "init"}
      BY <3>1 DEF Apart
    <3>3. \A v \in Writers : pc'[v] \in {pc[v], "write", "idle"}
      BY <2>5 DEF NextSeq, WriteLine, Return, TypeOK
    <3> QED
      BY <3>2, <3>3 DEF Apart
  <2>6. CASE Crash
    BY <2>6 DEF Crash, Apart
  <2>7. CASE UNCHANGED vars
    BY <2>7 DEF Apart, vars, file, writer
  <2> QED
    BY <2>1, <2>2, <2>3, <2>4, <2>5, <2>6, <2>7 DEF Next, Step
<1> QED
  BY <1>1, <1>2, TypeInvariant, PTL DEF Spec

(* So the log that init_events writes "" to has no line.                    *)
LEMMA InitKeepsLog ==
  ASSUME TypeInv, Apart, NEW w \in Writers, InitEvents(w)
  PROVE  log' = log /\ log = <<>> /\ ~open
  BY DEF TypeInv, Grounded, Apart, InitEvents

-----------------------------------------------------------------------------
(* A number that fits, put on a new line, keeps the order; a spoilt line    *)
(* cannot be the predecessor of another, since nothing stands behind it.    *)
LEMMA LaidKeepsOrder ==
  ASSUME TypeOK, Grounded, SeqsIncrease, Based, NEW x \in Lines,
         log' = Laid(x), x.form \in {"event", "odd"} => Fits(x.seq)
  PROVE  SeqsIncrease' /\ Based'
<1> DEFINE Same(i) == i \in DOMAIN log /\ log'[i] = log[i] /\ (open => i < Len(log))
           New(i) == ~open /\ i = Len(log) + 1 /\ log'[i] = x
           Spoilt(i) == open /\ i = Len(log) /\ log'[i] = Junk
<1>1. /\ Len(log) \in Nat /\ DOMAIN log = 1..Len(log)
      /\ \A i \in DOMAIN log : i < Len(log) \/ ~open => i \in DOMAIN log' /\ log'[i] = log[i]
      /\ \A i \in DOMAIN log' : Same(i) \/ New(i) \/ Spoilt(i)
  BY LaidShape
<1>2. \A i \in DOMAIN log : log[i].seq \in Nat
  <2>1. \A i \in DOMAIN log : log[i] \in Lines
    BY DEF TypeOK
  <2> QED
    BY <2>1 DEF Lines
<1>3. x.seq \in Nat
  BY DEF Lines
<1>4. \A i \in DOMAIN log' : Readable(i)' => Same(i) \/ (New(i) /\ Fits(x.seq))
  BY <1>1 DEF Readable, Junk
<1>5. \A i \in DOMAIN log' : Same(i) => (Readable(i)' <=> Readable(i)) /\ (Counted(i)' <=> Counted(i))
  BY DEF Readable, Counted
<1>6. SeqsIncrease'
  <2> SUFFICES ASSUME NEW i \in DOMAIN log', NEW j \in DOMAIN log', i < j,
                      Readable(i)', Readable(j)'
               PROVE  \/ log'[i].seq < log'[j].seq
                      \/ log'[i].seq = log'[j].seq /\ ~Counted(i)'
    BY DEF SeqsIncrease
  <2>1. CASE Same(i) /\ Same(j)
    BY <2>1, <1>5 DEF SeqsIncrease
  <2>2. CASE Same(i) /\ New(j) /\ Fits(x.seq)
    BY <2>2, <1>5 DEF Fits
  <2>3. CASE New(i)
    BY <2>3, <1>1
  <2> QED
    BY <1>4, <2>1, <2>2, <2>3
<1>7. Based'
  <2> SUFFICES ASSUME NEW i \in DOMAIN log', Readable(i)', log'[i].seq # 1
               PROVE  \E j \in DOMAIN log' :
                        j < i /\ Counted(j)' /\ log'[j].seq + 1 = log'[i].seq
    BY DEF Based
  <2>1. CASE Same(i)
    <3>1. PICK j \in DOMAIN log : j < i /\ Counted(j) /\ log[j].seq + 1 = log[i].seq
      BY <2>1, <1>5 DEF Based
    <3>2. j \in DOMAIN log' /\ log'[j] = log[j]
      BY <3>1, <2>1, <1>1
    <3> QED
      BY <3>1, <3>2, <2>1 DEF Counted
  <2>2. CASE New(i) /\ Fits(x.seq)
    <3>1. PICK j \in DOMAIN log : Counted(j) /\ log[j].seq + 1 = x.seq
      BY <2>2 DEF Fits
    <3>2. j \in DOMAIN log' /\ log'[j] = log[j] /\ j < i
      BY <2>2, <1>1
    <3> QED
      BY <3>1, <3>2, <2>2 DEF Counted
  <2> QED
    BY <1>4, <2>1, <2>2
<1> QED
  BY <1>6, <1>7

(* The number after the one _last_seq finds fits.                           *)
LEMMA NextFits ==
  ASSUME TypeOK, SeqsIncrease, Based, NEW n \in Nat, IsLastSeq(n)
  PROVE  Fits(n + 1)
<1>1. \A i \in DOMAIN log : log[i].seq \in Nat
  <2>1. \A i \in DOMAIN log : log[i] \in Lines
    BY DEF TypeOK
  <2> QED
    BY <2>1 DEF Lines
<1>2. \A i \in DOMAIN log : Counted(i) => log[i].seq <= n
  <2>1. CASE \A i \in DOMAIN log : ~Counted(i)
    BY <2>1
  <2>2. ASSUME NEW k \in DOMAIN log, Counted(k), log[k].seq = n,
               \A j \in DOMAIN log : Counted(j) => j <= k
        PROVE  <1>2
    <3> SUFFICES ASSUME NEW i \in DOMAIN log, Counted(i)
                 PROVE  log[i].seq <= n
      OBVIOUS
    <3>1. DOMAIN log \subseteq Nat
      BY DEF TypeOK
    <3>2. CASE i = k
      BY <2>2, <3>2
    <3>3. CASE i < k
      BY <1>1, <2>2, <3>3 DEF SeqsIncrease, Readable, Counted
    <3> QED
      BY <2>2, <3>1, <3>2, <3>3
  <2> QED
    BY <2>1, <2>2 DEF IsLastSeq
<1>3. \A i \in DOMAIN log : Readable(i) =>
        log[i].seq < n + 1 \/ (log[i].seq = n + 1 /\ ~Counted(i))
  BY <1>1, <1>2 DEF Based
<1>4. n + 1 = 1 \/ \E j \in DOMAIN log : Counted(j) /\ log[j].seq + 1 = n + 1
  BY DEF IsLastSeq
<1> QED
  BY <1>3, <1>4 DEF Fits

-----------------------------------------------------------------------------
(* While nothing else happens to a project being created, readable events   *)
(* are numbered in order, whoever appends and whenever the host crashes:    *)
(* two share a number only if a separator hid the earlier one from          *)
(* _last_seq.                                                               *)
THEOREM SeqsInOrder == ASSUME ~CreateOverlaps PROVE Spec => []SeqsIncrease
<1>1. Init => LogInv
  BY DEF Init, LogInv, SeqsIncrease, Based, Numbered
<1>2. TypeInv /\ Apart /\ LogInv /\ [Next]_vars => LogInv'
  <2> SUFFICES ASSUME TypeInv, Apart, TypeOK, Grounded, SeqsIncrease, Based, Numbered,
                      [Next]_vars
               PROVE  LogInv'
    BY DEF TypeInv, LogInv
  <2>0. ASSUME UNCHANGED log
        PROVE  SeqsIncrease' /\ Based' /\ \A n : Fits(n) => Fits(n)'
    BY <2>0 DEF SeqsIncrease, Based, Fits, Readable, Counted
  <2>1. ASSUME NEW w \in Writers, NEW e \in Events, AppendEvent(w, e)
        PROVE  LogInv'
    BY <2>0, <2>1 DEF LogInv, Numbered, TypeOK, AppendEvent, file
  <2>2. ASSUME NEW w \in Writers, NEW e \in Events, CreateProject(w, e)
        PROVE  LogInv'
    BY <2>0, <2>2 DEF LogInv, Numbered, TypeOK, CreateProject, file
  <2>3. ASSUME NEW w \in Writers, FindLog(w) \/ InitEvents(w)
        PROVE  LogInv'
    <3>1. UNCHANGED log
      BY <2>3, InitKeepsLog DEF FindLog, file
    <3>2. /\ UNCHANGED <<lock, seq>>
          /\ \A v \in Writers : pc'[v] = "write" => pc[v] = "write"
      BY <2>3 DEF FindLog, InitEvents, TypeOK
    <3> QED
      BY <2>0, <3>1, <3>2 DEF LogInv, Numbered
  <2>4. ASSUME NEW w \in Writers, NextSeq(w)
        PROVE  LogInv'
    <3>1. UNCHANGED log /\ lock = NoOne
      BY <2>4 DEF NextSeq, file, LockFree
    <3>2. \A v \in Writers : pc[v] # "write"
      BY <3>1, EventLogAssumption DEF Numbered
    <3>3. CASE ~garbled
      <4>1. PICK n \in {0} \union {log[i].seq : i \in DOMAIN log} :
              IsLastSeq(n) /\ seq' = [seq EXCEPT ![w] = n + 1]
        BY <2>4, <3>3 DEF NextSeq
      <4>2. n \in Nat
        <5>1. \A i \in DOMAIN log : log[i] \in Lines
          BY DEF TypeOK
        <5> QED
          BY <5>1 DEF Lines
      <4>3. Fits(n + 1)'
        BY <4>1, <4>2, <3>1, <2>0, NextFits
      <4>4. lock' = w /\ pc' = [pc EXCEPT ![w] = "write"] /\ seq'[w] = n + 1
        BY <2>4, <3>3, <4>1 DEF NextSeq, TypeOK
      <4>5. Numbered'
        BY <3>2, <4>3, <4>4 DEF Numbered, TypeOK
      <4> QED
        BY <2>0, <3>1, <4>5 DEF LogInv
    <3>4. CASE garbled
      <4>1. pc' = [pc EXCEPT ![w] = "idle"]
        BY <2>4, <3>4 DEF NextSeq, Return
      <4>2. Numbered'
        BY <3>2, <4>1 DEF Numbered, TypeOK
      <4> QED
        BY <2>0, <3>1, <4>2 DEF LogInv
    <3> QED
      BY <3>3, <3>4 DEF TypeOK
  <2>5. ASSUME NEW w \in Writers, WriteLine(w)
        PROVE  LogInv'
    <3>1. Line(event[w], seq[w]) \in Lines /\ Line(event[w], seq[w]).seq = seq[w]
      BY LineTypes DEF TypeOK
    <3>2. Fits(seq[w])
      BY <2>5 DEF WriteLine, Numbered
    <3>3. SeqsIncrease' /\ Based'
      BY <2>5, <3>1, <3>2, LaidKeepsOrder DEF WriteLine
    <3>4. Numbered'
      BY <2>5 DEF WriteLine, Return, Numbered, TypeOK
    <3> QED
      BY <3>3, <3>4 DEF LogInv
  <2>6. ASSUME Crash
        PROVE  LogInv'
    <3>1. SeqsIncrease' /\ Based'
      <4>1. CASE UNCHANGED file
        BY <2>0, <4>1 DEF file
      <4>2. ASSUME NEW w \in Writers, pc[w] = "write", Remains(w)
            PROVE  SeqsIncrease' /\ Based'
        <5>1. /\ Line(event[w], seq[w]) \in Lines /\ Line(event[w], seq[w]).seq = seq[w]
              /\ Junk \in Lines /\ Junk.form = "junk"
          BY LineTypes DEF TypeOK
        <5>2. Fits(seq[w])
          BY <4>2 DEF Numbered
        <5>3. CASE log' = Laid(Junk)
          BY <5>1, <5>3, LaidKeepsOrder
        <5>4. CASE log' = Laid(Line(event[w], seq[w]))
          BY <5>1, <5>2, <5>4, LaidKeepsOrder
        <5> QED
          BY <4>2, <5>3, <5>4 DEF Remains
      <4> QED
        BY <2>6, <4>1, <4>2 DEF Crash
    <3>2. Numbered'
      BY <2>6 DEF Crash, Numbered
    <3> QED
      BY <3>1, <3>2 DEF LogInv
  <2>7. CASE UNCHANGED vars
    BY <2>0, <2>7 DEF LogInv, Numbered, vars, file, writer
  <2> QED
    BY <2>1, <2>2, <2>3, <2>4, <2>5, <2>6, <2>7 DEF Next, Step
<1>3. LogInv => SeqsIncrease
  BY DEF LogInv
<1> QED
  BY <1>1, <1>2, <1>3, TypeInvariant, CreatesApart, PTL DEF Spec

(* No append, crash or repeated create_project changes a line that was      *)
(* terminated, or any line but the last, while nothing else happens to a    *)
(* project being created.                                                   *)
THEOREM LinesStay == ASSUME ~CreateOverlaps PROVE Spec => AppendOnly
<1>1. TypeInv /\ Apart /\ [Next]_vars =>
        [\A i \in DOMAIN log :
           i < Len(log) \/ ~open => i \in DOMAIN log' /\ log'[i] = log[i]]_log
  <2> SUFFICES ASSUME TypeInv, Apart, TypeOK, Grounded, Next, log' # log
               PROVE  \A i \in DOMAIN log :
                        i < Len(log) \/ ~open => i \in DOMAIN log' /\ log'[i] = log[i]
    BY DEF TypeInv, vars, file
  <2>1. ASSUME NEW w \in Writers, InitEvents(w)
        PROVE  FALSE
    BY <2>1, InitKeepsLog
  <2>2. PICK w \in Writers : log' = Laid(Junk) \/ log' = Laid(Line(event[w], seq[w]))
    BY <2>1 DEF Next, Step, AppendEvent, CreateProject, FindLog, NextSeq, WriteLine,
                Crash, Remains, file
  <2>3. Line(event[w], seq[w]) \in Lines /\ Junk \in Lines
    BY LineTypes DEF TypeOK
  <2> QED
    BY <2>2, <2>3, LaidShape
<1> QED
  BY <1>1, TypeInvariant, CreatesApart, PTL DEF Spec, AppendOnly

-----------------------------------------------------------------------------
(* An acknowledged event that is lost had its line glued to a torn one,     *)
(* which takes a crash; the torn line itself is nobody's who was told.      *)
Torn == IF open THEN 1 ELSE 0
Owned ==
  /\ acked \subseteq used
  /\ \A w \in Writers : event[w] # NoOne => event[w] \in used \ acked
  /\ \A v, w \in Writers : event[v] = event[w] /\ event[v] # NoOne => v = w
  /\ open => /\ log[Len(log)].id \in (used \union {NoOne}) \ acked
             /\ \A w \in Writers : event[w] # NoOne => event[w] # log[Len(log)].id
LossInv == IsFiniteSet(Lost) /\ Cardinality(Lost) + Torn <= crashes /\ Owned

(* Nothing that was acknowledged is lost by a write behind a whole line, or *)
(* behind a torn one.                                                       *)
LEMMA LaidLoses ==
  ASSUME TypeOK, Grounded, Owned, NEW x \in Lines, log' = Laid(x)
  PROVE  \A e \in acked : e \notin Lost => \E i \in DOMAIN log' : Readable(i)' /\ log'[i].id = e
<1> SUFFICES ASSUME NEW e \in acked, e \notin Lost
             PROVE  \E i \in DOMAIN log' : Readable(i)' /\ log'[i].id = e
  OBVIOUS
<1>1. PICK i \in DOMAIN log : Readable(i) /\ log[i].id = e
  BY DEF Lost
<1>2. /\ Len(log) \in Nat /\ DOMAIN log = 1..Len(log)
      /\ \A j \in DOMAIN log : j < Len(log) \/ ~open => j \in DOMAIN log' /\ log'[j] = log[j]
  BY LaidShape
<1>3. open => i # Len(log)
  BY <1>1 DEF Owned
<1>4. i < Len(log) \/ ~open
  BY <1>2, <1>3
<1>5. i \in DOMAIN log' /\ log'[i] = log[i]
  BY <1>2, <1>4
<1> QED BY <1>1, <1>5 DEF Readable

(* The last line after a write.                                             *)
LEMMA LaidLast ==
  ASSUME TypeOK, Grounded, NEW x \in Lines, log' = Laid(x)
  PROVE  log'[Len(log')] \in {x, Junk} /\ (~open => log'[Len(log')] = x /\ Len(log') \in DOMAIN log')
<1>1. log \in Seq(Lines) /\ (open => log # <<>>)
  BY DEF TypeOK, Grounded
<1>2. CASE open
  <2>1. log' = [log EXCEPT ![Len(log)] = Junk] /\ Len(log) \in DOMAIN log
    BY <1>1, <1>2 DEF Laid
  <2>2. Len(log') = Len(log)
    BY <1>1, <2>1
  <2> QED BY <1>2, <2>1, <2>2
<1>3. CASE ~open
  <2>1. log' = Append(log, x)
    BY <1>3 DEF Laid
  <2>2. Len(log') = Len(log) + 1 /\ log'[Len(log) + 1] = x /\ Len(log) + 1 \in DOMAIN log'
    BY <1>1, <2>1
  <2> QED BY <2>2
<1> QED BY <1>2, <1>3

(* The count while nothing new is lost.                                     *)
LEMMA LossKept ==
  ASSUME TypeOK, TypeOK', LossInv, Lost' \subseteq Lost, Torn' + crashes <= Torn + crashes'
  PROVE  IsFiniteSet(Lost') /\ Cardinality(Lost') + Torn' <= crashes'
<1>1. IsFiniteSet(Lost) /\ Cardinality(Lost) + Torn <= crashes
  BY DEF LossInv
<1>2. IsFiniteSet(Lost') /\ Cardinality(Lost') <= Cardinality(Lost)
  BY <1>1, FS_Subset
<1>3. Cardinality(Lost) \in Nat /\ Cardinality(Lost') \in Nat
  BY <1>1, <1>2, FS_CardinalityType
<1>4. Torn \in Nat /\ Torn' \in Nat /\ crashes \in Nat /\ crashes' \in Nat
  BY DEF Torn, TypeOK
<1>5. \A a, b, t, u, c, d \in Nat : b <= a /\ a + t <= c /\ u + c <= t + d => b + u <= d
  OBVIOUS
<1> QED BY <1>1, <1>2, <1>3, <1>4, <1>5, Zenon

(* Every event is handed over once, and acknowledged or torn after that.    *)
LEMMA OwnedKept ==
  ASSUME TypeInv, Apart, Owned, [Next]_vars
  PROVE  Owned'
<1> USE EventLogAssumption DEF TypeInv
<1>1. ASSUME NEW w \in Writers, NEW e \in Events, AppendEvent(w, e) \/ CreateProject(w, e)
      PROVE  Owned'
  <2>1. /\ e \notin used /\ used' = used \union {e} /\ e # NoOne
        /\ event' = [event EXCEPT ![w] = e] /\ UNCHANGED <<log, open, acked>>
    BY <1>1 DEF AppendEvent, CreateProject, file
  <2>2. \A v \in Writers : event'[v] = IF v = w THEN e ELSE event[v]
    BY <2>1 DEF TypeOK
  <2> QED
    BY <2>1, <2>2 DEF Owned
<1>2. ASSUME NEW w \in Writers, FindLog(w) \/ InitEvents(w)
      PROVE  Owned'
  <2>1. log' = log /\ (open' => open) /\ UNCHANGED <<event, used, acked>>
    <3>1. CASE FindLog(w)
      BY <3>1 DEF FindLog, file
    <3>2. CASE InitEvents(w)
      <4>1. log' = log
        BY <3>2, InitKeepsLog
      <4> QED
        BY <3>2, <4>1 DEF InitEvents
    <3> QED
      BY <1>2, <3>1, <3>2
  <2> QED
    BY <2>1 DEF Owned
<1>3. ASSUME NEW w \in Writers, NextSeq(w)
      PROVE  Owned'
  <2>1. event' = event \/ event' = [event EXCEPT ![w] = NoOne]
    BY <1>3 DEF NextSeq, Return
  <2>2. \A v \in Writers : event'[v] # NoOne => event'[v] = event[v]
    BY <2>1 DEF TypeOK
  <2>3. UNCHANGED <<log, open, used, acked>>
    BY <1>3 DEF NextSeq, file
  <2> QED
    BY <2>2, <2>3 DEF Owned
<1>4. ASSUME NEW w \in Writers, WriteLine(w)
      PROVE  Owned'
  <2>1. /\ event[w] # NoOne /\ acked' = acked \union {event[w]} /\ used' = used /\ ~open'
        /\ event' = [event EXCEPT ![w] = NoOne]
    BY <1>4 DEF WriteLine, Return, Busy
  <2>2. \A v \in Writers : event'[v] # NoOne => v # w /\ event'[v] = event[v]
    BY <2>1 DEF TypeOK
  <2> QED
    BY <2>1, <2>2 DEF Owned
<1>5. ASSUME Crash
      PROVE  Owned'
  <2>1. used' = used /\ acked' = acked /\ \A w \in Writers : event'[w] = NoOne
    BY <1>5 DEF Crash
  <2>2. CASE UNCHANGED file
    BY <2>1, <2>2 DEF Owned, file
  <2>3. ASSUME NEW w \in Writers, pc[w] = "write", Remains(w)
        PROVE  Owned'
    <3>1. /\ Line(event[w], seq[w]) \in Lines /\ Line(event[w], seq[w]).id = event[w]
          /\ Junk \in Lines /\ Junk.id = NoOne
      BY DEF TypeOK, Line, Lines, Junk
    <3>2. log' = Laid(Junk) \/ log' = Laid(Line(event[w], seq[w]))
      BY <2>3 DEF Remains
    <3>3. log'[Len(log')].id \in {event[w], NoOne}
      BY <3>1, <3>2, LaidLast
    <3>4. event[w] \in used \ acked /\ NoOne \notin acked
      BY <2>3 DEF Owned, Busy, TypeOK
    <3> QED
      BY <2>1, <3>3, <3>4 DEF Owned
  <2> QED
    BY <1>5, <2>2, <2>3 DEF Crash
<1>6. CASE UNCHANGED vars
  BY <1>6 DEF Owned, vars, file, writer
<1> QED
  BY <1>1, <1>2, <1>3, <1>4, <1>5, <1>6 DEF Next, Step

(* The count goes up with a crash, or with the line that is glued.          *)
LEMMA LossStep ==
  ASSUME TypeInv, Apart, TypeOK', LossInv, [Next]_vars
  PROVE  IsFiniteSet(Lost') /\ Cardinality(Lost') + Torn' <= crashes'
<1> USE DEF TypeInv
<1>1. CASE UNCHANGED <<log, acked, crashes>> /\ (open' => open)
  <2>1. Lost' = Lost
    BY <1>1 DEF Lost, Readable
  <2>2. Torn' + crashes <= Torn + crashes'
    BY <1>1 DEF Torn, TypeOK
  <2> QED
    BY <2>1, <2>2, LossKept
<1>2. ASSUME NEW w \in Writers, WriteLine(w)
      PROVE  IsFiniteSet(Lost') /\ Cardinality(Lost') + Torn' <= crashes'
  <2> DEFINE x == Line(event[w], seq[w])
  <2>1. /\ log' = Laid(x) /\ ~open' /\ acked' = acked \union {event[w]} /\ crashes' = crashes
        /\ x \in Lines /\ x.id = event[w] /\ x.form # "junk" /\ event[w] \in Events
    BY <1>2 DEF WriteLine, TypeOK, Busy, Line, Lines
  <2> HIDE DEF x
  <2>2. \A e \in acked : e \notin Lost => \E i \in DOMAIN log' : Readable(i)' /\ log'[i].id = e
    BY <2>1, LaidLoses DEF LossInv
  <2>3. Lost' \subseteq Lost \union {event[w]}
    BY <2>1, <2>2 DEF Lost
  <2>4. Torn' = 0
    BY <2>1 DEF Torn
  <2>5. CASE open
    <3>1. IsFiniteSet(Lost \union {event[w]}) /\ Cardinality(Lost \union {event[w]}) <= Cardinality(Lost) + 1
      <4>1. IsFiniteSet(Lost) /\ Cardinality(Lost) \in Nat
        BY FS_CardinalityType DEF LossInv
      <4>2. /\ IsFiniteSet(Lost \union {event[w]})
            /\ Cardinality(Lost \union {event[w]}) =
                 IF event[w] \in Lost THEN Cardinality(Lost) ELSE Cardinality(Lost) + 1
        BY <4>1, FS_AddElement, Zenon
      <4> QED
        BY <4>1, <4>2
    <3>2. IsFiniteSet(Lost') /\ Cardinality(Lost') <= Cardinality(Lost \union {event[w]})
      BY <2>3, <3>1, FS_Subset
    <3>3. Torn = 1
      BY <2>5 DEF Torn
    <3>4. Cardinality(Lost) \in Nat /\ Cardinality(Lost') \in Nat /\ Cardinality(Lost \union {event[w]}) \in Nat
      BY <3>1, <3>2, FS_CardinalityType DEF LossInv
    <3> QED
      BY <2>1, <2>4, <3>1, <3>2, <3>3, <3>4 DEF LossInv, TypeOK
  <2>6. CASE ~open
    <3>1. \E i \in DOMAIN log' : Readable(i)' /\ log'[i].id = event[w]
      <4>1. Len(log') \in DOMAIN log' /\ log'[Len(log')] = x
        BY <2>1, <2>6, LaidLast
      <4>2. x.form \in {"event", "odd"}
        BY <2>1 DEF Lines
      <4> QED
        BY <2>1, <4>1, <4>2 DEF Readable
    <3>2. Lost' \subseteq Lost
      BY <2>3, <3>1 DEF Lost
    <3>3. Torn' + crashes <= Torn + crashes'
      BY <2>1, <2>4 DEF Torn, TypeOK
    <3> QED
      BY <3>2, <3>3, LossKept
  <2> QED
    BY <2>5, <2>6
<1>3. ASSUME Crash
      PROVE  IsFiniteSet(Lost') /\ Cardinality(Lost') + Torn' <= crashes'
  <2>1. crashes' = crashes + 1 /\ acked' = acked
    BY <1>3 DEF Crash
  <2>2. Lost' \subseteq Lost
    <3>1. CASE UNCHANGED file
      BY <2>1, <3>1 DEF Lost, Readable, file
    <3>2. ASSUME NEW w \in Writers, Remains(w)
          PROVE  Lost' \subseteq Lost
      <4>1. Line(event[w], seq[w]) \in Lines /\ Junk \in Lines
        BY LineTypes DEF TypeOK
      <4>2. log' = Laid(Junk) \/ log' = Laid(Line(event[w], seq[w]))
        BY <3>2 DEF Remains
      <4>3. \A e \in acked : e \notin Lost => \E i \in DOMAIN log' : Readable(i)' /\ log'[i].id = e
        BY <4>1, <4>2, LaidLoses DEF LossInv
      <4> QED
        BY <2>1, <4>3 DEF Lost
    <3> QED
      BY <1>3, <3>1, <3>2 DEF Crash
  <2>3. Torn' + crashes <= Torn + crashes'
    BY <2>1 DEF Torn, TypeOK
  <2> QED
    BY <2>2, <2>3, LossKept
<1>4. \/ UNCHANGED <<log, acked, crashes>> /\ (open' => open)
      \/ \E w \in Writers : WriteLine(w)
      \/ Crash
  BY InitKeepsLog DEF Next, Step, AppendEvent, CreateProject, FindLog, InitEvents, NextSeq,
                      file, vars
<1> QED
  BY <1>1, <1>2, <1>3, <1>4

(* A crash costs at most one acknowledged event, the one that is glued to   *)
(* the torn line; without a crash append_event loses nothing.  All this     *)
(* while nothing else happens to a project being created.                   *)
THEOREM CrashLosesOne == ASSUME ~CreateOverlaps PROVE Spec => []OneLossPerCrash
<1>1. Init => LossInv
  <2> SUFFICES ASSUME Init
               PROVE  LossInv
    OBVIOUS
  <2>1. Lost = {} /\ Torn = 0 /\ crashes = 0
    BY DEF Init, Lost, Torn
  <2>2. IsFiniteSet(Lost) /\ Cardinality(Lost) = 0
    BY <2>1, FS_EmptySet
  <2>3. Owned
    BY DEF Init, Owned
  <2> QED
    BY <2>1, <2>2, <2>3 DEF LossInv
<1>2. TypeInv /\ TypeInv' /\ Apart /\ LossInv /\ [Next]_vars => LossInv'
  BY OwnedKept, LossStep DEF LossInv, TypeInv
<1>3. TypeInv /\ LossInv => OneLossPerCrash
  <2> SUFFICES ASSUME TypeInv, LossInv
               PROVE  Cardinality(Lost) <= crashes
    BY DEF OneLossPerCrash
  <2>1. Cardinality(Lost) \in Nat /\ Torn \in Nat /\ crashes \in Nat
    BY FS_CardinalityType DEF LossInv, Torn, TypeInv, TypeOK
  <2> QED
    BY <2>1 DEF LossInv
<1> QED
  BY <1>1, <1>2, <1>3, TypeInvariant, CreatesApart, PTL DEF Spec

-----------------------------------------------------------------------------
(* Every step of a project is a step of its log or leaves the log alone.    *)
THEOREM LogKept == ProjectSpec => Spec
<1>1. ProjectInit => Init
  BY DEF ProjectInit
<1>2. [ProjectNext]_pvars => [Next]_vars
  <2> SUFFICES ASSUME [ProjectNext]_pvars
               PROVE  [Next]_vars
    OBVIOUS
  <2>1. ASSUME NEW w \in Writers, NEW e \in Events, Report(w, e) \/ Create(w, e)
        PROVE  Next
    BY <2>1 DEF Report, Create, Next
  <2>2. ASSUME NEW w \in Writers, NEW r \in Roles, WriteShared(w, r)
        PROVE  UNCHANGED vars
    BY <2>2 DEF WriteShared
  <2>3. ASSUME NEW w \in Writers, BuildTree(w) \/ Number(w) \/ Log(w)
        PROVE  Next
    BY <2>3 DEF BuildTree, Number, Log, Next, Step
  <2>4. ASSUME NEW w \in Writers, DocStep(w)
        PROVE  UNCHANGED vars
    BY <2>4 DEF DocStep, LockDoc, Truncate, Fill, Rename
  <2>5. HostCrash => Next
    BY DEF HostCrash, Next
  <2>6. UNCHANGED pvars => UNCHANGED vars
    BY DEF pvars
  <2> QED
    BY <2>1, <2>2, <2>3, <2>4, <2>5, <2>6 DEF ProjectNext
<1> QED
  BY <1>1, <1>2, PTL DEF ProjectSpec, Spec

(* Numbers in a project's log are in order, whatever happens to its         *)
(* documents once it is created.                                            *)
THEOREM ProjectSeqsInOrder == ASSUME ~CreateOverlaps PROVE ProjectSpec => []SeqsIncrease
  BY LogKept, SeqsInOrder, PTL

(* Nor does any of that change a line of the log but an unterminated last   *)
(* one.                                                                     *)
THEOREM ProjectLinesStay == ASSUME ~CreateOverlaps PROVE ProjectSpec => AppendOnly
  BY LogKept, LinesStay, PTL

(* And a project's log loses no more to a crash than any other.             *)
THEOREM ProjectLosesOne == ASSUME ~CreateOverlaps PROVE ProjectSpec => []OneLossPerCrash
  BY LogKept, CrashLosesOne, PTL

-----------------------------------------------------------------------------
(* Events are in the log or in a call only after they were handed over.     *)
Handed ==
  /\ created \subseteq used
  /\ \A w \in Writers : event[w] \in used \union {NoOne}
  /\ \A i \in DOMAIN log : log[i].id \in used \union {NoOne}

(* One writer at a time between truncation and rename; what it renames is   *)
(* whole.                                                                   *)
TmpOwned ==
  \A w \in Writers :
    /\ at[w] \in {"open", "fill", "rename"} => docLock = w
    /\ at[w] = "rename" => tmp = "whole"

(* A create_project that has got as far as its event has its document.      *)
Backed ==
  \A w \in Writers :
    event[w] \in created /\ (pc[w] = "write" \/ (pc[w] = "lock" /\ at[w] = "no")) =>
      doc = "whole"

ProjectInv == ProjectTypeOK /\ Handed /\ TmpOwned /\ Backed /\ CreatedIsWritten

(* What a write may add to the log: the line of a call's event, or junk.    *)
LEMMA LaidIds ==
  ASSUME TypeOK, Grounded, NEW x \in Lines, log' = Laid(x)
  PROVE  \A i \in DOMAIN log' :
           \/ i \in DOMAIN log /\ log'[i] = log[i]
           \/ log'[i] = x
           \/ log'[i] = Junk
  BY LaidShape

(* Types of the variables of this module.                                   *)
LEMMA ProjectTypes ==
  ASSUME ProjectTypeOK, Handed, [ProjectNext]_pvars
  PROVE  ProjectTypeOK'
<1>1. ASSUME NEW w \in Writers, NEW e \in Events, Report(w, e) \/ Create(w, e)
      PROVE  ProjectTypeOK'
  BY <1>1 DEF Report, Create, document, ProjectTypeOK
<1>2. ASSUME NEW w \in Writers, NEW r \in Roles, WriteShared(w, r)
      PROVE  ProjectTypeOK'
  BY <1>2 DEF WriteShared, ProjectTypeOK
<1>3. ASSUME NEW w \in Writers, BuildTree(w) \/ Number(w) \/ Log(w)
      PROVE  ProjectTypeOK'
  <2>1. at' \in [Writers -> {"no", "lock", "open", "fill", "rename"}]
    BY <1>3 DEF BuildTree, Number, Log, document, ProjectTypeOK
  <2> QED
    BY <1>3, <2>1 DEF BuildTree, Number, Log, document, ProjectTypeOK
<1>4. ASSUME NEW w \in Writers, DocStep(w)
      PROVE  ProjectTypeOK'
  BY <1>4 DEF DocStep, LockDoc, Truncate, Fill, Rename, ProjectTypeOK
<1>5. HostCrash => ProjectTypeOK'
  BY DEF HostCrash, ProjectTypeOK
<1>6. UNCHANGED pvars => ProjectTypeOK'
  BY DEF pvars, document, ProjectTypeOK
<1> QED
  BY <1>1, <1>2, <1>3, <1>4, <1>5, <1>6 DEF ProjectNext

(* No step lets an event into a call or the log that was not handed over.   *)
LEMMA HandedKept ==
  ASSUME TypeInv, Handed, [ProjectNext]_pvars
  PROVE  Handed'
<1> USE DEF TypeInv
<1>1. ASSUME NEW w \in Writers, NEW e \in Events, Report(w, e)
      PROVE  Handed'
  BY <1>1 DEF Report, AppendEvent, file, Handed, TypeOK
<1>2. ASSUME NEW w \in Writers, NEW e \in Events, Create(w, e)
      PROVE  Handed'
  BY <1>2 DEF Create, CreateProject, file, Handed, TypeOK
<1>3. ASSUME NEW w \in Writers, BuildTree(w)
      PROVE  Handed'
  BY <1>3 DEF BuildTree, FindLog, InitEvents, file, Handed
<1>4. ASSUME NEW w \in Writers, Number(w)
      PROVE  Handed'
  BY <1>4 DEF Number, NextSeq, Return, file, Handed, TypeOK
<1>5. ASSUME NEW w \in Writers, NEW x \in Lines, log' = Laid(x), used' = used,
             x.id \in used \union {NoOne}
      PROVE  \A i \in DOMAIN log' : log'[i].id \in used' \union {NoOne}
  <2>1. \A i \in DOMAIN log' :
          (i \in DOMAIN log /\ log'[i] = log[i]) \/ log'[i] = x \/ log'[i] = Junk
    BY <1>5, LaidIds
  <2>2. Junk.id = NoOne
    BY DEF Junk
  <2> QED
    BY <1>5, <2>1, <2>2 DEF Handed
<1>6. \A w \in Writers : /\ Line(event[w], seq[w]) \in Lines
                         /\ Line(event[w], seq[w]).id = event[w]
  BY DEF TypeOK, Line, Lines
<1>7. Junk \in Lines /\ Junk.id = NoOne
  BY DEF Junk, Lines
<1>8. ASSUME NEW w \in Writers, Log(w)
      PROVE  Handed'
  <2>1. log' = Laid(Line(event[w], seq[w])) /\ used' = used
    BY <1>8 DEF Log, WriteLine
  <2>2. \A i \in DOMAIN log' : log'[i].id \in used' \union {NoOne}
    BY <1>5, <1>6, <2>1 DEF Handed
  <2>3. created' = created /\ event' = [event EXCEPT ![w] = NoOne]
    BY <1>8 DEF Log, WriteLine, Return
  <2> QED
    BY <2>1, <2>2, <2>3 DEF Handed, TypeOK
<1>9. ASSUME HostCrash
      PROVE  Handed'
  <2>1. used' = used /\ created' = created /\ event' = [w \in Writers |-> NoOne]
    BY <1>9 DEF HostCrash, Crash
  <2>2. CASE UNCHANGED file
    BY <2>1, <2>2 DEF file, Handed
  <2>3. ASSUME NEW w \in Writers, Remains(w)
        PROVE  \A i \in DOMAIN log' : log'[i].id \in used' \union {NoOne}
    <3>1. log' = Laid(Junk) \/ log' = Laid(Line(event[w], seq[w]))
      BY <2>3 DEF Remains
    <3> QED
      BY <1>5, <1>6, <1>7, <2>1, <3>1 DEF Handed
  <2>4. UNCHANGED file \/ \E w \in Writers : Remains(w)
    BY <1>9 DEF HostCrash, Crash
  <2> QED
    BY <2>1, <2>2, <2>3, <2>4 DEF Handed
<1>10. ASSUME UNCHANGED <<log, event, used, created>>
       PROVE  Handed'
  BY <1>10 DEF Handed
<1>11. ASSUME NEW w \in Writers, NEW r \in Roles, WriteShared(w, r) \/ DocStep(w)
       PROVE  Handed'
  BY <1>11, <1>10 DEF WriteShared, DocStep, LockDoc, Truncate, Fill, Rename, vars, file, writer
<1>12. UNCHANGED pvars => UNCHANGED <<log, event, used, created>>
  BY DEF pvars, vars, file, writer
<1>13. Roles # {}
  BY DEF Roles
<1> QED
  BY <1>1, <1>2, <1>3, <1>4, <1>8, <1>9, <1>10, <1>11, <1>12, <1>13 DEF ProjectNext

(* The document's lock makes the tmp file one writer's at a time.           *)
LEMMA TmpStaysOwned ==
  ASSUME ProjectTypeOK, TmpOwned, [ProjectNext]_pvars, NoOne \notin Writers
  PROVE  TmpOwned'
<1>1. ASSUME NEW w \in Writers, NEW e \in Events, Report(w, e) \/ Create(w, e)
      PROVE  TmpOwned'
  BY <1>1 DEF Report, Create, document, TmpOwned
<1>2. ASSUME NEW w \in Writers, NEW r \in Roles, WriteShared(w, r)
      PROVE  TmpOwned'
  BY <1>2 DEF WriteShared, TmpOwned, ProjectTypeOK
<1>3. ASSUME NEW w \in Writers, BuildTree(w) \/ Number(w) \/ Log(w)
      PROVE  TmpOwned'
  BY <1>3 DEF BuildTree, Number, Log, document, TmpOwned, ProjectTypeOK
<1>4. ASSUME NEW w \in Writers, DocStep(w)
      PROVE  TmpOwned'
  BY <1>4 DEF DocStep, LockDoc, Truncate, Fill, Rename, TmpOwned, ProjectTypeOK
<1>5. HostCrash => TmpOwned'
  BY DEF HostCrash, TmpOwned
<1>6. UNCHANGED pvars => TmpOwned'
  BY DEF pvars, document, TmpOwned
<1> QED
  BY <1>1, <1>2, <1>3, <1>4, <1>5, <1>6 DEF ProjectNext

(* Once the document is whole it stays so; it never is a part.              *)
LEMMA DocStaysWhole ==
  ASSUME ProjectTypeOK, TmpOwned, doc # "part", [ProjectNext]_pvars
  PROVE  doc' # "part" /\ (doc = "whole" => doc' = "whole")
<1>1. ASSUME NEW w \in Writers, Rename(w)
      PROVE  doc' = "whole"
  BY <1>1 DEF Rename, TmpOwned
<1>2. doc' = doc \/ \E w \in Writers : Rename(w)
  BY DEF ProjectNext, pvars, document, Report, Create, WriteShared, BuildTree, Number, Log,
         DocStep, LockDoc, Truncate, Fill, HostCrash
<1> QED
  BY <1>1, <1>2

(* A project's announcement has its document from the call on.              *)
LEMMA AnnouncedIsBacked ==
  ASSUME TypeInv, ProjectTypeOK, Handed, TmpOwned, Backed, CreatedIsWritten,
         [ProjectNext]_pvars
  PROVE  Backed' /\ CreatedIsWritten'
<1> USE EventLogAssumption DEF TypeInv
<1>1. doc' # "part" /\ (doc = "whole" => doc' = "whole")
  BY DocStaysWhole DEF CreatedIsWritten
<1>2. CASE doc' = "whole"
  BY <1>2 DEF Backed, CreatedIsWritten
<1>3. CASE doc' # "whole"
  <2>1. doc # "whole"
    BY <1>1, <1>3
  (* Without a document nothing of a creation is in the log or about to be. *)
  <2>2. \A i \in DOMAIN log : Readable(i) => log[i].id \notin created
    BY <2>1 DEF CreatedIsWritten
  <2>3. \A w \in Writers : ~(event[w] \in created /\ (pc[w] = "write" \/ (pc[w] = "lock" /\ at[w] = "no")))
    BY <2>1 DEF Backed
  <2> DEFINE Quiet == /\ \A i \in DOMAIN log : Readable(i) => log[i].id \notin created
                      /\ \A w \in Writers : ~(event[w] \in created /\ (pc[w] = "write" \/ (pc[w] = "lock" /\ at[w] = "no")))
  <2>4. SUFFICES Quiet'
    BY <1>1 DEF Backed, CreatedIsWritten
  <2>5. ASSUME NEW w \in Writers, NEW e \in Events, Report(w, e)
        PROVE  Quiet'
    BY <2>2, <2>3, <2>5 DEF Report, AppendEvent, file, document, Handed, TypeOK, Readable
  <2>6. ASSUME NEW w \in Writers, NEW e \in Events, Create(w, e)
        PROVE  Quiet'
    <3>1. e # NoOne /\ e \notin used
      BY <2>6 DEF Create, CreateProject
    <3>2. \A i \in DOMAIN log' : Readable(i)' => log'[i].id \notin created'
      BY <2>2, <2>6, <3>1 DEF Create, CreateProject, file, Handed, Readable
    <3>3. pc'[w] = "tree" /\ created' = created \union {e} /\ at' = at
      BY <2>6 DEF Create, CreateProject, document, TypeOK
    <3>4. \A v \in Writers \ {w} : pc'[v] = pc[v] /\ event'[v] = event[v] /\ event[v] # e
      BY <2>6, <3>1 DEF Create, CreateProject, Handed, TypeOK
    <3> QED
      BY <2>3, <3>2, <3>3, <3>4
  <2>7. ASSUME NEW w \in Writers, BuildTree(w)
        PROVE  Quiet'
    <3>1. (log' = log \/ log' = <<>>) /\ UNCHANGED <<event, created>>
      BY <2>7 DEF BuildTree, FindLog, InitEvents, file
    <3>2. \A v \in Writers \ {w} : pc'[v] = pc[v] /\ at'[v] = at[v]
      BY <2>7 DEF BuildTree, FindLog, InitEvents, TypeOK, ProjectTypeOK
    <3>3. pc'[w] = "init" \/ (pc'[w] = "lock" /\ at'[w] = "lock")
      BY <2>7 DEF BuildTree, FindLog, InitEvents, TypeOK, ProjectTypeOK
    <3> QED
      BY <2>2, <2>3, <3>1, <3>2, <3>3 DEF Readable
  <2>8. ASSUME NEW w \in Writers, Number(w)
        PROVE  Quiet'
    <3>1. pc[w] = "lock" /\ at[w] = "no"
      BY <2>8 DEF Number, NextSeq, DocWritten
    <3>2. event' = event \/ event' = [event EXCEPT ![w] = NoOne]
      BY <2>8 DEF Number, NextSeq, Return
    <3>3. event'[w] \notin created
      BY <2>3, <3>1, <3>2 DEF TypeOK, ProjectTypeOK
    <3>4. \A v \in Writers \ {w} : pc'[v] = pc[v] /\ event'[v] = event[v]
      BY <2>8 DEF Number, NextSeq, Return, TypeOK
    <3>5. log' = log /\ created' = created /\ at' = at
      BY <2>8 DEF Number, NextSeq, file, document
    <3> QED
      BY <2>2, <2>3, <3>3, <3>4, <3>5 DEF Readable
  <2>9. ASSUME NEW x \in Lines, log' = Laid(x), created' = created, x.id \notin created
        PROVE  \A i \in DOMAIN log' : Readable(i)' => log'[i].id \notin created'
    <3>1. \A i \in DOMAIN log' :
            (i \in DOMAIN log /\ log'[i] = log[i]) \/ log'[i] = x \/ log'[i] = Junk
      BY <2>9, LaidIds
    <3>2. Junk.form = "junk"
      BY DEF Junk
    <3> QED
      BY <2>2, <2>9, <3>1, <3>2 DEF Readable
  <2>10. ASSUME NEW w \in Writers, pc[w] = "write"
         PROVE  /\ Line(event[w], seq[w]) \in Lines
                /\ Line(event[w], seq[w]).id \notin created
    <3>1. event[w] \notin created
      BY <2>3, <2>10
    <3>2. event[w] \in Events \union {NoOne} /\ seq[w] \in Nat
      BY DEF TypeOK
    <3>3. Line(event[w], seq[w]) \in Lines /\ Line(event[w], seq[w]).id = event[w]
      BY <3>2 DEF Line, Lines
    <3> QED
      BY <3>1, <3>3
  <2>11. ASSUME NEW w \in Writers, Log(w)
         PROVE  Quiet'
    <3>1. pc[w] = "write" /\ log' = Laid(Line(event[w], seq[w])) /\ created' = created /\ at' = at
      BY <2>11 DEF Log, WriteLine, document
    <3>2. \A i \in DOMAIN log' : Readable(i)' => log'[i].id \notin created'
      BY <2>9, <2>10, <3>1
    <3>3. \A v \in Writers : pc'[v] = "idle" \/ (pc'[v] = pc[v] /\ event'[v] = event[v])
      <4>1. /\ pc' = [pc EXCEPT ![w] = "idle"]
            /\ event' = [event EXCEPT ![w] = NoOne]
        BY <2>11 DEF Log, WriteLine, Return
      <4> QED
        BY <4>1 DEF TypeOK
    <3> QED
      BY <2>3, <3>1, <3>2, <3>3
  <2>12. ASSUME HostCrash
         PROVE  Quiet'
    <3>1. created' = created /\ \A v \in Writers : pc'[v] = "idle"
      BY <2>12 DEF HostCrash, Crash
    <3>2. CASE UNCHANGED file
      BY <2>2, <3>1, <3>2 DEF file, Readable
    <3>3. ASSUME NEW w \in Writers, pc[w] = "write", Remains(w)
          PROVE  \A i \in DOMAIN log' : Readable(i)' => log'[i].id \notin created'
      <4>1. log' = Laid(Junk) \/ log' = Laid(Line(event[w], seq[w]))
        BY <3>3 DEF Remains
      <4>2. Junk \in Lines /\ Junk.id \notin created
        BY DEF Junk, Lines, ProjectTypeOK
      <4> QED
        BY <2>9, <2>10, <3>1, <3>3, <4>1, <4>2
    <3>4. UNCHANGED file \/ \E w \in Writers : pc[w] = "write" /\ Remains(w)
      BY <2>12 DEF HostCrash, Crash
    <3> QED
      BY <3>1, <3>2, <3>3, <3>4
  <2>13. ASSUME NEW w \in Writers, NEW r \in Roles, WriteShared(w, r)
         PROVE  Quiet'
    BY <2>2, <2>3, <2>13 DEF WriteShared, vars, file, writer, Readable, ProjectTypeOK
  <2>14. ASSUME NEW w \in Writers, DocStep(w)
         PROVE  Quiet'
    <3>1. ~Rename(w)
      BY <1>3 DEF Rename, TmpOwned
    <3>2. UNCHANGED <<log, pc, event, created>>
      BY <2>14 DEF DocStep, LockDoc, Truncate, Fill, Rename, vars, file, writer
    <3>3. at'[w] # "no" /\ \A v \in Writers \ {w} : at'[v] = at[v]
      BY <2>14, <3>1 DEF DocStep, LockDoc, Truncate, Fill, ProjectTypeOK
    <3> QED
      BY <2>2, <2>3, <3>2, <3>3 DEF Readable
  <2>15. ASSUME UNCHANGED pvars
         PROVE  Quiet'
    BY <2>2, <2>3, <2>15 DEF pvars, vars, file, writer, document, Readable
  <2> QED
    BY <2>5, <2>6, <2>7, <2>8, <2>11, <2>12, <2>13, <2>14, <2>15 DEF ProjectNext
<1> QED
  BY <1>2, <1>3

(* Whoever learns of the project from its log finds its requirements, and   *)
(* nobody reads a part of them, through any crashes and repetitions.        *)
THEOREM NoProjectWithoutRequirements == ProjectSpec => []CreatedIsWritten
<1>1. ProjectInit => ProjectInv
  BY DEF ProjectInit, Init, ProjectInv, ProjectTypeOK, Handed, TmpOwned, Backed, CreatedIsWritten
<1>2. TypeInv /\ ProjectInv /\ [ProjectNext]_pvars => ProjectInv'
  <2> SUFFICES ASSUME TypeInv, ProjectInv, [ProjectNext]_pvars
               PROVE  ProjectInv'
    OBVIOUS
  <2>1. ProjectTypeOK' /\ Handed'
    BY ProjectTypes, HandedKept DEF ProjectInv
  <2>2. TmpOwned'
    BY TmpStaysOwned, EventLogAssumption DEF ProjectInv
  <2>3. Backed' /\ CreatedIsWritten'
    BY AnnouncedIsBacked DEF ProjectInv
  <2> QED
    BY <2>1, <2>2, <2>3 DEF ProjectInv
<1>3. ProjectSpec => []TypeInv
  BY LogKept, TypeInvariant, PTL
<1>4. ProjectInv => CreatedIsWritten
  BY DEF ProjectInv
<1> QED
  BY <1>1, <1>2, <1>3, <1>4, PTL DEF ProjectSpec
=============================================================================
