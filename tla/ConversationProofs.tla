------------------------- MODULE ConversationProofs -------------------------
(***************************************************************************)
(* Proofs about the conversations of a routing key, for any numbers of     *)
(* sessions, turns, tools and crashes, any thresholds and any sizes of     *)
(* messages: what before_llm_hook makes of a list is complete, in order    *)
(* and fresh, snapshots only grow, a history is remembered by the snapshot *)
(* beside it, and the audit log's gaps are bounded.  The operators on      *)
(* lists are recursive functions; what they compute for a list of any      *)
(* length is shown by the least number for which it would be wrong.        *)
(***************************************************************************)
EXTENDS Conversation, TLAPS, Integers, FiniteSetTheorems, SequenceTheorems, WellFoundedInduction

(* The turns a list speaks of, and those of them after turn t.              *)
TurnsOf(list) == {id[1] : id \in Covered(list)}
After(list, t) == {u \in TurnsOf(list) : u > t}

(* What every list is: a system prompt, then summaries, then messages of    *)
(* one id each; in order, each result behind its call; and so many turns    *)
(* behind what is pruned or summarised that it is not recent.               *)
Headed(list) == list # <<>> => list[1] = System
Layered(list) ==
  \A i \in DOMAIN list :
    /\ list[i].role = "system" => i = 1
    /\ list[i].role = "summary" => \A j \in 1..i : list[j].role \in SystemRoles
OneIdEach(list) ==
  \A i \in DOMAIN list :
    /\ list[i].role \in TalkRoles => \E id \in Ids : list[i].ids = {id}
    /\ list[i].role = "user" => \A id \in list[i].ids : id[2] = 1
Ordered(list) ==
  \A i, j \in DOMAIN list :
    i < j => \A a \in list[i].ids, b \in list[j].ids : Before(a, b)
Paired(list) ==
  \A i \in DOMAIN list :
    list[i].role = "tool" =>
      /\ i > 1 /\ list[i - 1].role = "call"
      /\ \A a \in list[i - 1].ids, b \in list[i].ids : b = <<a[1], a[2] + 1>>
Old(list) ==
  \A i \in DOMAIN list : \A id \in list[i].ids :
    /\ list[i].role = "summary" => Cardinality(After(list, id[1])) >= FreshTurns
    /\ list[i].pruned => Cardinality(After(list, id[1])) >= KeepTurns
ListOK(list) ==
  /\ list \in Seq(Messages)
  /\ Headed(list) /\ Layered(list) /\ OneIdEach(list)
  /\ Ordered(list) /\ Paired(list) /\ Old(list)

(* Nothing saved belongs to the turn that is not saved yet.                 *)
Unsaved == {"meta", "load", "hook", "model", "raw", "truncate", "fill"}
SavedBefore ==
  /\ \A s \in Sessions : \A id \in Covered(ctx[s]) :
       id[1] <= turn /\ (pc \in Unsaved => id[1] < turn)
  /\ \A s \in Sessions : \A i \in DOMAIN jsonl[s].lines :
       /\ jsonl[s].lines[i][1] <= turn
       /\ pc \in Unsaved \union {"history"} => jsonl[s].lines[i][1] < turn

(* The list of a turn: what the session remembers and what the turn said.   *)
InTurn == {"hook", "model", "raw", "truncate", "fill", "history", "count"}
TurnInv ==
  /\ pc # "idle" => active # 0
  /\ pc \notin InTurn => msgs = <<>> /\ ~loaded /\ historyLen = 0
  /\ pc \in Unsaved \union InTurn => turn # 0
  /\ pc \in InTurn => msgs # <<>>
  /\ pc \in {"hook", "model"} => \E k \in 0..MaxTools : said[turn] = 1 + 2 * k
  /\ pc \in InTurn /\ ~loaded => Covered(msgs) = IdsOf(turn)
  /\ pc \in Unsaved \ {"meta", "load"} /\ loaded =>
       Covered(msgs) = Covered(ctx[active]) \union IdsOf(turn)
  /\ pc \in {"hook", "model", "raw", "truncate"} /\ loaded => active \notin torn
  /\ pc = "hook" /\ ~loaded /\ active \notin torn =>
       msgs = <<System, Message("user", 1)>> /\ said[turn] = 1
  /\ pc \in InTurn \ {"hook"} /\ ~loaded => active \in torn
  /\ pc \in {"raw", "truncate", "fill"} => loaded
  /\ pc \in {"history", "count"} /\ loaded => IdsOf(turn) \subseteq Covered(ctx[active])

(* Histories are remembered, also while the snapshot is being rewritten.    *)
LinesKept ==
  \A s \in Sessions :
    s \notin torn \/ (s = active /\ pc = "fill") =>
      \A i \in DOMAIN jsonl[s].lines : IdsOf(jsonl[s].lines[i][1]) \subseteq Covered(ctx[s])

(* _history_len points behind what was restored, unless the list shrank.    *)
PointsAtTurn ==
  pc \in {"hook", "model", "raw"} /\ loaded /\ turn \notin compressed =>
    \/ historyLen = 0
    \/ /\ historyLen < Len(msgs)
       /\ msgs[historyLen + 1].role = "user" /\ msgs[historyLen + 1].ids = {<<turn, 1>>}

(* What the audit log misses, the line that an open one will cost included. *)
Missing(ids, log, shrunk) ==
  {id \in ids : id[1] \notin shrunk /\ \A i \in DOMAIN log.lines : id \notin log.lines[i]}
Debt(ids, log, shrunk) ==
  Cardinality(Missing(ids, log, shrunk)) + (IF log.open THEN 1 ELSE 0)
InBudget ==
  /\ \A s \in Sessions : Debt(Covered(ctx[s]), raw[s], compressed) <= crashes
  /\ pc \in {"truncate", "fill"} => Debt(Covered(msgs), raw[active], compressed) <= crashes

ConvInv ==
  /\ TypeOK
  /\ \A list \in Lists : ListOK(list)
  /\ SavedBefore /\ TurnInv /\ LinesKept /\ PointsAtTurn /\ InBudget

-----------------------------------------------------------------------------
(* Induction on numbers, from the library's least elements.                 *)
LEMMA SmallestOf ==
  ASSUME NEW T \in SUBSET Nat, T # {}
  PROVE  \E x \in T : \A y \in T : x <= y
<1>1. PICK R : IsWellFoundedOn(R, Nat) /\ \A x, y \in Nat : <<y, x>> \in R <=> y < x
  <2>1. \A x, y \in Nat : <<y, x>> \in OpToRel(<, Nat) <=> y < x
    BY DEF OpToRel
  <2> QED BY <2>1, NatLessThanWellFounded, Zenon
<1>2. PICK x \in T : \A y \in T : ~ (<<y, x>> \in R)
  BY <1>1, WFMin, Zenon
<1>3. \A y \in T : ~(y < x)
  BY <1>1, <1>2
<1> QED BY <1>3

(* Induction on 1..n: a set that holds 1 and is closed under the next one. *)
LEMMA InductionUpTo ==
  ASSUME NEW n \in Nat, NEW G, 1 \in G, \A i \in 1..(n - 1) : i \in G => i + 1 \in G
  PROVE  1..n \subseteq G
<1> DEFINE T == {i \in 1..n : i \notin G}
<1> SUFFICES ASSUME T # {} PROVE FALSE
  OBVIOUS
<1>1. PICK x \in T : \A y \in T : x <= y
  <2>1. T \in SUBSET Nat
    OBVIOUS
  <2> HIDE DEF T
  <2> QED BY <2>1, SmallestOf
<1>2. x # 1 /\ x \in 1..n /\ x \notin G
  OBVIOUS
<1>3. x - 1 \in 1..(n - 1)
  BY <1>2
<1>4. x - 1 \notin T
  BY <1>1, <1>3
<1>5. x - 1 \in G /\ (x - 1) + 1 = x
  BY <1>3, <1>4
<1> QED BY <1>2, <1>3, <1>5

-----------------------------------------------------------------------------
(* Filtering by role                                                        *)

(* A list of the filter's results, message by message.                      *)
Filters(g, list, roles) ==
  g = [i \in 0..Len(list) |-> IF i = 0 THEN <<>>
                              ELSE IF list[i].role \in roles THEN Append(g[i - 1], list[i])
                                   ELSE g[i - 1]]

(* There is one such list, and the filter is the last of it.                *)
LEMMA OfRolesUnfolds ==
  ASSUME NEW list, NEW roles, NEW g, Len(list) \in Nat, Filters(g, list, roles)
  PROVE  OfRoles(list, roles) = g[Len(list)]
<1> DEFINE n == Len(list)
           c == CHOOSE f : Filters(f, list, roles)
           G == {i \in 1..(n + 1) : c[i - 1] = g[i - 1]}
<1>1. OfRoles(list, roles) = c[Len(list)]
  BY Zenon DEF OfRoles, Filters
<1>2. Filters(c, list, roles)
  BY Zenon
<1> HIDE DEF c
<1>3. \A f : Filters(f, list, roles) =>
        \A i \in 0..n : f[i] = IF i = 0 THEN <<>>
                               ELSE IF list[i].role \in roles THEN Append(f[i - 1], list[i])
                                    ELSE f[i - 1]
  BY DEF Filters
<1> HIDE DEF n
<1>4. 1 \in G
  <2>1. 0 \in 0..n /\ 1 \in 1..(n + 1) /\ 1 - 1 = 0
    BY DEF n
  <2>2. c[0] = <<>> /\ g[0] = <<>>
    BY <1>2, <1>3, <2>1
  <2> QED BY <2>1, <2>2
<1>5. ASSUME NEW i \in 1..n, i \in G PROVE i + 1 \in G
  <2>1. i \in 0..n /\ i # 0 /\ (i + 1) - 1 = i /\ i + 1 \in 1..(n + 1)
    BY DEF n
  <2>2. c[i - 1] = g[i - 1]
    BY <1>5
  <2>3. /\ c[i] = IF list[i].role \in roles THEN Append(c[i - 1], list[i]) ELSE c[i - 1]
        /\ g[i] = IF list[i].role \in roles THEN Append(g[i - 1], list[i]) ELSE g[i - 1]
    BY <1>2, <1>3, <2>1
  <2>4. c[i] = g[i]
    BY <2>2, <2>3
  <2> QED BY <2>1, <2>4
<1>6. n + 1 \in G
  <2> HIDE DEF G
  <2>1. n \in Nat /\ n + 1 \in Nat /\ (n + 1) - 1 = n
    BY DEF n
  <2>2. 1..(n + 1) \subseteq G
    BY <1>4, <1>5, <2>1, InductionUpTo
  <2> QED BY <2>1, <2>2
<1> QED BY <1>1, <1>6 DEF n

(* When the messages of the roles are the j-th to the k-th, so is the       *)
(* filter's result.                                                         *)
LEMMA OfRolesInterval ==
  ASSUME NEW S, NEW list \in Seq(S), NEW roles, NEW j \in 1..(Len(list) + 1),
         NEW k \in (j - 1)..Len(list),
         \A i \in 1..Len(list) : list[i].role \in roles <=> i \in j..k
  PROVE  OfRoles(list, roles) = SubSeq(list, j, k)
<1> DEFINE n == Len(list)
           g == [i \in 0..n |-> SubSeq(list, j, IF i <= k THEN i ELSE k)]
<1>1. n \in Nat
  BY LenProperties
<1>2. ASSUME NEW i \in 0..n
      PROVE  g[i] = IF i = 0 THEN <<>>
                    ELSE IF list[i].role \in roles THEN Append(g[i - 1], list[i]) ELSE g[i - 1]
  <2>1. CASE i < j
    <3>1. g[i] = <<>>
      BY <2>1, SubSeqEmpty
    <3>2. i # 0 => g[i - 1] = <<>> /\ ~(list[i].role \in roles)
      BY <1>1, <2>1, SubSeqEmpty
    <3> QED BY <3>1, <3>2
  <2>2. CASE i \in j..k
    <3>1. i # 0 /\ i \in 1..Len(list) /\ list[i].role \in roles /\ i - 1 \in 0..n
      BY <1>1, <2>2
    <3>2. g[i] = SubSeq(list, j, i) /\ g[i - 1] = SubSeq(list, j, i - 1)
      BY <2>2, <3>1
    <3>3. SubSeq(list, j, i) = SubSeq(list, j, i - 1) \o <<list[i]>>
      <4>1. j \in 1..Len(list) /\ i \in j..Len(list)
        BY <1>1, <2>2
      <4> QED BY <4>1, SubSeqRecursiveSecond
    <3>4. SubSeq(list, j, i - 1) \in Seq(S) /\ list[i] \in S
      <4>1. \A x \in j..(i - 1) : list[x] \in S
        BY <1>1, <2>2, ElementOfSeq
      <4>2. j \in Int /\ i - 1 \in Int
        OBVIOUS
      <4> QED BY <3>1, <4>1, <4>2, SubSeqProperties, ElementOfSeq
    <3>5. Append(SubSeq(list, j, i - 1), list[i]) = SubSeq(list, j, i - 1) \o <<list[i]>>
      BY <3>4, AppendIsConcat
    <3> QED BY <3>1, <3>2, <3>3, <3>5
  <2>3. CASE i > k
    <3>1. i # 0 /\ i \in 1..Len(list) /\ ~(list[i].role \in roles) /\ i - 1 \in 0..n
      BY <1>1, <2>3
    <3>2. g[i] = SubSeq(list, j, k)
      BY <2>3
    <3>3. g[i - 1] = SubSeq(list, j, k)
      BY <2>3, <3>1
    <3> HIDE DEF g
    <3> QED BY <3>1, <3>2, <3>3
  <2>4. i < j \/ i \in j..k \/ i > k
    BY <1>1
  <2> HIDE DEF g
  <2> QED BY <2>1, <2>2, <2>3, <2>4
<1>3. Filters(g, list, roles)
  BY <1>2, Zenon DEF Filters
<1>4. g[n] = SubSeq(list, j, k)
  BY <1>1
<1> HIDE DEF g
<1> QED BY <1>1, <1>3, <1>4, OfRolesUnfolds

-----------------------------------------------------------------------------
(* Chunks and their summaries                                               *)

(* A list of the chunks after each of the first m messages.                 *)
Chunking(h, list, m) ==
  h = [i \in 0..m |-> IF i = 0 THEN <<>> ELSE Put(h[i - 1], list[i])]

(* There is one for every list.                                             *)
LEMMA ChunkingExists ==
  ASSUME NEW list, Len(list) \in Nat
  PROVE  \E h : Chunking(h, list, Len(list))
<1> DEFINE n == Len(list)
           G == {x \in 1..(n + 1) : \E h : Chunking(h, list, x - 1)}
<1> HIDE DEF n
<1>0. n \in Nat
  BY DEF n
<1>1. 1 \in G
  <2>1. Chunking([i \in 0..0 |-> <<>>], list, 0)
    BY DEF Chunking
  <2>2. 1 \in 1..(n + 1) /\ 1 - 1 = 0
    BY <1>0
  <2> QED BY <2>1, <2>2
<1>2. ASSUME NEW x \in 1..n, x \in G PROVE x + 1 \in G
  <2>1. PICK h : Chunking(h, list, x - 1)
    BY <1>2
  <2> DEFINE g == [i \in 0..x |-> IF i = 0 THEN <<>> ELSE Put(h[i - 1], list[i])]
  <2>2. \A i \in 0..(x - 1) : h[i] = IF i = 0 THEN <<>> ELSE Put(h[i - 1], list[i])
    BY <2>1 DEF Chunking
  <2>3. \A i \in 0..(x - 1) : g[i] = h[i]
    BY <2>2, <1>0
  <2>4. \A i \in 0..x : (IF i = 0 THEN <<>> ELSE Put(h[i - 1], list[i]))
                        = (IF i = 0 THEN <<>> ELSE Put(g[i - 1], list[i]))
    <3> HIDE DEF g
    <3> QED BY <2>3
  <2>5. g = [i \in 0..x |-> IF i = 0 THEN <<>> ELSE Put(g[i - 1], list[i])]
    BY <2>4
  <2>6. Chunking(g, list, x)
    <3> HIDE DEF g
    <3> QED BY <2>5 DEF Chunking
  <2>7. (x + 1) - 1 = x /\ x + 1 \in 1..(n + 1)
    BY <1>0
  <2> HIDE DEF g
  <2> QED BY <2>6, <2>7
<1>3. n + 1 \in G
  <2> HIDE DEF G
  <2>1. n + 1 \in Nat /\ (n + 1) - 1 = n
    BY <1>0
  <2>2. 1..(n + 1) \subseteq G
    BY <1>1, <1>2, <2>1, InductionUpTo
  <2> QED BY <2>1, <2>2, <1>0
<1> QED BY <1>0, <1>3 DEF n

(* The chunks of the first i messages: none is lost, none invented, and     *)
(* they follow each other as the messages do.                               *)
Chunk == [ids : SUBSET Ids, tokens : Nat]
ChunkOK(chunks, list, i) ==
  /\ chunks \in Seq(Chunk) /\ Len(chunks) <= i
  /\ \A a \in 1..Len(chunks) : \A id \in chunks[a].ids : \E x \in 1..i : id \in list[x].ids
  /\ \A x \in 1..i : \A id \in list[x].ids : \E a \in 1..Len(chunks) : id \in chunks[a].ids
  /\ \A a, b \in 1..Len(chunks) :
       a < b => \A id \in chunks[a].ids, jd \in chunks[b].ids : Before(id, jd)

(* One message more.                                                        *)
LEMMA PutProperties ==
  ASSUME NEW list \in Seq(Messages), Ordered(list), NEW i \in 1..Len(list), NEW chunks,
         ChunkOK(chunks, list, i - 1)
  PROVE  ChunkOK(Put(chunks, list[i]), list, i)
<1> DEFINE m == list[i]
           n == Len(chunks)
           res == Put(chunks, m)
<1>1. m.ids \in SUBSET Ids /\ Tokens(m) \in Nat
  <2>1. m \in Messages
    BY ElementOfSeq
  <2> HIDE DEF m
  <2>2. m.ids \in SUBSET Ids
    BY <2>1 DEF Messages
  <2> QED BY <2>2, ConversationAssumption DEF Tokens
<1>2. n \in Nat /\ chunks \in Seq(Chunk) /\ n <= i - 1 /\ chunks \in [1..n -> Chunk]
  BY LenProperties DEF ChunkOK
<1>3. \A x \in 1..(i - 1) : \A id \in list[x].ids, jd \in m.ids : Before(id, jd)
  <2>1. DOMAIN list = 1..Len(list) /\ Len(list) \in Nat
    BY LenProperties
  <2> QED BY <2>1 DEF Ordered
<1>4. \A a \in 1..n : \A id \in chunks[a].ids, jd \in m.ids : Before(id, jd)
  BY <1>3 DEF ChunkOK
<1> HIDE DEF m
<1>5. CASE n > 0 /\ chunks[n].tokens + Tokens(m) <= ChunkTokens
  <2> DEFINE e == [ids |-> chunks[n].ids \union m.ids, tokens |-> chunks[n].tokens + Tokens(m)]
  <2>1. n \in 1..n /\ chunks[n] \in Chunk
    BY <1>2, <1>5
  <2>2. e \in Chunk
    BY <1>1, <2>1 DEF Chunk
  <2>3. res = [chunks EXCEPT ![n] = e]
    BY <1>5 DEF Put
  <2> HIDE DEF e
  <2>4. /\ res \in Seq(Chunk) /\ Len(res) = n
        /\ \A a \in 1..n : res[a] = IF a = n THEN e ELSE chunks[a]
    BY <1>2, <2>1, <2>2, <2>3, ExceptSeq
  <2>5. \A a \in 1..n : \A id : id \in res[a].ids <=> id \in chunks[a].ids \/ (a = n /\ id \in m.ids)
    BY <2>4 DEF e
  <2> HIDE DEF res
  <2>6. \A a \in 1..n : \A id \in res[a].ids : \E x \in 1..i : id \in list[x].ids
    BY <2>5 DEF ChunkOK, m
  <2>7. \A x \in 1..i : \A id \in list[x].ids : \E a \in 1..n : id \in res[a].ids
    <3> SUFFICES ASSUME NEW x \in 1..i, NEW id \in list[x].ids PROVE \E a \in 1..n : id \in res[a].ids
      OBVIOUS
    <3>1. CASE x = i
      BY <3>1, <2>1, <2>5 DEF m
    <3>2. CASE x # i
      <4>1. x \in 1..(i - 1)
        BY <3>2
      <4> QED BY <4>1, <2>5 DEF ChunkOK
    <3> QED BY <3>1, <3>2
  <2>8. \A a, b \in 1..n : a < b => \A id \in res[a].ids, jd \in res[b].ids : Before(id, jd)
    <3> SUFFICES ASSUME NEW a \in 1..n, NEW b \in 1..n, a < b,
                        NEW id \in res[a].ids, NEW jd \in res[b].ids
                 PROVE  Before(id, jd)
      OBVIOUS
    <3>1. id \in chunks[a].ids
      <4>1. a # n
        <5>1. n \in Nat
          BY <1>2
        <5> HIDE DEF n
        <5> QED BY <5>1
      <4> QED BY <4>1, <2>5
    <3>2. jd \in chunks[b].ids \/ jd \in m.ids
      BY <2>5
    <3> QED BY <1>4, <3>1, <3>2 DEF ChunkOK
  <2>9. Len(res) <= i
    <3>1. Len(list) \in Nat
      BY LenProperties
    <3>2. i \in Nat
      BY <3>1
    <3>3. n \in Nat /\ n <= i - 1 /\ Len(res) = n
      BY <1>2, <2>4
    <3> HIDE DEF n
    <3> QED BY <3>2, <3>3
  <2> QED BY <2>4, <2>6, <2>7, <2>8, <2>9 DEF ChunkOK, res, m
<1>6. CASE ~(n > 0 /\ chunks[n].tokens + Tokens(m) <= ChunkTokens)
  <2> DEFINE e == [ids |-> m.ids, tokens |-> Tokens(m)]
  <2>1. e \in Chunk
    BY <1>1 DEF Chunk
  <2>2. res = Append(chunks, e)
    BY <1>6 DEF Put
  <2>3. e.ids = m.ids
    OBVIOUS
  <2> HIDE DEF e
  <2>4. /\ res \in Seq(Chunk) /\ Len(res) = n + 1
        /\ \A a \in 1..n : res[a] = chunks[a]
        /\ res[n + 1] = e
    BY <1>2, <2>1, <2>2, AppendProperties
  <2> HIDE DEF res
  <2>5. \A a \in 1..(n + 1) : a \in 1..n \/ a = n + 1
    BY <1>2
  <2>6. \A a \in 1..(n + 1) : \A id \in res[a].ids : \E x \in 1..i : id \in list[x].ids
    BY <2>3, <2>4, <2>5 DEF ChunkOK, m
  <2>7. \A x \in 1..i : \A id \in list[x].ids : \E a \in 1..(n + 1) : id \in res[a].ids
    <3> SUFFICES ASSUME NEW x \in 1..i, NEW id \in list[x].ids
                 PROVE  \E a \in 1..(n + 1) : id \in res[a].ids
      OBVIOUS
    <3>1. CASE x = i
      BY <3>1, <1>2, <2>3, <2>4 DEF m
    <3>2. CASE x # i
      <4>1. x \in 1..(i - 1)
        BY <3>2
      <4>2. PICK a \in 1..n : id \in chunks[a].ids
        BY <4>1 DEF ChunkOK
      <4> QED BY <1>2, <2>4, <4>2
    <3> QED BY <3>1, <3>2
  <2>8. \A a, b \in 1..(n + 1) : a < b => \A id \in res[a].ids, jd \in res[b].ids : Before(id, jd)
    <3> SUFFICES ASSUME NEW a \in 1..(n + 1), NEW b \in 1..(n + 1), a < b,
                        NEW id \in res[a].ids, NEW jd \in res[b].ids
                 PROVE  Before(id, jd)
      OBVIOUS
    <3>1. a \in 1..n /\ id \in chunks[a].ids
      BY <1>2, <2>4
    <3>2. CASE b = n + 1
      BY <1>4, <2>3, <2>4, <3>1, <3>2
    <3>3. CASE b \in 1..n
      BY <2>4, <3>1, <3>3 DEF ChunkOK
    <3> QED BY <2>5, <3>2, <3>3
  <2>9. n + 1 <= i
    BY <1>2
  <2> QED BY <2>4, <2>6, <2>7, <2>8, <2>9 DEF ChunkOK, res, m
<1> QED BY <1>5, <1>6 DEF m

(* _summarize_chunk on every chunk: one summary each, in the order of the   *)
(* messages, which they cover and nothing else.                             *)
LEMMA SummariesProperties ==
  ASSUME NEW list \in Seq(Messages), Ordered(list)
  PROVE  /\ Summaries(list) \in Seq(Messages) /\ Len(Summaries(list)) <= Len(list)
         /\ \A a \in 1..Len(Summaries(list)) :
              /\ Summaries(list)[a].role = "summary" /\ ~Summaries(list)[a].pruned
              /\ \A id \in Summaries(list)[a].ids : \E x \in 1..Len(list) : id \in list[x].ids
         /\ \A x \in 1..Len(list) : \A id \in list[x].ids :
              \E a \in 1..Len(Summaries(list)) : id \in Summaries(list)[a].ids
         /\ \A a, b \in 1..Len(Summaries(list)) :
              a < b => \A id \in Summaries(list)[a].ids, jd \in Summaries(list)[b].ids : Before(id, jd)
<1> DEFINE n == Len(list)
           h == CHOOSE f : Chunking(f, list, n)
           G == {x \in 1..(n + 1) : ChunkOK(h[x - 1], list, x - 1)}
           s == Summaries(list)
           c == Chunks(list)
<1>1. n \in Nat
  BY LenProperties
<1>2. c = h[n]
  BY Zenon DEF Chunks, Chunking
<1>3. Chunking(h, list, n)
  BY <1>1, ChunkingExists, Zenon
<1> HIDE DEF h
<1>4. \A i \in 0..n : h[i] = IF i = 0 THEN <<>> ELSE Put(h[i - 1], list[i])
  BY <1>3 DEF Chunking
<1>5. 1 \in G
  <2>1. h[0] = <<>> /\ 1 \in 1..(n + 1) /\ 1 - 1 = 0
    BY <1>1, <1>4
  <2>2. ChunkOK(<<>>, list, 0)
    BY EmptySeq DEF ChunkOK
  <2> QED BY <2>1, <2>2
<1>6. ASSUME NEW x \in 1..n, x \in G PROVE x + 1 \in G
  <2>1. ChunkOK(h[x - 1], list, x - 1)
    BY <1>6
  <2>2. h[x] = Put(h[x - 1], list[x])
    BY <1>4
  <2>3. ChunkOK(h[x], list, x)
    BY <2>1, <2>2, PutProperties
  <2>4. (x + 1) - 1 = x /\ x + 1 \in 1..(n + 1)
    BY <1>1
  <2> QED BY <2>3, <2>4
<1>7. ChunkOK(c, list, n)
  <2> HIDE DEF G, n
  <2>1. n + 1 \in Nat /\ (n + 1) - 1 = n
    BY <1>1
  <2>2. 1..(n + 1) \subseteq G
    BY <1>5, <1>6, <2>1, InductionUpTo
  <2>3. n + 1 \in G
    BY <1>1, <2>2
  <2>4. ChunkOK(h[n], list, n)
    BY <2>1, <2>3 DEF G
  <2> QED BY <1>2, <2>4
<1> HIDE DEF c
<1>8. Len(c) \in Nat /\ DOMAIN c = 1..Len(c) /\ c \in [1..Len(c) -> Chunk]
  BY <1>7, LenProperties DEF ChunkOK
<1>9. s = [a \in 1..Len(c) |-> Summary(c[a].ids)]
  BY <1>8, Zenon DEF Summaries, c
<1>10. \A a \in 1..Len(c) : c[a].ids \in SUBSET Ids
  BY <1>8 DEF Chunk
<1>11. \A a \in 1..Len(c) : s[a] = Summary(c[a].ids)
  BY <1>9
<1>12. \A a \in 1..Len(c) : s[a].role = "summary" /\ ~s[a].pruned /\ s[a].ids = c[a].ids
                            /\ s[a] \in Messages
  <2> SUFFICES ASSUME NEW a \in 1..Len(c), NEW S, S \in SUBSET Ids, S = c[a].ids
               PROVE  Summary(S).role = "summary" /\ ~Summary(S).pruned /\ Summary(S).ids = S
                      /\ Summary(S) \in Messages
    BY <1>10, <1>11
  <2> QED BY DEF Summary, Messages
<1>13. s \in Seq(Messages) /\ Len(s) = Len(c)
  <2>1. s \in [1..Len(c) -> Messages]
    BY <1>9, <1>12
  <2> HIDE DEF s
  <2> QED BY <2>1, <1>8, SeqDef, LenProperties
<1> HIDE DEF s
<1> QED BY <1>7, <1>12, <1>13 DEF ChunkOK, s

-----------------------------------------------------------------------------
(* Turns of a list                                                          *)

(* There are finitely many turns.                                           *)
LEMMA TurnsFinite ==
  ASSUME NEW list \in Seq(Messages)
  PROVE  /\ \A id \in Covered(list) : id \in Ids
         /\ \A t : IsFiniteSet(After(list, t)) /\ Cardinality(After(list, t)) \in Nat
<1>1. \A i \in DOMAIN list : list[i].ids \in SUBSET Ids
  <2>1. \A i \in DOMAIN list : list[i] \in Messages
    BY LenProperties, ElementOfSeq
  <2> QED BY <2>1 DEF Messages
<1>2. \A id \in Covered(list) : id \in Ids
  BY <1>1 DEF Covered
<1>3. ASSUME NEW t PROVE After(list, t) \in SUBSET (1..MaxTurns)
  <2>1. \A id \in Ids : id[1] \in 1..MaxTurns
    BY DEF Ids
  <2> QED BY <1>2, <2>1 DEF After, TurnsOf
<1>4. IsFiniteSet(1..MaxTurns)
  BY FS_Interval, ConversationAssumption
<1> QED BY <1>2, <1>3, <1>4, FS_Subset, FS_CardinalityType

(* The n-th last user message is there when there are n.                    *)
LEMMA TurnsFromProperties ==
  ASSUME NEW list \in Seq(Messages), NEW n \in Nat \ {0}, Cardinality(Users(list)) >= n
  PROVE  /\ TurnsFrom(list, n) \in Users(list)
         /\ Cardinality({j \in Users(list) : j >= TurnsFrom(list, n)}) = n
<1> DEFINE U == Users(list)
           L == Len(list)
           From(k) == {j \in U : j >= k}
           T == {k \in 1..(L + 1) : Cardinality(From(k)) < n}
<1>1. L \in Nat /\ U \in SUBSET (1..L)
  BY LenProperties DEF Users
<1>2. \A k : IsFiniteSet(From(k)) /\ Cardinality(From(k)) \in Nat
  <2>1. IsFiniteSet(1..L)
    BY <1>1, FS_Interval
  <2>2. \A k : From(k) \in SUBSET (1..L)
    BY <1>1
  <2> QED BY <2>1, <2>2, FS_Subset, FS_CardinalityType
<1> HIDE DEF L
<1>3. L + 1 \in T
  <2>1. From(L + 1) = {}
    BY <1>1
  <2>2. Cardinality(From(L + 1)) = 0
    BY <2>1, FS_EmptySet
  <2> HIDE DEF From
  <2> QED BY <1>1, <2>2
<1>4. PICK k \in T : \A x \in T : k <= x
  <2>1. T \in SUBSET Nat
    BY <1>1
  <2> HIDE DEF T
  <2> QED BY <1>3, <2>1, SmallestOf
<1>5. k # 1
  <2>1. From(1) = U
    BY <1>1
  <2> HIDE DEF From
  <2> QED BY <1>2, <1>4, <2>1
<1>6. k - 1 \in 1..L /\ k \in 1..(L + 1)
  BY <1>1, <1>4, <1>5
<1>7. Cardinality(From(k - 1)) >= n /\ Cardinality(From(k)) < n
  <2>1. k - 1 \notin T
    BY <1>4, <1>6
  <2> HIDE DEF From
  <2> QED BY <1>1, <1>2, <1>4, <1>6, <2>1
<1>8. From(k - 1) = IF k - 1 \in U THEN From(k) \union {k - 1} ELSE From(k)
  BY <1>1, <1>6
<1>9. k - 1 \in U /\ Cardinality(From(k - 1)) = n
  <2>1. k - 1 \notin From(k)
    BY <1>6
  <2>2. Cardinality(From(k) \union {k - 1}) = Cardinality(From(k)) + 1
    <3> HIDE DEF From
    <3> QED BY <1>2, <2>1, FS_AddElement
  <2> HIDE DEF From
  <2> QED BY <1>2, <1>7, <1>8, <2>2
<1> QED BY <1>9 DEF TurnsFrom

(* What stands before a user message is of an earlier turn, and so are all  *)
(* the turns from that user message on later ones.                          *)
LEMMA LaterUsers ==
  ASSUME NEW list \in Seq(Messages), Ordered(list), OneIdEach(list), NEW i \in Users(list),
         NEW x \in 1..(i - 1), NEW id \in list[x].ids
  PROVE  Cardinality(After(list, id[1])) >= Cardinality({j \in Users(list) : j >= i})
<1> DEFINE V == {j \in Users(list) : j >= i}
           A == After(list, id[1])
           TurnOf(j) == (CHOOSE jd \in Ids : list[j].ids = {jd})[1]
           f == [j \in V |-> TurnOf(j)]
<1>1. DOMAIN list = 1..Len(list) /\ Len(list) \in Nat
  BY LenProperties
<1>2. \A j \in V : j \in 1..Len(list) /\ list[j].role = "user" /\ x < j
  BY <1>1 DEF Users
<1>3. \A j \in Users(list) : \E t \in 1..MaxTurns : list[j].ids = {<<t, 1>>} /\ TurnOf(j) = t
  <2> SUFFICES ASSUME NEW j \in Users(list)
               PROVE  \E t \in 1..MaxTurns : list[j].ids = {<<t, 1>>} /\ TurnOf(j) = t
    OBVIOUS
  <2>1. j \in DOMAIN list /\ list[j].role = "user"
    BY DEF Users
  <2>2. PICK jd \in Ids : list[j].ids = {jd}
    BY <2>1 DEF OneIdEach, TalkRoles
  <2>3. jd[2] = 1
    BY <2>1, <2>2 DEF OneIdEach
  <2>4. jd = <<jd[1], 1>> /\ jd[1] \in 1..MaxTurns
    BY <2>3 DEF Ids
  <2>5. (CHOOSE kd \in Ids : list[j].ids = {kd}) = jd
    BY <2>2
  <2> QED BY <2>2, <2>4, <2>5
<1> HIDE DEF TurnOf
<1>4. id \in Ids
  <2>1. x \in DOMAIN list
    BY <1>1, <1>2 DEF Users
  <2>2. id \in Covered(list)
    BY <2>1 DEF Covered
  <2> QED BY <2>2, TurnsFinite
<1>5. \A j \in V : TurnOf(j) \in A
  <2> SUFFICES ASSUME NEW j \in V PROVE TurnOf(j) \in A
    OBVIOUS
  <2>1. PICK t \in 1..MaxTurns : list[j].ids = {<<t, 1>>} /\ TurnOf(j) = t
    BY <1>3
  <2>2. x \in DOMAIN list /\ j \in DOMAIN list /\ x < j
    BY <1>1, <1>2
  <2>3. Before(id, <<t, 1>>)
    BY <2>1, <2>2 DEF Ordered
  <2>4. id[1] \in Int /\ id[2] \in Nat /\ id[2] >= 1
    BY <1>4 DEF Ids
  <2>5. id[1] < t
    BY <2>3, <2>4 DEF Before
  <2>6. <<t, 1>> \in Covered(list)
    BY <2>1, <2>2 DEF Covered
  <2>7. t \in TurnsOf(list)
    BY <2>6 DEF TurnsOf
  <2> QED BY <2>1, <2>5, <2>7 DEF After
<1>6. \A j, l \in V : TurnOf(j) = TurnOf(l) => j = l
  <2>1. ASSUME NEW j \in V, NEW l \in V, j < l PROVE TurnOf(j) # TurnOf(l)
    <3>1. PICK t \in 1..MaxTurns : list[j].ids = {<<t, 1>>} /\ TurnOf(j) = t
      BY <1>3
    <3>2. PICK u \in 1..MaxTurns : list[l].ids = {<<u, 1>>} /\ TurnOf(l) = u
      BY <1>3
    <3>3. j \in DOMAIN list /\ l \in DOMAIN list
      BY <1>1, <1>2
    <3>4. Before(<<t, 1>>, <<u, 1>>)
      BY <2>1, <3>1, <3>2, <3>3 DEF Ordered
    <3>5. t < u
      BY <3>4 DEF Before
    <3> QED BY <3>1, <3>2, <3>5
  <2>2. V \subseteq Int
    BY <1>1, <1>2
  <2> HIDE DEF V
  <2> QED BY <2>1, <2>2
<1>7. f \in Injection(V, A)
  <2>1. f \in [V -> A]
    BY <1>5
  <2>2. \A j, l \in V : f[j] = f[l] => j = l
    BY <1>6
  <2> HIDE DEF f, V, A
  <2> QED BY <2>1, <2>2 DEF Injection, IsInjective
<1>8. IsFiniteSet(A) /\ Cardinality(A) \in Nat
  BY TurnsFinite
<1> HIDE DEF f, V, A
<1>9. IsFiniteSet(V) /\ Cardinality(V) <= Cardinality(A)
  BY <1>7, <1>8, FS_Injection
<1>10. Cardinality(V) \in Nat
  BY <1>9, FS_CardinalityType
<1> QED BY <1>8, <1>9, <1>10 DEF V, A

(* A list has its summaries in front and its messages behind them.          *)
LEMMA LayersOf ==
  ASSUME NEW list \in Seq(Messages), Layered(list)
  PROVE  \E k \in 0..Len(list) : \A i \in 1..Len(list) :
           (list[i].role \in SystemRoles <=> i <= k) /\ (list[i].role \in TalkRoles <=> i > k)
<1> DEFINE n == Len(list)
           T == {i \in 1..n : list[i].role \in TalkRoles}
<1>1. n \in Nat /\ DOMAIN list = 1..n
  BY LenProperties
<1>2. \A i \in 1..n : list[i].role \in SystemRoles <=> ~(list[i].role \in TalkRoles)
  <2>1. \A i \in 1..n : list[i] \in Messages
    BY ElementOfSeq
  <2> QED BY <2>1 DEF Messages, SystemRoles, TalkRoles
<1>3. CASE T = {}
  <2>1. \A i \in 1..n : ~(list[i].role \in TalkRoles) /\ i <= n /\ ~(i > n)
    BY <1>1, <1>3
  <2>2. n \in 0..n
    BY <1>1
  <2> HIDE DEF T
  <2> QED BY <1>2, <2>1, <2>2
<1>4. CASE T # {}
  <2>1. T \in SUBSET Nat
    OBVIOUS
  <2>2. PICK x \in T : \A y \in T : x <= y
    <3> HIDE DEF T
    <3> QED BY <1>4, <2>1, SmallestOf
  <2>3. x \in 1..n /\ list[x].role \in TalkRoles
    OBVIOUS
  <2>4. \A i \in 1..n : i < x => ~(list[i].role \in TalkRoles)
    BY <2>2
  <2>5. ASSUME NEW i \in 1..n, i >= x PROVE list[i].role \in TalkRoles
    <3>1. CASE list[i].role = "system"
      <4>1. i = 1
        BY <1>1, <3>1 DEF Layered
      <4>2. i = x
        BY <2>3, <2>5, <4>1
      <4> QED BY <2>3, <4>2
    <3>2. CASE list[i].role = "summary"
      <4>1. x \in 1..i
        BY <2>3, <2>5
      <4>2. list[x].role \in SystemRoles
        BY <1>1, <3>2, <4>1 DEF Layered
      <4> QED BY <1>2, <2>3, <4>2
    <3> QED BY <1>2, <3>1, <3>2 DEF SystemRoles
  <2>6. x - 1 \in 0..n
    BY <2>3
  <2>7. \A i \in 1..n : (list[i].role \in SystemRoles <=> i <= x - 1) /\ (list[i].role \in TalkRoles <=> i > x - 1)
    <3> HIDE DEF n
    <3>1. \A i \in 1..n : (i <= x - 1 <=> i < x) /\ (i > x - 1 <=> i >= x) /\ (i < x <=> ~(i >= x))
      BY <1>1, <2>3
    <3> QED BY <1>2, <2>4, <2>5, <3>1
  <2> QED BY <2>6, <2>7
<1> QED BY <1>3, <1>4

-----------------------------------------------------------------------------
(* What the operations on the list preserve                                 *)

(* More turns behind a message make it no more recent.                      *)
LEMMA MoreTurns ==
  ASSUME NEW list \in Seq(Messages), NEW longer \in Seq(Messages),
         Covered(list) \subseteq Covered(longer), NEW t
  PROVE  Cardinality(After(list, t)) <= Cardinality(After(longer, t))
<1>1. After(list, t) \in SUBSET After(longer, t)
  BY DEF After, TurnsOf
<1> QED BY <1>1, TurnsFinite, FS_Subset

(* A new message joins the list behind everything in it.                    *)
LEMMA AppendOK ==
  ASSUME NEW list, ListOK(list), list # <<>>, NEW m \in Messages, m.role \in TalkRoles, ~m.pruned,
         NEW id \in Ids, m.ids = {id}, m.role = "user" => id[2] = 1,
         \A jd \in Covered(list) : Before(jd, id),
         m.role = "tool" => /\ list[Len(list)].role = "call"
                            /\ \A a \in list[Len(list)].ids : id = <<a[1], a[2] + 1>>
  PROVE  ListOK(Append(list, m)) /\ Covered(Append(list, m)) = Covered(list) \union {id}
<1> DEFINE n == Len(list)
           new == Append(list, m)
<1>1. list \in Seq(Messages) /\ n \in Nat /\ n >= 1 /\ DOMAIN list = 1..n
  BY LenProperties, EmptySeq DEF ListOK
<1>2. /\ new \in Seq(Messages) /\ Len(new) = n + 1
      /\ \A i \in 1..n : new[i] = list[i]
      /\ new[n + 1] = m
  BY <1>1, AppendProperties
<1>3. DOMAIN new = 1..(n + 1)
  BY <1>2, LenProperties
<1> HIDE DEF new, n
<1>4. \A i \in 1..(n + 1) : i \in 1..n \/ i = n + 1
  BY <1>1
<1>5. n + 1 \in 1..(n + 1) /\ 1..n \subseteq 1..(n + 1)
  BY <1>1
<1>6. Covered(new) = Covered(list) \union {id}
  BY <1>1, <1>2, <1>3, <1>4, <1>5 DEF Covered
<1>7. Headed(new)
  <2>1. new[1] = list[1] /\ list[1] = System
    BY <1>1, <1>2 DEF ListOK, Headed
  <2> QED BY <2>1 DEF Headed
<1>8. Layered(new)
  <2>1. \A i \in 1..n : /\ new[i].role = "system" => i = 1
                        /\ new[i].role = "summary" => \A j \in 1..i : new[j].role \in SystemRoles
    <3>1. \A i \in 1..n : \A j \in 1..i : j \in 1..n
      BY <1>1
    <3> QED BY <1>1, <1>2, <3>1 DEF ListOK, Layered
  <2>2. new[n + 1].role # "system" /\ new[n + 1].role # "summary"
    BY <1>2 DEF TalkRoles
  <2> QED BY <1>3, <1>4, <2>1, <2>2 DEF Layered
<1>9. OneIdEach(new)
  <2>1. \A i \in 1..n : /\ new[i].role \in TalkRoles => \E jd \in Ids : new[i].ids = {jd}
                        /\ new[i].role = "user" => \A jd \in new[i].ids : jd[2] = 1
    BY <1>1, <1>2 DEF ListOK, OneIdEach
  <2> QED BY <1>2, <1>3, <1>4, <2>1 DEF OneIdEach
<1>10. Ordered(new)
  <2> SUFFICES ASSUME NEW i \in 1..(n + 1), NEW j \in 1..(n + 1), i < j,
                      NEW a \in new[i].ids, NEW b \in new[j].ids
               PROVE  Before(a, b)
    BY <1>3 DEF Ordered
  <2>1. i \in 1..n /\ a \in list[i].ids
    BY <1>1, <1>2
  <2>2. CASE j \in 1..n
    BY <1>1, <1>2, <2>1, <2>2 DEF ListOK, Ordered
  <2>3. CASE j = n + 1
    <3>1. a \in Covered(list)
      BY <1>1, <2>1 DEF Covered
    <3> QED BY <1>2, <2>3, <3>1
  <2> QED BY <1>4, <2>2, <2>3
<1>11. Paired(new)
  <2> SUFFICES ASSUME NEW i \in 1..(n + 1), new[i].role = "tool"
               PROVE  /\ i > 1 /\ new[i - 1].role = "call"
                      /\ \A a \in new[i - 1].ids, b \in new[i].ids : b = <<a[1], a[2] + 1>>
    BY <1>3 DEF Paired
  <2>1. CASE i \in 1..n
    <3>1. /\ i > 1 /\ list[i - 1].role = "call"
          /\ \A a \in list[i - 1].ids, b \in list[i].ids : b = <<a[1], a[2] + 1>>
      BY <1>1, <1>2, <2>1 DEF ListOK, Paired
    <3>2. i - 1 \in 1..n
      BY <1>1, <2>1, <3>1
    <3> QED BY <1>2, <2>1, <3>1, <3>2
  <2>2. CASE i = n + 1
    <3>1. i - 1 = n /\ n \in 1..n /\ i > 1
      BY <1>1, <2>2
    <3>2. new[i - 1] = list[n] /\ new[i] = m
      BY <1>2, <2>2, <3>1
    <3> QED BY <3>1, <3>2 DEF n
  <2> QED BY <1>4, <2>1, <2>2
<1>12. Old(new)
  <2> SUFFICES ASSUME NEW i \in 1..(n + 1), NEW jd \in new[i].ids
               PROVE  /\ new[i].role = "summary" => Cardinality(After(new, jd[1])) >= FreshTurns
                      /\ new[i].pruned => Cardinality(After(new, jd[1])) >= KeepTurns
    BY <1>3 DEF Old
  <2>1. CASE i \in 1..n
    <3>1. /\ new[i].role = "summary" => Cardinality(After(list, jd[1])) >= FreshTurns
          /\ new[i].pruned => Cardinality(After(list, jd[1])) >= KeepTurns
      BY <1>1, <1>2, <2>1 DEF ListOK, Old
    <3>2. Cardinality(After(list, jd[1])) <= Cardinality(After(new, jd[1]))
      BY <1>1, <1>2, <1>6, MoreTurns
    <3>3. Cardinality(After(list, jd[1])) \in Nat /\ Cardinality(After(new, jd[1])) \in Nat
      BY <1>1, <1>2, TurnsFinite
    <3> QED BY <3>1, <3>2, <3>3, ConversationAssumption
  <2>2. CASE i = n + 1
    BY <1>2, <2>2 DEF TalkRoles
  <2> QED BY <1>4, <2>1, <2>2
<1> QED BY <1>2, <1>6, <1>7, <1>8, <1>9, <1>10, <1>11, <1>12 DEF ListOK, new

(* prune_tool_results changes nothing but old results.                      *)
LEMMA PruneOK ==
  ASSUME NEW list, ListOK(list)
  PROVE  /\ ListOK(Prune(list)) /\ Covered(Prune(list)) = Covered(list)
         /\ Len(Prune(list)) = Len(list)
         /\ \A i \in 1..Len(list) : /\ Prune(list)[i].role = list[i].role
                                    /\ Prune(list)[i].ids = list[i].ids
<1>1. CASE Cardinality(Users(list)) <= KeepTurns
  BY <1>1 DEF Prune
<1>2. CASE ~(Cardinality(Users(list)) <= KeepTurns)
  <2> DEFINE n == Len(list)
             new == Prune(list)
             e == PruneEnd(list)
  <2>1. list \in Seq(Messages) /\ n \in Nat /\ DOMAIN list = 1..n
    BY LenProperties DEF ListOK
  <2>2. e \in Users(list) /\ Cardinality({j \in Users(list) : j >= e}) = KeepTurns
    <3>1. Users(list) \in SUBSET (1..n)
      BY <2>1 DEF Users
    <3>2. IsFiniteSet(Users(list))
      <4>1. IsFiniteSet(1..n)
        BY <2>1, FS_Interval
      <4> QED BY <3>1, <4>1, FS_Subset
    <3>3. Cardinality(Users(list)) >= KeepTurns /\ KeepTurns \in Nat \ {0}
      BY <1>2, <3>2, FS_CardinalityType, ConversationAssumption
    <3> QED BY <2>1, <3>3, TurnsFromProperties DEF PruneEnd
  <2>3. new = [i \in 1..n |-> [list[i] EXCEPT !.pruned = @ \/ (list[i].role = "tool" /\ i < e)]]
    BY <1>2, <2>1 DEF Prune
  <2>4. \A i \in 1..n : list[i] \in Messages
    BY <2>1, ElementOfSeq
  <2> HIDE DEF new, n, e
  <2>5. ASSUME NEW i \in 1..n
        PROVE  /\ new[i] \in Messages /\ new[i].role = list[i].role /\ new[i].ids = list[i].ids
               /\ new[i].pruned => list[i].pruned \/ (list[i].role = "tool" /\ i < e)
               /\ list[i] = System => new[i] = System
    <3>1. list[i] \in Messages
      BY <2>4
    <3>2. \A m \in Messages : \A p \in BOOLEAN :
            /\ [m EXCEPT !.pruned = m.pruned \/ p] \in Messages
            /\ [m EXCEPT !.pruned = m.pruned \/ p].role = m.role
            /\ [m EXCEPT !.pruned = m.pruned \/ p].ids = m.ids
            /\ [m EXCEPT !.pruned = m.pruned \/ p].pruned = (m.pruned \/ p)
      BY DEF Messages
    <3>3. new[i] = [list[i] EXCEPT !.pruned = list[i].pruned \/ (list[i].role = "tool" /\ i < e)]
      BY <2>3
    <3>4. list[i] = System => new[i] = System
      <4> SUFFICES ASSUME list[i] = System PROVE new[i] = System
        OBVIOUS
      <4>1. (list[i].pruned \/ (list[i].role = "tool" /\ i < e)) = System.pruned
        <5>1. list[i].role # "tool" /\ list[i].pruned = System.pruned /\ System.pruned = FALSE
          BY DEF System
        <5>2. (list[i].role = "tool" /\ i < e) = FALSE
          BY <5>1
        <5> QED BY <5>1, <5>2, Zenon
      <4>2. [System EXCEPT !.pruned = System.pruned] = System
        BY DEF System
      <4> QED BY <3>3, <4>1, <4>2
    <3> QED BY <3>1, <3>2, <3>3, <3>4
  <2>6. new \in Seq(Messages) /\ Len(new) = n /\ DOMAIN new = 1..n
    <3>1. new \in [1..n -> Messages]
      BY <2>3, <2>5
    <3> QED BY <2>1, <3>1, SeqDef, LenProperties
  <2>7. Covered(new) = Covered(list)
    BY <2>1, <2>5, <2>6 DEF Covered
  <2>8. Headed(new)
    <3>1. CASE n = 0
      <4>1. new = <<>>
        BY <2>6, <3>1, EmptySeq
      <4> QED BY <4>1 DEF Headed
    <3>2. CASE n # 0
      <4>1. 1 \in 1..n /\ list[1] = System
        BY <2>1, <3>2, EmptySeq DEF ListOK, Headed, n
      <4>2. new[1] = System
        BY <2>5, <4>1
      <4> QED BY <4>2 DEF Headed
    <3> QED BY <3>1, <3>2
  <2>9. Layered(new) /\ OneIdEach(new) /\ Ordered(new)
    <3>1. \A i \in 1..n : \A j \in 1..i : j \in 1..n
      BY <2>1
    <3>2. Layered(new)
      BY <2>1, <2>5, <2>6, <3>1 DEF ListOK, Layered
    <3>3. OneIdEach(new)
      BY <2>1, <2>5, <2>6 DEF ListOK, OneIdEach
    <3>4. Ordered(new)
      BY <2>1, <2>5, <2>6 DEF ListOK, Ordered
    <3> QED BY <3>2, <3>3, <3>4
  <2>10. Paired(new)
    <3> SUFFICES ASSUME NEW i \in 1..n, new[i].role = "tool"
                 PROVE  /\ i > 1 /\ new[i - 1].role = "call"
                        /\ \A a \in new[i - 1].ids, b \in new[i].ids : b = <<a[1], a[2] + 1>>
      BY <2>6 DEF Paired
    <3>1. /\ i > 1 /\ list[i - 1].role = "call"
          /\ \A a \in list[i - 1].ids, b \in list[i].ids : b = <<a[1], a[2] + 1>>
      BY <2>1, <2>5 DEF ListOK, Paired
    <3>2. i - 1 \in 1..n
      BY <2>1, <3>1
    <3> QED BY <2>5, <3>1, <3>2
  <2>11. Old(new)
    <3> SUFFICES ASSUME NEW i \in 1..n, NEW id \in new[i].ids
                 PROVE  /\ new[i].role = "summary" => Cardinality(After(new, id[1])) >= FreshTurns
                        /\ new[i].pruned => Cardinality(After(new, id[1])) >= KeepTurns
      BY <2>6 DEF Old
    <3>1. After(new, id[1]) = After(list, id[1])
      BY <2>7 DEF After, TurnsOf
    <3>2. id \in list[i].ids
      BY <2>5
    <3>3. ASSUME i < e PROVE Cardinality(After(list, id[1])) >= KeepTurns
      <4>1. i \in 1..(e - 1)
        BY <2>1, <2>2, <3>3 DEF Users
      <4> QED BY <2>1, <2>2, <3>2, <4>1, LaterUsers DEF ListOK
    <3> QED BY <2>1, <2>5, <3>1, <3>2, <3>3 DEF ListOK, Old
  <2> QED BY <2>5, <2>6, <2>7, <2>8, <2>9, <2>10, <2>11 DEF ListOK, new, n
<1> QED BY <1>1, <1>2

(* The list with its messages k + 1 to c - 1 replaced by q summaries; what  *)
(* follows moves d places to the front.                                     *)
Spliced(new, list, k, c, q) ==
  LET d == c - 1 - k - q
  IN  /\ k \in Nat /\ q \in Nat /\ c \in Nat /\ k < c /\ c <= Len(list) /\ d >= 0
      /\ \A i \in 1..Len(list) : /\ list[i].role \in SystemRoles <=> i <= k
                                 /\ list[i].role \in TalkRoles <=> i > k
      /\ list[c].role = "user"
      /\ new \in Seq(Messages) /\ Len(new) = Len(list) - d
      /\ \A i \in 1..k : new[i] = list[i]
      /\ \A i \in (k + 1)..(k + q) :
           /\ new[i].role = "summary" /\ ~new[i].pruned
           /\ \A id \in new[i].ids : \E x \in (k + 1)..(c - 1) : id \in list[x].ids
      /\ \A x \in (k + 1)..(c - 1) : \A id \in list[x].ids :
           /\ \E i \in (k + 1)..(k + q) : id \in new[i].ids
           /\ Cardinality(After(list, id[1])) >= FreshTurns
      /\ \A i, j \in (k + 1)..(k + q) :
           i < j => \A a \in new[i].ids, b \in new[j].ids : Before(a, b)
      /\ \A i \in (k + q + 1)..Len(new) : new[i] = list[i + d]

(* Such a list is as good as the one before, and covers the same.           *)
LEMMA SplicedOK ==
  ASSUME NEW list, ListOK(list), list # <<>>, NEW new, NEW k, NEW c, NEW q,
         Spliced(new, list, k, c, q)
  PROVE  ListOK(new) /\ Covered(new) = Covered(list) /\ new # <<>>
<1> DEFINE n == Len(list)
           d == c - 1 - k - q
           l == Len(new)
<1>1. /\ list \in Seq(Messages) /\ n \in Nat /\ DOMAIN list = 1..n
      /\ new \in Seq(Messages) /\ l \in Nat /\ DOMAIN new = 1..l
  BY LenProperties DEF ListOK, Spliced
<1>2. /\ k \in Nat /\ q \in Nat /\ c \in Nat /\ k < c /\ c <= n /\ d \in Nat /\ l = n - d
      /\ d = c - 1 - k - q
  BY <1>1 DEF Spliced
<1>3. /\ \A i \in 1..n : list[i].role \in SystemRoles <=> i <= k
      /\ \A i \in 1..n : list[i].role \in TalkRoles <=> i > k
      /\ list[c].role = "user"
  BY DEF Spliced
<1>4. /\ \A i \in 1..k : new[i] = list[i]
      /\ \A i \in (k + 1)..(k + q) :
           /\ new[i].role = "summary" /\ ~new[i].pruned
           /\ \A id \in new[i].ids : \E x \in (k + 1)..(c - 1) : id \in list[x].ids
      /\ \A i, j \in (k + 1)..(k + q) :
           i < j => \A a \in new[i].ids, b \in new[j].ids : Before(a, b)
      /\ \A i \in (k + q + 1)..l : new[i] = list[i + d]
  BY DEF Spliced
<1>5. \A x \in (k + 1)..(c - 1) : \A id \in list[x].ids :
        /\ \E i \in (k + 1)..(k + q) : id \in new[i].ids
        /\ Cardinality(After(list, id[1])) >= FreshTurns
  BY DEF Spliced
<1> HIDE DEF n, d, l
<1>6. \A i \in 1..l : \/ i \in 1..k
                      \/ i \in (k + 1)..(k + q)
                      \/ i \in (k + q + 1)..l
  BY <1>1, <1>2
<1>7. /\ 1..k \subseteq 1..n /\ 1..k \subseteq 1..l /\ (k + 1)..(k + q) \subseteq 1..l
      /\ (k + 1)..(c - 1) \subseteq 1..n
  BY <1>1, <1>2
<1>8. \A i \in (k + q + 1)..l : i \in 1..l /\ i + d \in 1..n /\ i + d >= c /\ i + d > k
  BY <1>1, <1>2
<1>9. \A x \in 1..n : \/ x \in 1..k
                      \/ x \in (k + 1)..(c - 1)
                      \/ x >= c /\ x - d \in (k + q + 1)..l /\ (x - d) + d = x
  BY <1>1, <1>2
<1>10. Covered(new) = Covered(list)
  <2>1. ASSUME NEW i \in 1..l, NEW id \in new[i].ids PROVE \E x \in 1..n : id \in list[x].ids
    <3>1. CASE i \in 1..k
      BY <1>4, <1>7, <2>1, <3>1
    <3>2. CASE i \in (k + 1)..(k + q)
      BY <1>4, <1>7, <2>1, <3>2
    <3>3. CASE i \in (k + q + 1)..l
      BY <1>4, <1>8, <2>1, <3>3
    <3> QED BY <1>6, <3>1, <3>2, <3>3
  <2>2. ASSUME NEW x \in 1..n, NEW id \in list[x].ids PROVE \E i \in 1..l : id \in new[i].ids
    <3>1. CASE x \in 1..k
      BY <1>4, <1>7, <2>2, <3>1
    <3>2. CASE x \in (k + 1)..(c - 1)
      BY <1>5, <1>7, <2>2, <3>2
    <3>3. CASE x - d \in (k + q + 1)..l /\ (x - d) + d = x
      BY <1>4, <1>8, <2>2, <3>3
    <3> QED BY <1>9, <3>1, <3>2, <3>3
  <2> QED BY <1>1, <2>1, <2>2 DEF Covered
<1>11. 1 \in 1..k /\ list[1] = System
  <2>1. 1 \in 1..n
    BY <1>1, <1>2
  <2>2. list[1] = System
    BY DEF ListOK, Headed
  <2>3. 1 <= k
    BY <1>3, <2>1, <2>2 DEF System, SystemRoles
  <2> QED BY <1>2, <2>2, <2>3
<1>12. Headed(new) /\ new # <<>>
  <2>1. new[1] = System
    BY <1>4, <1>11
  <2>2. l # 0
    BY <1>2, <1>1, <1>7, <1>11
  <2> QED BY <2>1, <2>2, EmptySeq DEF Headed, l
<1>13. \A i \in (k + q + 1)..l : new[i].role \in TalkRoles
  BY <1>3, <1>4, <1>8
<1>14. \A i \in 1..(k + q) : i \in 1..k \/ i \in (k + 1)..(k + q)
  BY <1>2
<1>15. \A i \in 1..(k + q) : i \in 1..l /\ new[i].role \in SystemRoles
  <2>1. \A i \in 1..k : new[i].role \in SystemRoles
    BY <1>3, <1>4, <1>7
  <2>2. \A i \in (k + 1)..(k + q) : new[i].role \in SystemRoles
    BY <1>4 DEF SystemRoles
  <2> QED BY <1>7, <1>14, <2>1, <2>2
<1>16. \A i \in 1..l : i \in 1..(k + q) \/ i \in (k + q + 1)..l
  BY <1>2
<1>17. Layered(new)
  <2> SUFFICES ASSUME NEW i \in 1..l
               PROVE  /\ new[i].role = "system" => i = 1
                      /\ new[i].role = "summary" => \A j \in 1..i : new[j].role \in SystemRoles
    BY <1>1 DEF Layered
  <2>1. CASE i \in (k + q + 1)..l
    BY <1>13, <2>1 DEF TalkRoles
  <2>2. CASE i \in 1..(k + q)
    <3>1. \A j \in 1..i : j \in 1..(k + q)
      BY <1>2, <2>2
    <3>2. new[i].role = "system" => i = 1
      <4>1. CASE i \in 1..k
        BY <1>1, <1>4, <1>7, <4>1 DEF ListOK, Layered
      <4>2. CASE i \in (k + 1)..(k + q)
        BY <1>4, <4>2
      <4> QED BY <1>14, <2>2, <4>1, <4>2
    <3> QED BY <1>15, <3>1, <3>2
  <2> QED BY <1>16, <2>1, <2>2
<1>18. OneIdEach(new)
  <2> SUFFICES ASSUME NEW i \in 1..l
               PROVE  /\ new[i].role \in TalkRoles => \E id \in Ids : new[i].ids = {id}
                      /\ new[i].role = "user" => \A id \in new[i].ids : id[2] = 1
    BY <1>1 DEF OneIdEach
  <2>1. CASE i \in (k + q + 1)..l
    <3>1. new[i] = list[i + d] /\ i + d \in DOMAIN list
      BY <1>1, <1>4, <1>8, <2>1
    <3> QED BY <3>1 DEF ListOK, OneIdEach
  <2>2. CASE i \in 1..(k + q)
    BY <1>15, <2>2 DEF SystemRoles, TalkRoles
  <2> QED BY <1>16, <2>1, <2>2
<1>19. \A x, y \in 1..n : x < y => \A a \in list[x].ids, b \in list[y].ids : Before(a, b)
  BY <1>1 DEF ListOK, Ordered
<1>20. Ordered(new)
  <2> SUFFICES ASSUME NEW i \in 1..l, NEW j \in 1..l, i < j,
                      NEW a \in new[i].ids, NEW b \in new[j].ids
               PROVE  Before(a, b)
    BY <1>1 DEF Ordered
  <2>1. CASE i \in 1..k
    <3>1. a \in list[i].ids /\ i \in 1..n
      BY <1>4, <1>7, <2>1
    <3>2. \E y \in 1..n : i < y /\ b \in list[y].ids
      <4>1. CASE j \in 1..k
        BY <1>4, <1>7, <4>1
      <4>2. CASE j \in (k + 1)..(k + q)
        <5>1. PICK x \in (k + 1)..(c - 1) : b \in list[x].ids
          BY <1>4, <4>2
        <5>2. x \in 1..n /\ i < x
          BY <1>2, <1>7, <2>1
        <5> QED BY <5>1, <5>2
      <4>3. CASE j \in (k + q + 1)..l
        <5>1. new[j] = list[j + d] /\ j + d \in 1..n /\ i < j + d
          BY <1>2, <1>4, <1>8, <2>1, <4>3
        <5> QED BY <5>1
      <4> QED BY <1>6, <4>1, <4>2, <4>3
    <3> QED BY <1>19, <3>1, <3>2
  <2>2. CASE i \in (k + 1)..(k + q)
    <3>1. PICK x \in (k + 1)..(c - 1) : a \in list[x].ids
      BY <1>4, <2>2
    <3>2. CASE j \in (k + 1)..(k + q)
      BY <1>4, <2>2, <3>2
    <3>3. CASE j \in (k + q + 1)..l
      <4>1. new[j] = list[j + d] /\ j + d \in 1..n /\ x < j + d /\ x \in 1..n
        BY <1>2, <1>4, <1>7, <1>8, <3>3
      <4> QED BY <1>19, <3>1, <4>1
    <3>4. ~(j \in 1..k)
      BY <1>2, <2>2
    <3> QED BY <1>6, <3>2, <3>3, <3>4
  <2>3. CASE i \in (k + q + 1)..l
    <3>1. j \in (k + q + 1)..l
      BY <1>2, <2>3
    <3>2. new[i] = list[i + d] /\ new[j] = list[j + d] /\ i + d \in 1..n /\ j + d \in 1..n /\ i + d < j + d
      BY <1>2, <1>4, <1>8, <2>3, <3>1
    <3> QED BY <1>19, <3>2
  <2> QED BY <1>6, <2>1, <2>2, <2>3
<1>21. Paired(new)
  <2> SUFFICES ASSUME NEW i \in 1..l, new[i].role = "tool"
               PROVE  /\ i > 1 /\ new[i - 1].role = "call"
                      /\ \A a \in new[i - 1].ids, b \in new[i].ids : b = <<a[1], a[2] + 1>>
    BY <1>1 DEF Paired
  <2>1. i \in (k + q + 1)..l
    BY <1>15, <1>16 DEF SystemRoles
  <2>2. new[i] = list[i + d] /\ i + d \in 1..n /\ i + d >= c
    BY <1>4, <1>8, <2>1
  <2>3. i + d # c
    BY <1>3, <2>2
  <2>4. i - 1 \in (k + q + 1)..l /\ i > 1
    BY <1>2, <2>1, <2>2, <2>3
  <2>5. new[i - 1] = list[(i - 1) + d] /\ (i - 1) + d = (i + d) - 1
    BY <1>2, <1>4, <2>4
  <2> QED BY <1>1, <2>2, <2>4, <2>5 DEF ListOK, Paired
<1>22. Old(new)
  <2> SUFFICES ASSUME NEW i \in 1..l, NEW id \in new[i].ids
               PROVE  /\ new[i].role = "summary" => Cardinality(After(new, id[1])) >= FreshTurns
                      /\ new[i].pruned => Cardinality(After(new, id[1])) >= KeepTurns
    BY <1>1 DEF Old
  <2>1. After(new, id[1]) = After(list, id[1])
    BY <1>10 DEF After, TurnsOf
  <2>2. ASSUME NEW x \in 1..n, new[i] = list[x]
        PROVE  /\ new[i].role = "summary" => Cardinality(After(list, id[1])) >= FreshTurns
               /\ new[i].pruned => Cardinality(After(list, id[1])) >= KeepTurns
    BY <1>1, <2>2 DEF ListOK, Old
  <2>3. CASE i \in 1..k
    BY <1>4, <1>7, <2>1, <2>2, <2>3
  <2>4. CASE i \in (k + 1)..(k + q)
    BY <1>4, <1>5, <2>1, <2>4
  <2>5. CASE i \in (k + q + 1)..l
    BY <1>4, <1>8, <2>1, <2>2, <2>5
  <2> QED BY <1>6, <2>3, <2>4, <2>5
<1> QED BY <1>1, <1>10, <1>12, <1>17, <1>18, <1>20, <1>21, <1>22 DEF ListOK

(* maybe_compress, when it does compress, is such a replacement: it cuts at *)
(* a user message with FreshTurns - 1 more behind it.                       *)
LEMMA CompressSplices ==
  ASSUME NEW list, ListOK(list), Compress(list) # list
  PROVE  \E k, c, q : Spliced(Compress(list), list, k, c, q)
<1> DEFINE n == Len(list)
           conv == OfRoles(list, TalkRoles)
           u == Cut(conv)
           pre == SubSeq(conv, 1, u - 1)
           s == Summaries(pre)
           post == SubSeq(conv, u, Len(conv))
           sys == OfRoles(list, SystemRoles)
           q == Len(s)
           new == Compress(list)
<1>1. list \in Seq(Messages) /\ n \in Nat /\ DOMAIN list = 1..n
  BY LenProperties DEF ListOK
<1>2. PICK k \in 0..n : \A i \in 1..n :
        (list[i].role \in SystemRoles <=> i <= k) /\ (list[i].role \in TalkRoles <=> i > k)
  BY <1>1, LayersOf DEF ListOK
<1>3. ~(Cardinality(Users(conv)) <= FreshTurns)
  BY Zenon DEF Compress
<1>4. new = (sys \o s) \o post
  BY Zenon DEF Compress, OldFirst
<1>5. conv = SubSeq(list, k + 1, n)
  <2>1. \A i \in 1..n : list[i].role \in TalkRoles <=> i \in (k + 1)..n
    BY <1>1, <1>2
  <2>2. k + 1 \in 1..(n + 1) /\ n \in ((k + 1) - 1)..n
    BY <1>1
  <2> QED BY <1>1, <2>1, <2>2, OfRolesInterval
<1>6. sys = SubSeq(list, 1, k)
  <2>1. \A i \in 1..n : list[i].role \in SystemRoles <=> i \in 1..k
    BY <1>1, <1>2
  <2>2. 1 \in 1..(n + 1) /\ k \in (1 - 1)..n
    BY <1>1
  <2> QED BY <1>1, <2>1, <2>2, OfRolesInterval
<1> HIDE DEF n, conv, u, pre, s, post, sys, q, new
<1>7. /\ conv \in Seq(Messages) /\ Len(conv) = n - k
      /\ \A i \in 1..(n - k) : conv[i] = list[k + i] /\ k + i \in 1..n
  <2>1. \A i \in (k + 1)..n : list[i] \in Messages
    BY <1>1, ElementOfSeq DEF n
  <2>2. k + 1 \in Int /\ n \in Int
    BY <1>1
  <2>3. /\ conv \in Seq(Messages) /\ Len(conv) = IF k + 1 <= n THEN n - (k + 1) + 1 ELSE 0
        /\ \A i \in 1..(n - (k + 1) + 1) : conv[i] = list[(k + 1) + i - 1]
    BY <1>5, <2>1, <2>2, SubSeqProperties
  <2>4. n - (k + 1) + 1 = n - k /\ (k + 1 <= n \/ n - k = 0)
    BY <1>1
  <2>5. Len(conv) = n - k
    BY <1>1, <2>3, <2>4
  <2>6. \A i \in 1..(n - k) : (k + 1) + i - 1 = k + i /\ k + i \in 1..n
    BY <1>1
  <2> QED BY <2>3, <2>4, <2>5, <2>6
<1>8. /\ sys \in Seq(Messages) /\ Len(sys) = k
      /\ \A i \in 1..k : sys[i] = list[i]
  <2>1. \A i \in 1..k : list[i] \in Messages
    BY <1>1, ElementOfSeq DEF n
  <2>2. /\ sys \in Seq(Messages) /\ Len(sys) = IF 1 <= k THEN k - 1 + 1 ELSE 0
        /\ \A i \in 1..(k - 1 + 1) : sys[i] = list[1 + i - 1]
    BY <1>6, <2>1, SubSeqProperties
  <2>3. k \in Nat /\ k - 1 + 1 = k /\ (1 <= k \/ k = 0) /\ \A i \in 1..k : 1 + i - 1 = i
    BY <1>1
  <2> QED BY <2>2, <2>3
<1>9. Ordered(conv) /\ OneIdEach(conv)
  <2>1. DOMAIN conv = 1..(n - k)
    BY <1>7, LenProperties
  <2>2. \A i, j \in 1..(n - k) : i < j => k + i < k + j
    BY <1>1
  <2>3. Ordered(conv)
    BY <1>1, <1>7, <2>1, <2>2 DEF ListOK, Ordered
  <2>4. OneIdEach(conv)
    BY <1>1, <1>7, <2>1 DEF ListOK, OneIdEach
  <2> QED BY <2>3, <2>4
<1>10. u \in 1..(n - k) /\ u \in Users(conv) /\ Cardinality({j \in Users(conv) : j >= u}) = FreshTurns
  <2>1. DOMAIN conv = 1..(n - k)
    BY <1>7, LenProperties
  <2>2. Users(conv) \in SUBSET (1..(n - k))
    BY <2>1 DEF Users
  <2>3. IsFiniteSet(Users(conv))
    <3>1. IsFiniteSet(1..(n - k))
      BY <1>1, FS_Interval
    <3> QED BY <2>2, <3>1, FS_Subset
  <2>4. Cardinality(Users(conv)) >= FreshTurns /\ FreshTurns \in Nat \ {0}
    BY <1>3, <2>3, FS_CardinalityType, ConversationAssumption
  <2> QED BY <1>7, <2>2, <2>4, TurnsFromProperties DEF Cut, u
<1> DEFINE c == k + u
<1>11. c \in 1..n /\ k < c /\ list[c].role = "user" /\ u - 1 = c - 1 - k /\ c \in Nat
  <2>1. conv[u].role = "user"
    BY <1>10 DEF Users
  <2>2. conv[u] = list[k + u] /\ k + u \in 1..n
    BY <1>7, <1>10
  <2> QED BY <1>1, <1>10, <2>1, <2>2
<1> HIDE DEF c
<1>12. c = k + u
  BY DEF c
<1>13. /\ pre \in Seq(Messages) /\ Len(pre) = u - 1
       /\ \A i \in 1..(u - 1) : pre[i] = list[k + i] /\ k + i \in (k + 1)..(c - 1)
  <2>1. \A i \in 1..(u - 1) : conv[i] \in Messages /\ i \in 1..(n - k)
    BY <1>1, <1>7, <1>10, ElementOfSeq
  <2>2. u \in Int /\ u - 1 \in Int /\ u - 1 >= 0
    BY <1>1, <1>10
  <2>3. /\ pre \in Seq(Messages) /\ Len(pre) = IF 1 <= u - 1 THEN (u - 1) - 1 + 1 ELSE 0
        /\ \A i \in 1..((u - 1) - 1 + 1) : pre[i] = conv[1 + i - 1]
    BY <2>1, <2>2, SubSeqProperties DEF pre
  <2>4. (u - 1) - 1 + 1 = u - 1 /\ (1 <= u - 1 \/ u - 1 = 0)
    BY <2>2
  <2>5. \A i \in 1..(u - 1) : 1 + i - 1 = i /\ k + i \in (k + 1)..(c - 1)
    BY <1>1, <1>10, <1>12
  <2> QED BY <1>7, <2>1, <2>3, <2>4, <2>5
<1>14. /\ post \in Seq(Messages) /\ Len(post) = n - c + 1
       /\ \A i \in 1..(n - c + 1) : post[i] = list[c - 1 + i]
  <2>1. \A i \in u..(n - k) : conv[i] \in Messages /\ i \in 1..(n - k)
    BY <1>1, <1>7, <1>10, ElementOfSeq
  <2>2. u \in Int /\ n - k \in Int /\ u <= n - k
    BY <1>1, <1>10
  <2>3. /\ post \in Seq(Messages) /\ Len(post) = IF u <= n - k THEN (n - k) - u + 1 ELSE 0
        /\ \A i \in 1..((n - k) - u + 1) : post[i] = conv[u + i - 1]
    BY <1>7, <2>1, <2>2, SubSeqProperties DEF post
  <2>4. (n - k) - u + 1 = n - c + 1
    BY <1>1, <1>12, <2>2
  <2>5. \A i \in 1..(n - c + 1) : u + i - 1 \in 1..(n - k) /\ k + (u + i - 1) = c - 1 + i
    BY <1>1, <1>10, <1>12
  <2>6. \A i \in 1..(n - c + 1) : post[i] = list[c - 1 + i]
    BY <1>7, <2>3, <2>4, <2>5
  <2> QED BY <2>2, <2>3, <2>4, <2>6
<1>15. Ordered(pre)
  <2>1. DOMAIN pre = 1..(u - 1)
    BY <1>13, LenProperties
  <2>2. \A i, j \in 1..(u - 1) : i < j => k + i < k + j /\ k + i \in 1..n /\ k + j \in 1..n
    BY <1>1, <1>10, <1>12, <1>11
  <2> QED BY <1>1, <1>13, <2>1, <2>2 DEF ListOK, Ordered
<1>16. /\ s \in Seq(Messages) /\ q <= u - 1 /\ q \in Nat
       /\ \A a \in 1..q :
            /\ s[a].role = "summary" /\ ~s[a].pruned
            /\ \A id \in s[a].ids : \E x \in 1..(u - 1) : id \in pre[x].ids
       /\ \A x \in 1..(u - 1) : \A id \in pre[x].ids : \E a \in 1..q : id \in s[a].ids
       /\ \A a, b \in 1..q : a < b => \A id \in s[a].ids, jd \in s[b].ids : Before(id, jd)
  BY <1>13, <1>15, SummariesProperties, LenProperties DEF s, q
<1>17. /\ sys \o s \in Seq(Messages) /\ Len(sys \o s) = k + q
       /\ \A i \in 1..(k + q) : (sys \o s)[i] = IF i <= k THEN list[i] ELSE s[i - k]
  <2>1. /\ sys \o s \in Seq(Messages) /\ Len(sys \o s) = Len(sys) + Len(s)
        /\ \A i \in 1..(Len(sys) + Len(s)) :
             (sys \o s)[i] = IF i <= Len(sys) THEN sys[i] ELSE s[i - Len(sys)]
    BY <1>8, <1>16, ConcatProperties
  <2>2. \A i \in 1..(k + q) : i <= k => i \in 1..k
    BY <1>1
  <2> QED BY <1>8, <2>1, <2>2 DEF q
<1> DEFINE d == c - 1 - k - q
<1>18. /\ new \in Seq(Messages) /\ Len(new) = n - d
       /\ \A i \in 1..(n - d) : new[i] = IF i <= k + q THEN (sys \o s)[i] ELSE post[i - (k + q)]
  <2>1. /\ (sys \o s) \o post \in Seq(Messages)
        /\ Len((sys \o s) \o post) = Len(sys \o s) + Len(post)
        /\ \A i \in 1..(Len(sys \o s) + Len(post)) :
             ((sys \o s) \o post)[i] = IF i <= Len(sys \o s) THEN (sys \o s)[i]
                                      ELSE post[i - Len(sys \o s)]
    BY <1>14, <1>17, ConcatProperties
  <2>2. (k + q) + (n - c + 1) = n - d
    BY <1>1, <1>11, <1>16
  <2>3. Len(sys \o s) + Len(post) = n - d
    BY <1>14, <1>17, <2>2
  <2> HIDE DEF d
  <2> QED BY <1>4, <1>17, <2>1, <2>3
<1>19. d >= 0 /\ k \in Nat
  BY <1>1, <1>11, <1>16
<1>20. \A i \in 1..k : new[i] = list[i]
  <2>1. \A i \in 1..k : i \in 1..(n - d) /\ i \in 1..(k + q) /\ i <= k + q /\ i <= k
    BY <1>1, <1>11, <1>16
  <2> HIDE DEF d
  <2> QED BY <1>17, <1>18, <2>1
<1>21. \A i \in (k + 1)..(k + q) : new[i] = s[i - k] /\ i - k \in 1..q
  <2>1. \A i \in (k + 1)..(k + q) :
          i \in 1..(n - d) /\ i \in 1..(k + q) /\ i <= k + q /\ ~(i <= k) /\ i - k \in 1..q
    BY <1>1, <1>11, <1>16
  <2> HIDE DEF d
  <2> QED BY <1>17, <1>18, <2>1
<1>22. \A i \in (k + q + 1)..(n - d) : new[i] = list[i + d]
  <2>1. \A i \in (k + q + 1)..(n - d) :
          /\ i \in 1..(n - d) /\ ~(i <= k + q)
          /\ i - (k + q) \in 1..(n - c + 1) /\ c - 1 + (i - (k + q)) = i + d
    BY <1>1, <1>11, <1>16
  <2> HIDE DEF d
  <2> QED BY <1>14, <1>18, <2>1
<1>23. \A x \in (k + 1)..(c - 1) : x - k \in 1..(u - 1) /\ pre[x - k] = list[x] /\ conv[x - k] = list[x]
  <2>1. \A x \in (k + 1)..(c - 1) : x - k \in 1..(u - 1) /\ x - k \in 1..(n - k) /\ k + (x - k) = x
    BY <1>1, <1>10, <1>12
  <2> QED BY <1>7, <1>13, <2>1
<1>24. \A i \in (k + 1)..(k + q) :
         /\ new[i].role = "summary" /\ ~new[i].pruned
         /\ \A id \in new[i].ids : \E x \in (k + 1)..(c - 1) : id \in list[x].ids
  <2> SUFFICES ASSUME NEW i \in (k + 1)..(k + q)
               PROVE  /\ new[i].role = "summary" /\ ~new[i].pruned
                      /\ \A id \in new[i].ids : \E x \in (k + 1)..(c - 1) : id \in list[x].ids
    OBVIOUS
  <2>1. new[i] = s[i - k] /\ i - k \in 1..q
    BY <1>21
  <2> QED BY <1>13, <1>16, <2>1
<1>25. \A x \in (k + 1)..(c - 1) : \A id \in list[x].ids :
         /\ \E i \in (k + 1)..(k + q) : id \in new[i].ids
         /\ Cardinality(After(list, id[1])) >= FreshTurns
  <2> SUFFICES ASSUME NEW x \in (k + 1)..(c - 1), NEW id \in list[x].ids
               PROVE  /\ \E i \in (k + 1)..(k + q) : id \in new[i].ids
                      /\ Cardinality(After(list, id[1])) >= FreshTurns
    OBVIOUS
  <2>1. x - k \in 1..(u - 1) /\ pre[x - k] = list[x] /\ conv[x - k] = list[x]
    BY <1>23
  <2>2. PICK a \in 1..q : id \in s[a].ids
    BY <1>16, <2>1
  <2>3. k + a \in (k + 1)..(k + q) /\ (k + a) - k = a
    BY <1>1, <1>16
  <2>4. id \in new[k + a].ids
    BY <1>21, <2>2, <2>3
  <2>5. Cardinality(After(conv, id[1])) >= FreshTurns
    BY <1>7, <1>9, <1>10, <2>1, LaterUsers
  <2>6. Covered(conv) \subseteq Covered(list)
    <3>1. DOMAIN conv = 1..(n - k)
      BY <1>7, LenProperties
    <3> QED BY <1>1, <1>7, <3>1 DEF Covered
  <2>7. Cardinality(After(conv, id[1])) <= Cardinality(After(list, id[1]))
    BY <1>1, <1>7, <2>6, MoreTurns
  <2>8. Cardinality(After(conv, id[1])) \in Nat /\ Cardinality(After(list, id[1])) \in Nat
    BY <1>1, <1>7, TurnsFinite
  <2> QED BY <2>3, <2>4, <2>5, <2>7, <2>8, ConversationAssumption
<1>26. \A i, j \in (k + 1)..(k + q) :
         i < j => \A a \in new[i].ids, b \in new[j].ids : Before(a, b)
  <2> SUFFICES ASSUME NEW i \in (k + 1)..(k + q), NEW j \in (k + 1)..(k + q), i < j
               PROVE  \A a \in new[i].ids, b \in new[j].ids : Before(a, b)
    OBVIOUS
  <2>1. i - k < j - k
    BY <1>1
  <2>2. new[i] = s[i - k] /\ i - k \in 1..q /\ new[j] = s[j - k] /\ j - k \in 1..q
    BY <1>21
  <2> QED BY <1>16, <2>1, <2>2
<1>27. Spliced(new, list, k, c, q)
  <2>1. c <= Len(list)
    BY <1>1, <1>11 DEF n
  <2>2. Len(new) = Len(list) - d
    BY <1>18 DEF n
  <2>3. \A i \in 1..Len(list) : /\ list[i].role \in SystemRoles <=> i <= k
                                /\ list[i].role \in TalkRoles <=> i > k
    BY <1>2 DEF n
  <2>4. \A i \in (k + q + 1)..Len(new) : new[i] = list[i + d]
    BY <1>18, <1>22
  <2> QED BY <1>11, <1>16, <1>18, <1>19, <1>20, <1>24, <1>25, <1>26, <2>1, <2>2, <2>3, <2>4
          DEF Spliced
<1> QED BY <1>27 DEF new

(* So a compressed list is as good as before; it is not longer, and if it   *)
(* is as long as before its last user message stays where it was.           *)
LEMMA CompressOK ==
  ASSUME NEW list, ListOK(list), list # <<>>
  PROVE  /\ ListOK(Compress(list)) /\ Covered(Compress(list)) = Covered(list)
         /\ Compress(list) # <<>> /\ Len(Compress(list)) <= Len(list)
         /\ \A p \in Users(list) :
              Len(Compress(list)) = Len(list) /\ (\A j \in Users(list) : j <= p)
                => Compress(list)[p] = list[p]
<1>1. list \in Seq(Messages) /\ Len(list) \in Nat /\ DOMAIN list = 1..Len(list)
  BY LenProperties DEF ListOK
<1>2. CASE Compress(list) = list
  BY <1>1, <1>2
<1>3. CASE Compress(list) # list
  <2> DEFINE new == Compress(list)
  <2>1. PICK k, c, q : Spliced(new, list, k, c, q)
    BY <1>3, CompressSplices
  <2> HIDE DEF new
  <2> DEFINE d == c - 1 - k - q
  <2>2. ListOK(new) /\ Covered(new) = Covered(list) /\ new # <<>>
    BY <2>1, SplicedOK
  <2>3. /\ k \in Nat /\ q \in Nat /\ c \in Nat /\ c <= Len(list) /\ d >= 0 /\ k < c
        /\ list[c].role = "user" /\ Len(new) = Len(list) - d
        /\ \A i \in (k + q + 1)..Len(new) : new[i] = list[i + d]
    BY <2>1 DEF Spliced
  <2>4. Len(new) <= Len(list)
    BY <1>1, <2>3
  <2>5. ASSUME NEW p \in Users(list), Len(new) = Len(list), \A j \in Users(list) : j <= p
        PROVE  new[p] = list[p]
    <3>1. p \in 1..Len(list)
      BY <1>1 DEF Users
    <3>2. c \in Users(list)
      BY <1>1, <2>3 DEF Users
    <3>3. d = 0 /\ c <= p
      BY <1>1, <2>3, <2>5, <3>2
    <3>4. p \in (k + q + 1)..Len(new) /\ p + d = p
      BY <1>1, <2>3, <2>5, <3>1, <3>3
    <3> HIDE DEF d
    <3> QED BY <2>3, <3>4
  <2> QED BY <2>2, <2>4, <2>5 DEF new
<1> QED BY <1>2, <1>3

(* _restore_session keeps all of a snapshot but its system prompt.          *)
LEMMA KeptIsTail ==
  ASSUME NEW list, ListOK(list), list # <<>>
  PROVE  /\ Kept(list) = SubSeq(list, 2, Len(list)) /\ HistoryLen(list) = Len(list)
         /\ <<System>> \o Kept(list) = list
<1>1. list \in Seq(Messages) /\ Len(list) \in Nat /\ Len(list) >= 1 /\ DOMAIN list = 1..Len(list)
  BY LenProperties, EmptySeq DEF ListOK
<1>2. list[1] = System
  BY DEF ListOK, Headed
<1>3. \A i \in 1..Len(list) : list[i].role \in {"summary"} \union TalkRoles <=> i \in 2..Len(list)
  <2> SUFFICES ASSUME NEW i \in 1..Len(list)
               PROVE  list[i].role \in {"summary"} \union TalkRoles <=> i # 1
    BY <1>1
  <2>1. list[i].role \in {"system", "summary"} \union TalkRoles
    <3>1. list[i] \in Messages
      BY <1>1, ElementOfSeq
    <3> QED BY <3>1 DEF Messages, TalkRoles
  <2>2. list[i].role = "system" => i = 1
    BY <1>1 DEF ListOK, Layered
  <2>3. list[1].role = "system"
    BY <1>2 DEF System
  <2> QED BY <2>1, <2>2, <2>3 DEF TalkRoles
<1>4. Kept(list) = SubSeq(list, 2, Len(list))
  <2>1. 2 \in 1..(Len(list) + 1) /\ Len(list) \in (2 - 1)..Len(list)
    BY <1>1
  <2> QED BY <1>1, <1>3, <2>1, OfRolesInterval DEF Kept
<1>5. Len(SubSeq(list, 2, Len(list))) = Len(list) - 1
  <2>1. \A i \in 2..Len(list) : list[i] \in Messages
    BY <1>1, ElementOfSeq
  <2>2. Len(SubSeq(list, 2, Len(list))) = IF 2 <= Len(list) THEN Len(list) - 2 + 1 ELSE 0
    BY <1>1, <2>1, SubSeqProperties
  <2> QED BY <1>1, <2>2
<1>6. <<System>> \o SubSeq(list, 2, Len(list)) = list
  <2>1. 1 \in 1..Len(list) /\ Len(list) \in 1..Len(list)
    BY <1>1
  <2>2. SubSeq(list, 1, Len(list)) = <<list[1]>> \o SubSeq(list, 1 + 1, Len(list))
    BY <1>1, <2>1, SubSeqRecursiveFirst
  <2>3. SubSeq(list, 1, Len(list)) = list
    BY <1>1, SubSeqFull
  <2> QED BY <1>2, <2>2, <2>3
<1>7. HistoryLen(list) = Len(list)
  BY <1>1, <1>4, <1>5 DEF HistoryLen
<1> QED BY <1>4, <1>6, <1>7

-----------------------------------------------------------------------------
(* The list of a turn                                                       *)

(* A list of two.                                                           *)
LEMMA PairOf ==
  ASSUME NEW S, NEW a \in S, NEW b \in S
  PROVE  Append(<<a>>, b) = <<a, b>>
<1> DEFINE s == Append(<<a>>, b)
           t == <<a, b>>
<1>1. <<a>> \in Seq(S) /\ Len(<<a>>) = 1 /\ <<a>>[1] = a
  OBVIOUS
<1>2. t \in Seq(S) /\ Len(t) = 2 /\ t[1] = a /\ t[2] = b
  OBVIOUS
<1>3. s \in Seq(S) /\ Len(s) = 1 + 1 /\ (\A i \in 1..1 : s[i] = <<a>>[i]) /\ s[1 + 1] = b
  BY <1>1, AppendProperties
<1> HIDE DEF s, t
<1>4. \A i \in 1..2 : i = 1 \/ i = 2
  OBVIOUS
<1>5. \A i \in 1..Len(s) : s[i] = t[i]
  BY <1>1, <1>2, <1>3, <1>4
<1>6. s = t
  BY <1>2, <1>3, <1>5, SeqEqual
<1> QED BY <1>6 DEF s, t

(* Two messages at once, or one after the other.                            *)
LEMMA TwoAppends ==
  ASSUME NEW S, NEW l \in Seq(S), NEW a \in S, NEW b \in S
  PROVE  l \o <<a, b>> = Append(Append(l, a), b)
<1>1. Append(l, a) \in Seq(S) /\ Append(l, a) = l \o <<a>>
  BY AppendProperties, AppendIsConcat
<1>2. Append(Append(l, a), b) = (l \o <<a>>) \o <<b>>
  BY <1>1, AppendIsConcat
<1>3. <<a>> \in Seq(S) /\ <<b>> \in Seq(S)
  OBVIOUS
<1>4. (l \o <<a>>) \o <<b>> = l \o (<<a>> \o <<b>>)
  BY <1>3, ConcatAssociative
<1>5. <<a>> \o <<b>> = <<a, b>>
  BY <1>3, AppendIsConcat, PairOf
<1> QED BY <1>2, <1>4, <1>5

(* A new list: the system prompt and the message the turn is about.         *)
LEMMA FirstListOK ==
  ASSUME NEW t \in 1..MaxTurns, NEW m, m = [role |-> "user", ids |-> {<<t, 1>>}, pruned |-> FALSE]
  PROVE  ListOK(<<System, m>>) /\ Covered(<<System, m>>) = {<<t, 1>>}
<1>1. <<t, 1>> \in Ids
  BY ConversationAssumption DEF Ids
<1>2. m \in Messages /\ System \in Messages
  BY <1>1 DEF Messages, System
<1> DEFINE one == <<System>>
<1>3. one \in Seq(Messages) /\ Len(one) = 1 /\ one[1] = System /\ DOMAIN one = 1..1 /\ one # <<>>
  BY <1>2
<1>4. System.role = "system" /\ System.ids = {} /\ ~System.pruned
  BY DEF System
<1>5. Append(one, m) = <<System, m>>
  BY <1>2, PairOf
<1> HIDE DEF one
<1>6. ListOK(one) /\ Covered(one) = {}
  <2>1. \A i \in DOMAIN one : i = 1 /\ one[i].role = "system" /\ one[i].ids = {} /\ ~one[i].pruned
    BY <1>3, <1>4
  <2>2. Layered(one) /\ OneIdEach(one)
    BY <2>1 DEF Layered, OneIdEach, TalkRoles
  <2>3. Ordered(one) /\ Paired(one) /\ Old(one)
    BY <2>1 DEF Ordered, Paired, Old
  <2>4. Covered(one) = {}
    BY <2>1 DEF Covered
  <2> QED BY <1>3, <2>2, <2>3, <2>4 DEF ListOK, Headed
<1>7. m.role = "user" /\ m.ids = {<<t, 1>>} /\ ~m.pruned /\ m.role \in TalkRoles
  BY DEF TalkRoles
<1>8. ListOK(Append(one, m)) /\ Covered(Append(one, m)) = Covered(one) \union {<<t, 1>>}
  <2>1. <<t, 1>>[2] = 1
    OBVIOUS
  <2> QED BY <1>1, <1>2, <1>3, <1>6, <1>7, <2>1, AppendOK
<1> QED BY <1>5, <1>6, <1>8

(* What before_llm_hook makes of the list: restored or not, it is a good    *)
(* one, covers what the session remembers and the turn said, and its        *)
(* _history_len points at the turn's message.                               *)
LEMMA RestoredOK ==
  ASSUME ConvInv, pc = "hook", loaded \/ active \notin torn
  PROVE  /\ ListOK(Restored) /\ Restored # <<>>
         /\ Covered(Restored) = Covered(ctx[active]) \union IdsOf(turn)
         /\ ~loaded => ctx[active] = <<>> \/
              /\ HistoryLen(ctx[active]) < Len(Restored) /\ HistoryLen(ctx[active]) \in Nat
              /\ Restored[HistoryLen(ctx[active]) + 1].role = "user"
              /\ Restored[HistoryLen(ctx[active]) + 1].ids = {<<turn, 1>>}
         /\ loaded => Restored = msgs
<1>1. TypeOK /\ TurnInv /\ SavedBefore /\ active \in Sessions /\ turn \in 1..MaxTurns
  <2>1. TypeOK /\ TurnInv /\ SavedBefore
    BY DEF ConvInv
  <2>2. active # 0 /\ turn # 0
    BY <2>1 DEF TurnInv, Unsaved
  <2>3. active \in Sessions /\ turn \in 1..MaxTurns
    BY <2>1, <2>2, ConversationAssumption DEF TypeOK
  <2> QED BY <2>1, <2>3
<1>2. ListOK(msgs) /\ ListOK(ctx[active])
  BY <1>1 DEF ConvInv, Lists
<1>3. CASE loaded
  <2>1. Restored = msgs
    BY <1>3 DEF Restored
  <2>2. msgs # <<>> /\ Covered(msgs) = Covered(ctx[active]) \union IdsOf(turn)
    BY <1>1, <1>3 DEF TurnInv, InTurn, Unsaved
  <2> QED BY <1>2, <1>3, <2>1, <2>2
<1>4. CASE ~loaded
  <2> DEFINE m == Message("user", 1)
             old == ctx[active]
  <2>1. msgs = <<System, m>> /\ said[turn] = 1 /\ active \notin torn
    BY <1>1, <1>4 DEF TurnInv
  <2>2. IdsOf(turn) = {<<turn, 1>>}
    BY <2>1 DEF IdsOf
  <2>3. m = [role |-> "user", ids |-> {<<turn, 1>>}, pruned |-> FALSE]
    BY DEF Message
  <2>4. <<turn, 1>> \in Ids
    BY <1>1, ConversationAssumption DEF Ids
  <2>5. m \in Messages /\ System \in Messages /\ m.role = "user" /\ m.ids = {<<turn, 1>>} /\ ~m.pruned
    <3> HIDE DEF m
    <3>1. System \in Messages
      BY DEF Messages, System
    <3>2. m \in Messages
      BY <2>3, <2>4 DEF Messages
    <3> QED BY <2>3, <3>1, <3>2
  <2> HIDE DEF m
  <2>6. ListOK(msgs) /\ Covered(msgs) = {<<turn, 1>>} /\ msgs # <<>>
    BY <1>1, <2>1, <2>3, FirstListOK
  <2>7. CASE old = <<>>
    <3>1. Restored = msgs
      BY <2>7 DEF Restored
    <3>2. Covered(<<>>) = {}
      BY DEF Covered
    <3> QED BY <1>4, <2>2, <2>6, <2>7, <3>1, <3>2
  <2>8. CASE old # <<>>
    <3>1. OfRoles(msgs, {"user"}) = <<m>>
      <4> DEFINE l == msgs
      <4>1. l \in Seq(Messages) /\ Len(l) = 2 /\ l[1] = System /\ l[2] = m
        BY <2>1, <2>5
      <4>2. \A i \in 1..Len(l) : l[i].role \in {"user"} <=> i \in 2..2
        BY <2>5, <4>1 DEF System
      <4>3. 2 \in 1..(Len(l) + 1) /\ 2 \in (2 - 1)..Len(l)
        BY <4>1
      <4> HIDE DEF l
      <4>4. OfRoles(l, {"user"}) = SubSeq(l, 2, 2)
        BY <4>1, <4>2, <4>3, OfRolesInterval
      <4>5. SubSeq(l, 2, 2) = <<m>>
        <5>1. SubSeq(l, 2, 2) = <<l[2]>> \o SubSeq(l, 2 + 1, 2)
          BY <4>1, <4>3, SubSeqRecursiveFirst
        <5>2. SubSeq(l, 2 + 1, 2) = <<>>
          BY SubSeqEmpty
        <5>3. <<m>> \in Seq(Messages)
          BY <2>5
        <5> QED BY <4>1, <5>1, <5>2, <5>3, ConcatEmptySeq
      <4> QED BY <4>4, <4>5 DEF l
    <3>2. old \in Seq(Messages) /\ Len(old) \in Nat /\ HistoryLen(old) = Len(old)
          /\ <<System>> \o Kept(old) = old
      BY <1>2, <2>8, KeptIsTail, LenProperties DEF ListOK
    <3>3. Restored = Append(old, m)
      <4>1. Restored = (<<System>> \o Kept(old)) \o <<m>>
        BY <1>4, <2>8, <3>1 DEF Restored
      <4>2. Append(old, m) = old \o <<m>>
        BY <2>5, <3>2, AppendIsConcat
      <4> QED BY <3>2, <4>1, <4>2
    <3>4. \A jd \in Covered(old) : Before(jd, <<turn, 1>>)
      <4> SUFFICES ASSUME NEW jd \in Covered(old) PROVE jd[1] < turn
        BY DEF Before
      <4> QED BY <1>1 DEF SavedBefore, Unsaved
    <3>5. ListOK(Append(old, m)) /\ Covered(Append(old, m)) = Covered(old) \union {<<turn, 1>>}
      <4>1. <<turn, 1>>[2] = 1 /\ m.role \in TalkRoles /\ m.role # "tool"
        BY <2>5 DEF TalkRoles
      <4> QED BY <1>2, <2>4, <2>5, <2>8, <3>4, <4>1, AppendOK
    <3>6. Append(old, m) # <<>> /\ Len(Append(old, m)) = Len(old) + 1 /\ Append(old, m)[Len(old) + 1] = m
      BY <2>5, <3>2, AppendProperties
    <3>7. HistoryLen(old) < Len(Restored) /\ Restored[HistoryLen(old) + 1] = m
      BY <3>2, <3>3, <3>6
    <3> QED BY <1>4, <2>2, <2>5, <3>2, <3>3, <3>5, <3>6, <3>7
  <2> QED BY <2>7, <2>8
<1> QED BY <1>3, <1>4

(* The list after the hook.                                                 *)
LEMMA HookOK ==
  ASSUME ConvInv, Hook
  PROVE  /\ ListOK(msgs') /\ msgs' # <<>>
         /\ Covered(msgs') = Covered(ctx[active]) \union IdsOf(turn)
         /\ PointsAtTurn'
         /\ historyLen' \in Nat
<1> DEFINE pr == Prune(Restored)
<1>1. /\ pc = "hook" /\ (loaded \/ active \notin torn) /\ msgs' = Compress(pr)
      /\ pc' = "model" /\ loaded' = TRUE /\ turn' = turn
      /\ historyLen' = IF loaded THEN historyLen
                       ELSE IF ctx[active] = <<>> THEN 0 ELSE HistoryLen(ctx[active])
      /\ compressed' = IF Len(msgs') < Len(Restored) THEN compressed \union {turn} ELSE compressed
  BY Zenon DEF Hook
<1>2. /\ ListOK(Restored) /\ Restored # <<>>
      /\ Covered(Restored) = Covered(ctx[active]) \union IdsOf(turn)
      /\ ~loaded => ctx[active] = <<>> \/
           /\ HistoryLen(ctx[active]) < Len(Restored) /\ HistoryLen(ctx[active]) \in Nat
           /\ Restored[HistoryLen(ctx[active]) + 1].role = "user"
           /\ Restored[HistoryLen(ctx[active]) + 1].ids = {<<turn, 1>>}
      /\ loaded => Restored = msgs
  BY <1>1, RestoredOK
<1> DEFINE old == Restored
           n == Len(old)
<1> HIDE DEF old
<1>3. old \in Seq(Messages) /\ n \in Nat /\ n # 0 /\ DOMAIN old = 1..n
  BY <1>2, LenProperties, EmptySeq DEF ListOK, old
<1>4. /\ ListOK(pr) /\ Covered(pr) = Covered(old) /\ Len(pr) = n
      /\ \A i \in 1..n : pr[i].role = old[i].role /\ pr[i].ids = old[i].ids
  BY <1>2, PruneOK DEF old
<1>5. pr # <<>> /\ pr \in Seq(Messages) /\ DOMAIN pr = 1..n
  BY <1>3, <1>4, EmptySeq, LenProperties DEF ListOK
<1> HIDE DEF pr, n
<1>6. /\ ListOK(msgs') /\ Covered(msgs') = Covered(pr) /\ msgs' # <<>> /\ Len(msgs') <= n
      /\ \A p \in Users(pr) :
           Len(msgs') = n /\ (\A j \in Users(pr) : j <= p) => msgs'[p] = pr[p]
  BY <1>1, <1>4, <1>5, CompressOK
<1>7. historyLen' = 0 \/ historyLen' \in Nat
  <2>1. historyLen \in Nat
    BY DEF ConvInv, TypeOK
  <2> QED BY <1>1, <1>2, <2>1
<1>8. PointsAtTurn'
  <2> SUFFICES ASSUME turn \notin compressed', historyLen' # 0
               PROVE  /\ historyLen' < Len(msgs')
                      /\ msgs'[historyLen' + 1].role = "user"
                      /\ msgs'[historyLen' + 1].ids = {<<turn, 1>>}
    BY <1>1 DEF PointsAtTurn
  <2> DEFINE h == historyLen'
             p == h + 1
  <2>1. Len(msgs') \in Nat
    BY <1>6, LenProperties DEF ListOK
  <2>2. Len(msgs') = n /\ turn \notin compressed
    <3>1. ~(Len(msgs') < n) /\ turn \notin compressed
      BY <1>1 DEF n, old
    <3> QED BY <1>3, <1>6, <2>1, <3>1
  <2>3. h \in Nat /\ h < n /\ old[p].role = "user" /\ old[p].ids = {<<turn, 1>>}
    <3>1. CASE loaded
      <4>1. h = historyLen /\ old = msgs
        BY <1>1, <1>2, <3>1 DEF old
      <4>2. PointsAtTurn
        BY DEF ConvInv
      <4> QED BY <1>1, <1>7, <2>2, <3>1, <4>1, <4>2 DEF PointsAtTurn, n
    <3>2. CASE ~loaded
      BY <1>1, <1>2, <3>2 DEF n, old
    <3> QED BY <3>1, <3>2
  <2> HIDE DEF h
  <2>4. p \in 1..n
    BY <1>3, <2>3
  <2>5. p \in Users(pr) /\ pr[p].ids = {<<turn, 1>>} /\ pr[p].role = "user"
    BY <1>4, <1>5, <2>3, <2>4 DEF Users
  <2>6. ASSUME NEW j \in Users(pr) PROVE j <= p
    <3>1. j \in 1..n /\ pr[j].role = "user"
      BY <1>5 DEF Users
    <3>2. PICK id \in Ids : pr[j].ids = {id}
      BY <1>4, <1>5, <3>1 DEF ListOK, OneIdEach, TalkRoles
    <3>3. id[2] = 1
      BY <1>4, <1>5, <3>1, <3>2 DEF ListOK, OneIdEach
    <3>4. id[1] <= turn
      <4>1. id \in Covered(pr)
        BY <1>5, <3>1, <3>2 DEF Covered
      <4>2. id \in Covered(ctx[active]) \/ id \in IdsOf(turn)
        BY <1>2, <1>4, <4>1 DEF old
      <4>3. CASE id \in Covered(ctx[active])
        <5>1. SavedBefore /\ active \in Sessions
          BY <1>1 DEF ConvInv, TurnInv, TypeOK
        <5> QED BY <4>3, <5>1 DEF SavedBefore
      <4>4. CASE id \in IdsOf(turn)
        <5>1. id[1] = turn /\ turn \in Nat
          BY <4>4, ConversationAssumption DEF IdsOf, ConvInv, TypeOK
        <5> QED BY <5>1
      <4> QED BY <4>2, <4>3, <4>4
    <3>5. ~Before(<<turn, 1>>, id)
      <4>1. id[1] \in Nat /\ turn \in Nat
        BY <3>2, ConversationAssumption DEF Ids, ConvInv, TypeOK
      <4> QED BY <3>3, <3>4, <4>1 DEF Before
    <3>6. p < j => Before(<<turn, 1>>, id)
      BY <1>4, <1>5, <2>4, <2>5, <3>1, <3>2 DEF ListOK, Ordered
    <3> QED BY <1>3, <2>4, <3>1, <3>5, <3>6
  <2>7. msgs'[p] = pr[p]
    BY <1>6, <2>2, <2>5, <2>6
  <2> QED BY <1>3, <2>2, <2>3, <2>5, <2>7 DEF h
<1> QED BY <1>2, <1>4, <1>6, <1>7, <1>8 DEF old

-----------------------------------------------------------------------------
(* The steps of the program                                                 *)

(* A turn is under way in some session.                                     *)
LEMMA Underway ==
  ASSUME ConvInv
  PROVE  /\ pc # "idle" => active \in Sessions
         /\ pc \in Unsaved \union InTurn => turn \in 1..MaxTurns
         /\ turn \in 0..MaxTurns /\ MaxTurns \in Nat /\ crashes \in Nat
         /\ \A t \in 1..MaxTurns : said[t] \in Nat
<1>1. TypeOK /\ TurnInv
  BY DEF ConvInv
<1>2. pc # "idle" => active \in Sessions
  BY <1>1 DEF TypeOK, TurnInv
<1>3. MaxTurns \in Nat /\ MaxTools \in Nat /\ MaxCrashes \in Nat
  BY ConversationAssumption
<1>4. turn \in 0..MaxTurns /\ crashes \in Nat
  BY <1>1, <1>3 DEF TypeOK
<1>5. pc \in Unsaved \union InTurn => turn \in 1..MaxTurns
  BY <1>1, <1>3, <1>4 DEF TurnInv
<1>6. \A t \in 1..MaxTurns : said[t] \in Nat
  BY <1>1, <1>3 DEF TypeOK
<1> QED BY <1>2, <1>3, <1>4, <1>5, <1>6

(* The two messages of a tool call, and an answer, are numbered on.         *)
LEMMA NextMessages ==
  ASSUME ConvInv, pc = "model", NEW role \in TalkRoles
  PROVE  /\ said[turn] \in Nat /\ said[turn] >= 1
         /\ said[turn] + 1 <= 2 + 2 * MaxTools
         /\ said[turn] < 1 + 2 * MaxTools =>
              said[turn] + 2 <= 2 + 2 * MaxTools /\ \E k \in 0..MaxTools : said[turn] + 2 = 1 + 2 * k
         /\ \A n \in 1..(2 + 2 * MaxTools) :
              /\ <<turn, n>> \in Ids /\ Message(role, n) \in Messages
              /\ Message(role, n).role = role /\ Message(role, n).ids = {<<turn, n>>}
              /\ ~Message(role, n).pruned
<1>1. PICK k \in 0..MaxTools : said[turn] = 1 + 2 * k
  BY DEF ConvInv, TurnInv
<1>2. MaxTools \in Nat /\ k \in Nat
  BY ConversationAssumption
<1>3. turn \in 1..MaxTurns
  BY Underway DEF Unsaved
<1>4. said[turn] < 1 + 2 * MaxTools => k + 1 \in 0..MaxTools /\ said[turn] + 2 = 1 + 2 * (k + 1)
  BY <1>1, <1>2
<1>5. ASSUME NEW n \in 1..(2 + 2 * MaxTools)
      PROVE  /\ <<turn, n>> \in Ids /\ Message(role, n) \in Messages
             /\ Message(role, n).role = role /\ Message(role, n).ids = {<<turn, n>>}
             /\ ~Message(role, n).pruned
  <2>1. <<turn, n>> \in Ids
    BY <1>3 DEF Ids
  <2>2. Message(role, n) = [role |-> role, ids |-> {<<turn, n>>}, pruned |-> FALSE]
    BY DEF Message
  <2>3. Message(role, n) \in Messages
    BY <2>1, <2>2 DEF Messages, TalkRoles
  <2> QED BY <2>1, <2>2, <2>3
<1> QED BY <1>1, <1>2, <1>4, <1>5

(* The end of a turn.                                                       *)
LEMMA OverTypes ==
  ASSUME Over
  PROVE  pc' = "idle" /\ msgs' \in Seq(Messages) /\ historyLen' \in Nat /\ loaded' \in BOOLEAN
BY EmptySeq DEF Over

(* run_and_index's new messages: the list from _history_len on.             *)
LEMMA NewMsgsProperties ==
  ASSUME ConvInv
  PROVE  /\ NewMsgs \in Seq(Messages)
         /\ historyLen < Len(msgs) =>
              /\ Len(NewMsgs) = Len(msgs) - historyLen /\ NewMsgs # <<>>
              /\ \A i \in 1..Len(NewMsgs) : NewMsgs[i] = msgs[historyLen + i]
<1>1. msgs \in Seq(Messages) /\ historyLen \in Nat /\ Len(msgs) \in Nat
  BY LenProperties DEF ConvInv, TypeOK
<1>2. \A i \in (historyLen + 1)..Len(msgs) : msgs[i] \in Messages
  BY <1>1, ElementOfSeq
<1> DEFINE h == historyLen
           n == Len(msgs)
<1>3. /\ NewMsgs \in Seq(Messages)
      /\ Len(NewMsgs) = IF h + 1 <= n THEN n - (h + 1) + 1 ELSE 0
      /\ \A i \in 1..(n - (h + 1) + 1) : NewMsgs[i] = msgs[(h + 1) + i - 1]
  BY <1>1, <1>2, SubSeqProperties DEF NewMsgs
<1> HIDE DEF n
<1>4. h < n => h + 1 <= n /\ n - (h + 1) + 1 = n - h /\ n - h # 0
              /\ \A i \in 1..(n - h) : (h + 1) + i - 1 = h + i
  BY <1>1 DEF n
<1>5. h < n => Len(NewMsgs) = n - h /\ \A i \in 1..(n - h) : NewMsgs[i] = msgs[h + i]
  BY <1>3, <1>4
<1>6. h < n => NewMsgs # <<>>
  BY <1>4, <1>5, EmptySeq
<1> QED BY <1>3, <1>5, <1>6 DEF n

(* The audit log with more messages: old lines stay, and of the new ones    *)
(* only the first can be lost, to an open line before it.                   *)
LEMMA RawWithProperties ==
  ASSUME ConvInv, active \in Sessions, NEW l \in Seq(Messages)
  PROVE  /\ RawWith(l) \in Seq(SUBSET Ids)
         /\ \A i \in DOMAIN raw[active].lines :
              \E j \in DOMAIN RawWith(l) : RawWith(l)[j] = raw[active].lines[i]
         /\ \A i \in 1..Len(l) : i # 1 \/ ~raw[active].open =>
              \E j \in DOMAIN RawWith(l) : RawWith(l)[j] = l[i].ids
<1> DEFINE old == raw[active].lines
           readable == IF raw[active].open /\ l # <<>> THEN Tail(l) ELSE l
           ids == [i \in DOMAIN readable |-> readable[i].ids]
           d == IF raw[active].open /\ l # <<>> THEN 1 ELSE 0
<1>1. /\ readable \in Seq(Messages) /\ Len(readable) = Len(l) - d
      /\ \A i \in 1..Len(readable) : readable[i] = l[i + d]
  <2>1. CASE raw[active].open /\ l # <<>>
    BY <2>1, HeadTailProperties
  <2>2. CASE ~(raw[active].open /\ l # <<>>)
    BY <2>2, LenProperties
  <2> QED BY <2>1, <2>2
<1>2. Len(l) \in Nat /\ d \in {0, 1} /\ (~raw[active].open => d = 0) /\ l \in Seq(Messages)
  BY LenProperties
<1>3. RawWith(l) = old \o ids
  BY DEF RawWith
<1> HIDE DEF readable, d
<1>4. DOMAIN readable = 1..Len(readable) /\ Len(readable) \in Nat
  BY <1>1, LenProperties
<1>5. ids \in Seq(SUBSET Ids) /\ Len(ids) = Len(readable) /\ \A i \in 1..Len(readable) : ids[i] = readable[i].ids
  <2>1. \A i \in 1..Len(readable) : readable[i].ids \in SUBSET Ids
    <3>1. \A i \in 1..Len(readable) : readable[i] \in Messages
      BY <1>1, ElementOfSeq
    <3> QED BY <3>1 DEF Messages
  <2>2. ids \in [1..Len(readable) -> SUBSET Ids]
    BY <1>4, <2>1
  <2>3. \A i \in 1..Len(readable) : ids[i] = readable[i].ids
    BY <1>4
  <2> HIDE DEF ids
  <2>4. ids \in Seq(SUBSET Ids)
    BY <1>4, <2>2, SeqDef
  <2> QED BY <1>4, <2>2, <2>3, <2>4, LenProperties
<1> HIDE DEF ids
<1>6. old \in Seq(SUBSET Ids)
  BY DEF ConvInv, TypeOK
<1> HIDE DEF old
<1>7. /\ RawWith(l) \in Seq(SUBSET Ids) /\ Len(RawWith(l)) = Len(old) + Len(ids)
      /\ \A i \in 1..(Len(old) + Len(ids)) :
           RawWith(l)[i] = IF i <= Len(old) THEN old[i] ELSE ids[i - Len(old)]
  <2> DEFINE both == old \o ids
  <2>1. /\ both \in Seq(SUBSET Ids) /\ Len(both) = Len(old) + Len(ids)
        /\ \A i \in 1..(Len(old) + Len(ids)) :
             both[i] = IF i <= Len(old) THEN old[i] ELSE ids[i - Len(old)]
    BY <1>5, <1>6, ConcatProperties, Zenon
  <2> HIDE DEF both
  <2>2. RawWith(l) = both
    BY <1>3 DEF both
  <2> QED BY <2>1, <2>2
<1>8. /\ DOMAIN RawWith(l) = 1..(Len(old) + Len(ids)) /\ DOMAIN old = 1..Len(old)
      /\ Len(old) \in Nat /\ Len(ids) \in Nat
  BY <1>5, <1>6, <1>7, LenProperties
<1>9. ASSUME NEW i \in DOMAIN old PROVE \E j \in DOMAIN RawWith(l) : RawWith(l)[j] = old[i]
  <2>1. i \in 1..(Len(old) + Len(ids)) /\ i <= Len(old)
    BY <1>8
  <2> QED BY <1>7, <1>8, <2>1
<1>10. ASSUME NEW i \in 1..Len(l), i # 1 \/ ~raw[active].open
       PROVE  \E j \in DOMAIN RawWith(l) : RawWith(l)[j] = l[i].ids
  <2>1. i - d \in 1..Len(readable) /\ (i - d) + d = i
    BY <1>1, <1>2, <1>4, <1>10
  <2>2. ids[i - d] = l[i].ids
    BY <1>1, <1>5, <2>1
  <2> DEFINE j == Len(old) + (i - d)
  <2>3. j \in 1..(Len(old) + Len(ids)) /\ ~(j <= Len(old)) /\ j - Len(old) = i - d
    BY <1>2, <1>5, <1>8, <2>1
  <2> HIDE DEF j
  <2>4. RawWith(l)[j] = l[i].ids
    BY <1>7, <2>2, <2>3
  <2> QED BY <1>8, <2>3, <2>4
<1> QED BY <1>7, <1>9, <1>10 DEF old

(* A history with more entries, as AppendHistory and a torn write make it.  *)
Entries == (1..MaxTurns) \X {"user", "assistant"}
Histories == [lines : Seq(Entries), tail : {"whole", "open", "torn"}]
HistoryWith(history, entries, tail) ==
  IF history.tail = "open" THEN [lines |-> history.lines, tail |-> "torn"]
  ELSE [lines |-> history.lines \o entries, tail |-> tail]

(* A history with more entries is a history.                               *)
LEMMA HistoryWithTypes ==
  ASSUME NEW history \in Histories, NEW entries \in Seq(Entries),
         NEW tail \in {"whole", "open", "torn"}
  PROVE  HistoryWith(history, entries, tail) \in Histories
<1>1. history.lines \in Seq(Entries)
  BY DEF Histories
<1>2. history.lines \o entries \in Seq(Entries)
  BY <1>1, ConcatProperties
<1> QED BY <1>1, <1>2 DEF HistoryWith, Histories

(* The first n of a list.                                                   *)
LEMMA Prefix ==
  ASSUME NEW S, NEW l \in Seq(S), NEW n \in 0..Len(l)
  PROVE  /\ SubSeq(l, 1, n) \in Seq(S) /\ Len(SubSeq(l, 1, n)) = n
         /\ \A i \in 1..n : SubSeq(l, 1, n)[i] = l[i]
<1>1. Len(l) \in Nat /\ n \in Nat
  BY LenProperties
<1>2. \A i \in 1..n : l[i] \in S
  BY <1>1, ElementOfSeq
<1>3. /\ SubSeq(l, 1, n) \in Seq(S)
      /\ Len(SubSeq(l, 1, n)) = IF 1 <= n THEN n - 1 + 1 ELSE 0
      /\ \A i \in 1..(n - 1 + 1) : SubSeq(l, 1, n)[i] = l[1 + i - 1]
  BY <1>1, <1>2, SubSeqProperties
<1>4. n - 1 + 1 = n /\ (~(1 <= n) => n = 0) /\ \A i \in 1..n : 1 + i - 1 = i
  BY <1>1
<1> QED BY <1>3, <1>4

(* A torn write leaves a history.                                           *)
LEMMA HistoryTornTypes ==
  ASSUME ConvInv, pc = "history", HistoryTorn, jsonl \in [Sessions -> Histories]
  PROVE  jsonl' \in [Sessions -> Histories]
<1>1. active \in Sessions /\ turn \in 1..MaxTurns
  BY Underway DEF InTurn
<1>2. Exchange \in Seq(Entries) /\ Len(Exchange) = 2
  BY <1>1 DEF Exchange, Entries
<1>3. PICK n \in 0..2, tail \in {"whole", "open", "torn"} :
        jsonl' = [jsonl EXCEPT ![active] =
          IF n = 0 /\ tail = "whole" THEN jsonl[active]
          ELSE HistoryWith(jsonl[active], SubSeq(Exchange, 1, n), tail)]
  BY DEF HistoryTorn, HistoryWith
<1>4. SubSeq(Exchange, 1, n) \in Seq(Entries)
  BY <1>2, Prefix
<1>5. jsonl[active] \in Histories /\ HistoryWith(jsonl[active], SubSeq(Exchange, 1, n), tail) \in Histories
  BY <1>1, <1>4, HistoryWithTypes
<1> QED BY <1>1, <1>3, <1>5

(* Every step keeps the types.                                              *)
LEMMA TypeStep ==
  ASSUME ConvInv, [Next]_vars
  PROVE  TypeOK'
<1>1. TypeOK /\ TurnInv
  BY DEF ConvInv
<1> USE ConversationAssumption
<1>2. ASSUME NEW next \in {"meta", "new"}, Create(next), turn' \in 0..MaxTurns PROVE TypeOK'
  <2>1. made + 1 \in 0..MaxSessions /\ made + 1 \in Sessions
    BY <1>1, <1>2 DEF TypeOK, Create, Sessions
  <2> QED BY <1>1, <1>2, <2>1 DEF TypeOK, Create, memory, crew
<1>3. CASE NewSession
  <2>1. turn' \in 0..MaxTurns /\ Create("new")
    BY <1>1, <1>3 DEF NewSession, TypeOK
  <2> QED BY <1>2, <2>1
<1>4. CASE WriteMeta
  BY <1>1, <1>4 DEF TypeOK, WriteMeta, index, memory, crew
<1>5. CASE Receive
  <2>1. turn' \in 0..MaxTurns
    BY <1>1, <1>5 DEF Receive, TypeOK
  <2>2. CASE Create("meta")
    BY <1>2, <2>1, <2>2
  <2>3. CASE pc' = "load" /\ UNCHANGED <<index, jsonl, memory, crew, said, compressed, crashes>>
    BY <1>1, <2>1, <2>3 DEF TypeOK, index, memory, crew
  <2> QED BY <1>5, <2>2, <2>3 DEF Receive
<1>6. CASE LoadHistory
  <2>1. CASE Over /\ UNCHANGED said
    BY <1>1, <1>6, <2>1, OverTypes DEF TypeOK, LoadHistory, index, memory
  <2>2. CASE ~(jsonl[active].tail = "torn")
    <3>1. turn \in 1..MaxTurns
      BY <1>6, Underway DEF LoadHistory, Unsaved
    <3>2. msgs' \in Seq(Messages)
      <4>1. <<System, Message("user", 1)>>  \in Seq(Messages)
        BY <3>1, FirstListOK DEF Message, ListOK
      <4> QED BY <1>6, <2>2, <4>1 DEF LoadHistory
    <3>3. said' \in [1..MaxTurns -> 0..(2 + 2 * MaxTools)]
      <4>1. 1 \in 0..(2 + 2 * MaxTools)
        OBVIOUS
      <4> QED BY <1>1, <1>6, <2>2, <4>1 DEF LoadHistory, TypeOK
    <3> QED BY <1>1, <1>6, <2>2, <3>2, <3>3 DEF TypeOK, LoadHistory, index, memory
  <2> QED BY <1>6, <2>1, <2>2 DEF LoadHistory
<1>7. CASE Hook
  <2>1. msgs' \in Seq(Messages) /\ historyLen' \in Nat
    BY <1>7, HookOK DEF ListOK
  <2>2. compressed' \in SUBSET (1..MaxTurns)
    <3>1. turn \in 1..MaxTurns /\ compressed \in SUBSET (1..MaxTurns)
      BY <1>1, <1>7, Underway DEF Hook, Unsaved, TypeOK
    <3>2. compressed' = compressed \/ compressed' = compressed \union {turn}
      BY <1>7, Zenon DEF Hook
    <3> QED BY <3>1, <3>2
  <2>3. pc' = "model" /\ loaded' = TRUE /\ UNCHANGED <<index, jsonl, memory, turn, said, crashes>>
    BY <1>7, Zenon DEF Hook
  <2>4. /\ active' = active /\ made' = made /\ count' = count /\ jsonl' = jsonl /\ ctx' = ctx
        /\ torn' = torn /\ raw' = raw /\ turn' = turn /\ said' = said /\ crashes' = crashes
    BY <2>3 DEF index, memory
  <2> QED BY <1>1, <2>1, <2>2, <2>3, <2>4 DEF TypeOK
<1>8. CASE HookRaises
  BY <1>1, <1>8, OverTypes DEF TypeOK, HookRaises, index, memory, crew
<1>9. CASE CallTool
  <2> DEFINE c == Message("call", said[turn] + 1)
             t == Message("tool", said[turn] + 2)
  <2>1. pc = "model" /\ said[turn] < 1 + 2 * MaxTools
    BY <1>9 DEF CallTool
  <2>2. said[turn] \in Nat /\ said[turn] + 2 \in 1..(2 + 2 * MaxTools) /\ said[turn] + 1 \in 1..(2 + 2 * MaxTools)
    <3>1. "call" \in TalkRoles
      BY DEF TalkRoles
    <3>2. said[turn] \in Nat /\ said[turn] + 2 <= 2 + 2 * MaxTools
      BY <2>1, <3>1, NextMessages
    <3> QED BY <3>2
  <2>3. c \in Messages /\ t \in Messages
    BY <2>1, <2>2, NextMessages DEF TalkRoles
  <2> HIDE DEF c, t
  <2>4. msgs' \in Seq(Messages)
    <3>1. msgs' = msgs \o <<c, t>> /\ msgs \in Seq(Messages) /\ <<c, t>> \in Seq(Messages)
      BY <1>1, <1>9, <2>3 DEF CallTool, c, t, TypeOK
    <3> QED BY <3>1, ConcatProperties
  <2>5. said' \in [1..MaxTurns -> 0..(2 + 2 * MaxTools)]
    <3>1. said' = [said EXCEPT ![turn] = said[turn] + 2] /\ said[turn] + 2 \in 0..(2 + 2 * MaxTools)
      BY <1>9, <2>2 DEF CallTool
    <3> QED BY <1>1, <3>1 DEF TypeOK
  <2> QED BY <1>1, <1>9, <2>4, <2>5 DEF TypeOK, CallTool, index, memory
<1>10. CASE Answer
  <2> DEFINE a == Message("answer", said[turn] + 1)
  <2>1. pc = "model"
    BY <1>10 DEF Answer
  <2>2. said[turn] \in Nat /\ said[turn] + 1 \in 1..(2 + 2 * MaxTools) /\ a \in Messages
    <3>1. "answer" \in TalkRoles
      BY DEF TalkRoles
    <3>2. said[turn] \in Nat /\ said[turn] + 1 <= 2 + 2 * MaxTools
      BY <2>1, <3>1, NextMessages
    <3>3. said[turn] + 1 \in 1..(2 + 2 * MaxTools)
      BY <3>2
    <3> QED BY <2>1, <3>1, <3>2, <3>3, NextMessages
  <2> HIDE DEF a
  <2>3. msgs' \in Seq(Messages)
    <3>1. msgs' = Append(msgs, a)
      BY <1>10 DEF Answer, a
    <3> QED BY <1>1, <2>2, <3>1, AppendProperties DEF TypeOK
  <2>4. said' \in [1..MaxTurns -> 0..(2 + 2 * MaxTools)]
    <3>1. said' = [said EXCEPT ![turn] = said[turn] + 1] /\ said[turn] + 1 \in 0..(2 + 2 * MaxTools)
      BY <1>10, <2>2 DEF Answer
    <3> QED BY <1>1, <3>1 DEF TypeOK
  <2>5. pc' \in {"raw", "history"}
    BY <1>10 DEF Answer
  <2>6. /\ active' = active /\ made' = made /\ count' = count /\ jsonl' = jsonl /\ ctx' = ctx
        /\ torn' = torn /\ raw' = raw /\ turn' = turn /\ historyLen' = historyLen
        /\ loaded' = loaded /\ compressed' = compressed /\ crashes' = crashes
    BY <1>10 DEF Answer, index, memory
  <2> QED BY <1>1, <2>3, <2>4, <2>5, <2>6 DEF TypeOK
<1>11. CASE ModelFails
  BY <1>1, <1>11, OverTypes DEF TypeOK, ModelFails, index, memory
<1>12. CASE AppendRaw
  <2> DEFINE e == [lines |-> RawWith(NewMsgs), open |-> raw[active].open /\ NewMsgs = <<>>]
  <2>1. active \in Sessions /\ NewMsgs \in Seq(Messages) /\ RawWith(NewMsgs) \in Seq(SUBSET Ids)
    BY <1>12, Underway, NewMsgsProperties, RawWithProperties DEF AppendRaw
  <2>2. raw' = [raw EXCEPT ![active] = e]
    BY <1>12 DEF AppendRaw
  <2>3. e \in [lines : Seq(SUBSET Ids), open : BOOLEAN]
    BY <2>1
  <2> HIDE DEF e
  <2>4. raw' \in [Sessions -> [lines : Seq(SUBSET Ids), open : BOOLEAN]]
    BY <1>1, <2>2, <2>3 DEF TypeOK
  <2> QED BY <1>1, <1>12, <2>4 DEF TypeOK, AppendRaw, index, crew
<1>13. CASE AppendHistory
  <2>1. jsonl' \in [Sessions -> Histories]
    <3>1. jsonl' = [jsonl EXCEPT ![active] = HistoryWith(jsonl[active], Exchange, "whole")]
      BY <1>13 DEF AppendHistory, HistoryWith
    <3>2. HistoryWith(jsonl[active], Exchange, "whole") \in Histories
      <4>1. active \in Sessions /\ turn \in 1..MaxTurns
        BY <1>13, Underway DEF AppendHistory, InTurn
      <4>2. jsonl[active] \in Histories /\ Exchange \in Seq(Entries)
        BY <1>1, <4>1 DEF TypeOK, Histories, Entries, Exchange
      <4> QED BY <4>2, HistoryWithTypes
    <3> QED BY <1>1, <3>1, <3>2 DEF TypeOK, Histories, Entries
  <2> QED BY <1>1, <1>13, <2>1 DEF TypeOK, AppendHistory, index, memory, crew, Histories, Entries
<1>14. CASE TruncateCtx
  <2>1. active \in Sessions
    BY <1>14, Underway DEF TruncateCtx
  <2> QED BY <1>1, <1>14, <2>1 DEF TypeOK, TruncateCtx, index, crew
<1>15. CASE FillCtx
  <2>1. ctx' \in [Sessions -> Seq(Messages)] /\ torn' \in SUBSET Sessions
    BY <1>1, <1>15 DEF TypeOK, FillCtx, Snapshot
  <2> QED BY <1>1, <1>15, <2>1 DEF TypeOK, FillCtx, index, crew
<1>16. CASE UpdateCount
  <2>1. count' \in [Sessions -> Nat]
    <3>1. active \in Sessions /\ count \in [Sessions -> Nat]
      BY <1>1, <1>16, Underway DEF UpdateCount, TypeOK
    <3>2. count' = [count EXCEPT ![active] = count[active] + 2]
      BY <1>16 DEF UpdateCount
    <3> QED BY <3>1, <3>2
  <2> QED BY <1>1, <1>16, <2>1, OverTypes DEF TypeOK, UpdateCount, memory
<1>17. CASE Crash
  <2>1. /\ crashes < MaxCrashes /\ crashes' = crashes + 1 /\ Over
        /\ UNCHANGED <<index, ctx, torn, turn, said, compressed>>
    BY <1>17, Zenon DEF Crash
  <2>2. crashes' \in 0..MaxCrashes
    BY <1>1, <2>1 DEF TypeOK
  <2>3. jsonl \in [Sessions -> Histories] /\ pc' = "idle"
    BY <1>1, <2>1 DEF TypeOK, Histories, Entries, Over
  <2>4. \/ jsonl' \in [Sessions -> Histories] /\ raw' = raw
        \/ raw' \in [Sessions -> [lines : Seq(SUBSET Ids), open : BOOLEAN]] /\ jsonl' = jsonl
    <3>1. CASE MetaTorn /\ UNCHANGED raw
      <4>1. PICK tail \in {"whole", "open", "torn"} : jsonl' = [jsonl EXCEPT ![active].tail = tail]
        BY <3>1 DEF MetaTorn
      <4> QED BY <2>3, <3>1, <4>1 DEF Histories
    <3>2. CASE pc = "history" /\ HistoryTorn /\ UNCHANGED raw
      BY <2>3, <3>2, HistoryTornTypes
    <3>3. CASE pc = "raw" /\ RawTorn /\ UNCHANGED jsonl
      <4>1. PICK n \in 0..Len(NewMsgs), open \in BOOLEAN :
              raw' = [raw EXCEPT ![active] =
                [lines |-> RawWith(SubSeq(NewMsgs, 1, n)),
                 open |-> IF n = 0 THEN raw[active].open \/ (open /\ NewMsgs # <<>>)
                          ELSE open /\ n < Len(NewMsgs)]]
        BY <3>3 DEF RawTorn
      <4>2. SubSeq(NewMsgs, 1, n) \in Seq(Messages) /\ active \in Sessions
        BY <3>3, Prefix, NewMsgsProperties, Underway
      <4>3. RawWith(SubSeq(NewMsgs, 1, n)) \in Seq(SUBSET Ids)
        BY <4>2, RawWithProperties
      <4>4. raw[active].open \in BOOLEAN
        BY <1>1, <4>2 DEF TypeOK
      <4>5. (IF n = 0 THEN raw[active].open \/ (open /\ NewMsgs # <<>>)
             ELSE open /\ n < Len(NewMsgs)) \in BOOLEAN
        BY <4>4
      <4> QED BY <1>1, <3>3, <4>1, <4>3, <4>5 DEF TypeOK
    <3>4. CASE UNCHANGED <<jsonl, raw>>
      BY <2>3, <3>4
    <3> QED BY <1>17, <3>1, <3>2, <3>3, <3>4, Zenon DEF Crash
  <2>5. /\ active' = active /\ made' = made /\ count' = count /\ ctx' = ctx /\ torn' = torn
        /\ turn' = turn /\ said' = said /\ compressed' = compressed
    BY <2>1 DEF index
  <2>6. raw' \in [Sessions -> [lines : Seq(SUBSET Ids), open : BOOLEAN]]
    BY <1>1, <2>4 DEF TypeOK
  <2>7. jsonl' \in [Sessions -> Histories]
    BY <2>3, <2>4
  <2> QED BY <1>1, <2>1, <2>2, <2>3, <2>5, <2>6, <2>7, OverTypes DEF TypeOK, Histories, Entries
<1>18. CASE UNCHANGED vars
  BY <1>1, <1>18 DEF TypeOK, vars, index, crew, memory
<1> QED BY <1>3, <1>4, <1>5, <1>6, <1>7, <1>8, <1>9, <1>10, <1>11, <1>12, <1>13, <1>14, <1>15,
           <1>16, <1>17, <1>18 DEF Next, Save

(* What the list covers comes before what the turn says next.               *)
LEMMA SaidBefore ==
  ASSUME ConvInv, pc = "model", NEW n \in Nat, n > said[turn], NEW jd \in Covered(msgs)
  PROVE  Before(jd, <<turn, n>>)
<1>1. turn \in 1..MaxTurns /\ turn \in Nat /\ said[turn] \in Nat /\ active \in Sessions
  BY Underway DEF Unsaved
<1>2. jd \in Covered(ctx[active]) \/ jd \in IdsOf(turn)
  BY DEF ConvInv, TurnInv, InTurn, Unsaved
<1>3. CASE jd \in Covered(ctx[active])
  <2>1. jd[1] < turn
    BY <1>1, <1>3 DEF ConvInv, SavedBefore, Unsaved
  <2> QED BY <2>1 DEF Before
<1>4. CASE jd \in IdsOf(turn)
  <2>1. jd[1] = turn /\ jd[2] \in 1..said[turn]
    BY <1>4 DEF IdsOf
  <2> QED BY <1>1, <2>1 DEF Before
<1> QED BY <1>2, <1>3, <1>4

(* The list with a call and its result.                                     *)
LEMMA CallToolOK ==
  ASSUME ConvInv, CallTool
  PROVE  /\ ListOK(msgs') /\ msgs' # <<>>
         /\ Covered(msgs') = Covered(msgs) \union {<<turn, said[turn] + 1>>, <<turn, said[turn] + 2>>}
         /\ Len(msgs') = Len(msgs) + 2
         /\ \A i \in 1..Len(msgs) : msgs'[i] = msgs[i]
<1> DEFINE n == said[turn]
           c == Message("call", n + 1)
           t == Message("tool", n + 2)
           mid == Append(msgs, c)
<1>1. pc = "model" /\ n < 1 + 2 * MaxTools /\ msgs' = msgs \o <<c, t>>
  BY DEF CallTool
<1>2. n \in Nat /\ n + 1 \in 1..(2 + 2 * MaxTools) /\ n + 2 \in 1..(2 + 2 * MaxTools)
  <2>1. n \in Nat /\ n + 2 <= 2 + 2 * MaxTools
    BY <1>1, NextMessages DEF TalkRoles
  <2> QED BY <2>1, ConversationAssumption
<1>3. /\ <<turn, n + 1>> \in Ids /\ c \in Messages /\ c.role = "call" /\ c.ids = {<<turn, n + 1>>} /\ ~c.pruned
      /\ <<turn, n + 2>> \in Ids /\ t \in Messages /\ t.role = "tool" /\ t.ids = {<<turn, n + 2>>} /\ ~t.pruned
  <2>1. "call" \in TalkRoles /\ "tool" \in TalkRoles
    BY DEF TalkRoles
  <2> QED BY <1>1, <1>2, <2>1, NextMessages
<1>4. ListOK(msgs) /\ msgs # <<>> /\ msgs \in Seq(Messages) /\ Len(msgs) \in Nat
  BY <1>1, LenProperties DEF ConvInv, Lists, TurnInv, InTurn, ListOK
<1>5. \A jd \in Covered(msgs) : Before(jd, <<turn, n + 1>>) /\ Before(jd, <<turn, n + 2>>)
  BY <1>1, <1>2, SaidBefore
<1> HIDE DEF c, t
<1>6. /\ mid \in Seq(Messages) /\ Len(mid) = Len(msgs) + 1 /\ mid[Len(mid)] = c
      /\ \A i \in 1..Len(msgs) : mid[i] = msgs[i]
  BY <1>3, <1>4, AppendProperties
<1>7. ListOK(mid) /\ Covered(mid) = Covered(msgs) \union {<<turn, n + 1>>} /\ mid # <<>>
  <2>1. c.role \in TalkRoles /\ c.role # "user" /\ c.role # "tool"
    BY <1>3 DEF TalkRoles
  <2>2. ListOK(mid) /\ Covered(mid) = Covered(msgs) \union {<<turn, n + 1>>}
    <3> DEFINE id == <<turn, n + 1>>
    <3>1. /\ id \in Ids /\ c \in Messages /\ c.ids = {id} /\ ~c.pruned
          /\ \A jd \in Covered(msgs) : Before(jd, id)
      BY <1>3, <1>5
    <3> HIDE DEF id
    <3>2. ListOK(Append(msgs, c)) /\ Covered(Append(msgs, c)) = Covered(msgs) \union {id}
      BY <1>4, <2>1, <3>1, AppendOK
    <3> QED BY <3>2 DEF id
  <2>3. mid # <<>>
    BY <1>4, <1>6, EmptySeq
  <2> QED BY <2>2, <2>3
<1>8. msgs' = Append(mid, t)
  BY <1>1, <1>3, <1>4, TwoAppends
<1> HIDE DEF mid
<1>9. \A jd \in Covered(mid) : Before(jd, <<turn, n + 2>>)
  <2>1. Before(<<turn, n + 1>>, <<turn, n + 2>>)
    BY <1>2 DEF Before
  <2> QED BY <1>5, <1>7, <2>1
<1>10. ListOK(msgs') /\ Covered(msgs') = Covered(mid) \union {<<turn, n + 2>>}
  <2>1. t.role \in TalkRoles /\ t.role # "user" /\ mid[Len(mid)].role = "call"
    BY <1>3, <1>6 DEF TalkRoles
  <2>2. \A a \in mid[Len(mid)].ids : <<turn, n + 2>> = <<a[1], a[2] + 1>>
    <3>1. SUFFICES <<turn, n + 2>> = <<turn, (n + 1) + 1>>
      BY <1>3, <1>6
    <3> QED BY <1>2
  <2> QED BY <1>3, <1>7, <1>8, <1>9, <2>1, <2>2, AppendOK
<1>11. Len(msgs') = Len(mid) + 1 /\ \A i \in 1..Len(mid) : msgs'[i] = mid[i]
  BY <1>3, <1>6, <1>8, AppendProperties
<1>12. Len(msgs') = Len(msgs) + 2 /\ \A i \in 1..Len(msgs) : msgs'[i] = msgs[i]
  BY <1>4, <1>6, <1>11
<1>13. msgs' # <<>>
  BY <1>4, <1>12, EmptySeq
<1> QED BY <1>7, <1>10, <1>12, <1>13

(* The list with the answer.                                                *)
LEMMA AnswerOK ==
  ASSUME ConvInv, Answer
  PROVE  /\ ListOK(msgs') /\ msgs' # <<>>
         /\ Covered(msgs') = Covered(msgs) \union {<<turn, said[turn] + 1>>}
         /\ Len(msgs') = Len(msgs) + 1
         /\ \A i \in 1..Len(msgs) : msgs'[i] = msgs[i]
<1> DEFINE n == said[turn]
           a == Message("answer", n + 1)
<1>1. pc = "model" /\ msgs' = Append(msgs, a)
  BY DEF Answer
<1>2. n \in Nat /\ n + 1 \in 1..(2 + 2 * MaxTools)
  <2>1. n \in Nat /\ n + 1 <= 2 + 2 * MaxTools
    BY <1>1, NextMessages DEF TalkRoles
  <2> QED BY <2>1
<1>3. <<turn, n + 1>> \in Ids /\ a \in Messages /\ a.role = "answer" /\ a.ids = {<<turn, n + 1>>} /\ ~a.pruned
  <2>1. "answer" \in TalkRoles
    BY DEF TalkRoles
  <2> QED BY <1>1, <1>2, <2>1, NextMessages
<1>4. ListOK(msgs) /\ msgs # <<>> /\ msgs \in Seq(Messages) /\ Len(msgs) \in Nat
  BY <1>1, LenProperties DEF ConvInv, Lists, TurnInv, InTurn, ListOK
<1>5. \A jd \in Covered(msgs) : Before(jd, <<turn, n + 1>>)
  BY <1>1, <1>2, SaidBefore
<1> HIDE DEF a
<1>6. Len(msgs') = Len(msgs) + 1 /\ \A i \in 1..Len(msgs) : msgs'[i] = msgs[i]
  BY <1>1, <1>3, <1>4, AppendProperties
<1>7. a.role \in TalkRoles /\ a.role # "user" /\ a.role # "tool"
  BY <1>3 DEF TalkRoles
<1>8. ListOK(msgs') /\ Covered(msgs') = Covered(msgs) \union {<<turn, n + 1>>}
  BY <1>1, <1>3, <1>4, <1>5, <1>7, AppendOK
<1>9. msgs' # <<>>
  BY <1>4, <1>6, EmptySeq
<1> QED BY <1>6, <1>8, <1>9

(* An empty list, and the first list of a turn.                             *)
LEMMA EmptyListOK ==
  ListOK(<<>>) /\ Covered(<<>>) = {}
<1>1. DOMAIN <<>> = {} /\ <<>> \in Seq(Messages)
  BY EmptySeq, LenProperties
<1> DEFINE e == <<>>
<1>2. DOMAIN e = {} /\ e \in Seq(Messages) /\ e = <<>>
  BY <1>1
<1> HIDE DEF e
<1>3. Headed(e) /\ Layered(e) /\ OneIdEach(e) /\ Ordered(e) /\ Paired(e) /\ Old(e) /\ Covered(e) = {}
  BY <1>2 DEF Headed, Layered, OneIdEach, Ordered, Paired, Old, Covered
<1> QED BY <1>2, <1>3 DEF ListOK

(* The list that load_history's turn begins with is a good one.             *)
LEMMA LoadOK ==
  ASSUME ConvInv, LoadHistory, ~Over
  PROVE  /\ msgs' = <<System, Message("user", 1)>> /\ ListOK(msgs') /\ Covered(msgs') = {<<turn, 1>>}
         /\ msgs' # <<>>
         /\ said' = [said EXCEPT ![turn] = 1] /\ pc' = "hook"
         /\ historyLen' = historyLen /\ loaded' = loaded
<1>1. turn \in 1..MaxTurns
  BY Underway DEF LoadHistory, Unsaved
<1>2. /\ msgs' = <<System, Message("user", 1)>>
      /\ said' = [said EXCEPT ![turn] = 1] /\ pc' = "hook"
      /\ historyLen' = historyLen /\ loaded' = loaded
  BY DEF LoadHistory
<1>3. ListOK(<<System, Message("user", 1)>>) /\ Covered(<<System, Message("user", 1)>>) = {<<turn, 1>>}
  BY <1>1, FirstListOK DEF Message
<1> QED BY <1>2, <1>3

(* What a step changes of the snapshots and of the list.                    *)
LEMMA ListSteps ==
  ASSUME [Next]_vars
  PROVE  /\ ctx' = ctx \/ FillCtx
         /\ \/ msgs' = msgs /\ historyLen' = historyLen /\ loaded' = loaded
            \/ Over
            \/ LoadHistory \/ Hook \/ CallTool \/ Answer
<1>1. ASSUME NEW next, Create(next) PROVE ctx' = ctx /\ msgs' = msgs /\ historyLen' = historyLen /\ loaded' = loaded
  BY <1>1 DEF Create, memory, crew
<1>2. CASE NewSession
  BY <1>1, <1>2 DEF NewSession
<1>3. CASE WriteMeta
  BY <1>3 DEF WriteMeta, memory, crew
<1>4. CASE Receive
  <2>1. Create("meta") \/ UNCHANGED <<memory, crew>>
    BY <1>4 DEF Receive
  <2> QED BY <1>1, <2>1 DEF memory, crew
<1>5. CASE LoadHistory
  BY <1>5 DEF LoadHistory, memory
<1>6. CASE Hook
  <2>1. UNCHANGED memory
    BY <1>6, Zenon DEF Hook
  <2> QED BY <1>6, <2>1 DEF memory
<1>7. CASE HookRaises
  BY <1>7 DEF HookRaises, memory, crew
<1>8. CASE CallTool
  <2>1. UNCHANGED memory
    BY <1>8, Zenon DEF CallTool
  <2> QED BY <1>8, <2>1 DEF memory
<1>9. CASE Answer
  <2>1. UNCHANGED memory
    BY <1>9, Zenon DEF Answer
  <2> QED BY <1>9, <2>1 DEF memory
<1>10. CASE ModelFails
  BY <1>10 DEF ModelFails, memory
<1>11. CASE Save
  <2>1. CASE AppendRaw
    BY <2>1 DEF AppendRaw, crew
  <2>2. CASE TruncateCtx
    BY <2>2 DEF TruncateCtx, crew
  <2>3. CASE FillCtx
    BY <2>3 DEF FillCtx, crew
  <2>4. CASE AppendHistory
    BY <2>4 DEF AppendHistory, crew, memory
  <2>5. CASE UpdateCount
    BY <2>5 DEF UpdateCount, memory
  <2> QED BY <1>11, <2>1, <2>2, <2>3, <2>4, <2>5 DEF Save
<1>12. CASE Crash
  <2>1. Over /\ ctx' = ctx
    BY <1>12, Zenon DEF Crash
  <2> QED BY <2>1
<1>13. CASE UNCHANGED vars
  BY <1>13 DEF vars, memory, crew
<1> QED BY <1>2, <1>3, <1>4, <1>5, <1>6, <1>7, <1>8, <1>9, <1>10, <1>11, <1>12, <1>13 DEF Next

(* Every list stays a good one: those of the hook, of a tool call and of an *)
(* answer are, and a snapshot is one of these.                              *)
LEMMA ListsStep ==
  ASSUME ConvInv, [Next]_vars
  PROVE  (\A list \in Lists : ListOK(list))'
<1>1. ListOK(msgs) /\ \A s \in Sessions : ListOK(ctx[s])
  BY DEF ConvInv, Lists
<1>2. ListOK(msgs')
  <2>1. CASE Over
    <3>1. msgs' = <<>>
      BY <2>1 DEF Over
    <3> QED BY <3>1, EmptyListOK
  <2>2. CASE LoadHistory /\ ~Over
    BY <2>2, LoadOK
  <2> QED BY <1>1, <2>1, <2>2, ListSteps, HookOK, CallToolOK, AnswerOK
<1>3. ASSUME NEW s \in Sessions PROVE ListOK(ctx'[s])
  <2>1. CASE FillCtx
    <3>1. ctx' = [ctx EXCEPT ![active] = msgs] /\ ctx \in [Sessions -> Seq(Messages)]
      BY <2>1 DEF FillCtx, Snapshot, ConvInv, TypeOK
    <3>2. ctx'[s] = msgs \/ ctx'[s] = ctx[s]
      BY <3>1
    <3> QED BY <1>1, <3>2
  <2> QED BY <1>1, <2>1, ListSteps
<1> QED BY <1>2, <1>3 DEF Lists

(* The worker's place and its turn: what is unsaved stays so, or a new turn *)
(* begins.                                                                  *)
LEMMA TurnSteps ==
  ASSUME ConvInv, [Next]_vars
  PROVE  /\ turn' >= turn
         /\ pc' \in Unsaved => turn' > turn \/ (turn' = turn /\ pc \in Unsaved)
         /\ pc' = "history" => turn' = turn /\ pc \in Unsaved \union {"history"}
         /\ turn' # turn => pc = "idle" /\ turn' = turn + 1
         /\ said' = said \/ (pc \in Unsaved /\ turn' = turn /\ \A t \in 1..MaxTurns : t # turn => said'[t] = said[t])
         /\ pc' = "fill" => active' = active /\ pc \in {"truncate", "fill"} /\ msgs' = msgs /\ said' = said
         /\ pc' # "idle" /\ pc # "idle" => active' = active
<1>1. turn \in Nat
  BY Underway
<1> USE DEF Unsaved
<1>2. ASSUME NEW next, Create(next)
      PROVE  pc' = next /\ said' = said
  BY <1>2 DEF Create
<1>3. CASE NewSession
  BY <1>1, <1>2, <1>3 DEF NewSession
<1>4. CASE WriteMeta
  BY <1>1, <1>4 DEF WriteMeta, index
<1>5. CASE Receive
  <2>1. turn' = turn + 1 /\ pc = "idle" /\ (Create("meta") \/ (pc' = "load" /\ said' = said))
    BY <1>5 DEF Receive
  <2> QED BY <1>1, <1>2, <2>1
<1>6. CASE LoadHistory
  <2>1. said \in [1..MaxTurns -> 0..(2 + 2 * MaxTools)]
    BY DEF ConvInv, TypeOK
  <2>2. pc = "load" /\ turn' = turn /\ active' = active /\ pc' \in {"idle", "hook"}
        /\ (said' = said \/ said' = [said EXCEPT ![turn] = 1])
    BY <1>6 DEF LoadHistory, Over, index
  <2>3. \A t \in 1..MaxTurns : t # turn => said'[t] = said[t]
    BY <2>1, <2>2
  <2> QED BY <1>1, <2>2, <2>3
<1>7. CASE Hook
  <2>1. pc = "hook" /\ pc' = "model" /\ turn' = turn /\ said' = said /\ UNCHANGED index
    BY <1>7, Zenon DEF Hook
  <2> QED BY <1>1, <2>1 DEF index
<1>8. CASE HookRaises
  BY <1>1, <1>8 DEF HookRaises, Over, index
<1>9. CASE CallTool
  <2>1. said \in [1..MaxTurns -> 0..(2 + 2 * MaxTools)]
    BY DEF ConvInv, TypeOK
  <2> QED BY <1>1, <1>9, <2>1 DEF CallTool, index
<1>10. CASE Answer
  <2>1. said \in [1..MaxTurns -> 0..(2 + 2 * MaxTools)]
    BY DEF ConvInv, TypeOK
  <2> QED BY <1>1, <1>10, <2>1 DEF Answer, index
<1>11. CASE ModelFails
  BY <1>1, <1>11 DEF ModelFails, Over, index
<1>12. CASE Save
  BY <1>1, <1>12 DEF Save, AppendRaw, TruncateCtx, FillCtx, AppendHistory, UpdateCount, Over, index, crew
<1>13. CASE Crash
  <2>1. Over /\ turn' = turn /\ said' = said
    BY <1>13, Zenon DEF Crash
  <2> QED BY <1>1, <2>1 DEF Over
<1>14. CASE UNCHANGED vars
  BY <1>1, <1>14 DEF vars, index, crew
<1> QED BY <1>3, <1>4, <1>5, <1>6, <1>7, <1>8, <1>9, <1>10, <1>11, <1>12, <1>13, <1>14 DEF Next

(* The entries of a history that gains some.                                *)
LEMMA EntriesOf ==
  ASSUME NEW history \in Histories, NEW n \in 0..2, NEW tail \in {"whole", "open", "torn"},
         turn \in 1..MaxTurns,
         NEW i \in DOMAIN HistoryWith(history, SubSeq(Exchange, 1, n), tail).lines
  PROVE  LET entry == HistoryWith(history, SubSeq(Exchange, 1, n), tail).lines[i]
         IN  entry[1] = turn \/ \E k \in DOMAIN history.lines : entry = history.lines[k]
<1> DEFINE new == SubSeq(Exchange, 1, n)
           old == history.lines
           both == old \o new
<1>1. Exchange \in Seq(Entries) /\ Len(Exchange) = 2 /\ \A k \in 1..2 : Exchange[k][1] = turn
  <2>1. Exchange \in Seq(Entries) /\ Len(Exchange) = 2
    BY DEF Exchange, Entries
  <2>2. Exchange[1][1] = turn /\ Exchange[2][1] = turn
    BY DEF Exchange
  <2> QED BY <2>1, <2>2
<1>2. new \in Seq(Entries) /\ Len(new) = n /\ \A k \in 1..n : new[k][1] = turn
  <2>1. new \in Seq(Entries) /\ Len(new) = n /\ \A k \in 1..n : new[k] = Exchange[k]
    <3> DEFINE l == Exchange
    <3>1. l \in Seq(Entries) /\ n \in 0..Len(l)
      BY <1>1
    <3> HIDE DEF l
    <3>2. SubSeq(l, 1, n) \in Seq(Entries) /\ Len(SubSeq(l, 1, n)) = n /\ \A k \in 1..n : SubSeq(l, 1, n)[k] = l[k]
      BY <3>1, Prefix
    <3> QED BY <3>2 DEF l
  <2> QED BY <1>1, <2>1
<1>3. old \in Seq(Entries) /\ Len(old) \in Nat /\ DOMAIN old = 1..Len(old)
  BY LenProperties DEF Histories
<1> HIDE DEF new, old
<1>4. /\ both \in Seq(Entries) /\ Len(both) = Len(old) + n
      /\ \A k \in 1..(Len(old) + n) : both[k] = IF k <= Len(old) THEN old[k] ELSE new[k - Len(old)]
  <2>1. Len(both) = Len(old) + Len(new) /\ both \in Seq(Entries)
        /\ \A k \in 1..(Len(old) + Len(new)) : both[k] = IF k <= Len(old) THEN old[k] ELSE new[k - Len(old)]
    BY <1>2, <1>3, ConcatProperties, Zenon
  <2> QED BY <1>2, <2>1
<1>5. DOMAIN both = 1..(Len(old) + n)
  BY <1>4, LenProperties
<1> HIDE DEF both
<1>6. CASE history.tail = "open"
  BY <1>6 DEF HistoryWith, old
<1>7. CASE history.tail # "open"
  <2>1. HistoryWith(history, SubSeq(Exchange, 1, n), tail).lines = both
    BY <1>7 DEF HistoryWith, old, new, both
  <2>2. i \in 1..(Len(old) + n)
    BY <1>5, <2>1
  <2>3. CASE i <= Len(old)
    <3>1. i \in 1..Len(old) /\ both[i] = old[i]
      BY <1>3, <1>4, <2>2, <2>3
    <3> QED BY <1>3, <2>1, <3>1 DEF old
  <2>4. CASE ~(i <= Len(old))
    <3>1. i - Len(old) \in 1..n /\ both[i] = new[i - Len(old)]
      BY <1>3, <1>4, <2>2, <2>4
    <3> QED BY <1>2, <2>1, <3>1
  <2> QED BY <2>3, <2>4
<1> QED BY <1>6, <1>7

(* What a step adds to a history belongs to the turn that is being saved.   *)
LEMMA HistorySteps ==
  ASSUME ConvInv, [Next]_vars, NEW s \in Sessions, NEW i \in DOMAIN jsonl'[s].lines
  PROVE  \/ \E k \in DOMAIN jsonl[s].lines : jsonl'[s].lines[i] = jsonl[s].lines[k]
         \/ /\ s = active /\ pc = "history" /\ pc' \in {"count", "idle"} /\ turn' = turn
            /\ jsonl'[s].lines[i][1] = turn
            /\ ctx' = ctx /\ torn' = torn /\ said' = said
<1>1. jsonl \in [Sessions -> Histories]
  BY DEF ConvInv, TypeOK, Histories, Entries
<1>2. pc = "history" => active \in Sessions /\ turn \in 1..MaxTurns
  BY Underway DEF InTurn
<1>3. CASE jsonl' = jsonl
  BY <1>3
<1>4. CASE AppendHistory
  <2>1. jsonl' = [jsonl EXCEPT ![active] = HistoryWith(jsonl[active], Exchange, "whole")]
    BY <1>4 DEF AppendHistory, HistoryWith
  <2>2. Exchange = SubSeq(Exchange, 1, 2)
    BY DEF Exchange
  <2>3. pc = "history" /\ pc' = "count" /\ turn' = turn /\ ctx' = ctx /\ torn' = torn /\ said' = said
    BY <1>4 DEF AppendHistory, memory
  <2>4. CASE s = active
    <3>1. jsonl'[s] = HistoryWith(jsonl[s], SubSeq(Exchange, 1, 2), "whole")
      BY <1>1, <2>1, <2>2, <2>4
    <3> QED BY <1>1, <1>2, <2>3, <2>4, <3>1, EntriesOf
  <2>5. CASE s # active
    <3>1. jsonl'[s] = jsonl[s]
      BY <1>1, <2>1, <2>5
    <3> QED BY <3>1
  <2> QED BY <2>4, <2>5
<1>5. CASE pc = "history" /\ HistoryTorn /\ Crash
  <2>1. PICK n \in 0..2, tail \in {"whole", "open", "torn"} :
          jsonl' = [jsonl EXCEPT ![active] =
            IF n = 0 /\ tail = "whole" THEN jsonl[active]
            ELSE HistoryWith(jsonl[active], SubSeq(Exchange, 1, n), tail)]
    BY <1>5 DEF HistoryTorn, HistoryWith
  <2>2. pc' = "idle" /\ turn' = turn /\ ctx' = ctx /\ torn' = torn /\ said' = said
    <3>1. Over /\ turn' = turn /\ ctx' = ctx /\ torn' = torn /\ said' = said
      BY <1>5, Zenon DEF Crash
    <3> QED BY <3>1 DEF Over
  <2>3. jsonl'[s] = jsonl[s] \/
        (s = active /\ jsonl'[s] = HistoryWith(jsonl[s], SubSeq(Exchange, 1, n), tail))
    BY <1>1, <2>1
  <2> QED BY <1>1, <1>2, <1>5, <2>2, <2>3, EntriesOf
<1>6. CASE MetaTorn
  <2>1. jsonl'[s].lines = jsonl[s].lines
    BY <1>1, <1>6 DEF MetaTorn, Histories
  <2> QED BY <2>1
<1>7. jsonl' = jsonl \/ AppendHistory \/ (pc = "history" /\ HistoryTorn /\ Crash) \/ MetaTorn
  <2>1. CASE Crash
    <3>1. \/ pc \in {"meta", "new"} /\ MetaTorn
          \/ pc = "history" /\ HistoryTorn
          \/ pc = "raw" /\ jsonl' = jsonl
          \/ jsonl' = jsonl
      BY <2>1, Zenon DEF Crash
    <3> QED BY <2>1, <3>1
  <2>2. CASE NewSession \/ WriteMeta \/ Receive
    BY <2>2 DEF NewSession, WriteMeta, Receive, Create
  <2>3. CASE LoadHistory \/ Hook \/ HookRaises
    <3>1. jsonl' = jsonl
      BY <2>3, Zenon DEF LoadHistory, Hook, HookRaises
    <3> QED BY <3>1
  <2>4. CASE CallTool \/ Answer \/ ModelFails
    <3>1. jsonl' = jsonl
      BY <2>4, Zenon DEF CallTool, Answer, ModelFails
    <3> QED BY <3>1
  <2>5. CASE Save
    BY <2>5 DEF Save, AppendRaw, TruncateCtx, FillCtx, UpdateCount
  <2>6. CASE UNCHANGED vars
    BY <2>6 DEF vars
  <2> QED BY <2>1, <2>2, <2>3, <2>4, <2>5, <2>6 DEF Next
<1> QED BY <1>3, <1>4, <1>5, <1>6, <1>7

(* What is saved stays behind the turn that is to be saved.                 *)
LEMMA SavedStep ==
  ASSUME ConvInv, [Next]_vars
  PROVE  SavedBefore'
<1>1. SavedBefore /\ turn \in Nat /\ turn' \in Nat /\ MaxTurns \in Nat
  <2>1. TypeOK'
    BY TypeStep
  <2> QED BY <2>1, ConversationAssumption DEF ConvInv, TypeOK
<1>2. /\ turn' >= turn
      /\ pc' \in Unsaved => turn' > turn \/ (turn' = turn /\ pc \in Unsaved)
      /\ pc' = "history" => turn' = turn /\ pc \in Unsaved \union {"history"}
  BY TurnSteps
<1>3. ASSUME NEW s \in Sessions, NEW id \in Covered(ctx'[s])
      PROVE  id[1] <= turn' /\ (pc' \in Unsaved => id[1] < turn')
  <2>0. id[1] \in Nat
    <3>1. ListOK(ctx'[s])
      BY ListsStep DEF Lists
    <3>2. Covered(ctx'[s]) \subseteq Ids
      BY <3>1, TurnsFinite DEF ListOK
    <3> QED BY <3>2, ConversationAssumption DEF Ids
  <2>1. CASE ctx' = ctx
    <3>1. id[1] <= turn /\ (pc \in Unsaved => id[1] < turn)
      BY <1>1, <1>3, <2>1 DEF SavedBefore
    <3> QED BY <1>1, <1>2, <2>0, <3>1
  <2>2. CASE FillCtx
    <3>1. pc = "fill" /\ pc' = "history" /\ turn' = turn /\ ctx' = [ctx EXCEPT ![active] = msgs]
      BY <2>2 DEF FillCtx, Snapshot
    <3>2. ctx \in [Sessions -> Seq(Messages)] /\ active \in Sessions
      BY <3>1, Underway DEF ConvInv, TypeOK
    <3>3. Covered(ctx'[s]) = Covered(ctx[s]) \/ Covered(ctx'[s]) = Covered(ctx[active]) \union IdsOf(turn)
      <4>1. Covered(msgs) = Covered(ctx[active]) \union IdsOf(turn)
        BY <3>1 DEF ConvInv, TurnInv, InTurn, Unsaved
      <4>2. ctx'[s] = ctx[s] \/ ctx'[s] = msgs
        BY <3>1, <3>2
      <4> QED BY <4>1, <4>2
    <3>4. id \in IdsOf(turn) => id[1] = turn
      BY DEF IdsOf
    <3>5. id[1] <= turn
      BY <1>1, <1>3, <3>2, <3>3, <3>4 DEF SavedBefore
    <3> QED BY <3>1, <3>5 DEF Unsaved
  <2> QED BY <2>1, <2>2, ListSteps
<1>4. ASSUME NEW s \in Sessions, NEW i \in DOMAIN jsonl'[s].lines
      PROVE  /\ jsonl'[s].lines[i][1] <= turn'
             /\ pc' \in Unsaved \union {"history"} => jsonl'[s].lines[i][1] < turn'
  <2>1. CASE \E k \in DOMAIN jsonl[s].lines : jsonl'[s].lines[i] = jsonl[s].lines[k]
    <3>1. PICK k \in DOMAIN jsonl[s].lines : jsonl'[s].lines[i] = jsonl[s].lines[k]
      BY <2>1
    <3> DEFINE t == jsonl[s].lines[k][1]
    <3>2. t <= turn /\ (pc \in Unsaved \union {"history"} => t < turn)
      BY <1>1 DEF SavedBefore
    <3>3. t \in Nat
      <4>1. jsonl[s].lines \in Seq(Entries)
        BY DEF ConvInv, TypeOK, Entries
      <4>2. jsonl[s].lines[k] \in Entries
        BY <4>1, ElementOfSeq, LenProperties
      <4> QED BY <4>2, ConversationAssumption DEF Entries
    <3> HIDE DEF t
    <3>4. t <= turn' /\ (pc' \in Unsaved \union {"history"} => t < turn')
      BY <1>1, <1>2, <3>2, <3>3
    <3> QED BY <3>1, <3>4 DEF t
  <2>2. CASE pc' \in {"count", "idle"} /\ turn' = turn /\ jsonl'[s].lines[i][1] = turn
    BY <1>1, <2>2 DEF Unsaved
  <2> QED BY <2>1, <2>2, HistorySteps
<1> QED BY <1>3, <1>4 DEF SavedBefore

(* What a snapshot covers it covers from then on.                           *)
LEMMA SnapshotsGrow ==
  ASSUME ConvInv, [Next]_vars, NEW s \in Sessions
  PROVE  Covered(ctx[s]) \subseteq Covered(ctx'[s])
<1>1. CASE FillCtx
  <2>1. pc = "fill" /\ ctx' = [ctx EXCEPT ![active] = msgs]
    BY <1>1 DEF FillCtx, Snapshot
  <2>2. Covered(ctx[active]) \subseteq Covered(msgs)
    BY <2>1 DEF ConvInv, TurnInv, Unsaved
  <2>3. ctx'[s] = ctx[s] \/ (s = active /\ ctx'[s] = msgs)
    BY <2>1 DEF ConvInv, TypeOK
  <2> QED BY <2>2, <2>3
<1> QED BY <1>1, ListSteps

(* What a history tells stays in the snapshot beside it.                    *)
LEMMA LinesStep ==
  ASSUME ConvInv, [Next]_vars
  PROVE  LinesKept'
<1>1. SavedBefore /\ TurnInv /\ LinesKept /\ TypeOK
  BY DEF ConvInv
<1> SUFFICES ASSUME NEW s \in Sessions, s \notin torn' \/ (s = active' /\ pc' = "fill"),
                    NEW i \in DOMAIN jsonl'[s].lines
             PROVE  ({jsonl'[s].lines[i][1]} \X (1..said'[jsonl'[s].lines[i][1]])) \subseteq Covered(ctx'[s])
  BY DEF LinesKept, IdsOf
<1>2. s \notin torn \/ (s = active /\ pc = "fill")
  <2>1. CASE torn' = torn
    <3>1. pc' = "fill" => active' = active /\ pc \in {"truncate", "fill"}
      BY TurnSteps
    <3>2. pc = "truncate" => active \notin torn
      BY <1>1 DEF TurnInv
    <3> QED BY <2>1, <3>1, <3>2
  <2>2. CASE TruncateCtx
    <3>1. pc = "truncate" /\ torn' = torn \union {active} /\ active' = active
      BY <2>2 DEF TruncateCtx, index
    <3>2. active \notin torn
      BY <1>1, <3>1 DEF TurnInv
    <3> QED BY <3>1, <3>2
  <2>3. CASE FillCtx
    <3>1. pc = "fill" /\ torn' = torn \ {active} /\ active' = active /\ pc' = "history"
      BY <2>3 DEF FillCtx, index
    <3> QED BY <3>1
  <2>4. torn' = torn \/ TruncateCtx \/ FillCtx
    <3>1. CASE Crash
      <4>1. torn' = torn
        BY <3>1, Zenon DEF Crash
      <4> QED BY <4>1
    <3>2. CASE NewSession \/ WriteMeta \/ Receive
      BY <3>2 DEF NewSession, WriteMeta, Receive, Create, memory
    <3>3. CASE LoadHistory \/ Hook \/ HookRaises
      <4>1. UNCHANGED memory
        BY <3>3, Zenon DEF LoadHistory, Hook, HookRaises
      <4> QED BY <4>1 DEF memory
    <3>4. CASE CallTool \/ Answer \/ ModelFails
      <4>1. UNCHANGED memory
        BY <3>4, Zenon DEF CallTool, Answer, ModelFails
      <4> QED BY <4>1 DEF memory
    <3>5. CASE Save
      BY <3>5 DEF Save, AppendRaw, AppendHistory, UpdateCount, memory
    <3>6. CASE UNCHANGED vars
      BY <3>6 DEF vars, memory
    <3> QED BY <3>1, <3>2, <3>3, <3>4, <3>5, <3>6 DEF Next
  <2> QED BY <2>1, <2>2, <2>3, <2>4
<1>3. Covered(ctx[s]) \subseteq Covered(ctx'[s])
  BY SnapshotsGrow
<1>4. CASE \E k \in DOMAIN jsonl[s].lines : jsonl'[s].lines[i] = jsonl[s].lines[k]
  <2>1. PICK k \in DOMAIN jsonl[s].lines : jsonl'[s].lines[i] = jsonl[s].lines[k]
    BY <1>4
  <2>2. jsonl[s].lines[k][1] \in 1..MaxTurns
    <3>1. jsonl[s].lines \in Seq(Entries)
      BY <1>1 DEF TypeOK, Entries
    <3>2. jsonl[s].lines[k] \in Entries
      BY <3>1, ElementOfSeq, LenProperties
    <3> QED BY <3>2 DEF Entries
  <2> DEFINE t == jsonl[s].lines[k][1]
  <2>3. t # turn \/ pc \notin Unsaved
    <3>1. pc \in Unsaved => t < turn
      BY <1>1 DEF SavedBefore
    <3>2. t \in Nat /\ turn \in Nat
      BY <2>2, Underway
    <3> QED BY <3>1, <3>2
  <2>4. IdsOf(t) \subseteq Covered(ctx[s])
    BY <1>1, <1>2 DEF LinesKept
  <2>5. jsonl'[s].lines[i][1] = t
    BY <2>1
  <2> HIDE DEF t
  <2>6. said'[t] = said[t]
    BY <2>2, <2>3, TurnSteps DEF t
  <2>7. {t} \X (1..said'[t]) = IdsOf(t)
    BY <2>6 DEF IdsOf
  <2> QED BY <1>3, <2>4, <2>5, <2>7 DEF t
<1>5. CASE /\ s = active /\ pc = "history" /\ pc' \in {"count", "idle"} /\ turn' = turn
           /\ jsonl'[s].lines[i][1] = turn
           /\ ctx' = ctx /\ torn' = torn /\ said' = said
  <2>1. {turn} \X (1..said'[turn]) = IdsOf(turn)
    BY <1>5 DEF IdsOf
  <2>2. s \notin torn
    BY <1>2, <1>5
  <2>3. loaded
    BY <1>1, <1>5, <2>2 DEF TurnInv, InTurn
  <2>4. IdsOf(turn) \subseteq Covered(ctx[s])
    BY <1>1, <1>5, <2>3 DEF TurnInv
  <2> QED BY <1>5, <2>1, <2>4
<1> QED BY <1>4, <1>5, HistorySteps

(* A turn that is over leaves no list behind.                               *)
LEMMA OverTurn ==
  ASSUME Over
  PROVE  TurnInv'
BY DEF Over, TurnInv, InTurn, Unsaved

(* The worker's turn, step by step.                                         *)
LEMMA TurnStep ==
  ASSUME ConvInv, [Next]_vars
  PROVE  TurnInv'
<1>1. TypeOK /\ TurnInv
  BY DEF ConvInv
<1> USE DEF Unsaved, InTurn
<1>2. ASSUME NEW next \in {"meta", "new"}, pc = "idle", Create(next), next = "meta" => turn' # 0
      PROVE  TurnInv'
  <2>1. pc' = next /\ active' # 0 /\ msgs' = <<>> /\ ~loaded' /\ historyLen' = 0
    BY <1>1, <1>2, ConversationAssumption DEF Create, crew, TurnInv, TypeOK
  <2> QED BY <1>2, <2>1 DEF TurnInv
<1>3. CASE NewSession
  BY <1>2, <1>3 DEF NewSession
<1>4. CASE WriteMeta
  <2>1. /\ pc \in {"meta", "new"} /\ ((pc = "meta" /\ pc' = "load") \/ pc' = "idle")
        /\ active' = active /\ msgs' = msgs /\ loaded' = loaded /\ historyLen' = historyLen /\ turn' = turn
    BY <1>4 DEF WriteMeta, index, crew
  <2>2. active' # 0 /\ msgs' = <<>> /\ ~loaded' /\ historyLen' = 0 /\ (pc' = "load" => turn' # 0)
    BY <1>1, <2>1 DEF TurnInv
  <2> QED BY <2>1, <2>2 DEF TurnInv
<1>5. CASE Receive
  <2>1. pc = "idle" /\ turn' = turn + 1 /\ turn' # 0
    BY <1>5, Underway DEF Receive
  <2>2. CASE Create("meta")
    BY <1>2, <2>1, <2>2
  <2>3. CASE active # 0 /\ pc' = "load" /\ UNCHANGED <<index, crew>>
    <3>1. active' # 0 /\ msgs' = <<>> /\ ~loaded' /\ historyLen' = 0
      BY <1>1, <2>1, <2>3 DEF TurnInv, index, crew
    <3> QED BY <2>1, <2>3, <3>1 DEF TurnInv
  <2> QED BY <1>5, <2>2, <2>3 DEF Receive
<1>6. CASE LoadHistory
  <2>1. CASE Over
    BY <2>1, OverTurn
  <2>2. CASE ~Over
    <3>1. /\ msgs' = <<System, Message("user", 1)>> /\ Covered(msgs') = {<<turn, 1>>} /\ msgs' # <<>>
          /\ said' = [said EXCEPT ![turn] = 1] /\ pc' = "hook" /\ loaded' = loaded
      BY <1>6, <2>2, LoadOK
    <3>2. pc = "load" /\ active' = active /\ turn' = turn
      BY <1>6 DEF LoadHistory, index
    <3>3. active \in Sessions /\ turn \in 1..MaxTurns /\ active # 0 /\ turn # 0
      BY <3>2, Underway, ConversationAssumption DEF Sessions
    <3>4. ~loaded'
      BY <1>1, <3>1, <3>2 DEF TurnInv
    <3>5. said'[turn] = 1
      BY <1>1, <3>1, <3>3 DEF TypeOK
    <3>6. IdsOf(turn)' = {<<turn, 1>>}
      BY <3>2, <3>5 DEF IdsOf
    <3>7. Message("user", 1)' = Message("user", 1)
      BY <3>2 DEF Message
    <3>8. \E k \in 0..MaxTools : said'[turn'] = 1 + 2 * k
      <4>1. 0 \in 0..MaxTools /\ 1 = 1 + 2 * 0
        BY ConversationAssumption
      <4> QED BY <3>2, <3>5, <4>1
    <3> QED BY <3>1, <3>2, <3>3, <3>4, <3>5, <3>6, <3>7, <3>8 DEF TurnInv
  <2> QED BY <2>1, <2>2
<1>7. CASE Hook
  <2>1. msgs' # <<>> /\ Covered(msgs') = Covered(ctx[active]) \union IdsOf(turn)
    BY <1>7, HookOK
  <2>2. /\ pc = "hook" /\ (loaded \/ active \notin torn)
        /\ pc' = "model" /\ loaded' = TRUE /\ turn' = turn /\ said' = said
        /\ UNCHANGED <<index, memory>>
    BY <1>7, Zenon DEF Hook
  <2>3. active' = active /\ ctx' = ctx /\ torn' = torn
    BY <2>2 DEF index, memory
  <2>4. IdsOf(turn)' = IdsOf(turn)
    BY <2>2 DEF IdsOf
  <2>5. active # 0 /\ turn # 0 /\ active \notin torn /\ \E k \in 0..MaxTools : said[turn] = 1 + 2 * k
    BY <1>1, <2>2 DEF TurnInv
  <2> QED BY <2>1, <2>2, <2>3, <2>4, <2>5 DEF TurnInv
<1>8. CASE HookRaises
  <2>1. CASE Over
    BY <2>1, OverTurn
  <2>2. CASE pc' = "model" /\ UNCHANGED crew
    <3>1. /\ pc = "hook" /\ ~loaded /\ active \in torn /\ turn' = turn /\ said' = said
          /\ active' = active /\ torn' = torn /\ msgs' = msgs /\ loaded' = loaded
      BY <1>8, <2>2 DEF HookRaises, index, memory, crew
    <3>2. IdsOf(turn)' = IdsOf(turn)
      BY <3>1 DEF IdsOf
    <3>3. /\ active # 0 /\ turn # 0 /\ msgs # <<>> /\ Covered(msgs) = IdsOf(turn)
          /\ \E k \in 0..MaxTools : said[turn] = 1 + 2 * k
      BY <1>1, <3>1 DEF TurnInv
    <3> QED BY <2>2, <3>1, <3>2, <3>3 DEF TurnInv
  <2> QED BY <1>8, <2>1, <2>2 DEF HookRaises
<1>9. CASE CallTool
  <2>1. /\ msgs' # <<>>
        /\ Covered(msgs') = Covered(msgs) \union {<<turn, said[turn] + 1>>, <<turn, said[turn] + 2>>}
    BY <1>9, CallToolOK
  <2>2. /\ pc = "model" /\ said[turn] < 1 + 2 * MaxTools /\ said' = [said EXCEPT ![turn] = said[turn] + 2]
        /\ pc' = "hook" /\ UNCHANGED <<index, memory, turn, loaded>>
    BY <1>9, Zenon DEF CallTool
  <2>3. active' = active /\ ctx' = ctx /\ torn' = torn /\ turn' = turn /\ loaded' = loaded
    BY <2>2 DEF index, memory
  <2>4. turn \in 1..MaxTurns /\ active # 0 /\ turn # 0 /\ said[turn] \in Nat /\ said[turn] >= 1
    <3>1. said[turn] \in Nat /\ said[turn] >= 1
      BY <2>2, NextMessages DEF TalkRoles
    <3> QED BY <1>1, <2>2, <3>1, Underway DEF TurnInv
  <2>5. said'[turn] = said[turn] + 2
    BY <1>1, <2>2, <2>4 DEF TypeOK
  <2>6. IdsOf(turn)' = IdsOf(turn) \union {<<turn, said[turn] + 1>>, <<turn, said[turn] + 2>>}
    <3>1. 1..(said[turn] + 2) = (1..said[turn]) \union {said[turn] + 1, said[turn] + 2}
      BY <2>4
    <3> QED BY <2>3, <2>5, <3>1 DEF IdsOf
  <2>7. \E k \in 0..MaxTools : said'[turn'] = 1 + 2 * k
    <3>1. \E k \in 0..MaxTools : said[turn] + 2 = 1 + 2 * k
      BY <2>2, NextMessages DEF TalkRoles
    <3> QED BY <2>3, <2>5, <3>1
  <2>8. /\ ~loaded => Covered(msgs) = IdsOf(turn) /\ active \in torn
        /\ loaded => Covered(msgs) = Covered(ctx[active]) \union IdsOf(turn) /\ active \notin torn
    BY <1>1, <2>2 DEF TurnInv
  <2>9. /\ ~loaded => Covered(msgs') = IdsOf(turn)'
        /\ loaded => Covered(msgs') = Covered(ctx[active]) \union IdsOf(turn)'
    BY <2>1, <2>6, <2>8
  <2> QED BY <2>1, <2>2, <2>3, <2>4, <2>7, <2>8, <2>9 DEF TurnInv
<1>10. CASE Answer
  <2>1. msgs' # <<>> /\ Covered(msgs') = Covered(msgs) \union {<<turn, said[turn] + 1>>}
    BY <1>10, AnswerOK
  <2>2. /\ pc = "model" /\ said' = [said EXCEPT ![turn] = said[turn] + 1]
        /\ pc' = (IF loaded THEN "raw" ELSE "history") /\ UNCHANGED <<index, memory, turn, loaded>>
    BY <1>10, Zenon DEF Answer
  <2>3. active' = active /\ ctx' = ctx /\ torn' = torn /\ turn' = turn /\ loaded' = loaded
    BY <2>2 DEF index, memory
  <2>4. turn \in 1..MaxTurns /\ active # 0 /\ turn # 0 /\ said[turn] \in Nat /\ said[turn] >= 1
    <3>1. said[turn] \in Nat /\ said[turn] >= 1
      BY <2>2, NextMessages DEF TalkRoles
    <3> QED BY <1>1, <2>2, <3>1, Underway DEF TurnInv
  <2>5. said'[turn] = said[turn] + 1
    BY <1>1, <2>2, <2>4 DEF TypeOK
  <2>6. IdsOf(turn)' = IdsOf(turn) \union {<<turn, said[turn] + 1>>}
    <3>1. 1..(said[turn] + 1) = (1..said[turn]) \union {said[turn] + 1}
      BY <2>4
    <3> QED BY <2>3, <2>5, <3>1 DEF IdsOf
  <2>7. /\ ~loaded => Covered(msgs) = IdsOf(turn) /\ active \in torn
        /\ loaded => Covered(msgs) = Covered(ctx[active]) \union IdsOf(turn) /\ active \notin torn
    BY <1>1, <2>2 DEF TurnInv
  <2>8. /\ ~loaded => Covered(msgs') = IdsOf(turn)' /\ pc' = "history"
        /\ loaded => Covered(msgs') = Covered(ctx[active]) \union IdsOf(turn)' /\ pc' = "raw"
    BY <2>1, <2>2, <2>6, <2>7
  <2> QED BY <2>1, <2>3, <2>4, <2>7, <2>8 DEF TurnInv
<1>11. CASE ModelFails
  BY <1>11, OverTurn DEF ModelFails
<1>12. ASSUME pc \in {"raw", "truncate", "fill", "history"}, UNCHANGED <<active, turn, said, msgs, loaded>>,
              \/ pc = "raw" /\ pc' = "truncate" /\ UNCHANGED <<ctx, torn>>
              \/ pc = "truncate" /\ pc' = "fill" /\ ctx' = ctx
              \/ pc = "fill" /\ pc' = "history" /\ ctx'[active] = msgs
              \/ pc = "history" /\ pc' = "count" /\ UNCHANGED <<ctx, torn>>
       PROVE  TurnInv'
  <2>1. IdsOf(turn)' = IdsOf(turn)
    BY <1>12 DEF IdsOf
  <2>2. /\ active' = active /\ turn' = turn /\ said' = said /\ msgs' = msgs /\ loaded' = loaded
    BY <1>12
  <2>3. active # 0 /\ turn # 0 /\ msgs # <<>>
    BY <1>1, <1>12 DEF TurnInv
  <2>4. CASE pc = "raw" /\ pc' = "truncate" /\ UNCHANGED <<ctx, torn>>
    BY <1>1, <2>1, <2>2, <2>3, <2>4 DEF TurnInv
  <2>5. CASE pc = "truncate" /\ pc' = "fill" /\ ctx' = ctx
    BY <1>1, <2>1, <2>2, <2>3, <2>5 DEF TurnInv
  <2>6. CASE pc = "fill" /\ pc' = "history" /\ ctx'[active] = msgs
    <3>1. loaded /\ IdsOf(turn) \subseteq Covered(msgs)
      BY <1>1, <2>6 DEF TurnInv
    <3>2. IdsOf(turn)' \subseteq Covered(ctx'[active'])
      BY <2>1, <2>2, <2>6, <3>1
    <3> QED BY <2>2, <2>3, <2>6, <3>1, <3>2 DEF TurnInv
  <2>7. CASE pc = "history" /\ pc' = "count" /\ UNCHANGED <<ctx, torn>>
    BY <1>1, <2>1, <2>2, <2>3, <2>7 DEF TurnInv
  <2> QED BY <1>12, <2>4, <2>5, <2>6, <2>7
<1>13. CASE Save
  <2>1. CASE AppendRaw
    BY <1>12, <2>1 DEF AppendRaw, index, crew
  <2>2. CASE TruncateCtx
    BY <1>12, <2>2 DEF TruncateCtx, index, crew
  <2>3. CASE FillCtx
    <3>1. active \in Sessions
      BY <2>3, Underway DEF FillCtx
    <3>2. ctx'[active] = msgs
      BY <1>1, <2>3, <3>1 DEF FillCtx, Snapshot, TypeOK
    <3> QED BY <1>12, <2>3, <3>2 DEF FillCtx, index, crew
  <2>4. CASE AppendHistory
    BY <1>12, <2>4 DEF AppendHistory, index, crew, memory
  <2>5. CASE UpdateCount
    BY <2>5, OverTurn DEF UpdateCount
  <2> QED BY <1>13, <2>1, <2>2, <2>3, <2>4, <2>5 DEF Save
<1>14. CASE Crash
  <2>1. Over
    BY <1>14, Zenon DEF Crash
  <2> QED BY <2>1, OverTurn
<1>15. CASE UNCHANGED vars
  <2>1. /\ active' = active /\ ctx' = ctx /\ torn' = torn /\ pc' = pc /\ turn' = turn /\ said' = said
        /\ msgs' = msgs /\ loaded' = loaded /\ historyLen' = historyLen
    BY <1>15 DEF vars, index, memory, crew
  <2>2. IdsOf(turn)' = IdsOf(turn) /\ Message("user", 1)' = Message("user", 1)
    BY <2>1 DEF IdsOf, Message
  <2> QED BY <1>1, <2>1, <2>2 DEF TurnInv
<1> QED BY <1>3, <1>4, <1>5, <1>6, <1>7, <1>8, <1>9, <1>10, <1>11, <1>13, <1>14, <1>15 DEF Next

(* _history_len, step by step.                                              *)
LEMMA PointsStep ==
  ASSUME ConvInv, [Next]_vars
  PROVE  PointsAtTurn'
<1>1. TypeOK /\ TurnInv /\ PointsAtTurn
  BY DEF ConvInv
<1>2. ASSUME CallTool \/ Answer PROVE PointsAtTurn'
  <2>1. /\ pc = "model" /\ loaded' = loaded /\ turn' = turn /\ compressed' = compressed
        /\ historyLen' = historyLen
    BY <1>2, Zenon DEF CallTool, Answer
  <2>2. /\ Len(msgs') = Len(msgs) + 2 \/ Len(msgs') = Len(msgs) + 1
        /\ \A i \in 1..Len(msgs) : msgs'[i] = msgs[i]
    BY <1>2, CallToolOK, AnswerOK
  <2> DEFINE h == historyLen
             n == Len(msgs)
  <2>3. h \in Nat /\ n \in Nat
    BY <1>1, LenProperties DEF TypeOK
  <2> HIDE DEF h, n
  <2>4. h < n => h + 1 \in 1..n /\ h < n + 1 /\ h < n + 2
    BY <2>3
  <2>5. h < n => h < Len(msgs') /\ msgs'[h + 1] = msgs[h + 1]
    BY <2>2, <2>4 DEF n
  <2> QED BY <1>1, <2>1, <2>5 DEF PointsAtTurn, h, n
<1>3. CASE Hook
  BY <1>3, HookOK
<1>4. CASE LoadHistory \/ HookRaises
  <2>1. loaded' = FALSE
    BY <1>1, <1>4 DEF LoadHistory, HookRaises, Over, crew, TurnInv, InTurn, Unsaved
  <2> QED BY <2>1 DEF PointsAtTurn
<1>5. CASE ModelFails \/ Crash
  <2>1. Over
    BY <1>5, Zenon DEF ModelFails, Crash
  <2> QED BY <2>1 DEF Over, PointsAtTurn
<1>6. CASE NewSession \/ WriteMeta \/ Receive
  <2>1. pc' \in {"new", "meta", "load", "idle"}
    BY <1>6 DEF NewSession, WriteMeta, Receive, Create
  <2> QED BY <2>1 DEF PointsAtTurn
<1>7. CASE Save
  <2>1. pc' \in {"truncate", "fill", "history", "count", "idle"}
    BY <1>7 DEF Save, AppendRaw, TruncateCtx, FillCtx, AppendHistory, UpdateCount, Over
  <2> QED BY <2>1 DEF PointsAtTurn
<1>8. CASE UNCHANGED vars
  BY <1>1, <1>8 DEF PointsAtTurn, vars, crew
<1> QED BY <1>2, <1>3, <1>4, <1>5, <1>6, <1>7, <1>8 DEF Next

-----------------------------------------------------------------------------
(* What the audit log misses                                                *)

(* There are finitely many messages.                                        *)
LEMMA IdsFinite ==
  IsFiniteSet(Ids)
<1>1. IsFiniteSet(1..MaxTurns) /\ IsFiniteSet(1..(2 + 2 * MaxTools))
  BY FS_Interval, ConversationAssumption
<1> QED BY <1>1, FS_Product DEF Ids

(* Fewer ids, a longer log or more compressed turns: no more is missed.     *)
LEMMA MissingFewer ==
  ASSUME NEW ids, NEW more, ids \subseteq more, more \subseteq Ids,
         NEW log, NEW longer,
         \A i \in DOMAIN log.lines : \E j \in DOMAIN longer.lines : longer.lines[j] = log.lines[i],
         NEW shrunk, NEW later, shrunk \subseteq later
  PROVE  /\ Missing(ids, longer, later) \subseteq Missing(more, log, shrunk)
         /\ Cardinality(Missing(ids, longer, later)) <= Cardinality(Missing(more, log, shrunk))
         /\ Cardinality(Missing(ids, longer, later)) \in Nat
         /\ Cardinality(Missing(more, log, shrunk)) \in Nat
<1>1. Missing(ids, longer, later) \subseteq Missing(more, log, shrunk)
  BY DEF Missing
<1>2. Missing(more, log, shrunk) \subseteq Ids
  BY DEF Missing
<1>3. IsFiniteSet(Missing(more, log, shrunk))
  BY <1>2, IdsFinite, FS_Subset
<1> QED BY <1>1, <1>3, FS_Subset, FS_CardinalityType

(* The same with the line that an open log will cost: a log that becomes    *)
(* open owes one more.                                                      *)
LEMMA DebtLower ==
  ASSUME NEW ids, NEW more, ids \subseteq more, more \subseteq Ids,
         NEW log, NEW longer,
         \A i \in DOMAIN log.lines : \E j \in DOMAIN longer.lines : longer.lines[j] = log.lines[i],
         NEW shrunk, NEW later, shrunk \subseteq later
  PROVE  /\ Debt(ids, longer, later) \in Nat /\ Debt(more, log, shrunk) \in Nat
         /\ (longer.open => log.open) => Debt(ids, longer, later) <= Debt(more, log, shrunk)
         /\ Debt(ids, longer, later) <= Debt(more, log, shrunk) + 1
<1> DEFINE a == Cardinality(Missing(ids, longer, later))
           b == Cardinality(Missing(more, log, shrunk))
<1>1. a \in Nat /\ b \in Nat /\ a <= b
  BY MissingFewer, Zenon
<1> HIDE DEF a, b
<1>2. /\ Debt(ids, longer, later) = a + (IF longer.open THEN 1 ELSE 0)
      /\ Debt(more, log, shrunk) = b + (IF log.open THEN 1 ELSE 0)
  BY DEF Debt, a, b
<1> QED BY <1>1, <1>2

(* After run_and_index the log misses of the turn no more than the line     *)
(* that an open one before it cost.                                         *)
LEMMA AppendRawInBudget ==
  ASSUME ConvInv, AppendRaw, TypeOK'
  PROVE  Debt(Covered(msgs), raw'[active], compressed) <= crashes
<1> DEFINE old == raw[active]
           log == raw'[active]
           ids == Covered(msgs)
           before == Covered(ctx[active])
           h == historyLen
           n == Len(msgs)
<1>1. /\ pc = "raw" /\ raw' = [raw EXCEPT ![active] = [lines |-> RawWith(NewMsgs),
                                                      open |-> raw[active].open /\ NewMsgs = <<>>]]
  BY DEF AppendRaw
<1>2. /\ active \in Sessions /\ turn \in 1..MaxTurns /\ crashes \in Nat
      /\ ListOK(msgs) /\ msgs # <<>> /\ loaded
      /\ ids = before \union IdsOf(turn)
      /\ h \in Nat
  <2>1. TypeOK /\ TurnInv /\ \A list \in Lists : ListOK(list)
    BY DEF ConvInv
  <2> QED BY <1>1, <2>1, Underway DEF TurnInv, InTurn, Unsaved, Lists, TypeOK
<1>3. msgs \in Seq(Messages) /\ n \in Nat /\ DOMAIN msgs = 1..n /\ n # 0 /\ ids \subseteq Ids
      /\ before \subseteq Ids
  <2>1. msgs \in Seq(Messages) /\ ids \subseteq Ids
    BY <1>2, TurnsFinite DEF ListOK
  <2> QED BY <1>2, <2>1, LenProperties, EmptySeq
<1>4. log = [lines |-> RawWith(NewMsgs), open |-> old.open /\ NewMsgs = <<>>]
  BY <1>1, <1>2 DEF ConvInv, TypeOK
<1>5. /\ \A i \in DOMAIN old.lines : \E j \in DOMAIN log.lines : log.lines[j] = old.lines[i]
      /\ \A i \in 1..Len(NewMsgs) : i # 1 \/ ~old.open =>
           \E j \in DOMAIN log.lines : log.lines[j] = NewMsgs[i].ids
  BY <1>2, <1>4, NewMsgsProperties, RawWithProperties
<1>6. (log.open => old.open) /\ (NewMsgs # <<>> => ~log.open)
  <2>1. log.open = (old.open /\ NewMsgs = <<>>)
    BY <1>4
  <2> HIDE DEF old, log
  <2> QED BY <2>1
<1>7. Debt(before, old, compressed) <= crashes
  BY <1>2 DEF ConvInv, InBudget
<1> HIDE DEF old, log
<1>8. CASE turn \in compressed
  <2>1. Missing(ids, log, compressed) = Missing(before, log, compressed)
    BY <1>2, <1>8 DEF Missing, IdsOf
  <2>2. Debt(ids, log, compressed) = Debt(before, log, compressed)
    BY <2>1 DEF Debt
  <2>3. Debt(before, log, compressed) <= Debt(before, old, compressed) /\ Debt(before, log, compressed) \in Nat
        /\ Debt(before, old, compressed) \in Nat
    BY <1>3, <1>5, <1>6, DebtLower
  <2> QED BY <1>2, <1>7, <2>2, <2>3 DEF log
<1>9. CASE turn \notin compressed
  <2>1. h < n
    BY <1>1, <1>2, <1>3, <1>9 DEF ConvInv, PointsAtTurn
  <2>2. Len(NewMsgs) = n - h /\ NewMsgs # <<>> /\ \A i \in 1..(n - h) : NewMsgs[i] = msgs[h + i]
    BY <2>1, NewMsgsProperties
  <2>3. h = 0 \/ (msgs[h + 1].role = "user" /\ msgs[h + 1].ids = {<<turn, 1>>})
    BY <1>1, <1>2, <1>9 DEF ConvInv, PointsAtTurn
  <2>4. h = 0 => msgs[1].ids = {}
    BY <1>2 DEF ListOK, Headed, System
  <2> HIDE DEF n, h, ids, before
  <2>5. ASSUME NEW id \in IdsOf(turn), ~(old.open /\ id = <<turn, 1>>)
        PROVE  \E j \in DOMAIN log.lines : id \in log.lines[j]
    <3>1. PICK k \in 1..n : id \in msgs[k].ids
      BY <1>2, <1>3 DEF ids, Covered
    <3>2. k >= h + 1
      <4> SUFFICES ASSUME k < h + 1, h # 0 PROVE FALSE
        BY <1>2, <3>1
      <4>1. h + 1 \in 1..n
        BY <1>2, <1>3, <2>1
      <4>2. Before(id, <<turn, 1>>)
        BY <1>2, <1>3, <2>3, <3>1, <4>1 DEF ListOK, Ordered
      <4>3. id[1] = turn /\ id[2] \in Nat /\ id[2] >= 1 /\ turn \in Nat
        BY <1>2 DEF IdsOf
      <4> QED BY <4>2, <4>3 DEF Before
    <3>3. k - h \in 1..(n - h) /\ h + (k - h) = k
      BY <1>2, <1>3, <3>1, <3>2
    <3>4. NewMsgs[k - h].ids = msgs[k].ids
      BY <2>2, <3>3
    <3>5. ~(k - h = 1 /\ old.open)
      <4> SUFFICES ASSUME k - h = 1, old.open PROVE FALSE
        OBVIOUS
      <4>1. k = h + 1
        BY <1>2, <3>1
      <4> QED BY <2>3, <2>4, <2>5, <3>1, <4>1
    <3>6. \E j \in DOMAIN log.lines : log.lines[j] = NewMsgs[k - h].ids
      BY <1>5, <2>2, <3>3, <3>5
    <3> QED BY <3>1, <3>4, <3>6
  <2> DEFINE lost == IF old.open THEN {<<turn, 1>>} ELSE {}
             m == Missing(before, old, compressed)
             k == Missing(ids, log, compressed)
  <2>6. k \subseteq m \union lost
    <3> SUFFICES ASSUME NEW id \in k, id \notin lost PROVE id \in m
      OBVIOUS
    <3>1. id \in ids /\ id[1] \notin compressed /\ \A j \in DOMAIN log.lines : id \notin log.lines[j]
      BY DEF Missing
    <3>2. id \notin IdsOf(turn)
      BY <2>5, <3>1
    <3>3. id \in before /\ \A i \in DOMAIN old.lines : id \notin old.lines[i]
      BY <1>2, <1>5, <3>1, <3>2
    <3> QED BY <3>1, <3>3 DEF Missing
  <2>7. IsFiniteSet(m) /\ Cardinality(m) \in Nat
    <3>1. m \subseteq Ids
      BY <1>3 DEF Missing
    <3> QED BY <3>1, IdsFinite, FS_Subset, FS_CardinalityType
  <2> HIDE DEF m, k
  <2>8. Cardinality(k) \in Nat /\ Cardinality(k) <= Cardinality(m) + (IF old.open THEN 1 ELSE 0)
    <3>1. CASE old.open
      <4>1. k \subseteq m \union {<<turn, 1>>}
        BY <2>6, <3>1
      <4>2. /\ IsFiniteSet(m \union {<<turn, 1>>})
            /\ Cardinality(m \union {<<turn, 1>>}) <= Cardinality(m) + 1
            /\ Cardinality(m \union {<<turn, 1>>}) \in Nat
        <5> DEFINE x == <<turn, 1>>
                   one == m \union {x}
        <5> HIDE DEF x
        <5>1. IsFiniteSet(one) /\ Cardinality(one) = IF x \in m THEN Cardinality(m) ELSE Cardinality(m) + 1
          BY <2>7, FS_AddElement
        <5>2. IsFiniteSet(one) /\ Cardinality(one) <= Cardinality(m) + 1 /\ Cardinality(one) \in Nat
          BY <2>7, <5>1
        <5> QED BY <5>2 DEF x
      <4>3. IsFiniteSet(k) /\ Cardinality(k) <= Cardinality(m \union {<<turn, 1>>})
        BY <4>1, <4>2, FS_Subset
      <4>4. Cardinality(k) \in Nat
        BY <4>3, FS_CardinalityType
      <4> QED BY <2>7, <3>1, <4>2, <4>3, <4>4
    <3>2. CASE ~old.open
      <4>1. k \subseteq m
        BY <2>6, <3>2
      <4>2. IsFiniteSet(k) /\ Cardinality(k) <= Cardinality(m)
        BY <2>7, <4>1, FS_Subset
      <4>3. Cardinality(k) \in Nat
        BY <4>2, FS_CardinalityType
      <4> QED BY <2>7, <3>2, <4>2, <4>3
    <3> QED BY <3>1, <3>2
  <2>9. Debt(ids, log, compressed) = Cardinality(k) + 0
    BY <1>6, <2>2 DEF Debt, k
  <2>10. Debt(before, old, compressed) = Cardinality(m) + (IF old.open THEN 1 ELSE 0)
    BY DEF Debt, m
  <2>11. Debt(ids, log, compressed) <= crashes
    BY <1>2, <1>7, <2>7, <2>8, <2>9, <2>10
  <2> QED BY <2>11 DEF ids, log
<1> QED BY <1>8, <1>9

(* What a step changes of the audit logs.                                   *)
LEMMA LogSteps ==
  ASSUME [Next]_vars
  PROVE  /\ raw' = raw \/ AppendRaw \/ (Crash /\ pc = "raw" /\ RawTorn)
         /\ crashes' = crashes \/ (Crash /\ crashes' = crashes + 1 /\ pc' = "idle" /\ ctx' = ctx)
         /\ compressed \subseteq compressed'
         /\ pc' \in {"truncate", "fill"} => AppendRaw \/
              /\ pc \in {"truncate", "fill"} /\ msgs' = msgs /\ active' = active /\ raw' = raw
<1>1. CASE NewSession \/ WriteMeta \/ Receive
  BY <1>1 DEF NewSession, WriteMeta, Receive, Create, memory
<1>2. CASE LoadHistory \/ HookRaises
  <2>1. raw' = raw /\ crashes' = crashes /\ compressed' = compressed /\ pc' \in {"idle", "hook", "model"}
    BY <1>2 DEF LoadHistory, HookRaises, Over, memory
  <2> QED BY <2>1
<1>3. CASE Hook
  <2>1. UNCHANGED memory /\ crashes' = crashes /\ pc' = "model"
        /\ (compressed' = compressed \/ compressed' = compressed \union {turn})
    BY <1>3, Zenon DEF Hook
  <2> QED BY <2>1 DEF memory
<1>4. CASE CallTool \/ Answer
  <2>1. UNCHANGED memory /\ crashes' = crashes /\ compressed' = compressed
        /\ (pc' = "hook" \/ pc' = IF loaded THEN "raw" ELSE "history")
    BY <1>4, Zenon DEF CallTool, Answer
  <2> QED BY <2>1 DEF memory
<1>5. CASE ModelFails
  BY <1>5 DEF ModelFails, Over, memory
<1>6. CASE Save
  BY <1>6 DEF Save, AppendRaw, TruncateCtx, FillCtx, AppendHistory, UpdateCount, Over, memory, index, crew
<1>7. CASE Crash
  <2>1. Over /\ crashes' = crashes + 1 /\ compressed' = compressed /\ ctx' = ctx
        /\ (raw' = raw \/ (pc = "raw" /\ RawTorn))
    BY <1>7, Zenon DEF Crash
  <2> QED BY <1>7, <2>1 DEF Over
<1>8. CASE UNCHANGED vars
  BY <1>8 DEF vars, memory, index, crew
<1> QED BY <1>1, <1>2, <1>3, <1>4, <1>5, <1>6, <1>7, <1>8 DEF Next

(* Whatever a step does to the log of a session, its old lines stay, and it *)
(* becomes open only by a crash.                                            *)
LEMMA LogsGrow ==
  ASSUME ConvInv, [Next]_vars, NEW s \in Sessions
  PROVE  /\ \A i \in DOMAIN raw[s].lines :
              \E j \in DOMAIN raw'[s].lines : raw'[s].lines[j] = raw[s].lines[i]
         /\ raw'[s].open => raw[s].open \/ (Crash /\ pc = "raw" /\ RawTorn)
<1>1. raw \in [Sessions -> [lines : Seq(SUBSET Ids), open : BOOLEAN]]
  BY DEF ConvInv, TypeOK
<1>2. CASE raw' = raw
  BY <1>2
<1>3. CASE AppendRaw
  <2>1. active \in Sessions /\ NewMsgs \in Seq(Messages)
    BY <1>3, Underway, NewMsgsProperties DEF AppendRaw
  <2>2. CASE s = active
    <3>1. raw'[s] = [lines |-> RawWith(NewMsgs), open |-> raw[s].open /\ NewMsgs = <<>>]
      BY <1>1, <1>3, <2>2 DEF AppendRaw
    <3>2. \A i \in DOMAIN raw[s].lines : \E j \in DOMAIN RawWith(NewMsgs) : RawWith(NewMsgs)[j] = raw[s].lines[i]
      BY <2>1, <2>2, RawWithProperties
    <3>3. raw'[s].lines = RawWith(NewMsgs) /\ raw'[s].open = (raw[s].open /\ NewMsgs = <<>>)
      BY <3>1
    <3>4. raw'[s].open => raw[s].open
      BY <3>3
    <3> QED BY <3>2, <3>3, <3>4
  <2>3. CASE s # active
    <3>1. raw'[s] = raw[s]
      BY <1>1, <1>3, <2>3 DEF AppendRaw
    <3> QED BY <3>1
  <2> QED BY <2>2, <2>3
<1>4. CASE Crash /\ pc = "raw" /\ RawTorn
  <2>1. active \in Sessions /\ NewMsgs \in Seq(Messages)
    BY <1>4, Underway, NewMsgsProperties
  <2>2. PICK n \in 0..Len(NewMsgs), open \in BOOLEAN :
          raw' = [raw EXCEPT ![active] =
            [lines |-> RawWith(SubSeq(NewMsgs, 1, n)),
             open |-> IF n = 0 THEN raw[active].open \/ (open /\ NewMsgs # <<>>)
                      ELSE open /\ n < Len(NewMsgs)]]
    BY <1>4 DEF RawTorn
  <2> DEFINE l == SubSeq(NewMsgs, 1, n)
  <2>3. l \in Seq(Messages)
    BY <2>1, Prefix
  <2> HIDE DEF l
  <2>4. CASE s = active
    <3>1. raw'[s].lines = RawWith(l)
      BY <1>1, <2>2, <2>4 DEF l
    <3>2. \A i \in DOMAIN raw[s].lines : \E j \in DOMAIN RawWith(l) : RawWith(l)[j] = raw[s].lines[i]
      BY <2>1, <2>3, <2>4, RawWithProperties
    <3> QED BY <1>4, <3>1, <3>2
  <2>5. CASE s # active
    <3>1. raw'[s] = raw[s]
      BY <1>1, <2>2, <2>5
    <3> QED BY <3>1
  <2> QED BY <2>4, <2>5
<1> QED BY <1>2, <1>3, <1>4, LogSteps

(* The gaps of the audit logs stay paid for by crashes.                     *)
LEMMA BudgetStep ==
  ASSUME ConvInv, [Next]_vars
  PROVE  InBudget'
<1>1. TypeOK /\ InBudget /\ TypeOK' /\ crashes \in Nat
  BY TypeStep, Underway DEF ConvInv
<1>2. crashes' = crashes \/ crashes' = crashes + 1
  BY LogSteps
<1>3. ASSUME NEW s \in Sessions
      PROVE  Debt(Covered(ctx'[s]), raw'[s], compressed') <= crashes'
  <2>1. /\ \A i \in DOMAIN raw[s].lines :
             \E j \in DOMAIN raw'[s].lines : raw'[s].lines[j] = raw[s].lines[i]
        /\ raw'[s].open => raw[s].open \/ (Crash /\ pc = "raw" /\ RawTorn)
    BY LogsGrow
  <2>2. Covered(ctx[s]) \subseteq Ids /\ compressed \subseteq compressed'
    <3>1. ctx[s] \in Seq(Messages)
      BY <1>1 DEF TypeOK
    <3> QED BY <3>1, TurnsFinite, LogSteps
  <2>3. Debt(Covered(ctx[s]), raw[s], compressed) <= crashes
    BY <1>1 DEF InBudget
  <2>4. CASE ctx' = ctx
    <3> DEFINE a == Debt(Covered(ctx[s]), raw'[s], compressed')
               b == Debt(Covered(ctx[s]), raw[s], compressed)
    <3>1. a \in Nat /\ b \in Nat /\ a <= b + 1 /\ ((raw'[s].open => raw[s].open) => a <= b)
      <4>1. Covered(ctx[s]) \subseteq Covered(ctx[s])
        OBVIOUS
      <4> QED BY <2>1, <2>2, <4>1, DebtLower
    <3>2. (raw'[s].open => raw[s].open) \/ crashes' = crashes + 1
      <4>1. Crash => crashes' = crashes + 1
        BY Zenon DEF Crash
      <4> QED BY <2>1, <4>1
    <3> HIDE DEF a, b
    <3>3. a <= crashes'
      BY <1>1, <1>2, <2>3, <3>1, <3>2 DEF b
    <3> QED BY <2>4, <3>3 DEF a
  <2>5. CASE FillCtx
    <3>1. /\ pc = "fill" /\ ctx' = [ctx EXCEPT ![active] = msgs] /\ raw' = raw
          /\ compressed' = compressed /\ crashes' = crashes
      BY <2>5 DEF FillCtx, Snapshot
    <3>2. ctx'[s] = ctx[s] \/ (s = active /\ ctx'[s] = msgs)
      BY <1>1, <3>1 DEF TypeOK
    <3>3. Debt(Covered(msgs), raw[active], compressed) <= crashes
      BY <1>1, <3>1 DEF InBudget
    <3> QED BY <2>3, <3>1, <3>2, <3>3
  <2> QED BY <2>4, <2>5, ListSteps
<1>4. ASSUME pc' \in {"truncate", "fill"}
      PROVE  Debt(Covered(msgs'), raw'[active'], compressed') <= crashes'
  <2>1. crashes' = crashes
    BY <1>4, LogSteps
  <2>2. CASE AppendRaw
    <3>1. active' = active /\ msgs' = msgs /\ compressed' = compressed
      BY <2>2 DEF AppendRaw, index, crew
    <3> QED BY <1>1, <2>1, <2>2, <3>1, AppendRawInBudget
  <2>3. CASE pc \in {"truncate", "fill"} /\ msgs' = msgs /\ active' = active /\ raw' = raw
    <3> DEFINE a == Debt(Covered(msgs), raw[active], compressed')
               b == Debt(Covered(msgs), raw[active], compressed)
    <3>1. a \in Nat /\ b \in Nat /\ a <= b
      <4>1. Covered(msgs) \subseteq Covered(msgs) /\ Covered(msgs) \subseteq Ids
        BY <1>1, TurnsFinite DEF TypeOK
      <4>2. \A i \in DOMAIN raw[active].lines : \E j \in DOMAIN raw[active].lines : raw[active].lines[j] = raw[active].lines[i]
        OBVIOUS
      <4>3. compressed \subseteq compressed'
        BY LogSteps
      <4> QED BY <4>1, <4>2, <4>3, DebtLower
    <3>2. b <= crashes
      BY <1>1, <2>3 DEF InBudget
    <3> HIDE DEF a, b
    <3>3. a <= crashes'
      BY <1>1, <2>1, <3>1, <3>2
    <3> QED BY <2>3, <3>3 DEF a
  <2> QED BY <1>4, <2>2, <2>3, LogSteps
<1> QED BY <1>3, <1>4 DEF InBudget

-----------------------------------------------------------------------------
(* The theorems                                                             *)

(* A key without sessions satisfies the invariant.                          *)
LEMMA InitOK ==
  Init => ConvInv
<1> SUFFICES ASSUME Init PROVE ConvInv
  OBVIOUS
<1> USE ConversationAssumption
<1>1. <<>> \in Seq(Messages) /\ <<>> \in Seq(SUBSET Ids) /\ <<>> \in Seq((1..MaxTurns) \X {"user", "assistant"})
  BY EmptySeq
<1>2. TypeOK
  <2>1. count \in [Sessions -> Nat] /\ ctx \in [Sessions -> Seq(Messages)]
    BY <1>1 DEF Init
  <2>2. jsonl \in [Sessions -> [lines : Seq((1..MaxTurns) \X {"user", "assistant"}),
                                tail : {"whole", "open", "torn"}]]
    BY <1>1 DEF Init
  <2>3. raw \in [Sessions -> [lines : Seq(SUBSET Ids), open : BOOLEAN]]
    BY <1>1 DEF Init
  <2>4. said \in [1..MaxTurns -> 0..(2 + 2 * MaxTools)]
    BY DEF Init
  <2>5. /\ active = 0 /\ made = 0 /\ torn = {} /\ pc = "idle" /\ turn = 0 /\ msgs = <<>>
        /\ historyLen = 0 /\ loaded = FALSE /\ compressed = {} /\ crashes = 0
    BY DEF Init
  <2>6. 0 \in Sessions \union {0} /\ 0 \in 0..MaxSessions /\ 0 \in 0..MaxTurns /\ 0 \in 0..MaxCrashes
    OBVIOUS
  <2> QED BY <1>1, <2>1, <2>2, <2>3, <2>4, <2>5, <2>6 DEF TypeOK
<1>3. msgs = <<>> /\ \A s \in Sessions : ctx[s] = <<>> /\ jsonl[s].lines = <<>> /\ raw[s].lines = <<>> /\ ~raw[s].open
  BY DEF Init
<1>4. DOMAIN <<>> = {}
  BY EmptySeq, LenProperties
<1>5. \A list \in Lists : ListOK(list)
  BY <1>3, EmptyListOK DEF Lists
<1>6. \A s \in Sessions : Covered(ctx[s]) = {}
  BY <1>3, EmptyListOK
<1>7. SavedBefore /\ LinesKept
  BY <1>3, <1>4, <1>6 DEF SavedBefore, LinesKept
<1>8. TurnInv /\ PointsAtTurn
  BY DEF Init, TurnInv, PointsAtTurn, Unsaved, InTurn
<1>9. InBudget
  <2>1. ASSUME NEW s \in Sessions PROVE Debt(Covered(ctx[s]), raw[s], compressed) <= crashes
    <3>1. Missing(Covered(ctx[s]), raw[s], compressed) = {}
      BY <1>6 DEF Missing
    <3>2. Debt(Covered(ctx[s]), raw[s], compressed) = 0
      BY <1>3, <3>1, FS_EmptySet DEF Debt
    <3> QED BY <3>2 DEF Init
  <2> QED BY <2>1 DEF InBudget, Init
<1> QED BY <1>2, <1>5, <1>7, <1>8, <1>9 DEF ConvInv

(* The invariant: what is true of every list, snapshot, history and audit   *)
(* log after every write, every call of the model and every crash.          *)
THEOREM ConversationInvariant ==
  Spec => []ConvInv
<1>1. ConvInv /\ [Next]_vars => ConvInv'
  <2> SUFFICES ASSUME ConvInv, [Next]_vars PROVE ConvInv'
    OBVIOUS
  <2> QED BY TypeStep, ListsStep, SavedStep, TurnStep, LinesStep, PointsStep, BudgetStep DEF ConvInv
<1> QED BY InitOK, <1>1, PTL DEF Spec

(* Every variable stays in its type.                                        *)
THEOREM TypeCorrect ==
  Spec => []TypeOK
<1>1. ConvInv => TypeOK
  BY DEF ConvInv
<1> QED BY <1>1, ConversationInvariant, PTL

(* Whatever exchange load_history gives, the snapshot that before_llm_hook  *)
(* restores covers in full, unless a crash tore it between write_text's     *)
(* truncation and its write.                                                *)
THEOREM SnapshotsRemember ==
  Spec => []HistoryRemembered
<1>1. ConvInv => HistoryRemembered
  BY DEF ConvInv, LinesKept, HistoryRemembered
<1> QED BY <1>1, ConversationInvariant, PTL

(* save_session_ctx never replaces a snapshot by one that covers less:      *)
(* pruning and compressing put a summary in the place of what they take.    *)
THEOREM SavesForgetNothing ==
  Spec => NothingForgotten
<1>1. ConvInv /\ [Next]_vars => [\A s \in Sessions : Covered(ctx[s]) \subseteq Covered(ctx'[s])]_vars
  BY SnapshotsGrow
<1> QED BY <1>1, ConversationInvariant, PTL DEF Spec, NothingForgotten

(* Compressed, restored or grown, the list that goes to the model is in the *)
(* order of the conversation, and so is every snapshot.                     *)
THEOREM ListsAreOrdered ==
  Spec => []InOrder
<1>1. ConvInv => InOrder
  BY DEF ConvInv, InOrder, ListOK, Ordered
<1> QED BY <1>1, ConversationInvariant, PTL

(* maybe_compress cuts where a turn begins, so no cut parts a tool call     *)
(* from its result.                                                         *)
THEOREM ResultsFollowCalls ==
  Spec => []ToolsAnswered
<1>1. ConvInv => ToolsAnswered
  BY DEF ConvInv, ToolsAnswered, ListOK, Paired
<1> QED BY <1>1, ConversationInvariant, PTL

(* prune_tool_results and maybe_compress leave the latest turns alone: what *)
(* is pruned or summarised has KeepTurns or FreshTurns turns behind it.     *)
THEOREM LatestTurnsUntouched ==
  Spec => []RecentVerbatim
<1>1. ConvInv => RecentVerbatim
  <2> SUFFICES ASSUME ConvInv, NEW list \in Lists, NEW i \in DOMAIN list, NEW id \in list[i].ids
               PROVE  /\ id[1] \in Latest(list, FreshTurns) => list[i].role # "summary"
                      /\ id[1] \in Latest(list, KeepTurns) => ~list[i].pruned
    BY DEF RecentVerbatim
  <2>1. list \in Seq(Messages) /\ Old(list)
    BY DEF ConvInv, ListOK
  <2>2. After(list, id[1]) = {u \in {jd[1] : jd \in Covered(list)} : u > id[1]}
    BY DEF After, TurnsOf
  <2>3. \A n : id[1] \in Latest(list, n) => Cardinality(After(list, id[1])) < n
    BY <2>2 DEF Latest
  <2>4. Cardinality(After(list, id[1])) \in Nat
    BY <2>1, TurnsFinite
  <2>5. /\ list[i].role = "summary" => Cardinality(After(list, id[1])) >= FreshTurns
        /\ list[i].pruned => Cardinality(After(list, id[1])) >= KeepTurns
    BY <2>1 DEF Old
  <2> QED BY <2>3, <2>4, <2>5, ConversationAssumption
<1> QED BY <1>1, ConversationInvariant, PTL

(* raw.jsonl misses of what a snapshot covers only the turns in which the   *)
(* list shrank, and one message more for each crash.                        *)
THEOREM AuditMissesFew ==
  Spec => []RawMissesCompressed
<1>1. ConvInv => RawMissesCompressed
  <2> SUFFICES ASSUME ConvInv, NEW s \in Sessions PROVE Cardinality(Unlogged(s)) <= crashes
    BY DEF RawMissesCompressed
  <2>1. Unlogged(s) = Missing(Covered(ctx[s]), raw[s], compressed)
    BY DEF Unlogged, Missing
  <2>2. Debt(Covered(ctx[s]), raw[s], compressed) <= crashes
    BY DEF ConvInv, InBudget
  <2>3. Cardinality(Unlogged(s)) \in Nat
    <3>1. ctx[s] \in Seq(Messages)
      BY DEF ConvInv, TypeOK
    <3>2. Unlogged(s) \subseteq Ids
      BY <3>1, TurnsFinite DEF Unlogged
    <3> QED BY <3>2, IdsFinite, FS_Subset, FS_CardinalityType
  <2>4. crashes \in Nat
    BY Underway
  <2> QED BY <2>1, <2>2, <2>3, <2>4 DEF Debt
<1> QED BY <1>1, ConversationInvariant, PTL
=============================================================================
