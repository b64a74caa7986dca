--------------------------- MODULE AgentTurnProofs ---------------------------
(***************************************************************************)
(* Proofs about AgentTurn, for any skills, tools, limits and numbers of    *)
(* rounds and retries: types, well-formed requests, no call run twice, the *)
(* bound on posts, one version of a skill's instructions per turn, and a   *)
(* history read page by page that comes back whole.                        *)
(***************************************************************************)
EXTENDS AgentTurn, TLAPS, SequenceTheorems, WellFoundedInduction

(* The values of the turn's state.                                          *)
Requests == [id : Nat, name : Names("main"), arg : {"ok", "None", "bad"}]
Messages == [role : {"user", "assistant", "tool"}, calls : Seq(Nat), id : Nat, len : Nat]
Frames == [who : {"main", "sub"}, inline : BOOLEAN, msgs : Seq(Messages), todo : Seq(Requests),
           rounds : Nat, pc : {"post", "tools"}, left : Nat, fresh : BOOLEAN, attempt : Nat]

(* Every call of an assistant message has its answer in its place, or is    *)
(* waiting at that place of the batch; no batch is left when posting.       *)
InPlace(msgs, todo, i, k) ==
  LET id == msgs[i].calls[k]
  IN  IF i + k <= Len(msgs) THEN msgs[i + k].role = "tool" /\ msgs[i + k].id = id
      ELSE i + k - Len(msgs) <= Len(todo) /\ todo[i + k - Len(msgs)].id = id
AllInPlace(msgs, todo) ==
  \A i \in 1..Len(msgs) : \A k \in 1..Len(msgs[i].calls) : InPlace(msgs, todo, i, k)
Answers(f) == (f.pc = "post" => f.todo = <<>>) /\ AllInPlace(f.msgs, f.todo)

(* The counters of a conversation are within their limits.                  *)
Spent(f) == f.attempt + (IF f.fresh THEN 0 ELSE RetryCount + 1)
Half(n) == n \div 2
Budget(f) ==
  f.left \in 1..MaxIterations /\ f.attempt <= RetryCount /\ f.rounds <= MaxIter[f.who]

(* What a conversation may yet post: a whole Try for each round ahead, and  *)
(* what is left of the Try under way.                                       *)
Ahead(f) ==
  IF f.inline THEN (IF f.pc = "tools" THEN Half(f.left) ELSE Half(f.left - 1))
  ELSE MaxIter[f.who] - f.rounds + (IF f.pc = "tools" THEN 1 ELSE 0)
Owed(f) == Ahead(f) * Try + (IF f.pc = "tools" THEN 0 ELSE Try - 1 - Spent(f))

(* What was posted and what the conversations may yet post fit into the     *)
(* bound.                                                                   *)
PostInv ==
  /\ posts \in Nat /\ crews \in Nat
  /\ stack # <<>> =>
       posts + Owed(stack[1]) + (IF Len(stack) = 2 THEN Owed(stack[2]) ELSE 0) <= PostBound

(* A conversation below the top waits for the call at the head of its       *)
(* batch, and only the main agent's can wait.                               *)
Stacked ==
  /\ Len(stack) <= 2
  /\ \A j \in 1..Len(stack) :
       /\ stack[j].who = IF j = 1 THEN "main" ELSE "sub"
       /\ j < Len(stack) => stack[j].pc = "tools" /\ stack[j].todo # <<>>
       /\ j > 1 => \A i \in 1..Len(stack[j].todo) : stack[j].todo[i].name \notin Skills

(* The calls that have an id and wait to be run have ids of their own, and  *)
(* none of them has run.                                                    *)
Id(j, i) == stack[j].todo[i].id
Ids ==
  /\ \A n \in 1..Len(ran) : ran[n] \in 1..used
  /\ \A j \in 1..Len(stack) : \A i \in 1..Len(stack[j].todo) :
       /\ Id(j, i) <= used
       /\ Id(j, i) # 0 /\ (j = Len(stack) \/ i > 1) => \A n \in 1..Len(ran) : ran[n] # Id(j, i)
       /\ Id(j, i) # 0 => \A h \in 1..Len(stack) : \A g \in 1..Len(stack[h].todo) :
            Id(h, g) = Id(j, i) => h = j /\ g = i

(* The conversations, the ids they have used, and the calls they have run.  *)
Good(f) == f \in Frames /\ Answers(f) /\ Budget(f)
StackInv ==
  /\ stack \in Seq(Frames) /\ used \in 0..MaxCalls /\ ran \in Seq(Nat)
  /\ \A j \in 1..Len(stack) : Good(stack[j])
  /\ Stacked /\ Ids /\ RanOnce

(* The instructions handed out are the ones the loader has cached.          *)
Cached == \A a \in told : cache[a[1]] = a[2]
SkillInv ==
  /\ disk \in [Skills -> 0..MaxVersion] /\ cache \in [Skills -> 0..MaxVersion]
  /\ registry \subseteq Skills /\ told \subseteq Skills \X (1..MaxVersion)
  /\ Cached

TurnInv == StackInv /\ SkillInv

-----------------------------------------------------------------------------
(* What Last and Front give of a stack that is not empty.                   *)
LEMMA LastFront ==
  ASSUME NEW S, NEW s \in Seq(S), s # <<>>
  PROVE  /\ Len(s) \in Nat /\ Len(s) >= 1
         /\ Last(s) = s[Len(s)] /\ Last(s) \in S
         /\ Front(s) \in Seq(S) /\ Len(Front(s)) = Len(s) - 1
         /\ \A i \in 1..(Len(s) - 1) : Front(s)[i] = s[i]
<1>1. Len(s) \in Nat /\ Len(s) >= 1
  BY EmptySeq
<1>2. \A i \in 1..Len(s) : s[i] \in S
  BY ElementOfSeq
<1>3. /\ Front(s) \in Seq(S) /\ Len(Front(s)) = Len(s) - 1
      /\ \A i \in 1..(Len(s) - 1) : Front(s)[i] = s[i]
  <2>1. \A i \in 1..(Len(s) - 1) : s[i] \in S
    BY <1>1, <1>2
  <2>2. Len(s) - 1 \in Int /\ 1 \in Int
    BY <1>1
  <2>3. /\ SubSeq(s, 1, Len(s) - 1) \in Seq(S)
        /\ Len(SubSeq(s, 1, Len(s) - 1)) = IF 1 <= Len(s) - 1 THEN Len(s) - 1 - 1 + 1 ELSE 0
        /\ \A i \in 1..(Len(s) - 1 - 1 + 1) : SubSeq(s, 1, Len(s) - 1)[i] = s[1 + i - 1]
    BY <2>1, <2>2, SubSeqProperties
  <2>4. Front(s) = SubSeq(s, 1, Len(s) - 1)
    BY DEF Front
  <2>5. Front(s) \in Seq(S) /\ Len(Front(s)) = Len(s) - 1
    <3>1. \A n \in Nat : n >= 1 => (IF 1 <= n - 1 THEN n - 1 - 1 + 1 ELSE 0) = n - 1
      OBVIOUS
    <3> QED BY <1>1, <2>3, <2>4, <3>1, Zenon
  <2>6. ASSUME NEW i \in 1..(Len(s) - 1) PROVE Front(s)[i] = s[i]
    BY <1>1, <2>3, <2>4
  <2> QED BY <2>5, <2>6
<1> QED BY <1>1, <1>2, <1>3 DEF Last

(* With replaces the conversation on top and nothing else.                  *)
LEMMA WithEffect ==
  ASSUME NEW S, stack \in Seq(S), stack # <<>>, NEW f \in S, With(f)
  PROVE  /\ stack' \in Seq(S) /\ Len(stack') = Len(stack) /\ Len(stack) \in Nat /\ Len(stack) >= 1
         /\ \A j \in 1..Len(stack) : stack'[j] = IF j = Len(stack) THEN f ELSE stack[j]
<1>1. stack' = Append(Front(stack), f)
  BY DEF With
<1>2. Front(stack) \in Seq(S) /\ Len(Front(stack)) = Len(stack) - 1 /\ Len(stack) \in Nat /\ Len(stack) >= 1
      /\ \A i \in 1..(Len(stack) - 1) : Front(stack)[i] = stack[i]
  BY LastFront
<1> QED BY <1>1, <1>2, AppendProperties

(* Unwind ends the stack, or answers the call the conversation below waits  *)
(* for.                                                                     *)
LEMMA UnwindEffect ==
  ASSUME NEW S, stack \in Seq(S), stack # <<>>, Unwind,
         \A n \in Lengths : Len(stack) > 1 => Answered(stack[Len(stack) - 1], n) \in S
  PROVE  \/ Len(stack) = 1 /\ stack' = <<>>
         \/ /\ Len(stack) > 1
            /\ \E n \in Lengths :
                 /\ stack' \in Seq(S) /\ Len(stack') = Len(stack) - 1
                 /\ \A j \in 1..(Len(stack) - 1) :
                      stack'[j] = IF j = Len(stack) - 1 THEN Answered(stack[j], n) ELSE stack[j]
<1>1. CASE Len(stack) = 1
  BY <1>1 DEF Unwind
<1>2. CASE Len(stack) # 1
  <2>1. PICK n \in Lengths :
          stack' = Append(Front(Front(stack)), Answered(stack[Len(stack) - 1], n))
    BY <1>2 DEF Unwind
  <2>2. /\ Len(stack) \in Nat /\ Len(stack) >= 1
        /\ Front(stack) \in Seq(S) /\ Len(Front(stack)) = Len(stack) - 1
        /\ \A i \in 1..(Len(stack) - 1) : Front(stack)[i] = stack[i]
    BY LastFront
  <2>3. Len(stack) > 1
    <3>1. \A l \in Nat : l >= 1 /\ l # 1 => l > 1
      OBVIOUS
    <3> QED BY <1>2, <2>2, <3>1, Zenon
  <2>4. Front(stack) # <<>>
    BY <2>2, <2>3
  <2> DEFINE g == Front(stack)
             a == Answered(stack[Len(stack) - 1], n)
  <2>5. /\ Front(g) \in Seq(S) /\ Len(Front(g)) = Len(g) - 1
        /\ \A i \in 1..(Len(g) - 1) : Front(g)[i] = g[i]
    BY <2>2, <2>4, LastFront
  <2>6. a \in S
    BY <2>3
  <2> HIDE DEF a, g
  <2>7. /\ stack' \in Seq(S) /\ Len(stack') = Len(Front(g)) + 1
        /\ \A i \in 1..Len(Front(g)) : stack'[i] = Front(g)[i]
        /\ stack'[Len(Front(g)) + 1] = a
    BY <2>1, <2>5, <2>6, AppendProperties DEF a, g
  <2>8. Len(g) = Len(stack) - 1 /\ \A i \in 1..(Len(stack) - 1) : g[i] = stack[i]
    BY <2>2 DEF g
  <2>9. Len(stack') = Len(stack) - 1
    BY <2>2, <2>5, <2>7, <2>8
  <2>10. ASSUME NEW j \in 1..(Len(stack) - 1)
         PROVE  stack'[j] = IF j = Len(stack) - 1 THEN Answered(stack[j], n) ELSE stack[j]
    <3>1. CASE j = Len(stack) - 1
      <4>1. Len(Front(g)) + 1 = j
        BY <2>2, <2>5, <2>8, <3>1
      <4> QED BY <2>7, <3>1, <4>1 DEF a
    <3>2. CASE j # Len(stack) - 1
      <4>1. j \in 1..Len(Front(g)) /\ j \in 1..(Len(g) - 1)
        BY <2>2, <2>5, <2>8, <3>2
      <4> QED BY <2>5, <2>7, <2>8, <3>2, <4>1
    <3> QED BY <3>1, <3>2
  <2> QED BY <2>3, <2>7, <2>9, <2>10
<1> QED BY <1>1, <1>2

-----------------------------------------------------------------------------
(* The arithmetic of rounds: one round fewer, and none left over.           *)
LEMMA RoundArithmetic ==
  /\ \A h, w \in Int : (h - 1) * w = h * w - w
  /\ \A h, w \in Nat : h * w \in Nat /\ (h >= 1 => h * w >= w)
  /\ \A l \in Nat : Half(l) \in Nat /\ Half(l + 1) \in Nat
  /\ \A l \in Nat : l >= 1 => /\ Half(l + 1) >= 1
                              /\ Half(l - 1) = Half(l + 1) - 1
                              /\ Half(l - 1 + 1) = Half(l)
<1>1. \A h, w \in Int : (h - 1) * w = h * w - w
  OBVIOUS
<1>2. \A h, w \in Nat : h * w \in Nat /\ (h >= 1 => h * w >= w)
  OBVIOUS
<1>3. \A l \in Nat : Half(l) \in Nat /\ Half(l + 1) \in Nat
  BY DEF Half
<1>4. \A l \in Nat : l >= 1 => /\ Half(l + 1) >= 1
                               /\ Half(l - 1) = Half(l + 1) - 1
                               /\ Half(l - 1 + 1) = Half(l)
  BY DEF Half
<1> QED BY <1>1, <1>2, <1>3, <1>4

(* A round's posts and a conversation's rounds are numbers.                 *)
LEMMA BoundFacts ==
  /\ Try \in Nat /\ Try = RetryCount + RetryCount + 2 /\ RetryCount \in Nat
  /\ MaxIterations \in Nat /\ MaxIterations >= 1
  /\ MaxIter["main"] \in Nat /\ MaxIter["sub"] \in Nat
  BY TurnAssumption DEF Try

-----------------------------------------------------------------------------
(* What the client does to the conversation on top keeps it good.           *)

(* A conversation starts with its prompt and the whole budget.              *)
LEMMA FreshGood ==
  ASSUME NEW who \in {"main", "sub"}, NEW inline \in BOOLEAN
  PROVE  Good(Fresh(who, inline)) /\ Fresh(who, inline).todo = <<>>
         /\ Fresh(who, inline).who = who
<1> DEFINE f == Fresh(who, inline)
<1> DEFINE o == [who |-> who, inline |-> inline, msgs |-> <<User>>, todo |-> <<>>, rounds |-> 0,
                 pc |-> "post", left |-> 0, fresh |-> TRUE, attempt |-> 0]
<1>2. User \in Messages /\ User.calls = <<>>
  BY DEF User, Messages
<1>3. <<User>> \in Seq(Messages) /\ Len(<<User>>) = 1 /\ <<User>>[1] = User
  BY <1>2
<1>4. o \in Frames
  BY <1>3 DEF Frames
<1>1. f \in Frames /\ f.msgs = <<User>> /\ f.todo = <<>> /\ f.pc = "post" /\ f.who = who
      /\ f.left = MaxIterations /\ f.fresh = TRUE /\ f.attempt = 0 /\ f.rounds = 0
  BY <1>4, TurnAssumption DEF Frames, Fresh, Opened
<1>5. Answers(f)
  BY <1>1, <1>2, <1>3 DEF Answers, AllInPlace
<1>6. Budget(f)
  BY <1>1, BoundFacts DEF Budget
<1> QED BY <1>1, <1>5, <1>6 DEF Good

(* A failed post and an empty answer leave the conversation to be posted    *)
(* again.                                                                   *)
LEMMA RepeatGood ==
  ASSUME NEW f, Good(f), f.pc = "post"
  PROVE  /\ f.attempt < RetryCount => Good(Retry(f)) /\ Retry(f).todo = f.todo
                                      /\ Retry(f).who = f.who
         /\ f.fresh => Good(EmptyRepeat(f)) /\ EmptyRepeat(f).todo = f.todo
                       /\ EmptyRepeat(f).who = f.who
<1>1. f \in Frames /\ Answers(f) /\ Budget(f)
  BY DEF Good
<1>2. RetryCount \in Nat /\ f.attempt \in Nat
  BY <1>1, BoundFacts DEF Frames
<1>3. ASSUME f.attempt < RetryCount
      PROVE  Good(Retry(f)) /\ Retry(f).todo = f.todo /\ Retry(f).who = f.who
  <2> DEFINE g == Retry(f)
  <2>1. g = [f EXCEPT !.attempt = f.attempt + 1] /\ f.attempt + 1 \in Nat
    BY <1>1, <1>2 DEF Retry, Frames
  <2> HIDE DEF g
  <2>2. /\ g \in Frames /\ g.msgs = f.msgs /\ g.todo = f.todo /\ g.pc = f.pc /\ g.who = f.who
        /\ g.left = f.left /\ g.rounds = f.rounds /\ g.attempt = f.attempt + 1
    BY <1>1, <2>1 DEF Frames
  <2>3. Answers(g) /\ Budget(g)
    BY <1>1, <1>2, <1>3, <2>2 DEF Answers, Budget
  <2> QED BY <2>2, <2>3 DEF Good, g
<1>4. ASSUME f.fresh
      PROVE  Good(EmptyRepeat(f)) /\ EmptyRepeat(f).todo = f.todo /\ EmptyRepeat(f).who = f.who
  <2> DEFINE g == EmptyRepeat(f)
  <2>1. g = [f EXCEPT !.fresh = FALSE, !.attempt = 0]
    BY DEF EmptyRepeat
  <2> HIDE DEF g
  <2>2. /\ g \in Frames /\ g.msgs = f.msgs /\ g.todo = f.todo /\ g.pc = f.pc /\ g.who = f.who
        /\ g.left = f.left /\ g.rounds = f.rounds /\ g.attempt = 0
    BY <1>1, <2>1 DEF Frames
  <2>3. Answers(g) /\ Budget(g)
    BY <1>1, <1>2, <2>2 DEF Answers, Budget
  <2> QED BY <2>2, <2>3 DEF Good, g
<1> QED BY <1>3, <1>4

(* The answer to the head of the batch takes its place behind the message   *)
(* that asked for it.                                                       *)
LEMMA AnsweredGood ==
  ASSUME NEW f, Good(f), f.pc = "tools", f.todo # <<>>, NEW n \in Nat
  PROVE  Good(Answered(f, n)) /\ Answered(f, n).todo = Tail(f.todo)
         /\ Answered(f, n).who = f.who /\ Answered(f, n).pc = "tools"
<1>1. f \in Frames /\ Answers(f) /\ Budget(f)
  BY DEF Good
<1> DEFINE h == Head(f.todo)
           r == Result(h.id, n)
           g == Answered(f, n)
<1>2. /\ f.todo \in Seq(Requests) /\ f.msgs \in Seq(Messages)
      /\ Len(f.todo) \in Nat /\ Len(f.msgs) \in Nat /\ Len(f.todo) >= 1
  BY <1>1, EmptySeq DEF Frames
<1>3. /\ h \in Requests /\ h = f.todo[1] /\ Tail(f.todo) \in Seq(Requests)
      /\ Len(Tail(f.todo)) = Len(f.todo) - 1
      /\ \A i \in 1..Len(Tail(f.todo)) : Tail(f.todo)[i] = f.todo[i + 1]
  BY <1>2, HeadTailProperties
<1>4. r \in Messages /\ r.role = "tool" /\ r.id = h.id /\ r.calls = <<>>
  BY <1>3 DEF Result, Messages, Requests
<1>5. g = [f EXCEPT !.msgs = Append(f.msgs, r), !.todo = Tail(f.todo)]
  BY <1>1 DEF Answered, Frames
<1> HIDE DEF h, r
<1>6. /\ Append(f.msgs, r) \in Seq(Messages) /\ Len(Append(f.msgs, r)) = Len(f.msgs) + 1
      /\ \A i \in 1..Len(f.msgs) : Append(f.msgs, r)[i] = f.msgs[i]
      /\ Append(f.msgs, r)[Len(f.msgs) + 1] = r
  BY <1>2, <1>4, AppendProperties
<1>7. g \in Frames
  BY <1>1, <1>3, <1>5, <1>6 DEF Frames
<1>8. /\ g.msgs = Append(f.msgs, r) /\ g.todo = Tail(f.todo) /\ g.pc = f.pc /\ g.who = f.who
      /\ g.left = f.left /\ g.fresh = f.fresh /\ g.attempt = f.attempt /\ g.rounds = f.rounds
      /\ g.inline = f.inline
  BY <1>1, <1>5 DEF Frames
<1> HIDE DEF g
<1>9. Budget(g)
  BY <1>1, <1>8 DEF Budget
<1>10. ASSUME NEW i \in 1..Len(g.msgs), NEW k \in 1..Len(g.msgs[i].calls)
       PROVE  InPlace(g.msgs, g.todo, i, k)
  <2>1. i <= Len(f.msgs)
    <3>1. CASE i = Len(f.msgs) + 1
      <4>1. g.msgs[i].calls = <<>>
        BY <1>4, <1>6, <1>8, <3>1
      <4> QED BY <4>1
    <3> QED BY <3>1, <1>2, <1>6, <1>8
  <2>2. g.msgs[i] = f.msgs[i] /\ i \in 1..Len(f.msgs) /\ f.msgs[i] \in Messages
    BY <2>1, <1>2, <1>6, <1>8, ElementOfSeq
  <2>3. k \in Nat /\ k >= 1 /\ k \in 1..Len(f.msgs[i].calls)
    BY <2>2
  <2>4. InPlace(f.msgs, f.todo, i, k)
    BY <1>1, <2>2, <2>3 DEF Answers, AllInPlace
  <2> DEFINE l == Len(f.msgs)
             id == f.msgs[i].calls[k]
  <2>5. l \in Nat /\ Len(g.msgs) = l + 1 /\ g.msgs[i].calls[k] = id /\ i \in Nat
    BY <1>2, <1>6, <1>8, <2>2
  <2>6. CASE i + k <= l
    <3>1. g.msgs[i + k] = f.msgs[i + k] /\ i + k <= l + 1
      BY <1>2, <1>6, <1>8, <2>3, <2>6
    <3>2. f.msgs[i + k].role = "tool" /\ f.msgs[i + k].id = id
      BY <2>4, <2>6 DEF InPlace
    <3> HIDE DEF l, id
    <3> QED BY <2>5, <3>1, <3>2 DEF InPlace
  <2>7. CASE i + k = l + 1
    <3>1. g.msgs[i + k] = r /\ i + k <= l + 1 /\ ~(i + k <= l) /\ i + k - l = 1
      BY <1>2, <1>6, <1>8, <2>3, <2>5, <2>7
    <3>2. f.todo[1].id = id
      BY <2>4, <3>1 DEF InPlace
    <3> HIDE DEF l, id
    <3> QED BY <1>3, <1>4, <2>5, <3>1, <3>2 DEF InPlace
  <2>8. CASE i + k > l + 1
    <3> DEFINE m == i + k - l
    <3>1. /\ m \in Nat /\ m >= 2 /\ ~(i + k <= l) /\ ~(i + k <= l + 1)
          /\ i + k - (l + 1) = m - 1
      BY <2>3, <2>5, <2>8
    <3>2. m <= Len(f.todo) /\ f.todo[m].id = id
      BY <2>4, <3>1 DEF InPlace
    <3> HIDE DEF m, l, id
    <3>3. m - 1 \in 1..Len(Tail(f.todo)) /\ m - 1 + 1 = m
      BY <1>2, <1>3, <3>1, <3>2
    <3>4. g.todo[m - 1] = f.todo[m] /\ m - 1 <= Len(g.todo)
      BY <1>3, <1>8, <3>3
    <3>5. i + k - Len(g.msgs) = m - 1 /\ ~(i + k <= Len(g.msgs))
      BY <2>5, <3>1
    <3> QED BY <2>5, <3>2, <3>4, <3>5 DEF InPlace
  <2> HIDE DEF l, id
  <2>9. i + k <= l \/ i + k = l + 1 \/ i + k > l + 1
    <3>1. \A a, b, c \in Nat : a + b <= c \/ a + b = c + 1 \/ a + b > c + 1
      OBVIOUS
    <3>2. i \in Nat /\ k \in Nat /\ l \in Nat
      BY <2>3, <2>5, Zenon
    <3> QED BY <3>1, <3>2, Zenon
  <2> QED BY <2>6, <2>7, <2>8, <2>9
<1>11. Answers(g)
  BY <1>8, <1>10 DEF Answers, AllInPlace
<1> QED BY <1>7, <1>8, <1>9, <1>11 DEF Good, g

(* A sequence made from another one, position by position, is as long.      *)
LEMMA MappedSeq ==
  ASSUME NEW S, NEW T, NEW s \in Seq(S), NEW t \in [DOMAIN s -> T]
  PROVE  t \in Seq(T) /\ Len(t) = Len(s)
<1>1. Len(s) \in Nat /\ DOMAIN s = 1..Len(s)
  BY LenProperties
<1>2. t \in Seq(T)
  BY <1>1, SeqDef
<1>3. Len(t) \in Nat /\ DOMAIN t = 1..Len(t)
  BY <1>2, LenProperties
<1>4. \A m, n \in Nat : 1..m = 1..n => m = n
  OBVIOUS
<1> QED BY <1>1, <1>2, <1>3, <1>4, Zenon

(* Normalising arguments leaves ids and names alone.                        *)
LEMMA NormalizedSeq ==
  ASSUME NEW batch \in Seq(Requests)
  PROVE  /\ Normalized(batch) \in Seq(Requests) /\ Len(Normalized(batch)) = Len(batch)
         /\ \A i \in 1..Len(batch) : /\ Normalized(batch)[i].id = batch[i].id
                                     /\ Normalized(batch)[i].name = batch[i].name
<1>1. DOMAIN batch = 1..Len(batch) /\ \A i \in 1..Len(batch) : batch[i] \in Requests
  BY LenProperties, ElementOfSeq
<1>2. ASSUME NEW i \in 1..Len(batch)
      PROVE  LET c == IF batch[i].arg = "None" THEN [batch[i] EXCEPT !.arg = "ok"] ELSE batch[i]
             IN  c \in Requests /\ c.id = batch[i].id /\ c.name = batch[i].name
  BY <1>1 DEF Requests
<1>3. Normalized(batch) \in [DOMAIN batch -> Requests]
  BY <1>1, <1>2 DEF Normalized
<1>4. Normalized(batch) \in Seq(Requests) /\ Len(Normalized(batch)) = Len(batch)
  BY <1>3, MappedSeq
<1>5. ASSUME NEW i \in 1..Len(batch)
      PROVE  Normalized(batch)[i].id = batch[i].id /\ Normalized(batch)[i].name = batch[i].name
  BY <1>1, <1>2 DEF Normalized
<1> QED BY <1>4, <1>5

(* Results go back when the batch is done; inline, that is another round.   *)
LEMMA ResultsGood ==
  ASSUME NEW f, Good(f), f.pc = "tools", f.todo = <<>>
  PROVE  /\ ~f.inline => /\ Good([f EXCEPT !.pc = "post"])
                         /\ [f EXCEPT !.pc = "post"].todo = f.todo
                         /\ [f EXCEPT !.pc = "post"].who = f.who
         /\ f.inline /\ ~(f.left - 1 <= 0) => /\ Good(Recurse(f)) /\ Recurse(f).todo = f.todo
                                              /\ Recurse(f).who = f.who
<1>1. f \in Frames /\ Answers(f) /\ Budget(f)
  BY DEF Good
<1>2. f.left \in Nat /\ MaxIterations \in Nat
  BY <1>1, BoundFacts DEF Frames
<1>3. ASSUME ~f.inline
      PROVE  LET g == [f EXCEPT !.pc = "post"]
             IN  Good(g) /\ g.todo = f.todo /\ g.who = f.who
  <2> DEFINE g == [f EXCEPT !.pc = "post"]
  <2>1. /\ g \in Frames /\ g.msgs = f.msgs /\ g.todo = f.todo /\ g.who = f.who /\ g.pc = "post"
        /\ g.left = f.left /\ g.attempt = f.attempt /\ g.rounds = f.rounds
    BY <1>1 DEF Frames
  <2> HIDE DEF g
  <2>2. Answers(g)
    BY <1>1, <2>1 DEF Answers
  <2>3. Budget(g)
    BY <1>1, <2>1 DEF Budget
  <2> QED BY <2>1, <2>2, <2>3 DEF Good, g
<1>4. ASSUME f.inline, ~(f.left - 1 <= 0)
      PROVE  Good(Recurse(f)) /\ Recurse(f).todo = f.todo /\ Recurse(f).who = f.who
  <2> DEFINE g == Recurse(f)
  <2>1. f.left - 1 \in Nat /\ f.left - 1 >= 1 /\ f.left >= 1
    BY <1>2, <1>4
  <2>2. g = [f EXCEPT !.left = f.left - 1, !.pc = "post"]
    BY <1>1 DEF Recurse, Frames
  <2>3. /\ g \in Frames /\ g.msgs = f.msgs /\ g.todo = f.todo /\ g.who = f.who /\ g.pc = "post"
        /\ g.left = f.left - 1 /\ g.attempt = f.attempt /\ g.rounds = f.rounds
    BY <1>1, <2>1, <2>2 DEF Frames
  <2> HIDE DEF g
  <2>4. Answers(g)
    BY <1>1, <2>3 DEF Answers
  <2>5. Budget(g)
    BY <1>1, <1>2, <2>1, <2>3 DEF Budget
  <2> QED BY <2>3, <2>4, <2>5 DEF Good, g
<1> QED BY <1>3, <1>4

(* A message that asks for a batch, at the end of the messages, has all its *)
(* calls waiting.                                                           *)
LEMMA AskedInPlace ==
  ASSUME NEW msgs \in Seq(Messages), AllInPlace(msgs, <<>>),
         NEW batch \in Seq(Requests)
  PROVE  /\ Assistant(batch) \in Messages
         /\ Append(msgs, Assistant(batch)) \in Seq(Messages)
         /\ AllInPlace(Append(msgs, Assistant(batch)), batch)
<1> DEFINE a == Assistant(batch)
           l == Len(msgs)
           new == Append(msgs, a)
<1>1. /\ DOMAIN batch = 1..Len(batch) /\ Len(batch) \in Nat
      /\ \A i \in 1..Len(batch) : batch[i] \in Requests
  BY LenProperties, ElementOfSeq
<1>2. a.calls \in [DOMAIN batch -> Nat] /\ \A k \in 1..Len(batch) : a.calls[k] = batch[k].id
  BY <1>1 DEF Assistant, Requests
<1>3. a.calls \in Seq(Nat) /\ Len(a.calls) = Len(batch)
  BY <1>2, MappedSeq
<1>4. a \in Messages
  BY <1>3 DEF Assistant, Messages
<1> HIDE DEF a
<1>5. /\ new \in Seq(Messages) /\ Len(new) = l + 1 /\ l \in Nat
      /\ \A i \in 1..l : new[i] = msgs[i]
      /\ new[l + 1] = a
  BY <1>4, AppendProperties, LenProperties
<1>6. ASSUME NEW i \in 1..Len(new), NEW k \in 1..Len(new[i].calls)
      PROVE  InPlace(new, batch, i, k)
  <2>1. i \in Nat /\ k \in Nat /\ k >= 1 /\ (i <= l \/ i = l + 1)
    BY <1>5
  <2>2. CASE i <= l
    <3>1. i \in 1..l /\ new[i] = msgs[i]
      BY <1>5, <2>1, <2>2
    <3>2. InPlace(msgs, <<>>, i, k)
      BY <3>1 DEF AllInPlace
    <3>3. i + k <= Len(msgs)
      <4>1. ~(i + k <= Len(msgs)) => i + k - Len(msgs) <= Len(<<>>)
        BY <3>2 DEF InPlace
      <4>2. Len(<<>>) = 0
        OBVIOUS
      <4> QED BY <1>5, <2>1, <4>1, <4>2
    <3>4. new[i + k] = msgs[i + k] /\ i + k <= Len(new)
      BY <1>5, <2>1, <3>3
    <3> QED BY <3>1, <3>2, <3>3, <3>4 DEF InPlace
  <2>3. CASE i = l + 1
    <3>1. new[i] = a /\ k \in 1..Len(batch) /\ a.calls[k] = batch[k].id
      BY <1>2, <1>3, <1>5, <2>3
    <3>2. ~(i + k <= Len(new)) /\ i + k - Len(new) = k /\ k <= Len(batch)
      BY <1>1, <1>5, <2>1, <2>3, <3>1
    <3> QED BY <3>1, <3>2 DEF InPlace
  <2> QED BY <2>1, <2>2, <2>3
<1> QED BY <1>4, <1>5, <1>6 DEF AllInPlace, a

(* A round opens with a batch: inline it takes from max_iterations, and     *)
(* from the executor's rounds otherwise.                                    *)
LEMMA BatchGood ==
  ASSUME NEW f, Good(f), f.pc = "post", NEW batch \in Seq(Requests)
  PROVE  /\ f.inline /\ ~(f.left - 1 <= 0) =>
              LET g == [TakeBatch(f, batch) EXCEPT !.left = @ - 1]
              IN  Good(g) /\ g.todo = batch /\ g.who = f.who
         /\ ~f.inline /\ f.rounds < MaxIter[f.who] =>
              LET g == [Opened(TakeBatch(f, Normalized(batch))) EXCEPT !.rounds = @ + 1]
              IN  Good(g) /\ g.todo = Normalized(batch) /\ g.who = f.who
<1>1. f \in Frames /\ Answers(f) /\ Budget(f)
  BY DEF Good
<1>2. /\ f.left \in Nat /\ f.attempt \in Nat /\ f.rounds \in Nat /\ MaxIter[f.who] \in Nat
      /\ RetryCount \in Nat /\ MaxIterations \in Nat /\ MaxIterations >= 1
  BY <1>1, BoundFacts DEF Frames
<1>3. f.msgs \in Seq(Messages) /\ AllInPlace(f.msgs, <<>>)
  BY <1>1 DEF Answers, Frames
<1>4. ASSUME f.inline, ~(f.left - 1 <= 0)
      PROVE  LET g == [TakeBatch(f, batch) EXCEPT !.left = @ - 1]
             IN  Good(g) /\ g.todo = batch /\ g.who = f.who
  <2> DEFINE g == [TakeBatch(f, batch) EXCEPT !.left = @ - 1]
             new == Append(f.msgs, Assistant(batch))
  <2>1. g = [f EXCEPT !.msgs = new, !.todo = batch, !.pc = "tools", !.fresh = TRUE,
                      !.attempt = 0, !.left = f.left - 1]
    BY <1>1 DEF TakeBatch, Frames
  <2>2. f.left - 1 \in Nat /\ f.left - 1 >= 1 /\ f.left >= 1
    BY <1>2, <1>4
  <2>3. new \in Seq(Messages) /\ AllInPlace(new, batch)
    BY <1>3, AskedInPlace
  <2> HIDE DEF g, new
  <2>4. /\ g \in Frames /\ g.msgs = new /\ g.todo = batch /\ g.pc = "tools" /\ g.who = f.who
        /\ g.attempt = 0 /\ g.left = f.left - 1 /\ g.rounds = f.rounds
    BY <1>1, <2>1, <2>2, <2>3 DEF Frames
  <2>5. Answers(g)
    BY <2>3, <2>4 DEF Answers
  <2>6. Budget(g)
    BY <1>1, <1>2, <2>2, <2>4 DEF Budget
  <2> QED BY <2>4, <2>5, <2>6 DEF Good, g
<1>5. ASSUME ~f.inline, f.rounds < MaxIter[f.who]
      PROVE  LET g == [Opened(TakeBatch(f, Normalized(batch))) EXCEPT !.rounds = @ + 1]
             IN  Good(g) /\ g.todo = Normalized(batch) /\ g.who = f.who
  <2> DEFINE g == [Opened(TakeBatch(f, Normalized(batch))) EXCEPT !.rounds = @ + 1]
             b == Normalized(batch)
             new == Append(f.msgs, Assistant(b))
  <2>1. g = [f EXCEPT !.msgs = new, !.todo = b, !.pc = "tools", !.fresh = TRUE, !.attempt = 0,
                      !.left = MaxIterations, !.rounds = f.rounds + 1]
    BY <1>1 DEF TakeBatch, Opened, Frames
  <2>2. b \in Seq(Requests) /\ f.rounds + 1 \in Nat
    BY <1>2, NormalizedSeq
  <2> HIDE DEF b
  <2>3. new \in Seq(Messages) /\ AllInPlace(new, b)
    BY <1>3, <2>2, AskedInPlace
  <2> HIDE DEF g, new
  <2>4. /\ g \in Frames /\ g.msgs = new /\ g.todo = b /\ g.pc = "tools" /\ g.who = f.who
        /\ g.attempt = 0 /\ g.left = MaxIterations /\ g.rounds = f.rounds + 1
    BY <1>1, <1>2, <2>1, <2>2, <2>3 DEF Frames
  <2>5. Answers(g)
    BY <2>3, <2>4 DEF Answers
  <2>6. Budget(g)
    BY <1>2, <1>5, <2>4 DEF Budget
  <2> QED BY <2>4, <2>5, <2>6 DEF Good, g, b
<1> QED BY <1>4, <1>5

(* A batch numbers its calls after the ones given out so far, and a         *)
(* sub-crew cannot ask for a skill.                                         *)
LEMMA BatchFacts ==
  ASSUME NEW f, f.who \in {"main", "sub"}, used \in 0..MaxCalls, used < MaxCalls,
         NEW batch \in Batches(f)
  PROVE  /\ batch \in Seq(Requests) /\ Len(batch) \in {1, 2} /\ used + Len(batch) <= MaxCalls
         /\ \A i \in 1..Len(batch) :
              /\ batch[i].id \in {0, used + i}
              /\ f.who = "sub" => batch[i].name \notin Skills
<1> DEFINE Mine(i) == [id : {0, used + i}, name : Names(f.who), arg : {"ok", "None", "bad"}]
<1>1. used \in Nat /\ MaxCalls \in Nat
  BY TurnAssumption
<1>2. ASSUME NEW i \in {1, 2} PROVE Mine(i) \subseteq Requests
  BY <1>1 DEF Requests, Names
<1>3. \A c : f.who = "sub" /\ c \in Names(f.who) => c \notin Skills
  BY TurnAssumption DEF Names
<1>4. ASSUME NEW c \in Mine(1), batch = <<c>>
      PROVE  /\ batch \in Seq(Requests) /\ Len(batch) \in {1, 2} /\ used + Len(batch) <= MaxCalls
             /\ \A i \in 1..Len(batch) : /\ batch[i].id \in {0, used + i}
                                         /\ f.who = "sub" => batch[i].name \notin Skills
  <2>1. c \in Requests /\ Len(batch) = 1 /\ batch[1] = c
    BY <1>2, <1>4
  <2>2. c.id \in {0, used + 1} /\ (f.who = "sub" => c.name \notin Skills)
    BY <1>3
  <2> QED BY <1>1, <1>4, <2>1, <2>2
<1>5. ASSUME NEW c \in Mine(1), NEW d \in Mine(2), batch = <<c, d>>, ~(used + 2 > MaxCalls)
      PROVE  /\ batch \in Seq(Requests) /\ Len(batch) \in {1, 2} /\ used + Len(batch) <= MaxCalls
             /\ \A i \in 1..Len(batch) : /\ batch[i].id \in {0, used + i}
                                         /\ f.who = "sub" => batch[i].name \notin Skills
  <2>1. c \in Requests /\ d \in Requests /\ Len(batch) = 2 /\ batch[1] = c /\ batch[2] = d
    BY <1>2, <1>5
  <2>2. /\ c.id \in {0, used + 1} /\ (f.who = "sub" => c.name \notin Skills)
        /\ d.id \in {0, used + 2} /\ (f.who = "sub" => d.name \notin Skills)
    BY <1>3
  <2> QED BY <1>1, <1>5, <2>1, <2>2
<1>6. \/ \E c \in Mine(1) : batch = <<c>>
      \/ ~(used + 2 > MaxCalls) /\ \E c \in Mine(1), d \in Mine(2) : batch = <<c, d>>
  BY DEF Batches, Names
<1> QED BY <1>4, <1>5, <1>6

-----------------------------------------------------------------------------
(* What the steps do to the stack keeps its invariant.                      *)

(* Calls that move up by at most a place, and of which at most the head of  *)
(* the top batch runs, keep ids of their own.  d is by how much.            *)
LEMMA IdsMove ==
  ASSUME StackInv, NEW d \in [1..Len(stack') -> {0, 1}], Len(stack') \in Nat,
         \A j \in 1..Len(stack') : \A i \in 1..Len(stack'[j].todo) :
           /\ j \in 1..Len(stack) /\ i + d[j] \in 1..Len(stack[j].todo)
           /\ stack'[j].todo[i] = stack[j].todo[i + d[j]]
           /\ j = Len(stack') \/ i > 1 => j = Len(stack) \/ i + d[j] > 1,
         used' \in 0..MaxCalls, used <= used',
         \/ ran' = ran
         \/ /\ Len(stack) >= 1 /\ Len(stack[Len(stack)].todo) >= 1
            /\ Id(Len(stack), 1) # 0 /\ ran' = Append(ran, Id(Len(stack), 1))
            /\ \A j \in 1..Len(stack') : \A i \in 1..Len(stack'[j].todo) :
                 j = Len(stack') \/ i > 1 => ~(j = Len(stack) /\ i + d[j] = 1)
  PROVE  Ids' /\ RanOnce' /\ ran' \in Seq(Nat)
<1>1. /\ stack \in Seq(Frames) /\ Len(stack) \in Nat /\ ran \in Seq(Nat) /\ Len(ran) \in Nat
      /\ DOMAIN ran = 1..Len(ran) /\ used \in Nat /\ used' \in Nat
      /\ \A n \in 1..Len(ran) : ran[n] \in Nat
  BY LenProperties, ElementOfSeq, TurnAssumption DEF StackInv
<1>2. ASSUME NEW j \in 1..Len(stack), NEW i \in 1..Len(stack[j].todo)
      PROVE  Id(j, i) \in Nat /\ i \in Nat
  <2>1. stack[j] \in Frames
    BY <1>1, ElementOfSeq
  <2>2. stack[j].todo \in Seq(Requests)
    BY <2>1 DEF Frames
  <2>3. stack[j].todo[i] \in Requests
    BY <2>2, ElementOfSeq
  <2> QED BY <2>3 DEF Requests, Id
<1>3. /\ \A n \in 1..Len(ran) : ran[n] \in 1..used
      /\ \A j \in 1..Len(stack) : \A i \in 1..Len(stack[j].todo) :
           /\ Id(j, i) <= used
           /\ Id(j, i) # 0 /\ (j = Len(stack) \/ i > 1) =>
                \A n \in 1..Len(ran) : ran[n] # Id(j, i)
           /\ Id(j, i) # 0 => \A h \in 1..Len(stack) : \A g \in 1..Len(stack[h].todo) :
                Id(h, g) = Id(j, i) => h = j /\ g = i
  BY DEF StackInv, Ids
<1>4. \A j \in 1..Len(stack') : \A i \in 1..Len(stack'[j].todo) :
        /\ j \in 1..Len(stack) /\ i + d[j] \in 1..Len(stack[j].todo)
        /\ Id(j, i)' = Id(j, i + d[j])
  BY DEF Id
<1> DEFINE top == Id(Len(stack), 1)
<1>5. /\ ran' \in Seq(Nat) /\ Len(ran') \in Nat
      /\ \A n \in 1..Len(ran') : ran'[n] \in 1..used
      /\ \A m, n \in 1..Len(ran') : ran'[m] = ran'[n] => m = n
      /\ \A j \in 1..Len(stack) : \A i \in 1..Len(stack[j].todo) :
           /\ Id(j, i) # 0 /\ (j = Len(stack) \/ i > 1)
           /\ ran' = ran \/ ~(j = Len(stack) /\ i = 1)
           => \A n \in 1..Len(ran') : ran'[n] # Id(j, i)
  <2>1. \A m, n \in 1..Len(ran) : ran[m] = ran[n] => m = n
    BY <1>1 DEF StackInv, RanOnce
  <2>2. CASE ran' = ran
    BY <1>1, <1>3, <2>1, <2>2
  <2>3. CASE /\ Len(stack) >= 1 /\ Len(stack[Len(stack)].todo) >= 1
             /\ top # 0 /\ ran' = Append(ran, top)
    <3>1. /\ Len(stack) \in 1..Len(stack) /\ 1 \in 1..Len(stack[Len(stack)].todo)
      <4>1. \A n \in Nat : n >= 1 => n \in 1..n /\ 1 \in 1..n
        OBVIOUS
      <4>2. Len(stack) \in 1..Len(stack)
        BY <1>1, <2>3, <4>1, Zenon
      <4>3. stack[Len(stack)] \in Frames
        BY <1>1, <4>2, ElementOfSeq
      <4>4. Len(stack[Len(stack)].todo) \in Nat
        BY <4>3, LenProperties DEF Frames
      <4> QED BY <2>3, <4>1, <4>2, <4>4, Zenon
    <3>2. /\ top \in Nat /\ top <= used /\ \A n \in 1..Len(ran) : ran[n] # top
          /\ top # 0 /\ ran' = Append(ran, top)
      BY <1>2, <1>3, <2>3, <3>1
    <3>3. \A j \in 1..Len(stack) : \A i \in 1..Len(stack[j].todo) :
            Id(j, i) = top => j = Len(stack) /\ i = 1
      BY <1>3, <2>3, <3>1
    <3> HIDE DEF top
    <3>4. /\ ran' \in Seq(Nat) /\ Len(ran') = Len(ran) + 1
          /\ \A n \in 1..Len(ran) : ran'[n] = ran[n]
          /\ ran'[Len(ran) + 1] = top
      <4>1. ran \in Seq(Nat) /\ top \in Nat
        BY <1>1, <3>2
      <4>2. ran' = Append(ran, top)
        BY <3>2
      <4>3. /\ Append(ran, top) \in Seq(Nat) /\ Len(Append(ran, top)) = Len(ran) + 1
            /\ \A n \in 1..Len(ran) : Append(ran, top)[n] = ran[n]
            /\ Append(ran, top)[Len(ran) + 1] = top
        BY <4>1, AppendProperties
      <4> QED BY <4>2, <4>3, Zenon
    <3>5. \A n \in 1..Len(ran') : n \in 1..Len(ran) \/ n = Len(ran) + 1
      BY <1>1, <3>4
    <3>6. \A n \in 1..Len(ran') : ran'[n] \in 1..used
      <4>0. \A x, u \in Nat : x <= u /\ x # 0 => x \in 1..u
        OBVIOUS
      <4>1. top \in 1..used
        BY <1>1, <3>2, <4>0, Zenon
      <4> QED BY <1>3, <3>4, <3>5, <4>1
    <3>7. ASSUME NEW m \in 1..Len(ran'), NEW n \in 1..Len(ran'), ran'[m] = ran'[n]
          PROVE  m = n
      <4>1. CASE m \in 1..Len(ran) /\ n \in 1..Len(ran)
        <5>1. ran[m] = ran[n]
          BY <3>4, <3>7, <4>1, Zenon
        <5> QED BY <2>1, <4>1, <5>1, Zenon
      <4>2. CASE m \in 1..Len(ran) /\ n = Len(ran) + 1
        BY <3>2, <3>4, <3>7, <4>2, Zenon
      <4>3. CASE m = Len(ran) + 1 /\ n \in 1..Len(ran)
        BY <3>2, <3>4, <3>7, <4>3, Zenon
      <4> QED BY <3>5, <4>1, <4>2, <4>3, Zenon
    <3>8. ASSUME NEW j \in 1..Len(stack), NEW i \in 1..Len(stack[j].todo),
                 Id(j, i) # 0, j = Len(stack) \/ i > 1, ~(j = Len(stack) /\ i = 1)
          PROVE  \A n \in 1..Len(ran') : ran'[n] # Id(j, i)
      BY <1>3, <3>3, <3>4, <3>5, <3>8
    <3>9. ran' # ran
      BY <1>1, <3>4
    <3> QED BY <1>1, <3>4, <3>6, <3>7, <3>8, <3>9
  <2> QED BY <2>2, <2>3
<1>6. RanOnce'
  <2>1. DOMAIN ran' = 1..Len(ran')
    BY <1>5, LenProperties
  <2> QED BY <1>5, <2>1 DEF RanOnce
<1>7. \A n \in 1..Len(ran') : ran'[n] \in 1..used'
  BY <1>1, <1>5
<1>8. ASSUME NEW j \in 1..Len(stack'), NEW i \in 1..Len(stack'[j].todo)
      PROVE  /\ Id(j, i)' <= used'
             /\ Id(j, i)' # 0 /\ (j = Len(stack') \/ i > 1) =>
                  \A n \in 1..Len(ran') : ran'[n] # Id(j, i)'
             /\ Id(j, i)' # 0 =>
                  \A h \in 1..Len(stack') : \A g \in 1..Len(stack'[h].todo) :
                    Id(h, g)' = Id(j, i)' => h = j /\ g = i
  <2>1. /\ j \in 1..Len(stack) /\ i + d[j] \in 1..Len(stack[j].todo)
        /\ Id(j, i)' = Id(j, i + d[j]) /\ Id(j, i + d[j]) \in Nat
    BY <1>2, <1>4
  <2>2. Id(j, i)' <= used'
    BY <1>1, <1>3, <2>1
  <2>3. ASSUME Id(j, i)' # 0, j = Len(stack') \/ i > 1
        PROVE  \A n \in 1..Len(ran') : ran'[n] # Id(j, i)'
    <3>1. j = Len(stack) \/ i + d[j] > 1
      BY <2>3
    <3>2. ran' = ran \/ ~(j = Len(stack) /\ i + d[j] = 1)
      BY <2>3
    <3> QED BY <1>5, <2>1, <2>3, <3>1, <3>2
  <2>4. ASSUME Id(j, i)' # 0, NEW h \in 1..Len(stack'), NEW g \in 1..Len(stack'[h].todo),
               Id(h, g)' = Id(j, i)'
        PROVE  h = j /\ g = i
    <3>1. /\ h \in 1..Len(stack) /\ g + d[h] \in 1..Len(stack[h].todo)
          /\ Id(h, g)' = Id(h, g + d[h])
      BY <1>4
    <3>2. h = j /\ g + d[h] = i + d[j]
      BY <1>3, <2>1, <2>4, <3>1
    <3>3. g \in Int /\ i \in Int /\ d[j] \in Int
      OBVIOUS
    <3> QED BY <3>2, <3>3
  <2> QED BY <2>2, <2>3, <2>4
<1> QED BY <1>5, <1>6, <1>7, <1>8 DEF Ids

(* The conversation on top is one of the stack, and a good one.             *)
LEMMA TopFacts ==
  ASSUME StackInv, stack # <<>>
  PROVE  /\ stack \in Seq(Frames) /\ Len(stack) \in {1, 2} /\ Len(stack) \in 1..Len(stack)
         /\ Top = stack[Len(stack)] /\ Good(Top) /\ Top \in Frames
         /\ Top.todo \in Seq(Requests) /\ Len(Top.todo) \in Nat
         /\ Top.who = IF Len(stack) = 1 THEN "main" ELSE "sub"
<1>1. /\ stack \in Seq(Frames) /\ Len(stack) \in Nat /\ Len(stack) >= 1
      /\ Last(stack) = stack[Len(stack)]
  BY LastFront DEF StackInv
<1>2. Len(stack) <= 2
  BY DEF StackInv, Stacked
<1>3. \A n \in Nat : n >= 1 /\ n <= 2 => n \in {1, 2} /\ n \in 1..n
  OBVIOUS
<1>4. Len(stack) \in {1, 2} /\ Len(stack) \in 1..Len(stack)
  BY <1>1, <1>2, <1>3, Zenon
<1>5. /\ Top = stack[Len(stack)] /\ Good(Top)
      /\ Top.who = IF Len(stack) = 1 THEN "main" ELSE "sub"
  BY <1>1, <1>4 DEF Top, StackInv, Stacked
<1>6. Top \in Frames /\ Top.todo \in Seq(Requests)
  BY <1>5 DEF Good, Frames
<1> QED BY <1>1, <1>4, <1>5, <1>6, LenProperties

(* The stack's invariant but for the ids.                                   *)
FramesInv ==
  /\ stack \in Seq(Frames) /\ used \in 0..MaxCalls
  /\ \A j \in 1..Len(stack) : Good(stack[j])
  /\ Stacked

(* Replacing the top by a good conversation of the same agent whose batch   *)
(* holds calls it may make.                                                 *)
LEMMA ReplaceTop ==
  ASSUME StackInv, stack # <<>>, NEW f, Good(f), f.who = Top.who, With(f),
         used' \in 0..MaxCalls,
         Len(stack) > 1 => \A i \in 1..Len(f.todo) : f.todo[i].name \notin Skills
  PROVE  /\ FramesInv' /\ Len(stack') = Len(stack)
         /\ \A j \in 1..Len(stack) : stack'[j] = IF j = Len(stack) THEN f ELSE stack[j]
<1>1. /\ stack \in Seq(Frames) /\ Len(stack) \in {1, 2} /\ Len(stack) \in 1..Len(stack)
      /\ Top = stack[Len(stack)]
  BY TopFacts
<1>2. f \in Frames
  BY DEF Good
<1>3. /\ stack' \in Seq(Frames) /\ Len(stack') = Len(stack)
      /\ \A j \in 1..Len(stack) : stack'[j] = IF j = Len(stack) THEN f ELSE stack[j]
  BY <1>1, <1>2, WithEffect
<1>4. \A j \in 1..Len(stack') : Good(stack'[j])
  BY <1>3 DEF StackInv
<1>5. Stacked'
  <2>1. Len(stack') <= 2
    BY <1>3 DEF StackInv, Stacked
  <2>2. ASSUME NEW j \in 1..Len(stack')
        PROVE  /\ stack'[j].who = IF j = 1 THEN "main" ELSE "sub"
               /\ j < Len(stack') => stack'[j].pc = "tools" /\ stack'[j].todo # <<>>
               /\ j > 1 => \A i \in 1..Len(stack'[j].todo) : stack'[j].todo[i].name \notin Skills
    <3>1. CASE j = Len(stack)
      <4>1. stack'[j] = f /\ f.who = stack[j].who /\ j \in 1..Len(stack)
        BY <1>1, <1>3, <3>1
      <4>2. f.who = IF j = 1 THEN "main" ELSE "sub"
        BY <4>1 DEF StackInv, Stacked
      <4>3. ~(j < Len(stack')) /\ (j > 1 => Len(stack) > 1)
        BY <1>1, <1>3, <3>1
      <4> QED BY <4>1, <4>2, <4>3
    <3>2. CASE j # Len(stack)
      <4>1. stack'[j] = stack[j] /\ j \in 1..Len(stack) /\ Len(stack') = Len(stack)
        BY <1>3, <3>2
      <4> QED BY <4>1 DEF StackInv, Stacked
    <3> QED BY <3>1, <3>2
  <2> QED BY <2>1, <2>2 DEF Stacked
<1> QED BY <1>3, <1>4, <1>5 DEF FramesInv

(* A post or a send leaves the batch alone.                                 *)
LEMMA KeepTop ==
  ASSUME StackInv, stack # <<>>, NEW f, Good(f), f.who = Top.who, f.todo = Top.todo, With(f),
         UNCHANGED <<used, ran>>
  PROVE  StackInv'
<1>1. /\ stack \in Seq(Frames) /\ Len(stack) \in {1, 2} /\ Len(stack) \in 1..Len(stack)
      /\ Top = stack[Len(stack)]
  BY TopFacts
<1>2. Len(stack) > 1 => \A i \in 1..Len(f.todo) : f.todo[i].name \notin Skills
  BY <1>1 DEF StackInv, Stacked
<1>3. used' \in 0..MaxCalls /\ used <= used' /\ ran' = ran
  BY TurnAssumption DEF StackInv
<1>4. /\ FramesInv' /\ Len(stack') = Len(stack)
      /\ \A j \in 1..Len(stack) : stack'[j] = IF j = Len(stack) THEN f ELSE stack[j]
  BY <1>2, <1>3, ReplaceTop
<1>5. \A j \in 1..Len(stack) : stack'[j].todo = stack[j].todo
  BY <1>1, <1>4
<1> DEFINE d == [j \in 1..Len(stack') |-> 0]
<1>6. d \in [1..Len(stack') -> {0, 1}] /\ Len(stack') \in Nat
  BY <1>1, <1>4
<1>7. ASSUME NEW j \in 1..Len(stack'), NEW i \in 1..Len(stack'[j].todo)
      PROVE  /\ j \in 1..Len(stack) /\ i + d[j] \in 1..Len(stack[j].todo)
             /\ stack'[j].todo[i] = stack[j].todo[i + d[j]]
             /\ j = Len(stack') \/ i > 1 => j = Len(stack) \/ i + d[j] > 1
  <2>1. j \in 1..Len(stack) /\ stack'[j].todo = stack[j].todo
    BY <1>4, <1>5
  <2>2. i + d[j] = i
    OBVIOUS
  <2> QED BY <1>4, <2>1, <2>2, Zenon
<1> HIDE DEF d
<1>8. Ids' /\ RanOnce' /\ ran' \in Seq(Nat)
  BY <1>3, <1>6, <1>7, IdsMove
<1> QED BY <1>4, <1>8 DEF StackInv, FramesInv

(* Answering the call at the head, which may be the one just run.           *)
LEMMA AnswerTop ==
  ASSUME StackInv, stack # <<>>, Top.pc = "tools", Top.todo # <<>>, NEW n \in Nat,
         With(Answered(Top, n)), used' = used,
         \/ ran' = ran
         \/ Call.id # 0 /\ ran' = Append(ran, Call.id)
  PROVE  StackInv'
<1> DEFINE L == Len(stack)
           f == Answered(Top, n)
<1>1. /\ stack \in Seq(Frames) /\ L \in {1, 2} /\ L \in 1..L
      /\ Top = stack[L] /\ Good(Top) /\ Top.todo \in Seq(Requests) /\ Len(Top.todo) \in Nat
  BY TopFacts
<1>2. Good(f) /\ f.todo = Tail(Top.todo) /\ f.who = Top.who
  BY <1>1, AnsweredGood
<1>3. /\ Len(Tail(Top.todo)) = Len(Top.todo) - 1 /\ Len(Top.todo) >= 1
      /\ Call = Top.todo[1]
      /\ \A i \in 1..Len(Tail(Top.todo)) : Tail(Top.todo)[i] = Top.todo[i + 1]
  BY <1>1, HeadTailProperties, EmptySeq DEF Call
<1>4. L > 1 => \A i \in 1..Len(f.todo) : f.todo[i].name \notin Skills
  <2>1. L > 1 => \A i \in 1..Len(Top.todo) : Top.todo[i].name \notin Skills
    BY <1>1 DEF StackInv, Stacked
  <2>2. \A i \in 1..Len(f.todo) : i + 1 \in 1..Len(Top.todo) /\ f.todo[i] = Top.todo[i + 1]
    BY <1>1, <1>2, <1>3
  <2> QED BY <2>1, <2>2
<1>5. used' \in 0..MaxCalls /\ used <= used'
  BY TurnAssumption DEF StackInv
<1> HIDE DEF f
<1>6. /\ FramesInv' /\ Len(stack') = L
      /\ \A j \in 1..L : stack'[j] = IF j = L THEN f ELSE stack[j]
  BY <1>2, <1>4, <1>5, ReplaceTop DEF f
<1> DEFINE d == [j \in 1..Len(stack') |-> IF j = L THEN 1 ELSE 0]
<1>7. d \in [1..Len(stack') -> {0, 1}] /\ Len(stack') \in Nat
  BY <1>1, <1>6
<1>8. ASSUME NEW j \in 1..Len(stack'), NEW i \in 1..Len(stack'[j].todo)
      PROVE  /\ j \in 1..L /\ i + d[j] \in 1..Len(stack[j].todo)
             /\ stack'[j].todo[i] = stack[j].todo[i + d[j]]
             /\ j = Len(stack') \/ i > 1 => j = L \/ i + d[j] > 1
             /\ ~(j = L /\ i + d[j] = 1)
  <2>1. CASE j = L
    <3>1. d[j] = 1 /\ j \in 1..L /\ stack'[j].todo = Tail(Top.todo) /\ stack[j] = Top
      BY <1>1, <1>2, <1>6, <2>1
    <3>2. i + 1 \in 1..Len(Top.todo) /\ Tail(Top.todo)[i] = Top.todo[i + 1] /\ i + 1 # 1
      BY <1>1, <1>3, <3>1
    <3> QED BY <2>1, <3>1, <3>2, Zenon
  <2>2. CASE j # L
    <3>1. j \in 1..L /\ stack'[j] = stack[j] /\ i + d[j] = i /\ j # Len(stack')
      BY <1>6, <2>2
    <3> QED BY <2>2, <3>1, Zenon
  <2> QED BY <2>1, <2>2
<1> HIDE DEF d, L
<1>9. \/ ran' = ran
      \/ /\ Len(stack) >= 1 /\ Len(stack[Len(stack)].todo) >= 1
         /\ Id(Len(stack), 1) # 0 /\ ran' = Append(ran, Id(Len(stack), 1))
  BY <1>1, <1>3 DEF Id, L
<1>10. Ids' /\ RanOnce' /\ ran' \in Seq(Nat)
  BY <1>5, <1>7, <1>8, <1>9, IdsMove DEF L
<1> QED BY <1>6, <1>10 DEF StackInv, FramesInv

(* The end of a conversation: nothing waits any more, or the main agent     *)
(* goes on with the rest of its batch.                                      *)
LEMMA UnwindKeeps ==
  ASSUME StackInv, stack # <<>>, Unwind, used' \in 0..MaxCalls, used <= used', ran' = ran
  PROVE  StackInv'
<1> DEFINE L == Len(stack)
<1>1. stack \in Seq(Frames) /\ L \in {1, 2}
  BY TopFacts
<1>2. ASSUME NEW n \in Lengths, L > 1
      PROVE  /\ stack[1] \in Frames /\ stack[1].todo \in Seq(Requests) /\ stack[1].todo # <<>>
             /\ stack[1].who = "main" /\ Good(Answered(stack[1], n))
             /\ Answered(stack[1], n).todo = Tail(stack[1].todo)
             /\ Answered(stack[1], n).who = "main"
  <2>1. /\ Good(stack[1]) /\ stack[1].pc = "tools" /\ stack[1].todo # <<>>
        /\ stack[1].who = "main" /\ n \in Nat
    BY <1>1, <1>2, TurnAssumption DEF StackInv, Stacked
  <2>2. stack[1] \in Frames /\ stack[1].todo \in Seq(Requests)
    BY <2>1 DEF Good, Frames
  <2> QED BY <2>1, <2>2, AnsweredGood
<1>3. CASE L = 1
  <2>1. stack' = <<>>
    BY <1>3 DEF Unwind
  <2>2. stack' \in Seq(Frames) /\ Len(stack') = 0
    BY <2>1
  <2>3. FramesInv'
    BY <2>2 DEF FramesInv, Stacked
  <2> DEFINE d == [j \in 1..Len(stack') |-> 0]
  <2>4. d \in [1..Len(stack') -> {0, 1}] /\ Len(stack') \in Nat
    BY <2>2
  <2>5. \A j \in 1..Len(stack') : FALSE
    BY <2>2
  <2> HIDE DEF d
  <2>6. Ids' /\ RanOnce' /\ ran' \in Seq(Nat)
    BY <2>4, <2>5, IdsMove
  <2> QED BY <2>3, <2>6 DEF StackInv, FramesInv
<1>4. CASE L = 2
  <2>1. \A n \in Lengths : Len(stack) > 1 => Answered(stack[Len(stack) - 1], n) \in Frames
    BY <1>2, <1>4 DEF Good
  <2>2. PICK n \in Lengths :
          /\ stack' \in Seq(Frames) /\ Len(stack') = Len(stack) - 1
          /\ \A j \in 1..(Len(stack) - 1) :
               stack'[j] = IF j = Len(stack) - 1 THEN Answered(stack[j], n) ELSE stack[j]
    BY <1>1, <1>4, <2>1, UnwindEffect
  <2> DEFINE f == Answered(stack[1], n)
             s == stack[1].todo
  <2>3. stack' \in Seq(Frames) /\ Len(stack') = 1 /\ stack'[1] = f
    BY <1>4, <2>2
  <2>4. /\ Good(f) /\ f.todo = Tail(s) /\ f.who = "main"
        /\ s \in Seq(Requests) /\ s # <<>>
    BY <1>2, <1>4
  <2> HIDE DEF f
  <2>5. \A j \in 1..Len(stack') : j = 1
    BY <2>3
  <2>6. \A j \in 1..Len(stack') : Good(stack'[j])
    BY <2>3, <2>4, <2>5
  <2>7. Stacked'
    BY <2>3, <2>4, <2>5 DEF Stacked
  <2> HIDE DEF s
  <2>8. /\ Len(Tail(s)) = Len(s) - 1 /\ Len(s) \in Nat
        /\ \A i \in 1..Len(Tail(s)) : Tail(s)[i] = s[i + 1]
    BY <2>4, HeadTailProperties, LenProperties
  <2> DEFINE d == [j \in 1..Len(stack') |-> 1]
  <2>9. d \in [1..Len(stack') -> {0, 1}] /\ Len(stack') \in Nat
    BY <2>3
  <2>10. ASSUME NEW j \in 1..Len(stack'), NEW i \in 1..Len(stack'[j].todo)
         PROVE  /\ j \in 1..Len(stack) /\ i + d[j] \in 1..Len(stack[j].todo)
                /\ stack'[j].todo[i] = stack[j].todo[i + d[j]]
                /\ j = Len(stack') \/ i > 1 => j = Len(stack) \/ i + d[j] > 1
    <3>1. j = 1 /\ d[j] = 1 /\ stack'[j].todo = Tail(s) /\ j \in 1..Len(stack)
      BY <1>4, <2>3, <2>4, <2>5
    <3>2. i + 1 \in 1..Len(s) /\ Tail(s)[i] = s[i + 1] /\ i + 1 > 1
      BY <2>8, <3>1
    <3> QED BY <3>1, <3>2, Zenon DEF s
  <2> HIDE DEF d
  <2>11. Ids' /\ RanOnce' /\ ran' \in Seq(Nat)
    BY <2>9, <2>10, IdsMove
  <2> QED BY <2>3, <2>6, <2>7, <2>11 DEF StackInv
<1> QED BY <1>1, <1>3, <1>4

(* The main agent's call starts a sub-crew, and waits for it.               *)
Pushed(f) == stack' = Append(stack, f)
LEMMA PushKeeps ==
  ASSUME StackInv, stack # <<>>, Top.pc = "tools", Top.todo # <<>>, Call.name \in Skills,
         Call.id # 0, ran' = Append(ran, Call.id),
         Pushed(Fresh("sub", FALSE)), used' = used
  PROVE  StackInv'
<1> DEFINE s == Fresh("sub", FALSE)
<1>1. /\ stack \in Seq(Frames) /\ Len(stack) \in {1, 2} /\ Len(stack) \in 1..Len(stack)
      /\ Top = stack[Len(stack)] /\ Top.todo \in Seq(Requests)
  BY TopFacts
<1>2. Call = Top.todo[1] /\ Len(Top.todo) >= 1 /\ 1 \in 1..Len(Top.todo)
  BY <1>1, HeadTailProperties, EmptySeq DEF Call
<1>3. Len(stack) = 1
  <2>1. CASE Len(stack) = 2
    <3>1. \A i \in 1..Len(stack[2].todo) : stack[2].todo[i].name \notin Skills
      BY <2>1 DEF StackInv, Stacked
    <3>2. Call = stack[2].todo[1] /\ 1 \in 1..Len(stack[2].todo)
      BY <1>1, <1>2, <2>1
    <3> QED BY <3>1, <3>2
  <2> QED BY <1>1, <2>1
<1>4. Good(s) /\ s.todo = <<>> /\ s.who = "sub" /\ s \in Frames
  BY FreshGood DEF Good
<1> HIDE DEF s
<1>5. /\ stack' \in Seq(Frames) /\ Len(stack') = 2 /\ stack'[1] = stack[1] /\ stack'[2] = s
  <2>1. stack' = Append(stack, s)
    BY DEF s, Pushed
  <2>2. /\ Append(stack, s) \in Seq(Frames) /\ Len(Append(stack, s)) = Len(stack) + 1
        /\ \A i \in 1..Len(stack) : Append(stack, s)[i] = stack[i]
        /\ Append(stack, s)[Len(stack) + 1] = s
    BY <1>1, <1>4, AppendProperties
  <2>3. Len(stack) + 1 = 2 /\ 1 \in 1..Len(stack)
    BY <1>3
  <2> QED BY <2>1, <2>2, <2>3, Zenon
<1>6. \A j \in 1..Len(stack') : j = 1 \/ j = 2
  BY <1>5
<1>7. \A j \in 1..Len(stack') : Good(stack'[j])
  BY <1>1, <1>3, <1>4, <1>5, <1>6 DEF StackInv
<1>8. Stacked'
  <2>1. stack[1].who = "main" /\ stack[1].pc = "tools" /\ stack[1].todo # <<>>
    BY <1>1, <1>3 DEF StackInv, Stacked
  <2>2. \A i \in 1..Len(s.todo) : FALSE
    BY <1>4
  <2>3. ASSUME NEW j \in 1..Len(stack')
        PROVE  /\ stack'[j].who = IF j = 1 THEN "main" ELSE "sub"
               /\ j < Len(stack') => stack'[j].pc = "tools" /\ stack'[j].todo # <<>>
               /\ j > 1 => \A i \in 1..Len(stack'[j].todo) : stack'[j].todo[i].name \notin Skills
    <3>1. CASE j = 1
      BY <1>5, <2>1, <3>1
    <3>2. CASE j = 2
      <4>1. stack'[j] = s /\ ~(j < Len(stack')) /\ j # 1
        BY <1>5, <3>2
      <4> QED BY <1>4, <2>2, <4>1
    <3> QED BY <1>6, <3>1, <3>2
  <2> QED BY <1>5, <2>3 DEF Stacked
<1> DEFINE d == [j \in 1..Len(stack') |-> 0]
<1>9. d \in [1..Len(stack') -> {0, 1}] /\ Len(stack') \in Nat
  BY <1>5
<1>10. ASSUME NEW j \in 1..Len(stack'), NEW i \in 1..Len(stack'[j].todo)
       PROVE  /\ j \in 1..Len(stack) /\ i + d[j] \in 1..Len(stack[j].todo)
              /\ stack'[j].todo[i] = stack[j].todo[i + d[j]]
              /\ j = Len(stack') \/ i > 1 => j = Len(stack) \/ i + d[j] > 1
              /\ j = Len(stack') \/ i > 1 => ~(j = Len(stack) /\ i + d[j] = 1)
  <2>1. j = 1
    <3>1. CASE j = 2
      <4>1. stack'[j].todo = <<>>
        BY <1>4, <1>5, <3>1
      <4> QED BY <4>1
    <3> QED BY <1>6, <3>1
  <2>2. d[j] = 0 /\ i \in Nat
    OBVIOUS
  <2>3. i + d[j] = i /\ (i > 1 => i # 1)
    BY <2>2
  <2>4. stack'[j] = stack[j] /\ j \in 1..Len(stack) /\ j # Len(stack') /\ j = Len(stack)
    BY <1>3, <1>5, <2>1
  <2> QED BY <2>3, <2>4, Zenon
<1> HIDE DEF d
<1>11. /\ Len(stack) >= 1 /\ Len(stack[Len(stack)].todo) >= 1
       /\ Id(Len(stack), 1) # 0 /\ ran' = Append(ran, Id(Len(stack), 1))
  BY <1>1, <1>2, <1>3 DEF Id
<1>12. used' \in 0..MaxCalls /\ used <= used'
  BY TurnAssumption DEF StackInv
<1>13. Ids' /\ RanOnce' /\ ran' \in Seq(Nat)
  BY <1>9, <1>10, <1>11, <1>12, IdsMove
<1> QED BY <1>5, <1>7, <1>8, <1>12, <1>13 DEF StackInv

(* A new batch takes the place of the empty one; its ids are new.           *)
LEMMA BatchKeeps ==
  ASSUME StackInv, stack # <<>>, Top.pc = "post", NEW f, Good(f), f.who = Top.who, With(f),
         used' = used + Len(f.todo), used' \in 0..MaxCalls, ran' = ran,
         \A i \in 1..Len(f.todo) : /\ f.todo[i].id \in {0, used + i}
                                   /\ f.who = "sub" => f.todo[i].name \notin Skills
  PROVE  StackInv'
<1> DEFINE L == Len(stack)
<1>1. /\ stack \in Seq(Frames) /\ L \in {1, 2} /\ L \in 1..L
      /\ Top = stack[L] /\ Good(Top) /\ Top.who = IF L = 1 THEN "main" ELSE "sub"
  BY TopFacts
<1>2. L > 1 => \A i \in 1..Len(f.todo) : f.todo[i].name \notin Skills
  BY <1>1
<1>3. /\ FramesInv' /\ Len(stack') = L
      /\ \A j \in 1..L : stack'[j] = IF j = L THEN f ELSE stack[j]
  BY <1>2, ReplaceTop
<1>4. /\ used \in Nat /\ used' \in Nat /\ Len(f.todo) \in Nat /\ used <= used'
      /\ ran \in Seq(Nat) /\ Len(ran) \in Nat
  <2>1. f.todo \in Seq(Requests)
    BY DEF Good, Frames
  <2>2. Len(f.todo) \in Nat /\ used \in Nat /\ ran \in Seq(Nat)
    BY <2>1, LenProperties, TurnAssumption DEF StackInv
  <2> QED BY <2>2, LenProperties
<1>5. \A n \in 1..Len(ran) : ran[n] \in 1..used
  BY DEF StackInv, Ids
<1>6. ASSUME NEW j \in 1..Len(stack'), NEW i \in 1..Len(stack'[j].todo), j = L
      PROVE  Id(j, i)' \in {0, used + i} /\ i \in 1..Len(f.todo) /\ used + i <= used'
  <2>1. stack'[j] = f
    BY <1>1, <1>3, <1>6
  <2> QED BY <1>4, <2>1 DEF Id
<1>7. ASSUME NEW j \in 1..Len(stack'), NEW i \in 1..Len(stack'[j].todo), j # L
      PROVE  /\ j \in 1..L /\ i \in 1..Len(stack[j].todo) /\ Id(j, i)' = Id(j, i)
             /\ Id(j, i) <= used /\ Id(j, i) \in Nat
  <2>1. stack'[j] = stack[j] /\ j \in 1..L
    BY <1>3, <1>7
  <2>2. i \in 1..Len(stack[j].todo) /\ Id(j, i)' = Id(j, i) /\ Id(j, i) <= used
    BY <2>1 DEF Id, StackInv, Ids
  <2>3. stack[j] \in Frames
    BY <1>1, <2>1, ElementOfSeq
  <2>4. stack[j].todo \in Seq(Requests)
    BY <2>3 DEF Frames
  <2>5. stack[j].todo[i] \in Requests
    BY <2>2, <2>4, ElementOfSeq
  <2> QED BY <2>1, <2>2, <2>5 DEF Requests, Id
<1> HIDE DEF L
<1>8. \A n \in 1..Len(ran') : ran'[n] \in 1..used'
  BY <1>4, <1>5
<1>9. ASSUME NEW j \in 1..Len(stack'), NEW i \in 1..Len(stack'[j].todo)
      PROVE  /\ Id(j, i)' <= used'
             /\ Id(j, i)' # 0 /\ (j = Len(stack') \/ i > 1) =>
                  \A n \in 1..Len(ran') : ran'[n] # Id(j, i)'
             /\ Id(j, i)' # 0 =>
                  \A h \in 1..Len(stack') : \A g \in 1..Len(stack'[h].todo) :
                    Id(h, g)' = Id(j, i)' => h = j /\ g = i
  <2>1. Id(j, i)' <= used'
    <3>1. CASE j = L
      <4>1. Id(j, i)' \in {0, used + i} /\ used + i <= used'
        BY <1>6, <3>1
      <4> QED BY <1>4, <4>1
    <3>2. CASE j # L
      <4>1. Id(j, i)' = Id(j, i) /\ Id(j, i) <= used /\ Id(j, i) \in Nat
        BY <1>7, <3>2
      <4> QED BY <1>4, <4>1
    <3> QED BY <3>1, <3>2
  <2>2. ASSUME Id(j, i)' # 0, j = Len(stack') \/ i > 1, NEW n \in 1..Len(ran')
        PROVE  ran'[n] # Id(j, i)'
    <3>1. CASE j = L
      BY <1>4, <1>5, <1>6, <2>2, <3>1
    <3>2. CASE j # L
      <4>1. i > 1 /\ j \in 1..Len(stack) /\ i \in 1..Len(stack[j].todo) /\ Id(j, i)' = Id(j, i)
        BY <1>3, <1>7, <2>2, <3>2 DEF L
      <4> QED BY <2>2, <4>1 DEF StackInv, Ids
    <3> QED BY <3>1, <3>2
  <2>3. ASSUME Id(j, i)' # 0, NEW h \in 1..Len(stack'), NEW g \in 1..Len(stack'[h].todo),
               Id(h, g)' = Id(j, i)'
        PROVE  h = j /\ g = i
    <3>1. CASE j = L /\ h = L
      BY <1>4, <1>6, <2>3, <3>1
    <3>2. CASE j = L /\ h # L
      BY <1>4, <1>6, <1>7, <2>3, <3>2
    <3>3. CASE j # L /\ h = L
      BY <1>4, <1>6, <1>7, <2>3, <3>3
    <3>4. CASE j # L /\ h # L
      <4>1. /\ j \in 1..Len(stack) /\ i \in 1..Len(stack[j].todo) /\ Id(j, i)' = Id(j, i)
            /\ h \in 1..Len(stack) /\ g \in 1..Len(stack[h].todo) /\ Id(h, g)' = Id(h, g)
        BY <1>7, <3>4 DEF L
      <4> QED BY <2>3, <4>1 DEF StackInv, Ids
    <3> QED BY <3>1, <3>2, <3>3, <3>4
  <2> QED BY <2>1, <2>2, <2>3
<1>10. Ids'
  BY <1>8, <1>9 DEF Ids
<1>11. RanOnce' /\ ran' \in Seq(Nat)
  BY <1>4 DEF StackInv, RanOnce
<1> QED BY <1>3, <1>10, <1>11 DEF StackInv, FramesInv

-----------------------------------------------------------------------------
(* Every step keeps the stack's invariant: one lemma per group of actions.  *)

(* What the loader's files, registry and cache do not touch.                *)
LEMMA SkillUnchanged ==
  ASSUME SkillInv, UNCHANGED <<disk, registry, cache, told>>
  PROVE  SkillInv'
  BY DEF SkillInv, Cached

(* A post that fails, is malformed, or answers with a text or nothing.      *)
LEMMA PostStep ==
  ASSUME TurnInv, PostFails \/ PostMalformed \/ PostText \/ PostEmpty
  PROVE  TurnInv'
<1>1. /\ StackInv /\ SkillInv /\ stack # <<>> /\ Top.pc = "post" /\ Idle
  BY DEF TurnInv, PostFails, PostMalformed, PostText, PostEmpty, Asking
<1>2. UNCHANGED <<used, ran>> /\ UNCHANGED <<disk, registry, cache, told>>
  BY <1>1 DEF Idle
<1>3. Good(Top)
  BY <1>1, TopFacts
<1>4. used' \in 0..MaxCalls /\ used <= used' /\ ran' = ran
  BY <1>1, <1>2, TurnAssumption DEF StackInv
<1>5. ASSUME Unwind PROVE StackInv'
  BY <1>1, <1>4, <1>5, UnwindKeeps
<1>6. CASE PostFails
  <2>1. CASE Top.attempt < RetryCount
    <3>1. With(Retry(Top))
      BY <1>6, <2>1 DEF PostFails
    <3>2. /\ Good(Retry(Top)) /\ Retry(Top).todo = Top.todo
          /\ Retry(Top).who = Top.who
      BY <1>1, <1>3, <2>1, RepeatGood
    <3>3. StackInv'
      BY <1>1, <1>2, <3>1, <3>2, KeepTop
    <3> QED BY <1>1, <1>2, <3>3, SkillUnchanged DEF TurnInv
  <2>2. CASE ~(Top.attempt < RetryCount)
    BY <1>1, <1>2, <1>5, <1>6, <2>2, SkillUnchanged DEF PostFails, TurnInv
  <2> QED BY <2>1, <2>2
<1>7. CASE PostEmpty
  <2>1. CASE Top.fresh
    <3>1. With(EmptyRepeat(Top))
      BY <1>7, <2>1 DEF PostEmpty
    <3>2. /\ Good(EmptyRepeat(Top)) /\ EmptyRepeat(Top).todo = Top.todo
          /\ EmptyRepeat(Top).who = Top.who
      BY <1>1, <1>3, <2>1, RepeatGood
    <3>3. StackInv'
      BY <1>1, <1>2, <3>1, <3>2, KeepTop
    <3> QED BY <1>1, <1>2, <3>3, SkillUnchanged DEF TurnInv
  <2>2. CASE ~Top.fresh
    BY <1>1, <1>2, <1>5, <1>7, <2>2, SkillUnchanged DEF PostEmpty, TurnInv
  <2> QED BY <2>1, <2>2
<1>8. CASE PostMalformed \/ PostText
  BY <1>1, <1>2, <1>5, <1>8, SkillUnchanged DEF PostMalformed, PostText, TurnInv
<1> QED BY <1>6, <1>7, <1>8

(* A post that answers with tool calls.                                     *)
LEMMA CallsStep ==
  ASSUME TurnInv, used < MaxCalls, NEW batch \in Batches(Top), PostCalls(batch)
  PROVE  TurnInv'
<1>1. /\ StackInv /\ SkillInv /\ stack # <<>> /\ Top.pc = "post"
      /\ used' = used + Len(batch) /\ ran' = ran /\ UNCHANGED <<disk, registry, cache, told>>
  BY DEF TurnInv, PostCalls, Asking
<1>2. Good(Top) /\ Top.who \in {"main", "sub"} /\ used \in 0..MaxCalls
  BY <1>1, TopFacts DEF Frames, StackInv
<1>3. /\ batch \in Seq(Requests) /\ Len(batch) \in {1, 2} /\ used + Len(batch) <= MaxCalls
      /\ \A i \in 1..Len(batch) : /\ batch[i].id \in {0, used + i}
                                  /\ Top.who = "sub" => batch[i].name \notin Skills
  BY <1>2, BatchFacts
<1>4. used' \in 0..MaxCalls /\ used <= used'
  BY <1>1, <1>2, <1>3, TurnAssumption
<1>5. SkillInv'
  BY <1>1, SkillUnchanged
<1>6. CASE Top.inline /\ Top.left - 1 <= 0
  <2>1. Unwind
    BY <1>6 DEF PostCalls
  <2> QED BY <1>1, <1>4, <1>5, <2>1, UnwindKeeps DEF TurnInv
<1>7. CASE Top.inline /\ ~(Top.left - 1 <= 0)
  <2> DEFINE g == [TakeBatch(Top, batch) EXCEPT !.left = @ - 1]
  <2>1. With(g)
    BY <1>7 DEF PostCalls
  <2>2. Good(g) /\ g.todo = batch /\ g.who = Top.who
    BY <1>1, <1>2, <1>3, <1>7, BatchGood
  <2> HIDE DEF g
  <2>3. \A i \in 1..Len(g.todo) : /\ g.todo[i].id \in {0, used + i}
                                  /\ g.who = "sub" => g.todo[i].name \notin Skills
    BY <1>3, <2>2
  <2>4. StackInv'
    BY <1>1, <1>4, <2>1, <2>2, <2>3, BatchKeeps
  <2> QED BY <1>5, <2>4 DEF TurnInv
<1>8. CASE ~Top.inline
  <2> DEFINE g == [Opened(TakeBatch(Top, Normalized(batch))) EXCEPT !.rounds = @ + 1]
  <2>1. With(g)
    BY <1>8 DEF PostCalls
  <2>2. Good(g) /\ g.todo = Normalized(batch) /\ g.who = Top.who
    <3>1. Top.rounds < MaxIter[Top.who]
      BY <1>8 DEF PostCalls
    <3> QED BY <1>1, <1>2, <1>3, <1>8, <3>1, BatchGood
  <2> HIDE DEF g
  <2>3. /\ Len(g.todo) = Len(batch)
        /\ \A i \in 1..Len(batch) : g.todo[i].id = batch[i].id /\ g.todo[i].name = batch[i].name
    BY <1>3, <2>2, NormalizedSeq
  <2>4. \A i \in 1..Len(g.todo) : /\ g.todo[i].id \in {0, used + i}
                                  /\ g.who = "sub" => g.todo[i].name \notin Skills
    BY <1>3, <2>2, <2>3
  <2>5. StackInv'
    BY <1>1, <1>4, <2>1, <2>2, <2>3, <2>4, BatchKeeps
  <2> QED BY <1>5, <2>5 DEF TurnInv
<1> QED BY <1>6, <1>7, <1>8

(* A tool call that fails the batch, or ends in a result; the results sent. *)
LEMMA ToolStep ==
  ASSUME TurnInv, ToolBatchFails \/ (\E n \in Lengths : RunTool(n)) \/ SendResults
  PROVE  TurnInv'
<1>1. StackInv /\ SkillInv /\ stack # <<>> /\ Top.pc = "tools"
  BY DEF TurnInv, ToolBatchFails, RunTool, SendResults, Running
<1>2. used' = used /\ UNCHANGED <<disk, registry, cache, told>>
  BY DEF ToolBatchFails, RunTool, SendResults, Idle
<1>3. SkillInv' /\ Good(Top)
  BY <1>1, <1>2, SkillUnchanged, TopFacts
<1>4. used' \in 0..MaxCalls /\ used <= used'
  BY <1>1, <1>2, TurnAssumption DEF StackInv
<1>5. ASSUME Unwind, ran' = ran PROVE StackInv'
  BY <1>1, <1>4, <1>5, UnwindKeeps
<1>6. CASE ToolBatchFails
  BY <1>3, <1>5, <1>6 DEF ToolBatchFails, Idle, TurnInv
<1>7. ASSUME NEW n \in Lengths, RunTool(n) PROVE TurnInv'
  <2>1. Top.todo # <<>> /\ With(Answered(Top, n)) /\ n \in Nat
    BY <1>7, TurnAssumption DEF RunTool
  <2>2. ran' = ran \/ (Call.id # 0 /\ ran' = Append(ran, Call.id))
    BY <1>7 DEF RunTool, Unusable
  <2>3. StackInv'
    BY <1>1, <1>2, <2>1, <2>2, AnswerTop
  <2> QED BY <1>3, <2>3 DEF TurnInv
<1>8. CASE SendResults
  <2>1. Top.todo = <<>> /\ ran' = ran
    BY <1>8 DEF SendResults, Idle
  <2>2. CASE ~Top.inline
    <3> DEFINE g == [Top EXCEPT !.pc = "post"]
    <3>1. With(g)
      BY <1>8, <2>2 DEF SendResults
    <3>2. Good(g) /\ g.todo = Top.todo /\ g.who = Top.who
      BY <1>1, <1>3, <2>1, <2>2, ResultsGood
    <3> HIDE DEF g
    <3>3. StackInv'
      BY <1>1, <1>2, <2>1, <3>1, <3>2, KeepTop
    <3> QED BY <1>3, <3>3 DEF TurnInv
  <2>3. CASE Top.inline /\ Top.left - 1 <= 0
    BY <1>3, <1>5, <1>8, <2>1, <2>3 DEF SendResults, TurnInv
  <2>4. CASE Top.inline /\ ~(Top.left - 1 <= 0)
    <3>1. With(Recurse(Top))
      BY <1>8, <2>4 DEF SendResults
    <3>2. Good(Recurse(Top)) /\ Recurse(Top).todo = Top.todo /\ Recurse(Top).who = Top.who
      BY <1>1, <1>3, <2>1, <2>4, ResultsGood
    <3>3. StackInv'
      BY <1>1, <1>2, <2>1, <3>1, <3>2, KeepTop
    <3> QED BY <1>3, <3>3 DEF TurnInv
  <2> QED BY <2>2, <2>3, <2>4
<1> QED BY <1>6, <1>7, <1>8

(* A call of the skill loader: what it hands out is what its cache holds.   *)
LEMMA SkillStep ==
  ASSUME TurnInv, NEW n \in Lengths, RunSkill(n)
  PROVE  TurnInv'
<1> DEFINE s == Call.name
           v == VersionOf(s)
<1>1. /\ StackInv /\ SkillInv /\ stack # <<>> /\ Top.pc = "tools" /\ n \in Nat
      /\ Top.todo # <<>> /\ Call.id # 0 /\ s \in Skills
      /\ ran' = Append(ran, Call.id) /\ used' = used /\ UNCHANGED <<disk, registry>>
  BY TurnAssumption DEF TurnInv, RunSkill, Running, Unusable
<1>2. CASE s \notin registry \/ TypeOf[s] = "history" \/ v = 0
  <2>1. With(Answered(Top, n)) /\ UNCHANGED <<cache, told>>
    BY <1>2 DEF RunSkill
  <2>2. StackInv'
    BY <1>1, <2>1, AnswerTop
  <2>3. SkillInv'
    BY <1>1, <2>1, SkillUnchanged
  <2> QED BY <2>2, <2>3 DEF TurnInv
<1>3. CASE ~(s \notin registry \/ TypeOf[s] = "history" \/ v = 0)
  <2>1. /\ cache' = [cache EXCEPT ![s] = v] /\ told' = told \cup {<<s, v>>}
        /\ \/ TypeOf[s] = "reference" /\ With(Answered(Top, n))
           \/ Pushed(Fresh("sub", FALSE))
    BY <1>3 DEF RunSkill, Pushed
  <2>2. StackInv'
    <3>1. CASE With(Answered(Top, n))
      BY <1>1, <3>1, AnswerTop
    <3>2. CASE Pushed(Fresh("sub", FALSE))
      BY <1>1, <3>2, PushKeeps
    <3> QED BY <2>1, <3>1, <3>2
  <2>3. v \in 1..MaxVersion /\ (cache[s] # 0 => cache[s] = v)
    <3>1. disk[s] \in 0..MaxVersion /\ cache[s] \in 0..MaxVersion /\ v # 0
      BY <1>1, <1>3 DEF SkillInv
    <3> QED BY <3>1 DEF VersionOf
  <2> HIDE DEF v, s
  <2>4. cache' \in [Skills -> 0..MaxVersion] /\ told' \subseteq Skills \X (1..MaxVersion)
    BY <1>1, <2>1, <2>3, TurnAssumption DEF SkillInv
  <2>5. ASSUME NEW a \in told' PROVE cache'[a[1]] = a[2]
    <3>1. CASE a \in told
      <4>1. a[1] \in Skills /\ a[2] \in 1..MaxVersion /\ cache[a[1]] = a[2]
        BY <1>1, <3>1 DEF SkillInv, Cached
      <4>2. a[1] = s => a[2] = v
        BY <2>3, <4>1
      <4> QED BY <1>1, <2>1, <4>1, <4>2 DEF SkillInv
    <3>2. CASE a = <<s, v>>
      BY <1>1, <2>1, <3>2 DEF SkillInv
    <3> QED BY <2>1, <3>1, <3>2
  <2>6. SkillInv'
    BY <1>1, <2>4, <2>5 DEF SkillInv, Cached
  <2> QED BY <2>2, <2>6 DEF TurnInv
<1> QED BY <1>2, <1>3

(* A new turn starts with one conversation and nothing run or handed out.   *)
LEMMA StartStep ==
  ASSUME TurnInv, NEW inline \in BOOLEAN, NEW manifest \in BOOLEAN, StartTurn(inline, manifest)
  PROVE  TurnInv'
<1> DEFINE f == Fresh("main", inline)
<1>1. /\ stack' = <<f>> /\ used' = 0 /\ ran' = <<>> /\ told' = {} /\ disk' = disk
      /\ cache' = [s \in Skills |-> 0] /\ registry' \subseteq Skills /\ SkillInv
  BY DEF StartTurn, Registered, TurnInv
<1>2. Good(f) /\ f.todo = <<>> /\ f.who = "main" /\ f \in Frames
  BY FreshGood DEF Good
<1> HIDE DEF f
<1>3. /\ stack' \in Seq(Frames) /\ Len(stack') = 1 /\ stack'[1] = f
      /\ \A j \in 1..Len(stack') : j = 1
  BY <1>1, <1>2
<1>4. Stacked' /\ \A j \in 1..Len(stack') : Good(stack'[j])
  BY <1>2, <1>3 DEF Stacked
<1>5. ran' \in Seq(Nat) /\ Len(ran') = 0 /\ RanOnce'
  BY <1>1 DEF RanOnce
<1>6. \A j \in 1..Len(stack') : \A i \in 1..Len(stack'[j].todo) : FALSE
  <2>1. \A j \in 1..Len(stack') : stack'[j].todo = <<>>
    BY <1>2, <1>3
  <2> QED BY <2>1
<1>7. Ids'
  BY <1>5, <1>6 DEF Ids
<1>8. used' \in 0..MaxCalls
  BY <1>1, TurnAssumption
<1>9. SkillInv'
  BY <1>1, TurnAssumption DEF SkillInv, Cached
<1> QED BY <1>3, <1>4, <1>5, <1>7, <1>8, <1>9 DEF TurnInv, StackInv

(* Editing a file changes nothing the turn holds.                           *)
LEMMA EditStep ==
  ASSUME TurnInv, NEW s \in Edited, NEW v \in 0..MaxVersion, EditSkill(s, v)
  PROVE  TurnInv'
<1>1. /\ UNCHANGED <<registry, cache, told>> /\ disk' = [disk EXCEPT ![s] = v]
      /\ stack' = stack /\ used' = used /\ ran' = ran
  BY DEF EditSkill
<1>2. SkillInv'
  BY <1>1 DEF TurnInv, SkillInv, Cached
<1>3. StackInv'
  BY <1>1 DEF TurnInv, StackInv, Stacked, Ids, RanOnce, Id
<1> QED BY <1>2, <1>3 DEF TurnInv

(* The invariant holds before the first turn.                               *)
LEMMA TurnInit == Init => TurnInv
<1> SUFFICES ASSUME Init PROVE TurnInv
  OBVIOUS
<1>1. /\ stack = <<>> /\ used = 0 /\ ran = <<>> /\ told = {} /\ registry = {}
      /\ disk = [s \in Skills |-> 1] /\ cache = [s \in Skills |-> 0]
  BY DEF Init
<1>2. /\ stack \in Seq(Frames) /\ Len(stack) = 0 /\ ran \in Seq(Nat) /\ Len(ran) = 0
      /\ used \in 0..MaxCalls
  BY <1>1, TurnAssumption
<1>3. Stacked /\ Ids /\ RanOnce /\ \A j \in 1..Len(stack) : Good(stack[j])
  BY <1>1, <1>2 DEF Stacked, Ids, RanOnce
<1>4. SkillInv
  BY <1>1, TurnAssumption DEF SkillInv, Cached
<1> QED BY <1>2, <1>3, <1>4 DEF TurnInv, StackInv

(* The conversations of a turn stay good: typed, with every call answered   *)
(* or waiting in its place, with budget left, with ids of their own.        *)
THEOREM TurnInvariant == Spec => []TurnInv
<1>1. TurnInv /\ [Next]_vars => TurnInv'
  <2> SUFFICES ASSUME TurnInv, [Next]_vars PROVE TurnInv'
    OBVIOUS
  <2>1. CASE PostFails \/ PostMalformed \/ PostText \/ PostEmpty
    BY <2>1, PostStep
  <2>2. ASSUME used < MaxCalls, NEW batch \in Batches(Top), PostCalls(batch) PROVE TurnInv'
    BY <2>2, CallsStep
  <2>3. ASSUME ToolBatchFails \/ SendResults PROVE TurnInv'
    BY <2>3, ToolStep
  <2>4. ASSUME NEW n \in Lengths, RunTool(n) \/ RunSkill(n) PROVE TurnInv'
    BY <2>4, ToolStep, SkillStep
  <2>5. ASSUME NEW inline \in BOOLEAN, NEW manifest \in BOOLEAN, StartTurn(inline, manifest)
        PROVE  TurnInv'
    BY <2>5, StartStep
  <2>6. ASSUME NEW s \in Edited, NEW v \in 0..MaxVersion, EditSkill(s, v) PROVE TurnInv'
    BY <2>6, EditStep
  <2>7. CASE UNCHANGED vars
    BY <2>7 DEF vars, TurnInv, StackInv, SkillInv, Cached, Stacked, Ids, RanOnce, Id
  <2> QED BY <2>1, <2>2, <2>3, <2>4, <2>5, <2>6, <2>7 DEF Next, Step
<1> QED BY <1>1, TurnInit, PTL DEF Spec

(* Types: at most a sub-crew on top of the main agent, ids in their range,  *)
(* skills and versions that exist.                                          *)
THEOREM TypeCorrect == Spec => []TypeOK
<1>1. TurnInv => TypeOK
  BY DEF TurnInv, StackInv, SkillInv, Stacked, TypeOK
<1> QED BY <1>1, TurnInvariant, PTL

(* No tool call runs twice, whatever fails and is posted again.             *)
THEOREM CallsRunOnce == Spec => []RanOnce
<1>1. TurnInv => RanOnce
  BY DEF TurnInv, StackInv
<1> QED BY <1>1, TurnInvariant, PTL

-----------------------------------------------------------------------------
(* What a step adds to the posts it takes from what is owed.                *)

(* What a good conversation owes is a number: its counters stay within a    *)
(* round's tries.                                                           *)
LEMMA OwedFacts ==
  ASSUME NEW f, Good(f)
  PROVE  /\ Ahead(f) \in Nat /\ Ahead(f) * Try \in Nat
         /\ Spent(f) \in Nat /\ Spent(f) <= Try - 1 /\ Owed(f) \in Nat
         /\ f.left \in Nat /\ f.left >= 1 /\ f.attempt \in Nat
<1>1. /\ f.left \in Nat /\ f.left >= 1 /\ f.attempt \in Nat /\ f.attempt <= RetryCount
      /\ f.rounds \in Nat /\ MaxIter[f.who] \in Nat /\ f.rounds <= MaxIter[f.who]
  BY BoundFacts DEF Good, Frames, Budget
<1>2. Ahead(f) \in Nat
  <2>1. Half(f.left) \in Nat /\ Half(f.left - 1) \in Nat
    BY <1>1 DEF Half
  <2>2. MaxIter[f.who] - f.rounds \in Nat
    BY <1>1
  <2> QED BY <2>1, <2>2 DEF Ahead
<1>3. Ahead(f) * Try \in Nat
  BY <1>2, BoundFacts, RoundArithmetic, Zenon
<1>4. Spent(f) \in Nat /\ Spent(f) <= Try - 1
  BY <1>1, BoundFacts DEF Spent
<1>5. Owed(f) \in Nat
  <2> QED BY <1>3, <1>4, BoundFacts DEF Owed
<1> QED BY <1>1, <1>2, <1>3, <1>4, <1>5

(* A repeated post takes one from what is owed.                             *)
LEMMA RepeatOwed ==
  ASSUME NEW f, Good(f), f.pc = "post"
  PROVE  /\ f.attempt < RetryCount => Owed(Retry(f)) + 1 <= Owed(f) /\ Retry(f).inline = f.inline
         /\ f.fresh => Owed(EmptyRepeat(f)) + 1 <= Owed(f) /\ EmptyRepeat(f).inline = f.inline
<1>1. /\ f \in Frames /\ f.attempt <= RetryCount /\ f.attempt \in Nat /\ Ahead(f) * Try \in Nat
      /\ RetryCount \in Nat /\ Try \in Nat /\ Try = RetryCount + RetryCount + 2
  BY OwedFacts, BoundFacts DEF Good, Budget
<1>2. Owed(f) = Ahead(f) * Try + (Try - 1 - Spent(f))
  BY DEF Owed
<1>3. ASSUME f.attempt < RetryCount
      PROVE  Owed(Retry(f)) + 1 <= Owed(f) /\ Retry(f).inline = f.inline
  <2> DEFINE g == Retry(f)
  <2>1. /\ g.attempt = f.attempt + 1 /\ g.fresh = f.fresh /\ g.pc = "post" /\ g.inline = f.inline
        /\ g.left = f.left /\ g.rounds = f.rounds /\ g.who = f.who
    BY <1>1 DEF Retry, Frames
  <2> HIDE DEF g
  <2>2. Ahead(g) = Ahead(f) /\ Spent(g) = Spent(f) + 1 /\ Spent(f) \in Nat
    BY <1>1, <2>1 DEF Ahead, Spent
  <2>3. Owed(g) = Ahead(f) * Try + (Try - 1 - Spent(g))
    BY <2>1, <2>2 DEF Owed
  <2> QED BY <1>1, <1>2, <2>1, <2>2, <2>3 DEF g
<1>4. ASSUME f.fresh
      PROVE  Owed(EmptyRepeat(f)) + 1 <= Owed(f) /\ EmptyRepeat(f).inline = f.inline
  <2> DEFINE g == EmptyRepeat(f)
  <2>1. /\ g.attempt = 0 /\ g.fresh = FALSE /\ g.pc = "post" /\ g.inline = f.inline
        /\ g.left = f.left /\ g.rounds = f.rounds /\ g.who = f.who
    BY <1>1 DEF EmptyRepeat, Frames
  <2> HIDE DEF g
  <2>2. Ahead(g) = Ahead(f) /\ Spent(g) = RetryCount + 1 /\ Spent(f) = f.attempt
    BY <1>1, <1>4, <2>1 DEF Ahead, Spent
  <2>3. Owed(g) = Ahead(f) * Try + (Try - 1 - Spent(g))
    BY <2>1, <2>2 DEF Owed
  <2> QED BY <1>1, <1>2, <2>1, <2>2, <2>3 DEF g
<1> QED BY <1>3, <1>4

(* A batch costs nothing: its round was ahead already.                      *)
LEMMA BatchOwed ==
  ASSUME NEW f, Good(f), f.pc = "post", NEW batch
  PROVE  /\ f.inline =>
              LET g == [TakeBatch(f, batch) EXCEPT !.left = @ - 1]
              IN  Owed(g) <= Owed(f) /\ g.inline = f.inline
         /\ ~f.inline =>
              LET g == [Opened(TakeBatch(f, batch)) EXCEPT !.rounds = @ + 1]
              IN  Owed(g) <= Owed(f) /\ g.inline = f.inline
<1>1. /\ f \in Frames /\ Ahead(f) * Try \in Nat /\ Spent(f) \in Nat /\ Spent(f) <= Try - 1
      /\ Try \in Nat /\ f.rounds \in Nat /\ MaxIter[f.who] \in Nat /\ Ahead(f) \in Nat
  BY OwedFacts, BoundFacts DEF Good, Frames
<1>2. Owed(f) = Ahead(f) * Try + (Try - 1 - Spent(f))
  BY DEF Owed
<1>3. ASSUME NEW g, g.pc = "tools", Ahead(g) = Ahead(f) PROVE Owed(g) <= Owed(f)
  <2>1. Owed(g) = Ahead(f) * Try + 0
    BY <1>3 DEF Owed
  <2> QED BY <1>1, <1>2, <2>1
<1>4. ASSUME f.inline
      PROVE  LET g == [TakeBatch(f, batch) EXCEPT !.left = @ - 1]
             IN  Owed(g) <= Owed(f) /\ g.inline = f.inline
  <2> DEFINE g == [TakeBatch(f, batch) EXCEPT !.left = @ - 1]
  <2>1. g.pc = "tools" /\ g.inline = f.inline /\ g.left = f.left - 1
    BY <1>1 DEF TakeBatch, Frames
  <2> HIDE DEF g
  <2>2. Ahead(g) = Ahead(f)
    BY <1>4, <2>1 DEF Ahead
  <2> QED BY <1>3, <2>1, <2>2 DEF g
<1>5. ASSUME ~f.inline
      PROVE  LET g == [Opened(TakeBatch(f, batch)) EXCEPT !.rounds = @ + 1]
             IN  Owed(g) <= Owed(f) /\ g.inline = f.inline
  <2> DEFINE g == [Opened(TakeBatch(f, batch)) EXCEPT !.rounds = @ + 1]
  <2>1. g.pc = "tools" /\ g.inline = f.inline /\ g.who = f.who /\ g.rounds = f.rounds + 1
    BY <1>1 DEF TakeBatch, Opened, Frames
  <2> HIDE DEF g
  <2>2. Ahead(g) = Ahead(f)
    BY <1>1, <1>5, <2>1 DEF Ahead
  <2> QED BY <1>3, <2>1, <2>2 DEF g
<1> QED BY <1>4, <1>5

(* Results sent are a post, and the round it opens was ahead.               *)
LEMMA ResultsOwed ==
  ASSUME NEW f, Good(f), f.pc = "tools"
  PROVE  /\ ~f.inline => /\ Owed([f EXCEPT !.pc = "post"]) + 1 <= Owed(f)
                         /\ [f EXCEPT !.pc = "post"].inline = f.inline
         /\ f.inline /\ ~(f.left - 1 <= 0) => /\ Owed(Recurse(f)) + 1 <= Owed(f)
                                              /\ Recurse(f).inline = f.inline
<1>1. /\ f \in Frames /\ Ahead(f) * Try \in Nat /\ Spent(f) \in Nat /\ f.left \in Nat
      /\ Try \in Nat /\ f.rounds \in Nat /\ MaxIter[f.who] \in Nat /\ Ahead(f) \in Nat
      /\ f.attempt \in Nat
  BY OwedFacts, BoundFacts DEF Good, Frames
<1>2. Owed(f) = Ahead(f) * Try + 0
  BY DEF Owed
<1>3. ASSUME NEW g, g.pc = "post", Ahead(g) = Ahead(f) - 1, g.attempt = f.attempt, g.fresh = f.fresh
      PROVE  Owed(g) + 1 <= Owed(f)
  <2>1. Spent(g) = Spent(f)
    BY <1>3 DEF Spent
  <2>2. Owed(g) = (Ahead(f) - 1) * Try + (Try - 1 - Spent(f))
    BY <1>3, <2>1 DEF Owed
  <2>3. (Ahead(f) - 1) * Try = Ahead(f) * Try - Try
    <3>1. Ahead(f) \in Int /\ Try \in Int
      BY <1>1
    <3> QED BY <3>1, RoundArithmetic, Zenon
  <2>4. Owed(g) = Ahead(f) * Try - Try + (Try - 1 - Spent(f))
    BY <2>2, <2>3
  <2> DEFINE w == Ahead(f) * Try
  <2>5. w \in Nat /\ Owed(f) = w + 0 /\ Owed(g) = w - Try + (Try - 1 - Spent(f))
    BY <1>1, <1>2, <2>4
  <2> HIDE DEF w
  <2> QED BY <1>1, <2>5
<1>4. ASSUME ~f.inline
      PROVE  LET g == [f EXCEPT !.pc = "post"]
             IN  Owed(g) + 1 <= Owed(f) /\ g.inline = f.inline
  <2> DEFINE g == [f EXCEPT !.pc = "post"]
  <2>1. /\ g.pc = "post" /\ g.inline = f.inline /\ g.who = f.who /\ g.rounds = f.rounds
        /\ g.attempt = f.attempt /\ g.fresh = f.fresh
    BY <1>1 DEF Frames
  <2> HIDE DEF g
  <2>2. Ahead(g) = Ahead(f) - 1
    BY <1>1, <1>4, <2>1 DEF Ahead
  <2> QED BY <1>3, <2>1, <2>2 DEF g
<1>5. ASSUME f.inline, ~(f.left - 1 <= 0)
      PROVE  Owed(Recurse(f)) + 1 <= Owed(f) /\ Recurse(f).inline = f.inline
  <2> DEFINE g == Recurse(f)
  <2>1. /\ g.pc = "post" /\ g.inline = f.inline /\ g.left = f.left - 1
        /\ g.attempt = f.attempt /\ g.fresh = f.fresh
    BY <1>1 DEF Recurse, Frames
  <2> HIDE DEF g
  <2>2. Half(f.left - 1 - 1) = Half(f.left) - 1
    <3>1. f.left - 1 \in Nat /\ f.left - 1 >= 1 /\ f.left - 1 + 1 = f.left
      BY <1>1, <1>5
    <3>2. Half(f.left - 1 - 1) = Half(f.left - 1 + 1) - 1
      BY <3>1, RoundArithmetic
    <3> QED BY <3>1, <3>2
  <2>3. Ahead(g) = Ahead(f) - 1
    BY <1>1, <1>5, <2>1, <2>2 DEF Ahead
  <2> QED BY <1>3, <2>1, <2>3 DEF g
<1> QED BY <1>4, <1>5

(* A conversation that starts with its first post out owes what it may post *)
(* less that one.                                                           *)
LEMMA FreshOwed ==
  ASSUME NEW who \in {"main", "sub"}, NEW inline \in BOOLEAN
  PROVE  /\ Owed(Fresh(who, inline)) + 1 = Rounds(who, inline) * Try
         /\ Fresh(who, inline).inline = inline
         /\ Rounds(who, inline) * Try \in Nat
<1> DEFINE f == Fresh(who, inline)
<1>1. /\ f.pc = "post" /\ f.inline = inline /\ f.who = who /\ f.rounds = 0 /\ f.attempt = 0
      /\ f.fresh = TRUE /\ f.left = MaxIterations
  BY DEF Fresh, Opened
<1>2. Try \in Nat /\ MaxIterations \in Nat /\ MaxIterations >= 1 /\ MaxIter[who] \in Nat
  BY BoundFacts
<1> HIDE DEF f
<1>3. Ahead(f) + 1 = Rounds(who, inline) /\ Ahead(f) \in Nat
  BY <1>1, <1>2 DEF Ahead, Rounds, Half
<1>4. Spent(f) = 0
  BY <1>1 DEF Spent
<1>5. Owed(f) = Ahead(f) * Try + (Try - 1 - 0)
  BY <1>1, <1>4 DEF Owed
<1>6. (Ahead(f) + 1) * Try = Ahead(f) * Try + Try /\ Ahead(f) * Try \in Nat
  <2>1. \A h, w \in Nat : (h + 1) * w = h * w + w /\ h * w \in Nat
    OBVIOUS
  <2> QED BY <1>2, <1>3, <2>1, Zenon
<1> DEFINE w == Ahead(f) * Try
<1>7. w \in Nat /\ Owed(f) = w + (Try - 1 - 0) /\ Rounds(who, inline) * Try = w + Try
  BY <1>3, <1>5, <1>6
<1> HIDE DEF w
<1> QED BY <1>1, <1>2, <1>7 DEF f

(* The bound is a number, and a sub-crew raises it by what that may post.   *)
LEMMA PostBoundFacts ==
  ASSUME NEW b \in BOOLEAN, NEW c \in Nat
  PROVE  LET cost == Rounds("sub", FALSE) * Try
             bound(n) == Rounds("main", b) * Try + n * cost
         IN  /\ bound(c) \in Nat /\ bound(c + 1) \in Nat
             /\ bound(c + 1) = bound(c) + cost /\ cost \in Nat
<1> DEFINE cost == Rounds("sub", FALSE) * Try
<1>1. cost \in Nat /\ Rounds("main", b) * Try \in Nat
  BY FreshOwed
<1> HIDE DEF cost
<1>2. c * cost \in Nat /\ (c + 1) * cost = c * cost + cost
  BY <1>1
<1> DEFINE m == Rounds("main", b) * Try
           w == c * cost
<1>3. m \in Nat /\ w \in Nat /\ (c + 1) * cost = w + cost
  BY <1>1, <1>2
<1> HIDE DEF m, w
<1>4. m + w \in Nat /\ m + (w + cost) \in Nat /\ m + (w + cost) = m + w + cost
  BY <1>1, <1>3
<1> QED BY <1>1, <1>3, <1>4 DEF cost, m, w

(* The conversation on top changes and owes less by what is posted.         *)
LEMMA WithPosts ==
  ASSUME StackInv, PostInv, stack # <<>>, NEW f, Good(f), f.inline = Top.inline, With(f),
         crews' = crews, NEW d \in {0, 1}, Owed(f) + d <= Owed(Top),
         posts' \in Nat, posts' <= posts + d
  PROVE  PostInv'
<1>1. /\ stack \in Seq(Frames) /\ Len(stack) \in {1, 2} /\ Top = stack[Len(stack)]
      /\ f \in Frames /\ \A j \in 1..Len(stack) : Good(stack[j])
  BY TopFacts DEF Good, StackInv
<1>2. /\ Len(stack') = Len(stack)
      /\ \A j \in 1..Len(stack) : stack'[j] = IF j = Len(stack) THEN f ELSE stack[j]
  BY <1>1, WithEffect
<1>3. 1 \in 1..Len(stack) /\ (Len(stack) = 2 => 2 \in 1..Len(stack)) /\ Len(stack) \in 1..Len(stack)
  <2>1. \A n \in {1, 2} : 1 \in 1..n /\ (n = 2 => 2 \in 1..n) /\ n \in 1..n
    OBVIOUS
  <2> QED BY <1>1, <2>1, Zenon
<1>4. stack'[1].inline = stack[1].inline
  BY <1>1, <1>2, <1>3
<1>5. PostBound' = PostBound
  BY <1>4 DEF PostBound
<1>6. PostBound \in Nat
  <2>1. stack[1].inline \in BOOLEAN
    BY <1>1, <1>3 DEF Good, Frames
  <2> QED BY <2>1, PostBoundFacts DEF PostBound, PostInv
<1>7. \A j \in 1..Len(stack) : Owed(stack[j]) \in Nat
  BY <1>1, OwedFacts
<1>8. Owed(f) \in Nat
  BY OwedFacts
<1>9. posts + Owed(stack[1]) + (IF Len(stack) = 2 THEN Owed(stack[2]) ELSE 0) <= PostBound
      /\ posts \in Nat /\ crews \in Nat
  BY DEF PostInv
<1>10. CASE Len(stack) = 1
  <2>1. stack'[1] = f /\ Len(stack') = 1 /\ Top = stack[1] /\ ~(Len(stack) = 2)
    BY <1>1, <1>2, <1>3, <1>10
  <2>2. posts + Owed(stack[1]) + 0 <= PostBound
    BY <1>9, <2>1
  <2>3. posts' + Owed(f) + 0 <= PostBound
    BY <1>3, <1>6, <1>7, <1>8, <1>9, <2>1, <2>2
  <2>4. posts' + Owed(stack'[1]) + (IF Len(stack') = 2 THEN Owed(stack'[2]) ELSE 0) <= PostBound'
    BY <1>5, <2>1, <2>3
  <2>5. Owed(stack[1])' = Owed(stack'[1]) /\ Owed(stack[2])' = Owed(stack'[2])
    BY DEF Owed, Ahead, Spent
  <2> QED BY <1>9, <2>4, <2>5 DEF PostInv
<1>11. CASE Len(stack) = 2
  <2>1. stack'[1] = stack[1] /\ stack'[2] = f /\ Len(stack') = 2 /\ Top = stack[2]
    BY <1>1, <1>2, <1>3, <1>11
  <2>2. posts + Owed(stack[1]) + Owed(stack[2]) <= PostBound
    BY <1>9, <1>11
  <2>3. posts' + Owed(stack[1]) + Owed(f) <= PostBound
    BY <1>3, <1>6, <1>7, <1>8, <1>9, <1>11, <2>1, <2>2
  <2>4. posts' + Owed(stack'[1]) + (IF Len(stack') = 2 THEN Owed(stack'[2]) ELSE 0) <= PostBound'
    BY <1>5, <2>1, <2>3
  <2>5. Owed(stack[1])' = Owed(stack'[1]) /\ Owed(stack[2])' = Owed(stack'[2])
    BY DEF Owed, Ahead, Spent
  <2> QED BY <1>9, <2>4, <2>5 DEF PostInv
<1> QED BY <1>1, <1>10, <1>11

(* A conversation that ends leaves what it owed; the answer it is to the    *)
(* one below costs nothing.                                                 *)
LEMMA UnwindPosts ==
  ASSUME StackInv, PostInv, stack # <<>>, Unwind, crews' = crews
  PROVE  PostInv'
<1>1. /\ stack \in Seq(Frames) /\ Len(stack) \in {1, 2} /\ \A j \in 1..Len(stack) : Good(stack[j])
      /\ (Len(stack) = 2 => stack[1].pc = "tools" /\ stack[1].todo # <<>>)
  <2>1. stack \in Seq(Frames) /\ Len(stack) \in {1, 2} /\ \A j \in 1..Len(stack) : Good(stack[j])
    BY TopFacts DEF StackInv
  <2>2. \A n \in {1, 2} : n = 2 => 1 \in 1..n /\ 1 < n
    OBVIOUS
  <2>3. \A j \in 1..Len(stack) : j < Len(stack) => stack[j].pc = "tools" /\ stack[j].todo # <<>>
    BY DEF StackInv, Stacked
  <2> QED BY <2>1, <2>2, <2>3, Zenon
<1>2. posts' = posts /\ posts \in Nat /\ crews \in Nat
  BY DEF Unwind, PostInv
<1>3. ASSUME Len(stack) = 2, NEW n \in Lengths
      PROVE  /\ Answered(stack[1], n) \in Frames
             /\ Owed(Answered(stack[1], n)) = Owed(stack[1])
             /\ Answered(stack[1], n).inline = stack[1].inline
  <2> DEFINE f == stack[1]
             g == Answered(f, n)
  <2>1. Good(f) /\ n \in Nat /\ f \in Frames /\ f.pc = "tools" /\ f.todo # <<>>
    BY <1>1, <1>3, TurnAssumption DEF Good
  <2>2. g \in Frames
    BY <2>1, AnsweredGood DEF Good
  <2>3. g = [f EXCEPT !.msgs = Append(f.msgs, Result(Head(f.todo).id, n)), !.todo = Tail(f.todo)]
    BY <2>1 DEF Answered, Frames
  <2> HIDE DEF g, f
  <2>4. /\ g.pc = f.pc /\ g.inline = f.inline /\ g.who = f.who /\ g.left = f.left
        /\ g.rounds = f.rounds /\ g.attempt = f.attempt /\ g.fresh = f.fresh
    BY <2>1, <2>3 DEF Frames
  <2>5. Ahead(g) = Ahead(f) /\ Spent(g) = Spent(f)
    BY <2>4 DEF Ahead, Spent
  <2> QED BY <2>2, <2>4, <2>5 DEF Owed, f, g
<1>4. CASE Len(stack) = 1
  <2>1. stack' = <<>>
    BY <1>4 DEF Unwind
  <2> QED BY <1>2, <2>1 DEF PostInv
<1>5. CASE Len(stack) = 2
  <2>1. \A n \in Lengths : Len(stack) > 1 => Answered(stack[Len(stack) - 1], n) \in Frames
    BY <1>3, <1>5
  <2>2. \E n \in Lengths :
          /\ Len(stack') = Len(stack) - 1
          /\ \A j \in 1..(Len(stack) - 1) :
               stack'[j] = IF j = Len(stack) - 1 THEN Answered(stack[j], n) ELSE stack[j]
    BY <1>1, <1>5, <2>1, UnwindEffect
  <2>3. PICK n \in Lengths : Len(stack') = 1 /\ stack'[1] = Answered(stack[1], n)
    BY <1>5, <2>2
  <2>4. Owed(stack'[1]) = Owed(stack[1]) /\ stack'[1].inline = stack[1].inline
    BY <1>3, <1>5, <2>3
  <2>5. PostBound' = PostBound
    BY <2>4 DEF PostBound
  <2>6. stack[1].inline \in BOOLEAN /\ Owed(stack[1]) \in Nat /\ Owed(stack[2]) \in Nat
    BY <1>1, <1>5, OwedFacts DEF Good, Frames
  <2>7. PostBound \in Nat
    BY <1>2, <2>6, PostBoundFacts DEF PostBound
  <2>8. posts + Owed(stack[1]) + Owed(stack[2]) <= PostBound
    BY <1>1, <1>5, Zenon DEF PostInv
  <2>9. Owed(stack[1])' = Owed(stack'[1])
    BY DEF Owed, Ahead, Spent
  <2>10. posts' + Owed(stack'[1]) + 0 <= PostBound'
    BY <1>2, <2>4, <2>5, <2>6, <2>7, <2>8
  <2> QED BY <1>2, <2>3, <2>9, <2>10 DEF PostInv
<1> QED BY <1>1, <1>4, <1>5

(* One post more, at most.                                                  *)
LEMMA PostedFacts ==
  ASSUME PostInv, Posted
  PROVE  posts' \in Nat /\ posts' <= posts + 1
<1>1. posts \in Nat /\ (posts' = posts \/ posts' = posts + 1)
  BY DEF PostInv, Posted
<1> QED BY <1>1

(* A sub-crew starts: the bound grows by what it may post.                  *)
LEMMA PushPosts ==
  ASSUME StackInv, PostInv, Len(stack) = 1, stack' = Append(stack, Fresh("sub", FALSE)),
         crews' = crews + 1, Posted
  PROVE  PostInv'
<1> DEFINE f == Fresh("sub", FALSE)
           cost == Rounds("sub", FALSE) * Try
<1>1. /\ stack \in Seq(Frames) /\ Good(stack[1]) /\ stack # <<>> /\ posts \in Nat /\ crews \in Nat
  BY DEF StackInv, PostInv
<1>2. f \in Frames /\ Owed(f) + 1 = cost /\ cost \in Nat /\ Owed(f) \in Nat
  BY FreshGood, FreshOwed, OwedFacts DEF Good
<1> HIDE DEF f, cost
<1>3. Len(stack') = 2 /\ stack'[1] = stack[1] /\ stack'[2] = f
  <2>1. stack' = Append(stack, f)
    BY DEF f
  <2>2. stack \in Seq(Frames) /\ f \in Frames /\ Len(stack) = 1
    BY <1>1, <1>2
  <2>3. /\ Len(Append(stack, f)) = Len(stack) + 1
        /\ \A i \in 1..Len(stack) : Append(stack, f)[i] = stack[i]
        /\ Append(stack, f)[Len(stack) + 1] = f
    BY <2>2, AppendProperties, Zenon
  <2>4. Len(stack) + 1 = 2 /\ 1 \in 1..Len(stack)
    BY <2>2
  <2>5. Len(Append(stack, f)) = 2 /\ Append(stack, f)[1] = stack[1] /\ Append(stack, f)[2] = f
    <3>1. Append(stack, f)[1] = stack[1]
      BY <2>3, <2>4, Zenon
    <3>2. \A n : n = 2 => (Append(stack, f)[n] = f => Append(stack, f)[2] = f)
      OBVIOUS
    <3> QED BY <2>3, <2>4, <3>1, <3>2, Zenon
  <2> QED BY <2>1, <2>5, Zenon
<1>4. stack[1].inline \in BOOLEAN /\ Owed(stack[1]) \in Nat
  BY <1>1, OwedFacts DEF Good, Frames
<1>5. PostBound \in Nat /\ PostBound' = PostBound + cost
  BY <1>1, <1>3, <1>4, PostBoundFacts DEF PostBound, cost
<1>6. posts' \in Nat /\ posts' <= posts + 1
  BY PostedFacts
<1>7. posts + Owed(stack[1]) <= PostBound
  <2>1. posts + Owed(stack[1]) + (IF Len(stack) = 2 THEN Owed(stack[2]) ELSE 0) <= PostBound
    BY <1>1 DEF PostInv
  <2> QED BY <1>1, <1>4, <2>1
<1>8. Owed(stack[1])' = Owed(stack[1]) /\ Owed(stack[2])' = Owed(f)
  <2>1. Owed(stack[1])' = Owed(stack'[1]) /\ Owed(stack[2])' = Owed(stack'[2])
    BY DEF Owed, Ahead, Spent
  <2> QED BY <1>3, <2>1
<1>9. posts' + Owed(stack[1]) + Owed(f) <= PostBound'
  BY <1>1, <1>2, <1>4, <1>5, <1>6, <1>7
<1>10. crews' \in Nat
  BY <1>1
<1>11. posts' + Owed(stack[1])' + (IF Len(stack') = 2 THEN Owed(stack[2])' ELSE 0) <= PostBound'
  BY <1>3, <1>8, <1>9, Zenon
<1> QED BY <1>6, <1>10, <1>11 DEF PostInv

(* Every step keeps what is posted and owed within the bound.               *)
LEMMA PostsStep ==
  ASSUME TurnInv, PostInv, [Next]_vars
  PROVE  PostInv'
<1>1. StackInv
  BY DEF TurnInv
<1>2. ASSUME stack # <<>>, Unwind, crews' = crews PROVE PostInv'
  BY <1>1, <1>2, UnwindPosts
<1>3. ASSUME stack # <<>> PROVE Good(Top)
  BY <1>1, <1>3, TopFacts
<1>4. ASSUME stack # <<>>, NEW f, Good(f), f.inline = Top.inline, Owed(f) + 1 <= Owed(Top),
             With(f), Posted, crews' = crews
      PROVE  PostInv'
  <2>1. posts' \in Nat /\ posts' <= posts + 1
    BY <1>4, PostedFacts
  <2> QED BY <1>1, <1>4, <2>1, WithPosts
<1>5. ASSUME stack # <<>>, NEW f, Good(f), f.inline = Top.inline, Owed(f) <= Owed(Top),
             With(f), posts' = posts, crews' = crews
      PROVE  PostInv'
  <2>1. Owed(f) \in Nat /\ Owed(f) + 0 <= Owed(Top) /\ posts' \in Nat /\ posts' <= posts + 0
    BY <1>5, OwedFacts DEF PostInv
  <2> QED BY <1>1, <1>5, <2>1, WithPosts
<1>6. CASE PostFails
  <2>1. stack # <<>> /\ Top.pc = "post" /\ crews' = crews
    BY <1>6 DEF PostFails, Asking, Idle
  <2>2. CASE Top.attempt < RetryCount
    <3>1. With(Retry(Top)) /\ Posted
      BY <1>6, <2>2 DEF PostFails
    <3>2. Good(Retry(Top)) /\ Owed(Retry(Top)) + 1 <= Owed(Top) /\ Retry(Top).inline = Top.inline
      BY <1>3, <2>1, <2>2, RepeatGood, RepeatOwed
    <3> QED BY <1>4, <2>1, <3>1, <3>2
  <2>3. CASE ~(Top.attempt < RetryCount)
    BY <1>2, <1>6, <2>1, <2>3 DEF PostFails
  <2> QED BY <2>2, <2>3
<1>7. CASE PostEmpty
  <2>1. stack # <<>> /\ Top.pc = "post" /\ crews' = crews
    BY <1>7 DEF PostEmpty, Asking, Idle
  <2>2. CASE Top.fresh
    <3>1. With(EmptyRepeat(Top)) /\ Posted
      BY <1>7, <2>2 DEF PostEmpty
    <3>2. /\ Good(EmptyRepeat(Top)) /\ Owed(EmptyRepeat(Top)) + 1 <= Owed(Top)
          /\ EmptyRepeat(Top).inline = Top.inline
      BY <1>3, <2>1, <2>2, RepeatGood, RepeatOwed
    <3> QED BY <1>4, <2>1, <3>1, <3>2
  <2>3. CASE ~Top.fresh
    BY <1>2, <1>7, <2>1, <2>3 DEF PostEmpty
  <2> QED BY <2>2, <2>3
<1>8. CASE PostMalformed \/ PostText \/ ToolBatchFails
  BY <1>2, <1>8 DEF PostMalformed, PostText, ToolBatchFails, Asking, Running, Idle
<1>9. ASSUME used < MaxCalls, NEW batch \in Batches(Top), PostCalls(batch) PROVE PostInv'
  <2>1. /\ stack # <<>> /\ Top.pc = "post" /\ crews' = crews
        /\ Top.inline \/ Top.rounds < MaxIter[Top.who]
    BY <1>9 DEF PostCalls, Asking
  <2>2. Good(Top) /\ Top.who \in {"main", "sub"} /\ used \in 0..MaxCalls
    BY <1>1, <2>1, TopFacts DEF Frames, StackInv
  <2>3. batch \in Seq(Requests)
    BY <1>9, <2>2, BatchFacts
  <2>4. CASE Top.inline /\ Top.left - 1 <= 0
    BY <1>2, <1>9, <2>1, <2>4 DEF PostCalls
  <2>5. CASE Top.inline /\ ~(Top.left - 1 <= 0)
    <3> DEFINE g == [TakeBatch(Top, batch) EXCEPT !.left = @ - 1]
    <3>1. With(g) /\ posts' = posts
      BY <1>9, <2>5 DEF PostCalls
    <3>2. Good(g)
      BY <2>1, <2>2, <2>3, <2>5, BatchGood
    <3>3. Owed(g) <= Owed(Top) /\ g.inline = Top.inline
      BY <2>1, <2>2, <2>5, BatchOwed
    <3> HIDE DEF g
    <3> QED BY <1>5, <2>1, <3>1, <3>2, <3>3
  <2>6. CASE ~Top.inline
    <3> DEFINE b == Normalized(batch)
               g == [Opened(TakeBatch(Top, b)) EXCEPT !.rounds = @ + 1]
    <3>1. With(g) /\ posts' = posts
      BY <1>9, <2>6 DEF PostCalls
    <3>2. Good(g)
      BY <2>1, <2>2, <2>3, <2>6, BatchGood
    <3> HIDE DEF b
    <3>3. Owed(g) <= Owed(Top) /\ g.inline = Top.inline
      BY <2>1, <2>2, <2>6, BatchOwed
    <3> HIDE DEF g
    <3> QED BY <1>5, <2>1, <3>1, <3>2, <3>3
  <2> QED BY <2>4, <2>5, <2>6
<1>10. ASSUME NEW n \in Lengths, stack # <<>>, Top.pc = "tools", Top.todo # <<>>,
              With(Answered(Top, n)), posts' = posts, crews' = crews
       PROVE  PostInv'
  <2> DEFINE g == Answered(Top, n)
  <2>1. Good(Top) /\ n \in Nat /\ Top \in Frames
    BY <1>1, <1>10, TopFacts, TurnAssumption
  <2>2. Good(g)
    BY <1>10, <2>1, AnsweredGood
  <2>3. g = [Top EXCEPT !.msgs = Append(Top.msgs, Result(Head(Top.todo).id, n)),
                        !.todo = Tail(Top.todo)]
    BY <2>1 DEF Answered, Frames
  <2> HIDE DEF g
  <2>4. /\ g.pc = Top.pc /\ g.inline = Top.inline /\ g.who = Top.who /\ g.left = Top.left
        /\ g.rounds = Top.rounds /\ g.attempt = Top.attempt /\ g.fresh = Top.fresh
    BY <2>1, <2>3 DEF Frames
  <2>5. Ahead(g) = Ahead(Top) /\ Spent(g) = Spent(Top)
    BY <2>4 DEF Ahead, Spent
  <2>6. Owed(g) = Owed(Top) /\ Owed(g) \in Nat
    BY <2>2, <2>4, <2>5, OwedFacts DEF Owed
  <2>7. Owed(g) <= Owed(Top)
    BY <2>6
  <2> QED BY <1>5, <1>10, <2>2, <2>4, <2>7 DEF g
<1>11. ASSUME NEW n \in Lengths, RunTool(n) PROVE PostInv'
  BY <1>10, <1>11 DEF RunTool, Running
<1>12. ASSUME NEW n \in Lengths, RunSkill(n) PROVE PostInv'
  <2>1. stack # <<>> /\ Top.pc = "tools" /\ Top.todo # <<>> /\ Call.name \in Skills
    BY <1>12 DEF RunSkill, Running
  <2>2. CASE With(Answered(Top, n)) /\ UNCHANGED <<crews, posts>>
    BY <1>10, <1>12, <2>1, <2>2
  <2>3. CASE stack' = Append(stack, Fresh("sub", FALSE)) /\ crews' = crews + 1 /\ Posted
    <3>1. Len(stack) = 1
      <4>1. /\ Len(stack) \in {1, 2} /\ Top = stack[Len(stack)] /\ Len(stack) \in 1..Len(stack)
            /\ Top.todo \in Seq(Requests)
        BY <1>1, <2>1, TopFacts
      <4>2. Call = Top.todo[1] /\ 1 \in 1..Len(Top.todo)
        BY <2>1, <4>1, HeadTailProperties, EmptySeq DEF Call
      <4>3. CASE Len(stack) = 2
        <5>1. Call.name \notin Skills
          BY <1>1, <4>1, <4>2, <4>3 DEF StackInv, Stacked
        <5> QED BY <2>1, <5>1
      <4> QED BY <4>1, <4>3
    <3> QED BY <1>1, <2>3, <3>1, PushPosts
  <2>4. \/ With(Answered(Top, n)) /\ UNCHANGED <<crews, posts>>
        \/ stack' = Append(stack, Fresh("sub", FALSE)) /\ crews' = crews + 1 /\ Posted
    BY <1>12, Zenon DEF RunSkill
  <2> QED BY <2>2, <2>3, <2>4
<1>13. CASE SendResults
  <2>1. stack # <<>> /\ Top.pc = "tools" /\ Top.todo = <<>> /\ crews' = crews
    BY <1>13 DEF SendResults, Running, Idle
  <2>2. CASE ~Top.inline
    <3> DEFINE g == [Top EXCEPT !.pc = "post"]
    <3>1. With(g) /\ Posted
      BY <1>13, <2>2 DEF SendResults
    <3>2. Good(g) /\ Owed(g) + 1 <= Owed(Top) /\ g.inline = Top.inline
      BY <1>3, <2>1, <2>2, ResultsGood, ResultsOwed
    <3> HIDE DEF g
    <3> QED BY <1>4, <2>1, <3>1, <3>2
  <2>3. CASE Top.inline /\ Top.left - 1 <= 0
    BY <1>2, <1>13, <2>1, <2>3 DEF SendResults
  <2>4. CASE Top.inline /\ ~(Top.left - 1 <= 0)
    <3>1. With(Recurse(Top)) /\ Posted
      BY <1>13, <2>4 DEF SendResults
    <3>2. Good(Recurse(Top)) /\ Owed(Recurse(Top)) + 1 <= Owed(Top) /\ Recurse(Top).inline = Top.inline
      BY <1>3, <2>1, <2>4, ResultsGood, ResultsOwed
    <3> QED BY <1>4, <2>1, <3>1, <3>2
  <2> QED BY <2>2, <2>3, <2>4
<1>14. ASSUME NEW inline \in BOOLEAN, NEW manifest \in BOOLEAN, StartTurn(inline, manifest)
       PROVE  PostInv'
  <2> DEFINE f == Fresh("main", inline)
             cost == Rounds("main", inline) * Try
  <2>1. stack' = <<f>> /\ crews' = 0 /\ posts' = 1
    BY <1>14 DEF StartTurn
  <2>2. f.inline = inline /\ Owed(f) + 1 = cost /\ Owed(f) \in Nat /\ cost \in Nat
    BY FreshGood, FreshOwed, OwedFacts
  <2> HIDE DEF f, cost
  <2>3. stack'[1] = f /\ Len(stack') = 1
    BY <2>1
  <2>4. PostBound' = cost
    <3> DEFINE w == Rounds("sub", FALSE) * Try
    <3>1. PostBound' = cost + 0 * w
      BY <2>1, <2>2, <2>3 DEF PostBound, cost
    <3>2. w \in Nat
      BY FreshOwed
    <3> HIDE DEF w
    <3>3. 0 * w = 0
      BY <3>2
    <3> QED BY <2>2, <3>1, <3>3
  <2>5. Owed(stack[1])' = Owed(f)
    BY <2>3 DEF Owed, Ahead, Spent
  <2> QED BY <2>1, <2>2, <2>3, <2>4, <2>5 DEF PostInv
<1>15. CASE UNCHANGED <<stack, crews, posts>>
  BY <1>15 DEF PostInv, PostBound, Owed, Ahead, Spent
<1> QED BY <1>6, <1>7, <1>8, <1>9, <1>11, <1>12, <1>13, <1>14, <1>15 DEF Next, Step, EditSkill, vars

(* A turn posts at most what its conversation may, and what a sub-crew's    *)
(* may for each one started, for any retries, iterations and outcomes.      *)
THEOREM PostsAreBounded == Spec => []PostsBounded
<1>1. Init => PostInv
  BY DEF Init, PostInv
<1>2. TurnInv /\ PostInv /\ [Next]_vars => PostInv'
  BY PostsStep
<1>3. TurnInv /\ PostInv => PostsBounded
  <2> SUFFICES ASSUME TurnInv, PostInv, stack # <<>> PROVE posts <= PostBound
    BY DEF PostsBounded
  <2>1. Len(stack) \in {1, 2} /\ \A j \in 1..Len(stack) : Good(stack[j])
    BY TopFacts DEF TurnInv, StackInv
  <2>2. Owed(stack[1]) \in Nat /\ (Len(stack) = 2 => Owed(stack[2]) \in Nat)
        /\ stack[1].inline \in BOOLEAN
    BY <2>1, OwedFacts DEF Good, Frames
  <2>3. posts \in Nat /\ crews \in Nat
        /\ posts + Owed(stack[1]) + (IF Len(stack) = 2 THEN Owed(stack[2]) ELSE 0) <= PostBound
    BY DEF PostInv
  <2>4. PostBound \in Nat
    BY <2>2, <2>3, PostBoundFacts DEF PostBound
  <2> QED BY <2>2, <2>3, <2>4
<1> QED BY <1>1, <1>2, <1>3, TurnInvariant, PTL DEF Spec

(* The instructions of a skill are one version in a turn.                   *)
THEOREM OneVersion == Spec => []OneVersionPerTurn
<1>1. TurnInv => OneVersionPerTurn
  BY DEF TurnInv, SkillInv, Cached, OneVersionPerTurn
<1> QED BY <1>1, TurnInvariant, PTL

(* The slice and the suffix together stay within the limit.                 *)
LEMMA TruncatedFits ==
  ASSUME NEW m \in Messages
  PROVE  /\ Truncated(m).role = m.role /\ Truncated(m).id = m.id
         /\ Truncated(m).calls = m.calls
         /\ m.role = "tool" => Truncated(m).len <= MaxChars
<1>1. /\ MaxChars \in Nat /\ SuffixLen \in Nat /\ MaxChars >= SuffixLen
      /\ MaxChars - SuffixLen \in Nat /\ m.len \in Nat
  BY LimitAssumption DEF Messages
<1>2. \A a, b \in Nat : Min({a, b}) = IF a <= b THEN a ELSE b
  <2> SUFFICES ASSUME NEW a \in Nat, NEW b \in Nat
               PROVE  Min({a, b}) = IF a <= b THEN a ELSE b
    OBVIOUS
  <2> DEFINE z == IF a <= b THEN a ELSE b
  <2>1. z \in {a, b} /\ \A y \in {a, b} : z <= y
    OBVIOUS
  <2>2. \A x \in {a, b} : (\A y \in {a, b} : x <= y) => x = z
    OBVIOUS
  <2> QED BY <2>1, <2>2 DEF Min
<1>3. Slice(m.len, MaxChars - SuffixLen) \in Nat
      /\ Slice(m.len, MaxChars - SuffixLen) <= MaxChars - SuffixLen
  BY <1>1, <1>2 DEF Slice
<1> HIDE DEF Slice
<1>4. CASE m.role = "tool" /\ m.len > MaxChars
  <2>1. Truncated(m) = [m EXCEPT !.len = Slice(m.len, MaxChars - SuffixLen) + SuffixLen]
    BY <1>4 DEF Truncated
  <2>2. Slice(m.len, MaxChars - SuffixLen) + SuffixLen <= MaxChars
    BY <1>1, <1>3
  <2> QED BY <2>1, <2>2 DEF Messages
<1>5. CASE ~(m.role = "tool" /\ m.len > MaxChars)
  BY <1>1, <1>5 DEF Truncated
<1> QED BY <1>4, <1>5

(* Every posted request answers each of its tool calls in place, within     *)
(* the limit on results.                                                    *)
THEOREM RequestsAreWellFormed == Spec => []RequestWellFormed
<1>1. TurnInv => RequestWellFormed
  <2> SUFFICES ASSUME TurnInv, Asking PROVE RequestWellFormed
    BY DEF RequestWellFormed
  <2> DEFINE msgs == Top.msgs
             sent == [i \in DOMAIN Top.msgs |-> Truncated(Top.msgs[i])]
  <2>1. Good(Top) /\ Top.pc = "post"
    BY TopFacts DEF TurnInv, Asking
  <2>2. /\ msgs \in Seq(Messages) /\ AllInPlace(msgs, <<>>)
    BY <2>1 DEF Good, Frames, Answers
  <2>3. Len(msgs) \in Nat /\ DOMAIN msgs = 1..Len(msgs) /\ \A i \in 1..Len(msgs) : msgs[i] \in Messages
    BY <2>2, LenProperties, ElementOfSeq
  <2>4. \A i \in 1..Len(msgs) : sent[i] = Truncated(msgs[i])
    BY <2>3
  <2>5. DOMAIN sent = 1..Len(msgs)
    BY <2>3
  <2>6. Len(sent) = Len(msgs)
    <3> DEFINE T == {Truncated(msgs[i]) : i \in DOMAIN msgs}
    <3>1. sent \in [DOMAIN msgs -> T]
      OBVIOUS
    <3> HIDE DEF T, sent
    <3> QED BY <2>2, <3>1, MappedSeq
  <2> HIDE DEF sent, msgs
  <2>7. ASSUME NEW i \in DOMAIN sent
        PROVE  /\ sent[i].role = "tool" => sent[i].len <= MaxChars
               /\ \A k \in DOMAIN sent[i].calls :
                    /\ i + k <= Len(sent)
                    /\ sent[i + k].role = "tool" /\ sent[i + k].id = sent[i].calls[k]
    <3>1. i \in 1..Len(msgs) /\ msgs[i] \in Messages
      BY <2>3, <2>5
    <3>2. /\ sent[i].role = msgs[i].role /\ sent[i].calls = msgs[i].calls
          /\ sent[i].role = "tool" => sent[i].len <= MaxChars
      BY <2>4, <3>1, TruncatedFits
    <3>3. ASSUME NEW k \in DOMAIN msgs[i].calls
          PROVE  /\ i + k <= Len(msgs)
                 /\ sent[i + k].role = "tool" /\ sent[i + k].id = msgs[i].calls[k]
      <4>1. msgs[i].calls \in Seq(Nat)
        BY <3>1 DEF Messages
      <4>2. k \in 1..Len(msgs[i].calls) /\ k \in Nat /\ k >= 1
        BY <4>1, LenProperties
      <4>3. InPlace(msgs, <<>>, i, k)
        BY <2>2, <3>1, <4>2 DEF AllInPlace
      <4>4. i + k <= Len(msgs)
        <5>1. ~(i + k <= Len(msgs)) => i + k - Len(msgs) <= Len(<<>>)
          BY <4>3 DEF InPlace
        <5>2. Len(<<>>) = 0
          OBVIOUS
        <5>3. i \in Nat
          BY <3>1
        <5> QED BY <2>3, <4>2, <5>1, <5>2, <5>3
      <4>5. msgs[i + k].role = "tool" /\ msgs[i + k].id = msgs[i].calls[k]
        BY <4>3, <4>4 DEF InPlace
      <4>6. i + k \in 1..Len(msgs)
        BY <2>3, <3>1, <4>2, <4>4
      <4>7. sent[i + k].role = msgs[i + k].role /\ sent[i + k].id = msgs[i + k].id
        BY <2>3, <2>4, <4>6, TruncatedFits
      <4> QED BY <4>4, <4>5, <4>7
    <3> QED BY <2>6, <3>2, <3>3
  <2> QED BY <2>7 DEF RequestWellFormed, sent
<1> QED BY <1>1, TurnInvariant, PTL

----------------------------------------------------------------------------
(* History pages                                                           *)

(* Induction on numbers, from the library's least elements.                 *)
LEMMA SmallestOf ==
  ASSUME NEW T \in SUBSET Nat, T # {}
  PROVE  \E x \in T : \A y \in T : x <= y
<1>1. PICK R : IsWellFoundedOn(R, Nat) /\ \A x, y \in Nat : <<y, x>> \in R <=> y < x
  <2>1. \A x, y \in Nat : <<y, x>> \in OpToRel(<, Nat) <=> y < x
    BY DEF OpToRel
  <2> QED BY <2>1, NatLessThanWellFounded, Zenon
<1>2. PICK x \in T : \A y \in T : ~ (<<y, x>> \in R)
  BY <1>1, WFMin, Zenon
<1>3. \A y \in T : ~(y < x)
  BY <1>1, <1>2
<1> QED BY <1>3

(* Induction on 1..n: a set that holds 1 and is closed under the next one. *)
LEMMA InductionUpTo ==
  ASSUME NEW n \in Nat, NEW G, 1 \in G, \A i \in 1..(n - 1) : i \in G => i + 1 \in G
  PROVE  1..n \subseteq G
<1> DEFINE T == {i \in 1..n : i \notin G}
<1> SUFFICES ASSUME T # {} PROVE FALSE
  OBVIOUS
<1>1. PICK x \in T : \A y \in T : x <= y
  <2>1. T \in SUBSET Nat
    OBVIOUS
  <2> HIDE DEF T
  <2> QED BY <2>1, SmallestOf
<1>2. x # 1 /\ x \in 1..n /\ x \notin G
  OBVIOUS
<1>3. x - 1 \in 1..(n - 1)
  BY <1>2
<1>4. x - 1 \notin T
  BY <1>1, <1>3
<1>5. x - 1 \in G /\ (x - 1) + 1 = x
  BY <1>3, <1>4
<1> QED BY <1>2, <1>3, <1>5

(* The joined pages are the last of any list g that joins them one by one. *)
LEMMA FlattenUnfolds ==
  ASSUME NEW s, NEW n \in Nat \ {0}, Len(s) = n, NEW S, NEW g \in [1..n -> S],
         \A i \in 1..n : g[i] = IF i = 1 THEN s[i] ELSE g[i - 1] \o s[i]
  PROVE  FlattenSeq(s) = g[n]
<1> DEFINE Def(f) == f = [i \in 1..Len(s) |-> IF i = 1 THEN s[i] ELSE f[i - 1] \o s[i]]
           c == CHOOSE f : Def(f)
           G == {i \in 1..n : c[i] = g[i]}
<1>1. FlattenSeq(s) = c[Len(s)]
  BY Zenon DEF FlattenSeq
<1>2. Def(c)
  <2>1. Def(g)
    OBVIOUS
  <2> QED BY <2>1, Zenon
<1>3. \A i \in 1..n : c[i] = IF i = 1 THEN s[i] ELSE c[i - 1] \o s[i]
  <2> HIDE DEF c
  <2> QED BY <1>2
<1>4. \A i \in 1..n : g[i] = IF i = 1 THEN s[i] ELSE g[i - 1] \o s[i]
  OBVIOUS
<1>5. 1 \in G /\ \A i \in 1..(n - 1) : i \in G => i + 1 \in G
  <2> HIDE DEF c
  <2>1. 1 \in G
    <3>1. 1 \in 1..n
      OBVIOUS
    <3>2. c[1] = s[1] /\ g[1] = s[1]
      BY <1>3, <1>4, <3>1
    <3> QED BY <3>1, <3>2
  <2>2. ASSUME NEW i \in 1..(n - 1), i \in G PROVE i + 1 \in G
    <3>1. i + 1 \in 1..n /\ i + 1 # 1 /\ (i + 1) - 1 = i
      OBVIOUS
    <3>2. c[i + 1] = c[i] \o s[i + 1] /\ g[i + 1] = g[i] \o s[i + 1]
      BY <1>3, <1>4, <3>1
    <3>3. c[i] = g[i]
      BY <2>2
    <3>4. c[i + 1] = g[i + 1]
      BY <3>2, <3>3
    <3> QED BY <3>1, <3>4
  <2> QED BY <2>1, <2>2
<1>6. n \in G
  <2> HIDE DEF G
  <2>1. 1..n \subseteq G
    BY <1>5, InductionUpTo
  <2> QED BY <2>1
<1> QED BY <1>1, <1>6

(* The clamping of page and size.                                         *)
LEMMA MaxOfTwo == \A a, b \in Int : Max({a, b}) = IF a >= b THEN a ELSE b
<1> SUFFICES ASSUME NEW a \in Int, NEW b \in Int PROVE Max({a, b}) = IF a >= b THEN a ELSE b
  OBVIOUS
<1> DEFINE m == IF a >= b THEN a ELSE b
<1>1. m \in {a, b} /\ \A y \in {a, b} : m >= y
  OBVIOUS
<1>2. \A x \in {a, b} : (\A y \in {a, b} : x >= y) => x = m
  OBVIOUS
<1> QED BY <1>1, <1>2 DEF Max

(* The end of a page's slice.                                               *)
LEMMA MinOfTwo == \A a, b \in Int : Min({a, b}) = IF a <= b THEN a ELSE b
<1> SUFFICES ASSUME NEW a \in Int, NEW b \in Int PROVE Min({a, b}) = IF a <= b THEN a ELSE b
  OBVIOUS
<1> DEFINE m == IF a <= b THEN a ELSE b
<1>1. m \in {a, b} /\ \A y \in {a, b} : m <= y
  OBVIOUS
<1>2. \A x \in {a, b} : (\A y \in {a, b} : x <= y) => x = m
  OBVIOUS
<1> QED BY <1>1, <1>2 DEF Min

(* Rounding down, for the number of pages.                                 *)
LEMMA DivBounds == \A a \in Nat, b \in Nat \ {0} :
   /\ a \div b \in Nat /\ (a \div b) * b <= a /\ a < (a \div b) * b + b
  OBVIOUS

(* The clamped page size, and how many pages there are.                     *)
LEMMA SizeProperties == \A size \in Int : SizeOf(size) \in Nat /\ SizeOf(size) >= 1
BY MaxOfTwo, MinOfTwo, TurnAssumption DEF SizeOf

(* The pages reach the end of the history and none starts behind it.       *)
LEMMA TotalProperties ==
  ASSUME NEW h, Len(h) \in Nat, NEW size \in Int
  PROVE  /\ TotalPages(h, size) \in Nat /\ TotalPages(h, size) >= 1
         /\ TotalPages(h, size) * SizeOf(size) >= Len(h)
         /\ TotalPages(h, size) > 1 => (TotalPages(h, size) - 1) * SizeOf(size) < Len(h)
<1> DEFINE n == Len(h)
           z == SizeOf(size)
           d == (n + z - 1) \div z
<1>1. z \in Nat /\ z >= 1 /\ n \in Nat
  BY SizeProperties
<1>2. TotalPages(h, size) = Max({1, d})
  BY DEF TotalPages
<1> HIDE DEF n, z
<1>3. d \in Nat /\ d * z <= n + z - 1 /\ n + z - 1 < d * z + z
  BY <1>1, DivBounds
<1> HIDE DEF d
<1>4. TotalPages(h, size) = IF 1 >= d THEN 1 ELSE d
  BY <1>2, <1>3, MaxOfTwo
<1>5. d * z >= n
  BY <1>1, <1>3
<1>6. (d - 1) * z = d * z - z
  BY <1>1, <1>3
<1>7. CASE 1 >= d
  <2>1. TotalPages(h, size) = 1 /\ d <= 1
    BY <1>4, <1>7
  <2>2. d * z <= z
    <3>1. d = 0 \/ d = 1
      BY <1>3, <2>1
    <3> QED BY <1>1, <3>1
  <2>3. 1 * z >= n
    BY <1>1, <1>5, <1>3, <2>2
  <2>4. TotalPages(h, size) * z >= n
    BY <2>1, <2>3
  <2> QED BY <2>1, <2>4 DEF n, z
<1>8. CASE ~(1 >= d)
  <2>1. (d - 1) * z < n
    BY <1>1, <1>3, <1>6
  <2> QED BY <1>1, <1>3, <1>4, <1>5, <1>8, <2>1 DEF n, z
<1> QED BY <1>7, <1>8

(* Two neighbouring pieces of a sequence.                                   *)
LEMMA Pieces ==
  ASSUME NEW S, NEW h \in Seq(S), NEW a \in Nat, NEW b \in Nat, a <= b, b <= Len(h)
  PROVE  SubSeq(h, 1, a) \o SubSeq(h, a + 1, b) = SubSeq(h, 1, b)
<1>1. Len(h) \in Nat
  BY LenProperties
<1>2. 1 \in 1..Len(h) + 1 /\ a \in (1 - 1)..Len(h) /\ b \in a..Len(h)
  BY <1>1
<1> QED BY <1>2, ConcatAdjacentSubSeq

(* Page by page, history_reader gives the history, whatever it holds and    *)
(* whatever page size the model asks for (tools/_skill_loader_base.py,      *)
(* _handle_history_reader).                                              *)
THEOREM PagesJoin ==
  ASSUME NEW S, NEW h \in Seq(S), NEW size \in Int
  PROVE  FlattenSeq([p \in 1..TotalPages(h, size) |-> PageOf(h, p, size)]) = h
<1> DEFINE n == Len(h)
           z == SizeOf(size)
           t == TotalPages(h, size)
           pages == [p \in 1..t |-> PageOf(h, p, size)]
           upto(i) == IF i * z <= n THEN i * z ELSE n
           g == [i \in 1..t |-> SubSeq(h, 1, upto(i))]
<1>1. n \in Nat /\ z \in Nat /\ z >= 1
  BY SizeProperties
<1>2. t \in Nat /\ t >= 1 /\ t * z >= n /\ (t > 1 => (t - 1) * z < n)
  BY <1>1, TotalProperties
<1>3. ASSUME NEW i \in 1..t
      PROVE  /\ (i - 1) * z \in Nat /\ (i - 1) * z <= n
             /\ PageOf(h, i, size) = SubSeq(h, (i - 1) * z + 1, upto(i))
  <2> HIDE DEF n, z, t
  <2>1. i \in Nat /\ i >= 1 /\ i <= t /\ i - 1 \in Nat /\ i - 1 <= t - 1 /\ t - 1 \in Nat
    BY <1>2
  <2>2. (i - 1) * z \in Nat /\ (i - 1) * z + z = i * z
    BY <1>1, <2>1
  <2>3. (i - 1) * z <= n
    <3>1. CASE i = 1
      BY <1>1, <3>1
    <3>2. CASE i # 1
      <4>1. (i - 1) * z <= (t - 1) * z
        BY <1>1, <2>1
      <4>2. (t - 1) * z < n /\ (t - 1) * z \in Nat
        BY <1>1, <1>2, <2>1, <3>2
      <4> QED BY <1>1, <2>2, <4>1, <4>2
    <3> QED BY <3>1, <3>2
  <2>4. Max({i, 1}) = i
    BY <2>1, MaxOfTwo
  <2>5. Min({(i - 1) * z + z, n}) = upto(i)
    BY <1>1, <2>2, MinOfTwo
  <2> QED BY <2>2, <2>3, <2>4, <2>5, Zenon DEF PageOf, n, z
<1>4. \A i \in 1..t : g[i] = IF i = 1 THEN pages[i] ELSE g[i - 1] \o pages[i]
  <2> SUFFICES ASSUME NEW i \in 1..t
               PROVE  SubSeq(h, 1, upto(i)) = IF i = 1 THEN pages[i] ELSE g[i - 1] \o pages[i]
    OBVIOUS
  <2> HIDE DEF n, z, t
  <2>1. pages[i] = SubSeq(h, (i - 1) * z + 1, upto(i))
    BY <1>3
  <2>2. CASE i = 1
    <3>1. (i - 1) * z + 1 = 1
      BY <1>1, <2>2
    <3> QED BY <2>1, <2>2, <3>1
  <2>3. CASE i # 1
    <3>1. i - 1 \in 1..t /\ i - 1 \in Nat
      BY <1>2, <2>3
    <3>2. upto(i - 1) = (i - 1) * z /\ (i - 1) * z \in Nat
      BY <1>3
    <3>3. g[i - 1] = SubSeq(h, 1, (i - 1) * z)
      BY <3>1, <3>2
    <3>4. (i - 1) * z <= upto(i) /\ upto(i) \in Nat /\ upto(i) <= n
      <4>1. (i - 1) * z + z = i * z
        BY <1>1, <3>1
      <4> QED BY <1>1, <1>3, <3>2, <4>1
    <3>5. SubSeq(h, 1, (i - 1) * z) \o SubSeq(h, (i - 1) * z + 1, upto(i)) = SubSeq(h, 1, upto(i))
      <4> HIDE DEF upto
      <4> QED BY <3>2, <3>4, Pieces DEF n
    <3> QED BY <2>1, <2>3, <3>3, <3>5
  <2> QED BY <2>2, <2>3
<1>5. Len(pages) = t
  <2> HIDE DEF t
  <2> QED BY <1>2
<1>6. FlattenSeq(pages) = g[t]
  <2>2. g \in [1..t -> Seq(S)]
    <3>1. ASSUME NEW i \in 1..t PROVE SubSeq(h, 1, upto(i)) \in Seq(S)
      <4>1. upto(i) <= n /\ upto(i) \in Int
        <5> HIDE DEF n, z, t
        <5> QED BY <1>1, <1>2
      <4> HIDE DEF upto, t, z
      <4>2. \A j \in 1..upto(i) : h[j] \in S
        BY <4>1, ElementOfSeq
      <4> QED BY <4>1, <4>2, SubSeqProperties
    <3> HIDE DEF upto, t, n, z
    <3> QED BY <3>1
  <2> HIDE DEF g, pages, t, n, z
  <2>1. t \in Nat \ {0}
    BY <1>2
  <2>3. \A V : \A f \in [1..t -> V] :
          (\A i \in 1..t : f[i] = IF i = 1 THEN pages[i] ELSE f[i - 1] \o pages[i])
          => FlattenSeq(pages) = f[t]
    BY <2>1, <1>5, FlattenUnfolds, Zenon
  <2> QED BY <2>2, <2>3, <1>4, Zenon
<1>7. g[t] = SubSeq(h, 1, n)
  <2>1. upto(t) = n
    BY <1>1, <1>2
  <2>2. t \in 1..t
    BY <1>2
  <2> HIDE DEF upto, t, n, z
  <2>3. g[t] = SubSeq(h, 1, upto(t))
    BY <2>2
  <2> QED BY <2>1, <2>3
<1> QED BY <1>6, <1>7, SubSeqFull

(* Reading all pages gives the whole history, each message once, in order.  *)
THEOREM PagesComplete == Spec => []PagesCover
<1>1. PagesCover
  <2> SUFFICES ASSUME NEW n \in 0..MaxHistory, NEW size \in -1..(PageCap + 2)
      PROVE  FlattenSeq([p \in 1..TotalPages([i \in 1..n |-> i], size) |->
                           PageOf([i \in 1..n |-> i], p, size)]) = [i \in 1..n |-> i]
    BY Zenon DEF PagesCover
  <2> DEFINE h == [i \in 1..n |-> i]
  <2>1. h \in Seq(Nat)
    BY TurnAssumption
  <2>2. size \in Int
    BY TurnAssumption
  <2> HIDE DEF h
  <2>3. FlattenSeq([p \in 1..TotalPages(h, size) |-> PageOf(h, p, size)]) = h
    BY <2>1, <2>2, PagesJoin
  <2> QED BY <2>3 DEF h
<1> QED BY <1>1, PTL
=============================================================================
