---------------------------- MODULE ChannelProofs ----------------------------
(***************************************************************************)
(* Proofs about Channel, for any messages, chats, retries and crashes:     *)
(* types, how often a chat shows what was sent, that replies shown are     *)
(* logged in order, which replies give way, and that the stores agree.     *)
(***************************************************************************)
EXTENDS Channel, TLAPS, SequenceTheorems

(* The values of the variables.                                             *)
Workers == [pc : {"idle", "slash", "turn", "log", "send"}, run : Runs \cup {None}, attempt : Nat]
Threads == [key : Keys, id : 1..MaxHuman, attempt : Nat]
Types ==
  /\ pushes \in [Msgs -> 0..MaxPushes] /\ human \in 0..MaxHuman /\ crashes \in Nat
  /\ queue \in [Keys -> Seq(Runs)] /\ worker \in [Keys -> Workers]
  /\ \A k \in Keys : worker[k].pc # "idle" => worker[k].run \in Runs
  /\ task \in [Keys -> {"none", "ready", "waiting"}]
  /\ saved \subseteq Runs /\ indexing \subseteq Runs /\ rows \subseteq Runs
  /\ sent \subseteq Runs /\ failed \subseteq Runs
  /\ log \in [Keys -> Seq(Runs)] /\ shown \in [Keys -> Seq(Runs)]
  /\ threads \subseteq Threads
  /\ copies \in [1..MaxHuman -> Nat] /\ doubts \in [1..MaxHuman -> Nat]

(* An uuid was accepted exactly when a chat shows a reply with that root,   *)
(* no two of which a chat shows, and a reply that was sent was accepted.    *)
UuidInv ==
  /\ None \notin seen
  /\ \A u \in seen : \E k \in Keys : \E i \in 1..Len(shown[k]) : RootId(shown[k][i][1]) = u
  /\ \A k \in Keys : \A i \in 1..Len(shown[k]) : RootId(shown[k][i][1]) \in seen
  /\ \A k \in Keys : \A i, j \in 1..Len(shown[k]) :
       RootId(shown[k][i][1]) = RootId(shown[k][j][1]) => i = j
  /\ \A r \in sent : RootId(r[1]) \in seen

(* A thread that still tries has shown its message only in posts whose      *)
(* answer was lost; at most one thread has an id, which the count covers.   *)
ThreadInv ==
  /\ \A t \in threads : t.id <= human /\ copies[t.id] <= doubts[t.id]
  /\ \A t, u \in threads : t.id = u.id => t = u
  /\ \A h \in 1..MaxHuman : copies[h] <= 1 + doubts[h] /\ (h > human => copies[h] = 0)

(* A run is pushed, waits, is handled and is logged once.                   *)
Busy(k) == worker[k].pc # "idle"
Unlogged(k) == worker[k].pc \in {"turn", "log"}
Counted(p, r) == r[2] <= p[r[1]]
Once(k) ==
  /\ \A i \in 1..Len(queue[k]) :
       /\ Counted(pushes, queue[k][i])
       /\ \A j \in 1..Len(queue[k]) : queue[k][i] = queue[k][j] => i = j
       /\ \A n \in 1..Len(log[k]) : log[k][n] # queue[k][i]
       /\ Busy(k) => worker[k].run # queue[k][i]
  /\ Busy(k) => Counted(pushes, worker[k].run)
  /\ Unlogged(k) => \A n \in 1..Len(log[k]) : log[k][n] # worker[k].run
  /\ \A n \in 1..Len(log[k]) :
       /\ Counted(pushes, log[k][n])
       /\ \A m \in 1..Len(log[k]) : log[k][n] = log[k][m] => n = m
OnceInv == \A k \in Keys : Once(k)

(* The turn whose reply is being sent is the last one logged, and the       *)
(* replies shown are logged in their order; only a slash command is         *)
(* answered without a turn.                                                 *)
Order(k) ==
  /\ worker[k].pc = "slash" => IsSlash(worker[k].run[1])
  /\ worker[k].pc = "send" /\ ~IsSlash(worker[k].run[1]) =>
       Len(log[k]) \in 1..Len(log[k]) /\ log[k][Len(log[k])] = worker[k].run
  /\ \A i \in 1..Len(shown[k]) : ~IsSlash(shown[k][i][1]) =>
       \E n \in 1..Len(log[k]) : log[k][n] = shown[k][i]
  /\ \A i, j \in 1..Len(shown[k]) : \A m, n \in 1..Len(log[k]) :
       /\ ~IsSlash(shown[k][i][1]) /\ ~IsSlash(shown[k][j][1]) /\ i < j
       /\ log[k][m] = shown[k][i] /\ log[k][n] = shown[k][j]
       => m < n
OrderInv == \A k \in Keys : Order(k)

(* What is logged, indexed or about to be is saved; without a crash, what   *)
(* is saved is logged or about to be, or its run failed.                    *)
StoreInv ==
  /\ indexing \subseteq saved /\ rows \subseteq saved
  /\ \A k \in Keys : \A n \in 1..Len(log[k]) : log[k][n] \in saved
  /\ \A k \in Keys : worker[k].pc = "log" => worker[k].run \in saved
  /\ crashes = 0 => \A r \in saved :
       \/ \E k \in Keys : \E n \in 1..Len(log[k]) : log[k][n] = r
       \/ \E k \in Keys : worker[k].pc = "log" /\ worker[k].run = r
       \/ r \in failed

ChannelInv == Types /\ UuidInv /\ ThreadInv /\ OnceInv /\ OrderInv /\ StoreInv

-----------------------------------------------------------------------------
(* What Append does to a position of a table of sequences.                  *)
LEMMA AppendAt ==
  ASSUME NEW S, NEW K, NEW f \in [K -> Seq(S)], NEW k \in K, NEW e \in S,
         NEW g, g = [f EXCEPT ![k] = Append(@, e)]
  PROVE  /\ g \in [K -> Seq(S)]
         /\ \A j \in K : j # k => g[j] = f[j]
         /\ Len(g[k]) = Len(f[k]) + 1 /\ Len(f[k]) \in Nat
         /\ \A i \in 1..Len(f[k]) : g[k][i] = f[k][i]
         /\ g[k][Len(f[k]) + 1] = e
<1>1. f[k] \in Seq(S)
  OBVIOUS
<1>2. /\ Append(f[k], e) \in Seq(S) /\ Len(Append(f[k], e)) = Len(f[k]) + 1
      /\ \A i \in 1..Len(f[k]) : Append(f[k], e)[i] = f[k][i]
      /\ Append(f[k], e)[Len(f[k]) + 1] = e
  BY <1>1, AppendProperties
<1>3. Len(f[k]) \in Nat
  BY <1>1, LenProperties
<1>4. g[k] = Append(f[k], e) /\ \A j \in K : j # k => g[j] = f[j]
  OBVIOUS
<1>5. g \in [K -> Seq(S)]
  BY <1>2
<1> QED BY <1>2, <1>3, <1>4, <1>5, Zenon

(* ... and Tail.                                                            *)
LEMMA TailAt ==
  ASSUME NEW S, NEW K, NEW f \in [K -> Seq(S)], NEW k \in K, f[k] # <<>>,
         NEW g, g = [f EXCEPT ![k] = Tail(@)]
  PROVE  /\ g \in [K -> Seq(S)]
         /\ \A j \in K : j # k => g[j] = f[j]
         /\ Len(g[k]) = Len(f[k]) - 1 /\ Len(f[k]) \in Nat /\ Len(f[k]) >= 1
         /\ \A i \in 1..Len(g[k]) : g[k][i] = f[k][i + 1] /\ i + 1 \in 1..Len(f[k])
         /\ Head(f[k]) = f[k][1] /\ 1 \in 1..Len(f[k])
<1>1. f[k] \in Seq(S)
  OBVIOUS
<1>2. /\ Tail(f[k]) \in Seq(S) /\ Len(Tail(f[k])) = Len(f[k]) - 1
      /\ \A i \in 1..Len(Tail(f[k])) : Tail(f[k])[i] = f[k][i + 1]
      /\ Head(f[k]) = f[k][1]
  BY <1>1, HeadTailProperties
<1>3. Len(f[k]) \in Nat /\ Len(f[k]) >= 1
  BY <1>1, EmptySeq
<1>4. g[k] = Tail(f[k]) /\ \A j \in K : j # k => g[j] = f[j]
  OBVIOUS
<1>5. g \in [K -> Seq(S)]
  BY <1>2
<1>6. \A l \in Nat : l >= 1 => 1 \in 1..l /\ \A i \in 1..(l - 1) : i + 1 \in 1..l
  OBVIOUS
<1> QED BY <1>2, <1>3, <1>4, <1>5, <1>6, Zenon

-----------------------------------------------------------------------------
(* Types.                                                                   *)

(* A heard message has a routing key.                                       *)
LEMMA HeardKey == \A m \in Heard : m \in Msgs /\ RoutingKey(m) \in Keys
  BY DEF Heard, Keys

(* Worker k moves to pc, and no other worker moves.                         *)
LEMMA ToFacts ==
  ASSUME Types, NEW k \in Keys, NEW pc \in {"idle", "slash", "turn", "log", "send"}, To(k, pc)
  PROVE  /\ worker' \in [Keys -> Workers]
         /\ worker'[k].pc = pc /\ worker'[k].run = worker[k].run
         /\ \A j \in Keys : j # k => worker'[j] = worker[j]
<1>1. worker[k] \in Workers /\ worker \in [Keys -> Workers]
  BY DEF Types
<1>2. worker' = [worker EXCEPT ![k] = [@ EXCEPT !.pc = pc, !.attempt = 0]]
  BY <1>1 DEF To, Workers
<1>3. /\ [worker[k] EXCEPT !.pc = pc, !.attempt = 0] \in Workers
      /\ [worker[k] EXCEPT !.pc = pc, !.attempt = 0].pc = pc
      /\ [worker[k] EXCEPT !.pc = pc, !.attempt = 0].run = worker[k].run
  BY <1>1 DEF Workers
<1> QED BY <1>1, <1>2, <1>3

(* Worker k becomes idle, and no other worker moves.                        *)
LEMMA FinishFacts ==
  ASSUME Types, NEW k \in Keys, Finish(k)
  PROVE  /\ worker' \in [Keys -> Workers] /\ worker'[k].pc = "idle"
         /\ \A j \in Keys : j # k => worker'[j] = worker[j]
         /\ task' \in [Keys -> {"none", "ready", "waiting"}]
<1>1. Idle \in Workers /\ Idle.pc = "idle"
  BY DEF Idle, Workers
<1>2. worker' = [worker EXCEPT ![k] = Idle] /\ worker \in [Keys -> Workers]
  BY DEF Types, Finish
<1>3. /\ task' = [task EXCEPT ![k] = IF queue[k] = <<>> THEN "waiting" ELSE "ready"]
      /\ task \in [Keys -> {"none", "ready", "waiting"}]
  BY DEF Types, Finish
<1> HIDE DEF Idle
<1> QED BY <1>1, <1>2, <1>3

(* Worker k tries once more, and no other worker moves.                     *)
LEMMA AgainFacts ==
  ASSUME Types, NEW k \in Keys, worker' = [worker EXCEPT ![k].attempt = @ + 1]
  PROVE  /\ worker' \in [Keys -> Workers]
         /\ worker'[k].pc = worker[k].pc /\ worker'[k].run = worker[k].run
         /\ \A j \in Keys : j # k => worker'[j] = worker[j]
<1>1. worker[k] \in Workers /\ worker \in [Keys -> Workers] /\ worker[k].attempt + 1 \in Nat
  BY DEF Types, Workers
<1>2. worker' = [worker EXCEPT ![k] = [worker[k] EXCEPT !.attempt = worker[k].attempt + 1]]
  BY <1>1
<1>3. /\ [worker[k] EXCEPT !.attempt = worker[k].attempt + 1] \in Workers
      /\ [worker[k] EXCEPT !.attempt = worker[k].attempt + 1].pc = worker[k].pc
      /\ [worker[k] EXCEPT !.attempt = worker[k].attempt + 1].run = worker[k].run
  BY <1>1 DEF Workers
<1> QED BY <1>1, <1>2, <1>3

(* A push appends a run with a new number to the queue of its key, or, for  *)
(* what is not heard, to none.                                              *)
LEMMA PushFacts ==
  ASSUME Types, NEW m \in Msgs, Push(m)
  PROVE  /\ pushes' \in [Msgs -> 0..MaxPushes] /\ pushes'[m] = pushes[m] + 1
         /\ pushes[m] \in Nat /\ \A n \in Msgs : n # m => pushes'[n] = pushes[n]
         /\ queue' \in [Keys -> Seq(Runs)]
         /\ \/ m \notin Heard /\ queue' = queue
            \/ /\ m \in Heard /\ RoutingKey(m) \in Keys
               /\ LET k == RoutingKey(m)
                  IN  /\ \A j \in Keys : j # k => queue'[j] = queue[j]
                      /\ Len(queue'[k]) = Len(queue[k]) + 1 /\ Len(queue[k]) \in Nat
                      /\ \A i \in 1..Len(queue[k]) : queue'[k][i] = queue[k][i]
                      /\ queue'[k][Len(queue[k]) + 1] = <<m, pushes[m] + 1>>
<1>1. /\ pushes \in [Msgs -> 0..MaxPushes] /\ pushes[m] \in Nat /\ pushes[m] < MaxPushes
      /\ pushes' = [pushes EXCEPT ![m] = @ + 1] /\ MaxPushes \in Nat
  BY ChannelAssumption DEF Types, Push
<1>2. pushes[m] + 1 \in 1..MaxPushes
  BY <1>1
<1>3. /\ pushes' \in [Msgs -> 0..MaxPushes] /\ pushes'[m] = pushes[m] + 1
      /\ \A n \in Msgs : n # m => pushes'[n] = pushes[n]
  BY <1>1, <1>2
<1>4. CASE m \in Heard
  <2> DEFINE r == <<m, pushes[m] + 1>>
             k == RoutingKey(m)
  <2>1. r \in Runs /\ k \in Keys /\ queue \in [Keys -> Seq(Runs)]
    BY <1>2, <1>4, HeardKey DEF Runs, Types
  <2>2. queue' = [queue EXCEPT ![k] = Append(@, r)]
    BY <1>4 DEF Push
  <2> HIDE DEF r, k
  <2>3. /\ queue' \in [Keys -> Seq(Runs)]
        /\ \A j \in Keys : j # k => queue'[j] = queue[j]
        /\ Len(queue'[k]) = Len(queue[k]) + 1 /\ Len(queue[k]) \in Nat
        /\ \A i \in 1..Len(queue[k]) : queue'[k][i] = queue[k][i]
        /\ queue'[k][Len(queue[k]) + 1] = r
    BY <2>1, <2>2, AppendAt
  <2> QED BY <1>1, <1>3, <1>4, <2>1, <2>3 DEF r, k
<1>5. CASE m \notin Heard
  BY <1>1, <1>3, <1>5 DEF Push, Types
<1> QED BY <1>4, <1>5

(* A worker takes the head of its queue.                                    *)
LEMMA TakeFacts ==
  ASSUME Types, NEW k \in Keys, Take(k)
  PROVE  /\ worker' \in [Keys -> Workers] /\ queue' \in [Keys -> Seq(Runs)]
         /\ \A j \in Keys : j # k => worker'[j] = worker[j] /\ queue'[j] = queue[j]
         /\ worker[k].pc = "idle"
         /\ worker'[k].pc = IF IsSlash(queue[k][1][1]) THEN "slash" ELSE "turn"
         /\ worker'[k].run = queue[k][1] /\ queue[k][1] \in Runs
         /\ 1 \in 1..Len(queue[k])
         /\ \A i \in 1..Len(queue'[k]) : queue'[k][i] = queue[k][i + 1] /\ i + 1 \in 1..Len(queue[k])
<1>1. /\ queue \in [Keys -> Seq(Runs)] /\ queue[k] # <<>> /\ worker \in [Keys -> Workers]
      /\ queue' = [queue EXCEPT ![k] = Tail(@)] /\ worker[k].pc = "idle"
  BY DEF Types, Take, At
<1>2. /\ queue' \in [Keys -> Seq(Runs)]
      /\ \A j \in Keys : j # k => queue'[j] = queue[j]
      /\ Head(queue[k]) = queue[k][1] /\ 1 \in 1..Len(queue[k])
      /\ \A i \in 1..Len(queue'[k]) : queue'[k][i] = queue[k][i + 1] /\ i + 1 \in 1..Len(queue[k])
  BY <1>1, TailAt
<1>3. queue[k][1] \in Runs
  <2>1. queue[k] \in Seq(Runs)
    BY <1>1
  <2> QED BY <1>2, <2>1, ElementOfSeq
<1> DEFINE w == [pc |-> IF IsSlash(queue[k][1][1]) THEN "slash" ELSE "turn",
                 run |-> queue[k][1], attempt |-> 0]
<1>4. w \in Workers
  BY <1>3 DEF Workers
<1>5. worker' = [worker EXCEPT ![k] = w]
  BY <1>2 DEF Take
<1>6. /\ w.pc = (IF IsSlash(queue[k][1][1]) THEN "slash" ELSE "turn")
      /\ w.run = queue[k][1]
  OBVIOUS
<1> HIDE DEF w
<1>7. /\ worker' \in [Keys -> Workers] /\ worker'[k] = w
      /\ \A j \in Keys : j # k => worker'[j] = worker[j]
  BY <1>1, <1>4, <1>5
<1> QED BY <1>1, <1>2, <1>3, <1>6, <1>7, Zenon

(* A finished turn's lines at the end of its session.                       *)
LEMMA AppendFacts ==
  ASSUME Types, NEW k \in Keys, At(k, "log"), log' = Logged(k)
  PROVE  /\ log' \in [Keys -> Seq(Runs)] /\ worker[k].run \in Runs
         /\ \A j \in Keys : j # k => log'[j] = log[j]
         /\ Len(log'[k]) = Len(log[k]) + 1 /\ Len(log[k]) \in Nat
         /\ \A i \in 1..Len(log[k]) : log'[k][i] = log[k][i]
         /\ log'[k][Len(log[k]) + 1] = worker[k].run
<1>1. worker[k].run \in Runs /\ log \in [Keys -> Seq(Runs)]
  BY DEF Types, At
<1>2. log' = [log EXCEPT ![k] = Append(@, worker[k].run)]
  BY DEF Logged
<1> QED BY <1>1, <1>2, AppendAt

(* Feishu drops a reply whose uuid it knows, and shows and remembers        *)
(* another.                                                                 *)
Known(k) == Uuid(k) \in seen /\ seen' = seen /\ shown' = shown
Shows(k) ==
  /\ Uuid(k) \notin seen /\ seen' = seen \cup {Uuid(k)}
  /\ \A j \in Keys : j # k => shown'[j] = shown[j]
  /\ Len(shown'[k]) = Len(shown[k]) + 1 /\ Len(shown[k]) \in Nat
  /\ \A i \in 1..Len(shown[k]) : shown'[k][i] = shown[k][i]
  /\ shown'[k][Len(shown[k]) + 1] = worker[k].run
LEMMA AcceptFacts ==
  ASSUME Types, None \notin seen, NEW k \in Keys, worker[k].run \in Runs, Accept(k)
  PROVE  /\ shown' \in [Keys -> Seq(Runs)]
         /\ Known(k) \/ Shows(k)
         /\ copies' = copies
<1>1. worker[k].run[1] \in Msgs
  BY DEF Runs, Heard
<1>2. Uuid(k) # None
  BY <1>1, ChannelAssumption DEF Uuid, RootId
<1>3. seen' = seen \cup {Uuid(k)} /\ copies' = copies
  BY <1>2 DEF Accept
<1>4. CASE Uuid(k) \in seen
  <2>1. shown' = shown /\ seen' = seen
    BY <1>3, <1>4 DEF Accept
  <2> QED BY <1>3, <1>4, <2>1 DEF Known, Types
<1>5. CASE Uuid(k) \notin seen
  <2>1. shown' = [shown EXCEPT ![k] = Append(@, worker[k].run)] /\ shown \in [Keys -> Seq(Runs)]
    BY <1>5 DEF Accept, Types
  <2>2. /\ shown' \in [Keys -> Seq(Runs)]
        /\ \A j \in Keys : j # k => shown'[j] = shown[j]
        /\ Len(shown'[k]) = Len(shown[k]) + 1 /\ Len(shown[k]) \in Nat
        /\ \A i \in 1..Len(shown[k]) : shown'[k][i] = shown[k][i]
        /\ shown'[k][Len(shown[k]) + 1] = worker[k].run
    BY <2>1, AppendAt
  <2> QED BY <1>3, <1>5, <2>2 DEF Shows
<1> QED BY <1>4, <1>5

(* A reply is sent: accepted, counted, and the worker is free.              *)
LEMMA ReplySentFacts ==
  ASSUME ChannelInv, NEW k \in Keys, ReplySent(k)
  PROVE  /\ worker' \in [Keys -> Workers] /\ worker'[k].pc = "idle"
         /\ \A j \in Keys : j # k => worker'[j] = worker[j]
         /\ task' \in [Keys -> {"none", "ready", "waiting"}]
         /\ worker[k].pc = "send" /\ worker[k].run \in Runs
         /\ shown' \in [Keys -> Seq(Runs)]
         /\ Known(k) \/ Shows(k)
         /\ sent' = sent \cup {worker[k].run} /\ copies' = copies /\ failed' = failed
<1>1. Types /\ None \notin seen /\ worker[k].pc = "send" /\ Accept(k) /\ Finish(k)
      /\ sent' = sent \cup {worker[k].run} /\ failed' = failed
  BY DEF ChannelInv, UuidInv, ReplySent, At
<1>2. worker[k].run \in Runs
  BY <1>1 DEF Types
<1> QED BY <1>1, <1>2, AcceptFacts, FinishFacts

(* A reply fails: accepted or not, tried again or given up.                 *)
LEMMA ReplyFailsFacts ==
  ASSUME ChannelInv, NEW k \in Keys, ReplyFails(k)
  PROVE  /\ worker' \in [Keys -> Workers]
         /\ worker'[k].pc = "idle" \/ (worker'[k].pc = "send" /\ worker'[k].run = worker[k].run)
         /\ \A j \in Keys : j # k => worker'[j] = worker[j]
         /\ worker[k].pc = "send" /\ worker[k].run \in Runs
         /\ shown' \in [Keys -> Seq(Runs)]
         /\ Known(k) \/ Shows(k) \/ (seen' = seen /\ shown' = shown)
         /\ copies' = copies /\ failed' \subseteq Runs
         /\ task' \in [Keys -> {"none", "ready", "waiting"}] /\ failed \subseteq failed'
<1>1. Types /\ None \notin seen /\ worker[k].pc = "send"
  BY DEF ChannelInv, UuidInv, ReplyFails, At
<1>2. worker[k].run \in Runs
  BY <1>1 DEF Types
<1>3. /\ shown' \in [Keys -> Seq(Runs)] /\ copies' = copies
      /\ Known(k) \/ Shows(k) \/ (seen' = seen /\ shown' = shown)
  <2>1. CASE Accept(k)
    BY <1>1, <1>2, <2>1, AcceptFacts
  <2>2. CASE UNCHANGED feishu
    BY <1>1, <2>2 DEF feishu, Types
  <2> QED BY <2>1, <2>2 DEF ReplyFails
<1>4. CASE Exhausted(worker[k].attempt)
  <2>1. failed' = failed \cup {worker[k].run} /\ Finish(k)
    BY <1>4 DEF ReplyFails
  <2>2. failed' \subseteq Runs /\ failed \subseteq failed'
    BY <1>1, <1>2, <2>1 DEF Types
  <2> QED BY <1>1, <1>2, <1>3, <2>1, <2>2, FinishFacts
<1>5. CASE ~Exhausted(worker[k].attempt)
  <2>1. worker' = [worker EXCEPT ![k].attempt = @ + 1] /\ failed' = failed /\ task' = task
    BY <1>5 DEF ReplyFails
  <2> QED BY <1>1, <1>2, <1>3, <2>1, AgainFacts DEF Types
<1> QED BY <1>4, <1>5

(* The threads that are left after one failed an attempt.                   *)
LEMMA HumanFailsFacts ==
  ASSUME Types, NEW t \in threads, HumanFails(t)
  PROVE  /\ threads' \subseteq Threads
         /\ \A u \in threads' : \/ u \in threads /\ u # t
                                \/ u.id = t.id /\ \A w \in threads' : w # u => w \in threads /\ w # t
<1>1. t \in Threads /\ threads \subseteq Threads
  BY DEF Types
<1>2. t.attempt + 1 \in Nat
  BY <1>1 DEF Threads
<1> DEFINE a == [t EXCEPT !.attempt = @ + 1]
<1>3. a \in Threads /\ a.id = t.id
  BY <1>1, <1>2 DEF Threads
<1>4. threads' = (threads \ {t}) \cup (IF Exhausted(t.attempt) THEN {} ELSE {a})
  BY DEF HumanFails
<1> HIDE DEF a
<1> QED BY <1>1, <1>3, <1>4

(* Types are kept.                                                          *)
LEMMA TypesStep ==
  ASSUME ChannelInv, [Next]_vars
  PROVE  Types'
<1> USE DEF process, disk, feishu, history
<1>1. Types
  BY DEF ChannelInv
<1>2. ASSUME NEW m \in Msgs, Push(m) PROVE Types'
  <2>1. pushes' \in [Msgs -> 0..MaxPushes] /\ queue' \in [Keys -> Seq(Runs)]
    BY <1>1, <1>2, PushFacts
  <2>2. task' \in [Keys -> {"none", "ready", "waiting"}]
    BY <1>1, <1>2 DEF Push, Started, Types
  <2> QED BY <1>1, <1>2, <2>1, <2>2 DEF Push, Types
<1>3. ASSUME NEW k \in Keys, Take(k) PROVE Types'
  <2>1. /\ queue' \in [Keys -> Seq(Runs)] /\ worker' \in [Keys -> Workers]
        /\ worker'[k].run \in Runs /\ \A j \in Keys : j # k => worker'[j] = worker[j]
    BY <1>1, <1>3, TakeFacts
  <2>2. \A j \in Keys : worker'[j].pc # "idle" => worker'[j].run \in Runs
    BY <1>1, <2>1 DEF Types
  <2>3. task' \in [Keys -> {"none", "ready", "waiting"}]
    BY <1>1, <1>3 DEF Take, Types
  <2> QED BY <1>1, <1>3, <2>1, <2>2, <2>3 DEF Take, Types
<1>4. ASSUME NEW k \in Keys, TurnReturns(k) PROVE Types'
  <2>1. worker[k].run \in Runs /\ To(k, "log")
    BY <1>1, <1>4 DEF TurnReturns, At, LogNext, Types
  <2>2. /\ worker' \in [Keys -> Workers] /\ worker'[k].run \in Runs
        /\ \A j \in Keys : j # k => worker'[j] = worker[j]
    BY <1>1, <2>1, ToFacts
  <2>3. \A j \in Keys : worker'[j].pc # "idle" => worker'[j].run \in Runs
    BY <1>1, <2>2 DEF Types
  <2> QED BY <1>1, <1>4, <2>1, <2>2, <2>3 DEF TurnReturns, SavedWith, Types
<1>5. ASSUME NEW k \in Keys, Raises(k) PROVE Types'
  <2>1. worker[k].run \in Runs /\ Finish(k)
    BY <1>1, <1>5 DEF Raises, At, Types
  <2>2. /\ worker' \in [Keys -> Workers] /\ worker'[k].pc = "idle"
        /\ task' \in [Keys -> {"none", "ready", "waiting"}]
        /\ \A j \in Keys : j # k => worker'[j] = worker[j]
    BY <1>1, <2>1, FinishFacts
  <2>3. \A j \in Keys : worker'[j].pc # "idle" => worker'[j].run \in Runs
    BY <1>1, <2>2 DEF Types
  <2> QED BY <1>1, <1>5, <2>1, <2>2, <2>3 DEF Raises, Types
<1>6. ASSUME NEW k \in Keys, AppendSession(k) PROVE Types'
  <2>1. worker[k].run \in Runs /\ To(k, "send") /\ log' \in [Keys -> Seq(Runs)]
    BY <1>1, <1>6, AppendFacts DEF AppendSession, Types, At
  <2>2. /\ worker' \in [Keys -> Workers] /\ worker'[k].run \in Runs
        /\ \A j \in Keys : j # k => worker'[j] = worker[j]
    BY <1>1, <2>1, ToFacts
  <2>3. \A j \in Keys : worker'[j].pc # "idle" => worker'[j].run \in Runs
    BY <1>1, <2>2 DEF Types
  <2> QED BY <1>1, <1>6, <2>1, <2>2, <2>3 DEF AppendSession, Types
<1>7. ASSUME NEW k \in Keys, ReplySent(k) PROVE Types'
  <2>1. /\ worker' \in [Keys -> Workers] /\ worker'[k].pc = "idle" /\ worker[k].run \in Runs
        /\ \A j \in Keys : j # k => worker'[j] = worker[j]
        /\ shown' \in [Keys -> Seq(Runs)] /\ copies' = copies
        /\ task' \in [Keys -> {"none", "ready", "waiting"}]
    BY <1>7, ReplySentFacts
  <2>2. \A j \in Keys : worker'[j].pc # "idle" => worker'[j].run \in Runs
    BY <1>1, <2>1 DEF Types
  <2> QED BY <1>1, <1>7, <2>1, <2>2 DEF ReplySent, Types
<1>8. ASSUME NEW k \in Keys, ReplyFails(k) PROVE Types'
  <2>1. /\ worker' \in [Keys -> Workers] /\ worker[k].run \in Runs
        /\ worker'[k].pc = "idle" \/ worker'[k].run = worker[k].run
        /\ \A j \in Keys : j # k => worker'[j] = worker[j]
        /\ shown' \in [Keys -> Seq(Runs)] /\ copies' = copies /\ failed' \subseteq Runs
        /\ task' \in [Keys -> {"none", "ready", "waiting"}]
    BY <1>8, ReplyFailsFacts
  <2>2. \A j \in Keys : worker'[j].pc # "idle" => worker'[j].run \in Runs
    BY <1>1, <2>1 DEF Types
  <2> QED BY <1>1, <1>8, <2>1, <2>2 DEF ReplyFails, Types
<1>9. ASSUME NEW k \in Keys, SendToHuman(k) PROVE Types'
  <2>1. human + 1 \in 1..MaxHuman /\ human' = human + 1
    BY <1>1, <1>9, ChannelAssumption DEF SendToHuman, Types
  <2>2. [key |-> k, id |-> human + 1, attempt |-> 0] \in Threads
    BY <2>1 DEF Threads
  <2>3. threads' \subseteq Threads
    BY <1>1, <1>9, <2>2 DEF SendToHuman, Types
  <2> QED BY <1>1, <1>9, <2>1, <2>3 DEF SendToHuman, Types
<1>10. ASSUME NEW r \in indexing, Index(r) PROVE Types'
  BY <1>1, <1>10 DEF Index, Types
<1>11. ASSUME NEW t \in threads, HumanSent(t) PROVE Types'
  <2>1. t.id \in 1..MaxHuman /\ copies' = [copies EXCEPT ![t.id] = @ + 1]
    BY <1>1, <1>11 DEF HumanSent, Types, Threads
  <2>2. copies' \in [1..MaxHuman -> Nat] /\ threads' \subseteq Threads
    BY <1>1, <1>11, <2>1 DEF HumanSent, Types
  <2> QED BY <1>1, <1>11, <2>2 DEF HumanSent, Types
<1>12. ASSUME NEW t \in threads, HumanFails(t) PROVE Types'
  <2>1. t.id \in 1..MaxHuman
    BY <1>1 DEF Types, Threads
  <2>2. copies' \in [1..MaxHuman -> Nat] /\ doubts' \in [1..MaxHuman -> Nat]
    <3>1. copies \in [1..MaxHuman -> Nat] /\ doubts \in [1..MaxHuman -> Nat]
      BY <1>1 DEF Types
    <3>2. CASE UNCHANGED <<copies, doubts>>
      BY <3>1, <3>2
    <3>3. CASE /\ copies' = [copies EXCEPT ![t.id] = @ + 1]
               /\ doubts' = [doubts EXCEPT ![t.id] = @ + 1]
      BY <2>1, <3>1, <3>3
    <3> QED BY <1>12, <3>2, <3>3 DEF HumanFails
  <2>3. threads' \subseteq Threads
    BY <1>1, <1>12, HumanFailsFacts
  <2> QED BY <1>1, <1>12, <2>2, <2>3 DEF HumanFails, Types
<1>13. CASE Crash
  <2>1. queue' \in [Keys -> Seq(Runs)]
    BY <1>13 DEF Crash
  <2>2. Idle \in Workers /\ Idle.pc = "idle"
    BY DEF Idle, Workers
  <2>3. worker' \in [Keys -> Workers] /\ \A j \in Keys : worker'[j].pc = "idle"
    BY <1>13, <2>2 DEF Crash
  <2>4. task' \in [Keys -> {"none", "ready", "waiting"}]
    BY <1>13 DEF Crash
  <2> QED BY <1>1, <1>13, <2>1, <2>3, <2>4 DEF Crash, Types
<1>14. ASSUME NEW k \in Keys, Answer(k) PROVE Types'
  <2>1. worker[k].run \in Runs /\ To(k, "send")
    BY <1>1, <1>14 DEF Answer, At, Types
  <2>2. /\ worker' \in [Keys -> Workers] /\ worker'[k].run \in Runs
        /\ \A j \in Keys : j # k => worker'[j] = worker[j]
    BY <1>1, <2>1, ToFacts
  <2>3. \A j \in Keys : worker'[j].pc # "idle" => worker'[j].run \in Runs
    BY <1>1, <2>2 DEF Types
  <2> QED BY <1>1, <1>14, <2>2, <2>3 DEF Answer, Types
<1>15. ASSUME NEW k \in Keys, AppendRaises(k) PROVE Types'
  <2>1. worker[k].run \in Runs /\ Finish(k) /\ At(k, "log") /\ log' \in {log, Logged(k)}
    BY <1>1, <1>15 DEF AppendRaises, At, Types
  <2>2. /\ worker' \in [Keys -> Workers] /\ worker'[k].pc = "idle"
        /\ task' \in [Keys -> {"none", "ready", "waiting"}]
        /\ \A j \in Keys : j # k => worker'[j] = worker[j]
    BY <1>1, <2>1, FinishFacts
  <2>3. \A j \in Keys : worker'[j].pc # "idle" => worker'[j].run \in Runs
    BY <1>1, <2>2 DEF Types
  <2>4. log' \in [Keys -> Seq(Runs)]
    BY <1>1, <2>1, AppendFacts DEF Types
  <2> QED BY <1>1, <1>15, <2>1, <2>2, <2>3, <2>4 DEF AppendRaises, Types
<1>16. ASSUME NEW k \in Keys, Expire(k) PROVE Types'
  BY <1>1, <1>16 DEF Expire, Types
<1>17. CASE UNCHANGED vars
  BY <1>1, <1>17 DEF vars, Types
<1> QED BY <1>2, <1>3, <1>4, <1>5, <1>6, <1>7, <1>8, <1>9, <1>10, <1>11, <1>12, <1>13, <1>14,
           <1>15, <1>16, <1>17
     DEF Next, Work
-----------------------------------------------------------------------------
(* Table g is table f with e added to the end of its sequence k.            *)
Grown(f, g, k, e) ==
  /\ \A j \in Keys : \A i \in 1..Len(f[j]) : i \in 1..Len(g[j]) /\ g[j][i] = f[j][i]
  /\ Len(f[k]) + 1 \in 1..Len(g[k]) /\ g[k][Len(f[k]) + 1] = e
  /\ \A j \in Keys : \A i \in 1..Len(g[j]) :
       \/ i \in 1..Len(f[j]) /\ g[j][i] = f[j][i]
       \/ j = k /\ i = Len(f[k]) + 1 /\ g[j][i] = e
LEMMA GrownAt ==
  ASSUME NEW f, NEW g, NEW k \in Keys, NEW e,
         \A j \in Keys : j # k => g[j] = f[j],
         Len(g[k]) = Len(f[k]) + 1, Len(f[k]) \in Nat,
         \A i \in 1..Len(f[k]) : g[k][i] = f[k][i],
         g[k][Len(f[k]) + 1] = e
  PROVE  Grown(f, g, k, e)
<1>1. \A n \in Nat : /\ \A i \in 1..n : i \in 1..(n + 1)
                     /\ n + 1 \in 1..(n + 1)
                     /\ \A i \in 1..(n + 1) : i \in 1..n \/ i = n + 1
  OBVIOUS
<1> DEFINE n == Len(f[k])
<1>2. /\ \A i \in 1..n : i \in 1..(n + 1)
      /\ n + 1 \in 1..(n + 1)
      /\ \A i \in 1..(n + 1) : i \in 1..n \/ i = n + 1
  BY <1>1, Zenon
<1>3. Len(g[k]) = n + 1 /\ \A i \in 1..n : g[k][i] = f[k][i]
  OBVIOUS
<1>4. g[k][n + 1] = e
  OBVIOUS
<1>5. \A i \in 1..Len(g[k]) : (i \in 1..n /\ g[k][i] = f[k][i]) \/ (i = n + 1 /\ g[k][i] = e)
  BY <1>2, <1>3, <1>4, Zenon
<1>6. \A i \in 1..n : i \in 1..Len(g[k]) /\ g[k][i] = f[k][i]
  BY <1>2, <1>3, Zenon
<1>7. n + 1 \in 1..Len(g[k])
  BY <1>2, <1>3, Zenon
<1> QED BY <1>4, <1>5, <1>6, <1>7, Zenon DEF Grown

(* Feishu drops a reply whose uuid it knows: nothing new is accepted.       *)
LEMMA UuidKnown ==
  ASSUME UuidInv, NEW k \in Keys, Known(k), sent' \subseteq sent \cup {worker[k].run}
  PROVE  UuidInv'
  BY DEF UuidInv, Known, Uuid

(* It shows a reply whose uuid it does not know, which no chat shows.       *)
LEMMA UuidShows ==
  ASSUME UuidInv, NEW k \in Keys, worker[k].run \in Runs, Shows(k),
         sent' \subseteq sent \cup {worker[k].run}
  PROVE  UuidInv'
<1> DEFINE u == Uuid(k)
           r == worker[k].run
           n == Len(shown[k]) + 1
<1>1. u # None /\ RootId(r[1]) = u
  BY ChannelAssumption DEF Uuid, RootId, Runs, Heard
<1>2. Grown(shown, shown', k, r)
  BY GrownAt DEF Shows
<1>3. u \notin seen /\ seen' = seen \cup {u}
  BY DEF Shows
<1> HIDE DEF u, r
<1>4. None \notin seen'
  BY <1>1, <1>3 DEF UuidInv
<1>5. \A v \in seen' : \E j \in Keys : \E i \in 1..Len(shown'[j]) : RootId(shown'[j][i][1]) = v
  <2>1. ASSUME NEW v \in seen PROVE \E j \in Keys : \E i \in 1..Len(shown'[j]) : RootId(shown'[j][i][1]) = v
    <3>1. PICK j \in Keys : \E i \in 1..Len(shown[j]) : RootId(shown[j][i][1]) = v
      BY DEF UuidInv
    <3>2. PICK i \in 1..Len(shown[j]) : RootId(shown[j][i][1]) = v
      BY <3>1
    <3>3. i \in 1..Len(shown'[j]) /\ shown'[j][i] = shown[j][i]
      BY <1>2, Zenon DEF Grown
    <3> QED BY <3>2, <3>3, Zenon
  <2>2. n \in 1..Len(shown'[k]) /\ RootId(shown'[k][n][1]) = u
    BY <1>1, <1>2, Zenon DEF Grown
  <2> QED BY <1>3, <2>1, <2>2, Zenon
<1>6. \A j \in Keys : \A i \in 1..Len(shown'[j]) : RootId(shown'[j][i][1]) \in seen'
  <2> SUFFICES ASSUME NEW j \in Keys, NEW i \in 1..Len(shown'[j])
               PROVE  RootId(shown'[j][i][1]) \in seen'
    OBVIOUS
  <2>2. CASE i \in 1..Len(shown[j]) /\ shown'[j][i] = shown[j][i]
    <3>1. RootId(shown[j][i][1]) \in seen
      BY <2>2 DEF UuidInv
    <3> QED BY <1>3, <2>2, <3>1, Zenon
  <2>3. CASE shown'[j][i] = r
    BY <1>1, <1>3, <2>3, Zenon
  <2> QED BY <1>2, <2>2, <2>3, Zenon DEF Grown
<1>7. \A j \in Keys : \A h, i \in 1..Len(shown'[j]) :
        RootId(shown'[j][h][1]) = RootId(shown'[j][i][1]) => h = i
  <2>1. ASSUME NEW j \in Keys, NEW i \in 1..Len(shown'[j])
        PROVE  \/ /\ i \in 1..Len(shown[j]) /\ shown'[j][i] = shown[j][i]
                  /\ RootId(shown[j][i][1]) # u
               \/ i = n /\ RootId(shown'[j][i][1]) = u
    <3>1. CASE i \in 1..Len(shown[j]) /\ shown'[j][i] = shown[j][i]
      <4>1. RootId(shown[j][i][1]) \in seen
        BY <3>1 DEF UuidInv
      <4> QED BY <1>3, <3>1, <4>1, Zenon
    <3>2. CASE i = n /\ shown'[j][i] = r
      BY <1>1, <3>2, Zenon
    <3> QED BY <1>2, <3>1, <3>2, Zenon DEF Grown
  <2>2. \A j \in Keys : \A h, i \in 1..Len(shown[j]) :
          RootId(shown[j][h][1]) = RootId(shown[j][i][1]) => h = i
    BY DEF UuidInv
  <2> SUFFICES ASSUME NEW j \in Keys, NEW h \in 1..Len(shown'[j]), NEW i \in 1..Len(shown'[j]),
                      RootId(shown'[j][h][1]) = RootId(shown'[j][i][1])
               PROVE  h = i
    OBVIOUS
  <2>3. CASE h = n /\ RootId(shown'[j][h][1]) = u
    BY <2>1, <2>3, Zenon
  <2>4. CASE i = n /\ RootId(shown'[j][i][1]) = u
    BY <2>1, <2>4, Zenon
  <2> QED BY <2>1, <2>2, <2>3, <2>4, Zenon
<1>8. \A q \in sent' : RootId(q[1]) \in seen'
  BY <1>1, <1>3 DEF UuidInv, r
<1> QED BY <1>4, <1>5, <1>6, <1>7, <1>8 DEF UuidInv

(* The uuids are kept: only a reply touches them.                           *)
LEMMA UuidStep ==
  ASSUME ChannelInv, [Next]_vars
  PROVE  UuidInv'
<1> USE DEF process, disk, feishu, history
<1>1. UuidInv
  BY DEF ChannelInv
<1>2. CASE UNCHANGED <<seen, shown, sent>>
  BY <1>1, <1>2 DEF UuidInv
<1>3. ASSUME NEW k \in Keys, ReplySent(k) PROVE UuidInv'
  <2>1. /\ Known(k) \/ Shows(k)
        /\ worker[k].run \in Runs /\ sent' \subseteq sent \cup {worker[k].run}
    BY <1>3, ReplySentFacts
  <2> QED BY <1>1, <2>1, UuidKnown, UuidShows
<1>4. ASSUME NEW k \in Keys, ReplyFails(k) PROVE UuidInv'
  <2>1. /\ Known(k) \/ Shows(k) \/ (seen' = seen /\ shown' = shown)
        /\ worker[k].run \in Runs
    BY <1>4, ReplyFailsFacts
  <2>2. sent' = sent /\ sent' \subseteq sent \cup {worker[k].run}
    BY <1>4 DEF ReplyFails
  <2> QED BY <1>1, <1>2, <2>1, <2>2, UuidKnown, UuidShows
<1>5. \/ UNCHANGED <<seen, shown, sent>>
      \/ \E k \in Keys : ReplySent(k) \/ ReplyFails(k)
  BY DEF Next, Work, Push, Take, Answer, Expire, TurnReturns, Raises, AppendSession, AppendRaises, SendToHuman, Index,
         HumanSent, HumanFails, Crash, vars
<1> QED BY <1>2, <1>3, <1>4, <1>5

-----------------------------------------------------------------------------
(* A call of send_to_human starts a thread with a new number.               *)
LEMMA ThreadSend ==
  ASSUME Types, ThreadInv, NEW k \in Keys, SendToHuman(k)
  PROVE  ThreadInv'
<1> DEFINE t == [key |-> k, id |-> human + 1, attempt |-> 0]
<1>1. /\ human \in Nat /\ human + 1 \in 1..MaxHuman /\ human' = human + 1
      /\ copies' = copies /\ doubts' = doubts
      /\ copies \in [1..MaxHuman -> Nat] /\ doubts \in [1..MaxHuman -> Nat]
  BY ChannelAssumption DEF SendToHuman, Types, feishu, history
<1>2. threads' = threads \cup {t} /\ t.id = human + 1
  BY DEF SendToHuman
<1> HIDE DEF t
<1>3. \A u \in threads : u.id \in Nat
  BY DEF Types, Threads
<1>4. copies[human + 1] <= doubts[human + 1]
  BY <1>1 DEF ThreadInv
<1>5. \A u \in threads' : u.id <= human' /\ copies'[u.id] <= doubts'[u.id]
  BY <1>1, <1>2, <1>3, <1>4 DEF ThreadInv
<1>6. \A u, v \in threads' : u.id = v.id => u = v
  BY <1>1, <1>2, <1>3 DEF ThreadInv
<1>7. \A h \in 1..MaxHuman : copies'[h] <= 1 + doubts'[h] /\ (h > human' => copies'[h] = 0)
  BY <1>1 DEF ThreadInv
<1> QED BY <1>5, <1>6, <1>7 DEF ThreadInv

(* A post that is answered ends its thread, whose message had been shown    *)
(* in no other than doubtful posts.                                         *)
LEMMA ThreadSent ==
  ASSUME Types, ThreadInv, NEW t \in threads, HumanSent(t)
  PROVE  ThreadInv'
<1>1. /\ t.id \in 1..MaxHuman /\ t.id <= human /\ copies[t.id] <= doubts[t.id]
      /\ copies' = [copies EXCEPT ![t.id] = @ + 1] /\ threads' = threads \ {t}
      /\ human' = human /\ doubts' = doubts /\ human \in Nat
      /\ copies \in [1..MaxHuman -> Nat] /\ doubts \in [1..MaxHuman -> Nat]
  BY DEF HumanSent, Types, Threads, ThreadInv, history
<1>2. \A u \in threads' : u.id \in 1..MaxHuman /\ u.id # t.id
  BY <1>1 DEF Types, Threads, ThreadInv
<1>3. \A u \in threads' : u.id <= human' /\ copies'[u.id] <= doubts'[u.id]
  BY <1>1, <1>2 DEF ThreadInv
<1>4. \A u, v \in threads' : u.id = v.id => u = v
  BY <1>1 DEF ThreadInv
<1>5. \A h \in 1..MaxHuman : copies'[h] <= 1 + doubts'[h] /\ (h > human' => copies'[h] = 0)
  BY <1>1 DEF ThreadInv
<1> QED BY <1>3, <1>4, <1>5 DEF ThreadInv

(* A post that fails is shown at most when its answer is lost.              *)
LEMMA ThreadFails ==
  ASSUME Types, ThreadInv, NEW t \in threads, HumanFails(t)
  PROVE  ThreadInv'
<1>1. /\ t.id \in 1..MaxHuman /\ t.id <= human /\ copies[t.id] <= doubts[t.id]
      /\ human' = human /\ human \in Nat /\ threads \subseteq Threads
      /\ copies \in [1..MaxHuman -> Nat] /\ doubts \in [1..MaxHuman -> Nat]
  BY DEF HumanFails, Types, Threads, ThreadInv
<1>2. \/ copies' = copies /\ doubts' = doubts
      \/ /\ copies' = [copies EXCEPT ![t.id] = @ + 1]
         /\ doubts' = [doubts EXCEPT ![t.id] = @ + 1]
  BY DEF HumanFails
<1>3. \A h \in 1..MaxHuman :
        /\ copies[h] <= doubts[h] => copies'[h] <= doubts'[h]
        /\ copies[h] <= 1 + doubts[h] => copies'[h] <= 1 + doubts'[h]
        /\ h > human /\ copies[h] = 0 => copies'[h] = 0
  <2> SUFFICES ASSUME NEW h \in 1..MaxHuman
               PROVE  /\ copies[h] <= doubts[h] => copies'[h] <= doubts'[h]
                      /\ copies[h] <= 1 + doubts[h] => copies'[h] <= 1 + doubts'[h]
                      /\ h > human /\ copies[h] = 0 => copies'[h] = 0
    OBVIOUS
  <2>1. copies[h] \in Nat /\ doubts[h] \in Nat /\ h \in Int
    BY <1>1
  <2>2. CASE h = t.id /\ copies'[h] = copies[h] + 1 /\ doubts'[h] = doubts[h] + 1
    BY <1>1, <2>1, <2>2
  <2>3. CASE copies'[h] = copies[h] /\ doubts'[h] = doubts[h]
    BY <2>3
  <2> QED BY <1>1, <1>2, <2>2, <2>3
<1>4. \A u \in threads' : \/ u \in threads /\ u # t
                          \/ u.id = t.id /\ \A w \in threads' : w # u => w \in threads /\ w # t
  BY HumanFailsFacts
<1>5. \A u \in threads' : u.id \in 1..MaxHuman /\ u.id <= human' /\ copies[u.id] <= doubts[u.id]
  BY <1>1, <1>4 DEF ThreadInv, Threads
<1>6. \A u \in threads' : u.id <= human' /\ copies'[u.id] <= doubts'[u.id]
  BY <1>3, <1>5
<1>7. \A u, v \in threads' : u.id = v.id => u = v
  <2>1. \A u, v \in threads : u.id = v.id => u = v
    BY DEF ThreadInv
  <2> QED BY <1>4, <2>1
<1>8. \A h \in 1..MaxHuman : copies'[h] <= 1 + doubts'[h] /\ (h > human' => copies'[h] = 0)
  BY <1>1, <1>3 DEF ThreadInv
<1> QED BY <1>6, <1>7, <1>8 DEF ThreadInv

(* The posts are kept: a reply leaves what send_to_human posted alone.      *)
LEMMA ThreadStep ==
  ASSUME ChannelInv, [Next]_vars
  PROVE  ThreadInv'
<1> USE DEF process, disk, feishu, history
<1>1. Types /\ ThreadInv
  BY DEF ChannelInv
<1>2. CASE UNCHANGED <<threads, human, copies, doubts>>
  BY <1>1, <1>2 DEF ThreadInv
<1>3. ASSUME NEW k \in Keys, ReplySent(k) \/ ReplyFails(k) PROVE ThreadInv'
  <2>1. copies' = copies
    BY <1>3, ReplySentFacts, ReplyFailsFacts
  <2> QED BY <1>2, <1>3, <2>1 DEF ReplySent, ReplyFails
<1>4. ASSUME NEW k \in Keys, SendToHuman(k) PROVE ThreadInv'
  BY <1>1, <1>4, ThreadSend
<1>5. ASSUME NEW t \in threads, HumanSent(t) \/ HumanFails(t) PROVE ThreadInv'
  BY <1>1, <1>5, ThreadSent, ThreadFails
<1>6. CASE Crash
  BY <1>1, <1>6 DEF Crash, ThreadInv
<1>7. \/ UNCHANGED <<threads, human, copies, doubts>>
      \/ Crash
      \/ \E k \in Keys : ReplySent(k) \/ ReplyFails(k)
      \/ \E k \in Keys : SendToHuman(k)
      \/ \E t \in threads : HumanSent(t) \/ HumanFails(t)
  BY DEF Next, Work, Push, Take, Answer, Expire, TurnReturns, Raises, AppendSession, AppendRaises, Index, vars
<1> QED BY <1>2, <1>3, <1>4, <1>5, <1>6, <1>7

-----------------------------------------------------------------------------
(* What waits, is handled or is logged is a run.                            *)
LEMMA AreRuns ==
  ASSUME Types
  PROVE  /\ \A k \in Keys : \A i \in 1..Len(queue[k]) : queue[k][i] \in Runs
         /\ \A k \in Keys : \A i \in 1..Len(log[k]) : log[k][i] \in Runs
         /\ \A k \in Keys : \A i \in 1..Len(shown[k]) : shown[k][i] \in Runs
         /\ \A k \in Keys : Busy(k) => worker[k].run \in Runs
         /\ \A k \in Keys : Unlogged(k) => Busy(k)
<1>1. \A f \in [Keys -> Seq(Runs)], k \in Keys : \A i \in 1..Len(f[k]) : f[k][i] \in Runs
  BY ElementOfSeq
<1>2. /\ queue \in [Keys -> Seq(Runs)] /\ log \in [Keys -> Seq(Runs)] /\ shown \in [Keys -> Seq(Runs)]
      /\ \A k \in Keys : Busy(k) => worker[k].run \in Runs
  BY DEF Types, Busy
<1>3. \A k \in Keys : Unlogged(k) => Busy(k)
  BY DEF Unlogged, Busy
<1> QED BY <1>1, <1>2, <1>3, Zenon

(* A key whose queue and log rest, and whose worker takes nothing up,       *)
(* handles nothing twice, whatever is pushed.                               *)
LEMMA OnceKept ==
  ASSUME Types, NEW k \in Keys, Once(k),
         queue'[k] = queue[k], log'[k] = log[k],
         Busy(k)' => Busy(k) /\ worker'[k].run = worker[k].run,
         Unlogged(k)' => Unlogged(k),
         \A r \in Runs : Counted(pushes, r) => Counted(pushes', r)
  PROVE  Once(k)'
<1>1. /\ \A i \in 1..Len(queue[k]) : queue[k][i] \in Runs
      /\ \A i \in 1..Len(log[k]) : log[k][i] \in Runs
      /\ Busy(k) => worker[k].run \in Runs
      /\ Unlogged(k) => Busy(k)
  BY AreRuns
<1>2. Unlogged(k)' => Busy(k)'
  BY DEF Unlogged, Busy
<1>3. \A i \in 1..Len(queue'[k]) :
        /\ Counted(pushes', queue'[k][i])
        /\ \A j \in 1..Len(queue'[k]) : queue'[k][i] = queue'[k][j] => i = j
        /\ \A n \in 1..Len(log'[k]) : log'[k][n] # queue'[k][i]
        /\ Busy(k)' => worker'[k].run # queue'[k][i]
  BY <1>1 DEF Once
<1>4. Busy(k)' => Counted(pushes', worker'[k].run)
  BY <1>1 DEF Once
<1>5. Unlogged(k)' => \A n \in 1..Len(log'[k]) : log'[k][n] # worker'[k].run
  BY <1>2 DEF Once
<1>6. \A n \in 1..Len(log'[k]) :
        /\ Counted(pushes', log'[k][n])
        /\ \A m \in 1..Len(log'[k]) : log'[k][n] = log'[k][m] => n = m
  BY <1>1 DEF Once
<1> QED BY <1>3, <1>4, <1>5, <1>6 DEF Once

(* The numbers of the pushes only grow, and a new one was not counted.      *)
LEMMA CountedGrows ==
  ASSUME Types, NEW m \in Msgs, Push(m)
  PROVE  /\ \A r \in Runs : Counted(pushes, r) => Counted(pushes', r)
         /\ ~Counted(pushes, <<m, pushes[m] + 1>>) /\ Counted(pushes', <<m, pushes[m] + 1>>)
<1>1. /\ pushes'[m] = pushes[m] + 1 /\ pushes[m] \in Nat
      /\ \A n \in Msgs : n # m => pushes'[n] = pushes[n]
  BY PushFacts
<1>2. \A r \in Runs : r[1] \in Msgs /\ r[2] \in Int
  BY ChannelAssumption DEF Runs, Heard
<1>3. \A r \in Runs : Counted(pushes, r) => Counted(pushes', r)
  BY <1>1, <1>2 DEF Counted
<1> QED BY <1>1, <1>3 DEF Counted

(* A push waits beside other runs.                                          *)
LEMMA OncePush ==
  ASSUME Types, NEW m \in Msgs, Push(m), NEW k \in Keys, Once(k)
  PROVE  Once(k)'
<1> DEFINE r == <<m, pushes[m] + 1>>
           e == Len(queue[k]) + 1
<1>1. /\ log' = log /\ worker' = worker
      /\ \A q \in Runs : Counted(pushes, q) => Counted(pushes', q)
      /\ ~Counted(pushes, r) /\ Counted(pushes', r)
  BY CountedGrows DEF Push, disk
<1>2. CASE queue'[k] = queue[k]
  <2>1. log'[k] = log[k] /\ (Busy(k)' => Busy(k) /\ worker'[k].run = worker[k].run)
        /\ (Unlogged(k)' => Unlogged(k))
    BY <1>1 DEF Busy, Unlogged
  <2> QED BY <1>1, <1>2, <2>1, OnceKept
<1>3. CASE queue'[k] # queue[k]
  <2>1. Grown(queue, queue', k, r)
    <3>1. m \in Heard /\ k = RoutingKey(m)
      BY <1>3, PushFacts
    <3>2. /\ \A j \in Keys : j # k => queue'[j] = queue[j]
          /\ Len(queue'[k]) = Len(queue[k]) + 1 /\ Len(queue[k]) \in Nat
          /\ \A i \in 1..Len(queue[k]) : queue'[k][i] = queue[k][i]
          /\ queue'[k][Len(queue[k]) + 1] = r
      BY <3>1, PushFacts
    <3> QED BY <3>2, GrownAt
  <2>2. /\ \A i \in 1..Len(queue[k]) : queue[k][i] \in Runs
        /\ \A i \in 1..Len(log[k]) : log[k][i] \in Runs
        /\ Busy(k) => worker[k].run \in Runs
    BY AreRuns
  <2> HIDE DEF r, e
  <2>3. \A i \in 1..Len(queue'[k]) :
          \/ i \in 1..Len(queue[k]) /\ queue'[k][i] = queue[k][i] /\ queue[k][i] # r
          \/ i = e /\ queue'[k][i] = r
    BY <1>1, <2>1, Zenon DEF Grown, Once, e
  <2>4. \A i \in 1..Len(queue'[k]) :
          /\ Counted(pushes', queue'[k][i])
          /\ \A n \in 1..Len(log'[k]) : log'[k][n] # queue'[k][i]
          /\ Busy(k)' => worker'[k].run # queue'[k][i]
    <3> SUFFICES ASSUME NEW i \in 1..Len(queue'[k])
                 PROVE  /\ Counted(pushes', queue'[k][i])
                        /\ \A n \in 1..Len(log[k]) : log[k][n] # queue'[k][i]
                        /\ Busy(k) => worker[k].run # queue'[k][i]
      BY <1>1, Zenon DEF Busy
    <3>1. CASE i \in 1..Len(queue[k]) /\ queue'[k][i] = queue[k][i]
      BY <1>1, <2>2, <3>1, Zenon DEF Once
    <3>2. CASE queue'[k][i] = r
      BY <1>1, <3>2, Zenon DEF Once
    <3> QED BY <2>3, <3>1, <3>2, Zenon
  <2>5. \A i, j \in 1..Len(queue'[k]) : queue'[k][i] = queue'[k][j] => i = j
    <3> SUFFICES ASSUME NEW i \in 1..Len(queue'[k]), NEW j \in 1..Len(queue'[k]),
                        queue'[k][i] = queue'[k][j]
                 PROVE  i = j
      OBVIOUS
    <3>1. CASE i = e /\ queue'[k][i] = r
      BY <2>3, <3>1, Zenon
    <3>2. CASE j = e /\ queue'[k][j] = r
      BY <2>3, <3>2, Zenon
    <3>3. \A a, b \in 1..Len(queue[k]) : queue[k][a] = queue[k][b] => a = b
      BY Zenon DEF Once
    <3> QED BY <2>3, <3>1, <3>2, <3>3, Zenon
  <2>6. Busy(k)' => Counted(pushes', worker'[k].run)
    BY <1>1, <2>2, Zenon DEF Once, Busy
  <2>7. Unlogged(k)' => \A n \in 1..Len(log'[k]) : log'[k][n] # worker'[k].run
    BY <1>1, Zenon DEF Once, Unlogged
  <2>8. \A n \in 1..Len(log'[k]) :
          /\ Counted(pushes', log'[k][n])
          /\ \A l \in 1..Len(log'[k]) : log'[k][n] = log'[k][l] => n = l
    BY <1>1, <2>2, Zenon DEF Once
  <2> QED BY <2>4, <2>5, <2>6, <2>7, <2>8 DEF Once
<1> QED BY <1>2, <1>3

(* A worker takes the head up, which is nowhere else.                       *)
LEMMA OnceTake ==
  ASSUME Types, NEW k \in Keys, Take(k), NEW j \in Keys, Once(j)
  PROVE  Once(j)'
<1>1. /\ log' = log /\ pushes' = pushes
      /\ \A q \in Runs : Counted(pushes, q) => Counted(pushes', q)
  BY DEF Take, disk
<1>2. CASE j # k
  <2>1. worker'[j] = worker[j] /\ queue'[j] = queue[j] /\ log'[j] = log[j]
    BY <1>1, <1>2, TakeFacts
  <2>2. (Busy(j)' => Busy(j) /\ worker'[j].run = worker[j].run) /\ (Unlogged(j)' => Unlogged(j))
    BY <2>1 DEF Busy, Unlogged
  <2> QED BY <1>1, <2>1, <2>2, OnceKept
<1>3. CASE j = k
  <2>1. /\ worker'[k].run = queue[k][1] /\ 1 \in 1..Len(queue[k])
        /\ \A i \in 1..Len(queue'[k]) : queue'[k][i] = queue[k][i + 1] /\ i + 1 \in 1..Len(queue[k])
    BY TakeFacts
  <2>2. \A n \in Int : \A i \in 1..n : i + 1 # 1 /\ \A h \in 1..n : i + 1 = h + 1 => i = h
    OBVIOUS
  <2>3. Len(queue'[k]) \in Int
    BY TakeFacts, LenProperties
  <2>4. \A i \in 1..Len(queue'[k]) : i + 1 # 1 /\ \A h \in 1..Len(queue'[k]) : i + 1 = h + 1 => i = h
    BY <2>2, <2>3, Zenon
  <2>5. /\ \A i \in 1..Len(queue[k]) :
             /\ Counted(pushes, queue[k][i])
             /\ \A h \in 1..Len(queue[k]) : queue[k][i] = queue[k][h] => i = h
             /\ \A n \in 1..Len(log[k]) : log[k][n] # queue[k][i]
    BY <1>3, Zenon DEF Once
  <2>6. Counted(pushes', worker'[k].run) /\ \A n \in 1..Len(log'[k]) : log'[k][n] # worker'[k].run
    BY <1>1, <2>1, <2>5
  <2>8. ASSUME NEW i \in 1..Len(queue'[k])
        PROVE  /\ Counted(pushes', queue'[k][i])
               /\ \A h \in 1..Len(queue'[k]) : queue'[k][i] = queue'[k][h] => i = h
               /\ \A n \in 1..Len(log'[k]) : log'[k][n] # queue'[k][i]
               /\ worker'[k].run # queue'[k][i]
    <3>1. queue'[k][i] = queue[k][i + 1] /\ i + 1 \in 1..Len(queue[k])
      BY <2>1
    <3>2. Counted(pushes', queue'[k][i]) /\ \A n \in 1..Len(log'[k]) : log'[k][n] # queue'[k][i]
      BY <1>1, <2>5, <3>1
    <3>3. worker'[k].run # queue'[k][i]
      BY <2>1, <2>4, <2>5, <3>1, Zenon
    <3>4. ASSUME NEW h \in 1..Len(queue'[k]), queue'[k][i] = queue'[k][h] PROVE i = h
      <4>1. queue'[k][h] = queue[k][h + 1] /\ h + 1 \in 1..Len(queue[k])
        BY <2>1
      <4>2. i + 1 = h + 1
        BY <2>5, <3>1, <3>4, <4>1, Zenon
      <4> QED BY <2>4, <4>2, Zenon
    <3> QED BY <3>2, <3>3, <3>4
  <2>7. \A n \in 1..Len(log'[k]) :
          /\ Counted(pushes', log'[k][n])
          /\ \A l \in 1..Len(log'[k]) : log'[k][n] = log'[k][l] => n = l
    BY <1>1, <1>3, Zenon DEF Once
  <2> QED BY <1>3, <2>6, <2>7, <2>8 DEF Once
<1> QED BY <1>2, <1>3

(* A turn that is logged leaves the turns.                                  *)
LEMMA OnceAppend ==
  ASSUME Types, NEW k \in Keys, At(k, "log"), log' = Logged(k), queue' = queue, pushes' = pushes,
         worker'[k].pc = "idle" \/ (worker'[k].pc = "send" /\ worker'[k].run = worker[k].run),
         \A i \in Keys : i # k => worker'[i] = worker[i],
         NEW j \in Keys, Once(j)
  PROVE  Once(j)'
<1> DEFINE r == worker[k].run
           e == Len(log[k]) + 1
<1>1. /\ queue' = queue /\ pushes' = pushes /\ Unlogged(k) /\ Busy(k)
      /\ \A q \in Runs : Counted(pushes, q) => Counted(pushes', q)
      /\ Busy(k)' => worker'[k].run = r
      /\ ~Unlogged(k)'
      /\ \A i \in Keys : i # k => worker'[i] = worker[i]
  BY DEF At, Unlogged, Busy
<1>2. /\ Grown(log, log', k, r)
      /\ \A i \in Keys : i # k => log'[i] = log[i]
  <2>1. /\ \A i \in Keys : i # k => log'[i] = log[i]
        /\ Len(log'[k]) = Len(log[k]) + 1 /\ Len(log[k]) \in Nat
        /\ \A i \in 1..Len(log[k]) : log'[k][i] = log[k][i]
        /\ log'[k][Len(log[k]) + 1] = r
    BY AppendFacts
  <2> QED BY <2>1, GrownAt
<1>3. CASE j # k
  <2>1. worker'[j] = worker[j] /\ queue'[j] = queue[j] /\ log'[j] = log[j]
    BY <1>1, <1>2, <1>3
  <2>2. (Busy(j)' => Busy(j) /\ worker'[j].run = worker[j].run) /\ (Unlogged(j)' => Unlogged(j))
    BY <2>1 DEF Busy, Unlogged
  <2> QED BY <1>1, <2>1, <2>2, OnceKept
<1>4. CASE j = k
  <2>1. ~Unlogged(k)'
    BY <1>1
  <2> HIDE DEF r, e
  <2>2. \A n \in 1..Len(log'[k]) :
          \/ n \in 1..Len(log[k]) /\ log'[k][n] = log[k][n] /\ log[k][n] # r
          \/ n = e /\ log'[k][n] = r
    BY <1>1, <1>2, <1>4, Zenon DEF Grown, Once, e, r
  <2>3. /\ \A i \in 1..Len(queue[k]) : queue[k][i] # r
        /\ Counted(pushes, r)
        /\ \A a, b \in 1..Len(log[k]) : log[k][a] = log[k][b] => a = b
    BY <1>1, <1>4, Zenon DEF Once, r
  <2>4. \A n \in 1..Len(log'[k]) :
          /\ Counted(pushes', log'[k][n])
          /\ \A l \in 1..Len(log'[k]) : log'[k][n] = log'[k][l] => n = l
    <3>1. \A n \in 1..Len(log'[k]) : Counted(pushes', log'[k][n])
      BY <1>1, <1>4, <2>2, <2>3, Zenon DEF Once
    <3> SUFFICES ASSUME NEW n \in 1..Len(log'[k]), NEW l \in 1..Len(log'[k]), log'[k][n] = log'[k][l]
                 PROVE  n = l
      BY <3>1, Zenon
    <3>2. CASE log'[k][n] = r
      <4>1. n = e /\ l = e
        BY <2>2, <3>2, Zenon
      <4> QED BY <4>1
    <3>3. CASE log'[k][n] # r
      <4>1. /\ n \in 1..Len(log[k]) /\ log'[k][n] = log[k][n]
            /\ l \in 1..Len(log[k]) /\ log'[k][l] = log[k][l]
        BY <2>2, <3>3, Zenon
      <4> QED BY <2>3, <4>1, Zenon
    <3> QED BY <3>2, <3>3
  <2>5. \A i \in 1..Len(queue'[k]) :
          /\ Counted(pushes', queue'[k][i])
          /\ \A h \in 1..Len(queue'[k]) : queue'[k][i] = queue'[k][h] => i = h
          /\ \A n \in 1..Len(log'[k]) : log'[k][n] # queue'[k][i]
          /\ Busy(k)' => worker'[k].run # queue'[k][i]
    <3>1. \A i \in 1..Len(queue[k]) : /\ Counted(pushes, queue[k][i])
                                      /\ \A h \in 1..Len(queue[k]) : queue[k][i] = queue[k][h] => i = h
                                      /\ \A n \in 1..Len(log[k]) : log[k][n] # queue[k][i]
      BY <1>4, Zenon DEF Once
    <3> SUFFICES ASSUME NEW i \in 1..Len(queue[k])
                 PROVE  /\ Counted(pushes', queue[k][i])
                        /\ \A h \in 1..Len(queue[k]) : queue[k][i] = queue[k][h] => i = h
                        /\ \A n \in 1..Len(log'[k]) : log'[k][n] # queue[k][i]
                        /\ Busy(k)' => worker'[k].run # queue[k][i]
      BY <1>1, Zenon
    <3>2. ASSUME NEW n \in 1..Len(log'[k]) PROVE log'[k][n] # queue[k][i]
      <4>1. CASE n \in 1..Len(log[k]) /\ log'[k][n] = log[k][n]
        <5>1. log[k][n] # queue[k][i]
          BY <3>1, <4>1, Zenon
        <5> QED BY <4>1, <5>1
      <4>2. CASE log'[k][n] = r
        <5>1. queue[k][i] # r
          BY <2>3
        <5> QED BY <4>2, <5>1
      <4> QED BY <2>2, <4>1, <4>2, Zenon
    <3>3. Busy(k)' => worker'[k].run # queue[k][i]
      BY <1>1, <2>3, Zenon
    <3> QED BY <1>1, <3>1, <3>2, <3>3, Zenon
  <2>6. Busy(k)' => Counted(pushes', worker'[k].run)
    BY <1>1, <2>3, Zenon
  <2> QED BY <1>4, <2>1, <2>4, <2>5, <2>6 DEF Once
<1> QED BY <1>3, <1>4

(* Every run is handled once.                                               *)
LEMMA OnceStep ==
  ASSUME ChannelInv, [Next]_vars
  PROVE  OnceInv'
<1> USE DEF process, disk, feishu, history
<1>1. Types /\ \A j \in Keys : Once(j)
  BY DEF ChannelInv, OnceInv
<1>2. ASSUME pushes' = pushes, queue' = queue, log' = log, NEW k \in Keys,
             \A j \in Keys : j # k => worker'[j] = worker[j],
             \/ worker'[k].pc = "idle"
             \/ worker'[k].run = worker[k].run /\ Busy(k) /\ (Unlogged(k)' => Unlogged(k))
      PROVE  OnceInv'
  <2>1. \A r \in Runs : Counted(pushes, r) => Counted(pushes', r)
    BY <1>2
  <2>2. ASSUME NEW j \in Keys PROVE Once(j)'
    <3>1. (Busy(j)' => Busy(j) /\ worker'[j].run = worker[j].run) /\ (Unlogged(j)' => Unlogged(j))
      BY <1>2 DEF Busy, Unlogged
    <3>2. queue'[j] = queue[j] /\ log'[j] = log[j]
      BY <1>2
    <3> QED BY <1>1, <2>1, <3>1, <3>2, OnceKept
  <2> QED BY <2>2 DEF OnceInv
<1>3. CASE UNCHANGED <<pushes, queue, worker, log>>
  <2>1. \A r \in Runs : Counted(pushes, r) => Counted(pushes', r)
    BY <1>3
  <2>2. ASSUME NEW j \in Keys PROVE Once(j)'
    BY <1>1, <1>3, <2>1, OnceKept DEF Busy, Unlogged
  <2> QED BY <2>2 DEF OnceInv
<1>4. ASSUME NEW m \in Msgs, Push(m) PROVE OnceInv'
  BY <1>1, <1>4, OncePush DEF OnceInv
<1>5. ASSUME NEW k \in Keys, Take(k) PROVE OnceInv'
  BY <1>1, <1>5, OnceTake DEF OnceInv
<1>6. ASSUME NEW k \in Keys, TurnReturns(k) PROVE OnceInv'
  <2>1. /\ worker'[k].run = worker[k].run /\ Busy(k) /\ Unlogged(k)
        /\ \A j \in Keys : j # k => worker'[j] = worker[j]
    BY <1>1, <1>6, ToFacts DEF TurnReturns, LogNext, At, Busy, Unlogged
  <2> QED BY <1>2, <1>6, <2>1 DEF TurnReturns
<1>7. ASSUME NEW k \in Keys, Raises(k) PROVE OnceInv'
  <2>1. worker'[k].pc = "idle" /\ \A j \in Keys : j # k => worker'[j] = worker[j]
    BY <1>1, <1>7, FinishFacts DEF Raises
  <2> QED BY <1>2, <1>7, <2>1 DEF Raises
<1>8. ASSUME NEW k \in Keys, AppendSession(k) PROVE OnceInv'
  <2>1. /\ worker'[k].pc = "send" /\ worker'[k].run = worker[k].run
        /\ \A j \in Keys : j # k => worker'[j] = worker[j]
    BY <1>1, <1>8, ToFacts DEF AppendSession
  <2> QED BY <1>1, <1>8, <2>1, OnceAppend DEF AppendSession, OnceInv
<1>13. ASSUME NEW k \in Keys, AppendRaises(k) PROVE OnceInv'
  <2>1. worker'[k].pc = "idle" /\ \A j \in Keys : j # k => worker'[j] = worker[j]
    BY <1>1, <1>13, FinishFacts DEF AppendRaises
  <2>2. CASE log' = log
    BY <1>2, <1>13, <2>1, <2>2 DEF AppendRaises
  <2>3. CASE log' = Logged(k)
    BY <1>1, <1>13, <2>1, <2>3, OnceAppend DEF AppendRaises, OnceInv
  <2> QED BY <1>13, <2>2, <2>3 DEF AppendRaises
<1>14. ASSUME NEW k \in Keys, Answer(k) PROVE OnceInv'
  <2>1. /\ worker'[k].pc = "send" /\ worker'[k].run = worker[k].run /\ Busy(k)
        /\ \A j \in Keys : j # k => worker'[j] = worker[j]
    BY <1>1, <1>14, ToFacts DEF Answer, At, Busy
  <2>2. ~Unlogged(k)'
    BY <2>1 DEF Unlogged
  <2> QED BY <1>2, <1>14, <2>1, <2>2 DEF Answer
<1>9. ASSUME NEW k \in Keys, ReplySent(k) PROVE OnceInv'
  <2>1. worker'[k].pc = "idle" /\ \A j \in Keys : j # k => worker'[j] = worker[j]
    BY <1>9, ReplySentFacts
  <2> QED BY <1>2, <1>9, <2>1 DEF ReplySent
<1>10. ASSUME NEW k \in Keys, ReplyFails(k) PROVE OnceInv'
  <2>1. /\ worker'[k].pc = "idle" \/ (worker'[k].pc = "send" /\ worker'[k].run = worker[k].run)
        /\ worker[k].pc = "send" /\ \A j \in Keys : j # k => worker'[j] = worker[j]
    BY <1>10, ReplyFailsFacts
  <2>2. worker'[k].pc = "idle" \/ (worker'[k].run = worker[k].run /\ Busy(k) /\ ~Unlogged(k)')
    BY <2>1 DEF Busy, Unlogged
  <2> QED BY <1>2, <1>10, <2>1, <2>2 DEF ReplyFails
<1>11. CASE Crash
  <2>1. Idle.pc = "idle"
    BY DEF Idle
  <2> HIDE DEF Idle
  <2>2. ASSUME NEW k \in Keys PROVE Once(k)'
    <3>1. queue'[k] = <<>> /\ worker'[k].pc = "idle" /\ log' = log /\ pushes' = pushes
      BY <1>11, <2>1 DEF Crash
    <3>2. Len(queue'[k]) = 0 /\ 1..Len(queue'[k]) = {}
      BY <3>1
    <3>3. ~Busy(k)' /\ ~Unlogged(k)'
      BY <3>1 DEF Busy, Unlogged
    <3>4. \A n \in 1..Len(log'[k]) :
            /\ Counted(pushes', log'[k][n])
            /\ \A m \in 1..Len(log'[k]) : log'[k][n] = log'[k][m] => n = m
      BY <1>1, <3>1, Zenon DEF Once
    <3> QED BY <3>2, <3>3, <3>4, Zenon DEF Once
  <2> QED BY <2>2 DEF OnceInv
<1>12. \/ UNCHANGED <<pushes, queue, worker, log>>
       \/ Crash
       \/ \E m \in Msgs : Push(m)
       \/ \E k \in Keys : \/ Take(k) \/ Answer(k) \/ TurnReturns(k) \/ Raises(k)
                          \/ AppendSession(k) \/ AppendRaises(k) \/ ReplySent(k) \/ ReplyFails(k)
  BY DEF Next, Work, Expire, SendToHuman, Index, HumanSent, HumanFails, vars
<1> QED BY <1>3, <1>4, <1>5, <1>6, <1>7, <1>8, <1>9, <1>10, <1>11, <1>12, <1>13, <1>14

-----------------------------------------------------------------------------
(* A key whose log and chat rest keeps its order, unless its worker starts  *)
(* to send.                                                                 *)
LEMMA OrderKept ==
  ASSUME NEW k \in Keys, Order(k), log'[k] = log[k], shown'[k] = shown[k],
         worker'[k].pc = "slash" => IsSlash(worker'[k].run[1]),
         worker'[k].pc = "send" /\ ~IsSlash(worker'[k].run[1]) =>
           worker[k].pc = "send" /\ worker'[k].run = worker[k].run
  PROVE  Order(k)'
<1>1. worker'[k].pc = "send" /\ ~IsSlash(worker'[k].run[1]) =>
        Len(log'[k]) \in 1..Len(log'[k]) /\ log'[k][Len(log'[k])] = worker'[k].run
  BY Zenon DEF Order
<1>2. \A i \in 1..Len(shown'[k]) : ~IsSlash(shown'[k][i][1]) =>
        \E n \in 1..Len(log'[k]) : log'[k][n] = shown'[k][i]
  BY Zenon DEF Order
<1>3. \A i, j \in 1..Len(shown'[k]) : \A m, n \in 1..Len(log'[k]) :
        /\ ~IsSlash(shown'[k][i][1]) /\ ~IsSlash(shown'[k][j][1]) /\ i < j
        /\ log'[k][m] = shown'[k][i] /\ log'[k][n] = shown'[k][j]
        => m < n
  BY Zenon DEF Order
<1>4. worker'[k].pc = "slash" => IsSlash(worker'[k].run[1])
  OBVIOUS
<1> QED BY <1>1, <1>2, <1>3, <1>4, Zenon DEF Order

(* The turn that is logged comes last, and the chat does not show it yet.   *)
LEMMA OrderAppend ==
  ASSUME ChannelInv, NEW k \in Keys, At(k, "log"), log' = Logged(k), shown' = shown,
         worker'[k].pc = "idle" \/ (worker'[k].pc = "send" /\ worker'[k].run = worker[k].run),
         \A i \in Keys : i # k => worker'[i] = worker[i],
         NEW j \in Keys
  PROVE  Order(j)'
<1> DEFINE r == worker[k].run
           e == Len(log[k]) + 1
<1>1. /\ Types /\ Once(k) /\ Order(j) /\ Order(k) /\ shown' = shown
      /\ Unlogged(k) /\ (worker'[k].pc = "send" => worker'[k].run = r)
      /\ worker'[k].pc # "slash"
      /\ \A i \in Keys : i # k => worker'[i] = worker[i]
  BY DEF ChannelInv, OnceInv, OrderInv, At, Unlogged
<1>2. /\ Grown(log, log', k, r)
      /\ \A i \in Keys : i # k => log'[i] = log[i]
      /\ Len(log'[k]) = e
  <2>1. /\ \A i \in Keys : i # k => log'[i] = log[i]
        /\ Len(log'[k]) = Len(log[k]) + 1 /\ Len(log[k]) \in Nat
        /\ \A i \in 1..Len(log[k]) : log'[k][i] = log[k][i]
        /\ log'[k][Len(log[k]) + 1] = r
    BY <1>1, AppendFacts
  <2> QED BY <2>1, GrownAt
<1>3. CASE j # k
  <2>1. worker'[j] = worker[j] /\ (worker[j].pc = "slash" => IsSlash(worker[j].run[1]))
    BY <1>1, <1>3 DEF Order
  <2> QED BY <1>1, <1>2, <1>3, <2>1, OrderKept
<1>4. CASE j = k
  <2>1. e \in 1..Len(log'[k]) /\ log'[k][e] = r
    BY <1>2, Zenon DEF Grown, e
  <2>2. \A n \in 1..Len(log[k]) : n \in 1..Len(log'[k]) /\ log'[k][n] = log[k][n] /\ log[k][n] # r
    BY <1>1, <1>2, Zenon DEF Grown, Once, r
  <2>3. \A n \in 1..Len(log'[k]) :
          \/ n \in 1..Len(log[k]) /\ log'[k][n] = log[k][n]
          \/ log'[k][n] = r
    BY <1>2, Zenon DEF Grown
  <2> HIDE DEF r, e
  <2>4. \A i \in 1..Len(shown[k]) : ~IsSlash(shown[k][i][1]) =>
          \E n \in 1..Len(log[k]) : log[k][n] = shown[k][i]
    BY <1>1, Zenon DEF Order
  <2>5. \A i \in 1..Len(shown'[k]) : ~IsSlash(shown'[k][i][1]) =>
          \E n \in 1..Len(log'[k]) : log'[k][n] = shown'[k][i]
    BY <1>1, <2>2, <2>4
  <2>6. ASSUME NEW i \in 1..Len(shown'[k]), NEW h \in 1..Len(shown'[k]),
               NEW m \in 1..Len(log'[k]), NEW n \in 1..Len(log'[k]),
               ~IsSlash(shown'[k][i][1]), ~IsSlash(shown'[k][h][1]), i < h,
               log'[k][m] = shown'[k][i], log'[k][n] = shown'[k][h]
        PROVE  m < n
    <3>1. shown[k][i] # r /\ shown[k][h] # r
      BY <1>1, <2>2, <2>4, <2>6, Zenon
    <3>2. /\ m \in 1..Len(log[k]) /\ log[k][m] = shown[k][i]
          /\ n \in 1..Len(log[k]) /\ log[k][n] = shown[k][h]
      BY <1>1, <2>3, <2>6, <3>1, Zenon
    <3>3. \A a, b \in 1..Len(shown[k]) : \A c, d \in 1..Len(log[k]) :
            /\ ~IsSlash(shown[k][a][1]) /\ ~IsSlash(shown[k][b][1]) /\ a < b
            /\ log[k][c] = shown[k][a] /\ log[k][d] = shown[k][b]
            => c < d
      BY <1>1, Zenon DEF Order
    <3> QED BY <1>1, <2>6, <3>2, <3>3, Zenon
  <2>7. worker'[k].pc = "send" =>
          Len(log'[k]) \in 1..Len(log'[k]) /\ log'[k][Len(log'[k])] = worker'[k].run
    BY <1>1, <1>2, <2>1, Zenon
  <2>8. worker'[k].pc = "slash" => IsSlash(worker'[k].run[1])
    BY <1>1
  <2>9. worker'[k].pc = "send" /\ ~IsSlash(worker'[k].run[1]) =>
          Len(log'[k]) \in 1..Len(log'[k]) /\ log'[k][Len(log'[k])] = worker'[k].run
    BY <2>7
  <2>10. \A i, h \in 1..Len(shown'[k]) : \A m, n \in 1..Len(log'[k]) :
           /\ ~IsSlash(shown'[k][i][1]) /\ ~IsSlash(shown'[k][h][1]) /\ i < h
           /\ log'[k][m] = shown'[k][i] /\ log'[k][n] = shown'[k][h]
           => m < n
    BY <2>6
  <2>11. Order(k)'
    BY <2>5, <2>8, <2>9, <2>10, Zenon DEF Order
  <2> QED BY <1>4, <2>11
<1> QED BY <1>3, <1>4

(* The reply that is shown is the last one logged, and the first of its     *)
(* root.                                                                    *)
LEMMA OrderShows ==
  ASSUME ChannelInv, NEW k \in Keys, worker[k].pc = "send", Shows(k), log' = log,
         \/ worker'[k].pc = "idle"
         \/ worker'[k].pc = "send" /\ worker'[k].run = worker[k].run
  PROVE  Order(k)'
<1> DEFINE r == worker[k].run
           e == Len(shown[k]) + 1
           l == Len(log[k])
<1>1. Types /\ Once(k) /\ Order(k) /\ UuidInv
  BY DEF ChannelInv, OnceInv, OrderInv
<1>2. Grown(shown, shown', k, r)
  BY GrownAt DEF Shows
<1>3. ~IsSlash(r[1]) => l \in 1..Len(log[k]) /\ log[k][l] = r
  BY <1>1, Zenon DEF Order
<1>4. \A i \in 1..Len(shown[k]) : shown[k][i] # r
  BY <1>1 DEF UuidInv, Shows, Uuid
<1> USE <1>1
<1>5. l \in Nat /\ Len(shown[k]) \in Nat
  BY LenProperties DEF Types
<1> HIDE DEF r, e, l
<1>6. \A i \in 1..Len(shown'[k]) :
        \/ i \in 1..Len(shown[k]) /\ shown'[k][i] = shown[k][i]
        \/ i = e /\ shown'[k][i] = r
  BY <1>2, Zenon DEF Grown, e
<1>7. \A i \in 1..Len(shown'[k]) : ~IsSlash(shown'[k][i][1]) =>
        \E n \in 1..Len(log'[k]) : log'[k][n] = shown'[k][i]
  <2> SUFFICES ASSUME NEW i \in 1..Len(shown'[k]), ~IsSlash(shown'[k][i][1])
               PROVE  \E n \in 1..Len(log[k]) : log[k][n] = shown'[k][i]
    OBVIOUS
  <2>1. CASE i \in 1..Len(shown[k]) /\ shown'[k][i] = shown[k][i]
    BY <2>1, Zenon DEF Order
  <2>2. CASE shown'[k][i] = r
    BY <1>3, <2>2, Zenon
  <2> QED BY <1>6, <2>1, <2>2, Zenon
<1>8. ASSUME NEW i \in 1..Len(shown'[k]), NEW h \in 1..Len(shown'[k]),
             NEW m \in 1..Len(log[k]), NEW n \in 1..Len(log[k]),
             ~IsSlash(shown'[k][i][1]), ~IsSlash(shown'[k][h][1]), i < h,
             log[k][m] = shown'[k][i], log[k][n] = shown'[k][h]
      PROVE  m < n
  <2>1. \A a \in 1..Len(shown[k]) : a < e /\ ~(e < a)
    <3>1. \A c \in Nat : \A a \in 1..c : a < c + 1 /\ ~(c + 1 < a)
      OBVIOUS
    <3> QED BY <1>5, <3>1, Zenon DEF e
  <2>2. i \in 1..Len(shown[k]) /\ shown'[k][i] = shown[k][i]
    <3>1. ~(e < e)
      BY <1>5 DEF e
    <3> QED BY <1>6, <1>8, <2>1, <3>1, Zenon
  <2>3. CASE h \in 1..Len(shown[k]) /\ shown'[k][h] = shown[k][h]
    <3>1. \A a, b \in 1..Len(shown[k]) : \A c, d \in 1..Len(log[k]) :
            /\ ~IsSlash(shown[k][a][1]) /\ ~IsSlash(shown[k][b][1]) /\ a < b
            /\ log[k][c] = shown[k][a] /\ log[k][d] = shown[k][b]
            => c < d
      BY Zenon DEF Order
    <3> QED BY <1>8, <2>2, <2>3, <3>1, Zenon
  <2>4. CASE h = e /\ shown'[k][h] = r
    <3>1. n = l
      <4>1. \A a, b \in 1..Len(log[k]) : log[k][a] = log[k][b] => a = b
        BY Zenon DEF Once
      <4> QED BY <1>3, <1>8, <2>4, <4>1, Zenon
    <3>2. m # l
      BY <1>3, <1>4, <1>8, <2>2, <2>4, Zenon
    <3>3. \A c \in Nat : \A a \in 1..c : a # c => a < c
      OBVIOUS
    <3>4. m \in 1..l
      BY DEF l
    <3> QED BY <1>5, <3>1, <3>2, <3>3, <3>4, Zenon
  <2> QED BY <1>6, <2>3, <2>4, Zenon
<1>9. worker'[k].pc = "send" /\ ~IsSlash(worker'[k].run[1]) =>
        Len(log'[k]) \in 1..Len(log'[k]) /\ log'[k][Len(log'[k])] = worker'[k].run
  BY <1>3, Zenon DEF l, r
<1>10. worker'[k].pc = "slash" => IsSlash(worker'[k].run[1])
  OBVIOUS
<1> QED BY <1>7, <1>8, <1>9, <1>10, Zenon DEF Order

(* The order is kept.                                                       *)
LEMMA OrderStep ==
  ASSUME ChannelInv, [Next]_vars
  PROVE  OrderInv'
<1> USE DEF process, disk, feishu, history
<1>1. Types /\ \A j \in Keys : Order(j)
  BY DEF ChannelInv, OrderInv
<1>2. ASSUME log' = log, shown' = shown, NEW k \in Keys,
             \A j \in Keys : j # k => worker'[j] = worker[j],
             worker'[k].pc = "slash" => IsSlash(worker'[k].run[1]),
             worker'[k].pc = "send" /\ ~IsSlash(worker'[k].run[1]) =>
               worker[k].pc = "send" /\ worker'[k].run = worker[k].run
      PROVE  OrderInv'
  <2>1. ASSUME NEW j \in Keys PROVE Order(j)'
    <3>1. /\ worker'[j].pc = "send" /\ ~IsSlash(worker'[j].run[1]) =>
              worker[j].pc = "send" /\ worker'[j].run = worker[j].run
          /\ worker'[j].pc = "slash" => IsSlash(worker'[j].run[1])
      BY <1>1, <1>2 DEF Order
    <3>2. log'[j] = log[j] /\ shown'[j] = shown[j]
      BY <1>2
    <3> QED BY <1>1, <3>1, <3>2, OrderKept
  <2> QED BY <2>1 DEF OrderInv
<1>3. CASE UNCHANGED <<worker, log, shown>>
  <2>1. ASSUME NEW j \in Keys PROVE Order(j)'
    <3>1. worker[j].pc = "slash" => IsSlash(worker[j].run[1])
      BY <1>1 DEF Order
    <3> QED BY <1>1, <1>3, <3>1, OrderKept
  <2> QED BY <2>1 DEF OrderInv
<1>4. ASSUME NEW k \in Keys, Take(k) PROVE OrderInv'
  <2>1. /\ worker'[k].pc = IF IsSlash(worker'[k].run[1]) THEN "slash" ELSE "turn"
        /\ \A j \in Keys : j # k => worker'[j] = worker[j]
    BY <1>1, <1>4, TakeFacts
  <2> QED BY <1>2, <1>4, <2>1 DEF Take
<1>5. ASSUME NEW k \in Keys, TurnReturns(k) PROVE OrderInv'
  <2>1. worker'[k].pc = "log" /\ \A j \in Keys : j # k => worker'[j] = worker[j]
    BY <1>1, <1>5, ToFacts DEF TurnReturns, LogNext
  <2> QED BY <1>2, <1>5, <2>1 DEF TurnReturns
<1>6. ASSUME NEW k \in Keys, Raises(k) PROVE OrderInv'
  <2>1. worker'[k].pc = "idle" /\ \A j \in Keys : j # k => worker'[j] = worker[j]
    BY <1>1, <1>6, FinishFacts DEF Raises
  <2> QED BY <1>2, <1>6, <2>1 DEF Raises
<1>7. ASSUME NEW k \in Keys, AppendSession(k) PROVE OrderInv'
  <2>1. /\ worker'[k].pc = "send" /\ worker'[k].run = worker[k].run
        /\ \A j \in Keys : j # k => worker'[j] = worker[j]
    BY <1>1, <1>7, ToFacts DEF AppendSession
  <2> QED BY <1>7, <2>1, OrderAppend DEF AppendSession, OrderInv
<1>13. ASSUME NEW k \in Keys, AppendRaises(k) PROVE OrderInv'
  <2>1. worker'[k].pc = "idle" /\ \A j \in Keys : j # k => worker'[j] = worker[j]
    BY <1>1, <1>13, FinishFacts DEF AppendRaises
  <2>2. CASE log' = log
    BY <1>2, <1>13, <2>1, <2>2 DEF AppendRaises
  <2>3. CASE log' = Logged(k)
    BY <1>13, <2>1, <2>3, OrderAppend DEF AppendRaises, OrderInv
  <2> QED BY <1>13, <2>2, <2>3 DEF AppendRaises
<1>14. ASSUME NEW k \in Keys, Answer(k) PROVE OrderInv'
  <2>1. /\ worker'[k].pc = "send" /\ worker'[k].run = worker[k].run /\ worker[k].pc = "slash"
        /\ \A j \in Keys : j # k => worker'[j] = worker[j]
    BY <1>1, <1>14, ToFacts DEF Answer, At
  <2>2. IsSlash(worker'[k].run[1])
    BY <1>1, <2>1 DEF Order
  <2> QED BY <1>2, <1>14, <2>1, <2>2 DEF Answer
<1>8. ASSUME NEW k \in Keys, log' = log, worker[k].pc = "send",
             Known(k) \/ Shows(k) \/ shown' = shown,
             \A j \in Keys : j # k => worker'[j] = worker[j],
             worker'[k].pc = "idle" \/ (worker'[k].pc = "send" /\ worker'[k].run = worker[k].run)
      PROVE  OrderInv'
  <2>1. CASE shown' = shown
    BY <1>2, <1>8, <2>1
  <2>2. CASE Shows(k)
    <3>1. Order(k)'
      BY <1>8, <2>2, OrderShows
    <3>2. ASSUME NEW j \in Keys, j # k PROVE Order(j)'
      <4>1. /\ shown'[j] = shown[j] /\ log'[j] = log[j] /\ worker'[j] = worker[j]
            /\ worker[j].pc = "slash" => IsSlash(worker[j].run[1])
        BY <1>1, <1>8, <2>2, <3>2 DEF Shows, Order
      <4> QED BY <1>1, <4>1, OrderKept
    <3> QED BY <3>1, <3>2 DEF OrderInv
  <2> QED BY <1>8, <2>1, <2>2 DEF Known
<1>9. ASSUME NEW k \in Keys, ReplySent(k) PROVE OrderInv'
  <2>1. /\ worker'[k].pc = "idle" /\ worker[k].pc = "send"
        /\ Known(k) \/ Shows(k)
        /\ \A j \in Keys : j # k => worker'[j] = worker[j]
    BY <1>9, ReplySentFacts
  <2>2. log' = log
    BY <1>9 DEF ReplySent
  <2> QED BY <1>8, <2>1, <2>2
<1>10. ASSUME NEW k \in Keys, ReplyFails(k) PROVE OrderInv'
  <2>1. /\ worker'[k].pc = "idle" \/ (worker'[k].pc = "send" /\ worker'[k].run = worker[k].run)
        /\ worker[k].pc = "send"
        /\ Known(k) \/ Shows(k) \/ shown' = shown
        /\ \A j \in Keys : j # k => worker'[j] = worker[j]
    BY <1>10, ReplyFailsFacts
  <2>2. log' = log
    BY <1>10 DEF ReplyFails
  <2> QED BY <1>8, <2>1, <2>2
<1>11. CASE Crash
  <2>1. Idle.pc = "idle"
    BY DEF Idle
  <2> HIDE DEF Idle
  <2>2. \A j \in Keys : worker'[j].pc = "idle" /\ log'[j] = log[j] /\ shown'[j] = shown[j]
    BY <1>11, <2>1 DEF Crash
  <2>3. ASSUME NEW j \in Keys PROVE Order(j)'
    BY <1>1, <2>2, OrderKept
  <2> QED BY <2>3 DEF OrderInv
<1>12. \/ UNCHANGED <<worker, log, shown>>
       \/ Crash
       \/ \E k \in Keys : \/ Take(k) \/ Answer(k) \/ TurnReturns(k) \/ Raises(k)
                          \/ AppendSession(k) \/ AppendRaises(k) \/ ReplySent(k) \/ ReplyFails(k)
  BY DEF Next, Work, Expire, Push, SendToHuman, Index, HumanSent, HumanFails, vars
<1> QED BY <1>3, <1>4, <1>5, <1>6, <1>7, <1>9, <1>10, <1>11, <1>12, <1>13, <1>14

-----------------------------------------------------------------------------
(* A turn that returns is saved and about to be logged.                     *)
LEMMA StoreReturns ==
  ASSUME Types, StoreInv, NEW k \in Keys, TurnReturns(k)
  PROVE  StoreInv'
<1> DEFINE r == worker[k].run
<1>1. /\ worker[k].pc = "turn" /\ worker'[k].pc = "log" /\ worker'[k].run = r
      /\ \A j \in Keys : j # k => worker'[j] = worker[j]
      /\ saved' = saved \cup {r} /\ indexing' = indexing \cup {r}
      /\ log' = log /\ rows' = rows /\ crashes' = crashes /\ failed' = failed
  BY ToFacts DEF TurnReturns, At, LogNext, SavedWith, history
<1> HIDE DEF r
<1>2. indexing' \subseteq saved' /\ rows' \subseteq saved'
  BY <1>1 DEF StoreInv
<1>3. \A j \in Keys : \A n \in 1..Len(log'[j]) : log'[j][n] \in saved'
  BY <1>1, Zenon DEF StoreInv
<1>4. \A j \in Keys : worker'[j].pc = "log" => worker'[j].run \in saved'
  BY <1>1, Zenon DEF StoreInv
<1>5. ASSUME crashes' = 0, NEW q \in saved'
      PROVE  \/ \E j \in Keys : \E n \in 1..Len(log'[j]) : log'[j][n] = q
             \/ \E j \in Keys : worker'[j].pc = "log" /\ worker'[j].run = q
             \/ q \in failed'
  <2>1. CASE q = r
    BY <1>1, <2>1, Zenon
  <2>2. CASE q \in saved
    <3>1. ASSUME NEW j \in Keys, worker[j].pc = "log" PROVE worker'[j] = worker[j]
      BY <1>1, <3>1
    <3>2. \/ \E j \in Keys : \E n \in 1..Len(log[j]) : log[j][n] = q
          \/ \E j \in Keys : worker[j].pc = "log" /\ worker[j].run = q
          \/ q \in failed
      BY <1>1, <1>5, <2>2, Zenon DEF StoreInv
    <3> QED BY <1>1, <3>1, <3>2
  <2> QED BY <1>1, <1>5, <2>1, <2>2
<1> QED BY <1>2, <1>3, <1>4, <1>5 DEF StoreInv

(* The turn that is logged had been saved.                                  *)
LEMMA StoreAppend ==
  ASSUME Types, StoreInv, NEW k \in Keys, At(k, "log"), log' = Logged(k),
         worker'[k].pc # "log", \A j \in Keys : j # k => worker'[j] = worker[j],
         saved' = saved, indexing' = indexing, rows' = rows, crashes' = crashes,
         failed \subseteq failed'
  PROVE  StoreInv'
<1> DEFINE r == worker[k].run
           e == Len(log[k]) + 1
<1>1. /\ worker[k].pc = "log" /\ worker'[k].pc # "log"
      /\ \A j \in Keys : j # k => worker'[j] = worker[j]
      /\ saved' = saved /\ indexing' = indexing /\ rows' = rows /\ crashes' = crashes
  BY DEF At
<1>2. Grown(log, log', k, r)
  BY AppendFacts, GrownAt
<1>3. r \in saved
  BY <1>1 DEF StoreInv
<1>4. e \in 1..Len(log'[k]) /\ log'[k][e] = r
  BY <1>2, Zenon DEF Grown
<1>5. \A j \in Keys : \A n \in 1..Len(log[j]) : n \in 1..Len(log'[j]) /\ log'[j][n] = log[j][n]
  BY <1>2, Zenon DEF Grown
<1>6. \A j \in Keys : \A n \in 1..Len(log'[j]) : log'[j][n] \in saved'
  <2>1. ASSUME NEW j \in Keys, NEW n \in 1..Len(log'[j]) PROVE log'[j][n] \in saved
    <3>1. CASE n \in 1..Len(log[j]) /\ log'[j][n] = log[j][n]
      BY <3>1, Zenon DEF StoreInv
    <3>2. CASE log'[j][n] = r
      BY <1>3, <3>2, Zenon
    <3> QED BY <1>2, <3>1, <3>2, Zenon DEF Grown
  <2> QED BY <1>1, <2>1
<1>7. \A j \in Keys : worker'[j].pc = "log" => worker'[j].run \in saved'
  BY <1>1 DEF StoreInv
<1>8. ASSUME crashes' = 0, NEW q \in saved'
      PROVE  \/ \E j \in Keys : \E n \in 1..Len(log'[j]) : log'[j][n] = q
             \/ \E j \in Keys : worker'[j].pc = "log" /\ worker'[j].run = q
             \/ q \in failed'
  <2>1. CASE \E j \in Keys : \E n \in 1..Len(log[j]) : log[j][n] = q
    BY <1>5, <2>1, Zenon
  <2>2. CASE \E j \in Keys : worker[j].pc = "log" /\ worker[j].run = q
    <3>1. PICK j \in Keys : worker[j].pc = "log" /\ worker[j].run = q
      BY <2>2
    <3>2. CASE j = k
      BY <1>4, <3>1, <3>2, Zenon
    <3>3. CASE j # k
      BY <1>1, <3>1, <3>3
    <3> QED BY <3>2, <3>3
  <2>3. CASE q \in failed
    BY <2>3
  <2> QED BY <1>1, <1>8, <2>1, <2>2, <2>3, Zenon DEF StoreInv
<1> QED BY <1>1, <1>6, <1>7, <1>8 DEF StoreInv

(* Without a trace in the log, a turn that failed to be logged has failed.  *)
LEMMA StoreRaises ==
  ASSUME Types, StoreInv, NEW k \in Keys, At(k, "log"), log' = log,
         worker'[k].pc # "log", \A j \in Keys : j # k => worker'[j] = worker[j],
         saved' = saved, indexing' = indexing, rows' = rows, crashes' = crashes,
         failed' = failed \cup {worker[k].run}
  PROVE  StoreInv'
<1>1. indexing' \subseteq saved' /\ rows' \subseteq saved'
  BY DEF StoreInv
<1>2. \A j \in Keys : \A n \in 1..Len(log'[j]) : log'[j][n] \in saved'
  BY DEF StoreInv
<1>3. \A j \in Keys : worker'[j].pc = "log" => worker'[j].run \in saved'
  BY DEF StoreInv
<1>4. ASSUME crashes' = 0, NEW q \in saved'
      PROVE  \/ \E j \in Keys : \E n \in 1..Len(log'[j]) : log'[j][n] = q
             \/ \E j \in Keys : worker'[j].pc = "log" /\ worker'[j].run = q
             \/ q \in failed'
  <2>1. CASE \E j \in Keys : \E n \in 1..Len(log[j]) : log[j][n] = q
    BY <2>1
  <2>2. CASE \E j \in Keys : worker[j].pc = "log" /\ worker[j].run = q
    <3>1. PICK j \in Keys : worker[j].pc = "log" /\ worker[j].run = q
      BY <2>2
    <3> QED BY <3>1
  <2>3. CASE q \in failed
    BY <2>3
  <2> QED BY <1>4, <2>1, <2>2, <2>3 DEF StoreInv
<1> QED BY <1>1, <1>2, <1>3, <1>4 DEF StoreInv

(* The stores are kept together.                                            *)
LEMMA StoreStep ==
  ASSUME ChannelInv, [Next]_vars
  PROVE  StoreInv'
<1> USE DEF process, disk, feishu, history
<1>1. Types /\ StoreInv
  BY DEF ChannelInv
<1>2. ASSUME saved' = saved, log' = log, crashes' = crashes, failed \subseteq failed',
             indexing' \subseteq saved, rows' \subseteq saved,
             \A j \in Keys : worker[j].pc = "log" \/ worker'[j].pc = "log" => worker'[j] = worker[j]
      PROVE  StoreInv'
  BY <1>1, <1>2 DEF StoreInv
<1>3. CASE UNCHANGED <<saved, log, crashes, indexing, rows, worker, failed>>
  BY <1>1, <1>2, <1>3 DEF StoreInv
<1>4. ASSUME NEW k \in Keys, Take(k) PROVE StoreInv'
  <2>1. /\ worker[k].pc # "log" /\ worker'[k].pc # "log"
        /\ \A j \in Keys : j # k => worker'[j] = worker[j]
    BY <1>1, <1>4, TakeFacts
  <2> QED BY <1>1, <1>2, <1>4, <2>1 DEF Take, StoreInv
<1>5. ASSUME NEW k \in Keys, TurnReturns(k) PROVE StoreInv'
  BY <1>1, <1>5, StoreReturns
<1>6. ASSUME NEW k \in Keys, Raises(k) PROVE StoreInv'
  <2>1. /\ worker[k].pc # "log" /\ worker'[k].pc # "log"
        /\ \A j \in Keys : j # k => worker'[j] = worker[j]
    BY <1>1, <1>6, FinishFacts DEF Raises, At
  <2> QED BY <1>1, <1>2, <1>6, <2>1 DEF Raises, StoreInv
<1>7. ASSUME NEW k \in Keys, AppendSession(k) PROVE StoreInv'
  <2>1. worker'[k].pc = "send" /\ \A j \in Keys : j # k => worker'[j] = worker[j]
    BY <1>1, <1>7, ToFacts DEF AppendSession
  <2> QED BY <1>1, <1>7, <2>1, StoreAppend DEF AppendSession
<1>13. ASSUME NEW k \in Keys, AppendRaises(k) PROVE StoreInv'
  <2>1. worker'[k].pc = "idle" /\ \A j \in Keys : j # k => worker'[j] = worker[j]
    BY <1>1, <1>13, FinishFacts DEF AppendRaises
  <2>2. CASE log' = log
    BY <1>1, <1>13, <2>1, <2>2, StoreRaises DEF AppendRaises
  <2>3. CASE log' = Logged(k)
    BY <1>1, <1>13, <2>1, <2>3, StoreAppend DEF AppendRaises
  <2> QED BY <1>13, <2>2, <2>3 DEF AppendRaises
<1>14. ASSUME NEW k \in Keys, Answer(k) PROVE StoreInv'
  <2>1. /\ worker[k].pc # "log" /\ worker'[k].pc # "log"
        /\ \A j \in Keys : j # k => worker'[j] = worker[j]
    BY <1>1, <1>14, ToFacts DEF Answer, At
  <2> QED BY <1>1, <1>2, <1>14, <2>1 DEF Answer, StoreInv
<1>8. ASSUME NEW k \in Keys, ReplySent(k) PROVE StoreInv'
  <2>1. /\ worker[k].pc # "log" /\ worker'[k].pc # "log"
        /\ \A j \in Keys : j # k => worker'[j] = worker[j]
    BY <1>8, ReplySentFacts
  <2> QED BY <1>1, <1>2, <1>8, <2>1 DEF ReplySent, StoreInv
<1>9. ASSUME NEW k \in Keys, ReplyFails(k) PROVE StoreInv'
  <2>1. /\ worker[k].pc # "log" /\ worker'[k].pc # "log"
        /\ \A j \in Keys : j # k => worker'[j] = worker[j]
    BY <1>9, ReplyFailsFacts
  <2> QED BY <1>1, <1>2, <1>9, <2>1 DEF ReplyFails, StoreInv
<1>10. ASSUME NEW r \in indexing, Index(r) PROVE StoreInv'
  BY <1>1, <1>2, <1>10 DEF Index, StoreInv
<1>11. CASE Crash
  <2>1. Idle.pc = "idle"
    BY DEF Idle
  <2> HIDE DEF Idle
  <2>2. \A j \in Keys : worker'[j].pc = "idle"
    BY <1>11, <2>1 DEF Crash
  <2>3. crashes' # 0 /\ saved' = saved /\ log' = log /\ rows' = rows /\ indexing' = {}
    BY <1>1, <1>11 DEF Crash, Types
  <2> QED BY <1>1, <2>2, <2>3 DEF StoreInv
<1>12. \/ UNCHANGED <<saved, log, crashes, indexing, rows, worker, failed>>
       \/ Crash
       \/ \E r \in indexing : Index(r)
       \/ \E k \in Keys : \/ Take(k) \/ Answer(k) \/ TurnReturns(k) \/ Raises(k)
                          \/ AppendSession(k) \/ AppendRaises(k) \/ ReplySent(k) \/ ReplyFails(k)
  BY DEF Next, Work, Push, Expire, SendToHuman, HumanSent, HumanFails, vars
<1> QED BY <1>3, <1>4, <1>5, <1>6, <1>7, <1>8, <1>9, <1>10, <1>11, <1>12, <1>13, <1>14

-----------------------------------------------------------------------------
(* The first state.                                                         *)
LEMMA ChannelInit == Init => ChannelInv
<1> SUFFICES ASSUME Init PROVE ChannelInv
  OBVIOUS
<1>1. /\ pushes = [m \in Msgs |-> 0] /\ queue = [k \in Keys |-> <<>>]
      /\ worker = [k \in Keys |-> Idle] /\ log = [k \in Keys |-> <<>>]
      /\ shown = [k \in Keys |-> <<>>] /\ saved = {} /\ rows = {} /\ indexing = {}
      /\ task = [k \in Keys |-> "none"]
      /\ threads = {} /\ human = 0 /\ seen = {} /\ sent = {} /\ failed = {} /\ crashes = 0
      /\ copies = [h \in 1..MaxHuman |-> 0] /\ doubts = [h \in 1..MaxHuman |-> 0]
  BY DEF Init
<1>2. Idle \in Workers /\ Idle.pc = "idle"
  BY DEF Idle, Workers
<1> HIDE DEF Idle
<1>3. /\ \A k \in Keys : worker[k].pc = "idle" /\ worker \in [Keys -> Workers]
      /\ queue \in [Keys -> Seq(Runs)] /\ log \in [Keys -> Seq(Runs)] /\ shown \in [Keys -> Seq(Runs)]
  BY <1>1, <1>2
<1>4. \A k \in Keys : 1..Len(queue[k]) = {} /\ 1..Len(log[k]) = {} /\ 1..Len(shown[k]) = {}
  BY <1>1
<1>5. Types
  <2>1. worker \in [Keys -> Workers]
    BY <1>1, <1>2
  <2> QED BY <1>1, <1>3, <2>1, ChannelAssumption DEF Types
<1>6. UuidInv
  BY <1>1, <1>4 DEF UuidInv
<1>7. ThreadInv
  BY <1>1 DEF ThreadInv
<1>8. OnceInv
  BY <1>3, <1>4 DEF OnceInv, Once, Busy, Unlogged
<1>9. OrderInv
  BY <1>3, <1>4 DEF OrderInv, Order
<1>10. StoreInv
  BY <1>1, <1>3, <1>4 DEF StoreInv
<1> QED BY <1>5, <1>6, <1>7, <1>8, <1>9, <1>10 DEF ChannelInv

(* The invariant behind the theorems below: what waits, is handled, is      *)
(* logged, saved and shown fits together, whatever is pushed twice, lost,   *)
(* given up or cut off by a crash.                                          *)
THEOREM ChannelInvariant == Spec => []ChannelInv
<1>1. Init => ChannelInv
  BY ChannelInit
<1>2. ChannelInv /\ [Next]_vars => ChannelInv'
  BY TypesStep, UuidStep, ThreadStep, OnceStep, OrderStep, StoreStep DEF ChannelInv
<1> QED BY <1>1, <1>2, PTL DEF Spec

(* Types, for any messages and chats.                                       *)
THEOREM TypeCorrect == Spec => []TypeOK
<1>1. ChannelInv => TypeOK
  <2> SUFFICES ASSUME ChannelInv PROVE TypeOK
    OBVIOUS
  <2>1. Types
    BY DEF ChannelInv
  <2>2. \A k \in Keys : worker[k].pc \in {"idle", "slash", "turn", "log", "send"}
    BY <2>1 DEF Types, Workers
  <2>3. \A k \in Keys : \A i \in DOMAIN log[k] : log[k][i] \in Runs
    <3>1. \A k \in Keys : DOMAIN log[k] = 1..Len(log[k])
      BY <2>1, LenProperties DEF Types
    <3> QED BY <2>1, <3>1, AreRuns
  <2> QED BY <2>1, <2>2, <2>3 DEF Types, TypeOK
<1> QED BY <1>1, ChannelInvariant, PTL

(* The positions of a log and of a chat.                                    *)
LEMMA Positions ==
  ASSUME Types, NEW k \in Keys
  PROVE  /\ DOMAIN log[k] = 1..Len(log[k]) /\ DOMAIN shown[k] = 1..Len(shown[k])
         /\ \A v : v \in ToSet(log[k]) <=> \E n \in 1..Len(log[k]) : log[k][n] = v
         /\ \A v : v \in ToSet(shown[k]) <=> \E n \in 1..Len(shown[k]) : shown[k][n] = v
<1>1. log[k] \in Seq(Runs) /\ shown[k] \in Seq(Runs)
  BY DEF Types
<1>2. DOMAIN log[k] = 1..Len(log[k]) /\ DOMAIN shown[k] = 1..Len(shown[k])
  BY <1>1, LenProperties
<1> QED BY <1>2, Zenon DEF ToSet

(* A chat shows a reply once, and what send_to_human sent as often as an    *)
(* answer was lost and once more: sender.py's uuid, and its retries.        *)
THEOREM CopiesBounded == Spec => []CopiesTakeLostAnswers
<1>1. ChannelInv => CopiesTakeLostAnswers
  <2> SUFFICES ASSUME ChannelInv PROVE CopiesTakeLostAnswers
    OBVIOUS
  <2>1. ASSUME NEW k \in Keys PROVE IsInjective(shown[k])
    <3>1. \A i, j \in 1..Len(shown[k]) : shown[k][i] = shown[k][j] => i = j
      BY Zenon DEF ChannelInv, UuidInv
    <3>2. DOMAIN shown[k] = 1..Len(shown[k])
      BY Positions DEF ChannelInv
    <3> QED BY <3>1, <3>2, Zenon DEF IsInjective
  <2> QED BY <2>1 DEF ChannelInv, ThreadInv, CopiesTakeLostAnswers
<1> QED BY <1>1, ChannelInvariant, PTL

(* What a chat shows of the turns' replies is logged, in this order: the    *)
(* session is appended to before the reply is sent, one run at a time.      *)
THEOREM RepliesAreLogged == Spec => []ShownIsLogged
<1>1. ChannelInv => ShownIsLogged
  <2> SUFFICES ASSUME ChannelInv, NEW k \in Keys
               PROVE  /\ IsInjective(log[k])
                      /\ \A i \in Replies(k) : shown[k][i] \in ToSet(log[k])
                      /\ \A i, j \in Replies(k), m, n \in DOMAIN log[k] :
                           i < j /\ log[k][m] = shown[k][i] /\ log[k][n] = shown[k][j] => m < n
    BY DEF ShownIsLogged
  <2>1. /\ DOMAIN log[k] = 1..Len(log[k]) /\ DOMAIN shown[k] = 1..Len(shown[k])
        /\ \A v : v \in ToSet(log[k]) <=> \E n \in 1..Len(log[k]) : log[k][n] = v
    BY Positions DEF ChannelInv
  <2>2. Once(k) /\ Order(k)
    BY DEF ChannelInv, OnceInv, OrderInv
  <2>3. \A i \in Replies(k) : i \in 1..Len(shown[k]) /\ ~IsSlash(shown[k][i][1])
    BY <2>1 DEF Replies
  <2>4. IsInjective(log[k])
    BY <2>1, <2>2, Zenon DEF Once, IsInjective
  <2>5. \A i \in Replies(k) : shown[k][i] \in ToSet(log[k])
    BY <2>1, <2>2, <2>3, Zenon DEF Order
  <2>6. \A i, j \in Replies(k), m, n \in DOMAIN log[k] :
          i < j /\ log[k][m] = shown[k][i] /\ log[k][n] = shown[k][j] => m < n
    BY <2>1, <2>2, <2>3, Zenon DEF Order
  <2> QED BY <2>4, <2>5, <2>6
<1> QED BY <1>1, ChannelInvariant, PTL

(* Only a reply with the same root swallows a reply that was sent.          *)
THEOREM RootSwallows == Spec => []SwallowedByChain
<1>1. ChannelInv => SwallowedByChain
  <2> SUFFICES ASSUME ChannelInv, NEW r \in sent
               PROVE  \E k \in Keys : \E v \in ToSet(shown[k]) : RootId(v[1]) = RootId(r[1])
    BY DEF SwallowedByChain
  <2>1. RootId(r[1]) \in seen
    BY DEF ChannelInv, UuidInv
  <2>2. PICK k \in Keys : \E i \in 1..Len(shown[k]) : RootId(shown[k][i][1]) = RootId(r[1])
    BY <2>1, Zenon DEF ChannelInv, UuidInv
  <2>3. PICK i \in 1..Len(shown[k]) : RootId(shown[k][i][1]) = RootId(r[1])
    BY <2>2
  <2>4. shown[k][i] \in ToSet(shown[k])
    BY Positions DEF ChannelInv
  <2> QED BY <2>3, <2>4
<1> QED BY <1>1, ChannelInvariant, PTL

(* What is logged or indexed is saved; without a crash, what is saved and   *)
(* not logged is a turn that just returned, or one whose append raised.     *)
THEOREM StoresNameTheSame == Spec => []StoresAgree
<1>1. ChannelInv => StoresAgree
  <2> SUFFICES ASSUME ChannelInv PROVE StoresAgree
    OBVIOUS
  <2> DEFINE logged == UNION {ToSet(log[k]) : k \in Keys}
             between == {worker[k].run : k \in {j \in Keys : At(j, "log")}}
  <2>1. StoreInv /\ Types
    BY DEF ChannelInv
  <2>2. \A r : r \in logged <=> \E k \in Keys : \E n \in 1..Len(log[k]) : log[k][n] = r
    <3>1. \A k \in Keys : \A v : v \in ToSet(log[k]) <=> \E n \in 1..Len(log[k]) : log[k][n] = v
      BY <2>1, Positions
    <3>2. \A r : r \in logged <=> \E k \in Keys : r \in ToSet(log[k])
      OBVIOUS
    <3> QED BY <3>1, <3>2, Zenon
  <2>3. \A r : r \in between <=> \E k \in Keys : worker[k].pc = "log" /\ worker[k].run = r
    BY DEF At
  <2> HIDE DEF logged, between
  <2>4. logged \subseteq saved /\ rows \subseteq saved
    BY <2>1, <2>2 DEF StoreInv
  <2>5. ASSUME crashes = 0, NEW r \in saved PROVE r \in logged \cup between \cup failed
    BY <2>1, <2>2, <2>3, <2>5 DEF StoreInv
  <2>6. crashes = 0 => saved \ logged \subseteq between \cup failed
    BY <2>5
  <2> QED BY <2>4, <2>6 DEF StoresAgree, logged, between
<1> QED BY <1>1, ChannelInvariant, PTL


=============================================================================
