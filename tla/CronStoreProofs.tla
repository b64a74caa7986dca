--------------------------- MODULE CronStoreProofs ---------------------------
(***************************************************************************)
(* Proofs about CronStore for any writers, jobs and number of crashes.     *)
(* Types and the FileLock hold however writers and ticks interleave; the   *)
(* rest is proved for writers and ticks that take turns (~Overlap).        *)
(***************************************************************************)
EXTENDS CronStore, TLAPS

InDump == {"open", "write", "rename"}

(* Ticks and calls exclude each other; a starting process has no calls.     *)
Turns == spc # "idle" => WritersIdle

(* Only the process that is about to write has a descriptor, on tasks.tmp.  *)
FdInv ==
  /\ \A w \in Writers : fd[w] = IF wpc[w] = "write" THEN "tmp" ELSE "none"
  /\ fd[Service] = IF spc = "write" THEN "tmp" ELSE "none"

(* tasks.tmp belongs to the one that saves: empty, then its document.       *)
TmpInv ==
  /\ \A w \in Writers : wpc[w] = "write" => tmp.form = "empty"
  /\ \A w \in Writers : wpc[w] = "rename" => tmp = Whole(store[w])
  /\ spc = "write" => tmp.form = "empty"
  /\ spc = "rename" => tmp = Whole(jobs)

(* A call past the dedupe has drawn the id of its job.                      *)
JobInv == \A w \in Writers : wpc[w] # "idle" => wjob[w] \in Wakes

(* A writer in its critical section knows what is on disk.                  *)
StoreInv ==
  \A w \in Writers :
    wpc[w] \in InDump => store[w] = tasks.jobs \union {wjob[w]}

(* So does the scheduler, from its reload to the start of its save, right   *)
(* after the save, and while the file is unchanged; a save adds nothing.    *)
ViewInv ==
  /\ spc \in {"scan", "fire", "stat"} => jobs = tasks.jobs
  /\ spc \in {"write", "rename"} => jobs \subseteq tasks.jobs
  /\ JobsSeen

(* Fired jobs are those of the tick under way, and they are among its jobs. *)
TickInv ==
  /\ spc # "fire" => fired = {}
  /\ spc = "fire" => batch \subseteq jobs

(* What was promised is on disk, is not what this tick has fired, and is    *)
(* in what it saves.                                                        *)
OwedInv ==
  /\ OwedWakesStored
  /\ \A j \in fired \intersect Wakes : KeyOf[j] \notin owed
  /\ spc \in {"write", "rename"} =>
       \A k \in owed : \E j \in jobs \intersect Wakes : KeyOf[j] = k

(* A job on disk has fired once per crash at most, plus once if this tick   *)
(* fired it and has not saved yet.  Jobs never stored never fired.          *)
Unsaved(j) == j \in fired \/ (spc \in {"write", "rename"} /\ j \notin jobs)
FireInv ==
  /\ RefireTakesACrash
  /\ \A j \in tasks.jobs \intersect Wakes : fires[j] <= crashes \/ Unsaved(j)
  /\ \A j \in Wakes : fires[j] > 0 => j \in drawn
  /\ tasks.jobs \intersect Wakes \subseteq drawn
  /\ \A w \in Writers : wpc[w] # "idle" => wjob[w] \in drawn /\ fires[wjob[w]] = 0

(* What holds however writers and ticks interleave, and what holds when     *)
(* they take turns.                                                         *)
BaseInv == TypeOK /\ JobInv /\ TickInv /\ LockExclusion
TurnsInv ==
  /\ Turns /\ FdInv /\ TmpInv /\ TasksWhole /\ StoreInv
  /\ ViewInv /\ OwedInv /\ FireInv

-----------------------------------------------------------------------------
(* What the file operators build are file contents.                         *)
LEMMA ContentTypes ==
  /\ \A J \in SUBSET Jobs : Whole(J) \in Contents
  /\ \A f \in {"empty", "torn", "absent"} : Hollow(f) \in Contents
  /\ \A c \in Contents : c.form \in {"whole", "empty", "torn", "absent"}
  /\ \A c \in Contents : c.jobs \in SUBSET Jobs
  /\ \A J : Whole(J).form = "whole" /\ Whole(J).jobs = J
  /\ \A f : Hollow(f).form = f /\ Hollow(f).jobs = {}
  /\ \A c \in Contents, J \in SUBSET Jobs : Landing(c, J) \subseteq Contents
<1>1. \A J \in SUBSET Jobs : Whole(J) \in Contents
  BY DEF Contents, Whole
<1>2. \A f \in {"empty", "torn", "absent"} : Hollow(f) \in Contents
  BY DEF Contents, Hollow
<1>3. \A c \in Contents, J \in SUBSET Jobs : Landing(c, J) \subseteq Contents
  BY <1>1, <1>2 DEF Landing
<1> QED BY <1>1, <1>2, <1>3 DEF Contents, Whole, Hollow

(* The data directory starts out well typed and unlocked.                   *)
LEMMA BaseInit == Init => BaseInv
<1> SUFFICES ASSUME Init PROVE BaseInv
  OBVIOUS
<1>1. TypeOK
  BY ContentTypes DEF Init, TypeOK
<1>2. JobInv /\ TickInv /\ LockExclusion
  BY DEF Init, JobInv, TickInv, LockExclusion
<1> QED BY <1>1, <1>2 DEF BaseInv

(* The shared file steps keep the types of what they set.                   *)
LEMMA FileTypes ==
  ASSUME TypeOK, NEW p \in Procs
  PROVE  /\ OpenTmp(p) => /\ tasks' \in Contents /\ tmp' \in Contents
                          /\ fd' \in [Procs -> {"none", "tmp", "tasks", "gone"}]
         /\ \A J \in SUBSET Jobs : WriteOut(p, J) =>
              /\ tasks' \in Contents /\ tmp' \in Contents
              /\ fd' \in [Procs -> {"none", "tmp", "tasks", "gone"}]
              /\ changed' \in BOOLEAN
         /\ RenameTmp => /\ tasks' \in Contents /\ tmp' \in Contents
                         /\ fd' \in [Procs -> {"none", "tmp", "tasks", "gone"}]
                         /\ changed' \in BOOLEAN
<1>1. OpenTmp(p) => /\ tasks' \in Contents /\ tmp' \in Contents
                    /\ fd' \in [Procs -> {"none", "tmp", "tasks", "gone"}]
  BY ContentTypes DEF TypeOK, OpenTmp
<1>2. ASSUME NEW J \in SUBSET Jobs, WriteOut(p, J)
      PROVE  /\ tasks' \in Contents /\ tmp' \in Contents
             /\ fd' \in [Procs -> {"none", "tmp", "tasks", "gone"}]
             /\ changed' \in BOOLEAN
  <2>1. tasks' \in Contents /\ tmp' \in Contents
    BY <1>2, ContentTypes DEF TypeOK, WriteOut
  <2>2. fd' \in [Procs -> {"none", "tmp", "tasks", "gone"}]
    BY <1>2 DEF TypeOK, WriteOut
  <2>3. changed' \in BOOLEAN
    BY <1>2 DEF WriteOut
  <2> QED BY <2>1, <2>2, <2>3
<1>3. ASSUME RenameTmp
      PROVE  /\ tasks' \in Contents /\ tmp' \in Contents
             /\ fd' \in [Procs -> {"none", "tmp", "tasks", "gone"}]
             /\ changed' \in BOOLEAN
  <2>1. tasks' \in Contents /\ tmp' \in Contents
    BY <1>3, ContentTypes DEF TypeOK, RenameTmp
  <2>2. fd' \in [Procs -> {"none", "tmp", "tasks", "gone"}]
    BY <1>3 DEF TypeOK, RenameTmp
  <2>3. changed' \in BOOLEAN
    BY <1>3 DEF RenameTmp
  <2> QED BY <2>1, <2>2, <2>3
<1> QED BY <1>1, <1>2, <1>3

(* A step of a writer keeps the types.                                      *)
LEMMA WriterTypes ==
  ASSUME BaseInv, NEW w \in Writers, WriterStep(w)
  PROVE  TypeOK'
<1>0. TypeOK /\ JobInv /\ w \in Procs
  BY DEF BaseInv, Procs
<1>1. tasks.jobs \in SUBSET Jobs
  BY <1>0, ContentTypes DEF TypeOK
<1>2. CASE CreateJob(w)
  <2>1. wjob[w] \in Jobs
    BY <1>0, <1>2 DEF JobInv, CreateJob, Jobs
  <2>2. /\ lock' \in Writers \union {NoOne}
        /\ store' \in [Writers -> SUBSET Jobs]
        /\ wpc' \in [Writers -> {"idle", "create", "open", "write", "rename"}]
        /\ wjob' \in [Writers -> Wakes \union {NoOne}]
    BY <1>0, <1>1, <1>2, <2>1 DEF TypeOK, CreateJob
  <2>3. UNCHANGED <<file, drawn, service, changed, due, fires, missed, owed, crashes>>
    BY <1>2 DEF CreateJob
  <2> QED BY <1>0, <2>2, <2>3 DEF TypeOK, file, service
<1>3. CASE DumpOpen(w)
  <2>1. OpenTmp(w) /\ UNCHANGED <<lock, wjob, store, drawn, service, changed, due, fires, missed, owed, crashes>>
    BY <1>3 DEF DumpOpen
  <2>2. wpc' \in [Writers -> {"idle", "create", "open", "write", "rename"}]
    BY <1>0, <1>3 DEF DumpOpen, TypeOK
  <2> QED BY <1>0, <2>1, <2>2, FileTypes DEF TypeOK, service
<1>4. CASE DumpWrite(w)
  <2>1. WriteOut(w, store[w]) /\ UNCHANGED <<lock, wjob, store, drawn, service, due, fires, missed, owed, crashes>>
    BY <1>4 DEF DumpWrite
  <2>2. wpc' \in [Writers -> {"idle", "create", "open", "write", "rename"}]
    BY <1>0, <1>4 DEF DumpWrite, TypeOK
  <2>3. store[w] \in SUBSET Jobs
    BY <1>0 DEF TypeOK
  <2>4. /\ tasks' \in Contents /\ tmp' \in Contents
        /\ fd' \in [Procs -> {"none", "tmp", "tasks", "gone"}]
        /\ changed' \in BOOLEAN
    BY <1>0, <2>1, <2>3, FileTypes
  <2> QED BY <1>0, <2>1, <2>2, <2>4 DEF TypeOK, service
<1>5. CASE DumpRename(w)
  <2>1. KeyOf[wjob[w]] \in Keys
    BY <1>0, <1>5, CronStoreAssumption DEF JobInv, DumpRename
  <2>2. /\ tasks' \in Contents /\ tmp' \in Contents
        /\ fd' \in [Procs -> {"none", "tmp", "tasks", "gone"}]
        /\ changed' \in BOOLEAN
    <3>1. CASE RenameTmp
      BY <1>0, <3>1, FileTypes
    <3>2. CASE UNCHANGED <<file, changed, owed>>
      BY <1>0, <3>2 DEF TypeOK, file
    <3> QED BY <1>5, <3>1, <3>2 DEF DumpRename
  <2>3. /\ owed' \in SUBSET Keys
        /\ lock' \in Writers \union {NoOne}
        /\ wjob' \in [Writers -> Wakes \union {NoOne}]
        /\ store' \in [Writers -> SUBSET Jobs]
        /\ wpc' \in [Writers -> {"idle", "create", "open", "write", "rename"}]
    BY <1>0, <1>5, <2>1 DEF DumpRename, Released, TypeOK
  <2>4. UNCHANGED <<drawn, service, due, fires, missed, crashes>>
    BY <1>5 DEF DumpRename
  <2> QED BY <1>0, <2>2, <2>3, <2>4 DEF TypeOK, service
<1> QED BY <1>2, <1>3, <1>4, <1>5 DEF WriterStep

(* A step of the scheduler keeps the types.                                 *)
LEMMA ServiceTypes ==
  ASSUME BaseInv, SvcStat \/ SvcScan \/ SvcStep
  PROVE  TypeOK'
<1>0. TypeOK /\ Service \in Procs
  BY DEF BaseInv, Procs
<1>1. tasks.jobs \in SUBSET Jobs
  BY <1>0, ContentTypes DEF TypeOK
<1>2. CASE SvcStat
  BY <1>0, <1>2 DEF SvcStat, TypeOK, file, writer
<1>3. CASE SvcScan
  <2>1. /\ batch' = jobs \intersect due
        /\ spc' \in {"idle", "fire"}
        /\ UNCHANGED <<file, writer, jobs, changed, fired, due, fires, missed, owed, crashes>>
    BY <1>3 DEF SvcScan
  <2>2. fired' = {}
    BY <1>3 DEF SvcScan, MayTick, BaseInv, TickInv
  <2> QED BY <1>0, <2>1, <2>2 DEF TypeOK, file, writer
<1>4. CASE SvcRead
  BY <1>0, <1>1, <1>4 DEF SvcRead, LoadedOf, TypeOK, file, writer
<1>5. ASSUME NEW j \in Jobs, SvcFire(j)
      PROVE  TypeOK'
  <2>1. /\ fired' \in SUBSET batch
        /\ fires' \in [Wakes -> Nat] /\ missed' \in SUBSET Wakes
        /\ owed' \in SUBSET Keys
        /\ UNCHANGED <<file, writer, spc, jobs, changed, batch, due, crashes>>
    BY <1>0, <1>5 DEF SvcFire, TypeOK
  <2> QED BY <1>0, <2>1 DEF TypeOK, file, writer
<1>6. CASE SvcOpen
  <2>1. /\ tasks' \in Contents /\ tmp' \in Contents
        /\ fd' \in [Procs -> {"none", "tmp", "tasks", "gone"}]
    BY <1>0, <1>6, FileTypes DEF SvcOpen
  <2>2. jobs' \in SUBSET Jobs /\ due' \in SUBSET Jobs /\ batch' = {} /\ fired' = {}
    BY <1>0, <1>6 DEF SvcOpen, AfterFire, TypeOK
  <2>3. spc' = "write" /\ UNCHANGED <<writer, changed, fires, missed, owed, crashes>>
    BY <1>6 DEF SvcOpen
  <2> QED BY <1>0, <2>1, <2>2, <2>3 DEF TypeOK, writer
<1>7. CASE SvcWrite
  <2>1. jobs \in SUBSET Jobs
    BY <1>0 DEF TypeOK
  <2>2. /\ tasks' \in Contents /\ tmp' \in Contents
        /\ fd' \in [Procs -> {"none", "tmp", "tasks", "gone"}]
        /\ changed' \in BOOLEAN
    BY <1>0, <1>7, <2>1, FileTypes DEF SvcWrite
  <2>3. spc' = "rename" /\ UNCHANGED <<writer, jobs, batch, fired, due, fires, missed, owed, crashes>>
    BY <1>7 DEF SvcWrite
  <2> QED BY <1>0, <2>2, <2>3 DEF TypeOK, writer
<1>8. CASE SvcRename
  <2>1. /\ tasks' \in Contents /\ tmp' \in Contents
        /\ fd' \in [Procs -> {"none", "tmp", "tasks", "gone"}]
        /\ changed' \in BOOLEAN
    <3>1. CASE RenameTmp
      BY <1>0, <3>1, FileTypes
    <3>2. CASE UNCHANGED <<file, changed>>
      BY <1>0, <3>2 DEF TypeOK, file
    <3> QED BY <1>8, <3>1, <3>2 DEF SvcRename
  <2>2. spc' \in {"stat", "idle"} /\ UNCHANGED <<writer, jobs, batch, fired, due, fires, missed, owed, crashes>>
    BY <1>8 DEF SvcRename, TickError
  <2> QED BY <1>0, <2>1, <2>2 DEF TypeOK, writer
<1>9. CASE SvcSaved
  BY <1>0, <1>9 DEF SvcSaved, TypeOK, file, writer
<1> QED BY <1>2, <1>3, <1>4, <1>5, <1>6, <1>7, <1>8, <1>9 DEF SvcStep

(* Start, the clock and a crash keep the types.                             *)
LEMMA OtherTypes ==
  ASSUME BaseInv,
         \/ Start
         \/ \E w \in Writers, k \in Keys : ReuseWake(w, k)
         \/ \E w \in Writers, j \in Wakes : NewWake(w, j)
         \/ \E j \in Jobs : BecomeDue(j)
         \/ Crash
  PROVE  TypeOK'
<1>0. TypeOK
  BY DEF BaseInv
<1>1. CASE Start
  <2>1. tasks.jobs \union Beats \in SUBSET Jobs
    BY <1>0, ContentTypes DEF TypeOK, Jobs
  <2>2. tasks' \in Contents /\ tmp' \in Contents
    BY <1>1, <2>1, ContentTypes DEF Start
  <2>3. jobs' \in SUBSET Jobs /\ due' \in SUBSET Jobs /\ changed' \in BOOLEAN /\ spc' = "idle"
    BY <1>0, <1>1, <2>1 DEF Start, TypeOK, Jobs
  <2>4. UNCHANGED <<fd, writer, batch, fired, fires, missed, owed, crashes>>
    BY <1>1 DEF Start
  <2> QED BY <1>0, <2>2, <2>3, <2>4 DEF TypeOK, writer
<1>2. ASSUME NEW w \in Writers, NEW k \in Keys, ReuseWake(w, k)
      PROVE  TypeOK'
  BY <1>0, <1>2 DEF ReuseWake, TypeOK, file, writer, service
<1>3. ASSUME NEW w \in Writers, NEW j \in Wakes, NewWake(w, j)
      PROVE  TypeOK'
  BY <1>0, <1>3 DEF NewWake, TypeOK, file, service
<1>4. ASSUME NEW j \in Jobs, BecomeDue(j)
      PROVE  TypeOK'
  BY <1>0, <1>4 DEF BecomeDue, TypeOK, file, writer, service
<1>5. CASE Crash
  BY <1>0, <1>5 DEF Crash, TypeOK
<1> QED BY <1>1, <1>2, <1>3, <1>4, <1>5

(* The FileLock is taken only when free and kept until the rename, and the  *)
(* id of the job is drawn before.                                           *)
LEMMA LockStep ==
  ASSUME BaseInv, [Next]_vars
  PROVE  JobInv' /\ LockExclusion'
<1>0. TypeOK /\ JobInv /\ LockExclusion
  BY DEF BaseInv
<1>1. CASE UNCHANGED writer
  BY <1>0, <1>1 DEF writer, JobInv, LockExclusion
<1>2. ASSUME NEW w \in Writers, NEW j \in Wakes, NewWake(w, j)
      PROVE  JobInv' /\ LockExclusion'
  BY <1>0, <1>2 DEF NewWake, TypeOK, JobInv, LockExclusion
<1>3. ASSUME NEW w \in Writers, CreateJob(w)
      PROVE  JobInv' /\ LockExclusion'
  <2>1. lock = NoOne /\ \A v \in Writers : wpc[v] \notin InDump
    BY <1>0, <1>3, CronStoreAssumption
       DEF CreateJob, LockFree, LockExclusion, InDump
  <2> QED BY <1>0, <1>3, <2>1 DEF CreateJob, TypeOK, JobInv, LockExclusion, InDump
<1>4. ASSUME NEW w \in Writers, DumpOpen(w) \/ DumpWrite(w)
      PROVE  JobInv' /\ LockExclusion'
  <2>1. /\ UNCHANGED <<lock, wjob>>
        /\ wpc[w] \in {"open", "write"}
        /\ \E s \in {"write", "rename"} : wpc' = [wpc EXCEPT ![w] = s]
    BY <1>4 DEF DumpOpen, DumpWrite
  <2> QED BY <1>0, <2>1 DEF TypeOK, JobInv, LockExclusion
<1>5. ASSUME NEW w \in Writers, DumpRename(w)
      PROVE  JobInv' /\ LockExclusion'
  <2>1. \A v \in Writers : v # w => wpc[v] \notin InDump
    BY <1>0, <1>5 DEF DumpRename, LockExclusion, InDump
  <2>2. /\ wpc' = [wpc EXCEPT ![w] = "idle"]
        /\ wjob' = [wjob EXCEPT ![w] = NoOne]
    BY <1>5 DEF DumpRename
  <2> QED BY <1>0, <2>1, <2>2 DEF TypeOK, JobInv, LockExclusion, InDump
<1>6. CASE Crash
  BY <1>6 DEF Crash, JobInv, LockExclusion
<1>7. CASE Start \/ SvcStat \/ SvcScan \/ SvcStep
  <2>1. UNCHANGED writer
    BY <1>7 DEF Start, SvcStat, SvcScan, SvcStep, SvcRead, SvcFire, SvcOpen,
                SvcWrite, SvcRename, SvcSaved
  <2> QED BY <1>1, <2>1
<1>8. CASE \/ \E w \in Writers, k \in Keys : ReuseWake(w, k)
           \/ \E j \in Jobs : BecomeDue(j)
           \/ UNCHANGED vars
  <2>1. UNCHANGED writer
    BY <1>8 DEF ReuseWake, BecomeDue, vars
  <2> QED BY <1>1, <2>1
<1> QED BY <1>2, <1>3, <1>4, <1>5, <1>6, <1>7, <1>8 DEF Next, WriterStep

(* Jobs are marked as fired in the fire loop only, and among this tick's.   *)
LEMMA TickStep ==
  ASSUME BaseInv, [Next]_vars
  PROVE  TickInv'
<1>0. TypeOK /\ TickInv
  BY DEF BaseInv
<1>1. CASE UNCHANGED service
  BY <1>0, <1>1 DEF service, TickInv
<1>2. CASE Start \/ Crash
  BY <1>0, <1>2 DEF Start, Crash, TickInv, Up
<1>3. CASE SvcStat \/ SvcScan
  BY <1>0, <1>3 DEF SvcStat, SvcScan, MayTick, TickInv
<1>4. CASE SvcStep
  <2>1. ASSUME NEW j \in Jobs, SvcFire(j)
        PROVE  TickInv'
    BY <1>0, <2>1 DEF SvcFire, TickInv
  <2>2. CASE SvcRead \/ SvcOpen \/ SvcWrite \/ SvcSaved
    BY <1>0, <2>2 DEF SvcRead, SvcOpen, SvcWrite, SvcSaved, TickInv
  <2>3. CASE SvcRename
    BY <1>0, <2>3 DEF SvcRename, TickError, TickInv
  <2> QED BY <1>4, <2>1, <2>2, <2>3 DEF SvcStep
<1>5. CASE \/ \E w \in Writers, k \in Keys : ReuseWake(w, k)
           \/ \E w \in Writers, j \in Wakes : NewWake(w, j)
           \/ \E w \in Writers : WriterStep(w)
           \/ \E j \in Jobs : BecomeDue(j)
           \/ UNCHANGED vars
  <2>1. UNCHANGED service
    BY <1>5 DEF ReuseWake, NewWake, WriterStep, CreateJob, DumpOpen, DumpWrite,
                DumpRename, BecomeDue, vars
  <2> QED BY <1>1, <2>1
<1> QED BY <1>2, <1>3, <1>4, <1>5 DEF Next

(* The base invariant is inductive, overlap or not.                         *)
LEMMA BaseStep ==
  ASSUME BaseInv, [Next]_vars
  PROVE  BaseInv'
<1>1. TypeOK'
  <2>1. CASE UNCHANGED vars
    BY <2>1 DEF BaseInv, TypeOK, vars, file, writer, service
  <2> QED BY <2>1, WriterTypes, ServiceTypes, OtherTypes DEF Next
<1> QED BY <1>1, LockStep, TickStep DEF BaseInv

(* The base invariant holds in every reachable state.                       *)
LEMMA BaseHolds == Spec => []BaseInv
  BY BaseInit, BaseStep, PTL DEF Spec

(* Every variable keeps its type, also when ticks and calls overlap.        *)
THEOREM TypeCorrect == Spec => []TypeOK
<1>1. BaseInv => TypeOK
  BY DEF BaseInv
<1> QED BY <1>1, BaseHolds, PTL

(* tasks_store._locked: one writer at a time loads, modifies and dumps.     *)
THEOREM WriterExclusion == Spec => []LockExclusion
<1>1. BaseInv => LockExclusion
  BY DEF BaseInv
<1> QED BY <1>1, BaseHolds, PTL

-----------------------------------------------------------------------------
(* From here on writers and ticks take turns.                               *)
LEMMA TurnsInit == Init => TurnsInv
<1> SUFFICES ASSUME Init PROVE TurnsInv
  OBVIOUS
<1>1. Turns /\ FdInv /\ TmpInv /\ StoreInv
  BY CronStoreAssumption
     DEF Init, Turns, WritersIdle, FdInv, TmpInv, StoreInv, InDump, Procs, Service
<1>2. TasksWhole /\ ViewInv /\ OwedInv /\ FireInv
  BY DEF Init, TasksWhole, ViewInv, JobsSeen, OwedInv, OwedWakesStored,
         FireInv, RefireTakesACrash, Hollow
<1> QED BY <1>1, <1>2 DEF TurnsInv

(* What a writer past the dedupe may rely on.                               *)
LEMMA WriterTurn ==
  ASSUME BaseInv, TurnsInv, NEW w \in Writers, wpc[w] # "idle"
  PROVE  /\ spc = "idle" /\ fired = {} /\ fd[Service] = "none"
         /\ wpc[w] \in InDump =>
              \A v \in Writers : v # w => wpc[v] \notin InDump /\ fd[v] = "none"
<1>1. spc = "idle"
  BY DEF TurnsInv, Turns, WritersIdle
<1>2. fired = {} /\ fd[Service] = "none"
  BY <1>1 DEF BaseInv, TickInv, TurnsInv, FdInv
<1>3. ASSUME wpc[w] \in InDump, NEW v \in Writers, v # w
      PROVE  wpc[v] \notin InDump /\ fd[v] = "none"
  BY <1>3 DEF BaseInv, LockExclusion, InDump, TurnsInv, FdInv
<1> QED BY <1>1, <1>2, <1>3

(* schedule_wake's first critical section, with turns.                      *)
LEMMA DedupeTurns ==
  ASSUME ~Overlap, BaseInv, TurnsInv, NEW w \in Writers,
         \/ \E k \in Keys : ReuseWake(w, k)
         \/ \E j \in Wakes : NewWake(w, j)
  PROVE  TurnsInv'
<1>0. spc = "idle" /\ fired = {}
  BY DEF ReuseWake, NewWake, MayCall, BaseInv, TickInv
<1>1. ASSUME NEW k \in Keys, ReuseWake(w, k)
      PROVE  TurnsInv'
  <2>1. owed' = owed \union {k} /\ UNCHANGED <<file, writer, service, changed, due, fires, missed, crashes>>
    BY <1>1 DEF ReuseWake
  <2>2. \E j \in tasks.jobs \intersect Wakes : KeyOf[j] = k
    BY <1>1 DEF ReuseWake, Pending
  <2>3. OwedInv'
    BY <1>0, <2>1, <2>2 DEF TurnsInv, OwedInv, OwedWakesStored, file, service
  <2>4. /\ Turns' /\ FdInv' /\ TmpInv' /\ TasksWhole' /\ StoreInv' /\ ViewInv'
        /\ FireInv'
    BY <2>1 DEF TurnsInv, file, writer, service, Turns, WritersIdle, FdInv,
                TmpInv, TasksWhole, StoreInv, ViewInv, JobsSeen, FireInv,
                RefireTakesACrash, Unsaved
  <2> QED BY <2>3, <2>4 DEF TurnsInv
<1>2. ASSUME NEW j \in Wakes, NewWake(w, j)
      PROVE  TurnsInv'
  <2>1. /\ wpc[w] = "idle" /\ j \notin drawn
        /\ drawn' = drawn \union {j}
        /\ wjob' = [wjob EXCEPT ![w] = j]
        /\ wpc' = [wpc EXCEPT ![w] = "create"]
        /\ UNCHANGED <<file, lock, store, service, changed, due, fires, missed, owed, crashes>>
    BY <1>2 DEF NewWake
  <2>2. Turns' /\ FdInv' /\ TmpInv' /\ StoreInv'
    BY <1>0, <2>1 DEF BaseInv, TypeOK, TurnsInv, file, service, Turns, FdInv,
                      TmpInv, StoreInv, InDump
  <2>3. TasksWhole' /\ ViewInv' /\ OwedInv'
    BY <2>1 DEF TurnsInv, file, service, TasksWhole, ViewInv, JobsSeen,
                OwedInv, OwedWakesStored
  <2>4. fires[j] = 0
    BY <2>1 DEF BaseInv, TypeOK, TurnsInv, FireInv
  <2>5. FireInv'
    BY <2>1, <2>4 DEF BaseInv, TypeOK, TurnsInv, FireInv, RefireTakesACrash,
                      Unsaved, file, service
  <2> QED BY <2>2, <2>3, <2>5 DEF TurnsInv
<1> QED BY <1>1, <1>2

(* create_job up to its load, with turns.                                   *)
LEMMA CreateTurns ==
  ASSUME BaseInv, TurnsInv, NEW w \in Writers, CreateJob(w)
  PROVE  TurnsInv'
<1>0. wpc[w] = "create" /\ spc = "idle" /\ lock = NoOne
  BY WriterTurn DEF CreateJob, LockFree
<1>1. \A v \in Writers : wpc[v] \notin InDump
  BY <1>0, CronStoreAssumption DEF BaseInv, LockExclusion, InDump
<1>2. Loadable
  BY DEF TurnsInv, TasksWhole, Loadable
<1>3. /\ store' = [store EXCEPT ![w] = tasks.jobs \union {wjob[w]}]
      /\ wpc' = [wpc EXCEPT ![w] = "open"]
      /\ UNCHANGED <<wjob, file, drawn, service, changed, due, fires, missed, owed, crashes>>
  BY <1>2 DEF CreateJob
<1>4. Turns' /\ FdInv' /\ TmpInv' /\ StoreInv'
  BY <1>0, <1>1, <1>3 DEF BaseInv, TypeOK, TurnsInv, file, service, Turns,
                          FdInv, TmpInv, StoreInv, InDump
<1>5. TasksWhole' /\ ViewInv' /\ OwedInv'
  BY <1>3 DEF TurnsInv, file, service, TasksWhole, ViewInv, JobsSeen,
              OwedInv, OwedWakesStored
<1>6. FireInv'
  BY <1>0, <1>3 DEF BaseInv, TypeOK, TurnsInv, FireInv, RefireTakesACrash,
                    Unsaved, file, service
<1> QED BY <1>4, <1>5, <1>6 DEF TurnsInv

(* Opening and writing tasks.tmp by a writer, with turns.                   *)
LEMMA DumpTurns ==
  ASSUME BaseInv, TurnsInv, NEW w \in Writers, DumpOpen(w) \/ DumpWrite(w)
  PROVE  TurnsInv'
<1>0. spc = "idle" /\ wpc[w] \in {"open", "write"} /\ fd[Service] = "none"
  BY WriterTurn DEF DumpOpen, DumpWrite
<1>1. \A v \in Writers : v # w => wpc[v] \notin InDump
  BY <1>0, WriterTurn DEF InDump
<1>2. w \in Procs /\ w # Service
  BY CronStoreAssumption DEF Procs, Service
<1>3. \E d \in {"tmp", "none"}, s \in {"write", "rename"} :
        /\ fd' = [fd EXCEPT ![w] = d]
        /\ wpc' = [wpc EXCEPT ![w] = s]
        /\ (s = "write") = (d = "tmp")
        /\ s = "write" => tmp' = Hollow("empty")
        /\ s = "rename" => tmp' = Whole(store[w])
  <2>1. CASE DumpOpen(w)
    BY <2>1 DEF DumpOpen, OpenTmp
  <2>2. CASE DumpWrite(w)
    <3>1. fd[w] = "tmp" /\ tmp.form = "empty"
      BY <2>2 DEF DumpWrite, TurnsInv, FdInv, TmpInv
    <3>2. tmp' = Whole(store[w])
      BY <2>2, <3>1 DEF DumpWrite, WriteOut, Landing
    <3> QED BY <2>2, <3>2 DEF DumpWrite, WriteOut
  <2> QED BY <2>1, <2>2
<1>4. /\ tasks' = tasks /\ changed' = changed
      /\ UNCHANGED <<lock, wjob, store, drawn, service, due, fires, missed, owed, crashes>>
  <2>1. CASE DumpOpen(w)
    BY <2>1 DEF DumpOpen, OpenTmp
  <2>2. CASE DumpWrite(w)
    <3>1. fd[w] = "tmp"
      BY <2>2 DEF DumpWrite, TurnsInv, FdInv
    <3>2. tasks' = tasks
      BY <2>2, <3>1 DEF DumpWrite, WriteOut
    <3>3. changed' = changed
      BY <2>2, <3>1 DEF DumpWrite, WriteOut, BaseInv, TypeOK
    <3> QED BY <2>2, <3>2, <3>3 DEF DumpWrite
  <2> QED BY <2>1, <2>2
<1>5. Turns' /\ StoreInv'
  BY <1>0, <1>3, <1>4 DEF BaseInv, TypeOK, TurnsInv, Turns, StoreInv, InDump, service
<1>6. FdInv'
  BY <1>0, <1>2, <1>3, <1>4 DEF BaseInv, TypeOK, TurnsInv, FdInv, service
<1>7. TmpInv'
  BY <1>0, <1>1, <1>3, <1>4 DEF BaseInv, TypeOK, TurnsInv, TmpInv, InDump,
                                service, Hollow
<1>8. TasksWhole' /\ ViewInv' /\ OwedInv'
  BY <1>4 DEF TurnsInv, service, TasksWhole, ViewInv, JobsSeen, OwedInv,
              OwedWakesStored
<1>9. FireInv'
  BY <1>0, <1>3, <1>4 DEF BaseInv, TypeOK, TurnsInv, FireInv,
                          RefireTakesACrash, Unsaved, service
<1> QED BY <1>5, <1>6, <1>7, <1>8, <1>9 DEF TurnsInv

(* The rename that ends a call, with turns.                                 *)
LEMMA RenameTurns ==
  ASSUME BaseInv, TurnsInv, NEW w \in Writers, DumpRename(w)
  PROVE  TurnsInv'
<1>0. /\ wpc[w] = "rename" /\ spc = "idle" /\ fired = {}
      /\ fd[Service] = "none" /\ tmp = Whole(store[w])
      /\ store[w] = tasks.jobs \union {wjob[w]} /\ wjob[w] \in Wakes
      /\ wjob[w] \in drawn /\ fires[wjob[w]] = 0
  BY WriterTurn DEF DumpRename, BaseInv, TurnsInv, TmpInv, StoreInv, JobInv,
                    InDump, FireInv
<1>1. /\ \A v \in Writers : v # w => wpc[v] \notin InDump
      /\ \A v \in Writers : fd[v] = "none"
  <2>1. fd[w] = "none"
    BY <1>0 DEF TurnsInv, FdInv
  <2> QED BY <1>0, <2>1, WriterTurn DEF InDump
<1>2. tmp.form = "whole" /\ tmp.jobs = store[w]
  BY <1>0, ContentTypes
<1>3. RenameTmp /\ owed' = owed \union {KeyOf[wjob[w]]}
  BY <1>2 DEF DumpRename
<1>4. tasks' = tmp /\ changed' = TRUE /\ tasks'.jobs = tasks.jobs \union {wjob[w]}
  BY <1>0, <1>2, <1>3 DEF RenameTmp
<1>5. /\ wjob' = [wjob EXCEPT ![w] = NoOne]
      /\ store' = [store EXCEPT ![w] = {}]
      /\ wpc' = [wpc EXCEPT ![w] = "idle"]
      /\ UNCHANGED <<drawn, service, due, fires, missed, crashes>>
  BY DEF DumpRename
<1>6. fd' = fd
  <2>1. \A q \in Procs : fd[q] = "none"
    BY <1>0, <1>1 DEF Procs
  <2>2. fd' = [q \in Procs |-> fd[q]]
    BY <1>3, <2>1 DEF RenameTmp
  <2> QED BY <2>2 DEF BaseInv, TypeOK
<1>7. Turns' /\ StoreInv' /\ FdInv' /\ TmpInv'
  BY <1>0, <1>1, <1>5, <1>6 DEF BaseInv, TypeOK, TurnsInv, Turns, StoreInv,
                                FdInv, TmpInv, InDump, service
<1>8. TasksWhole' /\ ViewInv'
  BY <1>0, <1>2, <1>4, <1>5 DEF TasksWhole, ViewInv, JobsSeen, service
<1>9. OwedInv'
  BY <1>0, <1>3, <1>4, <1>5 DEF TurnsInv, OwedInv, OwedWakesStored, service
<1>10. FireInv'
  <2>1. \A j \in tasks'.jobs \intersect Wakes : fires'[j] <= crashes' \/ Unsaved(j)'
    <3> SUFFICES ASSUME NEW j \in tasks'.jobs \intersect Wakes
                 PROVE  fires[j] <= crashes
      BY <1>5
    <3>1. CASE j = wjob[w]
      BY <1>0, <3>1 DEF BaseInv, TypeOK
    <3>2. CASE j \in tasks.jobs
      BY <1>0, <3>2 DEF TurnsInv, FireInv, Unsaved
    <3> QED BY <1>4, <3>1, <3>2
  <2>2. /\ RefireTakesACrash' /\ \A j \in Wakes : fires'[j] > 0 => j \in drawn'
        /\ tasks'.jobs \intersect Wakes \subseteq drawn'
    BY <1>0, <1>4, <1>5 DEF TurnsInv, FireInv, RefireTakesACrash
  <2>3. \A v \in Writers : wpc'[v] # "idle" => wjob'[v] \in drawn' /\ fires'[wjob'[v]] = 0
    BY <1>5 DEF BaseInv, TypeOK, TurnsInv, FireInv
  <2> QED BY <2>1, <2>2, <2>3 DEF FireInv
<1> QED BY <1>7, <1>8, <1>9, <1>10 DEF TurnsInv

-----------------------------------------------------------------------------
(* A tick starts between two calls, and no call starts during one.          *)
LEMMA TickStartTurns ==
  ASSUME ~Overlap, BaseInv, TurnsInv, SvcStat \/ SvcScan
  PROVE  TurnsInv'
<1>1. /\ WritersIdle /\ spc \in {"idle", "scan"} /\ fired = {}
      /\ spc' \in {"idle", "read", "fire"}
      /\ UNCHANGED <<file, writer, jobs, fired, due, fires, missed, owed, crashes>>
  BY DEF SvcStat, SvcScan, MayTick, BaseInv, TickInv, TurnsInv, Turns
<1>2. Turns' /\ FdInv' /\ TmpInv' /\ StoreInv' /\ TasksWhole'
  BY <1>1 DEF TurnsInv, file, writer, Turns, WritersIdle, FdInv, TmpInv,
              StoreInv, TasksWhole
<1>3. ViewInv'
  BY <1>1 DEF SvcStat, SvcScan, TurnsInv, ViewInv, JobsSeen, file
<1>4. OwedInv' /\ FireInv'
  BY <1>1 DEF TurnsInv, OwedInv, OwedWakesStored, FireInv, RefireTakesACrash,
              Unsaved, file, writer
<1> QED BY <1>2, <1>3, <1>4 DEF TurnsInv

(* The scheduler's reload, with turns.                                      *)
LEMMA ReadTurns ==
  ASSUME BaseInv, TurnsInv, SvcRead
  PROVE  TurnsInv'
<1>1. /\ spc = "read" /\ spc' = "scan" /\ jobs' = tasks.jobs /\ WritersIdle
      /\ UNCHANGED <<file, writer, changed, batch, fired, due, fires, missed, owed, crashes>>
  BY DEF SvcRead, LoadedOf, TurnsInv, Turns
<1>2. Turns' /\ FdInv' /\ TmpInv' /\ StoreInv' /\ TasksWhole' /\ ViewInv'
  BY <1>1 DEF TurnsInv, file, writer, Turns, WritersIdle, FdInv, TmpInv,
              StoreInv, TasksWhole, ViewInv, JobsSeen
<1>3. OwedInv' /\ FireInv'
  BY <1>1 DEF TurnsInv, OwedInv, OwedWakesStored, FireInv, RefireTakesACrash,
              Unsaved, file, writer
<1> QED BY <1>2, <1>3 DEF TurnsInv

(* Firing settles the target of the job, and no other promise rests on it.  *)
LEMMA FireTurns ==
  ASSUME BaseInv, TurnsInv, NEW j \in Jobs, SvcFire(j)
  PROVE  TurnsInv'
<1>1. /\ spc = "fire" /\ j \in batch \ fired /\ j \in tasks.jobs
      /\ fired' = fired \union {j}
      /\ UNCHANGED <<file, writer, spc, jobs, changed, batch, due, crashes>>
  BY DEF SvcFire, BaseInv, TickInv, TurnsInv, ViewInv
<1>2. /\ Turns' /\ FdInv' /\ TmpInv' /\ StoreInv' /\ TasksWhole' /\ ViewInv'
  BY <1>1 DEF TurnsInv, file, writer, Turns, WritersIdle, FdInv, TmpInv,
              StoreInv, TasksWhole, ViewInv, JobsSeen
<1>3. OwedInv'
  BY <1>1, CronStoreAssumption
     DEF SvcFire, TurnsInv, OwedInv, OwedWakesStored, file
<1>4. CASE fires' = fires
  BY <1>1, <1>2, <1>3, <1>4 DEF SvcFire, TurnsInv, FireInv, RefireTakesACrash,
                                Unsaved, file, writer
<1>5. CASE j \in Wakes /\ fires' = [fires EXCEPT ![j] = @ + 1]
  <2>1. fires' = [fires EXCEPT ![j] = fires[j] + 1] /\ fires[j] <= crashes
    BY <1>1, <1>5 DEF SvcFire, TurnsInv, FireInv, Unsaved
  <2>2. /\ fires'[j] = fires[j] + 1
        /\ \A i \in Wakes : i # j => fires'[i] = fires[i]
        /\ fires[j] \in Nat /\ crashes \in Nat
    BY <1>5, <2>1 DEF BaseInv, TypeOK
  <2>3. RefireTakesACrash'
    BY <1>1, <2>1, <2>2 DEF TurnsInv, FireInv, RefireTakesACrash
  <2>4. \A i \in tasks'.jobs \intersect Wakes : fires'[i] <= crashes' \/ Unsaved(i)'
    BY <1>1, <2>2 DEF TurnsInv, FireInv, Unsaved, file
  <2>5. /\ \A i \in Wakes : fires'[i] > 0 => i \in drawn'
        /\ tasks'.jobs \intersect Wakes \subseteq drawn'
    BY <1>1, <1>5, <2>2 DEF TurnsInv, FireInv, file, writer
  <2>6. \A w \in Writers : wpc'[w] = "idle"
    BY <1>1 DEF TurnsInv, Turns, WritersIdle, writer
  <2>7. FireInv'
    BY <2>3, <2>4, <2>5, <2>6 DEF FireInv
  <2> QED BY <1>2, <1>3, <2>7 DEF TurnsInv
<1>6. fires' = fires \/ (j \in Wakes /\ fires' = [fires EXCEPT ![j] = @ + 1])
  BY DEF SvcFire
<1> QED BY <1>4, <1>5, <1>6

(* The save up to its rename by the scheduler, with turns.                  *)
LEMMA SaveTurns ==
  ASSUME BaseInv, TurnsInv, SvcOpen \/ SvcWrite
  PROVE  TurnsInv'
<1>0. /\ WritersIdle /\ spc \in {"fire", "write"} /\ Service \in Procs
      /\ Service \notin Writers
  BY CronStoreAssumption DEF SvcOpen, SvcWrite, TurnsInv, Turns, Procs, Service
<1>1. /\ \E d \in {"tmp", "none"} : /\ fd' = [fd EXCEPT ![Service] = d]
                                  /\ (d = "tmp") = (spc' = "write")
      /\ spc' = "write" => tmp' = Hollow("empty")
      /\ spc' = "rename" => tmp' = Whole(jobs')
      /\ spc' \in {"write", "rename"}
      /\ tasks' = tasks /\ changed' = changed
      /\ UNCHANGED <<writer, fires, missed, owed, crashes>>
  <2>1. CASE SvcOpen
    BY <2>1 DEF SvcOpen, OpenTmp
  <2>2. CASE SvcWrite
    <3>1. fd[Service] = "tmp" /\ tmp.form = "empty"
      BY <2>2 DEF SvcWrite, TurnsInv, FdInv, TmpInv
    <3>2. tmp' = Whole(jobs) /\ tasks' = tasks
      BY <2>2, <3>1 DEF SvcWrite, WriteOut, Landing
    <3>3. changed' = changed
      BY <2>2, <3>1 DEF SvcWrite, WriteOut, BaseInv, TypeOK
    <3> QED BY <2>2, <3>2, <3>3 DEF SvcWrite, WriteOut
  <2> QED BY <2>1, <2>2
<1>2. Turns' /\ StoreInv' /\ TasksWhole' /\ ViewInv'
  <2>1. jobs' \subseteq tasks.jobs
    BY DEF SvcOpen, SvcWrite, AfterFire, TurnsInv, ViewInv
  <2> QED BY <1>0, <1>1, <2>1 DEF TurnsInv, Turns, WritersIdle, StoreInv, InDump,
                                  TasksWhole, ViewInv, JobsSeen, writer
<1>3. FdInv'
  BY <1>0, <1>1 DEF BaseInv, TypeOK, TurnsInv, FdInv, WritersIdle, Procs, writer
<1>4. TmpInv'
  BY <1>0, <1>1 DEF TmpInv, WritersIdle, writer, Hollow
<1>5. OwedInv' /\ FireInv'
  <2>1. CASE SvcOpen
    <3>1. /\ spc = "fire" /\ jobs' = jobs \ (fired \intersect Wakes)
          /\ fired' = {} /\ jobs = tasks.jobs /\ spc' = "write"
      BY <2>1 DEF SvcOpen, AfterFire, TurnsInv, ViewInv
    <3>2. OwedInv'
      BY <1>1, <3>1 DEF TurnsInv, OwedInv, OwedWakesStored
    <3>3. FireInv'
      BY <1>1, <3>1 DEF TurnsInv, FireInv, RefireTakesACrash, Unsaved, writer
    <3> QED BY <3>2, <3>3
  <2>2. CASE SvcWrite
    <3>1. spc = "write" /\ spc' = "rename" /\ UNCHANGED <<jobs, fired>>
      BY <2>2 DEF SvcWrite
    <3> QED BY <1>1, <3>1 DEF TurnsInv, OwedInv, OwedWakesStored, FireInv,
                              RefireTakesACrash, Unsaved, writer
  <2> QED BY <2>1, <2>2
<1> QED BY <1>2, <1>3, <1>4, <1>5 DEF TurnsInv

(* The stat after the save, with turns.                                     *)
LEMMA SavedTurns ==
  ASSUME BaseInv, TurnsInv, SvcRename \/ SvcSaved
  PROVE  TurnsInv'
<1>0. WritersIdle /\ UNCHANGED <<writer, jobs, batch, fired, due, fires, missed, owed, crashes>>
  BY DEF SvcRename, SvcSaved, TurnsInv, Turns
<1>1. CASE SvcSaved
  <2>1. /\ spc = "stat" /\ spc' = "idle" /\ changed' = FALSE /\ UNCHANGED file
        /\ jobs = tasks.jobs
    BY <1>1 DEF SvcSaved, TurnsInv, ViewInv
  <2> QED BY <1>0, <2>1
       DEF TurnsInv, Turns, WritersIdle, FdInv, TmpInv, StoreInv, TasksWhole,
           ViewInv, JobsSeen, OwedInv, OwedWakesStored, FireInv,
           RefireTakesACrash, Unsaved, file, writer
<1>2. CASE SvcRename
  <2>1. spc = "rename" /\ tmp = Whole(jobs) /\ fired = {}
    BY <1>2 DEF SvcRename, TurnsInv, TmpInv, BaseInv, TickInv
  <2>2. tmp.form = "whole" /\ tmp.jobs = jobs
    BY <2>1, ContentTypes
  <2>3. RenameTmp /\ spc' = "stat"
    BY <1>2, <2>2 DEF SvcRename
  <2>4. tasks' = tmp
    BY <2>3 DEF RenameTmp
  <2>5. fd' = fd
    <3>1. \A q \in Procs : fd[q] = "none"
      BY <1>0, <2>1 DEF TurnsInv, FdInv, WritersIdle, Procs
    <3>2. fd' = [q \in Procs |-> fd[q]]
      BY <2>3, <3>1 DEF RenameTmp
    <3> QED BY <3>2 DEF BaseInv, TypeOK
  <2>6. Turns' /\ FdInv' /\ TmpInv' /\ StoreInv'
    BY <1>0, <2>1, <2>3, <2>5 DEF TurnsInv, Turns, WritersIdle, FdInv, TmpInv,
                                  StoreInv, InDump, writer
  <2>7. TasksWhole' /\ ViewInv'
    BY <1>0, <2>2, <2>3, <2>4 DEF TasksWhole, ViewInv, JobsSeen
  <2>8. OwedInv'
    BY <1>0, <2>1, <2>2, <2>3, <2>4 DEF TurnsInv, OwedInv, OwedWakesStored
  <2>9. FireInv'
    <3>1. tasks'.jobs = jobs
      BY <2>2, <2>4
    <3>2. \A j \in jobs \intersect Wakes : j \in drawn /\ fires[j] <= crashes
      BY <2>1 DEF TurnsInv, FireInv, ViewInv, Unsaved
    <3> QED BY <1>0, <2>1, <3>1, <3>2
         DEF TurnsInv, FireInv, RefireTakesACrash, Unsaved, writer, WritersIdle
  <2> QED BY <2>6, <2>7, <2>8, <2>9 DEF TurnsInv
<1> QED BY <1>1, <1>2

(* Start, the clock and a crash, with turns.                                *)
LEMMA OtherTurns ==
  ASSUME BaseInv, TurnsInv,
         Start \/ (\E j \in Jobs : BecomeDue(j)) \/ Crash \/ UNCHANGED vars
  PROVE  TurnsInv'
<1>1. CASE Start
  <2>1. /\ spc = "down" /\ spc' = "idle" /\ changed' = FALSE /\ WritersIdle
        /\ fired = {} /\ fired' = {}
        /\ tasks' = Whole(tasks.jobs \union Beats)
        /\ jobs' = tasks.jobs \union Beats
        /\ UNCHANGED <<fd, writer, fires, missed, owed, crashes>>
    BY <1>1 DEF Start, TurnsInv, Turns, BaseInv, TickInv
  <2>2. tasks'.form = "whole" /\ tasks'.jobs = tasks.jobs \union Beats
    BY <2>1, ContentTypes
  <2>3. tasks'.jobs \intersect Wakes = tasks.jobs \intersect Wakes
    BY <2>2, CronStoreAssumption
  <2>4. Turns' /\ FdInv' /\ TmpInv' /\ StoreInv' /\ TasksWhole' /\ ViewInv'
    BY <2>1, <2>2 DEF TurnsInv, Turns, WritersIdle, FdInv, TmpInv, StoreInv,
                      InDump, TasksWhole, ViewInv, JobsSeen, writer
  <2>5. OwedInv'
    BY <2>1, <2>3 DEF TurnsInv, OwedInv, OwedWakesStored
  <2>6. FireInv'
    BY <2>1, <2>3 DEF TurnsInv, FireInv, RefireTakesACrash, Unsaved, writer,
                      WritersIdle
  <2> QED BY <2>4, <2>5, <2>6 DEF TurnsInv
<1>2. CASE Crash
  <2>1. /\ fd' = [p \in Procs |-> "none"] /\ wpc' = [w \in Writers |-> "idle"]
        /\ spc' = "down" /\ fired' = {} /\ crashes' = crashes + 1
        /\ UNCHANGED <<tasks, tmp, drawn, fires, missed, owed>>
    BY <1>2 DEF Crash
  <2>2. Turns' /\ FdInv' /\ TmpInv' /\ StoreInv' /\ TasksWhole' /\ ViewInv'
    BY <2>1 DEF TurnsInv, Turns, WritersIdle, FdInv, TmpInv, StoreInv, InDump,
                TasksWhole, ViewInv, JobsSeen, Procs
  <2>3. OwedInv'
    BY <2>1 DEF TurnsInv, OwedInv, OwedWakesStored
  <2>4. \A j \in Wakes : fires[j] <= crashes'
    BY <2>1 DEF BaseInv, TypeOK, TurnsInv, FireInv, RefireTakesACrash
  <2>5. \A j \in Wakes : fires'[j] <= 1 + crashes'
    BY <2>1, <2>4 DEF BaseInv, TypeOK
  <2>6. FireInv'
    BY <2>1, <2>4, <2>5 DEF TurnsInv, FireInv, RefireTakesACrash
  <2> QED BY <2>2, <2>3, <2>6 DEF TurnsInv
<1>3. CASE (\E j \in Jobs : BecomeDue(j)) \/ UNCHANGED vars
  <2>1. UNCHANGED <<file, writer, service, changed, fires, missed, owed, crashes>>
    BY <1>3 DEF BecomeDue, vars
  <2> QED BY <2>1
       DEF TurnsInv, Turns, WritersIdle, FdInv, TmpInv, StoreInv, TasksWhole,
           ViewInv, JobsSeen, OwedInv, OwedWakesStored, FireInv,
           RefireTakesACrash, Unsaved, file, writer, service
<1> QED BY <1>1, <1>2, <1>3

(* The invariant of the turns is inductive without overlap.                 *)
LEMMA TurnsStep ==
  ASSUME ~Overlap, BaseInv, TurnsInv, [Next]_vars
  PROVE  TurnsInv'
BY DedupeTurns, CreateTurns, DumpTurns, RenameTurns, TickStartTurns, ReadTurns,
   FireTurns, SaveTurns, SavedTurns, OtherTurns
   DEF Next, WriterStep, SvcStep

(* Without overlap it holds in every reachable state.                       *)
LEMMA TurnsHold == ASSUME ~Overlap PROVE Spec => []TurnsInv
<1>1. Init => BaseInv /\ TurnsInv
  BY BaseInit, TurnsInit
<1>2. (BaseInv /\ TurnsInv) /\ [Next]_vars => (BaseInv /\ TurnsInv)'
  BY BaseStep, TurnsStep
<1> QED BY <1>1, <1>2, PTL DEF Spec

(* Without overlap no interleaving of calls and crashes leaves half a       *)
(* document in tasks.json.                                                  *)
THEOREM WholeInTurns == ASSUME ~Overlap PROVE Spec => []TasksWhole
<1>1. TurnsInv => TasksWhole
  BY DEF TurnsInv
<1> QED BY <1>1, TurnsHold, PTL

(* Without overlap a promised wake is on disk until it fires or its firing  *)
(* raises, through saves, reloads and crashes.                              *)
THEOREM WakesKept == ASSUME ~Overlap PROVE Spec => []OwedWakesStored
<1>1. TurnsInv => OwedWakesStored
  BY DEF TurnsInv, OwedInv
<1> QED BY <1>1, TurnsHold, PTL

(* Without overlap a one-shot wake fires at most once more per crash.       *)
THEOREM FiresOncePerLife == ASSUME ~Overlap PROVE Spec => []RefireTakesACrash
<1>1. TurnsInv => RefireTakesACrash
  BY DEF TurnsInv, FireInv
<1> QED BY <1>1, TurnsHold, PTL

(* Without overlap no stored job escapes the scheduler's notice.            *)
THEOREM ReloadComplete == ASSUME ~Overlap PROVE Spec => []JobsSeen
<1>1. TurnsInv => JobsSeen
  BY DEF TurnsInv, ViewInv
<1> QED BY <1>1, TurnsHold, PTL

-----------------------------------------------------------------------------
(* The refinement of WakeBook needs two facts more.                         *)

(* A job under creation is on disk nowhere, not due, and its writer's own.  *)
FreshInv ==
  /\ due \intersect Wakes \subseteq drawn
  /\ \A w \in Writers : wpc[w] # "idle" => wjob[w] \notin tasks.jobs \union due
  /\ \A v, w \in Writers :
       v # w /\ wpc[v] # "idle" /\ wpc[w] # "idle" => wjob[v] # wjob[w]

(* A tick fires, and its save crosses out, only wakes that are due.         *)
DueInv ==
  /\ spc = "fire" => batch \subseteq due
  /\ spc \in {"write", "rename"} =>
       (tasks.jobs \ jobs) \intersect Wakes \subseteq due

BookInv == FreshInv /\ DueInv

(* A step that leaves the wakes on disk, their times and the debts alone is *)
(* none for the book.                                                       *)
LEMMA BookUnseen ==
  ASSUME tasks'.jobs \intersect Wakes = tasks.jobs \intersect Wakes,
         due' \intersect Wakes = due \intersect Wakes,
         owed' = owed
  PROVE  UNCHANGED Book!bvars
<1>1. (tasks'.jobs \ due') \intersect Wakes = (tasks.jobs \ due) \intersect Wakes
  OBVIOUS
<1>2. (tasks'.jobs \intersect due') \intersect Wakes
        = (tasks.jobs \intersect due) \intersect Wakes
  OBVIOUS
<1> QED BY <1>1, <1>2 DEF Book!bvars, TargetsOf

(* The tick's steps that touch neither the disk nor the times.              *)
LEMMA QuietTick ==
  ASSUME ~Overlap, BaseInv, TurnsInv, BookInv,
         SvcStat \/ SvcScan \/ SvcRead \/ SvcWrite \/ SvcSaved
  PROVE  BookInv' /\ UNCHANGED Book!bvars
<1>1. tasks' = tasks /\ due' = due /\ owed' = owed /\ UNCHANGED writer
  <2>1. CASE SvcWrite
    <3>1. fd[Service] = "tmp"
      BY <2>1 DEF SvcWrite, TurnsInv, FdInv
    <3> QED BY <2>1, <3>1 DEF SvcWrite, WriteOut
  <2>2. CASE SvcStat \/ SvcScan \/ SvcRead \/ SvcSaved
    BY <2>2 DEF SvcStat, SvcScan, SvcRead, SvcSaved, file
  <2> QED BY <2>1, <2>2
<1>2. FreshInv'
  BY <1>1 DEF BookInv, FreshInv, writer
<1>3. DueInv'
  BY <1>1 DEF BookInv, DueInv, SvcStat, SvcScan, SvcRead, SvcWrite, SvcSaved
<1> QED BY <1>1, <1>2, <1>3, BookUnseen DEF BookInv

(* A ring settles one debt; every other debt keeps its entry.               *)
LEMMA FireRings ==
  ASSUME BaseInv, TurnsInv, TurnsInv', BookInv, NEW j \in Jobs, SvcFire(j)
  PROVE  BookInv' /\ (Book!Next \/ UNCHANGED Book!bvars)
<1>1. /\ spc = "fire" /\ j \in batch /\ j \in tasks.jobs /\ j \in due
      /\ tasks' = tasks
      /\ UNCHANGED <<writer, spc, jobs, batch, due>>
  BY DEF SvcFire, BaseInv, TickInv, TurnsInv, ViewInv, BookInv, DueInv, file
<1>2. BookInv'
  BY <1>1 DEF BookInv, FreshInv, DueInv, writer
<1>3. CASE j \notin Wakes
  BY <1>1, <1>2, <1>3, BookUnseen DEF SvcFire
<1>4. CASE j \in Wakes
  <2>1. owed' = owed \ {KeyOf[j]} /\ KeyOf[j] \in Keys
    BY <1>4, CronStoreAssumption DEF SvcFire
  <2>2. KeyOf[j] \in TargetsOf(tasks.jobs \intersect due)
    BY <1>1, <1>4 DEF TargetsOf
  <2>3. Book!Kept'
    BY DEF Book!Kept, TargetsOf, TurnsInv, OwedInv, OwedWakesStored
  <2>4. /\ TargetsOf(tasks.jobs \ due)' = TargetsOf(tasks.jobs \ due)
        /\ TargetsOf(tasks.jobs \intersect due)' = TargetsOf(tasks.jobs \intersect due)
    BY <1>1 DEF TargetsOf
  <2>5. Book!Ring(KeyOf[j])
    BY <2>1, <2>2, <2>3, <2>4 DEF Book!Ring
  <2> QED BY <1>2, <2>1, <2>5 DEF Book!Next
<1> QED BY <1>3, <1>4

(* _post_fire drops what fired from memory: all of it is due on disk.       *)
LEMMA SaveStarts ==
  ASSUME BaseInv, TurnsInv, BookInv, SvcOpen
  PROVE  BookInv' /\ UNCHANGED Book!bvars
<1>1. /\ spc = "fire" /\ spc' = "write" /\ fired = batch /\ batch \subseteq due
      /\ jobs = tasks.jobs /\ jobs' = jobs \ (fired \intersect Wakes)
      /\ due' = due \ (fired \intersect Beats)
      /\ tasks' = tasks /\ owed' = owed /\ UNCHANGED writer
  BY DEF SvcOpen, OpenTmp, AfterFire, BaseInv, TurnsInv, ViewInv, BookInv, DueInv
<1>2. due' \intersect Wakes = due \intersect Wakes
  BY <1>1, CronStoreAssumption
<1>3. FreshInv'
  BY <1>1, <1>2 DEF BookInv, FreshInv, writer
<1>4. DueInv'
  BY <1>1, <1>2 DEF DueInv
<1> QED BY <1>1, <1>2, <1>3, <1>4, BookUnseen DEF BookInv

(* The rename of the save crosses out due entries only.                     *)
LEMMA SaveCrossesOut ==
  ASSUME BaseInv, TurnsInv, TurnsInv', BookInv, SvcRename
  PROVE  BookInv' /\ (Book!Next \/ UNCHANGED Book!bvars)
<1>1. spc = "rename" /\ tmp = Whole(jobs) /\ jobs \subseteq tasks.jobs
  BY DEF SvcRename, TurnsInv, TmpInv, ViewInv
<1>2. tmp.form = "whole" /\ tmp.jobs = jobs
  BY <1>1, ContentTypes
<1>3. tasks'.jobs = jobs /\ spc' = "stat" /\ UNCHANGED <<writer, due, owed>>
  BY <1>2 DEF SvcRename, RenameTmp
<1>4. (tasks.jobs \ jobs) \intersect Wakes \subseteq due
  BY <1>1 DEF BookInv, DueInv
<1>5. FreshInv'
  BY <1>1, <1>3 DEF BookInv, FreshInv, writer
<1>6. DueInv'
  BY <1>3 DEF DueInv
<1>7. TargetsOf(tasks.jobs \ due)' = TargetsOf(tasks.jobs \ due)
  BY <1>1, <1>3, <1>4 DEF TargetsOf
<1>8. TargetsOf(tasks.jobs \intersect due)' \subseteq TargetsOf(tasks.jobs \intersect due)
  BY <1>1, <1>3 DEF TargetsOf
<1>9. Book!Kept'
  BY DEF Book!Kept, TargetsOf, TurnsInv, OwedInv, OwedWakesStored
<1>10. Book!CrossOut
  BY <1>3, <1>7, <1>8, <1>9 DEF Book!CrossOut
<1> QED BY <1>5, <1>6, <1>10 DEF BookInv, Book!Next

(* The dedupe: a waiting entry is promised, or a new id is drawn.           *)
LEMMA DedupeBooks ==
  ASSUME BaseInv, TurnsInv, BookInv, NEW w \in Writers,
         \/ \E k \in Keys : ReuseWake(w, k)
         \/ \E j \in Wakes : NewWake(w, j)
  PROVE  BookInv' /\ (Book!Next \/ UNCHANGED Book!bvars)
<1>1. ASSUME NEW k \in Keys, ReuseWake(w, k)
      PROVE  BookInv' /\ (Book!Next \/ UNCHANGED Book!bvars)
  <2>1. /\ owed' = owed \union {k} /\ tasks' = tasks
        /\ UNCHANGED <<writer, service, due>>
    BY <1>1 DEF ReuseWake, file
  <2>2. k \in TargetsOf(tasks.jobs \ due)
    BY <1>1 DEF ReuseWake, Pending, TargetsOf
  <2>3. BookInv'
    BY <2>1 DEF BookInv, FreshInv, DueInv, writer, service
  <2>4. /\ TargetsOf(tasks.jobs \ due)' = TargetsOf(tasks.jobs \ due) \union {k}
        /\ TargetsOf(tasks.jobs \intersect due)' = TargetsOf(tasks.jobs \intersect due)
    BY <2>1, <2>2 DEF TargetsOf
  <2>5. Book!Schedule(k)
    BY <2>1, <2>4 DEF Book!Schedule
  <2> QED BY <2>3, <2>5 DEF Book!Next
<1>2. ASSUME NEW j \in Wakes, NewWake(w, j)
      PROVE  BookInv' /\ UNCHANGED Book!bvars
  <2>1. /\ j \notin drawn /\ drawn' = drawn \union {j}
        /\ wjob' = [wjob EXCEPT ![w] = j]
        /\ wpc' = [wpc EXCEPT ![w] = "create"]
        /\ tasks' = tasks
        /\ UNCHANGED <<service, due, owed>>
    BY <1>2 DEF NewWake, file
  <2>2. j \notin tasks.jobs \union due
    BY <2>1 DEF TurnsInv, FireInv, BookInv, FreshInv
  <2>3. \A v \in Writers : v # w => wpc'[v] = wpc[v] /\ wjob'[v] = wjob[v]
    BY <2>1 DEF BaseInv, TypeOK
  <2>4. wjob'[w] = j /\ \A v \in Writers : wpc[v] # "idle" => wjob[v] # j
    BY <2>1 DEF BaseInv, TypeOK, TurnsInv, FireInv
  <2>5. FreshInv'
    BY <2>1, <2>2, <2>3, <2>4 DEF BookInv, FreshInv
  <2>6. DueInv'
    BY <2>1 DEF BookInv, DueInv, service
  <2> QED BY <2>1, <2>5, <2>6, BookUnseen DEF BookInv
<1> QED BY <1>1, <1>2

(* The steps of create_job before its rename.                               *)
LEMMA DumpUnseen ==
  ASSUME BaseInv, TurnsInv, BookInv, NEW w \in Writers,
         CreateJob(w) \/ DumpOpen(w) \/ DumpWrite(w)
  PROVE  BookInv' /\ UNCHANGED Book!bvars
<1>1. /\ tasks' = tasks
      /\ UNCHANGED <<drawn, service, due, owed>>
  <2>1. CASE DumpWrite(w)
    <3>1. fd[w] = "tmp"
      BY <2>1 DEF DumpWrite, TurnsInv, FdInv
    <3> QED BY <2>1, <3>1 DEF DumpWrite, WriteOut
  <2>2. CASE CreateJob(w) \/ DumpOpen(w)
    BY <2>2 DEF CreateJob, DumpOpen, OpenTmp, file
  <2> QED BY <2>1, <2>2
<1>2. \A v \in Writers : wpc'[v] # "idle" => wpc[v] # "idle" /\ wjob'[v] = wjob[v]
  BY DEF CreateJob, DumpOpen, DumpWrite, BaseInv, TypeOK
<1>3. FreshInv'
  BY <1>1, <1>2 DEF BookInv, FreshInv
<1>4. DueInv'
  BY <1>1 DEF BookInv, DueInv, service
<1> QED BY <1>1, <1>3, <1>4, BookUnseen DEF BookInv

(* The rename of create_job writes an entry that waits.                     *)
LEMMA RenameSchedules ==
  ASSUME BaseInv, TurnsInv, BookInv, NEW w \in Writers, DumpRename(w)
  PROVE  BookInv' /\ (Book!Next \/ UNCHANGED Book!bvars)
<1> DEFINE j == wjob[w]
<1>1. /\ wpc[w] = "rename" /\ spc = "idle" /\ tmp = Whole(store[w])
      /\ store[w] = tasks.jobs \union {j} /\ j \in Wakes
      /\ j \in drawn /\ j \notin due
  BY WriterTurn DEF DumpRename, BaseInv, TurnsInv, TmpInv, StoreInv, JobInv,
                    InDump, FireInv, BookInv, FreshInv
<1>2. tmp.form = "whole" /\ tmp.jobs = store[w]
  BY <1>1, ContentTypes
<1>3. tasks'.jobs = tasks.jobs \union {j} /\ owed' = owed \union {KeyOf[j]}
  BY <1>1, <1>2 DEF DumpRename, RenameTmp
<1>4. UNCHANGED <<drawn, service, due>>
  BY DEF DumpRename
<1>5. \A v \in Writers :
        wpc'[v] # "idle" => v # w /\ wpc[v] # "idle" /\ wjob'[v] = wjob[v]
  BY DEF DumpRename, BaseInv, TypeOK
<1>6. FreshInv'
  BY <1>1, <1>3, <1>4, <1>5 DEF BookInv, FreshInv
<1>7. DueInv'
  BY <1>1, <1>4 DEF DueInv, service
<1>8. /\ TargetsOf(tasks.jobs \ due)' = TargetsOf(tasks.jobs \ due) \union {KeyOf[j]}
      /\ TargetsOf(tasks.jobs \intersect due)' = TargetsOf(tasks.jobs \intersect due)
  BY <1>1, <1>3, <1>4 DEF TargetsOf
<1>9. KeyOf[j] \in Keys
  BY <1>1, CronStoreAssumption
<1>10. Book!Schedule(KeyOf[j])
  BY <1>3, <1>8 DEF Book!Schedule
<1> QED BY <1>6, <1>7, <1>9, <1>10 DEF BookInv, Book!Next

(* The clock: a stored wake's time comes.                                   *)
LEMMA DuePasses ==
  ASSUME BaseInv, TurnsInv, BookInv, NEW j \in Jobs, BecomeDue(j)
  PROVE  BookInv' /\ (Book!Next \/ UNCHANGED Book!bvars)
<1>1. /\ j \in tasks.jobs /\ j \notin due /\ due' = due \union {j}
      /\ tasks' = tasks /\ owed' = owed /\ UNCHANGED <<writer, service>>
  BY DEF BecomeDue, file
<1>2. FreshInv'
  BY <1>1 DEF TurnsInv, FireInv, BookInv, FreshInv, writer
<1>3. DueInv'
  BY <1>1 DEF BookInv, DueInv, service
<1>4. CASE j \notin Wakes
  BY <1>1, <1>2, <1>3, <1>4, BookUnseen DEF BookInv
<1>5. CASE j \in Wakes
  <2>1. KeyOf[j] \in Keys
    BY <1>5, CronStoreAssumption
  <2>2. KeyOf[j] \in TargetsOf(tasks.jobs \ due)
    BY <1>1, <1>5 DEF TargetsOf
  <2>3. TargetsOf(tasks.jobs \intersect due)'
          = TargetsOf(tasks.jobs \intersect due) \union {KeyOf[j]}
    BY <1>1, <1>5 DEF TargetsOf
  <2>4. \/ TargetsOf(tasks.jobs \ due)' = TargetsOf(tasks.jobs \ due)
        \/ TargetsOf(tasks.jobs \ due)' = TargetsOf(tasks.jobs \ due) \ {KeyOf[j]}
    <3>1. TargetsOf(tasks.jobs \ due) = TargetsOf(tasks.jobs \ due)' \union {KeyOf[j]}
      BY <1>1, <1>5 DEF TargetsOf
    <3> QED BY <3>1
  <2>5. Book!Pass(KeyOf[j])
    BY <1>1, <2>2, <2>3, <2>4 DEF Book!Pass
  <2> QED BY <1>2, <1>3, <2>1, <2>5 DEF BookInv, Book!Next
<1> QED BY <1>4, <1>5

(* A start and a crash leave the book as it is.                             *)
LEMMA RestartUnseen ==
  ASSUME BaseInv, TurnsInv, BookInv, Start \/ Crash \/ UNCHANGED vars
  PROVE  BookInv' /\ UNCHANGED Book!bvars
<1>1. CASE Start
  <2>1. /\ tasks' = Whole(tasks.jobs \union Beats) /\ spc' = "idle"
        /\ due' = due \ Beats /\ owed' = owed /\ WritersIdle /\ UNCHANGED writer
    BY <1>1 DEF Start, TurnsInv, Turns
  <2>2. tasks'.jobs = tasks.jobs \union Beats
    BY <2>1, ContentTypes
  <2>3. /\ tasks'.jobs \intersect Wakes = tasks.jobs \intersect Wakes
        /\ due' \intersect Wakes = due \intersect Wakes
    BY <2>1, <2>2, CronStoreAssumption
  <2>4. FreshInv'
    BY <2>1, <2>3 DEF BookInv, FreshInv, WritersIdle, writer
  <2>5. DueInv'
    BY <2>1 DEF DueInv
  <2> QED BY <2>1, <2>3, <2>4, <2>5, BookUnseen DEF BookInv
<1>2. CASE Crash
  <2>1. /\ wpc' = [w \in Writers |-> "idle"] /\ spc' = "down"
        /\ UNCHANGED <<tasks, due, drawn, owed>>
    BY <1>2 DEF Crash
  <2>2. FreshInv' /\ DueInv'
    BY <2>1 DEF BookInv, FreshInv, DueInv
  <2> QED BY <2>1, <2>2, BookUnseen DEF BookInv
<1>3. CASE UNCHANGED vars
  BY <1>3, BookUnseen DEF vars, file, writer, service, BookInv, FreshInv, DueInv
<1> QED BY <1>1, <1>2, <1>3

(* Every step is one of the book's, or none, without overlap.               *)
LEMMA BookStep ==
  ASSUME ~Overlap, BaseInv, TurnsInv, TurnsInv', BookInv, [Next]_vars
  PROVE  BookInv' /\ [Book!Next]_(Book!bvars)
BY QuietTick, FireRings, SaveStarts, SaveCrossesOut, DedupeBooks, DumpUnseen,
   RenameSchedules, DuePasses, RestartUnseen
   DEF Next, WriterStep, SvcStep

(* tasks.json with its writers, its scheduler and any number of crashes,    *)
(* taking turns, implements the abstract book of wakes.                     *)
THEOREM StoreIsABook == ASSUME ~Overlap PROVE Spec => ImplementsBook
<1>1. Init => BookInv /\ Book!Init
  <2>1. Init => BookInv
    BY DEF Init, BookInv, FreshInv, DueInv
  <2>2. Init => Book!Init
    BY DEF Init, Book!Init, TargetsOf, Hollow
  <2> QED BY <2>1, <2>2
<1>2. Init => BaseInv /\ TurnsInv
  BY BaseInit, TurnsInit
<1>3. (BaseInv /\ TurnsInv /\ BookInv) /\ [Next]_vars
        => (BaseInv /\ TurnsInv /\ BookInv)' /\ [Book!Next]_(Book!bvars)
  BY BaseStep, TurnsStep, BookStep
<1> QED BY <1>1, <1>2, <1>3, PTL DEF Spec, ImplementsBook, Book!Spec
=============================================================================
