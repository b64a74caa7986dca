------------------------------ MODULE CronStore ------------------------------
(***************************************************************************)
(* cron/tasks.json, its writers and its scheduler.  Writers run            *)
(* tasks_store.schedule_wake (dedupe, then create_job, each under a        *)
(* FileLock); CronService reloads the file when its mtime or size changed, *)
(* fires what is due and saves what is left, without that lock.  Both save *)
(* by writing tasks.tmp and renaming it, and both use the same tasks.tmp.  *)
(* A file is an inode: a descriptor opened on tasks.tmp follows the inode  *)
(* through a rename and then writes into tasks.json in place.              *)
(* Clocks are left out: a job becomes due some time after it was stored.   *)
(***************************************************************************)
EXTENDS Naturals

CONSTANTS
  Writers,      (* threads that call schedule_wake                         *)
  Wakes,        (* ids of at-jobs create_job may draw                      *)
  Beats,        (* heartbeat-{role}, the every-jobs registered at start    *)
  Keys,         (* wake targets: routing key and message                   *)
  KeyOf,        (* the target of each at-job                               *)
  NoOne,        (* the FileLock is free                                    *)
  Overlap,      (* FALSE: writers and ticks take turns on one event loop   *)
  MaxCrashes    (* bound on crashes of the host process                    *)

ASSUME CronStoreAssumption ==
  /\ Wakes \intersect Beats = {}
  /\ KeyOf \in [Wakes -> Keys]
  /\ NoOne \notin Writers
  /\ "service" \notin Writers
  /\ Overlap \in BOOLEAN
  /\ Beats # {}
  /\ MaxCrashes \in Nat

Jobs == Wakes \union Beats
Service == "service"
Procs == Writers \union {Service}

(* What a file holds: a JSON document with these jobs, nothing (just        *)
(* opened), the overlay of two writes, or the file is not there.            *)
Contents == [form : {"whole", "empty", "torn", "absent"}, jobs : SUBSET Jobs]
Whole(J) == [form |-> "whole", jobs |-> J]
Hollow(f) == [form |-> f, jobs |-> {}]

VARIABLES
  tasks,    (* tasks.json                                                  *)
  tmp,      (* tasks.tmp                                                   *)
  fd,       (* the inode each process has open for writing                 *)
  lock,     (* holder of tasks.json.lock                                   *)
  wpc,      (* where each writer is in schedule_wake                       *)
  wjob,     (* the job each writer creates                                 *)
  store,    (* the jobs each writer loaded                                 *)
  spc,      (* where CronService is                                        *)
  jobs,     (* CronService.jobs                                            *)
  changed,  (* mtime or size differ from _last_mtime, _last_size           *)
  batch,    (* the jobs this tick found due                                *)
  fired,    (* fired_ids of this tick                                      *)
  due,      (* the jobs whose run time has passed                          *)
  drawn,    (* job ids already used                                        *)
  fires,    (* history: times each at-job's message was dispatched         *)
  missed,   (* history: at-jobs whose dispatch raised                      *)
  owed,     (* history: targets whose schedule_wake returned, not tried yet*)
  crashes   (* crashes of the host process so far                          *)

file == <<tasks, tmp, fd>>
writer == <<lock, wpc, wjob, store, drawn>>
service == <<spc, jobs, batch, fired>>
vars == <<file, writer, service, changed, due, fires, missed, owed, crashes>>

(* Types of all variables.                                                  *)
TypeOK ==
  /\ tasks \in Contents
  /\ tmp \in Contents
  /\ fd \in [Procs -> {"none", "tmp", "tasks", "gone"}]
  /\ lock \in Writers \union {NoOne}
  /\ wpc \in [Writers -> {"idle", "create", "open", "write", "rename"}]
  /\ wjob \in [Writers -> Wakes \union {NoOne}]
  /\ store \in [Writers -> SUBSET Jobs]
  /\ spc \in {"down", "idle", "read", "scan", "fire",
              "open", "write", "rename", "stat"}
  /\ jobs \in SUBSET Jobs
  /\ changed \in BOOLEAN
  /\ batch \in SUBSET Jobs
  /\ fired \in SUBSET batch
  /\ due \in SUBSET Jobs
  /\ drawn \in SUBSET Wakes
  /\ fires \in [Wakes -> Nat]
  /\ missed \in SUBSET Wakes
  /\ owed \in SUBSET Keys
  /\ crashes \in Nat

(* A fresh data directory, before the host process starts.                  *)
Init ==
  /\ tasks = Hollow("absent")
  /\ tmp = Hollow("absent")
  /\ fd = [p \in Procs |-> "none"]
  /\ lock = NoOne
  /\ wpc = [w \in Writers |-> "idle"]
  /\ wjob = [w \in Writers |-> NoOne]
  /\ store = [w \in Writers |-> {}]
  /\ spc = "down"
  /\ jobs = {}
  /\ changed = FALSE
  /\ batch = {}
  /\ fired = {}
  /\ due = {}
  /\ drawn = {}
  /\ fires = [j \in Wakes |-> 0]
  /\ missed = {}
  /\ owed = {}
  /\ crashes = 0

-----------------------------------------------------------------------------
(* The file steps both sides share: Path.write_text(tmp), tmp.rename(tasks).*)

(* open(.., "w") truncates the inode.  Mutant: the save writes tasks.json   *)
(* itself, without the detour.                                              *)
OpenInPlace(p) ==
  /\ fd' = [fd EXCEPT ![p] = "tasks"]
  /\ tasks' = Hollow("empty")
  /\ UNCHANGED tmp
OpenTmp(p) ==
  /\ fd' = [fd EXCEPT ![p] = "tmp"]
  /\ tmp' = Hollow("empty")
  /\ UNCHANGED tasks

(* What one write from offset 0 leaves of the old content: over a longer    *)
(* document a tail of it stays behind.                                      *)
Landing(old, J) ==
  {Whole(J)} \union IF old.form = "empty" THEN {} ELSE {Hollow("torn")}

(* write and close: into whatever file the inode is by now.                 *)
WriteOut(p, J) ==
  /\ fd' = [fd EXCEPT ![p] = "none"]
  /\ tmp' \in IF fd[p] = "tmp" THEN Landing(tmp, J) ELSE {tmp}
  /\ tasks' \in IF fd[p] = "tasks" THEN Landing(tasks, J) ELSE {tasks}
  /\ changed' = (changed \/ fd[p] = "tasks")

(* rename moves the inode: descriptors on tmp are on tasks.json from now,   *)
(* those on the old tasks.json on a file nobody can reach.                  *)
RenameTmp ==
  /\ tmp.form # "absent"
  /\ tasks' = tmp
  /\ tmp' = Hollow("absent")
  /\ changed' = TRUE
  /\ fd' = [p \in Procs |-> CASE fd[p] = "tmp" -> "tasks"
                              [] fd[p] = "tasks" -> "gone"
                              [] OTHER -> fd[p]]

(* tasks_store._load_store: no file and an empty file are no jobs, a torn   *)
(* file raises before anything changed.                                     *)
Loadable == tasks.form # "torn"

-----------------------------------------------------------------------------
Up == spc # "down"
WritersIdle == \A w \in Writers : wpc[w] = "idle"

(* The host process starts: a heartbeat per role (loaded, replaced and      *)
(* renamed into place before anything else runs, its first run to come),    *)
(* then CronService.start loads the file.  A file that does not parse ends  *)
(* the start.                                                               *)
Start ==
  /\ spc = "down"
  /\ Loadable
  /\ tasks' = Whole(tasks.jobs \union Beats)
  /\ tmp' = Hollow("absent")
  /\ jobs' = tasks.jobs \union Beats
  /\ due' = due \ Beats
  /\ changed' = FALSE
  /\ spc' = "idle"
  /\ UNCHANGED <<fd, writer, batch, fired, fires, missed, owed, crashes>>

(* schedule_wake's first critical section.  A pending wake of this target   *)
(* that is not due yet is returned; otherwise the lock is released and      *)
(* create_job is called.                                                    *)
Pending(k) == {j \in tasks.jobs \ due : j \in Wakes /\ KeyOf[j] = k}

(* Mutant: no lock, as in the mailbox CLI.                                  *)
NoLock(w) == TRUE
LockFree(w) == lock = NoOne

MayCall == Up /\ (Overlap \/ spc = "idle")

ReuseWake(w, k) ==
  /\ wpc[w] = "idle" /\ MayCall /\ LockFree(w) /\ Loadable
  /\ Pending(k) # {}
  /\ owed' = owed \union {k}
  /\ UNCHANGED <<file, writer, service, changed, due, fires, missed, crashes>>

NewWake(w, j) ==
  /\ wpc[w] = "idle" /\ MayCall /\ LockFree(w) /\ Loadable
  /\ j \notin drawn
  /\ Pending(KeyOf[j]) = {}
  /\ drawn' = drawn \union {j}
  /\ wjob' = [wjob EXCEPT ![w] = j]
  /\ wpc' = [wpc EXCEPT ![w] = "create"]
  /\ UNCHANGED <<file, lock, store, service, changed, due, fires, missed, owed, crashes>>

(* create_job: lock, load, append.  A torn file raises JSONDecodeError.     *)
CreateJob(w) ==
  /\ wpc[w] = "create"
  /\ LockFree(w)
  /\ IF Loadable
     THEN /\ lock' = w
          /\ store' = [store EXCEPT ![w] = tasks.jobs \union {wjob[w]}]
          /\ wpc' = [wpc EXCEPT ![w] = "open"]
          /\ UNCHANGED wjob
     ELSE /\ wjob' = [wjob EXCEPT ![w] = NoOne]
          /\ wpc' = [wpc EXCEPT ![w] = "idle"]
          /\ UNCHANGED <<lock, store>>
  /\ UNCHANGED <<file, drawn, service, changed, due, fires, missed, owed, crashes>>

DumpOpen(w) ==
  /\ wpc[w] = "open"
  /\ OpenTmp(w)
  /\ wpc' = [wpc EXCEPT ![w] = "write"]
  /\ UNCHANGED <<lock, wjob, store, drawn, service, changed, due, fires, missed, owed, crashes>>

DumpWrite(w) ==
  /\ wpc[w] = "write"
  /\ WriteOut(w, store[w])
  /\ wpc' = [wpc EXCEPT ![w] = "rename"]
  /\ UNCHANGED <<lock, wjob, store, drawn, service, due, fires, missed, owed, crashes>>

(* The with-block releases the lock on every way out.                       *)
Released(w) == IF lock = w THEN NoOne ELSE lock

(* The rename, the release of the lock and the return.  If somebody else    *)
(* renamed tasks.tmp away, FileNotFoundError reaches the caller.            *)
DumpRename(w) ==
  /\ wpc[w] = "rename"
  /\ \/ /\ RenameTmp
        /\ owed' = owed \union {KeyOf[wjob[w]]}
     \/ /\ tmp.form = "absent"
        /\ UNCHANGED <<file, changed, owed>>
  /\ lock' = Released(w)
  /\ wjob' = [wjob EXCEPT ![w] = NoOne]
  /\ store' = [store EXCEPT ![w] = {}]
  /\ wpc' = [wpc EXCEPT ![w] = "idle"]
  /\ UNCHANGED <<drawn, service, due, fires, missed, crashes>>

(* A stored job's run time passes.                                          *)
BecomeDue(j) ==
  /\ j \in tasks.jobs
  /\ j \notin due
  /\ due' = due \union {j}
  /\ UNCHANGED <<file, writer, service, changed, fires, missed, owed, crashes>>

-----------------------------------------------------------------------------
(* CronService._loop.  A tick starts from its sleep; without overlap only   *)
(* between two calls of the writers.                                        *)
MayTick == spc = "idle" /\ (Overlap \/ WritersIdle)

(* _check_mtime found a difference; _load_store stats first: what is        *)
(* written from here on is a difference again.                              *)
SvcStat ==
  /\ MayTick
  /\ changed
  /\ changed' = FALSE
  /\ spc' = "read"
  /\ UNCHANGED <<file, writer, jobs, batch, fired, due, fires, missed, owed, crashes>>

(* Jobs already due are loaded like any other.  Mutant: they are skipped.   *)
UpcomingOf(J) == J \ due
LoadedOf(J) == J

(* ... then reads; a file that does not parse is logged and is no jobs.     *)
SvcRead ==
  /\ spc = "read"
  /\ jobs' = LoadedOf(tasks.jobs)
  /\ spc' = "scan"
  /\ UNCHANGED <<file, writer, changed, batch, fired, due, fires, missed, owed, crashes>>

(* `now` is read once: the jobs due by then are this tick's.  A tick that   *)
(* neither reloads nor finds anything due changes nothing.                  *)
SvcScan ==
  /\ \/ spc = "scan"
     \/ MayTick /\ ~changed /\ jobs \intersect due # {}
  /\ batch' = jobs \intersect due
  /\ spc' = IF batch' = {} THEN "idle" ELSE "fire"
  /\ UNCHANGED <<file, writer, jobs, changed, fired, due, fires, missed, owed, crashes>>

(* await self._fire(job): the message is in the Runner's queue, or dispatch *)
(* raised, which is noted in the job and logged: it counts as fired.        *)
SvcFire(j) ==
  /\ spc = "fire"
  /\ j \in batch \ fired
  /\ fired' = fired \union {j}
  /\ IF j \in Wakes
     THEN /\ \/ fires' = [fires EXCEPT ![j] = @ + 1] /\ UNCHANGED missed
             \/ missed' = missed \union {j} /\ UNCHANGED fires
          /\ owed' = owed \ {KeyOf[j]}
     ELSE UNCHANGED <<fires, missed, owed>>
  /\ UNCHANGED <<file, writer, spc, jobs, changed, batch, due, crashes>>

(* _post_fire drops the at-jobs that fired (delete_after_run) and re-arms   *)
(* the heartbeats.  Mutants: the fired jobs stay; all jobs due by now go.    *)
KeepFired(J, F) == J
DropDue(J, F) == J \ (due \intersect Wakes)
AfterFire(J, F) == J \ (F \intersect Wakes)

(* _post_fire, then _save_store opens tasks.tmp.                            *)
SvcOpen ==
  /\ spc = "fire"
  /\ fired = batch
  /\ jobs' = AfterFire(jobs, fired)
  /\ due' = due \ (fired \intersect Beats)
  /\ batch' = {}
  /\ fired' = {}
  /\ OpenTmp(Service)
  /\ spc' = "write"
  /\ UNCHANGED <<writer, changed, fires, missed, owed, crashes>>

SvcWrite ==
  /\ spc = "write"
  /\ WriteOut(Service, jobs)
  /\ spc' = "rename"
  /\ UNCHANGED <<writer, jobs, batch, fired, due, fires, missed, owed, crashes>>

(* Where the loop goes after an exception: it is logged and the loop        *)
(* sleeps.                                                                  *)
TickError == "idle"

(* If tasks.tmp was renamed away, FileNotFoundError ends the tick.          *)
SvcRename ==
  /\ spc = "rename"
  /\ \/ RenameTmp /\ spc' = "stat"
     \/ /\ tmp.form = "absent"
        /\ spc' = TickError
        /\ UNCHANGED <<file, changed>>
  /\ UNCHANGED <<writer, jobs, batch, fired, due, fires, missed, owed, crashes>>

(* The stat after the rename becomes _last_mtime and _last_size.            *)
SvcSaved ==
  /\ spc = "stat"
  /\ changed' = FALSE
  /\ spc' = "idle"
  /\ UNCHANGED <<file, writer, jobs, batch, fired, due, fires, missed, owed, crashes>>

(* The host process dies, or stops, between any two steps.  What was in the *)
(* files stays.                                                             *)
Crash ==
  /\ crashes < MaxCrashes
  /\ Up
  /\ crashes' = crashes + 1
  /\ fd' = [p \in Procs |-> "none"]
  /\ lock' = NoOne
  /\ wpc' = [w \in Writers |-> "idle"]
  /\ wjob' = [w \in Writers |-> NoOne]
  /\ store' = [w \in Writers |-> {}]
  /\ spc' = "down"
  /\ jobs' = {}
  /\ batch' = {}
  /\ fired' = {}
  /\ UNCHANGED <<tasks, tmp, changed, due, drawn, fires, missed, owed>>

WriterStep(w) == CreateJob(w) \/ DumpOpen(w) \/ DumpWrite(w) \/ DumpRename(w)

SvcStep ==
  \/ SvcRead
  \/ \E j \in Jobs : SvcFire(j)
  \/ SvcOpen \/ SvcWrite \/ SvcRename \/ SvcSaved

Next ==
  \/ Start
  \/ \E w \in Writers, k \in Keys : ReuseWake(w, k)
  \/ \E w \in Writers, j \in Wakes : NewWake(w, j)
  \/ \E w \in Writers : WriterStep(w)
  \/ \E j \in Jobs : BecomeDue(j)
  \/ SvcStat \/ SvcScan \/ SvcStep
  \/ Crash

Spec == Init /\ [][Next]_vars

(* The operating system runs every call to its end, the process is          *)
(* restarted, time passes, and the event loop gives a tick its turn between *)
(* two calls (strong: each call may come first, not forever).               *)
Fairness ==
  /\ WF_vars(Start)
  /\ \A w \in Writers : WF_vars(WriterStep(w))
  /\ \A j \in Wakes : WF_vars(BecomeDue(j))
  /\ SF_vars(SvcStat) /\ SF_vars(SvcScan)
  /\ WF_vars(SvcStep)

FairSpec == Spec /\ Fairness

-----------------------------------------------------------------------------
(* tasks.json always parses: nobody, and no crash, leaves half a document.  *)
TasksWhole == tasks.form \in {"whole", "absent"}

(* The FileLock admits one thread at a time to load-modify-dump.            *)
LockExclusion == \A w \in Writers : wpc[w] \in {"open", "write", "rename"} => lock = w

(* A wake whose schedule_wake returned is on disk until it was fired.       *)
OwedWakesStored ==
  \A k \in owed : \E j \in tasks.jobs \intersect Wakes : KeyOf[j] = k

(* Seen from the targets, the file is the book of wakes.                    *)
TargetsOf(J) == {KeyOf[j] : j \in J \intersect Wakes}

Book == INSTANCE WakeBook WITH
  Targets <- Keys,
  waiting <- TargetsOf(tasks.jobs \ due),
  passed <- TargetsOf(tasks.jobs \intersect due),
  promised <- owed

(* Writers, scheduler and crashes together keep what the book promises: no  *)
(* entry vanishes before its time, none rings before it, and none that is   *)
(* still owed is crossed out.                                               *)
ImplementsBook == Book!Spec

(* A one-shot job fires once; a crash before the save may repeat it.        *)
RefireTakesACrash == \A j \in Wakes : fires[j] <= 1 + crashes

(* Between ticks, an unchanged file and the scheduler's jobs agree, so no   *)
(* job on disk goes unseen.                                                 *)
JobsSeen == spc = "idle" /\ ~changed => jobs = tasks.jobs

(* Every wake that got onto the disk is dispatched, through reloads, saves  *)
(* and restarts; only a dispatch that raises costs it.                      *)
WakeFires == \A j \in Wakes : j \in tasks.jobs ~> (fires[j] > 0 \/ j \in missed)
=============================================================================
