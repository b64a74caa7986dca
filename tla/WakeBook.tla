------------------------------ MODULE WakeBook ------------------------------
(***************************************************************************)
(* What cron/tasks.json promises those who ask to be woken: a wake stays    *)
(* written down until its time has come, it rings only then, and a target   *)
(* that was promised a ring keeps an entry until it got one, whatever the   *)
(* scheduler reloads or saves and however often the process dies.  Entries  *)
(* are told apart by their target only, so there may be several of one.     *)
(***************************************************************************)
CONSTANT Targets    (* whom a wake is for                                  *)

VARIABLES
  waiting,    (* targets with an entry whose time has not come             *)
  passed,     (* targets with an entry whose time has come                 *)
  promised    (* targets told that they will be rung, and not tried since  *)

bvars == <<waiting, passed, promised>>

(* Who was promised a ring has an entry.                                    *)
Kept == promised \subseteq waiting \union passed

Init ==
  /\ waiting = {}
  /\ passed = {}
  /\ promised = {}

(* An entry is written, or one that waits already is found.                 *)
Schedule(k) ==
  /\ waiting' = waiting \union {k}
  /\ promised' = promised \union {k}
  /\ UNCHANGED passed

(* The time of an entry comes; another one of its target may still wait.    *)
Pass(k) ==
  /\ k \in waiting
  /\ waiting' \in {waiting, waiting \ {k}}
  /\ passed' = passed \union {k}
  /\ UNCHANGED promised

(* A target whose entry is due rings, or the try to ring it fails, which    *)
(* nobody is told.  The entry is crossed out right away or at the next      *)
(* save; who has another entry may ring again.                              *)
Ring(k) ==
  /\ k \in passed
  /\ passed' \in {passed, passed \ {k}}
  /\ promised' \in {promised, promised \ {k}}
  /\ Kept'
  /\ UNCHANGED waiting

(* A save crosses out due entries that nobody is owed.                      *)
CrossOut ==
  /\ passed' \in SUBSET passed
  /\ Kept'
  /\ UNCHANGED <<waiting, promised>>

Next ==
  \/ \E k \in Targets : Schedule(k) \/ Pass(k) \/ Ring(k)
  \/ CrossOut

Spec == Init /\ [][Next]_bvars
=============================================================================
