------------------------------- MODULE Project --------------------------------
(***************************************************************************)
(* A project's shared directory: the event log of EventLog beside the      *)
(* document needs/requirements.md, which tools/workspace.py's write_shared *)
(* puts in place through requirements.md.tmp and a rename under the        *)
(* document's own FileLock.  create_project builds the tree, writes the    *)
(* document and then appends project_created; write_shared replaces the    *)
(* document at any time.  read_shared takes no lock: it gets what the name *)
(* stands for at that moment.                                              *)
(***************************************************************************)
EXTENDS EventLog

VARIABLES
  doc, tmp,  (* what the two names stand for: nothing, a part or a whole   *)
             (* document                                                   *)
  docLock,   (* holder of requirements.md.lock                             *)
  at,        (* where each writer is in write_shared                       *)
  created    (* history: the project_created events                        *)

document == <<doc, tmp, docLock, at>>
pvars == <<vars, document, created>>

Roles == {"manager", "pm", "rd", "qa"}

(* Types of the variables this module adds.                                 *)
ProjectTypeOK ==
  /\ doc \in {"none", "part", "whole"}
  /\ tmp \in {"none", "part", "whole"}
  /\ docLock \in Writers \union {NoOne}
  /\ at \in [Writers -> {"no", "lock", "open", "fill", "rename"}]
  /\ created \in SUBSET Events

ProjectInit ==
  /\ Init
  /\ doc = "none" /\ tmp = "none"
  /\ docLock = NoOne
  /\ at = [w \in Writers |-> "no"]
  /\ created = {}

-----------------------------------------------------------------------------
(* check_write: needs/ belongs to the manager.                              *)
MayWrite(r) == r = "manager"

(* The tool's call.                                                         *)
WriteShared(w, r) ==
  /\ pc[w] = "idle" /\ at[w] = "no"
  /\ MayBegin
  /\ MayWrite(r)
  /\ at' = [at EXCEPT ![w] = "lock"]
  /\ UNCHANGED <<doc, tmp, docLock, created, vars>>

LockDoc(w) ==
  /\ at[w] = "lock"
  /\ docLock = NoOne
  /\ docLock' = w
  /\ at' = [at EXCEPT ![w] = "open"]
  /\ UNCHANGED <<doc, tmp, created, vars>>

(* write_text opens with "w", which empties the file, and then writes.      *)
Truncate(w) ==
  /\ at[w] = "open"
  /\ tmp' = "part"
  /\ at' = [at EXCEPT ![w] = "fill"]
  /\ UNCHANGED <<doc, docLock, created, vars>>

Fill(w) ==
  /\ at[w] = "fill"
  /\ tmp' = "whole"
  /\ at' = [at EXCEPT ![w] = "rename"]
  /\ UNCHANGED <<doc, docLock, created, vars>>

Rename(w) ==
  /\ at[w] = "rename"
  /\ doc' = tmp
  /\ tmp' = "none"
  /\ docLock' = NoOne
  /\ at' = [at EXCEPT ![w] = "no"]
  /\ UNCHANGED <<created, vars>>

-----------------------------------------------------------------------------
(* append_event, and send_to_human, which reports success also when this    *)
(* raises.                                                                  *)
Report(w, e) ==
  /\ at[w] = "no"
  /\ AppendEvent(w, e)
  /\ UNCHANGED <<document, created>>

Create(w, e) ==
  /\ at[w] = "no"
  /\ CreateOverlaps \/ \A v \in Writers : at[v] = "no"
  /\ CreateProject(w, e)
  /\ created' = created \union {e}
  /\ UNCHANGED document

(* When the tree stands, the document is next.                              *)
BuildTree(w) ==
  /\ FindLog(w) \/ InitEvents(w)
  /\ at' = IF pc'[w] = "lock" THEN [at EXCEPT ![w] = "lock"] ELSE at
  /\ UNCHANGED <<doc, tmp, docLock, created>>

(* append_event is called when write_shared has returned.                   *)
(* Mutant: whether or not it has.                                           *)
AnyTime(w) == TRUE
DocWritten(w) == at[w] = "no"

Number(w) ==
  /\ DocWritten(w)
  /\ NextSeq(w)
  /\ UNCHANGED <<document, created>>

Log(w) ==
  /\ WriteLine(w)
  /\ UNCHANGED <<document, created>>

(* What is on disk stays as it is, a tmp in the middle of a write included. *)
HostCrash ==
  /\ Crash
  /\ docLock' = NoOne
  /\ at' = [w \in Writers |-> "no"]
  /\ UNCHANGED <<doc, tmp, created>>

DocStep(w) == LockDoc(w) \/ Truncate(w) \/ Fill(w) \/ Rename(w)

ProjectNext ==
  \/ \E w \in Writers, e \in Events : Report(w, e) \/ Create(w, e)
  \/ \E w \in Writers, r \in Roles : WriteShared(w, r)
  \/ \E w \in Writers : BuildTree(w) \/ Number(w) \/ Log(w) \/ DocStep(w)
  \/ HostCrash

ProjectSpec == ProjectInit /\ [][ProjectNext]_pvars

-----------------------------------------------------------------------------
(* Whoever learns of the project from its log finds its requirements, and   *)
(* whoever reads them gets a whole document: across calls that write at the *)
(* same time, crashes between and inside the steps of create_project, and   *)
(* its repetition.                                                          *)
CreatedIsWritten ==
  /\ doc # "part"
  /\ (\E i \in DOMAIN log : Readable(i) /\ log[i].id \in created) =>
       doc = "whole"
=============================================================================
