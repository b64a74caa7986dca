------------------------------ MODULE Dispatch ------------------------------
(***************************************************************************)
(* What the dispatcher promises, whatever it does with tasks, timers and    *)
(* locks: the messages of a key leave its line first come first served,     *)
(* each at most once, and one turn runs at a time across all keys.          *)
(***************************************************************************)
EXTENDS Sequences

CONSTANTS
  Keys,       (* routing keys                                              *)
  Items       (* what can be put into a line                               *)

VARIABLES
  line,       (* per key, the accepted messages whose turn is to come      *)
  turns       (* the turn that runs: its key and its message               *)

dvars == <<line, turns>>

Init ==
  /\ line = [k \in Keys |-> <<>>]
  /\ turns = {}

(* A message is accepted.                                                   *)
Put(k, i) ==
  /\ line' = [line EXCEPT ![k] = Append(@, i)]
  /\ UNCHANGED turns

(* The first of a line needs no turn, or could not be prepared for one.     *)
Skip(k) ==
  /\ line[k] # <<>>
  /\ line' = [line EXCEPT ![k] = Tail(@)]
  /\ UNCHANGED turns

(* The first of a line gets its turn when no other turn runs.               *)
Begin(k) ==
  /\ turns = {}
  /\ line[k] # <<>>
  /\ turns' = {<<k, Head(line[k])>>}
  /\ line' = [line EXCEPT ![k] = Tail(@)]

(* The turn ends, well or not.                                              *)
End ==
  /\ turns # {}
  /\ turns' = {}
  /\ UNCHANGED line

(* The process dies: lines and turn are in memory only.                     *)
Die ==
  /\ turns' = {}
  /\ line' = [k \in Keys |-> <<>>]

Serve ==
  \/ \E k \in Keys, i \in Items : Put(k, i)
  \/ \E k \in Keys : Skip(k) \/ Begin(k)
  \/ End

Next == Serve \/ Die

Spec == Init /\ [][Next]_dvars

(* One that lives on.                                                       *)
LiveSpec == Init /\ [][Serve]_dvars
=============================================================================
