---------------------------- MODULE TakeLifecycle ----------------------------
(***************************************************************************)
(* What the recorder promises of a take, whatever threads and queues carry *)
(* it: takes run one at a time, each gets one verdict, its file holds its  *)
(* blocks in the order they were played and no longer changes once the     *)
(* verdict was reached with the file closed.                               *)
(*                                                                         *)
(* A declined take (no running stream would have it) and one whose         *)
(* finalization timed out are given up: their files may still grow.        *)
(***************************************************************************)
EXTENDS Naturals, Sequences

CONSTANTS
  Takes,  \* take ids
  Stamps  \* when a block can be captured; a set of naturals

VARIABLES
  phase,  \* [Takes -> Phases]
  file    \* [Takes -> Seq(Stamps)]  the stamps of the blocks in the file

Phases == {"new", "armed", "ending", "ok", "failed", "timeout", "declined"}

Init ==
  /\ phase = [t \in Takes |-> "new"]
  /\ file = [t \in Takes |-> <<>>]

\* The engine refuses a take while another is armed or ending.
Begin(t) ==
  /\ phase[t] = "new"
  /\ \A u \in Takes : phase[u] \notin {"armed", "ending"}
  /\ phase' = [phase EXCEPT ![t] = "armed"]
  /\ UNCHANGED file

\* A block lands in the file, later than everything already there.
Grow(t) ==
  /\ phase[t] \notin {"new", "ok", "failed"}
  /\ \E b \in Stamps :
       /\ \A i \in 1..Len(file[t]) : file[t][i] < b
       /\ file' = [file EXCEPT ![t] = Append(@, b)]
  /\ UNCHANGED phase

Decline(t) ==
  /\ phase[t] = "armed"
  /\ phase' = [phase EXCEPT ![t] = "declined"]
  /\ UNCHANGED file

End(t) ==
  /\ phase[t] = "armed"
  /\ phase' = [phase EXCEPT ![t] = "ending"]
  /\ UNCHANGED file

Report(t) ==
  /\ phase[t] = "ending"
  /\ \E verdict \in {"ok", "failed", "timeout"} :
       phase' = [phase EXCEPT ![t] = verdict]
  /\ UNCHANGED file

Next == \E t \in Takes : Begin(t) \/ Grow(t) \/ Decline(t) \/ End(t) \/ Report(t)

Spec == Init /\ [][Next]_<<phase, file>>
=============================================================================
