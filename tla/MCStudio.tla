------------------------------ MODULE MCStudio ------------------------------
(***************************************************************************)
(* TLC instance of three parts of the studio: the record flow, the guards  *)
(* of the project, and the transport of the audio callback.  They share no *)
(* variable and no step here, so each behaviour lets one of them run while *)
(* the others rest in one initial state; interleaving them would add       *)
(* nothing but states.                                                     *)
(***************************************************************************)
EXTENDS RecordUi, ProjectGuard, TransportLoop

StudioVars == <<recVars, guardVars, transportVars>>

StudioInit == RecordInit /\ GuardInit /\ TransportInit

RecordRests == RecordInit /\ UNCHANGED recVars
GuardRests  == GuardInit /\ (\A p \in Paths : disk[p] = NoFile) /\ UNCHANGED guardVars
LoopRests   == TransportInit /\ ~t.mono /\ UNCHANGED transportVars

StudioNext ==
  \/ GuardRests /\ LoopRests /\ RecordNext
  \/ RecordRests /\ LoopRests /\ GuardNext
  \/ RecordRests /\ GuardRests /\ TransportNext

StudioSpec == StudioInit /\ [][StudioNext]_StudioVars /\ RecordFairness

\* The state of two parts has its type: the UI and the timers of the record
\* flow; the session, the saves and the files of the guards.
StudioTypeOK == RecordTypeOK /\ GuardTypeOK
=============================================================================
