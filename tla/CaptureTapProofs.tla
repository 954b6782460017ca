-------------------------- MODULE CaptureTapProofs ---------------------------
(***************************************************************************)
(* Proofs about CaptureTap, for every number of takes, blocks and streams: *)
(* its types; that it loses no block, neither from a take's pool nor from  *)
(* what was captured, for which AccountingInv adds what the two need to be *)
(* inductive; and what becomes of the sinks that commands attach, for      *)
(* which they are counted (SinksInv).                                      *)
(***************************************************************************)
EXTENDS CaptureTap, TLAPS

-----------------------------------------------------------------------------
(* Sequences and function updates.                                         *)

\* An append stays in the type and adds one.
LEMMA AppendFacts ==
  ASSUME NEW S, NEW q \in Seq(S), NEW e \in S
  PROVE  /\ Append(q, e) \in Seq(S) /\ Len(Append(q, e)) = Len(q) + 1
         /\ Append(q, e) # <<>>
         /\ \A i \in 1..Len(q) : Append(q, e)[i] = q[i]
         /\ Append(q, e)[Len(q) + 1] = e
OBVIOUS

\* Taking the head off a sequence stays in the type and removes one.
LEMMA TailFacts ==
  ASSUME NEW S, NEW q \in Seq(S), q # <<>>
  PROVE  /\ Head(q) \in S /\ Head(q) = q[1]
         /\ Tail(q) \in Seq(S) /\ Len(Tail(q)) = Len(q) - 1
         /\ Len(q) \in Nat \ {0}
         /\ \A i \in 1..Len(Tail(q)) : Tail(q)[i] = q[i + 1]
OBVIOUS

\* The empty sequence is the one without elements.
LEMMA EmptyFacts ==
  ASSUME NEW S PROVE <<>> \in Seq(S) /\ Len(<<>>) = 0
OBVIOUS

\* A function updated with a value of its range keeps its type.
LEMMA UpdateFacts ==
  ASSUME NEW S, NEW T, NEW f \in [S -> T], NEW x, NEW e, x \in S => e \in T
  PROVE  /\ [f EXCEPT ![x] = e] \in [S -> T]
         /\ \A y \in S : [f EXCEPT ![x] = e][y] = IF y = x THEN e ELSE f[y]
OBVIOUS

-----------------------------------------------------------------------------
(* Type correctness.                                                       *)

\* The initial values have their types.
LEMMA TypeInit == Init => TypeOK
<1> SUFFICES ASSUME Init PROVE TypeOK
  OBVIOUS
<1>1. /\ cmds \in Seq(Takes \cup {NoTake}) /\ Len(cmds) <= CmdCapacity
      /\ trash \in Seq(Takes) /\ Len(trash) <= TrashCapacity
  BY CaptureTapAssumption DEF Init
<1>2. queue \in [Takes -> Seq(Nat)] /\ written \in [Takes -> Seq(Nat)]
  BY DEF Init
<1> QED
  BY <1>1, <1>2 DEF Init, TypeOK, TapTypeOK, CallbackTypeOK, WriterTypeOK, ControlTypeOK,
     CallbackSteps, WriterSteps, ControlSteps, Reports

\* Every step keeps every variable in its type, one case per action.
LEMMA TypeNext == TypeOK /\ [Next]_vars => TypeOK'
<1> SUFFICES ASSUME TypeOK, [Next]_vars PROVE TypeOK'
  OBVIOUS
<1>0. TapTypeOK /\ CallbackTypeOK /\ WriterTypeOK /\ ControlTypeOK
  BY DEF TypeOK
<1> USE CaptureTapAssumption, <1>0
<1> USE DEF CallbackSteps, WriterSteps, ControlSteps, Reports,
            tapVars, streamVars, cbVars, writerVars, ctlVars
<1>1. CASE BeginBlock
  <2>1. TapTypeOK'
    <3>1. CASE retiring # NoTake /\ Len(trash) < TrashCapacity
      BY <3>1, <1>1, AppendFacts DEF BeginBlock, TapTypeOK
    <3> QED
      BY <3>1, <1>1 DEF BeginBlock, TapTypeOK
  <2>2. CallbackTypeOK'
    BY <1>1 DEF BeginBlock, CallbackTypeOK
  <2>3. WriterTypeOK'
    BY <1>1 DEF BeginBlock, WriterTypeOK
  <2>4. ControlTypeOK'
    BY <1>1 DEF BeginBlock, ControlTypeOK
  <2> QED
    BY <2>1, <2>2, <2>3, <2>4 DEF TypeOK
<1>2. CASE ApplyCommand
  <2>1. TapTypeOK'
    <3>1. /\ Head(cmds) \in Takes \cup {NoTake}
          /\ Tail(cmds) \in Seq(Takes \cup {NoTake})
          /\ Len(Tail(cmds)) <= CmdCapacity
      BY <1>2, TailFacts DEF ApplyCommand, TapTypeOK
    <3>2. /\ trash' \in Seq(Takes) /\ Len(trash') <= TrashCapacity
          /\ retiring' \in Takes \cup {NoTake}
      <4>1. CASE active # NoTake /\ Len(trash) < TrashCapacity
        <5>1. trash' = Append(trash, active) /\ active \in Takes
          BY <4>1, <1>2 DEF ApplyCommand, Retire, TapTypeOK
        <5>2. trash' \in Seq(Takes) /\ Len(trash') = Len(trash) + 1
          BY <5>1, AppendFacts DEF TapTypeOK
        <5> QED
          BY <5>2, <4>1, <1>2 DEF ApplyCommand, Retire, TapTypeOK
      <4> QED
        BY <4>1, <1>2 DEF ApplyCommand, Retire, TapTypeOK
    <3> QED
      BY <3>1, <3>2, <1>2 DEF ApplyCommand, NextCommand, TapTypeOK
  <2>2. CallbackTypeOK'
    BY <1>2 DEF ApplyCommand, NextCommand, Retire, CallbackTypeOK
  <2>3. WriterTypeOK'
    BY <1>2 DEF ApplyCommand, NextCommand, Retire, WriterTypeOK
  <2>4. ControlTypeOK'
    BY <1>2 DEF ApplyCommand, NextCommand, Retire, ControlTypeOK
  <2> QED
    BY <2>1, <2>2, <2>3, <2>4 DEF TypeOK
<1>3. CASE CommandsDrained
  <2>1. TapTypeOK'
    BY <1>3 DEF CommandsDrained, TapTypeOK
  <2>2. CallbackTypeOK'
    BY <1>3 DEF CommandsDrained, CallbackTypeOK
  <2>3. WriterTypeOK'
    BY <1>3 DEF CommandsDrained, WriterTypeOK
  <2>4. ControlTypeOK'
    BY <1>3 DEF CommandsDrained, ControlTypeOK
  <2> QED
    BY <2>1, <2>2, <2>3, <2>4 DEF TypeOK
<1>4. CASE SkipBlock
  <2>1. TapTypeOK'
    BY <1>4 DEF SkipBlock, TapTypeOK
  <2>2. CallbackTypeOK'
    BY <1>4 DEF SkipBlock, CallbackTypeOK
  <2>3. WriterTypeOK'
    BY <1>4 DEF SkipBlock, WriterTypeOK
  <2>4. ControlTypeOK'
    BY <1>4 DEF SkipBlock, ControlTypeOK
  <2> QED
    BY <2>1, <2>2, <2>3, <2>4 DEF TypeOK
<1>27. CASE PassGate
  <2>1. TapTypeOK'
    BY <1>27 DEF PassGate, TapTypeOK
  <2>2. CallbackTypeOK'
    BY <1>27 DEF PassGate, CallbackTypeOK
  <2>3. WriterTypeOK'
    BY <1>27 DEF PassGate, WriterTypeOK
  <2>4. ControlTypeOK'
    BY <1>27 DEF PassGate, ControlTypeOK
  <2> QED
    BY <2>1, <2>2, <2>3, <2>4 DEF TypeOK
<1>5. CASE StampBlock
  <2>1. TapTypeOK'
    BY <1>5 DEF StampBlock, Capturing, FirstStamp, TapTypeOK
  <2>2. CallbackTypeOK'
    <3>1. /\ captured' \in [Takes -> Nat]
          /\ first' \in [Takes -> Nat]
      BY <1>5, UpdateFacts DEF StampBlock, FirstStamp, CallbackTypeOK
    <3> QED
      BY <3>1, <1>5 DEF StampBlock, CallbackTypeOK
  <2>3. WriterTypeOK'
    BY <1>5 DEF StampBlock, Capturing, FirstStamp, WriterTypeOK
  <2>4. ControlTypeOK'
    BY <1>5 DEF StampBlock, Capturing, FirstStamp, ControlTypeOK
  <2> QED
    BY <2>1, <2>2, <2>3, <2>4 DEF TypeOK
<1>6. CASE PoolDrop
  <2>1. TapTypeOK'
    BY <1>6 DEF PoolDrop, CountDrop, TapTypeOK
  <2>2. CallbackTypeOK'
    <3>1. dropped' \in [Takes -> Nat]
      BY <1>6, UpdateFacts DEF PoolDrop, CountDrop, CallbackTypeOK
    <3> QED
      BY <3>1, <1>6 DEF PoolDrop, CallbackTypeOK
  <2>3. WriterTypeOK'
    BY <1>6 DEF PoolDrop, CountDrop, WriterTypeOK
  <2>4. ControlTypeOK'
    BY <1>6 DEF PoolDrop, CountDrop, ControlTypeOK
  <2> QED
    BY <2>1, <2>2, <2>3, <2>4 DEF TypeOK
<1>7. CASE PopBlock
  <2>1. TapTypeOK'
    BY <1>7 DEF PopBlock, TapTypeOK
  <2>2. CallbackTypeOK'
    BY <1>7 DEF PopBlock, CallbackTypeOK
  <2>3. WriterTypeOK'
    <3>1. free' \in [Takes -> Nat]
      BY <1>7, UpdateFacts DEF PopBlock, WriterTypeOK
    <3> QED
      BY <3>1, <1>7 DEF PopBlock, WriterTypeOK
  <2>4. ControlTypeOK'
    BY <1>7 DEF PopBlock, ControlTypeOK
  <2> QED
    BY <2>1, <2>2, <2>3, <2>4 DEF TypeOK
<1>8. CASE PushBlock
  <2>1. TapTypeOK'
    BY <1>8 DEF PushBlock, CountDrop, Returned, Enqueued, QueueAccepts, TapTypeOK
  <2>2. CallbackTypeOK'
    <3>1. dropped' \in [Takes -> Nat]
      BY <1>8, UpdateFacts DEF PushBlock, CountDrop, CallbackTypeOK
    <3>2. cb' = "waiting" /\ UNCHANGED <<clock, first, captured>>
      BY <1>8 DEF PushBlock
    <3> QED
      BY <3>1, <3>2 DEF CallbackTypeOK
  <2>3. WriterTypeOK'
    <3>1. queue' \in [Takes -> Seq(Nat)]
      BY <1>8, UpdateFacts, AppendFacts
      DEF PushBlock, Enqueued, CallbackTypeOK, WriterTypeOK
    <3>2. free' \in [Takes -> Nat]
      BY <1>8, UpdateFacts DEF PushBlock, Returned, WriterTypeOK
    <3> QED
      BY <3>1, <3>2, <1>8 DEF PushBlock, WriterTypeOK
  <2>4. ControlTypeOK'
    BY <1>8 DEF PushBlock, CountDrop, Returned, Enqueued, QueueAccepts, ControlTypeOK
  <2> QED
    BY <2>1, <2>2, <2>3, <2>4 DEF TypeOK
<1>9. ASSUME NEW t \in Takes, ReceiveBlock(t) PROVE TypeOK'
  <2>1. TapTypeOK'
    BY <1>9 DEF ReceiveBlock, TapTypeOK
  <2>2. CallbackTypeOK'
    BY <1>9 DEF ReceiveBlock, CallbackTypeOK
  <2>3. WriterTypeOK'
    BY <1>9 DEF ReceiveBlock, WriterTypeOK
  <2>4. ControlTypeOK'
    BY <1>9 DEF ReceiveBlock, ControlTypeOK
  <2> QED
    BY <2>1, <2>2, <2>3, <2>4 DEF TypeOK
<1>10. ASSUME NEW t \in Takes, WriteBlock(t) PROVE TypeOK'
  <2>1. TapTypeOK'
    BY <1>10 DEF WriteBlock, Returned, TapTypeOK
  <2>2. CallbackTypeOK'
    BY <1>10 DEF WriteBlock, Returned, CallbackTypeOK
  <2>3. WriterTypeOK'
    <3>1. written' \in [Takes -> Seq(Nat)]
      BY <1>10, UpdateFacts, AppendFacts DEF WriteBlock, WriterTypeOK
    <3>2. free' \in [Takes -> Nat]
      BY <1>10, UpdateFacts DEF WriteBlock, Returned, WriterTypeOK
    <3>3. /\ writer' \in [Takes -> WriterSteps]
          /\ block' \in [Takes -> Nat]
          /\ writeError' \in [Takes -> BOOLEAN]
      BY <1>10 DEF WriteBlock, WriterTypeOK
    <3> QED
      BY <3>1, <3>2, <3>3, <1>10 DEF WriteBlock, WriterTypeOK
  <2>4. ControlTypeOK'
    BY <1>10 DEF WriteBlock, Returned, ControlTypeOK
  <2> QED
    BY <2>1, <2>2, <2>3, <2>4 DEF TypeOK
<1>11a. ASSUME NEW t \in Takes, WaitExpires(t) PROVE TypeOK'
  <2>1. TapTypeOK'
    BY <1>11a DEF WaitExpires, TapTypeOK
  <2>2. CallbackTypeOK'
    BY <1>11a DEF WaitExpires, CallbackTypeOK
  <2>3. WriterTypeOK'
    BY <1>11a DEF WaitExpires, WriterTypeOK
  <2>4. ControlTypeOK'
    BY <1>11a DEF WaitExpires, ControlTypeOK
  <2> QED
    BY <2>1, <2>2, <2>3, <2>4 DEF TypeOK
<1>11b. ASSUME NEW t \in Takes, CheckStop(t) PROVE TypeOK'
  <2>1. TapTypeOK'
    BY <1>11b DEF CheckStop, TapTypeOK
  <2>2. CallbackTypeOK'
    BY <1>11b DEF CheckStop, CallbackTypeOK
  <2>3. WriterTypeOK'
    BY <1>11b DEF CheckStop, WriterTypeOK
  <2>4. ControlTypeOK'
    BY <1>11b DEF CheckStop, ControlTypeOK
  <2> QED
    BY <2>1, <2>2, <2>3, <2>4 DEF TypeOK
<1>11. ASSUME NEW t \in Takes, LeaveLoop(t) PROVE TypeOK'
  <2>1. TapTypeOK'
    BY <1>11 DEF LeaveLoop, TapTypeOK
  <2>2. CallbackTypeOK'
    BY <1>11 DEF LeaveLoop, CallbackTypeOK
  <2>3. WriterTypeOK'
    BY <1>11 DEF LeaveLoop, WriterTypeOK
  <2>4. ControlTypeOK'
    BY <1>11 DEF LeaveLoop, ControlTypeOK
  <2> QED
    BY <2>1, <2>2, <2>3, <2>4 DEF TypeOK
<1>12. ASSUME NEW t \in Takes, FinalizeFile(t) PROVE TypeOK'
  <2>1. TapTypeOK'
    BY <1>12 DEF FinalizeFile, TapTypeOK
  <2>2. CallbackTypeOK'
    BY <1>12 DEF FinalizeFile, CallbackTypeOK
  <2>3. WriterTypeOK'
    <3>1. queue' \in [Takes -> Seq(Nat)]
      BY <1>12, UpdateFacts, EmptyFacts DEF FinalizeFile, WriterTypeOK
    <3>2. writeError' \in [Takes -> BOOLEAN]
      BY <1>12 DEF FinalizeFile, WriterTypeOK
    <3> QED
      BY <3>1, <3>2, <1>12 DEF FinalizeFile, WriterTypeOK
  <2>4. ControlTypeOK'
    BY <1>12 DEF FinalizeFile, ControlTypeOK
  <2> QED
    BY <2>1, <2>2, <2>3, <2>4 DEF TypeOK
<1>13. ASSUME NEW t \in Takes, BeginTake(t) PROVE TypeOK'
  <2>1. TapTypeOK'
    BY <1>13 DEF BeginTake, Drained, TapTypeOK
  <2>2. CallbackTypeOK'
    BY <1>13 DEF BeginTake, Drained, CallbackTypeOK
  <2>3. WriterTypeOK'
    BY <1>13 DEF BeginTake, Drained, WriterTypeOK
  <2>4. ControlTypeOK'
    BY <1>13 DEF BeginTake, Drained, ControlTypeOK
  <2> QED
    BY <2>1, <2>2, <2>3, <2>4 DEF TypeOK
<1>14. CASE InstallSink
  <2>1. TapTypeOK'
    <3>1. cmds' \in Seq(Takes \cup {NoTake}) /\ Len(cmds') <= CmdCapacity
      <4>1. CASE streamOpen /\ CommandFits
        <5>1. cmds' = Append(cmds, ctlTake) /\ ctlTake \in Takes
          BY <4>1, <1>14 DEF InstallSink, ControlTypeOK
        <5>2. /\ cmds' \in Seq(Takes \cup {NoTake})
              /\ Len(cmds') = Len(cmds) + 1
          BY <5>1, AppendFacts DEF TapTypeOK
        <5> QED
          BY <5>2, <4>1 DEF CommandFits, TapTypeOK
      <4> QED
        BY <4>1, <1>14 DEF InstallSink, TapTypeOK
    <3> QED
      BY <3>1, <1>14 DEF InstallSink, TapTypeOK
  <2>2. CallbackTypeOK'
    BY <1>14 DEF InstallSink, CommandFits, CallbackTypeOK
  <2>3. WriterTypeOK'
    BY <1>14 DEF InstallSink, CommandFits, WriterTypeOK
  <2>4. ControlTypeOK'
    BY <1>14 DEF InstallSink, CommandFits, ControlTypeOK
  <2> QED
    BY <2>1, <2>2, <2>3, <2>4 DEF TypeOK
<1>15. CASE Decline
  <2>1. TapTypeOK'
    <3>1. /\ <<>> \in Seq(Takes \cup {NoTake}) /\ <<>> \in Seq(Takes)
          /\ Len(<<>>) = 0
      BY EmptyFacts
    <3>2. /\ cmds' = <<>> /\ trash' = <<>> /\ active' = NoTake
          /\ retiring' = NoTake /\ streamOpen' = FALSE /\ streams' = streams
      BY <1>15 DEF Decline, CloseTap
    <3>3. 0 <= CmdCapacity /\ 0 <= TrashCapacity
      OBVIOUS
    <3>4. /\ cmds' \in Seq(Takes \cup {NoTake}) /\ Len(cmds') = 0
          /\ trash' \in Seq(Takes) /\ Len(trash') = 0
      BY <3>1, <3>2, Zenon
    <3> QED
      BY <3>2, <3>3, <3>4 DEF TapTypeOK
  <2>2. CallbackTypeOK'
    BY <1>15 DEF Decline, CloseTap, CallbackTypeOK
  <2>3. WriterTypeOK'
    BY <1>15 DEF Decline, CloseTap, WriterTypeOK
  <2>4. ControlTypeOK'
    BY <1>15 DEF Decline, CloseTap, ControlTypeOK
  <2> QED
    BY <2>1, <2>2, <2>3, <2>4 DEF TypeOK
<1>16. CASE ClearTap
  <2>1. TapTypeOK'
    BY <1>16 DEF ClearTap, CommandFits, TapTypeOK
  <2>2. CallbackTypeOK'
    BY <1>16 DEF ClearTap, CommandFits, CallbackTypeOK
  <2>3. WriterTypeOK'
    BY <1>16 DEF ClearTap, CommandFits, WriterTypeOK
  <2>4. ControlTypeOK'
    BY <1>16 DEF ClearTap, CommandFits, ControlTypeOK
  <2> QED
    BY <2>1, <2>2, <2>3, <2>4 DEF TypeOK
<1>17a. CASE ReadFirst
  <2>1. TapTypeOK'
    BY <1>17a DEF ReadFirst, TapTypeOK
  <2>2. CallbackTypeOK'
    BY <1>17a DEF ReadFirst, CallbackTypeOK
  <2>3. WriterTypeOK'
    BY <1>17a DEF ReadFirst, WriterTypeOK
  <2>4. ControlTypeOK'
    <3>1. ctlTake \in Takes => first[ctlTake] \in Nat
      BY DEF CallbackTypeOK
    <3> QED
      BY <3>1, <1>17a DEF ReadFirst, ControlTypeOK
  <2> QED
    BY <2>1, <2>2, <2>3, <2>4 DEF TypeOK
<1>17b. CASE ReadDropped
  <2>1. TapTypeOK'
    BY <1>17b DEF ReadDropped, TapTypeOK
  <2>2. CallbackTypeOK'
    BY <1>17b DEF ReadDropped, CallbackTypeOK
  <2>3. WriterTypeOK'
    BY <1>17b DEF ReadDropped, WriterTypeOK
  <2>4. ControlTypeOK'
    <3>1. ctlTake \in Takes => dropped[ctlTake] \in Nat
      BY DEF CallbackTypeOK
    <3> QED
      BY <3>1, <1>17b DEF ReadDropped, ControlTypeOK
  <2> QED
    BY <2>1, <2>2, <2>3, <2>4 DEF TypeOK
<1>17. CASE RaiseStopFlag
  <2>1. TapTypeOK'
    BY <1>17 DEF RaiseStopFlag, TapTypeOK
  <2>2. CallbackTypeOK'
    BY <1>17 DEF RaiseStopFlag, CallbackTypeOK
  <2>3. WriterTypeOK'
    BY <1>17 DEF RaiseStopFlag, WriterTypeOK
  <2>4. ControlTypeOK'
    BY <1>17 DEF RaiseStopFlag, ControlTypeOK
  <2> QED
    BY <2>1, <2>2, <2>3, <2>4 DEF TypeOK
<1>18. CASE CollectResults
  <2>1. TapTypeOK'
    BY <1>18 DEF CollectResults, Verdict, TapTypeOK
  <2>2. CallbackTypeOK'
    BY <1>18 DEF CollectResults, Verdict, CallbackTypeOK
  <2>3. WriterTypeOK'
    BY <1>18 DEF CollectResults, Verdict, WriterTypeOK
  <2>4. ControlTypeOK'
    BY <1>18 DEF CollectResults, Verdict, ControlTypeOK
  <2> QED
    BY <2>1, <2>2, <2>3, <2>4 DEF TypeOK
<1>19. CASE DrainTrash
  <2>1. TapTypeOK'
    BY <1>19 DEF DrainTrash, Drained, TapTypeOK
  <2>2. CallbackTypeOK'
    BY <1>19 DEF DrainTrash, Drained, CallbackTypeOK
  <2>3. WriterTypeOK'
    BY <1>19 DEF DrainTrash, Drained, WriterTypeOK
  <2>4. ControlTypeOK'
    BY <1>19 DEF DrainTrash, Drained, ControlTypeOK
  <2> QED
    BY <2>1, <2>2, <2>3, <2>4 DEF TypeOK
<1>20. CASE Play
  <2>1. TapTypeOK'
    BY <1>20 DEF Play, TapTypeOK
  <2>2. CallbackTypeOK'
    BY <1>20 DEF Play, CallbackTypeOK
  <2>3. WriterTypeOK'
    BY <1>20 DEF Play, WriterTypeOK
  <2>4. ControlTypeOK'
    BY <1>20 DEF Play, ControlTypeOK
  <2> QED
    BY <2>1, <2>2, <2>3, <2>4 DEF TypeOK
<1>21. CASE Pause
  <2>1. TapTypeOK'
    BY <1>21 DEF Pause, TapTypeOK
  <2>2. CallbackTypeOK'
    BY <1>21 DEF Pause, CallbackTypeOK
  <2>3. WriterTypeOK'
    BY <1>21 DEF Pause, WriterTypeOK
  <2>4. ControlTypeOK'
    BY <1>21 DEF Pause, ControlTypeOK
  <2> QED
    BY <2>1, <2>2, <2>3, <2>4 DEF TypeOK
<1>22. CASE StopTake
  <2>1. TapTypeOK'
    BY <1>22 DEF StopTake, TapTypeOK
  <2>2. CallbackTypeOK'
    BY <1>22 DEF StopTake, CallbackTypeOK
  <2>3. WriterTypeOK'
    BY <1>22 DEF StopTake, WriterTypeOK
  <2>4. ControlTypeOK'
    BY <1>22 DEF StopTake, ControlTypeOK
  <2> QED
    BY <2>1, <2>2, <2>3, <2>4 DEF TypeOK
<1>23. CASE FinalizeTimeout
  <2>1. TapTypeOK'
    BY <1>23 DEF FinalizeTimeout, TapTypeOK
  <2>2. CallbackTypeOK'
    BY <1>23 DEF FinalizeTimeout, CallbackTypeOK
  <2>3. WriterTypeOK'
    BY <1>23 DEF FinalizeTimeout, WriterTypeOK
  <2>4. ControlTypeOK'
    BY <1>23 DEF FinalizeTimeout, ControlTypeOK
  <2> QED
    BY <2>1, <2>2, <2>3, <2>4 DEF TypeOK
<1>24. CASE CloseStream
  <2>1. TapTypeOK'
    <3>1. /\ <<>> \in Seq(Takes \cup {NoTake}) /\ <<>> \in Seq(Takes)
          /\ Len(<<>>) = 0
      BY EmptyFacts
    <3>2. /\ cmds' = <<>> /\ trash' = <<>> /\ active' = NoTake
          /\ retiring' = NoTake /\ streamOpen' = FALSE /\ streams' = streams
      BY <1>24 DEF CloseStream, CloseTap
    <3>3. 0 <= CmdCapacity /\ 0 <= TrashCapacity
      OBVIOUS
    <3>4. /\ cmds' \in Seq(Takes \cup {NoTake}) /\ Len(cmds') = 0
          /\ trash' \in Seq(Takes) /\ Len(trash') = 0
      BY <3>1, <3>2, Zenon
    <3> QED
      BY <3>2, <3>3, <3>4 DEF TapTypeOK
  <2>2. CallbackTypeOK'
    BY <1>24 DEF CloseStream, CloseTap, CallbackTypeOK
  <2>3. WriterTypeOK'
    BY <1>24 DEF CloseStream, CloseTap, WriterTypeOK
  <2>4. ControlTypeOK'
    BY <1>24 DEF CloseStream, CloseTap, ControlTypeOK
  <2> QED
    BY <2>1, <2>2, <2>3, <2>4 DEF TypeOK
<1>25. CASE OpenStream
  <2>1. TapTypeOK'
    BY <1>25 DEF OpenStream, TapTypeOK
  <2>2. CallbackTypeOK'
    BY <1>25 DEF OpenStream, CallbackTypeOK
  <2>3. WriterTypeOK'
    BY <1>25 DEF OpenStream, WriterTypeOK
  <2>4. ControlTypeOK'
    BY <1>25 DEF OpenStream, ControlTypeOK
  <2> QED
    BY <2>1, <2>2, <2>3, <2>4 DEF TypeOK
<1>26. CASE UNCHANGED vars
  <2>1. TapTypeOK'
    BY <1>26 DEF vars, TapTypeOK
  <2>2. CallbackTypeOK'
    BY <1>26 DEF vars, CallbackTypeOK
  <2>3. WriterTypeOK'
    BY <1>26 DEF vars, WriterTypeOK
  <2>4. ControlTypeOK'
    BY <1>26 DEF vars, ControlTypeOK
  <2> QED
    BY <2>1, <2>2, <2>3, <2>4 DEF TypeOK
<1> QED
  BY <1>1, <1>2, <1>3, <1>4, <1>5, <1>6, <1>7, <1>8, <1>9, <1>10,
     <1>11a, <1>11b, <1>11, <1>12, <1>13, <1>14, <1>15, <1>16, <1>17a, <1>17b, <1>17, <1>18, <1>19,
     <1>20, <1>21, <1>22, <1>23, <1>24, <1>25, <1>26, <1>27
  DEF Next, CallbackStep, WriterStep, ControlStep, DeclineTake, DeclineTimeout

\* The channels stay within their capacities and every variable in its type,
\* whatever the capacities and the number of takes.
THEOREM TypeCorrect == Spec => []TypeOK
<1> QED
  BY TypeInit, TypeNext, PTL DEF Spec

-----------------------------------------------------------------------------
(* Sinks in the tap's channels.                                            *)

\* What an append adds to a channel is the one sink appended.
LEMMA HeldAppend ==
  ASSUME NEW S, NEW q \in Seq(S), NEW e \in S, NEW t
  PROVE  Held(t, Append(q, e)) => Held(t, q) \/ t = e
<1> SUFFICES ASSUME NEW i \in 1..Len(Append(q, e)), Append(q, e)[i] = t
             PROVE  Held(t, q) \/ t = e
  BY DEF Held
<1>1. i \in 1..Len(q) \/ i = Len(q) + 1
  OBVIOUS
<1> QED
  BY <1>1 DEF Held

\* Taking the head off a channel adds no sink to it.
LEMMA HeldTail ==
  ASSUME NEW S, NEW q \in Seq(S), q # <<>>, NEW t
  PROVE  /\ Held(t, Tail(q)) => Held(t, q)
         /\ Held(Head(q), q)
<1>1. Len(q) \in Nat \ {0} /\ Head(q) = q[1]
  BY TailFacts
<1>2. ASSUME NEW i \in 1..Len(Tail(q)), Tail(q)[i] = t PROVE Held(t, q)
  <2>1. i + 1 \in 1..Len(q) /\ q[i + 1] = t
    BY <1>2, <1>1, TailFacts
  <2> QED
    BY <2>1 DEF Held
<1> QED
  BY <1>1, <1>2 DEF Held

\* An empty channel holds no sink.
LEMMA HeldEmpty == \A t : ~Held(t, <<>>)
BY EmptyFacts DEF Held

-----------------------------------------------------------------------------
(* A callback at work on a block has a sink.                               *)

\* A callback at work on a block keeps its sink until the block is dealt with:
\* commands are applied, and the stream closed, only between blocks.
LEMMA BlockHasSinkNext ==
  BlockHasSink /\ [Next]_vars => BlockHasSink'
<1> SUFFICES ASSUME BlockHasSink, [Next]_vars PROVE BlockHasSink'
  OBVIOUS
<1> USE DEF BlockHasSink, tapVars, cbVars
<1>1. CASE BeginBlock
  BY <1>1 DEF BeginBlock
<1>2. CASE ApplyCommand
  BY <1>2 DEF ApplyCommand, NextCommand, Retire
<1>3. CASE CommandsDrained
  BY <1>3 DEF CommandsDrained
<1>4. CASE SkipBlock
  BY <1>4 DEF SkipBlock
<1>27. CASE PassGate
  BY <1>27 DEF PassGate, Capturing
<1>5. CASE StampBlock
  BY <1>5 DEF StampBlock
<1>6. CASE PoolDrop
  BY <1>6 DEF PoolDrop, CountDrop
<1>7. CASE PopBlock
  BY <1>7 DEF PopBlock
<1>8. CASE PushBlock
  BY <1>8 DEF PushBlock, CountDrop, Returned, Enqueued, QueueAccepts
<1>9. ASSUME NEW u \in Takes, ReceiveBlock(u) PROVE BlockHasSink'
  BY <1>9 DEF ReceiveBlock
<1>10. ASSUME NEW u \in Takes, WriteBlock(u) PROVE BlockHasSink'
  BY <1>10 DEF WriteBlock, Returned
<1>11a. ASSUME NEW u \in Takes, WaitExpires(u) PROVE BlockHasSink'
  BY <1>11a DEF WaitExpires
<1>11b. ASSUME NEW u \in Takes, CheckStop(u) PROVE BlockHasSink'
  BY <1>11b DEF CheckStop
<1>11. ASSUME NEW u \in Takes, LeaveLoop(u) PROVE BlockHasSink'
  BY <1>11 DEF LeaveLoop
<1>12. ASSUME NEW u \in Takes, FinalizeFile(u) PROVE BlockHasSink'
  BY <1>12 DEF FinalizeFile
<1>13. ASSUME NEW u \in Takes, BeginTake(u) PROVE BlockHasSink'
  BY <1>13 DEF BeginTake, Drained
<1>14. CASE InstallSink
  BY <1>14 DEF InstallSink, CommandFits
<1>15. CASE Decline
  BY <1>15 DEF Decline, CloseTap
<1>16. CASE ClearTap
  BY <1>16 DEF ClearTap, CommandFits
<1>17a. CASE ReadFirst
  BY <1>17a DEF ReadFirst
<1>17b. CASE ReadDropped
  BY <1>17b DEF ReadDropped
<1>17. CASE RaiseStopFlag
  BY <1>17 DEF RaiseStopFlag
<1>18. CASE CollectResults
  BY <1>18 DEF CollectResults, Verdict
<1>19. CASE DrainTrash
  BY <1>19 DEF DrainTrash, Drained
<1>20. CASE Play
  BY <1>20 DEF Play
<1>21. CASE Pause
  BY <1>21 DEF Pause
<1>22. CASE StopTake
  BY <1>22 DEF StopTake
<1>23. CASE FinalizeTimeout
  BY <1>23 DEF FinalizeTimeout
<1>24. CASE CloseStream
  BY <1>24 DEF CloseStream, CloseTap
<1>25. CASE OpenStream
  BY <1>25 DEF OpenStream
<1>26. CASE UNCHANGED vars
  BY <1>26 DEF vars
<1> QED
  BY <1>1, <1>2, <1>3, <1>4, <1>5, <1>6, <1>7, <1>8, <1>9, <1>10,
     <1>11a, <1>11b, <1>11, <1>12, <1>13, <1>14, <1>15, <1>16, <1>17a, <1>17b, <1>17, <1>18, <1>19,
     <1>20, <1>21, <1>22, <1>23, <1>24, <1>25, <1>26, <1>27
  DEF Next, CallbackStep, WriterStep, ControlStep, DeclineTake, DeclineTimeout

-----------------------------------------------------------------------------
(* A take that was not begun is owned by nobody.                           *)

\* Only BeginTake makes a writer, and nothing unmakes one.
LEMMA WriterMoves ==
  ASSUME TypeOK, [Next]_vars, NEW t \in Takes, (writer[t] = "none")'
  PROVE  writer[t] = "none"
<1>0. writer \in [Takes -> WriterSteps]
  BY DEF TypeOK, WriterTypeOK
<1>1. ASSUME NEW u \in Takes, WriterStep(u) \/ BeginTake(u)
      PROVE  writer[t] = "none"
  BY <1>0, <1>1
  DEF WriterStep, ReceiveBlock, WriteBlock, WaitExpires, CheckStop, LeaveLoop, FinalizeFile, BeginTake
<1>2. CASE BeginBlock \/ CallbackStep
  BY <1>2
  DEF BeginBlock, CallbackStep, ApplyCommand, CommandsDrained, SkipBlock,
      PassGate, StampBlock, PoolDrop, PopBlock, PushBlock, writerVars
<1>3. CASE ControlStep \/ FinalizeTimeout \/ DeclineTimeout
  BY <1>3
  DEF ControlStep, InstallSink, DeclineTake, DeclineTimeout, Decline, ClearTap,
      ReadFirst, ReadDropped, RaiseStopFlag, CollectResults, FinalizeTimeout, DrainTrash, writerVars
<1>4. CASE Play \/ Pause \/ StopTake \/ CloseStream \/ OpenStream
  BY <1>4 DEF Play, Pause, StopTake, CloseStream, OpenStream, writerVars
<1>5. CASE UNCHANGED vars
  BY <1>5 DEF vars, writerVars
<1> QED
  BY <1>1, <1>2, <1>3, <1>4, <1>5 DEF Next

\* A take that was not begun gets its sink nowhere: only BeginTake makes one.
LEMMA UnownedNext ==
  TypeOK /\ UnbegunUnowned /\ [Next]_vars => UnbegunUnowned'
<1> SUFFICES ASSUME TypeOK, UnbegunUnowned, [Next]_vars,
                    NEW t \in Takes, (writer[t] = "none")'
             PROVE  Unowned(t)'
  BY DEF UnbegunUnowned
<1>a. writer[t] = "none" /\ Unowned(t)
  BY WriterMoves DEF UnbegunUnowned
<1> USE CaptureTapAssumption, <1>a
<1>0. /\ TapTypeOK /\ ControlTypeOK /\ t # NoTake
      /\ writer \in [Takes -> WriterSteps]
  BY DEF TypeOK, WriterTypeOK
<1> USE DEF Unowned, tapVars, writerVars, ctlVars
<1>1. CASE BeginBlock
  <2>1. ~Held(t, trash')
    <3>1. CASE retiring # NoTake /\ Len(trash) < TrashCapacity
      <4>1. trash' = Append(trash, retiring) /\ retiring \in Takes
        BY <3>1, <1>1, <1>0 DEF BeginBlock, TapTypeOK
      <4> QED
        BY <4>1, <1>0, HeldAppend DEF TapTypeOK
    <3> QED
      BY <3>1, <1>1 DEF BeginBlock
  <2> QED
    BY <2>1, <1>1 DEF BeginBlock
<1>2. CASE ApplyCommand
  <2>1. ~Held(t, cmds') /\ active' # t
    BY <1>2, <1>0, HeldTail DEF ApplyCommand, NextCommand, TapTypeOK
  <2>2. ~Held(t, trash') /\ retiring' # t
    <3>1. CASE active # NoTake /\ Len(trash) < TrashCapacity
      <4>1. trash' = Append(trash, active) /\ active \in Takes
        BY <3>1, <1>2, <1>0 DEF ApplyCommand, Retire, TapTypeOK
      <4> QED
        BY <4>1, <3>1, <1>2, <1>0, HeldAppend DEF ApplyCommand, Retire, TapTypeOK
    <3> QED
      BY <3>1, <1>2 DEF ApplyCommand, Retire
  <2> QED
    BY <2>1, <2>2, <1>2 DEF ApplyCommand
<1>3. CASE CommandsDrained
  BY <1>3 DEF CommandsDrained
<1>4. CASE SkipBlock
  BY <1>4 DEF SkipBlock
<1>27. CASE PassGate
  BY <1>27 DEF PassGate
<1>5. CASE StampBlock
  BY <1>5 DEF StampBlock
<1>6. CASE PoolDrop
  BY <1>6 DEF PoolDrop, CountDrop
<1>7. CASE PopBlock
  BY <1>7 DEF PopBlock
<1>8. CASE PushBlock
  BY <1>8 DEF PushBlock, CountDrop, Returned, Enqueued, QueueAccepts
<1>9. ASSUME NEW u \in Takes, ReceiveBlock(u) PROVE Unowned(t)'
  BY <1>9 DEF ReceiveBlock
<1>10. ASSUME NEW u \in Takes, WriteBlock(u) PROVE Unowned(t)'
  BY <1>10 DEF WriteBlock, Returned
<1>11a. ASSUME NEW u \in Takes, WaitExpires(u) PROVE Unowned(t)'
  BY <1>11a DEF WaitExpires
<1>11b. ASSUME NEW u \in Takes, CheckStop(u) PROVE Unowned(t)'
  BY <1>11b DEF CheckStop
<1>11. ASSUME NEW u \in Takes, LeaveLoop(u) PROVE Unowned(t)'
  BY <1>11 DEF LeaveLoop
<1>12. ASSUME NEW u \in Takes, FinalizeFile(u) PROVE Unowned(t)'
  BY <1>12 DEF FinalizeFile
<1>13. ASSUME NEW u \in Takes, BeginTake(u) PROVE Unowned(t)'
  <2>1. u # t
    BY <1>13, <1>0 DEF BeginTake
  <2>2. ~Held(t, trash')
    BY <1>13, HeldEmpty DEF BeginTake, Drained
  <2> QED
    BY <2>1, <2>2, <1>13 DEF BeginTake
<1>14. CASE InstallSink
  <2>1. ~Held(t, cmds')
    <3>1. CASE streamOpen /\ CommandFits
      <4>1. cmds' = Append(cmds, ctlTake) /\ ctlTake \in Takes
        BY <3>1, <1>14, <1>0 DEF InstallSink, ControlTypeOK
      <4> QED
        BY <4>1, <1>0, HeldAppend DEF TapTypeOK
    <3> QED
      BY <3>1, <1>14 DEF InstallSink
  <2> QED
    BY <2>1, <1>14, <1>0 DEF InstallSink
<1>15. CASE Decline
  <2>1. ~Held(t, cmds') /\ ~Held(t, trash')
    BY <1>15, HeldEmpty DEF Decline, CloseTap
  <2> QED
    BY <2>1, <1>15, <1>0 DEF Decline, CloseTap
<1>16. CASE ClearTap
  <2>1. ~Held(t, cmds')
    BY <1>16, <1>0, HeldAppend DEF ClearTap, TapTypeOK
  <2> QED
    BY <2>1, <1>16 DEF ClearTap
<1>17a. CASE ReadFirst
  BY <1>17a DEF ReadFirst
<1>17b. CASE ReadDropped
  BY <1>17b DEF ReadDropped
<1>17. CASE RaiseStopFlag
  BY <1>17 DEF RaiseStopFlag
<1>18. CASE CollectResults
  BY <1>18 DEF CollectResults, Verdict
<1>19. CASE DrainTrash
  <2>1. ~Held(t, trash')
    BY <1>19, HeldEmpty DEF DrainTrash, Drained
  <2> QED
    BY <2>1, <1>19, <1>0 DEF DrainTrash
<1>20. CASE Play
  BY <1>20 DEF Play
<1>21. CASE Pause
  BY <1>21 DEF Pause
<1>22. CASE StopTake
  BY <1>22 DEF StopTake
<1>23. CASE FinalizeTimeout
  BY <1>23 DEF FinalizeTimeout
<1>24. CASE CloseStream
  <2>1. ~Held(t, cmds') /\ ~Held(t, trash')
    BY <1>24, HeldEmpty DEF CloseStream, CloseTap
  <2> QED
    BY <2>1, <1>24, <1>0 DEF CloseStream, CloseTap
<1>25. CASE OpenStream
  BY <1>25 DEF OpenStream
<1>26. CASE UNCHANGED vars
  BY <1>26, <1>0 DEF vars, UnbegunUnowned
<1> QED
  BY <1>1, <1>2, <1>3, <1>4, <1>5, <1>6, <1>7, <1>8, <1>9, <1>10,
     <1>11a, <1>11b, <1>11, <1>12, <1>13, <1>14, <1>15, <1>16, <1>17a, <1>17b, <1>17, <1>18, <1>19,
     <1>20, <1>21, <1>22, <1>23, <1>24, <1>25, <1>26, <1>27
  DEF Next, CallbackStep, WriterStep, ControlStep, DeclineTake, DeclineTimeout

-----------------------------------------------------------------------------
(* A take that was not begun has no blocks.                                *)

\* A take that was not begun captures and loses nothing, as it has no sink.
LEMMA PristineNext ==
  TypeOK /\ BlockHasSink /\ UnbegunUnowned /\ UnbegunPristine /\ [Next]_vars => UnbegunPristine'
<1> SUFFICES ASSUME TypeOK, BlockHasSink, UnbegunUnowned, UnbegunPristine,
                    [Next]_vars,
                    NEW t \in Takes, (writer[t] = "none")'
             PROVE  Pristine(t)'
  BY DEF UnbegunPristine
<1>a. writer[t] = "none" /\ Pristine(t) /\ t # active
  BY WriterMoves DEF UnbegunPristine, UnbegunUnowned, Unowned
<1>b. CallbackTypeOK /\ WriterTypeOK
  BY DEF TypeOK
<1> USE <1>a, <1>b DEF Pristine, CallbackTypeOK, WriterTypeOK,
                       tapVars, cbVars, writerVars, ctlVars
<1>1. CASE BeginBlock
  BY <1>1 DEF BeginBlock
<1>2. CASE ApplyCommand
  BY <1>2 DEF ApplyCommand, NextCommand, Retire
<1>3. CASE CommandsDrained
  BY <1>3 DEF CommandsDrained
<1>4. CASE SkipBlock
  BY <1>4 DEF SkipBlock
<1>27. CASE PassGate
  BY <1>27 DEF PassGate
<1>5. CASE StampBlock
  BY <1>5 DEF StampBlock
<1>6. CASE PoolDrop
  BY <1>6 DEF PoolDrop, CountDrop
<1>7. CASE PopBlock
  BY <1>7 DEF PopBlock
<1>8. CASE PushBlock
  BY <1>8 DEF PushBlock, CountDrop, Returned, Enqueued, QueueAccepts
<1>9. ASSUME NEW u \in Takes, ReceiveBlock(u) PROVE Pristine(t)'
  BY <1>9 DEF ReceiveBlock
<1>10. ASSUME NEW u \in Takes, WriteBlock(u) PROVE Pristine(t)'
  BY <1>10 DEF WriteBlock, Returned
<1>11a. ASSUME NEW u \in Takes, WaitExpires(u) PROVE Pristine(t)'
  BY <1>11a DEF WaitExpires
<1>11b. ASSUME NEW u \in Takes, CheckStop(u) PROVE Pristine(t)'
  BY <1>11b DEF CheckStop
<1>11. ASSUME NEW u \in Takes, LeaveLoop(u) PROVE Pristine(t)'
  BY <1>11 DEF LeaveLoop
<1>12. ASSUME NEW u \in Takes, FinalizeFile(u) PROVE Pristine(t)'
  BY <1>12 DEF FinalizeFile
<1>13. ASSUME NEW u \in Takes, BeginTake(u) PROVE Pristine(t)'
  BY <1>13 DEF BeginTake, Drained
<1>14. CASE InstallSink
  BY <1>14 DEF InstallSink, CommandFits
<1>15. CASE Decline
  BY <1>15 DEF Decline, CloseTap
<1>16. CASE ClearTap
  BY <1>16 DEF ClearTap, CommandFits
<1>17a. CASE ReadFirst
  BY <1>17a DEF ReadFirst
<1>17b. CASE ReadDropped
  BY <1>17b DEF ReadDropped
<1>17. CASE RaiseStopFlag
  BY <1>17 DEF RaiseStopFlag
<1>18. CASE CollectResults
  BY <1>18 DEF CollectResults, Verdict
<1>19. CASE DrainTrash
  BY <1>19 DEF DrainTrash, Drained
<1>20. CASE Play
  BY <1>20 DEF Play
<1>21. CASE Pause
  BY <1>21 DEF Pause
<1>22. CASE StopTake
  BY <1>22 DEF StopTake
<1>23. CASE FinalizeTimeout
  BY <1>23 DEF FinalizeTimeout
<1>24. CASE CloseStream
  BY <1>24 DEF CloseStream, CloseTap
<1>25. CASE OpenStream
  BY <1>25 DEF OpenStream
<1>26. CASE UNCHANGED vars
  BY <1>26 DEF vars
<1> QED
  BY <1>1, <1>2, <1>3, <1>4, <1>5, <1>6, <1>7, <1>8, <1>9, <1>10,
     <1>11a, <1>11b, <1>11, <1>12, <1>13, <1>14, <1>15, <1>16, <1>17a, <1>17b, <1>17, <1>18, <1>19,
     <1>20, <1>21, <1>22, <1>23, <1>24, <1>25, <1>26, <1>27
  DEF Next, CallbackStep, WriterStep, ControlStep, DeclineTake, DeclineTimeout

-----------------------------------------------------------------------------
(* The pool.                                                               *)

\* Every step moves a block of a running take within the pool's balance.
LEMMA PoolNext ==
  TypeOK /\ BlockHasSink /\ UnbegunUnowned /\ UnbegunPristine
    /\ PoolConserved /\ [Next]_vars => PoolConserved'
<1> SUFFICES ASSUME TypeOK, BlockHasSink, UnbegunUnowned, UnbegunPristine,
                    PoolConserved, [Next]_vars,
                    NEW t \in Takes, Running(t)'
             PROVE  PoolBalanced(t)'
  BY DEF PoolConserved
<1>a. /\ Running(t) => PoolBalanced(t)
      /\ writer[t] = "none" => Pristine(t) /\ t # active
  BY DEF PoolConserved, UnbegunPristine, UnbegunUnowned, Unowned
<1>b. TapTypeOK /\ CallbackTypeOK /\ WriterTypeOK
  BY DEF TypeOK
<1> USE CaptureTapAssumption, <1>a, <1>b
<1> USE DEF Running, PoolBalanced, InCallback, InWriter,
            CallbackTypeOK, WriterTypeOK, WriterSteps,
            tapVars, cbVars, writerVars, ctlVars
<1>1. CASE BeginBlock
  BY <1>1 DEF BeginBlock
<1>2. CASE ApplyCommand
  BY <1>2 DEF ApplyCommand, NextCommand, Retire
<1>3. CASE CommandsDrained
  BY <1>3 DEF CommandsDrained
<1>4. CASE SkipBlock
  BY <1>4 DEF SkipBlock
<1>27. CASE PassGate
  BY <1>27 DEF PassGate
<1>5. CASE StampBlock
  BY <1>5 DEF StampBlock
<1>6. CASE PoolDrop
  BY <1>6 DEF PoolDrop, CountDrop
<1>7. CASE PopBlock
  BY <1>7 DEF PopBlock
<1>8. CASE PushBlock
  <2>0. Running(t) /\ PoolBalanced(t) /\ free[t] \in Nat /\ Len(queue[t]) \in Nat
    BY <1>8 DEF PushBlock
  <2>1. CASE active = t /\ QueueAccepts(t)
    <3>1. queue'[t] = Append(queue[t], clock) /\ free' = free
      BY <2>1, <1>8 DEF PushBlock, Enqueued
    <3>2. Len(queue'[t]) = Len(queue[t]) + 1
      BY <3>1, AppendFacts
    <3> QED
      BY <2>0, <3>1, <3>2, <2>1, <1>8 DEF PushBlock
  <2>2. CASE active = t /\ ~QueueAccepts(t)
    <3>1. free[t] < PoolBlocks
      BY <2>0, <2>2, <1>8 DEF PushBlock
    <3>2. free'[t] = free[t] + 1 /\ queue' = queue
      BY <3>1, <2>2, <1>8 DEF PushBlock, Returned
    <3> QED
      BY <2>0, <3>2, <2>2, <1>8 DEF PushBlock
  <2>3. CASE active # t
    <3>1. free'[t] = free[t] /\ queue'[t] = queue[t]
      BY <2>3, <1>8 DEF PushBlock
    <3> QED
      BY <2>0, <3>1, <2>3, <1>8 DEF PushBlock
  <2> QED
    BY <2>1, <2>2, <2>3
<1>9. ASSUME NEW u \in Takes, ReceiveBlock(u) PROVE PoolBalanced(t)'
  <2>1. CASE u = t
    <3>1. /\ Len(queue'[t]) = Len(queue[t]) - 1 /\ Len(queue[t]) \in Nat \ {0}
          /\ writer[t] = "receiving" /\ writer'[t] = "writing"
      BY <2>1, <1>9, TailFacts DEF ReceiveBlock
    <3>2. free' = free /\ active' = active /\ cb' = cb /\ free[t] \in Nat
      BY <1>9 DEF ReceiveBlock
    <3>3. /\ InWriter(t) = 0 /\ InWriter(t)' = 1
          /\ InCallback(t)' = InCallback(t) /\ InCallback(t) \in Nat
      BY <3>1, <3>2 DEF InWriter, InCallback
    <3>4. PoolBalanced(t)
      BY <3>1
    <3> HIDE DEF InWriter, InCallback
    <3> QED
      BY <3>1, <3>2, <3>3, <3>4
  <2>2. CASE u # t
    BY <2>2, <1>9 DEF ReceiveBlock
  <2> QED
    BY <2>1, <2>2
<1>10. ASSUME NEW u \in Takes, WriteBlock(u) PROVE PoolBalanced(t)'
  <2>1. CASE u = t
    <3>1. free[t] \in Nat /\ Len(queue[t]) \in Nat /\ free[t] < PoolBlocks
      BY <2>1, <1>10 DEF WriteBlock
    <3>2. free'[t] = free[t] + 1 /\ writer'[t] = "receiving"
      BY <3>1, <2>1, <1>10 DEF WriteBlock, Returned
    <3> QED
      BY <3>1, <3>2, <2>1, <1>10 DEF WriteBlock
  <2>2. CASE u # t
    BY <2>2, <1>10 DEF WriteBlock
  <2> QED
    BY <2>1, <2>2
<1>11a. ASSUME NEW u \in Takes, WaitExpires(u) PROVE PoolBalanced(t)'
  BY <1>11a DEF WaitExpires
<1>11b. ASSUME NEW u \in Takes, CheckStop(u) PROVE PoolBalanced(t)'
  BY <1>11b DEF CheckStop
<1>11. ASSUME NEW u \in Takes, LeaveLoop(u) PROVE PoolBalanced(t)'
  BY <1>11 DEF LeaveLoop
<1>12. ASSUME NEW u \in Takes, FinalizeFile(u) PROVE PoolBalanced(t)'
  BY <1>12 DEF FinalizeFile
<1>13. ASSUME NEW u \in Takes, BeginTake(u) PROVE PoolBalanced(t)'
  <2>1. CASE u = t
    <3>1. free'[t] = PoolBlocks /\ writer'[t] = "receiving"
      BY <2>1, <1>13 DEF BeginTake
    <3>2. Len(queue'[t]) = 0 /\ active' # t
      BY <2>1, <1>13, EmptyFacts DEF BeginTake, Pristine
    <3> QED
      BY <3>1, <3>2
  <2>2. CASE u # t
    BY <2>2, <1>13 DEF BeginTake
  <2> QED
    BY <2>1, <2>2
<1>14. CASE InstallSink
  BY <1>14 DEF InstallSink, CommandFits
<1>15. CASE Decline
  BY <1>15 DEF Decline, CloseTap
<1>16. CASE ClearTap
  BY <1>16 DEF ClearTap, CommandFits
<1>17a. CASE ReadFirst
  BY <1>17a DEF ReadFirst
<1>17b. CASE ReadDropped
  BY <1>17b DEF ReadDropped
<1>17. CASE RaiseStopFlag
  BY <1>17 DEF RaiseStopFlag
<1>18. CASE CollectResults
  BY <1>18 DEF CollectResults, Verdict
<1>19. CASE DrainTrash
  BY <1>19 DEF DrainTrash, Drained
<1>20. CASE Play
  BY <1>20 DEF Play
<1>21. CASE Pause
  BY <1>21 DEF Pause
<1>22. CASE StopTake
  BY <1>22 DEF StopTake
<1>23. CASE FinalizeTimeout
  BY <1>23 DEF FinalizeTimeout
<1>24. CASE CloseStream
  BY <1>24 DEF CloseStream, CloseTap
<1>25. CASE OpenStream
  BY <1>25 DEF OpenStream
<1>26. CASE UNCHANGED vars
  BY <1>26 DEF vars
<1> QED
  BY <1>1, <1>2, <1>3, <1>4, <1>5, <1>6, <1>7, <1>8, <1>9, <1>10,
     <1>11a, <1>11b, <1>11, <1>12, <1>13, <1>14, <1>15, <1>16, <1>17a, <1>17b, <1>17, <1>18, <1>19,
     <1>20, <1>21, <1>22, <1>23, <1>24, <1>25, <1>26, <1>27
  DEF Next, CallbackStep, WriterStep, ControlStep, DeclineTake, DeclineTimeout

-----------------------------------------------------------------------------
(* The captured blocks.                                                    *)

\* Every step keeps the account of the blocks captured for a running take.
LEMMA AccountedNext ==
  TypeOK /\ BlockHasSink /\ UnbegunUnowned /\ UnbegunPristine
    /\ CaptureAccounted /\ [Next]_vars => CaptureAccounted'
<1> SUFFICES ASSUME TypeOK, BlockHasSink, UnbegunUnowned, UnbegunPristine,
                    CaptureAccounted, [Next]_vars,
                    NEW t \in Takes, Running(t)', (~writeError[t])'
             PROVE  BlocksAccounted(t)'
  BY DEF CaptureAccounted
<1>a. /\ Running(t) /\ ~writeError[t] => BlocksAccounted(t)
      /\ writer[t] = "none" => Pristine(t) /\ t # active
  BY DEF CaptureAccounted, UnbegunPristine, UnbegunUnowned, Unowned
<1>b. TapTypeOK /\ CallbackTypeOK /\ WriterTypeOK
  BY DEF TypeOK
<1>c. /\ captured[t] \in Nat /\ dropped[t] \in Nat
      /\ Len(queue[t]) \in Nat /\ Len(written[t]) \in Nat
  <2>1. queue[t] \in Seq(Nat) /\ written[t] \in Seq(Nat)
    BY <1>b DEF WriterTypeOK
  <2> QED
    BY <2>1, <1>b DEF CallbackTypeOK
<1> USE CaptureTapAssumption, <1>a, <1>b, <1>c
<1> USE DEF Running, BlocksAccounted, InFlight, InWriter,
            CallbackTypeOK, WriterTypeOK, WriterSteps,
            tapVars, cbVars, writerVars, ctlVars
<1>1. CASE BeginBlock
  BY <1>1 DEF BeginBlock
<1>2. CASE ApplyCommand
  BY <1>2 DEF ApplyCommand, NextCommand, Retire
<1>3. CASE CommandsDrained
  BY <1>3 DEF CommandsDrained
<1>4. CASE SkipBlock
  BY <1>4 DEF SkipBlock
<1>27. CASE PassGate
  BY <1>27 DEF PassGate
<1>5. CASE StampBlock
  <2>0. Running(t) /\ BlocksAccounted(t) /\ captured[t] \in Nat
    BY <1>5 DEF StampBlock
  <2>1. CASE active = t
    <3>1. captured'[t] = captured[t] + 1
      BY <2>1, <1>5 DEF StampBlock
    <3> QED
      BY <2>0, <3>1, <2>1, <1>5 DEF StampBlock
  <2>2. CASE active # t
    <3>1. captured'[t] = captured[t]
      BY <2>2, <1>5 DEF StampBlock
    <3> QED
      BY <2>0, <3>1, <2>2, <1>5 DEF StampBlock
  <2> QED
    BY <2>1, <2>2
<1>6. CASE PoolDrop
  <2>0. /\ Running(t) /\ ~writeError[t] /\ BlocksAccounted(t)
        /\ captured' = captured /\ written' = written /\ queue' = queue
        /\ writer' = writer /\ writeError' = writeError /\ active' = active
        /\ cb = "popping" /\ cb' = "waiting"
    BY <1>6 DEF PoolDrop
  <2>1. CASE active = t
    <3>1. dropped'[t] = dropped[t] + 1
      BY <2>1, <1>6 DEF PoolDrop, CountDrop
    <3>2. /\ InFlight(t) = 1 /\ InFlight(t)' = 0
          /\ InWriter(t)' = InWriter(t) /\ InWriter(t) \in Nat
      BY <2>0, <2>1
    <3> HIDE <1>a, <1>b DEF InFlight, InWriter, Running, CallbackTypeOK,
                            WriterTypeOK, WriterSteps
    <3> QED
      BY ONLY <1>c, <2>0, <3>1, <3>2 DEF BlocksAccounted
  <2>2. CASE active # t
    <3>1. dropped'[t] = dropped[t]
      BY <2>2, <1>6 DEF PoolDrop, CountDrop
    <3> QED
      BY <2>0, <3>1, <2>2
  <2> QED
    BY <2>1, <2>2
<1>7. CASE PopBlock
  BY <1>7 DEF PopBlock
<1>8. CASE PushBlock
  <2>0. /\ Running(t) /\ ~writeError[t] /\ BlocksAccounted(t)
        /\ captured' = captured /\ written' = written
        /\ writer' = writer /\ writeError' = writeError /\ active' = active
        /\ cb = "pushing" /\ cb' = "waiting"
    BY <1>8 DEF PushBlock
  <2>1. CASE active = t /\ QueueAccepts(t)
    <3>1. queue'[t] = Append(queue[t], clock) /\ dropped' = dropped
      BY <2>1, <1>8 DEF PushBlock, Enqueued
    <3>2. Len(queue'[t]) = Len(queue[t]) + 1
      BY <3>1, AppendFacts
    <3>3. /\ InFlight(t) = 1 /\ InFlight(t)' = 0
          /\ InWriter(t)' = InWriter(t) /\ InWriter(t) \in Nat
      BY <2>0, <2>1
    <3> HIDE <1>a, <1>b DEF InFlight, InWriter, Running, CallbackTypeOK,
                            WriterTypeOK, WriterSteps
    <3> QED
      BY <2>0, <3>1, <3>2, <3>3
  <2>2. CASE active = t /\ ~QueueAccepts(t)
    <3>1. dropped'[t] = dropped[t] + 1 /\ queue' = queue
      BY <2>2, <1>8 DEF PushBlock, CountDrop
    <3>2. /\ InFlight(t) = 1 /\ InFlight(t)' = 0
          /\ InWriter(t)' = InWriter(t) /\ InWriter(t) \in Nat
      BY <2>0, <2>2
    <3> HIDE <1>a, <1>b DEF InFlight, InWriter, Running, CallbackTypeOK,
                            WriterTypeOK, WriterSteps
    <3> QED
      BY ONLY <1>c, <2>0, <3>1, <3>2 DEF BlocksAccounted
  <2>3. CASE active # t
    <3>1. dropped'[t] = dropped[t] /\ queue'[t] = queue[t]
      BY <2>3, <1>8 DEF PushBlock, CountDrop
    <3> QED
      BY <2>0, <3>1, <2>3
  <2> QED
    BY <2>1, <2>2, <2>3
<1>9. ASSUME NEW u \in Takes, ReceiveBlock(u) PROVE BlocksAccounted(t)'
  <2>1. CASE u = t
    <3>1. /\ Len(queue'[t]) = Len(queue[t]) - 1 /\ Len(queue[t]) \in Nat \ {0}
          /\ writer[t] = "receiving" /\ writer'[t] = "writing"
      BY <2>1, <1>9, TailFacts DEF ReceiveBlock
    <3> QED
      BY <3>1, <1>9 DEF ReceiveBlock
  <2>2. CASE u # t
    BY <2>2, <1>9 DEF ReceiveBlock
  <2> QED
    BY <2>1, <2>2
<1>10. ASSUME NEW u \in Takes, WriteBlock(u) PROVE BlocksAccounted(t)'
  <2>1. CASE u = t
    <3>0. writer[t] = "writing" /\ writer'[t] = "receiving" /\ ~writeError'[t]
      BY <2>1, <1>10 DEF WriteBlock
    <3>1. ~writeError[t] /\ written'[t] = Append(written[t], block[t])
      BY <2>1, <1>10 DEF WriteBlock
    <3>2. Len(written'[t]) = Len(written[t]) + 1 /\ Len(written[t]) \in Nat
      BY <3>1, AppendFacts
    <3> QED
      BY <3>0, <3>1, <3>2, <2>1, <1>10 DEF WriteBlock
  <2>2. CASE u # t
    BY <2>2, <1>10 DEF WriteBlock
  <2> QED
    BY <2>1, <2>2
<1>11a. ASSUME NEW u \in Takes, WaitExpires(u) PROVE BlocksAccounted(t)'
  BY <1>11a DEF WaitExpires
<1>11b. ASSUME NEW u \in Takes, CheckStop(u) PROVE BlocksAccounted(t)'
  BY <1>11b DEF CheckStop
<1>11. ASSUME NEW u \in Takes, LeaveLoop(u) PROVE BlocksAccounted(t)'
  BY <1>11 DEF LeaveLoop
<1>12. ASSUME NEW u \in Takes, FinalizeFile(u) PROVE BlocksAccounted(t)'
  BY <1>12 DEF FinalizeFile
<1>13. ASSUME NEW u \in Takes, BeginTake(u) PROVE BlocksAccounted(t)'
  <2>1. CASE u = t
    <3>1. writer[t] = "none" /\ writer'[t] = "receiving"
      BY <2>1, <1>13 DEF BeginTake
    <3>2. /\ Len(queue'[t]) = 0 /\ Len(written'[t]) = 0 /\ active' # t
          /\ captured'[t] = 0 /\ dropped'[t] = 0
      BY <3>1, <2>1, <1>13, EmptyFacts DEF BeginTake, Pristine
    <3> QED
      BY <3>1, <3>2
  <2>2. CASE u # t
    BY <2>2, <1>13 DEF BeginTake
  <2> QED
    BY <2>1, <2>2
<1>14. CASE InstallSink
  BY <1>14 DEF InstallSink, CommandFits
<1>15. CASE Decline
  BY <1>15 DEF Decline, CloseTap
<1>16. CASE ClearTap
  BY <1>16 DEF ClearTap, CommandFits
<1>17a. CASE ReadFirst
  BY <1>17a DEF ReadFirst
<1>17b. CASE ReadDropped
  BY <1>17b DEF ReadDropped
<1>17. CASE RaiseStopFlag
  BY <1>17 DEF RaiseStopFlag
<1>18. CASE CollectResults
  BY <1>18 DEF CollectResults, Verdict
<1>19. CASE DrainTrash
  BY <1>19 DEF DrainTrash, Drained
<1>20. CASE Play
  BY <1>20 DEF Play
<1>21. CASE Pause
  BY <1>21 DEF Pause
<1>22. CASE StopTake
  BY <1>22 DEF StopTake
<1>23. CASE FinalizeTimeout
  BY <1>23 DEF FinalizeTimeout
<1>24. CASE CloseStream
  BY <1>24 DEF CloseStream, CloseTap
<1>25. CASE OpenStream
  BY <1>25 DEF OpenStream
<1>26. CASE UNCHANGED vars
  BY <1>26 DEF vars
<1> QED
  BY <1>1, <1>2, <1>3, <1>4, <1>5, <1>6, <1>7, <1>8, <1>9, <1>10,
     <1>11a, <1>11b, <1>11, <1>12, <1>13, <1>14, <1>15, <1>16, <1>17a, <1>17b, <1>17, <1>18, <1>19,
     <1>20, <1>21, <1>22, <1>23, <1>24, <1>25, <1>26, <1>27
  DEF Next, CallbackStep, WriterStep, ControlStep, DeclineTake, DeclineTimeout

-----------------------------------------------------------------------------

\* At first no take was begun.
LEMMA AccountingInit == Init => AccountingInv
<1> SUFFICES ASSUME Init PROVE AccountingInv
  OBVIOUS
<1>1. BlockHasSink /\ PoolConserved /\ CaptureAccounted
  BY DEF Init, BlockHasSink, PoolConserved, CaptureAccounted, Running
<1>2. UnbegunUnowned
  BY CaptureTapAssumption, HeldEmpty DEF Init, UnbegunUnowned, Unowned
<1>3. UnbegunPristine
  BY DEF Init, UnbegunPristine, Pristine
<1> QED
  BY <1>1, <1>2, <1>3, TypeInit DEF AccountingInv

\* Every step keeps the strengthened invariant, one conjunct per lemma.
LEMMA AccountingNext == AccountingInv /\ [Next]_vars => AccountingInv'
BY TypeNext, BlockHasSinkNext, UnownedNext, PristineNext, PoolNext, AccountedNext
DEF AccountingInv

\* The strengthened invariant holds throughout.
LEMMA AccountingCorrect == Spec => []AccountingInv
<1> QED
  BY AccountingInit, AccountingNext, PTL DEF Spec

\* No block of a take's pool is ever lost while its writer runs, however the
\* callback, the writers and the control thread interleave.
THEOREM PoolIsConserved == Spec => []PoolConserved
<1>1. AccountingInv => PoolConserved
  BY DEF AccountingInv
<1> QED
  BY <1>1, AccountingCorrect, PTL

\* Every captured block is written, on its way, or counted as dropped.
THEOREM CaptureIsAccounted == Spec => []CaptureAccounted
<1>1. AccountingInv => CaptureAccounted
  BY DEF AccountingInv
<1> QED
  BY <1>1, AccountingCorrect, PTL

-----------------------------------------------------------------------------
(* The commands of the tap: what is attached, and what has to go.          *)

\* The steps of the control thread between its operations have no session.
AtRest == ctl # "idle" => session = NoTake

\* Steps that leave commands, attached sink and session as they are.
Silent ==
  \/ BeginBlock \/ CommandsDrained \/ SkipBlock \/ PassGate \/ StampBlock
  \/ PoolDrop \/ PopBlock \/ PushBlock
  \/ \E t \in Takes : WriterStep(t) \/ BeginTake(t)
  \/ ReadFirst \/ ReadDropped \/ RaiseStopFlag \/ CollectResults \/ DrainTrash \/ Play \/ Pause
  \/ FinalizeTimeout \/ OpenStream \/ UNCHANGED vars

LEMMA SilentSteps ==
  ASSUME Silent
  PROVE  /\ cmds' = cmds /\ active' = active /\ session' = session
         /\ ~streamOpen' => ~streamOpen
<1> USE DEF tapVars, streamVars, cbVars, writerVars, ctlVars
<1>1. CASE BeginBlock \/ CommandsDrained \/ SkipBlock \/ PassGate \/ StampBlock
  BY <1>1 DEF BeginBlock, CommandsDrained, SkipBlock, PassGate, StampBlock
<1>2. CASE PoolDrop \/ PopBlock \/ PushBlock
  BY <1>2 DEF PoolDrop, PopBlock, PushBlock
<1>3. CASE \E t \in Takes : WriterStep(t) \/ BeginTake(t)
  BY <1>3 DEF WriterStep, ReceiveBlock, WriteBlock, WaitExpires, CheckStop, LeaveLoop, FinalizeFile, BeginTake
<1>4. CASE ReadFirst \/ ReadDropped \/ RaiseStopFlag \/ CollectResults \/ DrainTrash \/ Play \/ Pause
  BY <1>4 DEF ReadFirst, ReadDropped, RaiseStopFlag, CollectResults, DrainTrash, Play, Pause
<1>5. CASE FinalizeTimeout \/ OpenStream \/ UNCHANGED vars
  BY <1>5 DEF FinalizeTimeout, OpenStream, vars
<1> QED
  BY <1>1, <1>2, <1>3, <1>4, <1>5 DEF Silent

LEMMA StepsAre ==
  [Next]_vars =>
    \/ Silent \/ ApplyCommand \/ InstallSink \/ ClearTap \/ StopTake
    \/ Decline \/ CloseStream
BY DEF Next, CallbackStep, ControlStep, Silent, DeclineTake, DeclineTimeout

LEMMA AtRestNext == TypeOK /\ AtRest /\ [Next]_vars => AtRest'
<1> SUFFICES ASSUME TypeOK, AtRest, [Next]_vars PROVE AtRest'
  OBVIOUS
<1> USE DEF AtRest, tapVars, streamVars, cbVars, writerVars, ctlVars
<1>1. CASE \E t \in Takes : BeginTake(t)
  BY <1>1 DEF BeginTake
<1>2. CASE InstallSink \/ ClearTap \/ StopTake \/ Decline \/ CloseStream \/ ApplyCommand
  BY <1>2 DEF InstallSink, ClearTap, StopTake, Decline, CloseStream, ApplyCommand
<1>3. CASE Silent /\ ~(\E t \in Takes : BeginTake(t))
  <2>1. session' = session
    BY <1>3, SilentSteps
  <2>2. ctl' = ctl \/ ctl # "idle"
    BY <1>3 DEF Silent, BeginBlock, CommandsDrained, SkipBlock, PassGate, StampBlock, PoolDrop,
                PopBlock, PushBlock, WriterStep, ReceiveBlock, WriteBlock, WaitExpires, CheckStop, LeaveLoop,
                FinalizeFile, ReadFirst, ReadDropped, RaiseStopFlag, CollectResults, DrainTrash, Play, Pause,
                FinalizeTimeout, OpenStream, vars
  <2> QED
    BY <2>1, <2>2
<1> QED
  BY <1>1, <1>2, <1>3, StepsAre

\* A command applied is the pending one, or one before it.
LEMMA PendingApplied ==
  ASSUME TypeOK, ApplyCommand
  PROVE  Pending' = Pending
<1>1. cmds \in Seq(Takes \cup {NoTake}) /\ cmds # <<>> /\ active' = Head(cmds) /\ cmds' = Tail(cmds)
  BY DEF ApplyCommand, NextCommand, TypeOK, TapTypeOK
<1>2. /\ Head(cmds) = cmds[1] /\ Len(Tail(cmds)) = Len(cmds) - 1 /\ Len(cmds) \in Nat \ {0}
      /\ \A i \in 1..Len(Tail(cmds)) : Tail(cmds)[i] = cmds[i + 1]
  BY <1>1, TailFacts
<1>3. CASE Tail(cmds) = <<>>
  <2>1. Len(Tail(cmds)) = 0 /\ Len(cmds) = 1
    BY <1>2, <1>3
  <2>2. Pending = cmds[1] /\ Pending' = active'
    BY <1>1, <1>3, <2>1 DEF Pending
  <2> QED
    BY <1>1, <1>2, <2>2
<1>4. CASE Tail(cmds) # <<>>
  <2>1. Len(Tail(cmds)) # 0
    BY <1>1, <1>4
  <2>2. Len(Tail(cmds)) \in 1..Len(Tail(cmds)) /\ Len(Tail(cmds)) + 1 = Len(cmds)
    BY <1>2, <2>1
  <2>3. Tail(cmds)[Len(Tail(cmds))] = cmds[Len(cmds)]
    BY <1>2, <2>2
  <2> QED
    BY <1>1, <1>4, <2>3 DEF Pending
<1> QED
  BY <1>3, <1>4

\* No late Clear or Set of an earlier take detaches the running one, whatever
\* is still in the command queue (start_recording_live_tap, stop_recording).
THEOREM TakesStayAttached == Spec => TakeStaysAttached
<1>1. Init => AtRest
  BY DEF Init, AtRest
<1>2. TypeOK /\ AtRest /\ [Next]_vars =>
        [\A t \in Takes :
           session = t /\ session' = t /\ Pending = t => Pending' = t \/ ~streamOpen']_vars
  <2> SUFFICES ASSUME TypeOK, AtRest, [Next]_vars, NEW t \in Takes,
                      session = t, session' = t, Pending = t
               PROVE  Pending' = t \/ ~streamOpen'
    OBVIOUS
  <2>1. ctl = "idle" /\ t # NoTake
    BY CaptureTapAssumption DEF AtRest
  <2>2. CASE Silent
    BY <2>2, SilentSteps DEF Pending
  <2>3. CASE ApplyCommand
    BY <2>3, PendingApplied
  <2>4. CASE InstallSink \/ ClearTap \/ StopTake \/ Decline
    BY <2>1, <2>4 DEF InstallSink, ClearTap, StopTake, Decline
  <2>5. CASE CloseStream
    BY <2>5 DEF CloseStream, CloseTap
  <2> QED
    BY <2>2, <2>3, <2>4, <2>5, StepsAre
<1> QED
  BY <1>1, <1>2, AtRestNext, TypeInit, TypeNext, PTL DEF Spec, TakeStaysAttached

-----------------------------------------------------------------------------
(***************************************************************************)
(* Nothing is freed on the audio thread.  A sink is lost when one is held  *)
(* already and the trash channel is full, so all that matters is how many  *)
(* sinks there are: in the trash, held, attached, and in the commands.     *)
(* Between a Set and the next there is a Clear, so half of the commands    *)
(* bring one.  Every take begins with an empty trash, and adds one.        *)
(***************************************************************************)

\* The sinks the commands bring, if no two Sets follow each other.
Coming == (IF cmds # <<>> /\ Head(cmds) # NoTake THEN Len(cmds) + 1 ELSE Len(cmds)) \div 2

One(sink) == IF sink = NoTake THEN 0 ELSE 1

Sinks == Len(trash) + One(retiring) + One(active) + Coming

Half == (CmdCapacity + 1) \div 2

\* Of the channels: both have room for 8 in capture_tap.
TrashHasRoom == Half + 3 <= TrashCapacity

Alternating == \A i \in 1..(Len(cmds) - 1) : cmds[i] # NoTake => cmds[i + 1] = NoTake

\* A take that is over was cleared, or there was no room for that; and then
\* there is none for the next take either until all commands are drained.
Cleared ==
  cb # "draining" /\ session = NoTake /\ ctl # "clear" =>
    cmds = <<>> \/ Len(cmds) >= CmdCapacity \/ cmds[Len(cmds)] = NoTake

FewSinks ==
  /\ ctl = "install" => Sinks <= Half + 2
  /\ session # NoTake \/ ctl = "clear" => Sinks <= Half + 3
  /\ Sinks <= Half + 4

NoTap == ~streamOpen => cmds = <<>>

SinksInv == TypeOK /\ AtRest /\ Alternating /\ Cleared /\ FewSinks /\ NoTap

\* Halves of natural numbers.
LEMMA Halves ==
  ASSUME NEW n \in Nat
  PROVE  /\ n \div 2 \in Nat /\ n \div 2 <= n /\ n \div 2 <= (n + 1) \div 2
         /\ (n + 1) \div 2 <= n \div 2 + 1 /\ (n + 2) \div 2 = n \div 2 + 1
         /\ \A m \in Nat : m <= n => m \div 2 <= n \div 2
OBVIOUS

LEMMA SinkTypes ==
  ASSUME TypeOK
  PROVE  /\ Half \in Nat /\ Coming \in Nat /\ Coming <= Half
         /\ Len(trash) \in Nat /\ Len(cmds) \in Nat
         /\ \A sink : One(sink) \in 0..1
<1>1. cmds \in Seq(Takes \cup {NoTake}) /\ Len(cmds) <= CmdCapacity /\ trash \in Seq(Takes)
  BY DEF TypeOK, TapTypeOK
<1>2. Len(cmds) \in Nat /\ Len(trash) \in Nat /\ CmdCapacity \in Nat
  BY <1>1, CaptureTapAssumption
<1>3. Half \in Nat
  BY <1>2, Halves DEF Half
<1>4. \A m \in Nat : m <= CmdCapacity + 1 => m \div 2 \in Nat /\ m \div 2 <= Half
  <2>1. CmdCapacity + 1 \in Nat
    BY <1>2
  <2> QED
    BY <2>1, Halves DEF Half
<1>5. Coming \in Nat /\ Coming <= Half
  <2>1. Len(cmds) + 1 \in Nat /\ Len(cmds) + 1 <= CmdCapacity + 1 /\ Len(cmds) <= CmdCapacity + 1
    BY <1>1, <1>2
  <2> QED
    BY <1>2, <1>4, <2>1 DEF Coming
<1> QED
  BY <1>2, <1>3, <1>5 DEF One

LEMMA SinkTypesAfter ==
  ASSUME TypeOK'
  PROVE  Coming' \in Nat /\ Len(trash') \in Nat
<1>1. Len(cmds') \in Nat /\ Len(trash') \in Nat /\ Len(cmds') + 1 \in Nat
  BY DEF TypeOK, TapTypeOK
<1>2. Coming' \in {Len(cmds') \div 2, (Len(cmds') + 1) \div 2}
  BY DEF Coming
<1> QED
  BY <1>1, <1>2, Halves

\* A command more brings one sink at most.
LEMMA OneMore ==
  ASSUME TypeOK, NEW c \in Takes \cup {NoTake}, cmds' = Append(cmds, c)
  PROVE  Coming' \in Nat /\ Coming' <= Coming + 1
<1>1. cmds \in Seq(Takes \cup {NoTake}) /\ Len(cmds) \in Nat
  BY DEF TypeOK, TapTypeOK
<1>2. Len(cmds') = Len(cmds) + 1 /\ cmds' # <<>>
  BY <1>1, AppendFacts
<1>3. CASE cmds = <<>>
  <2>1. Len(cmds) = 0 /\ Len(cmds') = 1
    BY <1>2, <1>3
  <2>2. Coming' \in {1 \div 2, 2 \div 2}
    BY <1>2, <2>1 DEF Coming
  <2>3. Coming = 0 \div 2
    BY <1>3, <2>1 DEF Coming
  <2> QED
    BY <2>2, <2>3
<1>4. CASE cmds # <<>>
  <2>1. Head(cmds') = Head(cmds)
    BY <1>1, <1>4
  <2>2. CASE Head(cmds) # NoTake
    <3>1. Coming' = (Len(cmds) + 1 + 1) \div 2 /\ Coming = (Len(cmds) + 1) \div 2
      BY <1>2, <1>4, <2>1, <2>2 DEF Coming
    <3> QED
      BY <1>1, <3>1, Halves
  <2>3. CASE Head(cmds) = NoTake
    <3>1. Coming' = (Len(cmds) + 1) \div 2 /\ Coming = Len(cmds) \div 2
      BY <1>2, <1>4, <2>1, <2>3 DEF Coming
    <3> QED
      BY <1>1, <3>1, Halves
  <2> QED
    BY <2>2, <2>3
<1> QED
  BY <1>3, <1>4

\* A command fewer: it brought a sink, or none.
LEMMA OneFewer ==
  ASSUME TypeOK, Alternating, cmds # <<>>, cmds' = Tail(cmds)
  PROVE  Coming' + One(Head(cmds)) <= Coming
<1>1. /\ cmds \in Seq(Takes \cup {NoTake}) /\ Head(cmds) = cmds[1] /\ Len(cmds) \in Nat \ {0}
      /\ Len(cmds') = Len(cmds) - 1
      /\ \A i \in 1..Len(Tail(cmds)) : Tail(cmds)[i] = cmds[i + 1]
  BY TailFacts DEF TypeOK, TapTypeOK
<1> DEFINE n == Len(cmds) - 1
<1>2. n \in Nat /\ Len(cmds) = n + 1 /\ Len(cmds') = n
  BY <1>1
<1>3. CASE Head(cmds) # NoTake
  <2>1. cmds' = <<>> \/ Head(cmds') = NoTake
    <3> SUFFICES ASSUME cmds' # <<>> PROVE Head(cmds') = NoTake
      OBVIOUS
    <3>1. cmds' \in Seq(Takes \cup {NoTake})
      BY <1>1
    <3>2. Len(cmds') # 0 /\ Head(cmds') = cmds'[1]
      BY <3>1
    <3>3. 1 \in 1..Len(Tail(cmds)) /\ 1 \in 1..(Len(cmds) - 1) /\ 1 + 1 = 2
      BY <1>2, <3>2
    <3>4. cmds'[1] = cmds[2] /\ (cmds[1] # NoTake => cmds[2] = NoTake)
      BY <1>1, <3>3 DEF Alternating
    <3> QED
      BY <1>1, <1>3, <3>2, <3>4
  <2>2. Coming' = n \div 2
    BY <1>2, <2>1 DEF Coming
  <2>3. Coming = (n + 1 + 1) \div 2
    BY <1>2, <1>3 DEF Coming
  <2>4. One(Head(cmds)) = 1
    BY <1>3 DEF One
  <2> HIDE DEF n
  <2> QED
    BY <1>2, <2>2, <2>3, <2>4, Halves
<1>4. CASE Head(cmds) = NoTake
  <2>1. Coming' \in {n \div 2, (n + 1) \div 2}
    BY <1>2 DEF Coming
  <2>2. Coming = (n + 1) \div 2
    BY <1>2, <1>4 DEF Coming
  <2>3. One(Head(cmds)) = 0
    BY <1>4 DEF One
  <2> HIDE DEF n
  <2> QED
    BY <1>2, <2>1, <2>2, <2>3, Halves
<1> QED
  BY <1>3, <1>4

\* The callback hands sinks on, and makes none.
LEMMA CallbackHandsOn ==
  ASSUME SinksInv, TrashHasRoom, BeginBlock \/ ApplyCommand
  PROVE  /\ Sinks' <= Sinks
         /\ \/ retiring \in {NoTake, retiring'}
            \/ Held(retiring, trash')
<1>1. /\ TypeOK /\ Sinks <= Half + 4 /\ Alternating /\ Len(trash) <= TrashCapacity
      /\ trash \in Seq(Takes) /\ active \in Takes \cup {NoTake}
      /\ retiring \in Takes \cup {NoTake}
  BY DEF SinksInv, FewSinks, TypeOK, TapTypeOK
<1>2. TypeOK'
  BY <1>1, TypeNext DEF Next, CallbackStep
<1>3. /\ Half \in Nat /\ Coming \in Nat /\ Len(trash) \in Nat /\ Coming' \in Nat /\ Len(trash') \in Nat
      /\ One(retiring) \in 0..1 /\ One(active) \in 0..1
      /\ One(retiring') \in 0..1 /\ One(active') \in 0..1 /\ TrashCapacity \in Nat
  <2>1. Coming' \in Nat /\ Len(trash') \in Nat
    BY <1>2, SinkTypesAfter
  <2>2. Half \in Nat /\ Coming \in Nat /\ Len(trash) \in Nat
    BY <1>1, SinkTypes
  <2>3. /\ One(retiring) \in 0..1 /\ One(active) \in 0..1
        /\ One(retiring') \in 0..1 /\ One(active') \in 0..1
    BY DEF One
  <2> QED
    BY <2>1, <2>2, <2>3, CaptureTapAssumption
<1>4. CASE BeginBlock
  <2>1. active' = active /\ cmds' = cmds
    BY <1>4 DEF BeginBlock
  <2>2. Coming' = Coming
    BY <2>1 DEF Coming
  <2>3. CASE retiring # NoTake /\ Len(trash) < TrashCapacity
    <3>1. trash' = Append(trash, retiring) /\ retiring' = NoTake /\ retiring \in Takes
      BY <1>1, <1>4, <2>3 DEF BeginBlock
    <3>2. Len(trash') = Len(trash) + 1 /\ trash'[Len(trash) + 1] = retiring
      BY <1>1, <3>1, AppendFacts
    <3>3. Held(retiring, trash')
      BY <1>3, <3>2 DEF Held
    <3>4. One(retiring) = 1 /\ One(retiring') = 0
      BY <2>3, <3>1 DEF One
    <3> QED
      BY <1>3, <2>1, <2>2, <3>2, <3>3, <3>4 DEF Sinks
  <2>4. CASE ~(retiring # NoTake /\ Len(trash) < TrashCapacity)
    <3>1. trash' = trash /\ retiring' = retiring
      BY <1>4, <2>4 DEF BeginBlock
    <3> QED
      BY <1>3, <2>1, <2>2, <3>1 DEF Sinks
  <2> QED
    BY <2>3, <2>4
<1>5. CASE ApplyCommand
  <2>1. active' = Head(cmds) /\ cmds' = Tail(cmds) /\ cmds # <<>>
    BY <1>5 DEF ApplyCommand, NextCommand
  <2>2. Coming' + One(active') <= Coming
    BY <1>1, <2>1, OneFewer
  <2>3. CASE active = NoTake
    <3>1. trash' = trash /\ retiring' = retiring
      BY <1>5, <2>3 DEF ApplyCommand
    <3>2. One(active) = 0
      BY <2>3 DEF One
    <3> QED
      BY <1>3, <2>2, <3>1, <3>2 DEF Sinks
  <2>4. CASE active # NoTake /\ Len(trash) < TrashCapacity
    <3>1. trash' = Append(trash, active) /\ retiring' = retiring
      BY <1>5, <2>4 DEF ApplyCommand, Retire
    <3>2. Len(trash') = Len(trash) + 1 /\ One(active) = 1
      BY <1>1, <2>4, <3>1, AppendFacts DEF One
    <3> QED
      BY <1>3, <2>2, <3>1, <3>2 DEF Sinks
  <2>5. CASE active # NoTake /\ ~(Len(trash) < TrashCapacity)
    <3>1. trash' = trash /\ retiring' = active
      BY <1>5, <2>5 DEF ApplyCommand, Retire
    <3>2. One(active) = 1 /\ One(retiring') = 1
      BY <2>5, <3>1 DEF One
    <3>3. Len(trash) = TrashCapacity
      BY <1>1, <1>3, <2>5
    <3>4. One(retiring) = 0
      BY <1>1, <1>3, <3>2, <3>3 DEF Sinks, TrashHasRoom
    <3>5. retiring = NoTake
      BY <3>4 DEF One
    <3> QED
      BY <1>3, <2>2, <3>1, <3>2, <3>4, <3>5 DEF Sinks
  <2> QED
    BY <2>3, <2>4, <2>5
<1> QED
  BY <1>4, <1>5

LEMMA SinksInit == Init => SinksInv
<1> SUFFICES ASSUME Init PROVE SinksInv
  OBVIOUS
<1>1. cmds = <<>> /\ trash = <<>> /\ active = NoTake /\ retiring = NoTake /\ ctl = "idle"
  BY DEF Init
<1>2. TypeOK
  BY TypeInit
<1>3. Coming = 0
  BY <1>1 DEF Coming
<1>4. Sinks = 0 /\ Half \in Nat
  BY <1>1, <1>2, <1>3, SinkTypes DEF Sinks, One
<1>5. FewSinks
  BY <1>4 DEF FewSinks
<1> QED
  BY <1>1, <1>2, <1>5 DEF SinksInv, AtRest, Alternating, Cleared, NoTap

\* While it drains, the callback does nothing else, and nobody else does.
PromptStep ==
  \/ ApplyCommand \/ CommandsDrained
  \/ cb # "draining" /\ [Next]_vars
  \/ UNCHANGED vars


LEMMA PromptSteps == [PromptNext]_vars => PromptStep
BY DEF PromptNext, PromptStep, CallbackStep, SkipBlock, PassGate, StampBlock, PoolDrop,
       PopBlock, PushBlock

LEMMA AlternatingNext ==
  ASSUME SinksInv, PromptStep
  PROVE  Alternating' /\ NoTap'
<1>1. /\ TypeOK /\ AtRest /\ Alternating /\ NoTap
      /\ cmds \in Seq(Takes \cup {NoTake}) /\ Len(cmds) \in Nat
  BY DEF SinksInv, TypeOK, TapTypeOK
<1>2. CASE Silent
  BY <1>1, <1>2, SilentSteps DEF Alternating, NoTap
<1>3. CASE ApplyCommand
  <2>1. cmds' = Tail(cmds) /\ cmds # <<>> /\ streamOpen' = streamOpen
    BY <1>3 DEF ApplyCommand, NextCommand, streamVars
  <2>2. /\ Len(cmds') = Len(cmds) - 1
        /\ \A i \in 1..Len(cmds') : cmds'[i] = cmds[i + 1]
    BY <1>1, <2>1, TailFacts
  <2>3. ASSUME NEW i \in 1..(Len(cmds') - 1), cmds'[i] # NoTake PROVE cmds'[i + 1] = NoTake
    <3>1. /\ i \in 1..Len(cmds') /\ i + 1 \in 1..Len(cmds') /\ i + 1 \in 1..(Len(cmds) - 1)
          /\ i + 1 + 1 \in Nat
      BY <1>1, <2>2
    <3>2. cmds'[i] = cmds[i + 1] /\ cmds'[i + 1] = cmds[i + 1 + 1]
      BY <2>2, <3>1
    <3> QED
      BY <1>1, <2>3, <3>1, <3>2 DEF Alternating
  <2> QED
    BY <1>1, <2>1, <2>3 DEF Alternating, NoTap
<1>4. CASE cb # "draining" /\ InstallSink
  <2>1. CASE streamOpen /\ CommandFits
    <3>1. /\ cmds' = Append(cmds, ctlTake) /\ streamOpen' /\ ctlTake \in Takes \cup {NoTake}
          /\ session = NoTake /\ Len(cmds) < CmdCapacity /\ CmdCapacity \in Nat
      BY <1>1, <1>4, <2>1, CaptureTapAssumption
      DEF InstallSink, CommandFits, streamVars, AtRest, TypeOK, ControlTypeOK
    <3>2. cmds = <<>> \/ cmds[Len(cmds)] = NoTake
      BY <1>1, <1>4, <3>1 DEF SinksInv, Cleared, InstallSink
    <3>3. /\ Len(cmds') = Len(cmds) + 1
          /\ \A i \in 1..Len(cmds) : cmds'[i] = cmds[i]
      BY <1>1, <3>1, AppendFacts
    <3>4. ASSUME NEW i \in 1..(Len(cmds') - 1), cmds'[i] # NoTake PROVE cmds'[i + 1] = NoTake
      <4>1. i \in 1..Len(cmds) /\ cmds[i] # NoTake
        BY <1>1, <3>3, <3>4
      <4>2. cmds # <<>> /\ i # Len(cmds)
        BY <1>1, <3>2, <4>1
      <4>3. i \in 1..(Len(cmds) - 1) /\ i + 1 \in 1..Len(cmds)
        BY <1>1, <4>1, <4>2
      <4> QED
        BY <1>1, <3>3, <4>1, <4>3 DEF Alternating
    <3> QED
      BY <3>1, <3>4 DEF Alternating, NoTap
  <2>2. CASE ~(streamOpen /\ CommandFits)
    BY <1>1, <1>4, <2>2 DEF InstallSink, streamVars, Alternating, NoTap
  <2> QED
    BY <2>1, <2>2
<1>5. CASE ClearTap
  <2>1. CASE streamOpen /\ CommandFits
    <3>1. cmds' = Append(cmds, NoTake) /\ streamOpen'
      BY <1>5, <2>1 DEF ClearTap, streamVars
    <3>2. /\ Len(cmds') = Len(cmds) + 1 /\ cmds'[Len(cmds) + 1] = NoTake
          /\ \A i \in 1..Len(cmds) : cmds'[i] = cmds[i]
      BY <1>1, <3>1, AppendFacts
    <3>3. ASSUME NEW i \in 1..(Len(cmds') - 1), cmds'[i] # NoTake PROVE cmds'[i + 1] = NoTake
      <4>1. i \in 1..Len(cmds) /\ cmds[i] # NoTake
        BY <1>1, <3>2, <3>3
      <4>2. CASE i = Len(cmds)
        BY <3>2, <4>2
      <4>3. CASE i # Len(cmds)
        <5>1. i \in 1..(Len(cmds) - 1) /\ i + 1 \in 1..Len(cmds)
          BY <1>1, <4>1, <4>3
        <5> QED
          BY <1>1, <3>2, <4>1, <5>1 DEF Alternating
      <4> QED
        BY <4>2, <4>3
    <3> QED
      BY <3>1, <3>3 DEF Alternating, NoTap
  <2>2. CASE ~(streamOpen /\ CommandFits)
    BY <1>1, <1>5, <2>2 DEF ClearTap, streamVars, Alternating, NoTap
  <2> QED
    BY <2>1, <2>2
<1>6. CASE StopTake
  BY <1>1, <1>6 DEF StopTake, tapVars, streamVars, Alternating, NoTap
<1>7. CASE Decline \/ CloseStream
  <2>1. cmds' = <<>>
    BY <1>7 DEF Decline, CloseStream, CloseTap
  <2> QED
    BY <2>1 DEF Alternating, NoTap
<1> QED
  BY <1>2, <1>3, <1>4, <1>5, <1>6, <1>7, StepsAre DEF PromptStep, Silent

LEMMA ClearedNext ==
  ASSUME SinksInv, PromptStep
  PROVE  Cleared'
<1>1. /\ TypeOK /\ AtRest /\ Cleared /\ NoTap /\ CmdCapacity \in Nat
      /\ cmds \in Seq(Takes \cup {NoTake}) /\ Len(cmds) \in Nat
  BY CaptureTapAssumption DEF SinksInv, TypeOK, TapTypeOK
<1>2. CASE CommandsDrained
  BY <1>2 DEF CommandsDrained, tapVars, Cleared
<1>3. CASE ApplyCommand
  BY <1>3 DEF ApplyCommand, cbVars, Cleared
<1>4. CASE cb # "draining" /\ Silent /\ ~CommandsDrained
  <2>1. cmds' = cmds /\ session' = session
    BY <1>4, SilentSteps
  <2>2. ctl = "clear" => ctl' = "clear"
    BY <1>4 DEF Silent, BeginBlock, SkipBlock, PassGate, StampBlock, PoolDrop,
                PopBlock, PushBlock, WriterStep, ReceiveBlock, WriteBlock, WaitExpires, CheckStop, LeaveLoop,
                FinalizeFile, BeginTake, ReadFirst, ReadDropped, RaiseStopFlag, CollectResults, DrainTrash, Play, Pause,
                FinalizeTimeout, OpenStream, vars, ctlVars
  <2> QED
    BY <1>1, <1>4, <2>1, <2>2 DEF Cleared
<1>5. CASE cb # "draining" /\ InstallSink
  <2>1. CASE streamOpen /\ CommandFits
    <3>1. session' \in Takes
      BY <1>1, <1>5, <2>1 DEF InstallSink, TypeOK, ControlTypeOK
    <3> QED
      BY <3>1, CaptureTapAssumption DEF Cleared
  <2>2. CASE ~(streamOpen /\ CommandFits)
    BY <1>1, <1>5, <2>2 DEF InstallSink, Cleared
  <2> QED
    BY <2>1, <2>2
<1>6. CASE ClearTap
  <2>1. CASE streamOpen /\ CommandFits
    <3>1. cmds' = Append(cmds, NoTake)
      BY <1>6, <2>1 DEF ClearTap
    <3>2. cmds'[Len(cmds')] = NoTake
      BY <1>1, <3>1, AppendFacts
    <3> QED
      BY <3>2 DEF Cleared
  <2>2. CASE ~(streamOpen /\ CommandFits)
    <3>1. cmds' = cmds /\ (cmds = <<>> \/ Len(cmds) >= CmdCapacity)
      BY <1>1, <1>6, <2>2 DEF ClearTap, CommandFits, NoTap
    <3> QED
      BY <3>1 DEF Cleared
  <2> QED
    BY <2>1, <2>2
<1>7. CASE StopTake
  BY <1>7 DEF StopTake, Cleared
<1>8. CASE Decline \/ CloseStream
  BY <1>8 DEF Decline, CloseStream, CloseTap, Cleared
<1>9. CASE UNCHANGED vars
  BY <1>1, <1>9 DEF vars, tapVars, cbVars, ctlVars, Cleared
<1> QED
  BY <1>2, <1>3, <1>4, <1>5, <1>6, <1>7, <1>8, <1>9, StepsAre DEF PromptStep, Silent

LEMMA FewSinksNext ==
  ASSUME SinksInv, TrashHasRoom, PromptStep
  PROVE  FewSinks'
<1>1. /\ TypeOK /\ AtRest /\ FewSinks /\ cmds \in Seq(Takes \cup {NoTake}) /\ trash \in Seq(Takes)
  BY DEF SinksInv, TypeOK, TapTypeOK
<1>2. TypeOK' /\ AtRest'
  BY <1>1, TypeNext, AtRestNext DEF PromptStep, Next, CallbackStep
<1>3. /\ Half \in Nat /\ Coming \in Nat /\ Len(trash) \in Nat /\ One(retiring) \in 0..1
      /\ One(active) \in 0..1 /\ Sinks \in Nat
  <2>1. Half \in Nat /\ Coming \in Nat /\ Len(trash) \in Nat
    BY <1>1, SinkTypes
  <2>2. One(retiring) \in 0..1 /\ One(active) \in 0..1
    BY DEF One
  <2> QED
    BY <2>1, <2>2 DEF Sinks
<1>4. Sinks' \in Nat /\ Half' = Half
  <2>1. Coming' \in Nat /\ Len(trash') \in Nat
    BY <1>2, SinkTypesAfter
  <2>2. One(retiring') \in 0..1 /\ One(active') \in 0..1
    BY DEF One
  <2> QED
    BY <2>1, <2>2 DEF Sinks, Half
<1>5. ASSUME \E t \in Takes : BeginTake(t) PROVE FewSinks'
  <2>1. /\ trash' = <<>> /\ cmds' = cmds /\ active' = active /\ retiring' = retiring
        /\ session' = NoTake /\ ctl' = "install"
    BY <1>5 DEF BeginTake, Drained
  <2>2. Coming' = Coming /\ One(retiring') = One(retiring) /\ One(active') = One(active)
    BY <2>1 DEF Coming
  <2>3. Len(trash') = 0 /\ Coming <= Half
    BY <1>1, <2>1, SinkTypes
  <2>4. Sinks' <= Half + 2
    BY <1>3, <2>2, <2>3 DEF Sinks
  <2> QED
    BY <1>3, <1>4, <2>1, <2>4 DEF FewSinks
<1>6. ASSUME InstallSink PROVE FewSinks'
  <2>1. Sinks <= Half + 2 /\ trash' = trash /\ active' = active /\ retiring' = retiring
    BY <1>1, <1>6 DEF InstallSink, FewSinks
  <2>2. Coming' \in Nat /\ Coming' <= Coming + 1
    <3>1. CASE streamOpen /\ CommandFits
      <4>1. cmds' = Append(cmds, ctlTake) /\ ctlTake \in Takes \cup {NoTake}
        BY <1>1, <1>6, <3>1 DEF InstallSink, TypeOK, ControlTypeOK
      <4> QED
        BY <1>1, <4>1, OneMore
    <3>2. CASE ~(streamOpen /\ CommandFits)
      <4>1. cmds' = cmds
        BY <1>6, <3>2 DEF InstallSink
      <4>2. Coming' = Coming
        BY <4>1 DEF Coming
      <4> QED
        BY <1>3, <4>2
    <3> QED
      BY <3>1, <3>2
  <2>3. Sinks' <= Half + 3
    BY <1>3, <2>1, <2>2 DEF Sinks
  <2>4. ctl' # "install"
    BY <1>6 DEF InstallSink
  <2> QED
    BY <1>3, <1>4, <2>3, <2>4 DEF FewSinks
<1>7. ASSUME ClearTap PROVE FewSinks'
  <2>1. /\ Sinks <= Half + 3 /\ trash' = trash /\ active' = active /\ retiring' = retiring
        /\ ctl' = "finish"
    BY <1>1, <1>7 DEF ClearTap, FewSinks
  <2>2. Coming' \in Nat /\ Coming' <= Coming + 1
    <3>1. CASE streamOpen /\ CommandFits
      <4>1. cmds' = Append(cmds, NoTake)
        BY <1>7, <3>1 DEF ClearTap
      <4> QED
        BY <1>1, <4>1, OneMore
    <3>2. CASE ~(streamOpen /\ CommandFits)
      <4>1. cmds' = cmds
        BY <1>7, <3>2 DEF ClearTap
      <4>2. Coming' = Coming
        BY <4>1 DEF Coming
      <4> QED
        BY <1>3, <4>2
    <3> QED
      BY <3>1, <3>2
  <2>3. Sinks' <= Half + 4
    BY <1>3, <2>1, <2>2 DEF Sinks
  <2> QED
    BY <1>2, <1>3, <1>4, <2>1, <2>3 DEF FewSinks, AtRest
\* A step with no more sinks after it, and no new phase of a take.
<1>8. ASSUME Sinks' \in Nat, Sinks' <= Sinks, ctl' = "install" => ctl = "install",
             session' # NoTake \/ ctl' = "clear" => session # NoTake \/ ctl = "clear"
      PROVE  FewSinks'
  BY <1>1, <1>3, <1>8, <1>4 DEF FewSinks
<1>9. ASSUME BeginBlock \/ ApplyCommand PROVE FewSinks'
  <2>1. Sinks' <= Sinks
    BY <1>9, CallbackHandsOn
  <2>2. ctl' = ctl /\ session' = session
    BY <1>9 DEF BeginBlock, ApplyCommand, ctlVars
  <2> QED
    BY <1>8, <1>4, <2>1, <2>2
<1>10. ASSUME Silent, ~BeginBlock, ~DrainTrash, ~(\E t \in Takes : BeginTake(t))
       PROVE  FewSinks'
  <2>1. UNCHANGED <<cmds, active, session, trash, retiring>>
    <3>1. cmds' = cmds /\ active' = active /\ session' = session
      BY <1>10, SilentSteps
    <3>2. trash' = trash /\ retiring' = retiring
      BY <1>10 DEF Silent, CommandsDrained, SkipBlock, PassGate, StampBlock, PoolDrop,
                PopBlock, PushBlock, WriterStep, ReceiveBlock, WriteBlock, WaitExpires, CheckStop, LeaveLoop,
                FinalizeFile, ReadFirst, ReadDropped, RaiseStopFlag, CollectResults, Play, Pause,
                FinalizeTimeout, OpenStream, vars, tapVars
    <3> QED
      BY <3>1, <3>2
  <2>2. Sinks' = Sinks
    BY <2>1 DEF Sinks, Coming
  <2>3. (ctl' = "install" => ctl = "install") /\ (ctl' = "clear" => ctl = "clear")
    BY <1>10 DEF Silent, CommandsDrained, SkipBlock, PassGate, StampBlock, PoolDrop,
                PopBlock, PushBlock, WriterStep, ReceiveBlock, WriteBlock, WaitExpires, CheckStop, LeaveLoop,
                FinalizeFile, ReadFirst, ReadDropped, RaiseStopFlag, CollectResults, Play, Pause,
                FinalizeTimeout, OpenStream, vars, ctlVars
  <2> QED
    BY <1>3, <1>8, <1>4, <2>1, <2>2, <2>3
<1>11. ASSUME DrainTrash PROVE FewSinks'
  <2>1. /\ trash' = <<>> /\ cmds' = cmds /\ active' = active /\ retiring' = retiring
        /\ session' = session /\ ctl' = "idle"
    BY <1>11 DEF DrainTrash, Drained
  <2>2. Coming' = Coming /\ Len(trash') = 0
    BY <1>1, <2>1 DEF Coming
  <2>3. Sinks' <= Sinks
    BY <1>3, <2>1, <2>2 DEF Sinks
  <2> QED
    BY <1>8, <1>4, <2>1, <2>3
<1>12. ASSUME StopTake PROVE FewSinks'
  <2>1. /\ UNCHANGED <<cmds, active, trash, retiring>> /\ session # NoTake /\ ctl' = "clear"
    BY <1>12 DEF StopTake, tapVars
  <2>2. Sinks' = Sinks
    BY <2>1 DEF Sinks, Coming
  <2> QED
    BY <1>3, <1>8, <1>4, <2>1, <2>2
<1>13. ASSUME Decline \/ CloseStream PROVE FewSinks'
  <2>1. cmds' = <<>> /\ trash' = <<>> /\ active' = NoTake /\ retiring' = NoTake
    BY <1>13 DEF Decline, CloseStream, CloseTap
  <2>2. Coming' = 0 /\ Len(trash') = 0 /\ One(active') = 0 /\ One(retiring') = 0
    BY <2>1 DEF Coming, One
  <2>3. Sinks' = 0
    BY <2>2 DEF Sinks
  <2> QED
    BY <1>3, <1>4, <2>3 DEF FewSinks
<1> QED
  BY <1>5, <1>6, <1>7, <1>9, <1>10, <1>11, <1>12, <1>13, StepsAre DEF PromptStep, Silent

LEMMA SinksNext == TrashHasRoom /\ SinksInv /\ [PromptNext]_vars => SinksInv'
<1> SUFFICES ASSUME TrashHasRoom, SinksInv, [PromptNext]_vars PROVE SinksInv'
  OBVIOUS
<1>1. PromptStep /\ [Next]_vars
  BY PromptSteps DEF PromptNext
<1>2. TypeOK' /\ AtRest'
  BY <1>1, TypeNext, AtRestNext DEF SinksInv
<1> QED
  BY <1>1, <1>2, AlternatingNext, ClearedNext, FewSinksNext DEF SinksInv

\* The audio thread never deallocates a sink (capture_tap.rs, retire), whatever
\* commands pile up while the device delivers no block, as long as the callback
\* drains them before the control thread goes on: the trash channel is large
\* enough for that, as its 8 places are for 8 commands.
THEOREM SinksAreHandedBack == TrashHasRoom => (PromptSpec => HeldSinkIsHandedBack)
<1> SUFFICES ASSUME TrashHasRoom PROVE PromptSpec => HeldSinkIsHandedBack
  OBVIOUS
<1>1. SinksInv /\ [PromptNext]_vars =>
        [\/ retiring \in {NoTake, retiring'}
         \/ Held(retiring, trash')
         \/ ~streamOpen']_vars
  <2> SUFFICES ASSUME SinksInv, [PromptNext]_vars
               PROVE  \/ retiring \in {NoTake, retiring'}
                      \/ Held(retiring, trash')
                      \/ ~streamOpen'
    OBVIOUS
  <2>1. CASE BeginBlock \/ ApplyCommand
    BY <2>1, CallbackHandsOn
  <2>2. CASE Silent /\ ~BeginBlock
    BY <2>2 DEF Silent, CommandsDrained, SkipBlock, PassGate, StampBlock, PoolDrop,
                PopBlock, PushBlock, WriterStep, ReceiveBlock, WriteBlock, WaitExpires, CheckStop, LeaveLoop,
                FinalizeFile, BeginTake, ReadFirst, ReadDropped, RaiseStopFlag, CollectResults, DrainTrash, Play, Pause,
                FinalizeTimeout, OpenStream, vars, tapVars
  <2>3. CASE InstallSink \/ ClearTap \/ StopTake
    BY <2>3 DEF InstallSink, ClearTap, StopTake, tapVars
  <2>4. CASE Decline \/ CloseStream
    BY <2>4 DEF Decline, CloseStream, CloseTap
  <2> QED
    BY <2>1, <2>2, <2>3, <2>4, StepsAre DEF PromptNext
<1> QED
  BY <1>1, SinksInit, SinksNext, PTL DEF PromptSpec, HeldSinkIsHandedBack
=============================================================================
