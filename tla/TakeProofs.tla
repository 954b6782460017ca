----------------------------- MODULE TakeProofs -----------------------------
(***************************************************************************)
(* Proofs that CaptureTap keeps the blocks of every file in order,         *)
(* implements TakeLifecycle, reports a take good only when it misses the   *)
(* tail of its blocks at most, and places it on its first block: for any   *)
(* number of takes, blocks and streams and any capacities.                 *)
(***************************************************************************)
EXTENDS CaptureTapProofs, SequenceTheorems

-----------------------------------------------------------------------------
(* The order of the blocks.                                                *)

Strict(s) == \A i, j \in 1..Len(s) : i < j => s[i] < s[j]

Before(s, r) == \A i \in 1..Len(s) : \A j \in 1..Len(r) : s[i] < r[j]

\* Stamped before the block the callback has in its hands.
Past(n) == n \in 1..clock /\ (cb \in {"popping", "pushing"} => n < clock)

AllPast(s) == \A i \in 1..Len(s) : Past(s[i])

\* The file before the writer's block before the queue, all of them in order.
Ordered(t) ==
  /\ Strict(written[t]) /\ Strict(queue[t]) /\ Before(written[t], queue[t])
  /\ AllPast(written[t]) /\ AllPast(queue[t])
  /\ writer[t] = "writing" =>
       /\ Past(block[t])
       /\ Before(written[t], <<block[t]>>) /\ Before(<<block[t]>>, queue[t])

\* Stamps run up to the bound.
Clocked ==
  /\ clock <= MaxBlocks /\ (cb = "stamping" => clock < MaxBlocks)
  /\ cb \in {"popping", "pushing"} => clock > 0

OrderInv == Clocked /\ \A t \in Takes : Ordered(t)

LEMMA SingletonFacts ==
  ASSUME NEW n PROVE Len(<<n>>) = 1 /\ <<n>>[1] = n /\ \A i \in 1..Len(<<n>>) : <<n>>[i] = n
OBVIOUS

LEMMA OrderTypes ==
  ASSUME TypeOK, NEW t \in Takes
  PROVE  /\ clock \in Nat /\ MaxBlocks \in Nat /\ block[t] \in Nat
         /\ written[t] \in Seq(Nat) /\ queue[t] \in Seq(Nat)
         /\ \A i \in 1..Len(written[t]) : written[t][i] \in Nat
         /\ \A i \in 1..Len(queue[t]) : queue[t][i] \in Nat
<1>1. /\ clock \in Nat /\ MaxBlocks \in Nat /\ block[t] \in Nat
      /\ written[t] \in Seq(Nat) /\ queue[t] \in Seq(Nat)
  BY CaptureTapAssumption DEF TypeOK, CallbackTypeOK, WriterTypeOK
<1> QED  BY <1>1

\* What is appended in order stays in order.
LEMMA StrictAppend ==
  ASSUME NEW s \in Seq(Nat), NEW n \in Nat, Strict(s), Before(s, <<n>>)
  PROVE  Strict(Append(s, n)) /\ Append(s, n) \in Seq(Nat)
<1>1. \A i \in 1..Len(s) : s[i] < n
  BY SingletonFacts DEF Before
<1>2. /\ Len(Append(s, n)) = Len(s) + 1 /\ Len(s) \in Nat
      /\ \A i \in 1..Len(s) : Append(s, n)[i] = s[i]
      /\ Append(s, n)[Len(s) + 1] = n
  BY AppendFacts
<1>3. ASSUME NEW i \in 1..Len(s) + 1, NEW j \in 1..Len(s) + 1, i < j
      PROVE  Append(s, n)[i] < Append(s, n)[j]
  <2>1. i \in 1..Len(s)
    BY <1>2, <1>3
  <2>2. CASE j \in 1..Len(s)
    BY <1>2, <1>3, <2>1, <2>2 DEF Strict
  <2>3. CASE j = Len(s) + 1
    BY <1>1, <1>2, <2>1, <2>3
  <2> QED  BY <1>2, <2>2, <2>3
<1> QED  BY <1>2, <1>3, AppendFacts DEF Strict

\* Two runs in order, one before the other, make one in order.
LEMMA StrictConcat ==
  ASSUME NEW s \in Seq(Nat), NEW r \in Seq(Nat), Strict(s), Strict(r), Before(s, r)
  PROVE  Strict(s \o r) /\ s \o r \in Seq(Nat)
<1>1. /\ s \o r \in Seq(Nat) /\ Len(s \o r) = Len(s) + Len(r)
      /\ Len(s) \in Nat /\ Len(r) \in Nat
      /\ \A i \in 1..Len(s) + Len(r) :
           (s \o r)[i] = IF i <= Len(s) THEN s[i] ELSE r[i - Len(s)]
  BY ConcatProperties
<1>2. ASSUME NEW i \in 1..Len(s) + Len(r), NEW j \in 1..Len(s) + Len(r), i < j
      PROVE  (s \o r)[i] < (s \o r)[j]
  <2>1. CASE j <= Len(s)
    BY <1>1, <1>2, <2>1 DEF Strict
  <2>2. CASE i <= Len(s) /\ ~(j <= Len(s))
    <3>1. i \in 1..Len(s) /\ j - Len(s) \in 1..Len(r)
      BY <1>1, <2>2
    <3> QED  BY <1>1, <2>2, <3>1 DEF Before
  <2>3. CASE ~(i <= Len(s)) /\ ~(j <= Len(s))
    <3>1. i - Len(s) \in 1..Len(r) /\ j - Len(s) \in 1..Len(r) /\ i - Len(s) < j - Len(s)
      BY <1>1, <1>2, <2>3
    <3> QED  BY <1>1, <2>3, <3>1 DEF Strict
  <2> QED  BY <1>1, <1>2, <2>1, <2>2, <2>3
<1> QED  BY <1>1, <1>2 DEF Strict

\* Time passes: what was past stays past.
LEMMA PastStays ==
  ASSUME clock \in Nat, clock' = clock \/ clock' = clock + 1,
         cb' \in {"popping", "pushing"} => clock' = clock + 1 \/ cb \in {"popping", "pushing"}
  PROVE  \A n : Past(n) => Past(n)'
BY DEF Past

LEMMA OrderKept ==
  ASSUME NEW t \in Takes, Ordered(t), UNCHANGED <<written, queue, block, writer>>,
         \A n : Past(n) => Past(n)'
  PROVE  Ordered(t)'
BY DEF Ordered, AllPast

\* Only StampBlock moves the clock, and the block at hand is its latest.
LEMMA ClockMoves ==
  ASSUME TypeOK, Clocked, [Next]_vars
  PROVE  /\ Clocked' /\ (clock' = clock \/ clock' = clock + 1)
         /\ cb' \in {"popping", "pushing"} => clock' = clock + 1 \/ cb \in {"popping", "pushing"}
<1>0. clock \in Nat /\ MaxBlocks \in Nat
  BY CaptureTapAssumption DEF TypeOK, CallbackTypeOK
<1> USE <1>0 DEF Clocked
<1>1. CASE UNCHANGED <<cb, clock>>
  BY <1>1
<1>2. CASE BeginBlock
  BY <1>2 DEF BeginBlock
<1>3. CASE CommandsDrained
  BY <1>3 DEF CommandsDrained
<1>4. CASE SkipBlock
  BY <1>4 DEF SkipBlock
<1>5. CASE PassGate
  BY <1>5 DEF PassGate
<1>6. CASE StampBlock
  BY <1>6 DEF StampBlock
<1>7. CASE PoolDrop
  BY <1>7 DEF PoolDrop
<1>8. CASE PopBlock
  BY <1>8 DEF PopBlock
<1>9. CASE PushBlock
  BY <1>9 DEF PushBlock
<1>10. ASSUME NEW t \in Takes, WriterStep(t) \/ BeginTake(t) PROVE UNCHANGED <<cb, clock>>
  BY <1>10 DEF WriterStep, ReceiveBlock, WriteBlock, WaitExpires, CheckStop, LeaveLoop, FinalizeFile, BeginTake, cbVars
<1>11. CASE ControlStep \/ Play \/ Pause \/ StopTake
  BY <1>11 DEF ControlStep, InstallSink, DeclineTake, Decline, ClearTap, ReadFirst, ReadDropped, RaiseStopFlag,
               CollectResults, DrainTrash, Play, Pause, StopTake, cbVars
<1>12. CASE FinalizeTimeout \/ DeclineTimeout \/ CloseStream \/ OpenStream \/ ApplyCommand
  BY <1>12 DEF FinalizeTimeout, DeclineTimeout, Decline, CloseStream, OpenStream,
               ApplyCommand, cbVars
<1>13. CASE UNCHANGED vars
  BY <1>13 DEF vars, cbVars
<1> QED
  BY <1>1, <1>2, <1>3, <1>4, <1>5, <1>6, <1>7, <1>8, <1>9, <1>10, <1>11, <1>12, <1>13
  DEF Next, CallbackStep

\* The blocks of a take move in five steps only.
LEMMA BlocksMove ==
  ASSUME [Next]_vars
  PROVE  \/ PushBlock
         \/ \E t \in Takes : ReceiveBlock(t) \/ WriteBlock(t) \/ WaitExpires(t) \/ CheckStop(t)
                             \/ LeaveLoop(t) \/ FinalizeFile(t) \/ BeginTake(t)
         \/ UNCHANGED <<written, queue, block, writer, writeError>>
<1> USE DEF writerVars
<1>1. CASE BeginBlock \/ ApplyCommand \/ CommandsDrained \/ SkipBlock \/ PassGate \/ StampBlock
             \/ PoolDrop \/ PopBlock
  BY <1>1 DEF BeginBlock, ApplyCommand, CommandsDrained, SkipBlock, PassGate, StampBlock,
              PoolDrop, PopBlock
<1>2. CASE ControlStep \/ Play \/ Pause \/ StopTake
  BY <1>2 DEF ControlStep, InstallSink, DeclineTake, Decline, ClearTap, ReadFirst, ReadDropped, RaiseStopFlag,
              CollectResults, DrainTrash, Play, Pause, StopTake
<1>3. CASE FinalizeTimeout \/ DeclineTimeout \/ CloseStream \/ OpenStream \/ UNCHANGED vars
  BY <1>3 DEF FinalizeTimeout, DeclineTimeout, Decline, CloseStream, OpenStream, vars
<1> QED  BY <1>1, <1>2, <1>3 DEF Next, CallbackStep, WriterStep

\* A block pushed is the latest stamped.
LEMMA PushOrdered ==
  ASSUME TypeOK, OrderInv, BlockHasSink, PushBlock, NEW t \in Takes
  PROVE  Ordered(t)'
<1>1. Ordered(t) /\ Clocked
  BY DEF OrderInv
<1>2. /\ cb = "pushing" /\ cb' = "waiting" /\ active \in Takes
      /\ UNCHANGED <<clock, written, block, writer>>
  BY DEF PushBlock, BlockHasSink, TypeOK, TapTypeOK, writerVars
<1>3. clock \in Nat /\ clock > 0 /\ \A n : Past(n) => Past(n)' /\ n < clock
  BY <1>1, <1>2 DEF Past, Clocked, TypeOK, CallbackTypeOK
<1>4. queue' = queue \/ queue' = [queue EXCEPT ![active] = Append(queue[active], clock)]
  BY DEF PushBlock, Enqueued
<1>5. queue \in [Takes -> Seq(Nat)]
  BY DEF TypeOK, WriterTypeOK
<1>6. CASE queue'[t] = queue[t]
  <2>1. UNCHANGED <<written[t], block[t], writer[t]>>
    BY <1>2
  <2> QED  BY <1>1, <1>3, <1>6, <2>1 DEF Ordered, AllPast
<1>7. CASE queue'[t] = Append(queue[t], clock)
  <2>1. Before(queue[t], <<clock>>)
    BY <1>1, <1>3, SingletonFacts DEF Ordered, AllPast, Before
  <2>2. Strict(queue'[t])
    BY <1>1, <1>3, <1>7, <2>1, OrderTypes, StrictAppend DEF Ordered
  <2>3. /\ Len(queue'[t]) = Len(queue[t]) + 1 /\ Len(queue[t]) \in Nat
        /\ \A i \in 1..Len(queue[t]) : queue'[t][i] = queue[t][i]
        /\ queue'[t][Len(queue[t]) + 1] = clock
    BY <1>3, <1>5, <1>7, AppendFacts
  <2>4. \A i \in 1..Len(queue'[t]) : i \in 1..Len(queue[t]) \/ i = Len(queue[t]) + 1
    BY <2>3
  <2>5. Past(clock)'
    BY <1>2, <1>3 DEF Past
  <2>6. AllPast(queue[t])'
    <3>1. \A i \in 1..Len(queue[t]) : Past(queue[t][i])
      BY <1>1 DEF Ordered, AllPast
    <3>2. \A i \in 1..Len(queue'[t]) : queue'[t][i] \in 1..clock
      BY <1>3, <2>3, <2>4, <3>1 DEF Past
    <3> QED  BY <1>2, <3>2 DEF AllPast, Past
  <2>7. ASSUME NEW s, Before(s, queue[t]), AllPast(s) PROVE Before(s, queue'[t])
    <3> SUFFICES ASSUME NEW i \in 1..Len(s), NEW j \in 1..Len(queue'[t])
                 PROVE  s[i] < queue'[t][j]
      BY DEF Before
    <3>1. s[i] < clock
      BY <1>3, <2>7 DEF AllPast
    <3>2. CASE j \in 1..Len(queue[t])
      BY <2>3, <2>7, <3>2 DEF Before
    <3>3. CASE j = Len(queue[t]) + 1
      BY <2>3, <3>1, <3>3
    <3> QED  BY <2>4, <3>2, <3>3
  <2>8. Before(written[t], queue[t])'
    BY <1>1, <1>2, <2>7 DEF Ordered
  <2>9. writer[t] = "writing" => Before(<<block[t]>>, queue[t])'
    <3> SUFFICES ASSUME writer[t] = "writing" PROVE Before(<<block[t]>>, queue[t])'
      OBVIOUS
    <3>1. AllPast(<<block[t]>>)
      BY <1>1, SingletonFacts DEF Ordered, AllPast
    <3> QED  BY <1>1, <1>2, <2>7, <3>1 DEF Ordered
  <2> QED  BY <1>1, <1>2, <1>3, <2>2, <2>6, <2>8, <2>9 DEF Ordered, AllPast
<1> QED  BY <1>4, <1>5, <1>6, <1>7

\* The writer takes the oldest block.
LEMMA ReceiveOrdered ==
  ASSUME TypeOK, OrderInv, NEW u \in Takes, ReceiveBlock(u), NEW t \in Takes
  PROVE  Ordered(t)'
<1>1. Ordered(t)
  BY DEF OrderInv
<1>2. /\ writer' = [writer EXCEPT ![u] = "writing"] /\ block' = [block EXCEPT ![u] = Head(queue[u])]
      /\ queue' = [queue EXCEPT ![u] = Tail(queue[u])] /\ queue[u] # <<>>
      /\ UNCHANGED <<cb, clock, written>>
  BY DEF ReceiveBlock, cbVars
<1>3. writer \in [Takes -> WriterSteps] /\ block \in [Takes -> Nat] /\ queue \in [Takes -> Seq(Nat)]
  BY DEF TypeOK, WriterTypeOK
<1>4. \A n : Past(n) => Past(n)'
  BY <1>2 DEF Past
<1>5. CASE u # t
  <2>1. UNCHANGED <<written[t], queue[t], block[t], writer[t]>>
    BY <1>2, <1>3, <1>5
  <2> QED  BY <1>1, <1>4, <2>1 DEF Ordered, AllPast
<1>6. CASE u = t
  <2>1. /\ block'[t] = queue[t][1] /\ queue'[t] = Tail(queue[t]) /\ written'[t] = written[t]
        /\ queue[t] \in Seq(Nat) /\ queue[t] # <<>>
    BY <1>2, <1>3, <1>6, TailFacts
  <2>2. /\ Len(queue'[t]) = Len(queue[t]) - 1 /\ Len(queue[t]) \in Nat \ {0}
        /\ \A i \in 1..Len(queue'[t]) : queue'[t][i] = queue[t][i + 1]
    BY <2>1, TailFacts
  <2>3. \A i \in 1..Len(queue'[t]) : i + 1 \in 1..Len(queue[t]) /\ 1 < i + 1
    BY <2>2
  <2>4. 1 \in 1..Len(queue[t])
    BY <2>2
  <2>5. Strict(queue'[t])
    <3> SUFFICES ASSUME NEW i \in 1..Len(queue'[t]), NEW j \in 1..Len(queue'[t]), i < j
                 PROVE  queue'[t][i] < queue'[t][j]
      BY DEF Strict
    <3>1. i + 1 \in 1..Len(queue[t]) /\ j + 1 \in 1..Len(queue[t]) /\ i + 1 < j + 1
      BY <2>2
    <3>2. queue[t][i + 1] < queue[t][j + 1]
      BY <1>1, <3>1 DEF Ordered, Strict
    <3> QED  BY <2>2, <3>2
  <2>6. Before(written'[t], queue'[t]) /\ Before(written'[t], <<block'[t]>>)
    BY <1>1, <2>1, <2>2, <2>3, <2>4, SingletonFacts DEF Ordered, Before
  <2>7. Before(<<block'[t]>>, queue'[t])
    <3>1. \A j \in 1..Len(queue'[t]) : block'[t] < queue'[t][j]
      BY <1>1, <2>1, <2>2, <2>3, <2>4 DEF Ordered, Strict
    <3> QED  BY <3>1, SingletonFacts DEF Before
  <2>8. AllPast(queue[t])'
    <3>1. \A i \in 1..Len(queue[t]) : Past(queue[t][i])
      BY <1>1 DEF Ordered, AllPast
    <3>2. \A i \in 1..Len(queue'[t]) : Past(queue'[t][i])
      BY <2>2, <2>3, <3>1
    <3> QED  BY <1>2, <3>2 DEF AllPast, Past
  <2>9. Past(block[t])'
    <3>1. Past(queue[t][1])
      BY <1>1, <2>4 DEF Ordered, AllPast
    <3> QED  BY <1>2, <2>1, <3>1 DEF Past
  <2>10. AllPast(written[t])'
    BY <1>1, <1>4, <2>1 DEF Ordered, AllPast
  <2>11. Strict(written[t])'
    BY <1>1, <2>1 DEF Ordered
  <2> QED  BY <2>5, <2>6, <2>7, <2>8, <2>9, <2>10, <2>11 DEF Ordered
<1> QED  BY <1>5, <1>6

\* The writer's block comes after those in the file.
LEMMA WriteOrdered ==
  ASSUME TypeOK, OrderInv, NEW u \in Takes, WriteBlock(u), NEW t \in Takes
  PROVE  Ordered(t)'
<1>1. Ordered(t)
  BY DEF OrderInv
<1>2. /\ writer[u] = "writing" /\ writer' = [writer EXCEPT ![u] = "receiving"]
      /\ written' = written \/ written' = [written EXCEPT ![u] = Append(written[u], block[u])]
      /\ block' = [block EXCEPT ![u] = 0] /\ UNCHANGED <<cb, clock, queue>>
  BY DEF WriteBlock, cbVars
<1>3. /\ writer \in [Takes -> WriterSteps] /\ block \in [Takes -> Nat]
      /\ written \in [Takes -> Seq(Nat)]
  BY DEF TypeOK, WriterTypeOK
<1>4. \A n : Past(n) => Past(n)'
  BY <1>2 DEF Past
<1>5. CASE u # t
  <2>1. UNCHANGED <<written[t], queue[t], block[t], writer[t]>>
    BY <1>2, <1>3, <1>5
  <2> QED  BY <1>1, <1>4, <2>1 DEF Ordered, AllPast
<1>6. CASE u = t
  <2>1. writer[t] = "writing" /\ writer'[t] = "receiving" /\ queue'[t] = queue[t]
    BY <1>2, <1>3, <1>6
  <2>2. CASE written'[t] = written[t]
    BY <1>1, <1>4, <2>1, <2>2 DEF Ordered, AllPast
  <2>3. CASE written'[t] = Append(written[t], block[t])
    <3>1. Strict(written'[t])
      BY <1>1, <2>1, <2>3, OrderTypes, StrictAppend DEF Ordered
    <3>2. /\ Len(written'[t]) = Len(written[t]) + 1 /\ Len(written[t]) \in Nat
          /\ \A i \in 1..Len(written[t]) : written'[t][i] = written[t][i]
          /\ written'[t][Len(written[t]) + 1] = block[t]
      BY <1>3, <2>3, AppendFacts
    <3>3. \A i \in 1..Len(written'[t]) : i \in 1..Len(written[t]) \/ i = Len(written[t]) + 1
      BY <3>2
    <3>4. Before(written'[t], queue'[t])
      BY <1>1, <2>1, <3>2, <3>3, SingletonFacts DEF Ordered, Before
    <3>5. \A i \in 1..Len(written'[t]) : Past(written'[t][i])
      BY <1>1, <2>1, <3>2, <3>3 DEF Ordered, AllPast
    <3>6. AllPast(written[t])'
      BY <1>2, <3>5 DEF AllPast, Past
    <3>7. AllPast(queue[t])'
      BY <1>1, <1>4, <2>1 DEF Ordered, AllPast
    <3> QED  BY <1>1, <2>1, <3>1, <3>4, <3>6, <3>7 DEF Ordered
  <2> QED  BY <1>2, <1>3, <1>6, <2>2, <2>3
<1> QED  BY <1>5, <1>6

\* A writer that begins or ends is not writing, and its queue only empties.
LEMMA WriterOrdered ==
  ASSUME TypeOK, OrderInv, NEW t \in Takes, NEW u \in Takes,
         WaitExpires(u) \/ CheckStop(u) \/ LeaveLoop(u) \/ FinalizeFile(u) \/ BeginTake(u)
  PROVE  Ordered(t)'
<1>1. Ordered(t)
  BY DEF OrderInv
<1>2. /\ UNCHANGED <<cb, clock, block, written>>
      /\ \E step \in {"receiving", "expired", "finalizing", "done"} : writer' = [writer EXCEPT ![u] = step]
      /\ queue' = queue \/ queue' = [queue EXCEPT ![u] = <<>>]
  BY DEF WaitExpires, CheckStop, LeaveLoop, FinalizeFile, BeginTake, cbVars
<1>3. writer \in [Takes -> WriterSteps] /\ queue \in [Takes -> Seq(Nat)]
  BY DEF TypeOK, WriterTypeOK
<1>4. \A n : Past(n) => Past(n)'
  BY <1>2 DEF Past
<1>5. /\ writer'[t] = "writing" => writer[t] = "writing" /\ queue'[t] = queue[t]
      /\ queue'[t] = queue[t] \/ queue'[t] = <<>>
  BY <1>2, <1>3
<1>6. CASE queue'[t] = queue[t]
  BY <1>1, <1>2, <1>4, <1>5, <1>6 DEF Ordered, AllPast
<1>7. CASE queue'[t] = <<>>
  <2>1. \A i : i \notin 1..Len(queue'[t])
    BY <1>7, EmptyFacts
  <2>2. Strict(queue'[t]) /\ Before(written'[t], queue'[t]) /\ AllPast(queue[t])'
        /\ Before(<<block'[t]>>, queue'[t])
    BY <2>1 DEF Strict, Before, AllPast
  <2> QED  BY <1>1, <1>2, <1>4, <1>5, <2>2 DEF Ordered, AllPast
<1> QED  BY <1>5, <1>6, <1>7

LEMMA OrderNext == TypeOK /\ BlockHasSink /\ OrderInv /\ [Next]_vars => OrderInv'
<1> SUFFICES ASSUME TypeOK, BlockHasSink, OrderInv, [Next]_vars PROVE OrderInv'
  OBVIOUS
<1>1. Clocked'
  BY ClockMoves DEF OrderInv
<1>2. ASSUME NEW t \in Takes PROVE Ordered(t)'
  <2>1. CASE PushBlock
    BY <2>1, PushOrdered
  <2>2. CASE \E u \in Takes : ReceiveBlock(u)
    BY <2>2, ReceiveOrdered
  <2>3. CASE \E u \in Takes : WriteBlock(u)
    BY <2>3, WriteOrdered
  <2>4. CASE \E u \in Takes : WaitExpires(u) \/ CheckStop(u) \/ LeaveLoop(u) \/ FinalizeFile(u)
                             \/ BeginTake(u)
    BY <2>4, WriterOrdered
  <2>5. CASE UNCHANGED <<written, queue, block, writer>>
    <3>1. \A n : Past(n) => Past(n)'
      BY ClockMoves, PastStays DEF OrderInv, TypeOK, CallbackTypeOK
    <3> QED  BY <2>5, <3>1, OrderKept DEF OrderInv
  <2> QED  BY <2>1, <2>2, <2>3, <2>4, <2>5, BlocksMove
<1> QED  BY <1>1, <1>2 DEF OrderInv

LEMMA OrderInit == Init => OrderInv
<1> SUFFICES ASSUME Init PROVE OrderInv
  OBVIOUS
<1>1. Clocked
  BY CaptureTapAssumption DEF Init, Clocked
<1>2. ASSUME NEW t \in Takes PROVE Ordered(t)
  <2>1. written[t] = <<>> /\ queue[t] = <<>> /\ writer[t] = "none"
    BY DEF Init
  <2> QED  BY <2>1, EmptyFacts DEF Ordered, Strict, Before, AllPast
<1> QED  BY <1>1, <1>2 DEF OrderInv

LEMMA OrderCorrect == Spec => [](AccountingInv /\ OrderInv)
<1>1. AccountingInv => TypeOK /\ BlockHasSink
  BY DEF AccountingInv
<1> QED  BY <1>1, OrderInit, OrderNext, AccountingInit, AccountingNext, PTL DEF Spec

\* What capture_block queues and disk_writer_thread writes stays in the order it
\* was captured, through pool, queue and file, whatever is dropped between.
THEOREM FilesStayInOrder == Spec => []FileInOrder
<1>1. TypeOK /\ OrderInv => FileInOrder
  <2> SUFFICES ASSUME TypeOK, OrderInv, NEW t \in Takes PROVE Strict(Pipeline(t))
    BY DEF FileInOrder, Strict
  <2> DEFINE held == IF writer[t] = "writing" /\ ~writeError[t] THEN <<block[t]>> ELSE <<>>
  <2>1. Ordered(t) /\ block[t] \in Nat /\ written[t] \in Seq(Nat) /\ queue[t] \in Seq(Nat)
    BY OrderTypes DEF OrderInv
  <2>2. held \in Seq(Nat) /\ Strict(held) /\ Before(written[t], held) /\ Before(held, queue[t])
    <3>1. CASE writer[t] = "writing" /\ ~writeError[t]
      BY <2>1, <3>1, SingletonFacts DEF Ordered, Strict
    <3>2. CASE ~(writer[t] = "writing" /\ ~writeError[t])
      BY <3>2, EmptyFacts DEF Strict, Before
    <3> QED  BY <3>1, <3>2
  <2> HIDE DEF held
  <2>3. Strict(written[t] \o held) /\ written[t] \o held \in Seq(Nat)
    BY <2>1, <2>2, StrictConcat DEF Ordered
  <2>4. Before(written[t] \o held, queue[t])
    <3> SUFFICES ASSUME NEW i \in 1..Len(written[t] \o held), NEW j \in 1..Len(queue[t])
                 PROVE  (written[t] \o held)[i] < queue[t][j]
      BY DEF Before
    <3>1. /\ Len(written[t] \o held) = Len(written[t]) + Len(held)
          /\ Len(written[t]) \in Nat /\ Len(held) \in Nat
          /\ (written[t] \o held)[i] =
                IF i <= Len(written[t]) THEN written[t][i] ELSE held[i - Len(written[t])]
      BY <2>1, <2>2, ConcatProperties
    <3>2. CASE i <= Len(written[t])
      BY <2>1, <3>1, <3>2 DEF Ordered, Before
    <3>3. CASE ~(i <= Len(written[t]))
      <4>1. i - Len(written[t]) \in 1..Len(held)
        BY <3>1, <3>3
      <4> QED  BY <2>2, <3>1, <3>3, <4>1 DEF Before
    <3> QED  BY <3>2, <3>3
  <2> QED  BY <2>1, <2>3, <2>4, StrictConcat DEF Pipeline, Ordered, held
<1> QED  BY <1>1, OrderCorrect, PTL DEF AccountingInv

-----------------------------------------------------------------------------
(* The phase of a take.                                                    *)

\* The control thread runs or ends the take.
Mine(t) ==
  \/ session = t
  \/ ctlTake = t /\ ctl \in {"install", "unwind", "clear", "finish", "count", "raise", "await"}

PhaseInv ==
  /\ ctl # "idle" => session = NoTake
  /\ \A t \in Takes : Mine(t) <=> writer[t] # "none" /\ report[t] = "none"
  /\ \A t \in Takes : writer[t] = "none" => report[t] = "none"
  /\ \A t \in Takes : report[t] \in {"ok", "failed"} => writer[t] = "done"

\* What is neither a step of the control thread on a take nor of a writer.
LEMMA ControlMoves ==
  ASSUME [Next]_vars
  PROVE  \/ InstallSink \/ Decline \/ StopTake \/ ClearTap \/ ReadFirst \/ ReadDropped \/ RaiseStopFlag
         \/ CollectResults \/ FinalizeTimeout \/ DrainTrash
         \/ \E t \in Takes : BeginTake(t)
         \/ (\E t \in Takes : WriterStep(t)) /\ UNCHANGED ctlVars
         \/ UNCHANGED <<ctlVars, writer, written>>
<1> USE DEF writerVars
<1>1. CASE BeginBlock \/ CallbackStep
  BY <1>1 DEF BeginBlock, CallbackStep, ApplyCommand, CommandsDrained, SkipBlock, PassGate,
              StampBlock, PoolDrop, PopBlock, PushBlock
<1>2. ASSUME NEW t \in Takes, WriterStep(t) PROVE UNCHANGED ctlVars
  BY <1>2 DEF WriterStep, ReceiveBlock, WriteBlock, WaitExpires, CheckStop, LeaveLoop, FinalizeFile
<1>3. CASE Play \/ Pause \/ CloseStream \/ OpenStream \/ UNCHANGED vars
  BY <1>3 DEF Play, Pause, CloseStream, OpenStream, vars
<1> QED  BY <1>1, <1>2, <1>3 DEF Next, ControlStep, DeclineTake, DeclineTimeout

LEMMA PhaseNext == TypeOK /\ PhaseInv /\ [Next]_vars => PhaseInv'
<1> SUFFICES ASSUME TypeOK, PhaseInv, [Next]_vars PROVE PhaseInv'
  OBVIOUS
<1>0. /\ writer \in [Takes -> WriterSteps] /\ report \in [Takes -> Reports]
      /\ ctlTake \in IF ctl = "idle" THEN {NoTake} ELSE Takes
      /\ session \in Takes \cup {NoTake} /\ NoTake \notin Takes
  BY CaptureTapAssumption DEF TypeOK, WriterTypeOK, ControlTypeOK
<1> USE <1>0 DEF PhaseInv, Mine, WriterSteps, Reports
<1>1. CASE InstallSink
  BY <1>1 DEF InstallSink, writerVars
<1>2. CASE Decline
  <2>1. /\ ctl = "unwind" /\ ctl' = "idle" /\ ctlTake' = NoTake /\ UNCHANGED <<writer, session>>
        /\ report' = [report EXCEPT ![ctlTake] = "declined"] /\ ctlTake \in Takes
        /\ session = NoTake
    BY <1>2 DEF Decline, writerVars
  <2> QED  BY <2>1
<1>3. CASE StopTake
  BY <1>3 DEF StopTake, writerVars
<1>4. CASE ClearTap
  BY <1>4 DEF ClearTap, writerVars
<1>5a. CASE ReadFirst
  BY <1>5a DEF ReadFirst, writerVars
<1>5b. CASE ReadDropped
  BY <1>5b DEF ReadDropped, writerVars
<1>5. CASE RaiseStopFlag
  BY <1>5 DEF RaiseStopFlag, writerVars
<1>6. CASE CollectResults
  <2>1. /\ ctl = "await" /\ ctl' = "drain" /\ ctlTake' = ctlTake /\ UNCHANGED <<writer, session>>
        /\ report' = [report EXCEPT ![ctlTake] = Verdict(ctlTake)] /\ ctlTake \in Takes
        /\ session = NoTake /\ writer[ctlTake] = "done"
    BY <1>6 DEF CollectResults, ResultsIn, writerVars
  <2>2. Verdict(ctlTake) \in {"ok", "failed"}
    BY DEF Verdict
  <2> QED  BY <2>1, <2>2
<1>7. CASE FinalizeTimeout
  <2>1. /\ ctl = "await" /\ ctl' = "idle" /\ ctlTake' = NoTake /\ UNCHANGED <<writer, session>>
        /\ report' = [report EXCEPT ![ctlTake] = "timeout"] /\ ctlTake \in Takes
        /\ session = NoTake
    BY <1>7 DEF FinalizeTimeout, writerVars
  <2> QED  BY <2>1
<1>8. CASE DrainTrash
  BY <1>8 DEF DrainTrash, writerVars
<1>9. ASSUME NEW u \in Takes, BeginTake(u) PROVE PhaseInv'
  <2>1. /\ ctl = "idle" /\ session = NoTake /\ writer[u] = "none" /\ ctl' = "install" /\ ctlTake' = u
        /\ writer' = [writer EXCEPT ![u] = "receiving"] /\ UNCHANGED <<session, report>>
    BY <1>9 DEF BeginTake
  <2> QED  BY <2>1
<1>10. ASSUME NEW u \in Takes, WriterStep(u), UNCHANGED ctlVars PROVE PhaseInv'
  <2>1. /\ writer[u] \notin {"none", "done"}
        /\ \E step \in WriterSteps \ {"none"} : writer' = [writer EXCEPT ![u] = step]
    BY <1>10 DEF WriterStep, ReceiveBlock, WriteBlock, WaitExpires, CheckStop, LeaveLoop, FinalizeFile
  <2> QED  BY <1>10, <2>1 DEF ctlVars
<1>11. CASE UNCHANGED <<ctlVars, writer>>
  BY <1>11 DEF ctlVars
<1> QED
  BY <1>1, <1>2, <1>3, <1>4, <1>5a, <1>5b, <1>5, <1>6, <1>7, <1>8, <1>9, <1>10, <1>11, ControlMoves

LEMMA PhaseCorrect == Spec => [](TypeOK /\ PhaseInv)
<1>1. Init => PhaseInv
  BY CaptureTapAssumption DEF Init, PhaseInv, Mine
<1> QED  BY <1>1, TypeInit, TypeNext, PhaseNext, PTL DEF Spec

-----------------------------------------------------------------------------
(* The refinement.                                                         *)

Armed(t) == session = t \/ (ctlTake = t /\ ctl \in {"install", "unwind"})

Ends(t) == ctlTake = t /\ ctl \in {"clear", "finish", "count", "raise", "await"}

\* What PhaseInv makes of PhaseOf.
Phased ==
  \A t \in Takes :
    /\ report[t] # "none" => PhaseOf(t) = report[t]
    /\ writer[t] = "none" <=> PhaseOf(t) = "new"
    /\ Armed(t) => PhaseOf(t) = "armed"
    /\ Ends(t) => PhaseOf(t) = "ending"
    /\ PhaseOf(t) \in {"armed", "ending"} => Mine(t)
    /\ PhaseOf(t) \in {"ok", "failed"} => writer[t] = "done"

LEMMA PhaseFacts == TypeOK /\ PhaseInv => Phased
<1> SUFFICES ASSUME TypeOK, PhaseInv PROVE Phased
  OBVIOUS
<1>1. /\ session \in Takes \cup {NoTake} /\ NoTake \notin Takes
      /\ ctlTake \in IF ctl = "idle" THEN {NoTake} ELSE Takes
      /\ report \in [Takes -> Reports]
  BY CaptureTapAssumption DEF TypeOK, ControlTypeOK
<1>2. ASSUME NEW t \in Takes
      PROVE  /\ report[t] # "none" => PhaseOf(t) = report[t]
             /\ report[t] = "none" /\ Armed(t) => PhaseOf(t) = "armed"
             /\ report[t] = "none" /\ Ends(t) => PhaseOf(t) = "ending"
             /\ report[t] = "none" /\ ~Mine(t) => PhaseOf(t) = "new"
             /\ Mine(t) <=> Armed(t) \/ Ends(t)
             /\ Mine(t) => report[t] = "none"
  BY <1>1 DEF PhaseOf, PhaseInv, Mine, Armed, Ends
<1>3. \A t \in Takes : report[t] \in Reports
  BY <1>1
<1> QED  BY <1>2, <1>3 DEF Phased, PhaseInv, Reports

phases == [t \in Takes |-> PhaseOf(t)]

\* A take's phase depends on nothing else.
LEMMA PhaseSame ==
  ASSUME NEW t \in Takes, report'[t] = report[t], Armed(t)' = Armed(t), Ends(t)' = Ends(t)
  PROVE  PhaseOf(t)' = PhaseOf(t)
BY DEF PhaseOf, Armed, Ends

LEMMA PhasesSame ==
  ASSUME \A t \in Takes : PhaseOf(t)' = PhaseOf(t)
  PROVE  phases' = phases
BY DEF phases

LEMMA PhaseMoved ==
  ASSUME NEW t \in Takes, NEW p, PhaseOf(t)' = p,
         \A u \in Takes \ {t} : PhaseOf(u)' = PhaseOf(u)
  PROVE  phases' = [phases EXCEPT ![t] = p]
BY DEF phases

\* A block the writer adds to a file is one of a take that was begun and has
\* no verdict yet, and is later than all in the file.
LEMMA WriterSimulates ==
  ASSUME TypeOK, OrderInv, Phased, NEW u \in Takes, WriterStep(u), UNCHANGED ctlVars
  PROVE  UNCHANGED <<phases, written>> \/ Lifecycle!Grow(u)
<1>1. phases' = phases
  BY DEF phases, PhaseOf, ctlVars
<1>2. CASE UNCHANGED written
  BY <1>1, <1>2
<1>3. CASE WriteBlock(u) /\ written' = [written EXCEPT ![u] = Append(written[u], block[u])]
  <2>1. writer[u] = "writing"
    BY <1>3 DEF WriteBlock
  <2>2. phases[u] \notin {"new", "ok", "failed"}
    BY <2>1 DEF phases, Phased
  <2>3. /\ Past(block[u]) /\ Before(written[u], <<block[u]>>)
        /\ clock \in Nat /\ MaxBlocks \in Nat /\ clock <= MaxBlocks
    BY <2>1, OrderTypes DEF OrderInv, Ordered, Clocked
  <2>4. block[u] \in 1..MaxBlocks /\ \A i \in 1..Len(written[u]) : written[u][i] < block[u]
    BY <2>3, SingletonFacts DEF Past, Before
  <2>5. Lifecycle!Grow(u)
    BY <1>1, <1>3, <2>2, <2>4 DEF Lifecycle!Grow, phases
  <2> QED  BY <2>5
<1> QED
  BY <1>2, <1>3 DEF WriterStep, ReceiveBlock, WriteBlock, WaitExpires, CheckStop, LeaveLoop, FinalizeFile

LEMMA Simulation ==
  ASSUME TypeOK, OrderInv, PhaseInv, Phased, Phased', [Next]_vars
  PROVE  Lifecycle!Next \/ UNCHANGED <<phases, written>>
<1>0. /\ session \in Takes \cup {NoTake} /\ NoTake \notin Takes
      /\ ctlTake \in IF ctl = "idle" THEN {NoTake} ELSE Takes
      /\ report \in [Takes -> Reports]
      /\ ctl # "idle" => session = NoTake
  BY CaptureTapAssumption DEF TypeOK, ControlTypeOK, PhaseInv
<1> USE DEF Armed, Ends
\* What the control thread does to a take by its own steps.
<1>1. CASE InstallSink
  <2>1. \A t \in Takes : PhaseOf(t)' = PhaseOf(t)
    BY <1>0, <1>1, PhaseSame DEF InstallSink
  <2> QED  BY <1>1, <2>1, PhasesSame DEF InstallSink, writerVars
<1>2. CASE ClearTap \/ ReadFirst \/ ReadDropped \/ RaiseStopFlag \/ DrainTrash
  <2>1. \A t \in Takes : PhaseOf(t)' = PhaseOf(t)
    BY <1>0, <1>2, PhaseSame DEF ClearTap, ReadFirst, ReadDropped, RaiseStopFlag, DrainTrash
  <2> QED  BY <1>2, <2>1, PhasesSame DEF ClearTap, ReadFirst, ReadDropped, RaiseStopFlag, DrainTrash, writerVars
<1>3. CASE Decline
  <2>1. PICK t \in Takes : t = ctlTake
    BY <1>0, <1>3 DEF Decline
  <2>2. /\ ctl = "unwind" /\ ctl' = "idle" /\ ctlTake' = NoTake
        /\ report' = [report EXCEPT ![t] = "declined"] /\ UNCHANGED <<session, written>>
    BY <1>3, <2>1 DEF Decline, writerVars
  <2>3. PhaseOf(t) = "armed"
    BY <2>1, <2>2 DEF Phased
  <2>4. \A u \in Takes \ {t} : PhaseOf(u)' = PhaseOf(u)
    BY <1>0, <2>1, <2>2, PhaseSame
  <2>5. PhaseOf(t)' = "declined"
    BY <1>0, <2>2 DEF Phased
  <2>6. phases' = [phases EXCEPT ![t] = "declined"]
    BY <2>4, <2>5, PhaseMoved
  <2> QED  BY <2>2, <2>3, <2>6 DEF Lifecycle!Next, Lifecycle!Decline, phases
<1>4. CASE StopTake
  <2>1. PICK t \in Takes : t = session
    BY <1>0, <1>4 DEF StopTake
  <2>2. /\ ctl = "idle" /\ ctl' = "clear" /\ ctlTake' = t /\ session' = NoTake
        /\ UNCHANGED <<report, written>>
    BY <1>4, <2>1 DEF StopTake, writerVars
  <2>3. PhaseOf(t) = "armed" /\ PhaseOf(t)' = "ending"
    BY <2>1, <2>2 DEF Phased
  <2>4. \A u \in Takes \ {t} : PhaseOf(u)' = PhaseOf(u)
    BY <1>0, <2>1, <2>2, PhaseSame
  <2>5. phases' = [phases EXCEPT ![t] = "ending"]
    BY <2>3, <2>4, PhaseMoved
  <2> QED  BY <2>2, <2>3, <2>5 DEF Lifecycle!Next, Lifecycle!End, phases
<1>5. CASE CollectResults \/ FinalizeTimeout
  <2>1. PICK t \in Takes : t = ctlTake
    BY <1>0, <1>5 DEF CollectResults, FinalizeTimeout
  <2>2. PICK verdict \in {"ok", "failed", "timeout"} : report' = [report EXCEPT ![t] = verdict]
    BY <1>5, <2>1 DEF CollectResults, FinalizeTimeout, Verdict
  <2>3. /\ ctl = "await" /\ ctl' \in {"drain", "idle"} /\ ctlTake' \in {t, NoTake}
        /\ UNCHANGED <<session, written>>
    BY <1>5, <2>1 DEF CollectResults, FinalizeTimeout, writerVars
  <2>4. PhaseOf(t) = "ending"
    BY <2>1, <2>3 DEF Phased
  <2>5. \A u \in Takes \ {t} : PhaseOf(u)' = PhaseOf(u)
    BY <1>0, <2>1, <2>2, <2>3, PhaseSame
  <2>6. PhaseOf(t)' = verdict
    BY <1>0, <2>2 DEF Phased
  <2>7. phases' = [phases EXCEPT ![t] = verdict]
    BY <2>5, <2>6, PhaseMoved
  <2> QED  BY <2>3, <2>4, <2>7 DEF Lifecycle!Next, Lifecycle!Report, phases
\* A take begins only when none is armed or ending.
<1>6. ASSUME NEW t \in Takes, BeginTake(t) PROVE Lifecycle!Next
  <2>1. /\ ctl = "idle" /\ ctl' = "install" /\ ctlTake' = t /\ session = NoTake
        /\ writer[t] = "none" /\ UNCHANGED <<session, report, written>>
    BY <1>6 DEF BeginTake
  <2>2. PhaseOf(t) = "new" /\ PhaseOf(t)' = "armed"
    BY <2>1 DEF Phased
  <2>3. \A u \in Takes : PhaseOf(u) \notin {"armed", "ending"}
    BY <1>0, <2>1 DEF Phased, Mine
  <2>4. \A u \in Takes \ {t} : PhaseOf(u)' = PhaseOf(u)
    BY <1>0, <2>1, PhaseSame
  <2>5. phases' = [phases EXCEPT ![t] = "armed"]
    BY <2>2, <2>4, PhaseMoved
  <2> QED  BY <2>1, <2>2, <2>3, <2>5 DEF Lifecycle!Next, Lifecycle!Begin, phases
<1>7. ASSUME NEW t \in Takes, WriterStep(t), UNCHANGED ctlVars
      PROVE  Lifecycle!Next \/ UNCHANGED <<phases, written>>
  BY <1>7, WriterSimulates DEF Lifecycle!Next
<1>8. CASE UNCHANGED <<ctlVars, writer, written>>
  BY <1>8 DEF phases, PhaseOf, ctlVars
<1> QED
  BY <1>1, <1>2, <1>3, <1>4, <1>5, <1>6, <1>7, <1>8, ControlMoves

\* The recorder keeps the promises of TakeLifecycle, whatever its threads,
\* channels and streams do: one take at a time, one verdict per take, blocks in
\* the order they were played, and a file that is closed when its take is
\* reported good or failed.
THEOREM PipelineImplementsLifecycle == Spec => ImplementsLifecycle
<1>1. Init => Lifecycle!Init
  <2> SUFFICES ASSUME Init PROVE Lifecycle!Init
    OBVIOUS
  <2>1. \A t \in Takes : PhaseOf(t) = "new"
    BY CaptureTapAssumption DEF Init, PhaseOf
  <2> QED  BY <2>1 DEF Init, Lifecycle!Init
<1>2. TypeOK /\ OrderInv /\ PhaseInv /\ Phased /\ Phased' /\ [Next]_vars
        => [Lifecycle!Next]_<<[t \in Takes |-> PhaseOf(t)], written>>
  BY Simulation DEF phases
<1>3. AccountingInv => TypeOK
  BY DEF AccountingInv
<1>4. [](TypeOK /\ OrderInv /\ PhaseInv /\ Phased) /\ [][Next]_vars
        => [][Lifecycle!Next]_<<[t \in Takes |-> PhaseOf(t)], written>>
  BY <1>2, PTL
<1>5. Spec => Lifecycle!Init /\ [][Lifecycle!Next]_<<[t \in Takes |-> PhaseOf(t)], written>>
  BY <1>1, <1>3, <1>4, OrderCorrect, PhaseCorrect, PhaseFacts, PTL DEF Spec
<1> QED  BY <1>5, PTL DEF ImplementsLifecycle, Lifecycle!Spec

-----------------------------------------------------------------------------
(* The verdict.                                                            *)

\* The callback is about to stamp a block of t; it is at work on one.
Beginning(t) == IF active = t /\ cb = "stamping" THEN 1 ELSE 0
AtWork(t)    == IF active = t /\ cb \in {"stamping", "popping", "pushing"} THEN 1 ELSE 0

Closing(t) == writer[t] \in {"finalizing", "done"}

\* Only a take that is running, or about to, captures.
ArmedRuns == \A t \in Takes : armed[t] => session = t \/ (ctl = "install" /\ ctlTake = t)

StopIsMeant ==
  \A t \in Takes : stopFlag[t] /\ report[t] = "none" => ctlTake = t /\ ctl \in {"unwind", "await"}

\* The writer leaves the loop, on the sender's end or on the stop flag.
Leaves(t) == LeaveLoop(t) \/ (CheckStop(t) /\ stopFlag[t])

\* What it may leave in the queue when it goes by the flag.
Spare(t) == IF overtaken[t] THEN PoolBlocks ELSE 0

\* A writer that leaves before it is told to has a sink that is gone, and has
\* written all there is.
LeftEarly ==
  \A t \in Takes : Closing(t) /\ ~stopFlag[t] =>
    /\ ~SinkAlive(t)
    /\ ~writeError[t] => captured[t] = Len(written[t]) + dropped[t]

\* Since the drop count was read at most one block was dropped or is at hand.
Counted == ctl \in {"raise", "await"}

DropsRead ==
  Counted => dropped[ctlTake] + AtWork(ctlTake) <= droppedRead + 1

\* So a file that is closed misses at most one block beyond that count and what
\* the writer left.
ClosedMisses ==
  Counted /\ Closing(ctlTake) /\ ~writeError[ctlTake] =>
    captured[ctlTake] + Beginning(ctlTake)
      <= Len(written[ctlTake]) + Spare(ctlTake) + droppedRead + 1

OkMisses ==
  \A t \in Takes : report[t] = "ok" =>
    captured[t] + Beginning(t) <= Len(written[t]) + Spare(t) + 1

VerdictInv ==
  ArmedRuns /\ StopIsMeant /\ LeftEarly /\ DropsRead /\ ClosedMisses /\ OkMisses

\* What is captured and what is dropped of a take that is not armed is only what
\* was at hand.
LEMMA UnarmedFlow ==
  ASSUME TypeOK, BlockHasSink, [Next]_vars, NEW t \in Takes, ~armed[t]
  PROVE  /\ (captured[t] + Beginning(t))' <= captured[t] + Beginning(t)
         /\ (dropped[t] + AtWork(t))' <= dropped[t] + AtWork(t)
<1>0. /\ captured \in [Takes -> Nat] /\ dropped \in [Takes -> Nat] /\ NoTake \notin Takes
      /\ active \in Takes \cup {NoTake}
      /\ cb \in {"stamping", "popping", "pushing"} => active \in Takes
  BY CaptureTapAssumption DEF TypeOK, CallbackTypeOK, TapTypeOK, BlockHasSink
<1> USE <1>0 DEF Beginning, AtWork
<1>1. CASE UNCHANGED <<cb, active, captured, dropped>>
  BY <1>1
<1>2. CASE BeginBlock \/ CommandsDrained \/ SkipBlock
  BY <1>2 DEF BeginBlock, CommandsDrained, SkipBlock
<1>3. CASE ApplyCommand
  BY <1>3 DEF ApplyCommand, cbVars
<1>4. CASE PassGate
  BY <1>4 DEF PassGate, Capturing, tapVars
<1>5. CASE StampBlock
  BY <1>5 DEF StampBlock, tapVars
<1>6. CASE PoolDrop
  BY <1>6 DEF PoolDrop, CountDrop, tapVars
<1>7. CASE PopBlock
  BY <1>7 DEF PopBlock, tapVars
<1>8. CASE PushBlock
  <2>1. /\ cb = "pushing" /\ cb' = "waiting" /\ UNCHANGED <<active, captured>>
        /\ dropped' = dropped \/ dropped' = [dropped EXCEPT ![active] = dropped[active] + 1]
    BY <1>8 DEF PushBlock, CountDrop, tapVars
  <2> QED  BY <2>1
<1>9. CASE Decline \/ CloseStream
  BY <1>9 DEF Decline, CloseStream, CloseTap, cbVars
<1>10. CASE \E u \in Takes : WriterStep(u) \/ BeginTake(u)
  BY <1>1, <1>10 DEF WriterStep, ReceiveBlock, WriteBlock, WaitExpires, CheckStop, LeaveLoop, FinalizeFile, BeginTake,
                    cbVars, tapVars
<1>11. CASE InstallSink \/ ClearTap \/ ReadFirst \/ ReadDropped \/ RaiseStopFlag \/ CollectResults \/ DrainTrash
  BY <1>1, <1>11 DEF InstallSink, ClearTap, ReadFirst, ReadDropped, RaiseStopFlag, CollectResults, DrainTrash,
                     cbVars, tapVars
<1>12. CASE Play \/ Pause \/ StopTake \/ FinalizeTimeout \/ OpenStream \/ UNCHANGED vars
  BY <1>1, <1>12 DEF Play, Pause, StopTake, FinalizeTimeout, OpenStream, vars, cbVars, tapVars
<1> QED
  BY <1>2, <1>3, <1>4, <1>5, <1>6, <1>7, <1>8, <1>9, <1>10, <1>11, <1>12
  DEF Next, CallbackStep, ControlStep, DeclineTake, DeclineTimeout

\* Without a sink a take captures and loses nothing.
LEMMA GoneFlow ==
  ASSUME TypeOK, BlockHasSink, [Next]_vars, NEW t \in Takes, active # t
  PROVE  captured'[t] = captured[t] /\ dropped'[t] = dropped[t]
<1>0. /\ captured \in [Takes -> Nat] /\ dropped \in [Takes -> Nat]
      /\ cb \in {"stamping", "popping", "pushing"} => active \in Takes
  BY DEF TypeOK, CallbackTypeOK, TapTypeOK, BlockHasSink
<1> USE DEF cbVars
<1>1. CASE StampBlock
  BY <1>0, <1>1 DEF StampBlock
<1>2. CASE PoolDrop
  BY <1>0, <1>2 DEF PoolDrop, CountDrop
<1>3. CASE PushBlock
  <2>1. /\ active \in Takes /\ UNCHANGED captured
        /\ dropped' = dropped \/ dropped' = [dropped EXCEPT ![active] = dropped[active] + 1]
    BY <1>0, <1>3 DEF PushBlock, CountDrop
  <2> QED  BY <1>0, <2>1
<1>4. CASE BeginBlock \/ ApplyCommand \/ CommandsDrained \/ SkipBlock \/ PassGate \/ PopBlock
  BY <1>4 DEF BeginBlock, ApplyCommand, CommandsDrained, SkipBlock, PassGate, PopBlock
<1>5. CASE \E u \in Takes : WriterStep(u) \/ BeginTake(u)
  BY <1>5 DEF WriterStep, ReceiveBlock, WriteBlock, WaitExpires, CheckStop, LeaveLoop, FinalizeFile, BeginTake
<1>6. CASE ControlStep \/ Play \/ Pause \/ StopTake
  BY <1>6 DEF ControlStep, InstallSink, DeclineTake, Decline, ClearTap, ReadFirst, ReadDropped, RaiseStopFlag,
              CollectResults, DrainTrash, Play, Pause, StopTake
<1>7. CASE FinalizeTimeout \/ DeclineTimeout \/ CloseStream \/ OpenStream \/ UNCHANGED vars
  BY <1>7 DEF FinalizeTimeout, DeclineTimeout, Decline, CloseStream, OpenStream, vars
<1> QED  BY <1>1, <1>2, <1>3, <1>4, <1>5, <1>6, <1>7 DEF Next, CallbackStep

\* A sink that is gone stays gone: BeginTake makes one for each take only.
LEMMA GoneStays ==
  ASSUME TypeOK, [Next]_vars, NEW t \in Takes, writer[t] # "none", ~SinkAlive(t)
  PROVE  ~SinkAlive(t)'
<1>0. TapTypeOK /\ ControlTypeOK /\ t # NoTake
  BY CaptureTapAssumption DEF TypeOK
<1>a. /\ active # t /\ retiring # t /\ ~Held(t, cmds) /\ ~Held(t, trash)
      /\ ~(ctl = "install" /\ ctlTake = t)
  BY DEF SinkAlive
<1> DEFINE Nowhere == /\ active' # t /\ retiring' # t /\ ~Held(t, cmds') /\ ~Held(t, trash')
                      /\ ~(ctl' = "install" /\ ctlTake' = t)
<1> SUFFICES Nowhere
  BY DEF SinkAlive, Held
<1> USE <1>a DEF tapVars, ctlVars
<1>1. CASE BeginBlock
  <2>1. ~Held(t, trash')
    <3>1. CASE retiring # NoTake /\ Len(trash) < TrashCapacity
      <4>1. trash' = Append(trash, retiring) /\ retiring \in Takes
        BY <3>1, <1>1, <1>0 DEF BeginBlock, TapTypeOK
      <4> QED  BY <4>1, <1>0, HeldAppend DEF TapTypeOK
    <3> QED  BY <3>1, <1>1 DEF BeginBlock
  <2> QED  BY <2>1, <1>0, <1>1 DEF BeginBlock
<1>2. CASE ApplyCommand
  <2>1. ~Held(t, cmds') /\ active' # t
    BY <1>2, <1>0, HeldTail DEF ApplyCommand, NextCommand, TapTypeOK
  <2>2. ~Held(t, trash') /\ retiring' # t
    <3>1. CASE active # NoTake /\ Len(trash) < TrashCapacity
      <4>1. trash' = Append(trash, active) /\ active \in Takes /\ UNCHANGED retiring
        BY <3>1, <1>2, <1>0 DEF ApplyCommand, Retire, TapTypeOK
      <4> QED  BY <4>1, <1>0, HeldAppend DEF TapTypeOK
    <3> QED  BY <3>1, <1>2 DEF ApplyCommand, Retire
  <2> QED  BY <2>1, <2>2, <1>2 DEF ApplyCommand
<1>3. CASE CommandsDrained \/ SkipBlock \/ PassGate \/ StampBlock \/ PoolDrop \/ PopBlock \/ PushBlock
  BY <1>3 DEF CommandsDrained, SkipBlock, PassGate, StampBlock, PoolDrop, PopBlock, PushBlock
<1>4. CASE \E u \in Takes : WriterStep(u)
  BY <1>4 DEF WriterStep, ReceiveBlock, WriteBlock, WaitExpires, CheckStop, LeaveLoop, FinalizeFile
<1>5. ASSUME NEW u \in Takes, BeginTake(u) PROVE Nowhere
  <2>1. ~Held(t, trash') /\ u # t
    BY <1>5, HeldEmpty DEF BeginTake, Drained
  <2> QED  BY <2>1, <1>5 DEF BeginTake
<1>6. CASE InstallSink
  <2>1. ~Held(t, cmds')
    <3>1. CASE streamOpen /\ CommandFits
      <4>1. cmds' = Append(cmds, ctlTake) /\ ctlTake \in Takes /\ ctlTake # t
        BY <3>1, <1>6, <1>0 DEF InstallSink, ControlTypeOK
      <4> QED  BY <4>1, <1>0, HeldAppend DEF TapTypeOK
    <3> QED  BY <3>1, <1>6 DEF InstallSink
  <2> QED  BY <2>1, <1>6 DEF InstallSink
<1>7. CASE Decline \/ CloseStream
  <2>1. ~Held(t, cmds') /\ ~Held(t, trash')
    BY <1>7, HeldEmpty DEF Decline, CloseStream, CloseTap
  <2> QED  BY <2>1, <1>0, <1>7 DEF Decline, CloseStream, CloseTap
<1>8. CASE ClearTap
  <2>1. ~Held(t, cmds')
    BY <1>8, <1>0, HeldAppend DEF ClearTap, TapTypeOK
  <2> QED  BY <2>1, <1>8 DEF ClearTap
<1>9. CASE DrainTrash
  <2>1. ~Held(t, trash')
    BY <1>9, HeldEmpty DEF DrainTrash, Drained
  <2> QED  BY <2>1, <1>9 DEF DrainTrash
<1>10. CASE ReadFirst \/ ReadDropped \/ RaiseStopFlag \/ CollectResults \/ FinalizeTimeout \/ StopTake
  BY <1>10 DEF ReadFirst, ReadDropped, RaiseStopFlag, CollectResults, FinalizeTimeout, StopTake
<1>11. CASE Play \/ Pause \/ OpenStream \/ UNCHANGED vars
  BY <1>11 DEF Play, Pause, OpenStream, vars
<1> QED
  BY <1>1, <1>2, <1>3, <1>4, <1>5, <1>6, <1>7, <1>8, <1>9, <1>10, <1>11
  DEF Next, CallbackStep, ControlStep, DeclineTake, DeclineTimeout

\* A file that is being closed no longer grows.
LEMMA ClosingFacts ==
  ASSUME TypeOK, [Next]_vars, NEW t \in Takes
  PROVE  /\ Closing(t) => /\ Closing(t)' /\ written'[t] = written[t]
                           /\ Spare(t)' = Spare(t) /\ (writeError[t] => writeError'[t])
         /\ Closing(t)' /\ ~Closing(t) => Leaves(t)
<1>0. /\ writer \in [Takes -> WriterSteps] /\ written \in [Takes -> Seq(Nat)]
      /\ writeError \in [Takes -> BOOLEAN] /\ overtaken \in [Takes -> BOOLEAN]
  BY DEF TypeOK, WriterTypeOK
<1> USE DEF Closing, Spare
<1>1. CASE \E u \in Takes : ReceiveBlock(u)
  BY <1>0, <1>1 DEF ReceiveBlock
<1>2. CASE \E u \in Takes : WriteBlock(u)
  <2>1. PICK u \in Takes : WriteBlock(u)
    BY <1>2
  <2>2. /\ writer[u] = "writing" /\ writer' = [writer EXCEPT ![u] = "receiving"]
        /\ written' = written \/ written' = [written EXCEPT ![u] = Append(written[u], block[u])]
        /\ writeError' = writeError \/ writeError' = [writeError EXCEPT ![u] = TRUE]
        /\ UNCHANGED overtaken
    BY <2>1 DEF WriteBlock
  <2> QED  BY <1>0, <2>2
<1>10. CASE \E u \in Takes : WaitExpires(u)
  BY <1>0, <1>10 DEF WaitExpires
<1>11. CASE \E u \in Takes : CheckStop(u)
  <2>1. PICK u \in Takes : CheckStop(u)
    BY <1>11
  <2>2. /\ writer[u] = "expired" /\ UNCHANGED <<written, writeError>>
        /\ writer' = [writer EXCEPT ![u] = IF stopFlag[u] THEN "finalizing" ELSE "receiving"]
        /\ \E b \in BOOLEAN : overtaken' = [overtaken EXCEPT ![u] = b]
    BY <1>0, <2>1 DEF CheckStop, StopSeen
  <2>3. CASE u = t
    BY <1>0, <2>1, <2>2, <2>3 DEF Leaves
  <2>4. CASE u # t
    BY <1>0, <2>2, <2>4
  <2> QED  BY <2>3, <2>4
<1>3. CASE \E u \in Takes : LeaveLoop(u)
  BY <1>0, <1>3 DEF LeaveLoop, Leaves
<1>4. CASE \E u \in Takes : FinalizeFile(u)
  BY <1>0, <1>4 DEF FinalizeFile
<1>5. CASE \E u \in Takes : BeginTake(u)
  BY <1>0, <1>5 DEF BeginTake
<1>6. CASE UNCHANGED writerVars
  BY <1>6 DEF writerVars
<1>7. CASE BeginBlock \/ CallbackStep
  BY <1>6, <1>7 DEF BeginBlock, CallbackStep, ApplyCommand, CommandsDrained, SkipBlock, PassGate,
                    StampBlock, PoolDrop, PopBlock, PushBlock
<1>8. CASE ControlStep \/ Play \/ Pause \/ StopTake
  BY <1>6, <1>8 DEF ControlStep, InstallSink, DeclineTake, Decline, ClearTap, ReadFirst, ReadDropped, RaiseStopFlag,
                    CollectResults, DrainTrash, Play, Pause, StopTake
<1>9. CASE FinalizeTimeout \/ DeclineTimeout \/ CloseStream \/ OpenStream \/ UNCHANGED vars
  BY <1>6, <1>9 DEF FinalizeTimeout, DeclineTimeout, Decline, CloseStream, OpenStream, vars
<1> QED
  BY <1>1, <1>2, <1>10, <1>11, <1>3, <1>4, <1>5, <1>7, <1>8, <1>9 DEF Next, WriterStep

\* Gates and flags are the control thread's.
LEMMA FlagMoves ==
  ASSUME [Next]_vars
  PROVE  \/ InstallSink \/ Decline \/ StopTake \/ ClearTap \/ ReadFirst \/ ReadDropped \/ RaiseStopFlag
         \/ CollectResults \/ FinalizeTimeout \/ DrainTrash \/ Pause
         \/ \E t \in Takes : BeginTake(t)
         \/ UNCHANGED <<ctlVars, armed, stopFlag>>
<1>1. CASE BeginBlock \/ CallbackStep
  BY <1>1 DEF BeginBlock, CallbackStep, ApplyCommand, CommandsDrained, SkipBlock, PassGate,
              StampBlock, PoolDrop, PopBlock, PushBlock
<1>2. ASSUME NEW t \in Takes, WriterStep(t) PROVE UNCHANGED <<ctlVars, armed, stopFlag>>
  BY <1>2 DEF WriterStep, ReceiveBlock, WriteBlock, WaitExpires, CheckStop, LeaveLoop, FinalizeFile
<1>3. CASE Play \/ CloseStream \/ OpenStream \/ UNCHANGED vars
  BY <1>3 DEF Play, CloseStream, OpenStream, vars
<1> QED  BY <1>1, <1>2, <1>3 DEF Next, ControlStep, DeclineTake, DeclineTimeout

LEMMA FlagsNext ==
  TypeOK /\ PhaseInv /\ ArmedRuns /\ StopIsMeant /\ [Next]_vars => ArmedRuns' /\ StopIsMeant'
<1> SUFFICES ASSUME TypeOK, PhaseInv, ArmedRuns, StopIsMeant, [Next]_vars
             PROVE  ArmedRuns' /\ StopIsMeant'
  OBVIOUS
<1>0. /\ armed \in [Takes -> BOOLEAN] /\ stopFlag \in [Takes -> BOOLEAN]
      /\ session \in Takes \cup {NoTake} /\ NoTake \notin Takes
      /\ ctlTake \in IF ctl = "idle" THEN {NoTake} ELSE Takes
      /\ report \in [Takes -> Reports] /\ (ctl # "idle" => session = NoTake)
      /\ session # NoTake => report[session] = "none"
  BY CaptureTapAssumption DEF TypeOK, ControlTypeOK, PhaseInv, Mine
<1> USE <1>0 DEF ArmedRuns, StopIsMeant
<1>1. CASE InstallSink
  BY <1>1 DEF InstallSink
<1>2. CASE Decline
  BY <1>2 DEF Decline
<1>3. CASE StopTake
  BY <1>3 DEF StopTake
<1>4. CASE ClearTap
  BY <1>4 DEF ClearTap
<1>5a. CASE ReadFirst
  BY <1>5a DEF ReadFirst
<1>5b. CASE ReadDropped
  BY <1>5b DEF ReadDropped
<1>5. CASE RaiseStopFlag
  BY <1>5 DEF RaiseStopFlag
<1>6. CASE CollectResults
  <2>1. Verdict(ctlTake) # "none"
    BY DEF Verdict
  <2> QED  BY <1>6, <2>1 DEF CollectResults
<1>7. CASE FinalizeTimeout
  BY <1>7 DEF FinalizeTimeout
<1>8. CASE DrainTrash
  BY <1>8 DEF DrainTrash
<1>9. CASE Pause
  BY <1>9 DEF Pause, ctlVars
<1>10. CASE \E t \in Takes : BeginTake(t)
  BY <1>10 DEF BeginTake
<1>11. CASE UNCHANGED <<ctlVars, armed, stopFlag>>
  BY <1>11 DEF ctlVars
<1> QED
  BY <1>1, <1>2, <1>3, <1>4, <1>5a, <1>5b, <1>5, <1>6, <1>7, <1>8, <1>9, <1>10, <1>11, FlagMoves

\* Only ReadDropped reads the drop count, before the wait; a stop flag stays
\* up; only CollectResults reports a take good.
LEMMA StopMoves ==
  ASSUME TypeOK, [Next]_vars
  PROVE  /\ Counted' =>
              ReadDropped \/ (Counted /\ UNCHANGED <<ctlTake, droppedRead>>)
         /\ \A t \in Takes : stopFlag[t] => stopFlag'[t]
         /\ \A t \in Takes : report'[t] = "ok" =>
              report[t] = "ok" \/ (CollectResults /\ t = ctlTake)
<1>0. stopFlag \in [Takes -> BOOLEAN] /\ report \in [Takes -> Reports]
  BY DEF TypeOK, ControlTypeOK
<1> USE DEF Counted
<1>1. CASE InstallSink
  BY <1>0, <1>1 DEF InstallSink
<1>2. CASE Decline
  BY <1>0, <1>2 DEF Decline
<1>3. CASE StopTake
  BY <1>3 DEF StopTake
<1>4. CASE ClearTap
  BY <1>4 DEF ClearTap
<1>5a. CASE ReadFirst
  BY <1>0, <1>5a DEF ReadFirst
<1>5b. CASE ReadDropped
  BY <1>0, <1>5b DEF ReadDropped
<1>5. CASE RaiseStopFlag
  BY <1>0, <1>5 DEF RaiseStopFlag
<1>6. CASE CollectResults
  BY <1>0, <1>6 DEF CollectResults
<1>7. CASE FinalizeTimeout
  BY <1>0, <1>7 DEF FinalizeTimeout
<1>8. CASE DrainTrash
  BY <1>8 DEF DrainTrash
<1>9. CASE Pause
  BY <1>9 DEF Pause, ctlVars
<1>10. CASE \E t \in Takes : BeginTake(t)
  BY <1>10 DEF BeginTake
<1>11. CASE UNCHANGED <<ctlVars, armed, stopFlag>>
  BY <1>11 DEF ctlVars
<1> QED
  BY <1>1, <1>2, <1>3, <1>4, <1>5a, <1>5b, <1>5, <1>6, <1>7, <1>8, <1>9, <1>10, <1>11, FlagMoves

\* A take without a sink is not at hand.
LEMMA GoneFacts ==
  ASSUME NEW t \in Takes, ~SinkAlive(t)
  PROVE  active # t /\ Beginning(t) = 0 /\ AtWork(t) = 0 /\ InFlight(t) = 0
BY DEF SinkAlive, Beginning, AtWork, InFlight

LEMMA CountTypes ==
  ASSUME TypeOK, NEW t \in Takes
  PROVE  /\ captured[t] \in Nat /\ dropped[t] \in Nat /\ Len(written[t]) \in Nat
         /\ Len(queue[t]) \in Nat /\ droppedRead \in Nat
         /\ Beginning(t) \in Nat /\ InFlight(t) \in Nat
         /\ AtWork(t) = Beginning(t) + InFlight(t) /\ AtWork(t) <= 1
<1>1. written[t] \in Seq(Nat) /\ queue[t] \in Seq(Nat)
  BY DEF TypeOK, WriterTypeOK
<1>2. captured[t] \in Nat /\ dropped[t] \in Nat /\ droppedRead \in Nat
  BY DEF TypeOK, CallbackTypeOK, ControlTypeOK
<1>3. Len(written[t]) \in Nat /\ Len(queue[t]) \in Nat
  BY <1>1
<1>4. /\ Beginning(t) \in Nat /\ InFlight(t) \in Nat
      /\ AtWork(t) = Beginning(t) + InFlight(t) /\ AtWork(t) <= 1
  BY DEF Beginning, InFlight, AtWork
<1> QED  BY <1>2, <1>3, <1>4

\* A writer that leaves has written all that was captured, except what was
\* dropped, is at hand, or was queued since its last wait.
LEMMA LeavingFacts ==
  ASSUME TypeOK, PoolConserved, CaptureAccounted, NEW t \in Takes, Leaves(t), ~writeError[t]
  PROVE  /\ captured[t] = Len(written[t]) + Len(queue[t]) + InFlight(t) + dropped[t]
         /\ Len(queue[t]) <= Spare(t)' /\ Spare(t)' \in Nat
         /\ UNCHANGED <<written, writeError>>
         /\ ~stopFlag[t] => ~SinkAlive(t) /\ queue[t] = <<>>
<1>0. /\ overtaken \in [Takes -> BOOLEAN] /\ free[t] \in Nat /\ queue[t] \in Seq(Nat)
      /\ PoolBlocks \in Nat
  BY CaptureTapAssumption DEF TypeOK, WriterTypeOK
<1>1. writer[t] \in {"receiving", "expired"} /\ UNCHANGED <<written, writeError>>
  BY DEF Leaves, LeaveLoop, CheckStop
<1>2. BlocksAccounted(t) /\ PoolBalanced(t)
  BY <1>1 DEF CaptureAccounted, PoolConserved, Running
<1>3. InWriter(t) = 0 /\ InCallback(t) \in {0, 1} /\ Len(queue[t]) \in Nat
  BY <1>0, <1>1 DEF InWriter, InCallback
<1>4. Len(queue[t]) <= PoolBlocks
  BY <1>0, <1>2, <1>3 DEF PoolBalanced
<1>5. CASE LeaveLoop(t)
  <2>1. queue[t] = <<>> /\ ~SinkAlive(t)
    BY <1>5 DEF LeaveLoop, Disconnected
  <2>2. Len(queue[t]) = 0
    BY <2>1, EmptyFacts
  <2>3. Spare(t)' \in Nat
    BY <1>0 DEF Spare
  <2> QED  BY <1>1, <1>2, <1>3, <2>1, <2>2, <2>3, CountTypes DEF BlocksAccounted
<1>6. CASE CheckStop(t) /\ stopFlag[t]
  <2>1. overtaken' = [overtaken EXCEPT ![t] = overtaken[t] \/ queue[t] # <<>>]
    BY <1>0, <1>6 DEF CheckStop, StopSeen
  <2>2. queue[t] # <<>> => Spare(t)' = PoolBlocks
    BY <1>0, <2>1 DEF Spare
  <2>3. Spare(t)' \in Nat /\ (queue[t] = <<>> => Len(queue[t]) = 0)
    BY <1>0, EmptyFacts DEF Spare
  <2> QED  BY <1>1, <1>2, <1>3, <1>4, <1>6, <2>2, <2>3, CountTypes DEF BlocksAccounted
<1> QED  BY <1>5, <1>6 DEF Leaves

LEMMA LeftEarlyNext == AccountingInv /\ LeftEarly /\ [Next]_vars => LeftEarly'
<1> SUFFICES ASSUME AccountingInv, LeftEarly, [Next]_vars, NEW t \in Takes,
                    Closing(t)', ~stopFlag'[t]
             PROVE  /\ ~SinkAlive(t)'
                    /\ ~writeError'[t] => captured'[t] = Len(written'[t]) + dropped'[t]
  BY DEF LeftEarly
<1>0. TypeOK /\ BlockHasSink /\ PoolConserved /\ CaptureAccounted
  BY DEF AccountingInv
<1>1. ~stopFlag[t]
  BY <1>0, StopMoves
<1>2. ~SinkAlive(t) /\ writer[t] # "none"
      /\ (~writeError[t] => captured[t] = Len(written[t]) + dropped[t])
  <2>1. CASE Closing(t)
    BY <1>1, <2>1 DEF LeftEarly, Closing
  <2>2. CASE Leaves(t)
    <3>1. ~SinkAlive(t) /\ writer[t] = "receiving"
      BY <1>1, <2>2 DEF Leaves, LeaveLoop, Disconnected
    <3>2. ~writeError[t] =>
            /\ captured[t] = Len(written[t]) + Len(queue[t]) + InFlight(t) + dropped[t]
            /\ queue[t] = <<>>
      BY <1>0, <1>1, <2>2, LeavingFacts
    <3>3. Len(written[t]) \in Nat /\ dropped[t] \in Nat /\ InFlight(t) = 0
      BY <1>0, <3>1, CountTypes, GoneFacts
    <3>4. queue[t] = <<>> => Len(queue[t]) = 0
      BY EmptyFacts
    <3>5. ~writeError[t] => captured[t] = Len(written[t]) + dropped[t]
      <4> SUFFICES ASSUME ~writeError[t] PROVE captured[t] = Len(written[t]) + dropped[t]
        OBVIOUS
      <4>1. captured[t] = Len(written[t]) + Len(queue[t]) + InFlight(t) + dropped[t]
        BY <3>2
      <4>2. Len(queue[t]) = 0
        BY <3>2, <3>4
      <4> QED  BY <3>3, <4>1, <4>2
    <3> QED  BY <3>1, <3>5
  <2> QED  BY <1>0, <2>1, <2>2, ClosingFacts
<1>3. captured'[t] = captured[t] /\ dropped'[t] = dropped[t]
  BY <1>0, <1>2, GoneFacts, GoneFlow
<1>4. written'[t] = written[t] /\ (writeError[t] => writeError'[t])
  <2>1. CASE Closing(t)
    BY <1>0, <2>1, ClosingFacts
  <2>2. CASE Leaves(t)
    BY <2>2 DEF Leaves, LeaveLoop, CheckStop
  <2> QED  BY <1>0, <2>1, <2>2, ClosingFacts
<1>5. ~SinkAlive(t)'
  BY <1>0, <1>2, GoneStays
<1> QED  BY <1>2, <1>3, <1>4, <1>5

LEMMA DropsReadNext ==
  AccountingInv /\ PhaseInv /\ ArmedRuns /\ DropsRead /\ [Next]_vars => DropsRead'
<1> SUFFICES ASSUME AccountingInv, PhaseInv, ArmedRuns, DropsRead, [Next]_vars, Counted'
             PROVE  (dropped[ctlTake] + AtWork(ctlTake) <= droppedRead + 1)'
  BY DEF DropsRead
<1>0. TypeOK /\ BlockHasSink
  BY DEF AccountingInv
<1>1. ctl \in {"count", "raise", "await"} /\ ctlTake' = ctlTake
  BY <1>0, StopMoves DEF ReadDropped, Counted
<1>2. PICK t \in Takes : t = ctlTake
  BY <1>0, <1>1 DEF TypeOK, ControlTypeOK
<1>3. ~armed[t]
  BY <1>1, <1>2, CaptureTapAssumption DEF ArmedRuns, PhaseInv
<1>4. (dropped[t] + AtWork(t))' <= dropped[t] + AtWork(t)
  BY <1>0, <1>3, UnarmedFlow
<1>5. dropped[t] + AtWork(t) <= droppedRead' + 1 /\ droppedRead' \in Nat
  <2>1. CASE ReadDropped
    <3>1. droppedRead' = dropped[t]
      BY <1>2, <2>1 DEF ReadDropped
    <3>2. dropped[t] \in Nat /\ AtWork(t) \in 0..1
      BY <1>0, CountTypes DEF AtWork
    <3> QED  BY <3>1, <3>2
  <2>2. CASE Counted /\ UNCHANGED <<ctlTake, droppedRead>>
    BY <1>0, <1>2, <2>2, CountTypes DEF DropsRead
  <2> QED  BY <1>0, <2>1, <2>2, StopMoves
<1>6. (dropped[t] + AtWork(t))' \in Nat
  <2>1. TypeOK'
    BY <1>0, TypeNext
  <2>2. dropped'[t] \in Nat
    BY <2>1 DEF TypeOK, CallbackTypeOK
  <2> QED  BY <2>2 DEF AtWork
<1>7. (dropped[t] + AtWork(t))' <= droppedRead' + 1
  BY <1>0, <1>4, <1>5, <1>6, CountTypes
<1>8. t = ctlTake'
  BY <1>1, <1>2
<1> QED  BY <1>7, <1>8 DEF AtWork

LEMMA ClosedMissesNext ==
  AccountingInv /\ PhaseInv /\ VerdictInv /\ [Next]_vars => ClosedMisses'
<1> SUFFICES ASSUME AccountingInv, PhaseInv, VerdictInv, [Next]_vars, Counted',
                    Closing(ctlTake)', ~writeError'[ctlTake']
             PROVE  (captured[ctlTake] + Beginning(ctlTake)
                       <= Len(written[ctlTake]) + Spare(ctlTake) + droppedRead + 1)'
  BY DEF ClosedMisses, Closing
<1>0. /\ TypeOK /\ BlockHasSink /\ PoolConserved /\ CaptureAccounted /\ ArmedRuns /\ StopIsMeant /\ LeftEarly
      /\ DropsRead /\ ClosedMisses
  BY DEF AccountingInv, VerdictInv
<1>1. ctl \in {"count", "raise", "await"} /\ ctlTake' = ctlTake
  BY <1>0, StopMoves DEF ReadDropped, Counted
<1>2. PICK t \in Takes : t = ctlTake
  BY <1>0, <1>1 DEF TypeOK, ControlTypeOK
<1>3. ~armed[t] /\ t = ctlTake'
  BY <1>0, <1>1, <1>2, CaptureTapAssumption DEF ArmedRuns, PhaseInv
<1>4. Closing(t)' /\ ~writeError'[t]
  BY <1>3 DEF Closing
<1>5. (captured[t] + Beginning(t))' <= captured[t] + Beginning(t)
  BY <1>0, <1>3, UnarmedFlow
<1>6. /\ captured[t] + Beginning(t) <= Len(written[t]) + Spare(t)' + droppedRead' + 1
      /\ droppedRead' \in Nat /\ Spare(t)' \in Nat /\ written'[t] = written[t]
  <2>0. Spare(t)' \in Nat
    BY CaptureTapAssumption DEF Spare
  <2>1. CASE ReadDropped
    <3>1. UNCHANGED <<writer, written, writeError>> /\ droppedRead' = dropped[t] /\ ctl = "count"
      BY <1>2, <2>1 DEF ReadFirst, ReadDropped, RaiseStopFlag, writerVars
    <3>2. report[t] = "none"
      BY <1>2, <3>1 DEF PhaseInv, Mine
    <3>3. ~stopFlag[t]
      BY <1>0, <1>2, <3>1, <3>2 DEF StopIsMeant
    <3>4. ~SinkAlive(t) /\ captured[t] = Len(written[t]) + dropped[t]
      BY <1>0, <1>4, <3>1, <3>3 DEF LeftEarly, Closing
    <3>5. /\ captured[t] \in Nat /\ Len(written[t]) \in Nat /\ dropped[t] \in Nat
          /\ Beginning(t) = 0
      BY <1>0, <3>4, CountTypes, GoneFacts
    <3> QED  BY <2>0, <3>1, <3>4, <3>5
  <2>2. CASE Counted /\ UNCHANGED <<ctlTake, droppedRead>> /\ Closing(t)
    <3>1. /\ written'[t] = written[t] /\ Spare(t)' = Spare(t)
          /\ writeError[t] => writeError'[t]
      BY <1>0, <2>2, ClosingFacts
    <3>2. captured[t] + Beginning(t) <= Len(written[t]) + Spare(t) + droppedRead + 1
      BY <1>0, <1>2, <1>4, <2>2, <3>1 DEF ClosedMisses
    <3> QED  BY <1>0, <2>0, <2>2, <3>1, <3>2, CountTypes
  <2>3. CASE Counted /\ UNCHANGED <<ctlTake, droppedRead>> /\ ~Closing(t)
    <3>1. Leaves(t)
      BY <1>0, <1>4, <2>3, ClosingFacts
    <3>2. UNCHANGED <<written, writeError>>
      BY <3>1 DEF Leaves, LeaveLoop, CheckStop
    <3>3. /\ captured[t] = Len(written[t]) + Len(queue[t]) + InFlight(t) + dropped[t]
          /\ Len(queue[t]) <= Spare(t)'
      BY <1>0, <1>4, <3>1, <3>2, LeavingFacts
    <3>4. dropped[t] + AtWork(t) <= droppedRead + 1
      BY <1>0, <1>2, <2>3 DEF DropsRead
    <3>5. /\ Len(written[t]) \in Nat /\ dropped[t] \in Nat /\ droppedRead \in Nat
          /\ Beginning(t) \in Nat /\ InFlight(t) \in Nat /\ AtWork(t) = Beginning(t) + InFlight(t)
          /\ Len(queue[t]) \in Nat
      BY <1>0, CountTypes
    <3>6. captured[t] + Beginning(t) <= Len(written[t]) + Spare(t)' + droppedRead + 1
      <4> DEFINE q == Len(queue[t])
                 spare == Spare(t)'
      <4>1. /\ captured[t] = Len(written[t]) + q + InFlight(t) + dropped[t]
            /\ q <= spare /\ q \in Nat /\ spare \in Nat
        BY <2>0, <3>3, <3>5
      <4> HIDE DEF q, spare
      <4>2. captured[t] + Beginning(t) <= Len(written[t]) + spare + droppedRead + 1
        BY <3>4, <3>5, <4>1
      <4> QED  BY <4>2 DEF spare
    <3>7. droppedRead' = droppedRead /\ written'[t] = written[t]
      BY <2>3, <3>2
    <3> QED  BY <2>0, <3>5, <3>6, <3>7
  <2> QED  BY <1>0, <2>1, <2>2, <2>3, StopMoves
<1>7. (captured[t] + Beginning(t))' \in Nat /\ captured[t] + Beginning(t) \in Nat
      /\ Len(written[t]) \in Nat
  <2>1. TypeOK'
    BY <1>0, TypeNext
  <2>2. captured'[t] \in Nat
    BY <2>1 DEF TypeOK, CallbackTypeOK
  <2> QED  BY <1>0, <2>2, CountTypes DEF Beginning
<1>8. (captured[t] + Beginning(t))' <= Len(written'[t]) + Spare(t)' + droppedRead' + 1
  BY <1>5, <1>6, <1>7
<1> QED  BY <1>3, <1>8 DEF Beginning, Spare

LEMMA OkMissesNext ==
  AccountingInv /\ PhaseInv /\ VerdictInv /\ [Next]_vars => OkMisses'
<1> SUFFICES ASSUME AccountingInv, PhaseInv, VerdictInv, [Next]_vars,
                    NEW t \in Takes, report'[t] = "ok"
             PROVE  (captured[t] + Beginning(t) <= Len(written[t]) + Spare(t) + 1)'
  BY DEF OkMisses
<1>0. TypeOK /\ BlockHasSink /\ ArmedRuns /\ ClosedMisses /\ OkMisses
  BY DEF AccountingInv, VerdictInv
<1>1. /\ captured[t] \in Nat /\ Beginning(t) \in Nat /\ Len(written[t]) \in Nat
      /\ droppedRead \in Nat /\ Spare(t) \in Nat
  BY <1>0, CountTypes, CaptureTapAssumption DEF Spare
<1>2. CASE report[t] = "ok"
  <2>1. ~armed[t]
    BY <1>0, <1>2, CaptureTapAssumption DEF ArmedRuns, PhaseInv, Mine
  <2>2. written'[t] = written[t] /\ Spare(t)' = Spare(t)
    BY <1>0, <1>2, ClosingFacts DEF PhaseInv, Closing
  <2>3. (captured[t] + Beginning(t))' <= captured[t] + Beginning(t)
    BY <1>0, <2>1, UnarmedFlow
  <2>4. (captured[t] + Beginning(t))' \in Nat
    <3>1. TypeOK'
      BY <1>0, TypeNext
    <3>2. captured'[t] \in Nat
      BY <3>1 DEF TypeOK, CallbackTypeOK
    <3> QED  BY <3>2 DEF Beginning
  <2>5. captured[t] + Beginning(t) <= Len(written[t]) + Spare(t) + 1
    BY <1>0, <1>2 DEF OkMisses
  <2> QED  BY <1>1, <2>2, <2>3, <2>4, <2>5
<1>3. CASE CollectResults /\ t = ctlTake
  <2>1. /\ ctl = "await" /\ writer[t] = "done" /\ report' = [report EXCEPT ![t] = Verdict(t)]
        /\ UNCHANGED <<captured, active, cb, written, overtaken>>
    BY <1>3 DEF CollectResults, ResultsIn, cbVars, tapVars, writerVars
  <2>2. report \in [Takes -> Reports]
    BY <1>0 DEF TypeOK, ControlTypeOK
  <2>3. Verdict(t) = "ok"
    BY <2>1, <2>2
  <2>4. ~(droppedRead > 0) /\ ~writeError[t]
    BY <2>3 DEF Verdict
  <2>5. captured[t] + Beginning(t) <= Len(written[t]) + Spare(t) + droppedRead + 1
    BY <1>0, <1>3, <2>1, <2>4 DEF ClosedMisses, Closing, Counted
  <2>6. captured[t] + Beginning(t) <= Len(written[t]) + Spare(t) + 1
    BY <1>1, <2>4, <2>5
  <2> QED  BY <2>1, <2>6 DEF Beginning, Spare
<1> QED  BY <1>0, <1>2, <1>3, StopMoves

LEMMA VerdictCorrect == Spec => [](AccountingInv /\ PhaseInv /\ VerdictInv)
<1>1. Init => VerdictInv
  BY DEF Init, VerdictInv, ArmedRuns, StopIsMeant, LeftEarly, DropsRead, ClosedMisses, OkMisses,
         Closing, Counted
<1>2. AccountingInv /\ PhaseInv /\ VerdictInv /\ [Next]_vars => VerdictInv'
  <2>1. AccountingInv => TypeOK
    BY DEF AccountingInv
  <2> QED
    BY <2>1, FlagsNext, LeftEarlyNext, DropsReadNext, ClosedMissesNext, OkMissesNext DEF VerdictInv
<1> QED  BY <1>1, <1>2, AccountingCorrect, PhaseCorrect, PTL DEF Spec

\* A take reported good misses the one block in flight when stop_recording read
\* dropped_blocks, and what was queued between the writer's last timeout and its
\* look at the stop flag, which the queue bounds; and never another.
THEOREM GoodReportsAreTrue == Spec => []OkMissesOnlyTheTail
<1>1. AccountingInv /\ VerdictInv => OkMissesOnlyTheTail
  <2> SUFFICES ASSUME AccountingInv, VerdictInv, NEW t \in Takes, report[t] = "ok"
               PROVE  captured[t] <= Len(written[t]) + 1 + Spare(t)
    BY DEF OkMissesOnlyTheTail, Spare
  <2>1. TypeOK /\ captured[t] + Beginning(t) <= Len(written[t]) + Spare(t) + 1
    BY DEF AccountingInv, VerdictInv, OkMisses
  <2>2. captured[t] \in Nat /\ Beginning(t) \in Nat /\ Len(written[t]) \in Nat
        /\ Spare(t) \in Nat
    BY <2>1, CountTypes, CaptureTapAssumption DEF Spare
  <2> QED  BY <2>1, <2>2
<1> QED  BY <1>1, VerdictCorrect, PTL

-----------------------------------------------------------------------------
(* The placement.                                                          *)

Untouched(t) ==
  written[t] = <<>> /\ queue[t] = <<>> /\ writer[t] # "writing" /\ InFlight(t) = 0

\* The stamp is not later than any block of the take.
NotBefore(t) ==
  /\ first[t] <= clock
  /\ \A i \in 1..Len(written[t]) : first[t] <= written[t][i]
  /\ \A i \in 1..Len(queue[t]) : first[t] <= queue[t][i]
  /\ writer[t] = "writing" => first[t] <= block[t]

\* If none was dropped it is that of the oldest one.
Leads(t) ==
  /\ written[t] # <<>> => written[t][1] = first[t]
  /\ written[t] = <<>> /\ ~writeError[t] /\ ~Closing(t) =>
       /\ writer[t] = "writing" => block[t] = first[t]
       /\ writer[t] # "writing" /\ queue[t] # <<>> => queue[t][1] = first[t]
       /\ writer[t] # "writing" /\ queue[t] = <<>> /\ InFlight(t) = 1 => clock = first[t]

Placed(t) ==
  /\ first[t] = 0 <=> captured[t] = 0
  /\ captured[t] = 0 => Untouched(t)
  /\ NotBefore(t)
  /\ dropped[t] = 0 => Leads(t)

\* stop_recording read it, or there was nothing to read and there will be one
\* block at most.
StampRead ==
  ctl \in {"count", "raise", "await", "drain"} =>
    \/ firstRead # 0 /\ firstRead = first[ctlTake]
    \/ firstRead = 0 /\ captured[ctlTake] + Beginning(ctlTake) <= 1

PlaceInv == StampRead /\ \A t \in Takes : Placed(t)

LEMMA PlaceTypes ==
  ASSUME TypeOK
  PROVE  /\ first \in [Takes -> Nat] /\ captured \in [Takes -> Nat] /\ dropped \in [Takes -> Nat]
         /\ clock \in Nat /\ queue \in [Takes -> Seq(Nat)] /\ written \in [Takes -> Seq(Nat)]
         /\ block \in [Takes -> Nat] /\ writer \in [Takes -> WriterSteps]
         /\ writeError \in [Takes -> BOOLEAN]
BY DEF TypeOK, CallbackTypeOK, WriterTypeOK

\* Only StampBlock captures; no step counts a drop away.
LEMMA StampMoves ==
  ASSUME TypeOK, BlockHasSink, [Next]_vars
  PROVE  /\ StampBlock \/ (/\ UNCHANGED <<first, captured, clock>>
                           /\ \A t \in Takes : InFlight(t)' = 1 => InFlight(t) = 1)
         /\ \A t \in Takes : dropped'[t] = 0 => dropped[t] = 0
<1>0. dropped \in [Takes -> Nat] /\ (cb \in {"popping", "pushing"} => active \in Takes)
  BY DEF TypeOK, CallbackTypeOK, TapTypeOK, BlockHasSink
<1> USE DEF InFlight
<1>1. CASE UNCHANGED <<cbVars, active>>
  BY <1>1 DEF cbVars
<1>2. CASE BeginBlock \/ ApplyCommand \/ CommandsDrained \/ SkipBlock \/ PassGate
  BY <1>2 DEF BeginBlock, ApplyCommand, CommandsDrained, SkipBlock, PassGate, tapVars, cbVars
<1>3. CASE StampBlock
  BY <1>3 DEF StampBlock
<1>4. CASE PoolDrop
  BY <1>0, <1>4 DEF PoolDrop, CountDrop, tapVars
<1>5. CASE PopBlock
  BY <1>5 DEF PopBlock, tapVars
<1>6. CASE PushBlock
  <2>1. /\ cb' = "waiting" /\ UNCHANGED <<first, captured, clock>> /\ active \in Takes
        /\ dropped' = dropped \/ dropped' = [dropped EXCEPT ![active] = dropped[active] + 1]
    BY <1>0, <1>6 DEF PushBlock, CountDrop
  <2> QED  BY <1>0, <2>1
<1>7. CASE Decline \/ CloseStream
  BY <1>7 DEF Decline, CloseStream, CloseTap, cbVars
<1>8. CASE \E u \in Takes : WriterStep(u) \/ BeginTake(u)
  BY <1>1, <1>8 DEF WriterStep, ReceiveBlock, WriteBlock, WaitExpires, CheckStop, LeaveLoop, FinalizeFile, BeginTake,
                    tapVars
<1>9. CASE InstallSink \/ ClearTap \/ ReadFirst \/ ReadDropped \/ RaiseStopFlag \/ CollectResults \/ DrainTrash
  BY <1>1, <1>9 DEF InstallSink, ClearTap, ReadFirst, ReadDropped, RaiseStopFlag, CollectResults, DrainTrash, tapVars
<1>10. CASE Play \/ Pause \/ StopTake \/ FinalizeTimeout \/ OpenStream \/ UNCHANGED vars
  BY <1>1, <1>10 DEF Play, Pause, StopTake, FinalizeTimeout, OpenStream, vars, tapVars
<1> QED
  BY <1>2, <1>3, <1>4, <1>5, <1>6, <1>7, <1>8, <1>9, <1>10
  DEF Next, CallbackStep, ControlStep, DeclineTake, DeclineTimeout

\* The placement of a take moves with its blocks only.
LEMMA PlacedKept ==
  ASSUME NEW t \in Takes, Placed(t),
         UNCHANGED <<written[t], queue[t], block[t], writer[t], writeError[t]>>,
         UNCHANGED <<first[t], captured[t], clock>>,
         InFlight(t)' = 1 => InFlight(t) = 1, dropped'[t] = 0 => dropped[t] = 0
  PROVE  Placed(t)'
<1>1. InFlight(t) \in {0, 1} /\ InFlight(t)' \in {0, 1}
  BY DEF InFlight
<1> QED  BY <1>1 DEF Placed, Untouched, NotBefore, Leads, Closing

\* The first block gives the stamp; when a later one is stamped there is a block
\* of the take before it, unless one was dropped.
LEMMA StampPlaced ==
  ASSUME TypeOK, BlockHasSink, UnbegunUnowned, CaptureAccounted, StampBlock,
         NEW t \in Takes, Placed(t)
  PROVE  Placed(t)'
<1>0. /\ first \in [Takes -> Nat] /\ captured \in [Takes -> Nat] /\ clock \in Nat
      /\ queue[t] \in Seq(Nat) /\ written[t] \in Seq(Nat) /\ block[t] \in Nat
      /\ \A i \in 1..Len(queue[t]) : queue[t][i] \in Nat
      /\ \A i \in 1..Len(written[t]) : written[t][i] \in Nat
  BY OrderTypes, PlaceTypes
<1>1. /\ cb = "stamping" /\ cb' = "popping" /\ clock' = clock + 1
      /\ captured' = [captured EXCEPT ![active] = captured[active] + 1]
      /\ first' = [first EXCEPT ![active] = FirstStamp(first[active])]
      /\ UNCHANGED <<active, dropped, written, queue, block, writer, writeError>>
  BY DEF StampBlock, tapVars, writerVars
<1>2. CASE active # t
  <2>1. /\ captured'[t] = captured[t] /\ first'[t] = first[t]
        /\ InFlight(t)' = 0 /\ InFlight(t) = 0 /\ first[t] \in Nat
    BY <1>0, <1>1, <1>2 DEF InFlight
  <2>2. NotBefore(t)'
    BY <1>0, <1>1, <2>1 DEF Placed, NotBefore
  <2> QED  BY <1>1, <2>1, <2>2 DEF Placed, Untouched, Leads, Closing
<1>3. CASE active = t /\ captured[t] = 0
  <2>1. /\ captured'[t] = 1 /\ first'[t] = clock + 1 /\ first'[t] # 0 /\ captured'[t] # 0
    BY <1>0, <1>1, <1>3 DEF Placed, FirstStamp
  <2>2. written'[t] = <<>> /\ queue'[t] = <<>> /\ writer'[t] # "writing"
    BY <1>1, <1>3 DEF Placed, Untouched
  <2>3. \A i : i \notin 1..Len(written'[t]) /\ i \notin 1..Len(queue'[t])
    BY <2>2, EmptyFacts
  <2>4. NotBefore(t)'
    BY <1>0, <1>1, <2>1, <2>2, <2>3 DEF NotBefore
  <2>5. Leads(t)'
    BY <1>1, <2>1, <2>2 DEF Leads
  <2> QED  BY <2>1, <2>4, <2>5 DEF Placed
<1>4. CASE active = t /\ captured[t] # 0
  <2>1. first[t] # 0 /\ first[t] \in Nat /\ captured[t] \in Nat
    BY <1>0, <1>4 DEF Placed
  <2>2. captured'[t] = captured[t] + 1 /\ captured'[t] # 0 /\ first'[t] = first[t]
    BY <1>0, <1>1, <1>4, <2>1 DEF FirstStamp
  <2>3. NotBefore(t)'
    BY <1>0, <1>1, <2>1, <2>2 DEF Placed, NotBefore
  <2>4. dropped[t] = 0 /\ written[t] = <<>> /\ ~writeError[t] /\ ~Closing(t)
          /\ writer[t] # "writing" /\ queue[t] = <<>> => FALSE
    <3> SUFFICES ASSUME dropped[t] = 0, written[t] = <<>>, ~writeError[t], ~Closing(t),
                        writer[t] # "writing", queue[t] = <<>>
                 PROVE  FALSE
      OBVIOUS
    <3>1. writer[t] # "none"
      BY <1>4 DEF UnbegunUnowned, Unowned
    <3>2. writer[t] \in WriterSteps
      BY PlaceTypes
    <3>3. Running(t)
      BY <3>1, <3>2 DEF Running, Closing, WriterSteps
    <3>4. BlocksAccounted(t)
      BY <3>3 DEF CaptureAccounted
    <3>5. InFlight(t) = 0 /\ InWriter(t) = 0 /\ Len(written[t]) = 0 /\ Len(queue[t]) = 0
      BY <1>1, EmptyFacts DEF InFlight, InWriter
    <3> QED  BY <1>4, <2>1, <3>4, <3>5 DEF BlocksAccounted
  <2>5. dropped'[t] = 0 => Leads(t)'
    <3> SUFFICES ASSUME dropped[t] = 0 PROVE Leads(t)'
      BY <1>1
    <3>1. Leads(t)
      BY DEF Placed
    <3> QED  BY <1>1, <2>2, <2>4, <3>1 DEF Leads, Closing
  <2> QED  BY <2>1, <2>2, <2>3, <2>5 DEF Placed
<1> QED  BY <1>2, <1>3, <1>4

\* The block that is queued is the oldest if there is none before it.
LEMMA PushPlaced ==
  ASSUME TypeOK, BlockHasSink, PushBlock, [Next]_vars, NEW t \in Takes, Placed(t)
  PROVE  Placed(t)'
<1>0. /\ queue \in [Takes -> Seq(Nat)] /\ dropped \in [Takes -> Nat] /\ clock \in Nat
      /\ queue[t] \in Seq(Nat) /\ Len(queue[t]) \in Nat
  BY PlaceTypes
<1>1. /\ cb = "pushing" /\ cb' = "waiting" /\ active \in Takes
      /\ UNCHANGED <<active, first, captured, clock, written, block, writer, writeError>>
      /\ \/ queue' = queue
         \/ /\ queue' = [queue EXCEPT ![active] = Append(queue[active], clock)]
            /\ dropped' = dropped
  BY DEF PushBlock, Enqueued, BlockHasSink, TypeOK, TapTypeOK, tapVars, writerVars
<1>2. /\ InFlight(t)' = 0
      /\ dropped'[t] = 0 => dropped[t] = 0
  BY <1>1, StampMoves DEF InFlight
<1>3. CASE queue'[t] = queue[t]
  <2>1. UNCHANGED <<written[t], queue[t], block[t], writer[t], writeError[t]>>
        /\ UNCHANGED <<first[t], captured[t], clock>>
    BY <1>1, <1>3
  <2> QED  BY <1>2, <2>1, PlacedKept
<1>4. CASE active = t /\ queue'[t] = Append(queue[t], clock)
  <2>1. InFlight(t) = 1 /\ captured[t] # 0 /\ first[t] # 0 /\ first[t] <= clock
    BY <1>1, <1>4 DEF InFlight, Placed, Untouched, NotBefore
  <2>2. /\ Len(queue'[t]) = Len(queue[t]) + 1 /\ queue'[t] # <<>>
        /\ \A i \in 1..Len(queue[t]) : queue'[t][i] = queue[t][i]
        /\ queue'[t][Len(queue[t]) + 1] = clock
    <3> DEFINE s == queue[t]
    <3>1. s \in Seq(Nat) /\ clock \in Nat /\ queue'[t] = Append(s, clock)
      BY <1>0, <1>4
    <3> HIDE DEF s
    <3>2. /\ Len(queue'[t]) = Len(s) + 1 /\ queue'[t] # <<>>
          /\ \A i \in 1..Len(s) : queue'[t][i] = s[i]
          /\ queue'[t][Len(s) + 1] = clock
      BY <3>1, AppendFacts
    <3> QED  BY <3>2 DEF s
  <2>3. \A i \in 1..Len(queue'[t]) : i \in 1..Len(queue[t]) \/ i = Len(queue[t]) + 1
    BY <1>0, <2>2
  <2>4. NotBefore(t)'
    BY <1>1, <2>1, <2>2, <2>3 DEF Placed, NotBefore
  <2>5. queue'[t][1] = IF queue[t] = <<>> THEN clock ELSE queue[t][1]
    <3>1. CASE queue[t] = <<>>
      BY <2>2, <3>1, EmptyFacts
    <3>2. CASE queue[t] # <<>>
      <4>1. 1 \in 1..Len(queue[t])
        BY <1>0, <3>2, TailFacts
      <4> QED  BY <2>2, <3>2, <4>1
    <3> QED  BY <3>1, <3>2
  <2>6. Leads(t) => Leads(t)'
    BY <1>1, <2>1, <2>2, <2>5 DEF Leads, Closing
  <2> QED  BY <1>1, <1>2, <2>1, <2>4, <2>6 DEF Placed
<1>5. active # t => queue'[t] = queue[t]
  BY <1>0, <1>1
<1> QED  BY <1>0, <1>1, <1>3, <1>4, <1>5


\* The writer takes the oldest block and appends it to the file.
LEMMA WriterPlaced ==
  ASSUME TypeOK, UnbegunUnowned, UnbegunPristine, NEW u \in Takes, WriterStep(u) \/ BeginTake(u),
         NEW t \in Takes, Placed(t)
  PROVE  Placed(t)'
<1>0. /\ queue \in [Takes -> Seq(Nat)] /\ written \in [Takes -> Seq(Nat)]
      /\ block \in [Takes -> Nat] /\ writer \in [Takes -> WriterSteps]
      /\ writeError \in [Takes -> BOOLEAN] /\ queue[t] \in Seq(Nat) /\ written[t] \in Seq(Nat)
      /\ block[t] \in Nat /\ Len(written[t]) \in Nat
  BY PlaceTypes
<1>1. UNCHANGED <<cb, active, clock, first, captured, dropped>>
  BY DEF WriterStep, ReceiveBlock, WriteBlock, WaitExpires, CheckStop, LeaveLoop, FinalizeFile, BeginTake, cbVars, tapVars
<1>2. InFlight(t)' = InFlight(t)
  BY <1>1 DEF InFlight
<1>3. CASE u # t
  <2>1. UNCHANGED <<written[t], queue[t], block[t], writer[t], writeError[t]>>
    BY <1>0, <1>3 DEF WriterStep, ReceiveBlock, WriteBlock, WaitExpires, CheckStop, LeaveLoop, FinalizeFile, BeginTake
  <2>2. UNCHANGED <<first[t], captured[t], clock>> /\ dropped'[t] = dropped[t]
    BY <1>1
  <2> QED  BY <1>2, <2>1, <2>2, PlacedKept
<1>4. CASE ReceiveBlock(t)
  <2>1. /\ writer[t] = "receiving" /\ queue[t] # <<>> /\ writer'[t] = "writing"
        /\ block'[t] = Head(queue[t]) /\ queue'[t] = Tail(queue[t])
        /\ written'[t] = written[t] /\ writeError'[t] = writeError[t]
    BY <1>0, <1>4 DEF ReceiveBlock
  <2>2. /\ block'[t] = queue[t][1] /\ 1 \in 1..Len(queue[t])
        /\ \A i \in 1..Len(queue'[t]) : queue'[t][i] = queue[t][i + 1] /\ i + 1 \in 1..Len(queue[t])
    <3>1. queue[t] \in Seq(Nat)
      BY <1>0
    <3> QED  BY <2>1, <3>1, TailFacts
  <2>3. captured[t] # 0 /\ first[t] # 0
    BY <2>1 DEF Placed, Untouched
  <2>4. NotBefore(t)'
    BY <1>1, <2>1, <2>2 DEF Placed, NotBefore
  <2>5. Leads(t) => Leads(t)'
    BY <1>1, <2>1, <2>2 DEF Leads, Closing
  <2> QED  BY <1>1, <2>3, <2>4, <2>5 DEF Placed
<1>5. CASE WriteBlock(t)
  <2>1. /\ writer[t] = "writing" /\ writer'[t] = "receiving" /\ queue'[t] = queue[t]
        /\ \/ ~writeError[t] /\ written'[t] = Append(written[t], block[t])
           \/ writeError'[t] /\ written'[t] = written[t]
    BY <1>0, <1>5 DEF WriteBlock
  <2>2. captured[t] # 0 /\ first[t] # 0
    BY <2>1 DEF Placed, Untouched
  <2>3. CASE writeError'[t] /\ written'[t] = written[t]
    BY <1>1, <2>1, <2>2, <2>3 DEF Placed, NotBefore, Leads
  <2>4. CASE ~writeError[t] /\ written'[t] = Append(written[t], block[t])
    <3>1. /\ Len(written'[t]) = Len(written[t]) + 1 /\ written'[t] # <<>>
          /\ \A i \in 1..Len(written[t]) : written'[t][i] = written[t][i]
          /\ written'[t][Len(written[t]) + 1] = block[t]
      <4> DEFINE s == written[t]
                 n == block[t]
      <4>1. s \in Seq(Nat) /\ n \in Nat /\ written'[t] = Append(s, n)
        BY <1>0, <2>4
      <4> HIDE DEF s, n
      <4>2. /\ Len(written'[t]) = Len(s) + 1 /\ written'[t] # <<>>
            /\ \A i \in 1..Len(s) : written'[t][i] = s[i]
            /\ written'[t][Len(s) + 1] = n
        BY <4>1, AppendFacts
      <4> QED  BY <4>2 DEF s, n
    <3>2. \A i \in 1..Len(written'[t]) : i \in 1..Len(written[t]) \/ i = Len(written[t]) + 1
      BY <1>0, <3>1
    <3>3. NotBefore(t)'
      BY <1>1, <2>1, <3>1, <3>2 DEF Placed, NotBefore
    <3>4. written'[t][1] = IF written[t] = <<>> THEN block[t] ELSE written[t][1]
      <4>1. CASE written[t] = <<>>
        BY <3>1, <4>1, EmptyFacts
      <4>2. CASE written[t] # <<>>
        <5>1. 1 \in 1..Len(written[t])
          BY <1>0, <4>2, TailFacts
        <5> QED  BY <3>1, <4>2, <5>1
      <4> QED  BY <4>1, <4>2
    <3>5. Leads(t) => Leads(t)'
      BY <1>1, <2>1, <2>4, <3>1, <3>4 DEF Leads, Closing
    <3> QED  BY <1>1, <2>2, <3>3, <3>5 DEF Placed
  <2> QED  BY <2>1, <2>3, <2>4
<1>8. CASE WaitExpires(t) \/ (CheckStop(t) /\ ~stopFlag[t])
  <2>1. /\ writer[t] \in {"receiving", "expired"} /\ writer'[t] \in {"receiving", "expired"}
        /\ UNCHANGED <<written, queue, block, writeError>>
    BY <1>0, <1>8 DEF WaitExpires, CheckStop, StopSeen
  <2>2. NotBefore(t)'
    BY <1>1, <2>1 DEF Placed, NotBefore
  <2>3. Leads(t) => Leads(t)'
    BY <1>1, <1>2, <2>1 DEF Leads, Closing
  <2> QED  BY <1>1, <1>2, <2>1, <2>2, <2>3 DEF Placed, Untouched
<1>6. CASE Leaves(t) \/ FinalizeFile(t)
  <2>1. /\ writer'[t] \in {"finalizing", "done"} /\ written'[t] = written[t]
        /\ queue'[t] = queue[t] \/ queue'[t] = <<>>
    BY <1>0, <1>6 DEF Leaves, LeaveLoop, CheckStop, StopSeen, FinalizeFile
  <2>2. Len(<<>>) = 0 /\ \A i : i \notin 1..0
    BY EmptyFacts
  <2>3. NotBefore(t)'
    BY <1>1, <2>1, <2>2 DEF Placed, NotBefore
  <2>4. Leads(t) => Leads(t)'
    BY <1>1, <2>1 DEF Leads, Closing
  <2> QED  BY <1>1, <1>2, <2>1, <2>3, <2>4 DEF Placed, Untouched
<1>7. CASE BeginTake(t)
  <2>1. /\ writer[t] = "none" /\ writer'[t] = "receiving" /\ UNCHANGED <<written, queue>>
    BY <1>0, <1>7 DEF BeginTake
  <2>2. /\ queue[t] = <<>> /\ written[t] = <<>> /\ captured[t] = 0 /\ active # t
    BY <2>1 DEF UnbegunPristine, UnbegunUnowned, Pristine, Unowned
  <2>3. InFlight(t) = 0
    BY <2>2 DEF InFlight
  <2>4. NotBefore(t)'
    BY <1>1, <2>1 DEF Placed, NotBefore
  <2>5. Leads(t)' /\ Untouched(t)'
    BY <1>2, <2>1, <2>2, <2>3 DEF Leads, Untouched
  <2> QED  BY <1>1, <2>2, <2>4, <2>5 DEF Placed
<1> QED  BY <1>3, <1>4, <1>5, <1>8, <1>6, <1>7 DEF WriterStep, Leaves

\* The stamp stop_recording read stays that of the take: the gate is closed.
LEMMA StampReadNext ==
  AccountingInv /\ PhaseInv /\ ArmedRuns /\ PlaceInv /\ [Next]_vars => StampRead'
<1> SUFFICES ASSUME AccountingInv, PhaseInv, ArmedRuns, PlaceInv, [Next]_vars,
                    ctl' \in {"count", "raise", "await", "drain"}
             PROVE  (\/ firstRead # 0 /\ firstRead = first[ctlTake]
                     \/ firstRead = 0 /\ captured[ctlTake] + Beginning(ctlTake) <= 1)'
  BY DEF StampRead
<1>0. TypeOK /\ BlockHasSink
  BY DEF AccountingInv
<1>1. \/ ReadFirst
      \/ ctl \in {"count", "raise", "await", "drain"} /\ UNCHANGED <<ctlTake, firstRead>>
  <2>1. CASE InstallSink \/ Decline \/ StopTake \/ ClearTap \/ FinalizeTimeout \/ DrainTrash
    BY <2>1 DEF InstallSink, Decline, StopTake, ClearTap, FinalizeTimeout, DrainTrash
  <2>2. CASE CollectResults
    BY <2>2 DEF CollectResults
  <2>5. CASE ReadDropped \/ RaiseStopFlag
    BY <2>5 DEF ReadDropped, RaiseStopFlag
  <2>3. CASE Pause \/ UNCHANGED <<ctlVars, armed, stopFlag>>
    BY <2>3 DEF Pause, ctlVars
  <2>4. CASE \E t \in Takes : BeginTake(t)
    BY <2>4 DEF BeginTake
  <2> QED  BY <2>1, <2>2, <2>5, <2>3, <2>4, FlagMoves
<1>2. CASE ReadFirst
  <2>1. PICK t \in Takes : t = ctlTake
    BY <1>0, <1>2 DEF ReadFirst, TypeOK, ControlTypeOK
  <2>2. /\ ctlTake' = t /\ firstRead' = first[t] /\ UNCHANGED <<first, captured, cb, active>>
    BY <1>2, <2>1 DEF ReadFirst, cbVars, tapVars
  <2>3. Beginning(ctlTake)' \in {0, 1}
    BY DEF Beginning
  <2>4. first[t] = 0 <=> captured[t] = 0
    BY DEF PlaceInv, Placed
  <2> QED  BY <2>2, <2>3, <2>4
<1>3. CASE ctl \in {"count", "raise", "await", "drain"} /\ UNCHANGED <<ctlTake, firstRead>>
  <2>1. PICK t \in Takes : t = ctlTake
    BY <1>0, <1>3 DEF TypeOK, ControlTypeOK
  <2>2. ~armed[t]
    BY <1>3, CaptureTapAssumption DEF ArmedRuns, PhaseInv
  <2>3. (captured[t] + Beginning(t))' <= captured[t] + Beginning(t)
    BY <1>0, <2>2, UnarmedFlow
  <2>4. /\ captured[t] \in Nat /\ Beginning(t) \in Nat /\ captured'[t] \in Nat
        /\ Beginning(t)' \in Nat
    <3>1. TypeOK'
      BY <1>0, TypeNext
    <3> QED  BY <1>0, <3>1 DEF TypeOK, CallbackTypeOK, Beginning
  <2>5. first[t] # 0 => first'[t] = first[t]
    <3>1. CASE StampBlock
      <4>1. first \in [Takes -> Nat]
        BY <1>0, PlaceTypes
      <4>2. first' = [first EXCEPT ![active] = IF first[active] = 0 THEN clock + 1 ELSE first[active]]
        BY <3>1 DEF StampBlock, FirstStamp
      <4> QED  BY <4>1, <4>2
    <3>2. CASE UNCHANGED first
      BY <3>2
    <3>3. StampBlock \/ UNCHANGED <<first, captured, clock>>
      BY <1>0, StampMoves
    <3> QED  BY <3>1, <3>2, <3>3
  <2>6. ctlTake' = t /\ Beginning(ctlTake)' = Beginning(t)'
    BY <1>3, <2>1 DEF Beginning
  <2> QED  BY <1>3, <2>1, <2>3, <2>4, <2>5, <2>6 DEF PlaceInv, StampRead
<1> QED  BY <1>1, <1>2, <1>3

LEMMA PlaceNext ==
  AccountingInv /\ PhaseInv /\ ArmedRuns /\ PlaceInv /\ [Next]_vars => PlaceInv'
<1> SUFFICES ASSUME AccountingInv, PhaseInv, ArmedRuns, PlaceInv, [Next]_vars PROVE PlaceInv'
  OBVIOUS
<1>1. StampRead'
  BY StampReadNext
<1>2. ASSUME NEW t \in Takes PROVE Placed(t)'
  <2>1. /\ TypeOK /\ BlockHasSink /\ UnbegunUnowned /\ UnbegunPristine /\ CaptureAccounted
        /\ Placed(t)
    BY DEF AccountingInv, PlaceInv
  <2>2. CASE StampBlock
    BY <2>1, <2>2, StampPlaced
  <2>3. CASE PushBlock
    BY <2>1, <2>3, PushPlaced
  <2>4. CASE \E u \in Takes : WriterStep(u) \/ BeginTake(u)
    BY <2>1, <2>4, WriterPlaced
  <2>5. CASE ~StampBlock /\ UNCHANGED <<written, queue, block, writer, writeError>>
    <3>1. /\ UNCHANGED <<written[t], queue[t], block[t], writer[t], writeError[t]>>
          /\ UNCHANGED <<first[t], captured[t], clock>>
          /\ InFlight(t)' = 1 => InFlight(t) = 1
          /\ dropped'[t] = 0 => dropped[t] = 0
      BY <2>1, <2>5, StampMoves
    <3> QED  BY <2>1, <3>1, PlacedKept
  <2> QED  BY <2>2, <2>3, <2>4, <2>5, BlocksMove DEF WriterStep
<1> QED  BY <1>1, <1>2 DEF PlaceInv

LEMMA PlaceCorrect == Spec => [](AccountingInv /\ PhaseInv /\ VerdictInv /\ PlaceInv)
<1>1. Init => PlaceInv
  <2> SUFFICES ASSUME Init PROVE PlaceInv
    OBVIOUS
  <2>1. StampRead
    BY DEF Init, StampRead
  <2>2. ASSUME NEW t \in Takes PROVE Placed(t)
    <3>1. /\ written[t] = <<>> /\ queue[t] = <<>> /\ writer[t] = "none" /\ first[t] = 0
          /\ captured[t] = 0 /\ clock = 0 /\ cb = "waiting"
      BY <2>2 DEF Init
    <3>2. Len(written[t]) = 0 /\ Len(queue[t]) = 0 /\ \A i : i \notin 1..0
      BY <3>1, EmptyFacts
    <3> QED  BY <3>1, <3>2 DEF Placed, Untouched, NotBefore, Leads, InFlight
  <2> QED  BY <2>1, <2>2 DEF PlaceInv
<1>2. VerdictInv => ArmedRuns
  BY DEF VerdictInv
<1> QED  BY <1>1, <1>2, PlaceNext, VerdictCorrect, PTL DEF Spec

\* first_capture_sample, stored once by capture_block and read by stop_recording,
\* places the take on the first block of its file.
THEOREM TakesArePlaced == Spec => []PlacedOnFirstBlock
<1>1. AccountingInv /\ PlaceInv => PlacedOnFirstBlock
  <2> SUFFICES ASSUME AccountingInv, PlaceInv PROVE PlacedOnFirstBlock
    OBVIOUS
  <2>0. TypeOK
    BY DEF AccountingInv
  <2>1. ASSUME NEW t \in Takes, written[t] # <<>>
        PROVE  first[t] <= written[t][1] /\ (dropped[t] = 0 => first[t] = written[t][1])
    <3>1. 1 \in 1..Len(written[t])
      BY <2>0, <2>1, PlaceTypes, TailFacts
    <3> QED  BY <2>1, <3>1 DEF PlaceInv, Placed, NotBefore, Leads
  <2>2. ASSUME ctl \in {"count", "raise", "await", "drain"}, captured[ctlTake] > 1 PROVE firstRead = first[ctlTake]
    <3>1. captured[ctlTake] \in Nat /\ Beginning(ctlTake) \in Nat
      BY <2>0, <2>2 DEF TypeOK, CallbackTypeOK, ControlTypeOK, Beginning
    <3> QED  BY <2>2, <3>1 DEF PlaceInv, StampRead
  <2> QED  BY <2>1, <2>2 DEF PlacedOnFirstBlock
<1> QED  BY <1>1, PlaceCorrect, PTL

=============================================================================
