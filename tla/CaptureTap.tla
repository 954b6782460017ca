------------------------------ MODULE CaptureTap ------------------------------
(***************************************************************************)
(* The recording-take pipeline of SphereDirectAudioEngine, for takes that  *)
(* tap the live input stream (capture_tap.rs, recording.rs, engine.rs):    *)
(*                                                                         *)
(*   control thread   start_recording / pause / stop_recording             *)
(*   audio callback   drain_commands, then capture_block                   *)
(*   writer thread    disk_writer_thread, one per take                     *)
(*                                                                         *)
(* The control thread hands a take's RecordSink to the callback over a     *)
(* bounded command queue and gets it back over a bounded trash channel.    *)
(* The callback moves blocks from the take's free pool to its audio queue; *)
(* the writer moves them to the file and back to the pool.                 *)
(*                                                                         *)
(* A sink is named by its take.  Set(sink) is the take itself and Clear is *)
(* NoTake, so applying a command is active' = Head(cmds).  A sink exists   *)
(* exactly while something owns it: removing a take from every place that  *)
(* can hold its sink is the Drop of that sink, and of the audio_tx in it.  *)
(* A captured block is the stamp it was captured at.  Blocks of zero       *)
(* frames, the preview peaks and the sample format are left out.           *)
(***************************************************************************)
EXTENDS Naturals, Sequences

CONSTANTS
  Takes,          \* take ids (session_id); each is started at most once
  NoTake,         \* no sink / the Clear command
  PoolBlocks,     \* pool_blocks of spawn_recording_pipeline
  CmdCapacity,    \* capacity of the tap's command queue
  TrashCapacity,  \* capacity of the tap's trash channel
  MaxBlocks,      \* bound on the blocks captured in a behaviour
  MaxStreams      \* bound on how often the live stream is opened

ASSUME CaptureTapAssumption ==
  /\ NoTake \notin Takes
  /\ PoolBlocks \in Nat \ {0}
  /\ CmdCapacity \in Nat \ {0}
  /\ TrashCapacity \in Nat \ {0}
  /\ MaxBlocks \in Nat
  /\ MaxStreams \in Nat

VARIABLES
  streamOpen,   \* live_input is Some(handle)
  streams,      \* how many live streams were opened
  cmds,         \* the tap's command queue
  trash,        \* the tap's trash channel
  active,       \* the sink attached to the callback
  retiring,     \* the sink that did not fit in the trash channel
  cb,           \* where the audio callback is
  clock,        \* blocks captured so far: the stamp of the latest one
  playing,      \* shared.playing
  armed,        \* [Takes -> BOOLEAN]  sink.active / session.recording_active
  stopFlag,     \* [Takes -> BOOLEAN]  session.stop_flag
  dropped,      \* [Takes -> Nat]      session.dropped_blocks
  first,        \* [Takes -> Nat]      first_capture_sample, 0 for u64::MAX
  captured,     \* [Takes -> Nat]      history: blocks the callback captured
  free,         \* [Takes -> Nat]      blocks in the free pool
  queue,        \* [Takes -> Seq]      blocks in the audio queue
  writer,       \* [Takes -> ...]      where the disk writer is
  block,        \* [Takes -> Nat]      the block the writer holds, 0 for none
  written,      \* [Takes -> Seq]      blocks in the file
  writeError,   \* [Takes -> BOOLEAN]  w.error.is_some(), or finalize failed
  overtaken,    \* [Takes -> BOOLEAN]  history: the writer left with blocks queued
  ctl,          \* where the control thread is
  ctlTake,      \* the take it is starting or stopping
  session,      \* EngineInner.recording
  droppedRead,  \* dropped_blocks as stop_recording read it
  firstRead,    \* first_capture_sample as stop_recording read it
  report        \* [Takes -> ...]      what the control thread reported

tapVars    == <<cmds, trash, active, retiring>>
streamVars == <<streamOpen, streams>>
cbVars     == <<cb, clock, first, captured, dropped>>
writerVars == <<writer, block, written, writeError, overtaken>>
ctlVars    == <<ctl, ctlTake, session, droppedRead, firstRead, report>>
vars == <<tapVars, streamVars, cbVars, writerVars, ctlVars,
          playing, armed, stopFlag, free, queue>>

CallbackSteps ==
  {"waiting", "draining", "gating", "stamping", "popping", "pushing"}
WriterSteps   == {"none", "receiving", "expired", "writing", "finalizing", "done"}
ControlSteps  ==
  {"idle", "install", "unwind", "clear", "finish", "count", "raise", "await", "drain"}
Reports       == {"none", "declined", "ok", "failed", "timeout"}

Init ==
  /\ streamOpen = TRUE /\ streams = 1
  /\ cmds = <<>> /\ trash = <<>> /\ active = NoTake /\ retiring = NoTake
  /\ cb = "waiting" /\ clock = 0 /\ playing = FALSE
  /\ armed = [t \in Takes |-> FALSE]
  /\ stopFlag = [t \in Takes |-> FALSE]
  /\ dropped = [t \in Takes |-> 0]
  /\ first = [t \in Takes |-> 0]
  /\ captured = [t \in Takes |-> 0]
  /\ free = [t \in Takes |-> 0]
  /\ queue = [t \in Takes |-> <<>>]
  /\ writer = [t \in Takes |-> "none"]
  /\ block = [t \in Takes |-> 0]
  /\ written = [t \in Takes |-> <<>>]
  /\ writeError = [t \in Takes |-> FALSE]
  /\ overtaken = [t \in Takes |-> FALSE]
  /\ ctl = "idle" /\ ctlTake = NoTake /\ session = NoTake
  /\ droppedRead = 0 /\ firstRead = 0
  /\ report = [t \in Takes |-> "none"]

-----------------------------------------------------------------------------
(* The audio callback.                                                     *)

\* retire: into the trash channel, or held when that is full.  Holding it
\* drops whatever was held before, here, on the audio thread.
Retire(sink) ==
  IF Len(trash) < TrashCapacity
    THEN trash' = Append(trash, sink) /\ UNCHANGED retiring
    ELSE retiring' = sink /\ UNCHANGED trash

\* drain_commands up to its loop: flush_retiring.
BeginBlock ==
  /\ streamOpen /\ cb = "waiting"
  /\ cb' = "draining"
  /\ IF retiring # NoTake /\ Len(trash) < TrashCapacity
       THEN trash' = Append(trash, retiring) /\ retiring' = NoTake
       ELSE UNCHANGED <<trash, retiring>>
  /\ UNCHANGED <<cmds, active, streamVars, clock, first, captured, dropped,
                 writerVars, ctlVars, playing, armed, stopFlag, free, queue>>

\* Mutant of NextCommand: the newest command is applied first.
NewestCommand ==
  [command |-> cmds[Len(cmds)], rest |-> SubSeq(cmds, 1, Len(cmds) - 1)]

\* try_recv: commands come out in the order they were sent.
NextCommand == [command |-> Head(cmds), rest |-> Tail(cmds)]

\* One turn of the loop in drain_commands: Set attaches its sink whatever was
\* attached before, Clear attaches none.
ApplyCommand ==
  /\ cb = "draining" /\ cmds # <<>>
  /\ active' = NextCommand.command
  /\ cmds' = NextCommand.rest
  /\ IF active # NoTake THEN Retire(active) ELSE UNCHANGED <<trash, retiring>>
  /\ UNCHANGED <<streamVars, cbVars, writerVars, ctlVars,
                 playing, armed, stopFlag, free, queue>>

CommandsDrained ==
  /\ cb = "draining" /\ cmds = <<>>
  /\ cb' = "gating"
  /\ UNCHANGED <<tapVars, streamVars, clock, first, captured, dropped,
                 writerVars, ctlVars, playing, armed, stopFlag, free, queue>>

\* `capturing` in capture_block.  The application always arms takes with
\* capture_on_transport, so a block counts only while the transport rolls.
Capturing == active # NoTake /\ armed[active] /\ playing

SkipBlock ==
  /\ cb = "gating" /\ ~Capturing
  /\ cb' = "waiting"
  /\ UNCHANGED <<tapVars, streamVars, clock, first, captured, dropped,
                 writerVars, ctlVars, playing, armed, stopFlag, free, queue>>

\* The block counts, whatever becomes of the gate from here on.
PassGate ==
  /\ cb = "gating" /\ Capturing /\ clock < MaxBlocks
  /\ cb' = "stamping"
  /\ UNCHANGED <<tapVars, streamVars, clock, first, captured, dropped,
                 writerVars, ctlVars, playing, armed, stopFlag, free, queue>>

\* Mutant of FirstStamp: a store in place of the compare_exchange.
LatestStamp(stamp) == clock + 1

\* compare_exchange of first_capture_sample from its initial value.
FirstStamp(stamp) == IF stamp = 0 THEN clock + 1 ELSE stamp

StampBlock ==
  /\ cb = "stamping"
  /\ cb' = "popping"
  /\ clock' = clock + 1
  /\ captured' = [captured EXCEPT ![active] = @ + 1]
  /\ first' = [first EXCEPT ![active] = FirstStamp(@)]
  /\ UNCHANGED <<tapVars, streamVars, dropped, writerVars, ctlVars,
                 playing, armed, stopFlag, free, queue>>

\* Mutant of Returned: the block is not given back.
Forgotten(n) == n

\* try_send of a block to the free pool, whose failure is ignored.
Returned(n) == IF n < PoolBlocks THEN n + 1 ELSE n

\* Mutant of CountDrop: the drop is not counted.
IgnoreDrop(t) == UNCHANGED dropped

\* count_drop
CountDrop(t) == dropped' = [dropped EXCEPT ![t] = @ + 1]

\* free_rx.try_recv() is Err, or the block is smaller than the device's.
PoolDrop ==
  /\ cb = "popping"
  /\ cb' = "waiting"
  /\ CountDrop(active)
  /\ UNCHANGED <<tapVars, streamVars, clock, first, captured, writerVars,
                 ctlVars, playing, armed, stopFlag, free, queue>>

PopBlock ==
  /\ cb = "popping" /\ free[active] > 0
  /\ cb' = "pushing"
  /\ free' = [free EXCEPT ![active] = @ - 1]
  /\ UNCHANGED <<tapVars, streamVars, clock, first, captured, dropped,
                 writerVars, ctlVars, playing, armed, stopFlag, queue>>

\* Mutant of Enqueued: the block overtakes the ones that wait.
Overtaking(q) == <<clock>> \o q

Enqueued(q) == Append(q, clock)

\* audio_tx.try_send() is Ok: the writer holds its receiver, the queue has room.
QueueAccepts(t) == writer[t] # "done" /\ Len(queue[t]) < PoolBlocks

PushBlock ==
  /\ cb = "pushing"
  /\ cb' = "waiting"
  /\ IF QueueAccepts(active)
       THEN /\ queue' = [queue EXCEPT ![active] = Enqueued(@)]
            /\ UNCHANGED <<free, dropped>>
       ELSE /\ CountDrop(active)
            /\ free' = [free EXCEPT ![active] = Returned(@)]
            /\ UNCHANGED queue
  /\ UNCHANGED <<tapVars, streamVars, clock, first, captured, writerVars,
                 ctlVars, playing, armed, stopFlag>>

\* What the callback does once the device has delivered a block.
CallbackStep ==
  \/ ApplyCommand \/ CommandsDrained \/ SkipBlock \/ PassGate
  \/ StampBlock \/ PoolDrop \/ PopBlock \/ PushBlock

-----------------------------------------------------------------------------
(* The disk writer of take t.                                              *)

Held(t, s) == \E i \in 1..Len(s) : s[i] = t

\* Something still owns t's sink, so t's audio_tx is connected.
SinkAlive(t) ==
  \/ t = active \/ t = retiring
  \/ Held(t, cmds) \/ Held(t, trash)
  \/ ctl = "install" /\ ctlTake = t

\* recv_timeout: Ok(block)
ReceiveBlock(t) ==
  /\ writer[t] = "receiving" /\ queue[t] # <<>>
  /\ writer' = [writer EXCEPT ![t] = "writing"]
  /\ block' = [block EXCEPT ![t] = Head(queue[t])]
  /\ queue' = [queue EXCEPT ![t] = Tail(@)]
  /\ UNCHANGED <<tapVars, streamVars, cbVars, written, writeError, overtaken,
                 ctlVars, playing, armed, stopFlag, free>>

\* The first write error sticks and the file stops growing; the block goes
\* back to the pool either way.
WriteBlock(t) ==
  /\ writer[t] = "writing"
  /\ writer' = [writer EXCEPT ![t] = "receiving"]
  /\ \/ /\ ~writeError[t]
        /\ written' = [written EXCEPT ![t] = Append(@, block[t])]
        /\ UNCHANGED writeError
     \/ /\ writeError' = [writeError EXCEPT ![t] = TRUE]
        /\ UNCHANGED written
  /\ block' = [block EXCEPT ![t] = 0]
  /\ free' = [free EXCEPT ![t] = Returned(@)]
  /\ UNCHANGED <<tapVars, streamVars, cbVars, overtaken, ctlVars,
                 playing, armed, stopFlag, queue>>

\* recv_timeout: Timeout.  From here on the callback may queue blocks again.
WaitExpires(t) ==
  /\ writer[t] = "receiving" /\ queue[t] = <<>> /\ SinkAlive(t)
  /\ writer' = [writer EXCEPT ![t] = "expired"]
  /\ UNCHANGED <<tapVars, streamVars, cbVars, block, written, writeError, overtaken,
                 ctlVars, playing, armed, stopFlag, free, queue>>

\* Mutant of StopSeen: the writer waits for the sender only.
StopIgnored(t) == FALSE

\* stop_flag.load() after a Timeout.
StopSeen(t) == stopFlag[t]

\* The flag decides; whether a block was queued since is not looked at.
CheckStop(t) ==
  /\ writer[t] = "expired"
  /\ writer' = [writer EXCEPT ![t] = IF StopSeen(t) THEN "finalizing" ELSE "receiving"]
  /\ overtaken' =
       [overtaken EXCEPT ![t] = @ \/ (StopSeen(t) /\ queue[t] # <<>>)]
  /\ UNCHANGED <<tapVars, streamVars, cbVars, block, written, writeError,
                 ctlVars, playing, armed, stopFlag, free, queue>>

\* Mutant of Disconnected: the writer watches the stop flag only.
NeverDisconnected(t) == FALSE

\* recv_timeout: Disconnected.
Disconnected(t) == queue[t] = <<>> /\ ~SinkAlive(t)

LeaveLoop(t) ==
  /\ writer[t] = "receiving" /\ Disconnected(t)
  /\ writer' = [writer EXCEPT ![t] = "finalizing"]
  /\ UNCHANGED <<tapVars, streamVars, cbVars, block, written, writeError, overtaken,
                 ctlVars, playing, armed, stopFlag, free, queue>>

\* Finalize the file and its sidecar, send the results, drop the receiver:
\* what is still in the audio queue goes with it.
FinalizeFile(t) ==
  /\ writer[t] = "finalizing"
  /\ writer' = [writer EXCEPT ![t] = "done"]
  /\ writeError' \in {writeError, [writeError EXCEPT ![t] = TRUE]}
  /\ queue' = [queue EXCEPT ![t] = <<>>]
  /\ UNCHANGED <<tapVars, streamVars, cbVars, block, written, overtaken, ctlVars,
                 playing, armed, stopFlag, free>>

WriterStep(t) ==
  \/ ReceiveBlock(t) \/ WriteBlock(t)
  \/ WaitExpires(t) \/ CheckStop(t) \/ LeaveLoop(t) \/ FinalizeFile(t)

-----------------------------------------------------------------------------
(* The control thread: starting a take.                                    *)

\* Mutant of Drained: the retired sinks stay where they are.
Undrained == trash

\* drain_trash drops every retired sink.
Drained == <<>>

\* start_recording_live_tap, up to the sink: drain the trash, then build the
\* writers, the pool and the session.
BeginTake(t) ==
  /\ ctl = "idle" /\ session = NoTake
  /\ streamOpen /\ writer[t] = "none"
  /\ trash' = Drained
  /\ writer' = [writer EXCEPT ![t] = "receiving"]
  /\ free' = [free EXCEPT ![t] = PoolBlocks]
  /\ armed' = [armed EXCEPT ![t] = TRUE]
  /\ ctl' = "install" /\ ctlTake' = t
  /\ UNCHANGED <<cmds, active, retiring, streamVars, cbVars, block, written,
                 writeError, overtaken, session, droppedRead, firstRead, report,
                 playing, stopFlag, queue>>

\* Mutant of CommandFits: the command queue is not bounded.
CommandAlwaysFits == TRUE

\* try_send of a command to the tap succeeds.
CommandFits == Len(cmds) < CmdCapacity

\* CaptureTapControl::install.  When it fails the sink is dropped and the
\* armed pipeline is unwound through recording::stop_recording.
InstallSink ==
  /\ ctl = "install"
  /\ IF streamOpen /\ CommandFits
       THEN /\ cmds' = Append(cmds, ctlTake)
            /\ session' = ctlTake
            /\ ctl' = "idle" /\ ctlTake' = NoTake
            /\ UNCHANGED <<armed, stopFlag>>
       ELSE /\ ctl' = "unwind"
            /\ armed' = [armed EXCEPT ![ctlTake] = FALSE]
            /\ stopFlag' = [stopFlag EXCEPT ![ctlTake] = TRUE]
            /\ UNCHANGED <<cmds, session, ctlTake>>
  /\ UNCHANGED <<trash, active, retiring, streamVars, cbVars, writerVars,
                 droppedRead, firstRead, report, playing, free, queue>>

\* Dropping the handle ends the callback and drops everything the tap holds.
CloseTap ==
  /\ cb = "waiting"
  /\ streamOpen' = FALSE
  /\ cmds' = <<>> /\ trash' = <<>> /\ active' = NoTake /\ retiring' = NoTake

\* start_recording falls back to a stream of its own, closing this one.
Decline ==
  /\ ctl = "unwind"
  /\ CloseTap
  /\ ctl' = "idle" /\ ctlTake' = NoTake
  /\ report' = [report EXCEPT ![ctlTake] = "declined"]
  /\ UNCHANGED <<streams, cbVars, writerVars, session, droppedRead, firstRead,
                 playing, armed, stopFlag, free, queue>>

\* The unwound take's results arrived, or its 60 s wait gave up; neither is
\* looked at.
DeclineTake    == ctl = "unwind" /\ writer[ctlTake] = "done" /\ Decline
DeclineTimeout == ctl = "unwind" /\ writer[ctlTake] # "done" /\ Decline

-----------------------------------------------------------------------------
(* The control thread: the transport, and the end of a take.               *)

Play ==
  /\ ctl = "idle"
  /\ playing' = TRUE
  /\ UNCHANGED <<tapVars, streamVars, cbVars, writerVars, ctlVars,
                 armed, stopFlag, free, queue>>

\* EngineInner::pause, with end_recording_capture.
Pause ==
  /\ ctl = "idle"
  /\ armed' = [t \in Takes |-> armed[t] /\ t # session]
  /\ playing' = FALSE
  /\ UNCHANGED <<tapVars, streamVars, cbVars, writerVars, ctlVars,
                 stopFlag, free, queue>>

\* EngineInner::stop_recording takes the session and ends its capture.
StopTake ==
  /\ ctl = "idle" /\ session # NoTake
  /\ ctlTake' = session /\ session' = NoTake
  /\ armed' = [armed EXCEPT ![session] = FALSE]
  /\ ctl' = "clear"
  /\ UNCHANGED <<tapVars, streamVars, cbVars, writerVars, droppedRead,
                 firstRead, report, playing, stopFlag, free, queue>>

\* CaptureTapControl::clear, whose failure is ignored.
ClearTap ==
  /\ ctl = "clear"
  /\ ctl' = "finish"
  /\ cmds' = IF streamOpen /\ CommandFits
               THEN Append(cmds, NoTake) ELSE cmds
  /\ UNCHANGED <<trash, active, retiring, streamVars, cbVars, writerVars,
                 ctlTake, session, droppedRead, firstRead, report,
                 playing, armed, stopFlag, free, queue>>

\* EngineInner::stop_recording reads first_capture_sample.
ReadFirst ==
  /\ ctl = "finish"
  /\ ctl' = "count"
  /\ firstRead' = first[ctlTake]
  /\ UNCHANGED <<tapVars, streamVars, cbVars, writerVars, ctlTake, session,
                 droppedRead, report, playing, armed, stopFlag, free, queue>>

\* recording::stop_recording reads dropped_blocks, then raises the stop flag.
ReadDropped ==
  /\ ctl = "count"
  /\ ctl' = "raise"
  /\ droppedRead' = dropped[ctlTake]
  /\ UNCHANGED <<tapVars, streamVars, cbVars, writerVars, ctlTake, session,
                 firstRead, report, playing, armed, stopFlag, free, queue>>

RaiseStopFlag ==
  /\ ctl = "raise"
  /\ ctl' = "await"
  /\ stopFlag' = [stopFlag EXCEPT ![ctlTake] = TRUE]
  /\ UNCHANGED <<tapVars, streamVars, cbVars, writerVars, ctlTake, session,
                 droppedRead, firstRead, report, playing, armed, free, queue>>

\* Mutant of ResultsIn: the results are not waited for.
ResultsAssumed(t) == TRUE

ResultsIn(t) == writer[t] = "done"

\* Mutant of Verdict: the drop count is forgotten.
VerdictIgnoringDrops(t) == IF writeError[t] THEN "failed" ELSE "ok"

\* A take that lost blocks is not a good take.
Verdict(t) == IF droppedRead > 0 \/ writeError[t] THEN "failed" ELSE "ok"

CollectResults ==
  /\ ctl = "await" /\ ResultsIn(ctlTake)
  /\ ctl' = "drain"
  /\ report' = [report EXCEPT ![ctlTake] = Verdict(ctlTake)]
  /\ UNCHANGED <<tapVars, streamVars, cbVars, writerVars, ctlTake, session,
                 droppedRead, firstRead, playing, armed, stopFlag, free, queue>>

\* results_rx.recv_timeout(60 s) gives up; the `?` skips the rest of the stop.
FinalizeTimeout ==
  /\ ctl = "await" /\ writer[ctlTake] # "done"
  /\ ctl' = "idle" /\ ctlTake' = NoTake
  /\ report' = [report EXCEPT ![ctlTake] = "timeout"]
  /\ UNCHANGED <<tapVars, streamVars, cbVars, writerVars, session,
                 droppedRead, firstRead, playing, armed, stopFlag, free, queue>>

DrainTrash ==
  /\ ctl = "drain"
  /\ trash' = Drained
  /\ ctl' = "idle" /\ ctlTake' = NoTake
  /\ UNCHANGED <<cmds, active, retiring, streamVars, cbVars, writerVars,
                 session, droppedRead, firstRead, report,
                 playing, armed, stopFlag, free, queue>>

\* The steps the control thread takes by itself once it has begun.
ControlStep ==
  \/ InstallSink \/ DeclineTake \/ ClearTap
  \/ ReadFirst \/ ReadDropped \/ RaiseStopFlag
  \/ CollectResults \/ DrainTrash

-----------------------------------------------------------------------------
(* The live stream comes and goes under a take: open_device, shutdown, and *)
(* a project sync on another thread (CaptureDevice.tla).                   *)

CloseStream ==
  /\ streamOpen
  /\ CloseTap
  /\ UNCHANGED <<streams, cbVars, writerVars, ctlVars,
                 playing, armed, stopFlag, free, queue>>

\* sync_live_input_stream opens a stream with a tap of its own.
OpenStream ==
  /\ ~streamOpen /\ streams < MaxStreams
  /\ streamOpen' = TRUE
  /\ streams' = streams + 1
  /\ UNCHANGED <<tapVars, cbVars, writerVars, ctlVars,
                 playing, armed, stopFlag, free, queue>>

-----------------------------------------------------------------------------

Next ==
  \/ BeginBlock \/ CallbackStep
  \/ \E t \in Takes : WriterStep(t) \/ BeginTake(t)
  \/ ControlStep \/ Play \/ Pause \/ StopTake
  \/ FinalizeTimeout \/ DeclineTimeout
  \/ CloseStream \/ OpenStream

Spec == Init /\ [][Next]_vars

(***************************************************************************)
(* The writer thread and the control thread run, and a callback finishes   *)
(* the block it began: it neither blocks nor waits.  Nothing obliges the   *)
(* device to deliver another block (BeginBlock), the user to stop, or the  *)
(* 60 s timeout to fire.                                                   *)
(***************************************************************************)
Fairness ==
  /\ WF_vars(CallbackStep)
  /\ WF_vars(ControlStep)
  /\ \A t \in Takes : WF_vars(WriterStep(t))

FairSpec == Spec /\ Fairness

\* The usual case, in which the callback is through with its queue before the
\* control thread does anything: draining takes microseconds, a take seconds.
PromptNext == Next /\ (cb = "draining" => CallbackStep)
PromptSpec == Init /\ [][PromptNext]_vars

-----------------------------------------------------------------------------
(* Properties.                                                             *)

TapTypeOK ==
  /\ streamOpen \in BOOLEAN /\ streams \in Nat
  /\ cmds \in Seq(Takes \cup {NoTake}) /\ Len(cmds) <= CmdCapacity
  /\ trash \in Seq(Takes) /\ Len(trash) <= TrashCapacity
  /\ active \in Takes \cup {NoTake} /\ retiring \in Takes \cup {NoTake}

CallbackTypeOK ==
  /\ cb \in CallbackSteps /\ clock \in Nat
  /\ dropped \in [Takes -> Nat] /\ first \in [Takes -> Nat]
  /\ captured \in [Takes -> Nat]

WriterTypeOK ==
  /\ free \in [Takes -> Nat] /\ queue \in [Takes -> Seq(Nat)]
  /\ writer \in [Takes -> WriterSteps] /\ block \in [Takes -> Nat]
  /\ written \in [Takes -> Seq(Nat)] /\ writeError \in [Takes -> BOOLEAN]
  /\ overtaken \in [Takes -> BOOLEAN]

ControlTypeOK ==
  /\ playing \in BOOLEAN
  /\ armed \in [Takes -> BOOLEAN] /\ stopFlag \in [Takes -> BOOLEAN]
  /\ ctl \in ControlSteps
  /\ ctlTake \in IF ctl = "idle" THEN {NoTake} ELSE Takes
  /\ session \in Takes \cup {NoTake}
  /\ droppedRead \in Nat /\ firstRead \in Nat
  /\ report \in [Takes -> Reports]

\* Every variable has its type; the bounded channels stay within capacity.
TypeOK == TapTypeOK /\ CallbackTypeOK /\ WriterTypeOK /\ ControlTypeOK

\* One block is in the callback's hands / in the writer's hands.
InCallback(t) == IF active = t /\ cb = "pushing" THEN 1 ELSE 0
InWriter(t)   == IF writer[t] = "writing" THEN 1 ELSE 0

Running(t) == writer[t] \in {"receiving", "expired", "writing", "finalizing"}

PoolBalanced(t) ==
  free[t] + Len(queue[t]) + InCallback(t) + InWriter(t) = PoolBlocks

\* While its writer runs, a take's blocks are all in the pool, in the queue,
\* or in the hands of one thread: no error path of capture_block or of the
\* writer leaks one, and no ignored try_send ever meets a full channel.
PoolConserved == \A t \in Takes : Running(t) => PoolBalanced(t)

\* The callback is at work on a block of t that it has stamped.
InFlight(t) == IF active = t /\ cb \in {"popping", "pushing"} THEN 1 ELSE 0

BlocksAccounted(t) ==
  captured[t] = Len(written[t]) + InWriter(t) + Len(queue[t])
                  + InFlight(t) + dropped[t]

\* Until the writer closes the file, every block captured for a take is in
\* the file, on its way to it, or counted as dropped (as long as no write
\* failed): nothing the performer played disappears silently.
CaptureAccounted ==
  \A t \in Takes : Running(t) /\ ~writeError[t] => BlocksAccounted(t)

\* What makes the two inductive: a take that was not begun has lost, captured
\* and queued nothing, its sink is nowhere, and a callback at work on a block
\* has a sink.
Pristine(t) ==
  queue[t] = <<>> /\ written[t] = <<>> /\ captured[t] = 0 /\ dropped[t] = 0

Unowned(t) ==
  /\ t \notin {active, retiring, session, ctlTake}
  /\ ~Held(t, cmds) /\ ~Held(t, trash)

BlockHasSink == cb \in {"stamping", "popping", "pushing"} => active # NoTake

UnbegunUnowned  == \A t \in Takes : writer[t] = "none" => Unowned(t)
UnbegunPristine == \A t \in Takes : writer[t] = "none" => Pristine(t)

AccountingInv ==
  /\ TypeOK /\ BlockHasSink /\ UnbegunUnowned /\ UnbegunPristine
  /\ PoolConserved /\ CaptureAccounted

\* The file, the block being written and the queue are, in that order, the
\* captured blocks in the order they were captured.
Pipeline(t) ==
  written[t] \o (IF writer[t] = "writing" /\ ~writeError[t]
                   THEN <<block[t]>> ELSE <<>>) \o queue[t]

FileInOrder ==
  \A t \in Takes : \A i, j \in 1..Len(Pipeline(t)) :
    i < j => Pipeline(t)[i] < Pipeline(t)[j]

\* first_capture_sample, which places the finished take on the timeline, is
\* the first block of the file; only a dropped first block separates them.
\* And the stamp stop_recording read is that one, unless the take's only block
\* was captured while it was being stopped.
PlacedOnFirstBlock ==
  /\ \A t \in Takes : written[t] # <<>> =>
       /\ first[t] <= written[t][1]
       /\ dropped[t] = 0 => first[t] = written[t][1]
  /\ ctl \in {"count", "raise", "await", "drain"} /\ captured[ctlTake] > 1 =>
       firstRead = first[ctlTake]

\* A take reported good lacks at most two things: the one block in flight when
\* it was stopped, as stop_recording reads dropped_blocks before the callback is
\* done; and, if the writer left on a timeout that blocks had overtaken, those
\* blocks, which is what fits in the queue.
OkMissesOnlyTheTail ==
  \A t \in Takes : report[t] = "ok" =>
    captured[t] <= Len(written[t]) + 1 + (IF overtaken[t] THEN PoolBlocks ELSE 0)

\* What the report should say and does not quite: see the finding.
OkMeansNothingDropped ==
  \A t \in Takes : report[t] = "ok" => dropped[t] = 0

\* The sink the callback will have once it has drained its commands.
Pending == IF cmds = <<>> THEN active ELSE cmds[Len(cmds)]

\* The running take stays the one the callback is, or will be, attached to:
\* no late Clear or Set of an earlier take detaches it.  Only the end of the
\* stream does.
TakeStaysAttached ==
  [][ \A t \in Takes :
        session = t /\ session' = t /\ Pending = t =>
          Pending' = t \/ ~streamOpen' ]_vars

\* The audio thread never deallocates a sink: a sink it cannot hand back at
\* once stays held until the trash channel has room for it, or the stream
\* that held it is dropped by the control thread.
HeldSinkIsHandedBack ==
  [][ \/ retiring \in {NoTake, retiring'}
      \/ Held(retiring, trash')
      \/ ~streamOpen' ]_vars

\* A stop always comes back to an idle control thread with a verdict on the
\* take, even when the device never delivers another block.
StopCompletes ==
  \A t \in Takes : (ctl = "clear" /\ ctlTake = t) ~> (ctl = "idle" /\ report[t] # "none")

\* Every take that was begun and is no longer running gets its file closed:
\* stopped, declined, timed out, or cut off by the end of the stream.
EveryFileIsClosed ==
  \A t \in Takes :
    (writer[t] # "none" /\ (stopFlag[t] \/ ~SinkAlive(t))) ~> writer[t] = "done"

\* A take as TakeLifecycle sees it.
PhaseOf(t) ==
  CASE report[t] # "none" -> report[t]
    [] report[t] = "none" /\ (session = t \/ (ctlTake = t /\ ctl \in {"install", "unwind"})) -> "armed"
    [] report[t] = "none" /\ ctlTake = t /\ ctl \in {"clear", "finish", "count", "raise", "await"} -> "ending"
    [] OTHER -> "new"

Lifecycle == INSTANCE TakeLifecycle WITH
  phase <- [t \in Takes |-> PhaseOf(t)],
  file <- written,
  Stamps <- 1..MaxBlocks

\* The pipeline implements the lifecycle: one take at a time, one verdict per
\* take, blocks in the order they were played, nothing after a verdict that
\* rests on a closed file.
ImplementsLifecycle == Lifecycle!Spec

=============================================================================
