------------------------------ MODULE RecordUi ------------------------------
(***************************************************************************)
(* Record, count-in and Stop as the studio's UI thread runs them           *)
(* (recording_ops.rs, transport_ops.rs, audio_transport.rs).               *)
(*                                                                         *)
(* A handler of the UI thread is one step.  Between the handlers run the   *)
(* timer of each count-in (a cancelled count-in leaves its timer behind),  *)
(* the audio tick, a deferred Play, and the engine's count-in clock.       *)
(*                                                                         *)
(* A take is the number of the Record press that started it.  Preparing    *)
(* and Finalizing do not outlive a handler.  How long a count-in lasts is  *)
(* left open: its clock reaches zero at any time, or never.  Whether a     *)
(* take can be armed, whether Play starts, waits for a project sync or     *)
(* fails, and how finalizing ends, are choices.  Notes, peaks and the      *)
(* placement of clips are left out; the engine's preview tracks are those  *)
(* of its session.                                                         *)
(***************************************************************************)
EXTENDS Naturals

CONSTANTS
  MaxPresses,   \* bound on the Record presses that start a take
  MaxPlays      \* bound on Play requests from elsewhere

ASSUME RecordAssumption == MaxPresses \in Nat \ {0} /\ MaxPlays \in Nat

VARIABLES
  s,        \* the UI's record state, the engine's session, and the history
  timers    \* live count-in timers

recVars == <<s, timers>>

NoTake  == 0
Presses == 1..MaxPresses
Kinds   == {"audio", "midi"}
Fates   == {"none", "running", "committed", "discarded", "lost"}

RecordInit ==
  /\ s = [ui        |-> "Idle",    \* recording.ui_state
          token     |-> 0,         \* count_in_token
          flag      |-> FALSE,     \* timeline transport.recording
          midi      |-> NoTake,    \* recording.midi
          shown     |-> FALSE,     \* a MIDI preview clip is in the timeline
          preview   |-> NoTake,    \* recording.preview
          playAfter |-> FALSE,     \* play_after_sync
          playing   |-> FALSE,     \* the engine's transport rolls
          session   |-> NoTake,    \* EngineInner.recording
          capturing |-> FALSE,     \* session.recording_active
          clock     |-> FALSE,     \* count_in_remaining_samples > 0
          presses   |-> 0,         \* history: takes asked for
          plays     |-> 0,         \* history: Play requests
          cancelled |-> {},        \* history: takes whose count-in was cancelled
          stopped   |-> {},        \* history: takes stopped while counted in
          fate      |-> [p \in Presses |-> "none"]]  \* history: audio takes
  /\ timers = {}

-----------------------------------------------------------------------------
(* Parts of the handlers, as the states they can turn the state r into.    *)

\* is_recording_active
Active(r) ==
  \/ r.ui \in {"CountingIn", "Recording"}
  \/ r.flag
  \/ NoTake # r.preview \/ NoTake # r.midi \/ NoTake # r.session

\* engine.pause: the transport stops, and with it the capture.
Paused(r) == [r EXCEPT !.playing = FALSE, !.capturing = FALSE]

\* start_native_playback: it rolls, waits for the sync under way, or fails.
Rolled(r) ==
  IF r.playing THEN {r}
  ELSE {[r EXCEPT !.playing = TRUE], [r EXCEPT !.playAfter = TRUE], r}

\* stop_recording: the engine gives the session away whatever comes of it.
Ended(r, fate) ==
  [r EXCEPT !.session = NoTake, !.capturing = FALSE, !.fate = [r.fate EXCEPT ![r.session] = fate]]

\* Mutant of Discarded: the armed take is left in the engine.
DiscardedInUi(r) == {[r EXCEPT !.midi = NoTake]}

\* discard_armed_count_in_take; a MIDI preview clip stays, and so does the
\* transport's flag if there was no audio take.
Discarded(r) ==
  LET quiet == [r EXCEPT !.midi = NoTake] IN
  IF r.session = NoTake THEN {quiet}
  ELSE {[Ended(quiet, fate) EXCEPT !.flag = FALSE] : fate \in {"discarded", "lost"}}

\* cancel_record_count_in
CountInCancelled(r) ==
  {[Paused(d) EXCEPT !.token = @ + 1, !.clock = FALSE, !.ui = "Idle",
                     !.cancelled = @ \cup {r.presses}] : d \in Discarded(r)}

\* What the UI and the transport are left with when a take is finalized.
Quieted(r) ==
  [Paused(r) EXCEPT !.flag = FALSE, !.preview = NoTake, !.ui = "Idle", !.midi = NoTake,
                    !.shown = IF r.midi = NoTake THEN @ ELSE FALSE]

\* Mutant of Finalized: a take is finalized only if it still captures.
FinalizedIfCapturing(r) ==
  IF ~r.capturing THEN {Quieted(r)} ELSE {Ended(Quieted(r), "committed")}

\* stop_native_recording outside a count-in.  All tracks are committed, or
\* some failed, or the engine fails to stop and the MIDI take is dropped too.
Finalized(r) ==
  IF r.session = NoTake THEN {Quieted(r)}
  ELSE {Ended(Quieted(r), "committed"),
        [Ended(Quieted(r), "committed") EXCEPT !.ui = "Failed"],
        [Ended(Quieted(r), "lost") EXCEPT !.ui = "Failed"]}

\* stop_native_recording
RecordingStopped(r) ==
  IF r.ui = "CountingIn" THEN CountInCancelled(r) ELSE Finalized(r)

\* stop_native_playback, "the one Stop" (stop_must_finalize_recording).
PlaybackStopped(r) ==
  IF Active(r) /\ r.ui # "CountingIn" THEN Finalized(r)
  ELSE {[Paused(r) EXCEPT !.stopped =
           IF r.ui = "CountingIn" THEN @ \cup {r.presses} ELSE @]}

\* fail_recording_start
StartFailed(r) == [r EXCEPT !.ui = "Failed", !.midi = NoTake]

\* The take of a start_native_recording_now that goes well.
Armed(r, kinds) ==
  LET audio == "audio" \in kinds  midi == "midi" \in kinds IN
  [r EXCEPT !.flag = TRUE, !.capturing = audio,
            !.midi = IF midi THEN r.presses ELSE NoTake,
            !.shown = @ \/ midi,
            !.session = IF audio THEN r.presses ELSE @,
            !.fate = IF audio THEN [r.fate EXCEPT ![r.presses] = "running"] ELSE @]

\* The engine refuses an audio take while it has a session.
CanArm(r, kinds) == kinds # {} /\ ("audio" \in kinds => r.session = NoTake)

-----------------------------------------------------------------------------
(* The user.                                                               *)

\* start_native_recording_now(true): roll at once.
RecordNow(kinds) ==
  LET r == [s EXCEPT !.presses = @ + 1] IN
  /\ \/ s' = StartFailed(r)
     \/ CanArm(r, kinds) /\ s' \in Rolled([Armed(r, kinds) EXCEPT !.ui = "Recording"])
  /\ UNCHANGED timers

\* begin_record_count_in: arm now, play at the downbeat.  If arming fails the
\* count-in is cancelled in the engine and has no timer; if the engine has no
\* click the timer goes by its deadline alone.
RecordCountIn(kinds, clocked) ==
  LET r == [s EXCEPT !.presses = @ + 1, !.token = @ + 1, !.ui = "CountingIn",
                     !.clock = clocked]
  IN \/ /\ s' = [StartFailed(r) EXCEPT !.clock = FALSE]
        /\ UNCHANGED timers
     \/ /\ CanArm(r, kinds)
        /\ s' = Armed(r, kinds)
        /\ timers' = timers \cup
             {[token |-> r.token, press |-> r.presses, clocked |-> clocked,
               overdue |-> FALSE]}

\* toggle_native_recording
Record ==
  \/ Active(s) /\ s' \in RecordingStopped(s) /\ UNCHANGED timers
  \/ /\ ~Active(s) /\ s.presses < MaxPresses
     /\ \E kinds \in SUBSET Kinds :
          \/ RecordNow(kinds)
          \/ ~s.playing /\ \E clocked \in BOOLEAN : RecordCountIn(kinds, clocked)

\* Stop, or Space while a take is active or the transport rolls.
Stop ==
  /\ s' \in PlaybackStopped(s)
  /\ UNCHANGED timers

\* A restart of the audio engine (restart_audio_engine, and the change of the
\* sample rate); reopening the device is not modelled.
Restart ==
  /\ s' \in IF Active(s) THEN RecordingStopped(s) ELSE PlaybackStopped(s)
  /\ UNCHANGED timers

\* prepare_immediate_session_shutdown, on close, quit and switch.
EndSession ==
  /\ s' \in UNION {PlaybackStopped(r) :
              r \in IF s.ui \in {"CountingIn", "Recording"} THEN RecordingStopped(s)
                    ELSE {s}}
  /\ UNCHANGED timers

\* Play from the transport, or from an ARA plug-in, which is not held back by
\* a count-in.
Play ==
  /\ ~s.playing /\ s.plays < MaxPlays
  /\ s' \in Rolled([s EXCEPT !.plays = @ + 1])
  /\ UNCHANGED timers

-----------------------------------------------------------------------------
(* What runs between the user's requests.                                  *)

\* The sync that a Play waited for ends.
PlayAfterSync ==
  /\ s.playAfter
  /\ s' \in Rolled([s EXCEPT !.playAfter = FALSE])
  /\ UNCHANGED timers

\* update_recording_preview, on every audio tick.
Tick ==
  /\ s' = [s EXCEPT !.preview = IF s.flag THEN s.session ELSE NoTake]
  /\ UNCHANGED timers

\* The engine's count-in reaches zero.
CountInOver ==
  /\ s.clock
  /\ s' = [s EXCEPT !.clock = FALSE]
  /\ UNCHANGED timers

DeadlinePasses(timer) ==
  /\ timer \in timers /\ ~timer.overdue
  /\ timers' = (timers \ {timer}) \cup {[timer EXCEPT !.overdue = TRUE]}
  /\ UNCHANGED s

\* Mutant of Current: any count-in will do.
AnyCountIn(timer) == s.ui = "CountingIn"

\* Neither cancelled nor superseded by a newer Record.
Current(timer) == timer.token = s.token /\ s.ui = "CountingIn"

\* Mutant of Due: the deadline is not looked at.
DueByClock(timer) == timer.clocked /\ ~s.clock

Due(timer) == timer.overdue \/ (timer.clocked /\ ~s.clock)

\* A poll of the timer that ends it: the downbeat, or it is a leftover.
TimerFires(timer) ==
  /\ timer \in timers
  /\ timers' = timers \ {timer}
  /\ \/ ~Current(timer) /\ UNCHANGED s
     \/ Current(timer) /\ Due(timer) /\ s' \in Rolled([s EXCEPT !.ui = "Recording"])

RecordNext ==
  \/ Record \/ Stop \/ Restart \/ EndSession \/ Play
  \/ PlayAfterSync \/ Tick \/ CountInOver
  \/ \E timer \in timers : DeadlinePasses(timer) \/ TimerFires(timer)

\* Time passes, and a timer goes on polling.  Nothing is assumed of the
\* engine, whose callback may have stalled.
RecordFairness ==
  /\ WF_recVars(\E timer \in timers : DeadlinePasses(timer))
  /\ WF_recVars(\E timer \in timers : TimerFires(timer))

RecordSpec == RecordInit /\ [][RecordNext]_recVars /\ RecordFairness

-----------------------------------------------------------------------------
(* Properties.                                                             *)

\* Types; the engine captures only for a session it has, and the audio preview
\* is that of a take.
RecordTypeOK ==
  /\ s.ui \in {"Idle", "CountingIn", "Recording", "Failed"}
  /\ s.token \in Nat /\ s.plays \in 0..MaxPlays /\ s.presses \in 0..MaxPresses
  /\ {s.midi, s.preview, s.session} \subseteq 0..s.presses
  /\ {s.flag, s.shown, s.playAfter, s.playing, s.capturing, s.clock} \subseteq BOOLEAN
  /\ s.cancelled \subseteq 1..s.presses /\ s.stopped \subseteq 1..s.presses
  /\ s.fate \in [Presses -> Fates]
  /\ timers \subseteq [token : 1..s.token, press : 1..s.presses,
                       clocked : BOOLEAN, overdue : BOOLEAN]
  /\ s.capturing => s.session # NoTake

\* The UI shows a count-in or a recording exactly while there is a take, of
\* the latest press: no channel of Stop, no failed start and no failed
\* finalizing leaves a session behind in the engine, nor a UI that records
\* nothing.
RecorderHasItsTake ==
  /\ s.ui \in {"CountingIn", "Recording"} <=> (NoTake # s.session \/ NoTake # s.midi)
  /\ s.session \in {NoTake, s.presses} /\ s.midi \in {NoTake, s.presses}

\* Every audio take has one end: the files of a take are deleted only if its
\* count-in was cancelled, and a take whose count-in was cancelled is never
\* committed, not even by a later Stop.
EveryTakeSettled ==
  \A p \in Presses :
    /\ s.fate[p] = "running" <=> s.session = p
    /\ s.fate[p] = "discarded" => p \in s.cancelled
    /\ p \in s.cancelled => s.fate[p] # "committed"

\* The transport is not moved by a leftover of an earlier count-in: a take
\* that was counted in rolls on the timer of its own press.
RollsOnItsOwnTimer ==
  [][\A timer \in timers \ timers' :
       s.ui = "CountingIn" /\ s'.ui = "Recording" => timer.press = s.presses]_recVars

\* A count-in ends, whatever the engine does.
CountInEnds == s.ui = "CountingIn" ~> s.ui # "CountingIn"
=============================================================================
