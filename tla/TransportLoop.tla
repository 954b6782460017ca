--------------------------- MODULE TransportLoop ---------------------------
(***************************************************************************)
(* The transport of the audio callback in a loop: the play position, the   *)
(* position MIDI playback continues from, and the one the metronome        *)
(* continues from (transport.rs, backend/render.rs, engine/render.rs).     *)
(*                                                                         *)
(* A block is rendered in several walks over the same samples, each cut    *)
(* into segments where the loop wraps: MIDI, then the click, and last the  *)
(* position is published.  A mono output renders the click straight on,    *)
(* past the end of the loop.  Commands are applied between two blocks.     *)
(* The walk of the audio clips has no state of its own and is left out, as *)
(* are latency compensation and the suspension of the click in a ruler     *)
(* drag.                                                                   *)
(***************************************************************************)
EXTENDS Naturals, FiniteSetsExt

CONSTANTS
  MaxSample,   \* bound on the timeline
  MaxBlock     \* bound on the frames of a block

ASSUME TransportAssumption == MaxSample \in Nat \ {0} /\ MaxBlock \in Nat \ {0}

VARIABLES
  t,       \* the transport, and the schedules of MIDI and of the metronome
  block    \* the block being rendered

transportVars == <<t, block>>

Samples == 0..MaxSample
NoLoop  == [start |-> 0, end |-> 0]
NoReset == MaxSample + 1
NoBlock == [phase |-> "none", base |-> 0, seg |-> 0, left |-> 0, frames |-> 0,
            reset |-> NoReset, loop |-> NoLoop]

TransportInit ==
  /\ \E one \in BOOLEAN :
       t = [position  |-> 0,         \* position_samples
            playing   |-> FALSE,     \* playing_local
            looping   |-> FALSE,     \* loop_enabled
            start     |-> 0,         \* loop_start_samples
            end       |-> 0,         \* loop_end_samples
            midi      |-> 0,         \* the cursors of the MIDI tracks
            metronome |-> FALSE,     \* metronome_enabled
            click     |-> 0,         \* metronome_next_beat
            mono      |-> one]       \* the output has one channel
  /\ block = NoBlock

-----------------------------------------------------------------------------
(* The arithmetic of a loop.                                               *)

\* active_loop_bounds
ActiveLoop ==
  IF t.looping /\ t.start < t.end THEN [start |-> t.start, end |-> t.end] ELSE NoLoop

\* normalize_loop_position
Normalized(position, loop) ==
  IF loop # NoLoop /\ position >= loop.end THEN loop.start ELSE position

\* segment_frames_until_loop_wrap
SegmentFrames(position, left, loop) ==
  IF loop = NoLoop \/ left = 0 THEN left
  ELSE IF position >= loop.end THEN 1
  ELSE Min({left, loop.end - position})

\* advance_loop_position: a round takes the length of the loop off the distance.
Advance(position, frames, loop) ==
  LET folded[to \in 0..(MaxSample + MaxBlock)] ==
        IF to < loop.end THEN to ELSE folded[to - (loop.end - loop.start)]
      from == Normalized(position, loop)
  IN  IF loop = NoLoop THEN [to |-> position + frames, wrapped |-> FALSE]
      ELSE [to      |-> folded[from + frames],
            wrapped |-> from # position \/ frames >= loop.end - from]

-----------------------------------------------------------------------------
(* Commands, drained before a block.                                       *)

\* reset_midi_playback and reset_metronome_schedule
Rescheduled(r, position) == [r EXCEPT !.midi = position, !.click = position]

Idle == block = NoBlock

StartTransport ==
  /\ Idle
  /\ t' = Rescheduled([t EXCEPT !.playing = TRUE], t.position)
  /\ UNCHANGED block

StopTransport ==
  /\ Idle
  /\ t' = [t EXCEPT !.playing = FALSE]
  /\ UNCHANGED block

Seek(position) ==
  /\ Idle
  /\ t' = Rescheduled([t EXCEPT !.position = position], position)
  /\ UNCHANGED block

SetLoop(enabled, start, end) ==
  /\ Idle
  /\ t' = [t EXCEPT !.looping = enabled, !.start = start, !.end = end]
  /\ UNCHANGED block

\* A new tempo moves the position with its beat; one that changes nothing
\* resets the click alone.
SetTempo(position) ==
  /\ Idle
  /\ \/ t' = Rescheduled([t EXCEPT !.position = position], position)
     \/ t' = [t EXCEPT !.click = t.position]
  /\ UNCHANGED block

LoadProject ==
  /\ Idle
  /\ t' = Rescheduled(t, t.position)
  /\ UNCHANGED block

SetMetronome(enabled) ==
  /\ Idle
  /\ t' = [t EXCEPT !.metronome = enabled, !.click = t.position]
  /\ UNCHANGED block

-----------------------------------------------------------------------------
(* The callback.                                                           *)

\* A block of the rolling transport; a parked one leaves all of this alone.
BeginBlock(frames) ==
  LET loop == ActiveLoop
      base == Normalized(t.position, loop)
  IN  /\ Idle /\ t.playing
      /\ loop = NoLoop => t.position + frames <= MaxSample
      /\ t' = IF base = t.position THEN t
              ELSE Rescheduled([t EXCEPT !.position = base], base)
      /\ block' = [phase |-> "midi", base |-> base, seg |-> base, left |-> frames,
                   frames |-> frames, reset |-> NoReset, loop |-> loop]

\* A schedule moves on to the end of a segment, and never back.
Scheduled(from, seg, frames) == Max({from, seg + frames})

\* Mutant of EndReset: nobody reschedules for a wrap at the end of the block.
NoEndReset(next) == NoReset

\* A wrap at the very end of a block is left to the publication.
EndReset(next) == IF next.wrapped THEN next.to ELSE NoReset

\* schedule_midi_render_block, one segment
MidiSegment ==
  LET n    == SegmentFrames(block.seg, block.left, block.loop)
      next == Advance(block.seg, n, block.loop)
      left == block.left - n
  IN  /\ block.phase = "midi"
      /\ t' = [t EXCEPT !.midi = IF next.wrapped /\ left > 0 THEN next.to
                                 ELSE Scheduled(@, block.seg, n)]
      /\ block' = IF left > 0 THEN [block EXCEPT !.seg = next.to, !.left = left]
                  ELSE [block EXCEPT !.phase = "click", !.seg = block.base,
                                     !.left = block.frames, !.reset = EndReset(next)]

\* mix_metronome_block, one segment; the last one does not wrap.  Not for a
\* mono output.
ClickSegment ==
  LET n    == SegmentFrames(block.seg, block.left, block.loop)
      next == Advance(block.seg, n, block.loop)
      left == block.left - n
  IN  /\ block.phase = "click" /\ ~t.mono
      /\ t' = [t EXCEPT !.click = IF next.wrapped /\ left > 0 THEN next.to
                                  ELSE IF t.metronome THEN Scheduled(@, block.seg, n)
                                  ELSE @]
      /\ block' = IF left > 0 THEN [block EXCEPT !.seg = next.to, !.left = left]
                  ELSE [block EXCEPT !.phase = "publish"]

\* The click of a mono output, sample by sample from the start of the block: it
\* knows no loop, and what a wrap would reset stays ahead.
MonoClick ==
  /\ block.phase = "click" /\ t.mono
  /\ t' = [t EXCEPT !.click = IF t.metronome THEN Scheduled(@, block.base, block.frames)
                              ELSE @]
  /\ block' = [block EXCEPT !.phase = "publish"]

\* The end of the block: the position, and the reset left to do.
EndBlock ==
  LET r == [t EXCEPT !.position = Advance(block.base, block.frames, block.loop).to] IN
  /\ block.phase = "publish"
  /\ t' = IF block.reset = NoReset THEN r ELSE Rescheduled(r, block.reset)
  /\ block' = NoBlock

TransportNext ==
  \/ StartTransport \/ StopTransport \/ LoadProject
  \/ \E p \in Samples : Seek(p) \/ SetTempo(p)
  \/ \E enabled \in BOOLEAN, start, end \in Samples : SetLoop(enabled, start, end)
  \/ \E enabled \in BOOLEAN : SetMetronome(enabled)
  \/ \E frames \in 1..MaxBlock : BeginBlock(frames)
  \/ MidiSegment \/ ClickSegment \/ MonoClick \/ EndBlock

TransportSpec == TransportInit /\ [][TransportNext]_transportVars

-----------------------------------------------------------------------------
(* Property.                                                               *)

\* The click is scheduled at a sample, or at least not before it on a mono
\* output.
ClickFollows(sample) ==
  t.metronome => IF t.mono THEN t.click >= sample ELSE t.click = sample

\* What is heard follows the play position through every wrap, wherever in a
\* block, however short the loop and however it was just changed: a walk that
\* reaches a segment finds its schedule there, and between blocks both
\* schedules are at the published position.  So no note or click is skipped,
\* played twice or played late.  On a mono output the click may be skipped, for
\* its schedule stays ahead of a wrap; it is not played twice or late.
SchedulesFollowPosition ==
  /\ block.phase = "midi" => t.midi = block.seg
  /\ block.phase = "click" => ClickFollows(block.seg)
  /\ Idle /\ t.playing => t.midi = t.position /\ ClickFollows(t.position)
  /\ t.position \in Samples
=============================================================================
