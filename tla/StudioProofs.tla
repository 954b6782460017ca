---------------------------- MODULE StudioProofs -----------------------------
(***************************************************************************)
(* Proofs about RecordUi, for every number of presses.                     *)
(*                                                                         *)
(* Each part of a handler turns a state into another, so the invariant is  *)
(* stated of any state r and set of timers ts, and each part is shown to   *)
(* keep it; the handlers follow by composition.                            *)
(***************************************************************************)
EXTENDS MCStudio, GuardProofs

-----------------------------------------------------------------------------
(* The inductive invariant.                                                *)

Fields ==
  {"ui", "token", "flag", "midi", "shown", "preview", "playAfter", "playing", "session",
   "capturing", "clock", "presses", "plays", "cancelled", "stopped", "fate"}

State(r) ==
  /\ r = [f \in Fields |-> r[f]]
  /\ r.ui \in {"Idle", "CountingIn", "Recording", "Failed"}
  /\ r.token \in Nat /\ r.plays \in 0..MaxPlays /\ r.presses \in 0..MaxPresses
  /\ {r.flag, r.shown, r.playAfter, r.playing, r.capturing, r.clock} \subseteq BOOLEAN
  /\ r.cancelled \subseteq Presses /\ r.stopped \subseteq Presses
  /\ r.fate \in [Presses -> Fates]

Timers == [token : Nat, press : Nat, clocked : BOOLEAN, overdue : BOOLEAN]

\* The take is that of the latest press, and is there while the UI says so.
HasItsTake(r) ==
  /\ r.ui \in {"CountingIn", "Recording"} <=> (NoTake # r.session \/ NoTake # r.midi)
  /\ r.session \in {NoTake, r.presses} /\ r.midi \in {NoTake, r.presses}
  /\ r.preview \in 0..r.presses
  /\ r.capturing => r.session # NoTake

\* The engine's take is the one that runs, and it was not cancelled.
Settled(r) ==
  /\ \A p \in Presses : r.fate[p] = "running" <=> r.session = p
  /\ \A p \in Presses : r.fate[p] = "discarded" => p \in r.cancelled
  /\ \A p \in r.cancelled : r.fate[p] # "committed" /\ p # r.session
  /\ \A p \in r.cancelled \cup r.stopped : p <= r.presses
  /\ \A p \in Presses : r.presses < p => r.fate[p] = "none"
  /\ r.ui = "CountingIn" => r.fate[r.presses] \in {"none", "running"}

\* The timer of the current token is that of the count-in under way.
TimersInStep(r, ts) ==
  /\ ts \subseteq Timers
  /\ \A timer \in ts :
       /\ timer.token \in 1..r.token /\ timer.press \in 1..r.presses
       /\ timer.token = r.token => r.ui = "CountingIn" /\ timer.press = r.presses
  /\ \A x, y \in ts : x.token = y.token => x = y

Fine(r, ts) == State(r) /\ HasItsTake(r) /\ Settled(r) /\ TimersInStep(r, ts)

-----------------------------------------------------------------------------
(* The parts of the handlers.                                              *)

\* x is r, but for its preview, playing, playAfter, plays, flag, shown and clock.
SameTake(x, r) ==
  /\ x.ui = r.ui /\ x.token = r.token /\ x.midi = r.midi /\ x.session = r.session
  /\ x.presses = r.presses /\ x.cancelled = r.cancelled /\ x.stopped = r.stopped
  /\ x.fate = r.fate

\* The studio starts without a take.
LEMMA FineInit == RecordInit => Fine(s, timers)
<1> SUFFICES ASSUME RecordInit PROVE Fine(s, timers)
  OBVIOUS
<1>1. State(s)
  <2>1. s = [f \in Fields |-> s[f]]
    BY DEF RecordInit, Fields
  <2>2. s.fate \in [Presses -> Fates]
    BY DEF RecordInit, Fates
  <2>3. s.plays \in 0..MaxPlays /\ s.presses \in 0..MaxPresses
    BY RecordAssumption DEF RecordInit
  <2> QED
    BY <2>1, <2>2, <2>3 DEF RecordInit, State, NoTake
<1>2. HasItsTake(s) /\ Settled(s)
  BY DEF RecordInit, HasItsTake, Settled, Presses, NoTake
<1>3. TimersInStep(s, timers)
  BY DEF RecordInit, TimersInStep
<1> QED
  BY <1>1, <1>2, <1>3 DEF Fine

\* What leaves the take, the preview and the timers alone keeps the invariant.
LEMMA SameTakeKeeps ==
  ASSUME NEW r, NEW ts, Fine(r, ts), NEW x, State(x), SameTake(x, r),
         x.capturing => r.capturing, x.preview \in {r.preview, NoTake, r.session}
  PROVE  Fine(x, ts)
<1>1. r.session \in 0..r.presses /\ NoTake \in 0..r.presses
  BY DEF Fine, State, HasItsTake, NoTake
<1>2. HasItsTake(x)
  BY <1>1 DEF Fine, HasItsTake, SameTake
<1>3. Settled(x) /\ TimersInStep(x, ts)
  BY DEF Fine, Settled, TimersInStep, SameTake
<1> QED
  BY <1>2, <1>3 DEF Fine

\* Starting the transport does not touch the take.
LEMMA RolledKeeps ==
  ASSUME NEW r, NEW ts, Fine(r, ts), NEW x \in Rolled(r)
  PROVE  Fine(x, ts)
<1>1. State(r)
  BY DEF Fine
<1>2. CASE x = [r EXCEPT !.playing = TRUE]
  <2>1. x = [f \in Fields |-> x[f]]
    BY <1>1, <1>2 DEF State
  <2>2. /\ SameTake(x, r) /\ x.preview = r.preview /\ x.capturing = r.capturing
        /\ x.flag = r.flag /\ x.shown = r.shown /\ x.playAfter = r.playAfter
        /\ x.playing = TRUE /\ x.clock = r.clock /\ x.plays = r.plays
    BY <1>1, <1>2 DEF State, Fields, SameTake
  <2>3. State(x)
    BY <1>1, <2>1, <2>2 DEF State, SameTake
  <2> QED
    BY <2>2, <2>3, SameTakeKeeps
<1>3. CASE x = [r EXCEPT !.playAfter = TRUE]
  <2>1. x = [f \in Fields |-> x[f]]
    BY <1>1, <1>3 DEF State
  <2>2. /\ SameTake(x, r) /\ x.preview = r.preview /\ x.capturing = r.capturing
        /\ x.flag = r.flag /\ x.shown = r.shown /\ x.playAfter = TRUE
        /\ x.playing = r.playing /\ x.clock = r.clock /\ x.plays = r.plays
    BY <1>1, <1>3 DEF State, Fields, SameTake
  <2>3. State(x)
    BY <1>1, <2>1, <2>2 DEF State, SameTake
  <2> QED
    BY <2>2, <2>3, SameTakeKeeps
<1> QED
  BY <1>2, <1>3 DEF Rolled

-----------------------------------------------------------------------------
(* What the parts of a handler make of the take.                           *)

SameUi(x, r) ==
  /\ x.ui = r.ui /\ x.token = r.token /\ x.preview = r.preview
  /\ x.presses = r.presses /\ x.cancelled = r.cancelled /\ x.stopped = r.stopped

EndedFrom(x, r, fate) ==
  /\ State(x) /\ SameUi(x, r)
  /\ x.midi = r.midi /\ x.session = NoTake /\ x.capturing = FALSE
  /\ \A p \in Presses : x.fate[p] = IF p = r.session THEN fate ELSE r.fate[p]

QuietedFrom(x, r) ==
  /\ State(x)
  /\ x.ui = "Idle" /\ x.midi = NoTake /\ x.preview = NoTake /\ x.capturing = FALSE
  /\ x.token = r.token /\ x.session = r.session /\ x.presses = r.presses
  /\ x.cancelled = r.cancelled /\ x.stopped = r.stopped /\ x.fate = r.fate

\* The session is gone, and the take that ran has one of these fates.
Without(x, r, fates) ==
  /\ State(x) /\ x.session = NoTake /\ x.midi = NoTake
  /\ \A p \in Presses : IF p = r.session THEN x.fate[p] \in fates ELSE x.fate[p] = r.fate[p]

LEMMA EndedFacts ==
  ASSUME NEW r, State(r), NEW fate \in Fates
  PROVE  EndedFrom(Ended(r, fate), r, fate)
<1> DEFINE x == Ended(r, fate)
<1>1. x = [f \in Fields |-> x[f]]
  BY DEF State, Ended
<1>2. /\ x.session = NoTake /\ x.capturing = FALSE /\ x.midi = r.midi
      /\ x.fate = [r.fate EXCEPT ![r.session] = fate] /\ SameUi(x, r)
      /\ x.flag = r.flag /\ x.shown = r.shown /\ x.playAfter = r.playAfter
      /\ x.playing = r.playing /\ x.clock = r.clock /\ x.plays = r.plays
  BY DEF State, Fields, Ended, SameUi
<1> HIDE DEF x
<1>3. /\ x.fate \in [Presses -> Fates]
      /\ \A p \in Presses : x.fate[p] = IF p = r.session THEN fate ELSE r.fate[p]
  BY <1>2 DEF State
<1>4. State(x)
  BY <1>1, <1>2, <1>3 DEF State, SameUi
<1>5. EndedFrom(x, r, fate)
  BY <1>2, <1>3, <1>4 DEF EndedFrom
<1> QED
  BY <1>5 DEF x

LEMMA QuietedFacts ==
  ASSUME NEW r, State(r)
  PROVE  QuietedFrom(Quieted(r), r)
<1> DEFINE x == Quieted(r)
<1>1. x = [f \in Fields |-> x[f]]
  BY DEF State, Quieted, Paused
<1>2. /\ x.ui = "Idle" /\ x.midi = NoTake /\ x.capturing = FALSE
      /\ x.preview = NoTake /\ x.token = r.token /\ x.presses = r.presses
      /\ x.session = r.session /\ x.cancelled = r.cancelled /\ x.stopped = r.stopped
      /\ x.fate = r.fate /\ x.flag = FALSE /\ x.playAfter = r.playAfter
      /\ x.playing = FALSE /\ x.clock = r.clock /\ x.plays = r.plays
  BY DEF State, Fields, Quieted, Paused
<1>3. x.shown \in {r.shown, FALSE}
  BY DEF State, Fields, Quieted, Paused
<1> HIDE DEF x
<1>4. State(x)
  BY <1>1, <1>2, <1>3 DEF State
<1>5. QuietedFrom(x, r)
  BY <1>2, <1>4 DEF QuietedFrom
<1> QED
  BY <1>5 DEF x

\* A take that is given up: the engine's files are deleted, or cannot be.
LEMMA DiscardedFacts ==
  ASSUME NEW r, State(r), NEW x \in Discarded(r)
  PROVE  Without(x, r, {"discarded", "lost"}) /\ SameUi(x, r)
<1> DEFINE q == [r EXCEPT !.midi = NoTake]
<1>1. State(q) /\ SameUi(q, r) /\ q.midi = NoTake /\ q.session = r.session /\ q.fate = r.fate
  <2>1. q = [f \in Fields |-> q[f]]
    BY DEF State
  <2>2. /\ SameUi(q, r) /\ q.midi = NoTake /\ q.session = r.session /\ q.fate = r.fate
        /\ q.flag = r.flag /\ q.shown = r.shown /\ q.clock = r.clock
        /\ q.playAfter = r.playAfter /\ q.playing = r.playing /\ q.plays = r.plays
        /\ q.capturing = r.capturing
    BY DEF State, Fields, SameUi
  <2> HIDE DEF q
  <2> QED
    BY <2>1, <2>2 DEF State, SameUi
<1>2. CASE r.session = NoTake
  <2>1. x = q
    BY <1>2 DEF Discarded
  <2> HIDE DEF q
  <2> QED
    BY <1>1, <1>2, <2>1 DEF Presses, NoTake, Without
<1>3. CASE r.session # NoTake
  <2>1. Discarded(r) = {[Ended(q, fate) EXCEPT !.flag = FALSE] : fate \in {"discarded", "lost"}}
    BY <1>3, Zenon DEF Discarded
  <2> HIDE DEF q
  <2>2. PICK fate \in {"discarded", "lost"} : x = [Ended(q, fate) EXCEPT !.flag = FALSE]
    BY <2>1
  <2> DEFINE e == Ended(q, fate)
  <2>3. x = [e EXCEPT !.flag = FALSE]
    BY <2>2
  <2>4. EndedFrom(e, q, fate)
    BY <1>1, EndedFacts DEF Fates
  <2> HIDE DEF e
  <2>5. x = [f \in Fields |-> x[f]]
    BY <2>3, <2>4 DEF State, EndedFrom
  <2>6. /\ SameUi(x, e) /\ x.session = e.session /\ x.capturing = e.capturing
        /\ x.fate = e.fate /\ x.midi = e.midi
        /\ x.flag = FALSE /\ x.shown = e.shown /\ x.clock = e.clock
        /\ x.playAfter = e.playAfter /\ x.playing = e.playing /\ x.plays = e.plays
    BY <2>3, <2>4 DEF State, Fields, EndedFrom, SameUi
  <2>7. State(x)
    BY <2>4, <2>5, <2>6 DEF State, EndedFrom, SameUi
  <2> QED
    BY <1>1, <2>4, <2>6, <2>7 DEF EndedFrom, Without, SameUi
<1> QED
  BY <1>2, <1>3

\* The count-in stops with the transport, and its timer is out of date.
CancelledFrom(x, d, c) ==
  /\ State(x) /\ x.ui = "Idle" /\ x.token = d.token + 1 /\ x.capturing = FALSE
  /\ x.cancelled = d.cancelled \cup c /\ x.stopped = d.stopped
  /\ x.session = d.session /\ x.midi = d.midi /\ x.preview = d.preview
  /\ x.presses = d.presses /\ x.fate = d.fate

LEMMA CountInCancelledFacts ==
  ASSUME NEW d, State(d), NEW c, c \subseteq Presses, NEW x,
         x = [Paused(d) EXCEPT !.token = @ + 1, !.clock = FALSE, !.ui = "Idle",
                               !.cancelled = @ \cup c]
  PROVE  CancelledFrom(x, d, c)
<1>1. x = [f \in Fields |-> x[f]]
  BY DEF State, Paused
<1>2. /\ x.ui = "Idle" /\ x.token = d.token + 1 /\ x.capturing = FALSE
      /\ x.cancelled = d.cancelled \cup c /\ x.stopped = d.stopped
      /\ x.session = d.session /\ x.midi = d.midi /\ x.preview = d.preview
      /\ x.presses = d.presses /\ x.fate = d.fate /\ x.flag = d.flag /\ x.shown = d.shown
      /\ x.clock = FALSE /\ x.playAfter = d.playAfter /\ x.playing = FALSE /\ x.plays = d.plays
  BY DEF State, Fields, Paused
<1>3. x.token \in Nat /\ x.cancelled \subseteq Presses
  BY <1>2 DEF State
<1>4. {x.flag, x.shown, x.playAfter, x.playing, x.capturing, x.clock} \subseteq BOOLEAN
  BY <1>2 DEF State
<1>5. State(x)
  BY <1>1, <1>2, <1>3, <1>4 DEF State
<1> QED
  BY <1>2, <1>5 DEF CancelledFrom

-----------------------------------------------------------------------------
(* They keep the invariant.                                                *)

LEMMA CountInCancelledKeeps ==
  ASSUME NEW r, NEW ts, Fine(r, ts), r.ui = "CountingIn", NEW x \in CountInCancelled(r)
  PROVE  Fine(x, ts)
<1>1. PICK d \in Discarded(r) :
        x = [Paused(d) EXCEPT !.token = @ + 1, !.clock = FALSE, !.ui = "Idle",
                              !.cancelled = @ \cup {r.presses}]
  BY DEF CountInCancelled
<1>2. State(r) /\ HasItsTake(r) /\ Settled(r) /\ TimersInStep(r, ts)
  BY DEF Fine
<1>3. {r.presses} \subseteq Presses
  BY <1>2 DEF HasItsTake, State, Presses, NoTake
<1>4. Without(d, r, {"discarded", "lost"}) /\ SameUi(d, r)
  BY <1>2, DiscardedFacts
<1>5. /\ State(x) /\ x.ui = "Idle" /\ x.token = r.token + 1 /\ x.capturing = FALSE
      /\ x.cancelled = r.cancelled \cup {r.presses} /\ x.stopped = r.stopped
      /\ x.session = NoTake /\ x.midi = NoTake /\ x.preview = r.preview
      /\ x.presses = r.presses /\ x.fate = d.fate
  <2>1. State(d) /\ d.token = r.token /\ d.cancelled = r.cancelled /\ d.stopped = r.stopped
    BY <1>4 DEF Without, SameUi
  <2>2. CancelledFrom(x, d, {r.presses})
    BY <1>1, <1>3, <2>1, CountInCancelledFacts
  <2> QED
    BY <1>4, <2>1, <2>2 DEF CancelledFrom, Without, SameUi
<1>6. \A p \in Presses : IF p = r.session THEN x.fate[p] \in {"discarded", "lost"}
                         ELSE x.fate[p] = r.fate[p]
  BY <1>4, <1>5 DEF Without
<1>7. HasItsTake(x)
  BY <1>2, <1>5 DEF HasItsTake, NoTake
<1>8. Settled(x)
  <2>1. r.cancelled \subseteq Presses
    BY <1>2 DEF State
  <2>2. \A p \in Presses : x.fate[p] # "running" /\ p # NoTake
    BY <1>2, <1>6 DEF Settled, Presses, NoTake
  <2>3. \A p \in Presses : x.fate[p] = "discarded" => p \in x.cancelled
    BY <1>2, <1>5, <1>6 DEF Settled, HasItsTake, Presses, NoTake
  <2>4. \A p \in x.cancelled : p \in Presses /\ x.fate[p] # "committed"
    BY <1>2, <1>3, <1>5, <1>6, <2>1 DEF Settled
  <2>5. \A p \in x.cancelled \cup x.stopped : p <= x.presses
    BY <1>2, <1>5 DEF Settled, State
  <2>6. \A p \in Presses : x.presses < p => x.fate[p] = "none"
    BY <1>2, <1>5, <1>6 DEF Settled, HasItsTake, State, Presses, NoTake
  <2> QED
    BY <1>5, <2>2, <2>3, <2>4, <2>5, <2>6 DEF Settled
<1>9. TimersInStep(x, ts)
  BY <1>2, <1>5 DEF State, TimersInStep
<1> QED
  BY <1>5, <1>7, <1>8, <1>9 DEF Fine

\* Finalizing takes the session from the engine, whatever comes of it.
LEMMA FinalizedFacts ==
  ASSUME NEW r, State(r), NEW x \in Finalized(r)
  PROVE  /\ Without(x, r, {"committed", "lost"})
         /\ x.ui \in {"Idle", "Failed"} /\ x.capturing = FALSE /\ x.preview = NoTake
         /\ x.token = r.token /\ x.presses = r.presses
         /\ x.cancelled = r.cancelled /\ x.stopped = r.stopped
<1> DEFINE q == Quieted(r)
<1>1. QuietedFrom(q, r)
  BY QuietedFacts
<1>2. CASE r.session = NoTake
  <2>1. x = q
    BY <1>2 DEF Finalized
  <2> HIDE DEF q
  <2> QED
    BY <1>1, <1>2, <2>1 DEF Presses, NoTake, QuietedFrom, Without
<1>3. CASE r.session # NoTake
  <2>1. Finalized(r) = {Ended(q, "committed"), [Ended(q, "committed") EXCEPT !.ui = "Failed"],
                        [Ended(q, "lost") EXCEPT !.ui = "Failed"]}
    BY <1>3 DEF Finalized
  <2> HIDE DEF q
  <2>2. PICK fate \in {"committed", "lost"} :
          x = Ended(q, fate) \/ x = [Ended(q, fate) EXCEPT !.ui = "Failed"]
    BY <2>1
  <2> DEFINE e == Ended(q, fate)
  <2>3. x = e \/ x = [e EXCEPT !.ui = "Failed"]
    BY <2>2
  <2>4. EndedFrom(e, q, fate)
    BY <1>1, EndedFacts DEF Fates, QuietedFrom
  <2> HIDE DEF e
  <2>5. x = [f \in Fields |-> x[f]]
    BY <2>3, <2>4 DEF State, EndedFrom
  <2>6. /\ x.ui \in {e.ui, "Failed"} /\ x.session = e.session /\ x.capturing = e.capturing
        /\ x.fate = e.fate /\ x.midi = e.midi /\ x.preview = e.preview
        /\ x.token = e.token /\ x.presses = e.presses
        /\ x.cancelled = e.cancelled /\ x.stopped = e.stopped
        /\ x.flag = e.flag /\ x.shown = e.shown /\ x.clock = e.clock
        /\ x.playAfter = e.playAfter /\ x.playing = e.playing /\ x.plays = e.plays
    BY <2>3, <2>4 DEF State, Fields, EndedFrom
  <2>7. State(x)
    BY <2>4, <2>5, <2>6 DEF State, EndedFrom
  <2> QED
    BY <1>1, <2>4, <2>6, <2>7 DEF QuietedFrom, EndedFrom, Without, SameUi
<1> QED
  BY <1>2, <1>3

LEMMA FinalizedKeeps ==
  ASSUME NEW r, NEW ts, Fine(r, ts), r.ui # "CountingIn", NEW x \in Finalized(r)
  PROVE  Fine(x, ts)
<1>1. State(r) /\ HasItsTake(r) /\ Settled(r) /\ TimersInStep(r, ts)
  BY DEF Fine
<1>2. /\ State(x) /\ x.session = NoTake /\ x.midi = NoTake
      /\ x.ui \in {"Idle", "Failed"} /\ x.capturing = FALSE /\ x.preview = NoTake
      /\ x.token = r.token /\ x.presses = r.presses
      /\ x.cancelled = r.cancelled /\ x.stopped = r.stopped
      /\ \A p \in Presses : IF p = r.session THEN x.fate[p] \in {"committed", "lost"}
                            ELSE x.fate[p] = r.fate[p]
  BY <1>1, FinalizedFacts DEF Without
<1>3. HasItsTake(x)
  BY <1>1, <1>2 DEF HasItsTake, State, NoTake
<1>4. Settled(x)
  <2>1. \A p \in Presses : x.fate[p] # "running" /\ p # NoTake
    BY <1>1, <1>2 DEF Settled, Presses, NoTake
  <2>2. \A p \in x.cancelled : p \in Presses /\ x.fate[p] # "committed"
    BY <1>1, <1>2 DEF Settled, State
  <2>3. \A p \in Presses : x.presses < p => x.fate[p] = "none"
    BY <1>1, <1>2 DEF Settled, HasItsTake, State, Presses, NoTake
  <2> QED
    BY <1>1, <1>2, <2>1, <2>2, <2>3 DEF Settled
<1>5. TimersInStep(x, ts)
  BY <1>1, <1>2 DEF TimersInStep
<1> QED
  BY <1>2, <1>3, <1>4, <1>5 DEF Fine

\* stop_native_recording, in a count-in or not.
LEMMA RecordingStoppedKeeps ==
  ASSUME NEW r, NEW ts, Fine(r, ts), NEW x \in RecordingStopped(r)
  PROVE  Fine(x, ts)
BY CountInCancelledKeeps, FinalizedKeeps DEF RecordingStopped

\* A Stop that finds nothing to finalize stops the transport alone.
LEMMA PlaybackStoppedKeeps ==
  ASSUME NEW r, NEW ts, Fine(r, ts), NEW x \in PlaybackStopped(r)
  PROVE  Fine(x, ts)
<1>1. State(r) /\ HasItsTake(r) /\ Settled(r) /\ TimersInStep(r, ts)
  BY DEF Fine
<1>2. CASE Active(r) /\ r.ui # "CountingIn"
  BY <1>2, FinalizedKeeps DEF PlaybackStopped
<1>3. CASE ~(Active(r) /\ r.ui # "CountingIn")
  <2>1. PICK c \in SUBSET {r.presses} :
          /\ c # {} => r.ui = "CountingIn"
          /\ x = [Paused(r) EXCEPT !.stopped = r.stopped \cup c]
    <3>1. x = [Paused(r) EXCEPT !.stopped =
                 IF r.ui = "CountingIn" THEN @ \cup {r.presses} ELSE @]
      BY <1>3 DEF PlaybackStopped
    <3>2. Paused(r).stopped = r.stopped /\ r.stopped \cup {} = r.stopped
      BY <1>1 DEF Paused, State, Fields
    <3> QED
      BY <3>1, <3>2
  <2>2. c \subseteq Presses
    BY <1>1, <2>1 DEF HasItsTake, State, Presses, NoTake
  <2>3. x = [f \in Fields |-> x[f]]
    BY <1>1, <2>1 DEF State, Paused
  <2>4. /\ x.ui = r.ui /\ x.token = r.token /\ x.preview = r.preview
        /\ x.presses = r.presses /\ x.cancelled = r.cancelled
        /\ x.stopped = r.stopped \cup c /\ x.session = r.session /\ x.midi = r.midi
        /\ x.capturing = FALSE /\ x.fate = r.fate
        /\ x.flag = r.flag /\ x.shown = r.shown /\ x.clock = r.clock
        /\ x.playAfter = r.playAfter /\ x.playing = FALSE /\ x.plays = r.plays
    BY <1>1, <2>1 DEF State, Fields, Paused
  <2>5. State(x)
    <3>1. x.stopped \subseteq Presses
      BY <1>1, <2>2, <2>4 DEF State
    <3>2. {x.flag, x.shown, x.playAfter, x.playing, x.capturing, x.clock} \subseteq BOOLEAN
      BY <1>1, <2>4 DEF State
    <3> QED
      BY <1>1, <2>3, <2>4, <3>1, <3>2 DEF State
  <2>6. HasItsTake(x) /\ TimersInStep(x, ts)
    BY <1>1, <2>4 DEF HasItsTake, TimersInStep
  <2>7. Settled(x)
    BY <1>1, <2>1, <2>4 DEF Settled, State
  <2> QED
    BY <2>5, <2>6, <2>7 DEF Fine
<1> QED
  BY <1>2, <1>3

-----------------------------------------------------------------------------
(* A Record press.                                                         *)

\* No take runs, and the press in r has no timer yet.
Ready(r, ts) ==
  /\ State(r) /\ r.session = NoTake /\ r.midi = NoTake /\ r.capturing = FALSE
  /\ r.presses \in Presses /\ r.preview \in 0..r.presses
  /\ \A p \in Presses : r.fate[p] # "running" /\ (r.fate[p] = "discarded" => p \in r.cancelled)
  /\ \A p \in r.cancelled : r.fate[p] # "committed" /\ p < r.presses
  /\ \A p \in r.stopped : p < r.presses
  /\ \A p \in Presses : r.presses <= p => r.fate[p] = "none"
  /\ ts \subseteq Timers
  /\ \A timer \in ts : /\ timer.token \in 1..r.token /\ timer.token # r.token
                      /\ timer.press \in 1..r.presses
  /\ \A x, y \in ts : x.token = y.token => x = y

LEMMA PressedReady ==
  ASSUME Fine(s, timers), ~Active(s), s.presses < MaxPresses
  PROVE  /\ Ready([s EXCEPT !.presses = @ + 1], timers)
         /\ \A clocked \in BOOLEAN :
              Ready([s EXCEPT !.presses = @ + 1, !.token = @ + 1, !.ui = "CountingIn",
                              !.clock = clocked], timers)
<1>1. State(s) /\ HasItsTake(s) /\ Settled(s) /\ TimersInStep(s, timers)
  BY DEF Fine
<1>2. s.session = NoTake /\ s.midi = NoTake /\ s.ui \notin {"CountingIn", "Recording"}
  BY DEF Active
<1>3. \A r : /\ State(r) /\ r.session = s.session /\ r.midi = s.midi
             /\ r.capturing = s.capturing /\ r.presses = s.presses + 1
             /\ r.preview = s.preview /\ r.fate = s.fate /\ r.token \in {s.token, s.token + 1}
             /\ r.cancelled = s.cancelled /\ r.stopped = s.stopped
             => Ready(r, timers)
  <2> TAKE r
  <2> HAVE /\ State(r) /\ r.session = s.session /\ r.midi = s.midi
           /\ r.capturing = s.capturing /\ r.presses = s.presses + 1
           /\ r.preview = s.preview /\ r.fate = s.fate /\ r.token \in {s.token, s.token + 1}
           /\ r.cancelled = s.cancelled /\ r.stopped = s.stopped
  <2>1. s.presses \in Nat /\ s.token \in Nat /\ r.presses \in Presses
    BY <1>1, RecordAssumption DEF State, Presses
  <2>2. r.preview \in 0..r.presses /\ r.capturing = FALSE
    BY <1>1, <1>2, <2>1 DEF HasItsTake, State
  <2>3. \A p \in Presses : r.fate[p] # "running" /\ (r.fate[p] = "discarded" => p \in r.cancelled)
    BY <1>1, <1>2 DEF Settled, Presses, NoTake
  <2>4. /\ \A p \in r.cancelled : r.fate[p] # "committed" /\ p < r.presses
        /\ \A p \in r.stopped : p < r.presses
    <3>1. \A p \in s.cancelled \cup s.stopped : p \in Nat /\ p <= s.presses
      <4>1. \A p \in s.cancelled \cup s.stopped : p \in Presses
        BY <1>1 DEF State
      <4> QED
        BY <1>1, <4>1, RecordAssumption DEF Settled, Presses
    <3>2. \A p \in s.cancelled : s.fate[p] # "committed"
      BY <1>1 DEF Settled
    <3> QED
      BY <2>1, <3>1, <3>2
  <2>5. \A p \in Presses : r.presses <= p => r.fate[p] = "none"
    BY <1>1, <2>1 DEF Settled, Presses
  <2>6. \A timer \in timers : /\ timer.token \in 1..r.token /\ timer.token # r.token
                             /\ timer.press \in 1..r.presses
    BY <1>1, <1>2, <2>1 DEF TimersInStep
  <2> QED
    BY <1>1, <1>2, <2>1, <2>2, <2>3, <2>4, <2>5, <2>6 DEF Ready, TimersInStep
<1>4. Ready([s EXCEPT !.presses = @ + 1], timers)
  <2> DEFINE r == [s EXCEPT !.presses = @ + 1]
  <2>1. r = [f \in Fields |-> r[f]]
    BY <1>1 DEF State
  <2>2. /\ r.ui = s.ui /\ r.token = s.token /\ r.midi = s.midi /\ r.session = s.session
        /\ r.capturing = s.capturing /\ r.presses = s.presses + 1 /\ r.preview = s.preview
        /\ r.fate = s.fate /\ r.cancelled = s.cancelled /\ r.stopped = s.stopped
        /\ r.flag = s.flag /\ r.shown = s.shown /\ r.clock = s.clock
        /\ r.playAfter = s.playAfter /\ r.playing = s.playing /\ r.plays = s.plays
    BY <1>1 DEF State, Fields
  <2> HIDE DEF r
  <2>3. r.presses \in 0..MaxPresses
    BY <1>1, <2>2, RecordAssumption DEF State
  <2>4. State(r)
    BY <1>1, <2>1, <2>2, <2>3 DEF State
  <2>5. Ready(r, timers)
    BY <1>3, <2>2, <2>4
  <2> QED
    BY <2>5 DEF r
<1>5. ASSUME NEW clocked \in BOOLEAN
      PROVE  Ready([s EXCEPT !.presses = @ + 1, !.token = @ + 1, !.ui = "CountingIn",
                             !.clock = clocked], timers)
  <2> DEFINE r == [s EXCEPT !.presses = @ + 1, !.token = @ + 1, !.ui = "CountingIn",
                            !.clock = clocked]
  <2>1. r = [f \in Fields |-> r[f]]
    BY <1>1 DEF State
  <2>2. /\ r.ui = "CountingIn" /\ r.token = s.token + 1 /\ r.midi = s.midi
        /\ r.session = s.session /\ r.capturing = s.capturing
        /\ r.presses = s.presses + 1 /\ r.preview = s.preview
        /\ r.fate = s.fate /\ r.cancelled = s.cancelled /\ r.stopped = s.stopped
        /\ r.flag = s.flag /\ r.shown = s.shown /\ r.clock = clocked
        /\ r.playAfter = s.playAfter /\ r.playing = s.playing /\ r.plays = s.plays
    BY <1>1 DEF State, Fields
  <2> HIDE DEF r
  <2>3. r.presses \in 0..MaxPresses /\ r.token \in Nat
    BY <1>1, <2>2, RecordAssumption DEF State
  <2>6. {r.flag, r.shown, r.playAfter, r.playing, r.capturing, r.clock} \subseteq BOOLEAN
    BY <1>1, <2>2 DEF State
  <2>4. State(r)
    BY <1>1, <2>1, <2>2, <2>3, <2>6 DEF State
  <2>5. Ready(r, timers)
    BY <1>3, <2>2, <2>4
  <2> QED
    BY <2>5 DEF r
<1> QED
  BY <1>4, <1>5

\* A start that fails leaves no take.
LEMMA StartFailedKeeps ==
  ASSUME NEW r, NEW ts, Ready(r, ts), NEW clock \in BOOLEAN, NEW x,
         x = StartFailed(r) \/ x = [StartFailed(r) EXCEPT !.clock = clock]
  PROVE  Fine(x, ts)
<1>0. State(r)
  BY DEF Ready
<1>1. x = [f \in Fields |-> x[f]]
  BY <1>0 DEF State, StartFailed
<1>2. /\ x.ui = "Failed" /\ x.token = r.token /\ x.midi = NoTake /\ x.session = r.session
      /\ x.capturing = r.capturing /\ x.presses = r.presses /\ x.preview = r.preview
      /\ x.fate = r.fate /\ x.cancelled = r.cancelled /\ x.stopped = r.stopped
      /\ x.flag = r.flag /\ x.shown = r.shown /\ x.clock \in {r.clock, clock}
      /\ x.playAfter = r.playAfter /\ x.playing = r.playing /\ x.plays = r.plays
  BY <1>0 DEF State, Fields, StartFailed
<1>3. State(x)
  <2>1. {x.flag, x.shown, x.playAfter, x.playing, x.capturing, x.clock} \subseteq BOOLEAN
    BY <1>0, <1>2 DEF State
  <2> QED
    BY <1>0, <1>1, <1>2, <2>1 DEF State, NoTake
<1>4. HasItsTake(x)
  BY <1>2 DEF Ready, HasItsTake
<1>5. Settled(x)
  <2>1. \A p \in Presses : p # NoTake
    BY DEF Presses, NoTake
  <2>2. \A p \in x.cancelled \cup x.stopped : p \in Presses /\ p <= x.presses
    <3>1. \A p \in r.cancelled \cup r.stopped : p \in Presses /\ p < r.presses
      BY <1>0 DEF Ready, State
    <3>2. r.presses \in Nat /\ Presses \subseteq Nat
      BY <1>0, RecordAssumption DEF State, Presses
    <3>3. \A p \in r.cancelled \cup r.stopped : p <= r.presses
      BY <3>1, <3>2
    <3> QED
      BY <1>2, <3>1, <3>3
  <2>3. \A p \in Presses : x.presses < p => x.fate[p] = "none"
    BY <1>2 DEF Ready, Presses
  <2> QED
    BY <1>2, <2>1, <2>2, <2>3 DEF Ready, Settled
<1>6. TimersInStep(x, ts)
  BY <1>2 DEF Ready, TimersInStep
<1> QED
  BY <1>3, <1>4, <1>5, <1>6 DEF Fine

\* The take of the press is there, and nothing else has changed.
ArmedFrom(x, r) ==
  /\ State(x) /\ SameUi(x, r)
  /\ {x.session, x.midi} \subseteq {NoTake, r.presses}
  /\ x.session # NoTake \/ x.midi # NoTake
  /\ x.capturing => x.session # NoTake
  /\ \A p \in Presses : x.fate[p] = IF p = x.session THEN "running" ELSE r.fate[p]

LEMMA ArmedFacts ==
  ASSUME NEW r, NEW ts, Ready(r, ts), NEW kinds \in SUBSET Kinds, kinds # {}
  PROVE  ArmedFrom(Armed(r, kinds), r)
<1> DEFINE x == Armed(r, kinds)
           audio == "audio" \in kinds
           midi == "midi" \in kinds
<1>0. State(r) /\ r.presses \in Presses /\ r.session = NoTake
  BY DEF Ready
<1>1. x = [f \in Fields |-> x[f]]
  BY <1>0 DEF State, Armed
<1>2. /\ SameUi(x, r) /\ x.flag = TRUE /\ x.capturing = audio
      /\ x.clock = r.clock /\ x.playAfter = r.playAfter /\ x.playing = r.playing
      /\ x.plays = r.plays /\ x.shown = (r.shown \/ midi)
      /\ x.midi = (IF midi THEN r.presses ELSE NoTake)
      /\ x.session = (IF audio THEN r.presses ELSE r.session)
      /\ x.fate = (IF audio THEN [r.fate EXCEPT ![r.presses] = "running"] ELSE r.fate)
  BY <1>0 DEF State, Fields, Armed, SameUi
<1>3. audio \in BOOLEAN /\ midi \in BOOLEAN /\ (audio \/ midi)
  <2>1. PICK kind \in kinds : TRUE
    OBVIOUS
  <2>2. kind \in {"audio", "midi"}
    BY DEF Kinds
  <2> QED
    BY <2>1, <2>2
<1> HIDE DEF x, audio, midi
<1>4. x.fate \in [Presses -> Fates]
  BY <1>0, <1>2 DEF State, Fates
<1>5. \A p \in Presses : x.fate[p] = IF p = x.session THEN "running" ELSE r.fate[p]
  <2>1. r.fate \in [Presses -> Fates] /\ \A p \in Presses : p # NoTake
    BY <1>0 DEF State, Presses, NoTake
  <2> QED
    BY <1>0, <1>2, <1>3, <2>1
<1>6. {x.flag, x.shown, x.playAfter, x.playing, x.capturing, x.clock} \subseteq BOOLEAN
  BY <1>0, <1>2, <1>3 DEF State
<1>7. State(x)
  BY <1>0, <1>1, <1>2, <1>4, <1>6 DEF State, SameUi
<1>8. r.presses # NoTake
  BY <1>0 DEF Presses, NoTake
<1>9. ArmedFrom(x, r)
  BY <1>0, <1>2, <1>3, <1>5, <1>7, <1>8 DEF ArmedFrom
<1> QED
  BY <1>9 DEF x

\* A take that is armed and shown as what it is keeps the invariant.
LEMMA ArmedKeeps ==
  ASSUME NEW r, NEW ts, Ready(r, ts), NEW x, State(x), NEW a, ArmedFrom(a, r),
         x.ui \in {"CountingIn", "Recording"}, x.token = a.token, x.preview = a.preview,
         x.presses = a.presses, x.cancelled = a.cancelled, x.stopped = a.stopped,
         x.session = a.session, x.midi = a.midi, x.capturing = a.capturing, x.fate = a.fate
  PROVE  Fine(x, ts)
<1>0. State(r) /\ r.presses \in Presses
  BY DEF Ready
<1>1. /\ x.token = r.token /\ x.preview = r.preview
      /\ x.presses = r.presses /\ x.cancelled = r.cancelled /\ x.stopped = r.stopped
      /\ \A p \in Presses : x.fate[p] = IF p = x.session THEN "running" ELSE r.fate[p]
      /\ {x.session, x.midi} \subseteq {NoTake, r.presses}
      /\ x.session # NoTake \/ x.midi # NoTake
      /\ x.capturing => x.session # NoTake
  BY DEF ArmedFrom, SameUi
<1>2. HasItsTake(x)
  BY <1>1 DEF Ready, HasItsTake
<1>3. Settled(x)
  <2>1. \A p \in Presses : x.fate[p] = "running" <=> x.session = p
    BY <1>1 DEF Ready
  <2>2. \A p \in r.cancelled : p \in Presses /\ p < r.presses /\ r.fate[p] # "committed"
    BY <1>0 DEF Ready, State
  <2>3. \A p \in x.cancelled : x.fate[p] # "committed" /\ p # x.session
    BY <1>0, <1>1, <2>2 DEF Presses, NoTake
  <2>4. \A p \in x.cancelled \cup x.stopped : p <= x.presses
    <3>1. \A p \in r.cancelled \cup r.stopped : p \in Presses /\ p < r.presses
      BY <1>0 DEF Ready, State
    <3>2. r.presses \in Nat /\ Presses \subseteq Nat
      BY <1>0, RecordAssumption DEF State, Presses
    <3>3. ASSUME NEW p \in r.cancelled \cup r.stopped
          PROVE  p <= r.presses
      <4>1. p \in Nat /\ p < r.presses
        BY <3>1, <3>2
      <4> QED
        BY <3>2, <4>1
    <3> QED
      BY <1>1, <3>1, <3>3
  <2>5. \A p \in Presses : x.presses < p => x.fate[p] = "none"
    BY <1>0, <1>1 DEF Ready, Presses, NoTake
  <2>6. x.fate[x.presses] \in {"none", "running"}
    BY <1>0, <1>1 DEF Ready, Presses
  <2>7. \A p \in Presses : x.fate[p] = "discarded" => p \in x.cancelled
    BY <1>1 DEF Ready
  <2> QED
    BY <2>1, <2>3, <2>4, <2>5, <2>6, <2>7 DEF Settled
<1>4. TimersInStep(x, ts)
  BY <1>1 DEF Ready, TimersInStep
<1> QED
  BY <1>2, <1>3, <1>4 DEF Fine

LEMMA RecordNowKeeps ==
  ASSUME Fine(s, timers), ~Active(s), s.presses < MaxPresses,
         NEW kinds \in SUBSET Kinds, RecordNow(kinds)
  PROVE  Fine(s', timers')
<1> DEFINE r == [s EXCEPT !.presses = @ + 1]
<1>1. Ready(r, timers) /\ timers' = timers
  BY PressedReady DEF RecordNow
<1>2. CASE s' = StartFailed(r)
  <2> HIDE DEF r
  <2> QED
    BY <1>1, <1>2, StartFailedKeeps
<1>3. CASE CanArm(r, kinds) /\ s' \in Rolled([Armed(r, kinds) EXCEPT !.ui = "Recording"])
  <2> HIDE DEF r
  <2> DEFINE a == Armed(r, kinds)
             y == [a EXCEPT !.ui = "Recording"]
  <2>1. ArmedFrom(a, r)
    BY <1>1, <1>3, ArmedFacts DEF CanArm
  <2>2. s' \in Rolled(y)
    BY <1>3
  <2> HIDE DEF a
  <2>3. y = [f \in Fields |-> y[f]]
    BY <2>1 DEF State, ArmedFrom
  <2>4. /\ y.ui = "Recording" /\ y.token = a.token /\ y.midi = a.midi
        /\ y.session = a.session /\ y.capturing = a.capturing
        /\ y.presses = a.presses /\ y.preview = a.preview
        /\ y.fate = a.fate /\ y.cancelled = a.cancelled /\ y.stopped = a.stopped
        /\ y.flag = a.flag /\ y.shown = a.shown /\ y.clock = a.clock
        /\ y.playAfter = a.playAfter /\ y.playing = a.playing /\ y.plays = a.plays
    BY <2>1 DEF State, Fields, ArmedFrom
  <2> HIDE DEF y
  <2>5. State(y)
    BY <2>1, <2>3, <2>4 DEF State, ArmedFrom
  <2>6. Fine(y, timers)
    BY <1>1, <2>1, <2>4, <2>5, ArmedKeeps
  <2> QED
    BY <1>1, <2>2, <2>6, RolledKeeps
<1> QED
  BY <1>2, <1>3 DEF RecordNow

LEMMA RecordCountInKeeps ==
  ASSUME Fine(s, timers), ~Active(s), s.presses < MaxPresses,
         NEW kinds \in SUBSET Kinds, NEW clocked \in BOOLEAN, RecordCountIn(kinds, clocked)
  PROVE  Fine(s', timers')
<1> DEFINE r == [s EXCEPT !.presses = @ + 1, !.token = @ + 1, !.ui = "CountingIn",
                          !.clock = clocked]
           timer == [token |-> r.token, press |-> r.presses, clocked |-> clocked,
                     overdue |-> FALSE]
<1>1. Ready(r, timers) /\ r.ui = "CountingIn" /\ r.token = s.token + 1 /\ s.token \in Nat
  BY PressedReady DEF Fine, State, Fields
<1>2. CASE s' = [StartFailed(r) EXCEPT !.clock = FALSE] /\ UNCHANGED timers
  <2> HIDE DEF r
  <2> QED
    BY <1>1, <1>2, StartFailedKeeps
<1>3. CASE CanArm(r, kinds) /\ s' = Armed(r, kinds) /\ timers' = timers \cup {timer}
  <2> HIDE DEF r
  <2>1. ArmedFrom(s', r)
    BY <1>1, <1>3, ArmedFacts DEF CanArm
  <2>2. State(s') /\ s'.ui = "CountingIn" /\ s'.token = r.token /\ s'.presses = r.presses
    BY <1>1, <2>1 DEF ArmedFrom, SameUi
  <2>3. Fine(s', timers)
    BY <1>1, <2>1, <2>2, ArmedKeeps
  <2>4. timer \in Timers /\ timer.token \in 1..s'.token /\ timer.press \in 1..s'.presses
    BY <1>1, <2>2, RecordAssumption DEF Ready, Timers, Presses, State
  <2>5. timer.press = s'.presses /\ \A x \in timers : x.token # timer.token
    BY <1>1, <2>2 DEF Ready
  <2> HIDE DEF timer
  <2>6. TimersInStep(s', timers')
    <3>1. timers' \subseteq Timers
      BY <1>3, <2>3, <2>4 DEF Fine, TimersInStep
    <3>2. \A x \in timers' :
            /\ x.token \in 1..s'.token /\ x.press \in 1..s'.presses
            /\ x.token = s'.token => s'.ui = "CountingIn" /\ x.press = s'.presses
      BY <1>3, <2>2, <2>3, <2>4, <2>5 DEF Fine, TimersInStep
    <3>3. \A x, y \in timers' : x.token = y.token => x = y
      BY <1>3, <2>3, <2>5 DEF Fine, TimersInStep
    <3> QED
      BY <3>1, <3>2, <3>3 DEF TimersInStep
  <2> QED
    BY <2>3, <2>6 DEF Fine
<1> QED
  BY <1>2, <1>3 DEF RecordCountIn

-----------------------------------------------------------------------------
(* Every step keeps the invariant.                                         *)

LEMMA StepKeeps ==
  ASSUME Fine(s, timers), [RecordNext]_recVars
  PROVE  Fine(s', timers')
<1>0. State(s)
  BY DEF Fine
<1>1. CASE Record
  <2>1. CASE Active(s) /\ s' \in RecordingStopped(s) /\ UNCHANGED timers
    BY <2>1, RecordingStoppedKeeps
  <2>2. CASE ~Active(s) /\ s.presses < MaxPresses /\ \E kinds \in SUBSET Kinds : RecordNow(kinds)
    BY <2>2, RecordNowKeeps
  <2>3. CASE /\ ~Active(s) /\ s.presses < MaxPresses
             /\ \E kinds \in SUBSET Kinds, clocked \in BOOLEAN : RecordCountIn(kinds, clocked)
    BY <2>3, RecordCountInKeeps
  <2> QED
    BY <1>1, <2>1, <2>2, <2>3 DEF Record
<1>2. CASE Stop
  BY <1>2, PlaybackStoppedKeeps DEF Stop
<1>3. CASE Restart
  BY <1>3, RecordingStoppedKeeps, PlaybackStoppedKeeps DEF Restart
<1>4. CASE EndSession
  <2>1. PICK r \in IF s.ui \in {"CountingIn", "Recording"} THEN RecordingStopped(s) ELSE {s} :
          s' \in PlaybackStopped(r)
    BY <1>4 DEF EndSession
  <2>2. Fine(r, timers)
    BY <2>1, RecordingStoppedKeeps
  <2> QED
    BY <1>4, <2>1, <2>2, PlaybackStoppedKeeps DEF EndSession
<1>5. CASE Play
  <2> DEFINE y == [s EXCEPT !.plays = @ + 1]
  <2>1. y = [f \in Fields |-> y[f]]
    BY <1>0 DEF State
  <2>2. /\ SameTake(y, s) /\ y.preview = s.preview /\ y.capturing = s.capturing
        /\ y.flag = s.flag /\ y.shown = s.shown /\ y.playAfter = s.playAfter
        /\ y.playing = s.playing /\ y.clock = s.clock /\ y.plays = s.plays + 1
    BY <1>0 DEF State, Fields, SameTake
  <2>3. s' \in Rolled(y) /\ timers' = timers /\ s.plays < MaxPlays
    BY <1>5 DEF Play
  <2> HIDE DEF y
  <2>4. y.plays \in 0..MaxPlays
    BY <1>0, <2>2, <2>3, RecordAssumption DEF State
  <2>5. State(y)
    BY <1>0, <2>1, <2>2, <2>4 DEF State, SameTake
  <2>6. Fine(y, timers)
    BY <2>2, <2>5, SameTakeKeeps
  <2> QED
    BY <2>3, <2>6, RolledKeeps
<1>6. CASE PlayAfterSync
  <2> DEFINE y == [s EXCEPT !.playAfter = FALSE]
  <2>1. y = [f \in Fields |-> y[f]]
    BY <1>0 DEF State
  <2>2. /\ SameTake(y, s) /\ y.preview = s.preview /\ y.capturing = s.capturing
        /\ y.flag = s.flag /\ y.shown = s.shown /\ y.playAfter = FALSE
        /\ y.playing = s.playing /\ y.clock = s.clock /\ y.plays = s.plays
    BY <1>0 DEF State, Fields, SameTake
  <2>3. s' \in Rolled(y) /\ timers' = timers
    BY <1>6 DEF PlayAfterSync
  <2> HIDE DEF y
  <2>4. State(y)
    BY <1>0, <2>1, <2>2 DEF State, SameTake
  <2>5. Fine(y, timers)
    BY <2>2, <2>4, SameTakeKeeps
  <2> QED
    BY <2>3, <2>5, RolledKeeps
<1>7. CASE Tick
  <2>1. PICK v \in {s.session, NoTake} : s' = [s EXCEPT !.preview = v] /\ timers' = timers
    BY <1>7 DEF Tick
  <2>2. s' = [f \in Fields |-> s'[f]]
    BY <1>0, <2>1 DEF State
  <2>3. /\ SameTake(s', s) /\ s'.preview = v /\ s'.capturing = s.capturing
        /\ s'.flag = s.flag /\ s'.shown = s.shown /\ s'.playAfter = s.playAfter
        /\ s'.playing = s.playing /\ s'.clock = s.clock /\ s'.plays = s.plays
    BY <1>0, <2>1 DEF State, Fields, SameTake
  <2>4. State(s')
    BY <1>0, <2>2, <2>3 DEF State, SameTake
  <2> QED
    BY <2>1, <2>3, <2>4, SameTakeKeeps
<1>8. CASE CountInOver
  <2>1. s' = [s EXCEPT !.clock = FALSE] /\ timers' = timers
    BY <1>8 DEF CountInOver
  <2>2. s' = [f \in Fields |-> s'[f]]
    BY <1>0, <2>1 DEF State
  <2>3. /\ SameTake(s', s) /\ s'.preview = s.preview /\ s'.capturing = s.capturing
        /\ s'.flag = s.flag /\ s'.shown = s.shown /\ s'.playAfter = s.playAfter
        /\ s'.playing = s.playing /\ s'.clock = FALSE /\ s'.plays = s.plays
    BY <1>0, <2>1 DEF State, Fields, SameTake
  <2>4. State(s')
    BY <1>0, <2>2, <2>3 DEF State, SameTake
  <2> QED
    BY <2>1, <2>3, <2>4, SameTakeKeeps
<1>9. ASSUME NEW timer \in timers, DeadlinePasses(timer)
      PROVE  Fine(s', timers')
  <2> DEFINE late == [timer EXCEPT !.overdue = TRUE]
  <2>1. s' = s /\ timers' = (timers \ {timer}) \cup {late}
    BY <1>9 DEF DeadlinePasses
  <2>2. timer \in Timers
    BY DEF Fine, TimersInStep
  <2>3. late \in Timers /\ late.token = timer.token /\ late.press = timer.press
    BY <2>2 DEF Timers
  <2> HIDE DEF late
  <2>4. TimersInStep(s, timers')
    <3>1. timers' \subseteq Timers
      BY <2>1, <2>3 DEF Fine, TimersInStep
    <3>2. \A x \in timers' :
            /\ x.token \in 1..s.token /\ x.press \in 1..s.presses
            /\ x.token = s.token => s.ui = "CountingIn" /\ x.press = s.presses
      BY <2>1, <2>3 DEF Fine, TimersInStep
    <3>3. \A x, y \in timers' : x.token = y.token => x = y
      BY <2>1, <2>3 DEF Fine, TimersInStep
    <3> QED
      BY <3>1, <3>2, <3>3 DEF TimersInStep
  <2> QED
    BY <2>1, <2>4 DEF Fine
<1>10. ASSUME NEW timer \in timers, TimerFires(timer)
       PROVE  Fine(s', timers')
  <2>1. timers' = timers \ {timer}
    BY <1>10 DEF TimerFires
  <2>2. Fine(s, timers')
    BY <2>1 DEF Fine, TimersInStep
  <2>3. CASE UNCHANGED s
    BY <2>2, <2>3
  <2>4. CASE Current(timer) /\ s' \in Rolled([s EXCEPT !.ui = "Recording"])
    <3> DEFINE y == [s EXCEPT !.ui = "Recording"]
    <3>1. y = [f \in Fields |-> y[f]]
      BY <1>0 DEF State
    <3>2. /\ y.ui = "Recording" /\ y.token = s.token /\ y.midi = s.midi
          /\ y.session = s.session /\ y.presses = s.presses /\ y.cancelled = s.cancelled
          /\ y.stopped = s.stopped /\ y.fate = s.fate
          /\ y.preview = s.preview /\ y.capturing = s.capturing
          /\ y.flag = s.flag /\ y.shown = s.shown /\ y.playAfter = s.playAfter
          /\ y.playing = s.playing /\ y.clock = s.clock /\ y.plays = s.plays
      BY <1>0 DEF State, Fields
    <3>3. s.ui = "CountingIn" /\ timer.token = s.token
      BY <2>4 DEF Current
    <3>4. s' \in Rolled(y)
      BY <2>4
    <3> HIDE DEF y
    <3>5. State(y)
      BY <1>0, <3>1, <3>2 DEF State
    <3>6. HasItsTake(y) /\ Settled(y)
      BY <3>2, <3>3 DEF Fine, HasItsTake, Settled
    <3>7. TimersInStep(y, timers')
      BY <2>1, <3>2, <3>3 DEF Fine, TimersInStep
    <3>8. Fine(y, timers')
      BY <3>5, <3>6, <3>7 DEF Fine
    <3> QED
      BY <3>4, <3>8, RolledKeeps
  <2> QED
    BY <1>10, <2>3, <2>4 DEF TimerFires
<1>11. CASE UNCHANGED recVars
  BY <1>11 DEF recVars
<1> QED
  BY <1>1, <1>2, <1>3, <1>4, <1>5, <1>6, <1>7, <1>8, <1>9, <1>10, <1>11 DEF RecordNext

-----------------------------------------------------------------------------
(* The theorems.                                                           *)

LEMMA FineAlways == RecordSpec => []Fine(s, timers)
<1>1. Fine(s, timers) /\ [RecordNext]_recVars => Fine(s, timers)'
  BY StepKeeps
<1> QED
  BY FineInit, <1>1, PTL DEF RecordSpec

\* The record state is well-typed, and the engine captures only for a session
\* it has (toggle_native_recording, stop_native_recording and the timers).
THEOREM RecordTyped == RecordSpec => []RecordTypeOK
<1>1. Fine(s, timers) => RecordTypeOK
  <2> SUFFICES ASSUME Fine(s, timers) PROVE RecordTypeOK
    OBVIOUS
  <2>1. State(s) /\ HasItsTake(s) /\ Settled(s) /\ TimersInStep(s, timers)
    BY DEF Fine
  <2>2. s.presses \in Nat /\ s.token \in Nat
    BY <2>1 DEF State
  <2>3. {s.midi, s.preview, s.session} \subseteq 0..s.presses
    BY <2>1, <2>2 DEF HasItsTake, NoTake
  <2>4. s.cancelled \subseteq 1..s.presses /\ s.stopped \subseteq 1..s.presses
    <3>1. \A p \in s.cancelled \cup s.stopped : p \in Presses /\ p <= s.presses
      BY <2>1 DEF Settled, State
    <3>2. \A p \in s.cancelled \cup s.stopped : p \in 1..s.presses
      BY <2>2, <3>1, RecordAssumption DEF Presses
    <3> QED
      BY <3>2
  <2>5. timers \subseteq [token : 1..s.token, press : 1..s.presses,
                       clocked : BOOLEAN, overdue : BOOLEAN]
    BY <2>1 DEF TimersInStep, Timers
  <2> QED
    BY <2>1, <2>2, <2>3, <2>4, <2>5 DEF State, HasItsTake, RecordTypeOK
<1> QED
  BY FineAlways, <1>1, PTL

\* No way of stopping or failing leaves a session in the engine that the UI
\* does not show, nor a UI that records nothing.
THEOREM RecorderKeepsItsTake == RecordSpec => []RecorderHasItsTake
<1>1. Fine(s, timers) => RecorderHasItsTake
  BY DEF Fine, HasItsTake, RecorderHasItsTake
<1> QED
  BY FineAlways, <1>1, PTL

\* Every audio take has one end; only a cancelled count-in deletes its files,
\* and what was cancelled is never committed.
THEOREM TakesAreSettled == RecordSpec => []EveryTakeSettled
<1>1. Fine(s, timers) => EveryTakeSettled
  BY DEF Fine, Settled, EveryTakeSettled
<1> QED
  BY FineAlways, <1>1, PTL

\* The timer left behind by a cancelled count-in never starts another take.
THEOREM CountInsRollOnTheirTimer == RecordSpec => RollsOnItsOwnTimer
<1>1. ASSUME Fine(s, timers), [RecordNext]_recVars,
             NEW timer \in timers \ timers', s.ui = "CountingIn", s'.ui = "Recording"
      PROVE  timer.press = s.presses
  <2>1. s' # s /\ timers' # timers
    BY <1>1
  <2>2. CASE Record
    <3>1. PICK kinds \in SUBSET Kinds, clocked \in BOOLEAN : RecordCountIn(kinds, clocked)
      BY <2>1, <2>2 DEF Record, RecordNow
    <3> QED
      BY <3>1 DEF RecordCountIn
  <2>3. CASE \E x \in timers : TimerFires(x)
    <3>1. PICK x \in timers : TimerFires(x)
      BY <2>3
    <3>2. timer = x /\ Current(x)
      BY <2>1, <3>1 DEF TimerFires
    <3> QED
      BY <1>1, <3>2 DEF Fine, TimersInStep, Current
  <2> QED
    BY <1>1, <2>1, <2>2, <2>3
    DEF RecordNext, Stop, Restart, EndSession, Play, PlayAfterSync, Tick, CountInOver,
        DeadlinePasses, recVars
<1>2. Fine(s, timers) /\ [RecordNext]_recVars
      => [\A timer \in timers \ timers' :
            s.ui = "CountingIn" /\ s'.ui = "Recording" => timer.press = s.presses]_recVars
  BY <1>1
<1> QED
  BY FineAlways, <1>2, PTL DEF RecordSpec, RollsOnItsOwnTimer

-----------------------------------------------------------------------------
(***************************************************************************)
(* The parts of the studio together, as they are run: what holds of each   *)
(* holds of all.                                                           *)
(***************************************************************************)

\* A behaviour of the run is one of each part, the others resting.
THEOREM StudioIsAll == StudioSpec => RecordSpec /\ GuardSpec /\ TransportSpec
<1>1. StudioInit => RecordInit /\ GuardInit /\ TransportInit
  BY DEF StudioInit
<1>2. [StudioNext]_StudioVars =>
        [RecordNext]_recVars /\ [GuardNext]_guardVars /\ [TransportNext]_transportVars
  BY DEF StudioNext, StudioVars, RecordRests, GuardRests, LoopRests
<1> QED
  BY <1>1, <1>2, PTL DEF StudioSpec, RecordSpec, GuardSpec, TransportSpec

\* The state of the record flow and of the guards has its type throughout.
THEOREM StudioTyped == StudioSpec => []StudioTypeOK
<1>1. RecordTypeOK /\ GuardTypeOK => StudioTypeOK
  BY DEF StudioTypeOK
<1> QED
  BY <1>1, StudioIsAll, RecordTyped, GuardTyped, PTL
=============================================================================
