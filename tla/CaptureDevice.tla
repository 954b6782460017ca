---------------------------- MODULE CaptureDevice ----------------------------
(***************************************************************************)
(* Who may open the capture device, and under which locks (engine.rs).     *)
(*                                                                         *)
(* The input device has two kinds of client: the live input stream, which  *)
(* sync_live_input_stream opens for armed and monitored tracks, and the    *)
(* stream of a take that could not tap the live one.  The UI thread starts *)
(* and stops takes, edits track routes and reopens the device; background  *)
(* threads load projects (more than one when the watchdog gave up on a     *)
(* load that still runs).  All of them end in sync_live_input_stream.      *)
(*                                                                         *)
(* EngineInner.recording and EngineInner.project are parking_lot mutexes:  *)
(* not reentrant.  A guard that lives for one statement is part of the     *)
(* step; recLock and projLock name the thread whose guard lives longer.    *)
(* live_input's guard never does.  A snapshot is the input device its      *)
(* tracks want.  A project is loaded throughout, and the backend is not    *)
(* ASIO; left out is a jam that sends the live input, for which a sync     *)
(* opens the preferred device when no track wants one.                     *)
(***************************************************************************)
EXTENDS Naturals

CONSTANTS
  Ui,          \* the UI thread
  Loaders,     \* background threads that load projects
  NoThread,
  Devices,     \* input devices
  NoDevice     \* no stream / no track wants one

Threads == {Ui} \cup Loaders
Wishes  == Devices \cup {NoDevice}

ASSUME CaptureDeviceAssumption ==
  /\ Ui \notin Loaders /\ NoThread \notin Threads
  /\ NoDevice \notin Devices

VARIABLES
  recLock,    \* who holds `recording` across steps
  projLock,   \* who holds `project` across steps
  recording,  \* EngineInner.recording: how the running take captures
  project,    \* EngineInner.project: the device its tracks want
  live,       \* EngineInner.live_input: the device of the live stream
  own,        \* the stream of an own-stream take is open
  ring,       \* shared.input_ring is active
  pc,         \* [Threads -> Steps]
  want,       \* [Threads -> Wishes]  the snapshot a thread syncs to
  early,      \* history: threads that were past the check of their sync when
              \* the running take began
  stale       \* history: the last thing that was to bring the live stream in
              \* line with the project failed

locks      == <<recLock, projLock>>
capture    == <<recording, project, live, own, ring>>
deviceVars == <<locks, capture, pc, want, early, stale>>

Steps ==
  {"idle", "lockProject", "check", "route", "unwanted", "close", "open",
   "publish", "synced", "editLock", "editCheck", "startLock", "tap",
   "install", "ownClose", "ownOpen",
   "takeSession", "releaseRing", "releaseStream", "finalize"}

\* The steps of a sync that has decided to touch the stream.
Touching == {"route", "unwanted", "close", "open", "publish"}

\* After a first load_project and its sync; no take was started yet.
DeviceInit ==
  /\ recLock = NoThread /\ projLock = NoThread
  /\ recording = "none" /\ own = FALSE
  /\ project \in Wishes /\ live = project /\ ring = (live # NoDevice)
  /\ pc = [th \in Threads |-> "idle"]
  /\ want = [th \in Threads |-> NoDevice]
  /\ early = {} /\ stale = FALSE

At(th, step) == pc[th] = step
Goto(th, step) == pc' = [pc EXCEPT ![th] = step]

-----------------------------------------------------------------------------
(* sync_live_input_stream, whoever calls it.                               *)

\* Mutant of MayTouch: the check is gone.
AlwaysMayTouch == TRUE

\* live_input_sync_may_touch_stream
MayTouch == recording = "none"

\* `recording` is locked for this statement only: it must be free, and it is
\* not free for a thread that already holds it.
SyncCheck(th) ==
  /\ At(th, "check") \/ At(th, "editCheck")
  /\ recLock = NoThread
  /\ Goto(th, IF MayTouch THEN "route" ELSE "synced")
  /\ UNCHANGED <<locks, capture, want, early, stale>>

\* No track wants input; the open stream is the wanted one and stays; or two
\* monitored tracks want different inputs, an error that touches nothing.
SyncRoute(th) ==
  /\ At(th, "route")
  /\ \/ want[th] = NoDevice /\ Goto(th, "unwanted") /\ UNCHANGED stale
     \/ want[th] # NoDevice /\ live = want[th] /\ Goto(th, "synced") /\ stale' = FALSE
     \/ want[th] # NoDevice /\ live # want[th] /\ Goto(th, "close") /\ UNCHANGED stale
     \/ want[th] # NoDevice /\ Goto(th, "synced") /\ stale' = TRUE
  /\ UNCHANGED <<locks, capture, want, early>>

\* stop_live_input_stream
StopLive == live' = NoDevice /\ ring' = FALSE

SyncUnwanted(th) ==
  /\ At(th, "unwanted")
  /\ StopLive
  /\ stale' = FALSE
  /\ Goto(th, "synced")
  /\ UNCHANGED <<locks, recording, project, own, want, early>>

SyncClose(th) ==
  /\ At(th, "close")
  /\ StopLive
  /\ Goto(th, "open")
  /\ UNCHANGED <<locks, recording, project, own, want, early, stale>>

\* Some candidate configuration opens and plays, or none does.
SyncOpen(th) ==
  /\ At(th, "open")
  /\ \/ ring' = TRUE /\ Goto(th, "publish") /\ UNCHANGED stale
     \/ ring' = FALSE /\ Goto(th, "synced") /\ stale' = TRUE
  /\ UNCHANGED <<locks, recording, project, live, own, want, early>>

\* The new handle goes where the old one was, which is dropped.
SyncPublish(th) ==
  /\ At(th, "publish")
  /\ live' = want[th]
  /\ stale' = FALSE
  /\ Goto(th, "synced")
  /\ UNCHANGED <<locks, recording, project, own, ring, want, early>>

\* The callers of the sync hold `project` over it and release it now.  A load
\* stores its snapshot first; for the others it is the project's already.
SyncReturn(th) ==
  /\ At(th, "synced")
  /\ project' = IF th \in Loaders THEN want[th] ELSE project
  /\ projLock' = NoThread
  /\ want' = [want EXCEPT ![th] = NoDevice]
  /\ early' = early \ {th}
  /\ Goto(th, "idle")
  /\ UNCHANGED <<recLock, recording, live, own, ring, stale>>

Sync(th) ==
  \/ SyncCheck(th) \/ SyncRoute(th) \/ SyncUnwanted(th) \/ SyncClose(th)
  \/ SyncOpen(th) \/ SyncPublish(th) \/ SyncReturn(th)

\* Mutant of HolderOver: `project` is locked for the clone of the snapshot only.
CloneOnly(th) == IF th \in Loaders THEN th ELSE NoThread

\* The guard outlives the sync, in `if let Some(..) = self.project.lock().clone()`
\* too.
HolderOver(th) == th

\* Lock the project.  A load syncs to the snapshot it brings, everyone else
\* to the project's own.
LockProject(th) ==
  /\ At(th, "lockProject") /\ projLock = NoThread
  /\ projLock' = HolderOver(th)
  /\ want' = IF th \in Loaders THEN want ELSE [want EXCEPT ![th] = project]
  /\ Goto(th, "check")
  /\ UNCHANGED <<recLock, capture, early, stale>>

-----------------------------------------------------------------------------
(* The background: load_project, once the graph is built.                  *)

LoadProject(th) ==
  /\ At(th, "idle")
  /\ \E wish \in Wishes : want' = [want EXCEPT ![th] = wish]
  /\ Goto(th, "lockProject")
  /\ UNCHANGED <<locks, capture, early, stale>>

-----------------------------------------------------------------------------
(* The UI thread: track routes and the output device.                      *)

EditRoute ==
  /\ At(Ui, "idle") /\ recLock = NoThread
  /\ IF recording = "none"
       THEN recLock' = Ui /\ Goto(Ui, "editLock")
       ELSE UNCHANGED <<recLock, pc>>
  /\ UNCHANGED <<projLock, capture, want, early, stale>>

\* update_track_input_state_inner goes into the sync with both guards alive.
\* What follows the sync is not modelled: SyncCheck is never enabled there.
EditLocked ==
  /\ At(Ui, "editLock") /\ projLock = NoThread
  /\ projLock' = Ui
  /\ \E wish \in Wishes :
       project' = wish /\ want' = [want EXCEPT ![Ui] = wish]
  /\ Goto(Ui, "editCheck")
  /\ UNCHANGED <<recLock, recording, live, own, ring, early, stale>>

\* open_daux: close_device_inner, then a sync if the output opened.
OpenDevice ==
  /\ At(Ui, "idle")
  /\ StopLive
  /\ stale' = TRUE
  /\ Goto(Ui, "lockProject") \/ UNCHANGED pc
  /\ UNCHANGED <<locks, recording, project, own, want, early>>

-----------------------------------------------------------------------------
(* The UI thread: start_recording.                                         *)

BeginStart ==
  /\ At(Ui, "idle")
  /\ Goto(Ui, "startLock")
  /\ UNCHANGED <<locks, capture, want, early, stale>>

StartLock ==
  /\ At(Ui, "startLock") /\ recLock = NoThread
  /\ IF recording = "none"
       THEN recLock' = Ui /\ Goto(Ui, "tap")
       ELSE Goto(Ui, "idle") /\ UNCHANGED recLock
  /\ UNCHANGED <<projLock, capture, want, early, stale>>

\* start_recording_live_tap: Failed, Unavailable, or the pipeline is built.
StartTap ==
  /\ At(Ui, "tap")
  /\ \/ live # NoDevice /\ recLock' = NoThread /\ Goto(Ui, "idle")
     \/ live # NoDevice /\ Goto(Ui, "install") /\ UNCHANGED recLock
     \/ Goto(Ui, "ownClose") /\ UNCHANGED recLock
  /\ UNCHANGED <<projLock, capture, want, early, stale>>

TakeBegins(how) ==
  /\ recording' = how
  /\ recLock' = NoThread
  /\ early' = {th \in Threads : pc[th] \in Touching}
  /\ Goto(Ui, "idle")

\* The sink goes to the stream that is open now, unless that is gone or its
\* command queue is full.
InstallTap ==
  /\ At(Ui, "install")
  /\ \/ /\ live # NoDevice
        /\ TakeBegins("tap")
     \/ /\ Goto(Ui, "ownClose")
        /\ UNCHANGED <<recLock, recording, early>>
  /\ UNCHANGED <<projLock, project, live, own, ring, want, stale>>

StartOwnStream ==
  /\ At(Ui, "ownClose")
  /\ StopLive
  /\ Goto(Ui, "ownOpen")
  /\ UNCHANGED <<locks, recording, project, own, want, early, stale>>

\* Mutant of AfterFailedOpen: the guard lives on through the restore.
GuardKept == recLock

\* The guard on `recording` is dropped before the sync that restores monitoring.
AfterFailedOpen == NoThread

OpenOwnStream ==
  /\ At(Ui, "ownOpen")
  /\ \/ own' = TRUE /\ ring' = TRUE /\ TakeBegins("own")
     \/ /\ ring' = FALSE
        /\ recLock' = AfterFailedOpen
        /\ Goto(Ui, "lockProject")
        /\ UNCHANGED <<own, recording, early>>
  /\ UNCHANGED <<projLock, project, live, want, stale>>

-----------------------------------------------------------------------------
(* The UI thread: stop_recording.                                          *)

BeginStop ==
  /\ At(Ui, "idle")
  /\ Goto(Ui, "takeSession")
  /\ UNCHANGED <<locks, capture, want, early, stale>>

\* recording.take(): from here on the engine has no take.
TakeSession ==
  /\ At(Ui, "takeSession") /\ recLock = NoThread
  /\ recording' = "none"
  /\ early' = {}
  /\ Goto(Ui, IF recording = "none" THEN "idle"
              ELSE IF recording = "own" THEN "releaseRing" ELSE "finalize")
  /\ UNCHANGED <<locks, project, live, own, ring, want, stale>>

ReleaseRing ==
  /\ At(Ui, "releaseRing")
  /\ ring' = FALSE
  /\ Goto(Ui, "releaseStream")
  /\ UNCHANGED <<locks, recording, project, live, own, want, early, stale>>

\* drop(session.capture)
ReleaseStream ==
  /\ At(Ui, "releaseStream")
  /\ own' = FALSE
  /\ Goto(Ui, "finalize")
  /\ UNCHANGED <<locks, recording, project, live, ring, want, early, stale>>

\* Mutant of AfterFinalize: monitoring is not restored.
NothingToRestore == "idle"

AfterFinalize == "lockProject"

\* The results arrive, or 60 s pass and the error skips the final sync.
Finalize ==
  /\ At(Ui, "finalize")
  /\ \/ Goto(Ui, AfterFinalize) /\ UNCHANGED stale
     \/ Goto(Ui, "idle") /\ stale' = TRUE
  /\ UNCHANGED <<locks, capture, want, early>>

-----------------------------------------------------------------------------

\* The steps a thread takes by itself once it has begun an operation.
Step(th) ==
  \/ LockProject(th) \/ Sync(th)
  \/ th = Ui /\ (\/ EditLocked \/ StartLock \/ StartTap \/ InstallTap
                 \/ StartOwnStream \/ OpenOwnStream \/ TakeSession
                 \/ ReleaseRing \/ ReleaseStream \/ Finalize)

DeviceNext ==
  \/ \E th \in Threads : Step(th)
  \/ \E th \in Loaders : LoadProject(th)
  \/ EditRoute \/ OpenDevice \/ BeginStart \/ BeginStop

DeviceSpec == DeviceInit /\ [][DeviceNext]_deviceVars

(***************************************************************************)
(* A thread that can step, does: opening and closing streams and waiting   *)
(* for the results end.  Strong, because a thread that waits for a lock    *)
(* competes with others; parking_lot hands a contended mutex over in the   *)
(* end (eventual fairness).  Nobody has to begin an operation.             *)
(***************************************************************************)
DeviceFairness == \A th \in Threads : SF_deviceVars(Step(th))

DeviceFairSpec == DeviceSpec /\ DeviceFairness

-----------------------------------------------------------------------------
(* Properties.                                                             *)

\* Every variable has its type, and a thread that is in a sync or on its way
\* out of one holds the project.
DeviceTypeOK ==
  /\ recLock \in Threads \cup {NoThread} /\ projLock \in Threads \cup {NoThread}
  /\ recording \in {"none", "tap", "own"}
  /\ project \in Wishes /\ live \in Wishes
  /\ own \in BOOLEAN /\ ring \in BOOLEAN /\ stale \in BOOLEAN
  /\ pc \in [Threads -> Steps] /\ want \in [Threads -> Wishes]
  /\ early \subseteq Threads
  /\ \A th \in Threads : pc[th] \in Touching \cup {"check", "editCheck", "synced"} => projLock = th

\* "stop_recording restores this stream from the last snapshot as soon as the
\* take is finalized": when nothing is under way and no take runs, the live
\* stream is the one the stored project wants, unless the last attempt to
\* bring it there failed.
LiveMatchesProject ==
  (\A th \in Threads : At(th, "idle")) /\ recording = "none" /\ ~stale =>
    live = project

\* "Never while a take owns the capture device", as far as the check goes: a
\* sync that gets there after the take began leaves every stream alone.
LateSyncLeavesTakeAlone ==
  recording # "none" => \A th \in Threads : pc[th] \in Touching => th \in early

\* "Single-capture-stream invariant": with an own-stream take running, no
\* other stream is open on the device.
SingleCaptureStream ==
  recording = "own" =>
    live = NoDevice /\ \A th \in Threads : ~At(th, "publish")

\* The UI thread edits a route: see RouteEditReturns.
EditHangs == At(Ui, "editLock") \/ At(Ui, "editCheck")

\* Every operation comes back unless a route edit hangs, whatever the others
\* do: no two operations wait for each other's lock.
OperationsReturn ==
  \A th \in Threads : ~At(th, "idle") ~> (At(th, "idle") \/ EditHangs)

\* Applying a track's input route comes back.
RouteEditReturns == At(Ui, "editLock") ~> At(Ui, "idle")

=============================================================================
