----------------------------- MODULE ProjectSync -----------------------------
(***************************************************************************)
(* How edits of the timeline reach the audio engine (audio_transport.rs).  *)
(*                                                                         *)
(* The UI thread builds a snapshot and loads it on a background thread,    *)
(* one load at a time: a request during a load is folded into one pending  *)
(* sync.  Fingerprints tell which graph was published, is being loaded, is *)
(* pending or failed.  A watchdog gives up on a load after 15 s; the load  *)
(* itself cannot be cancelled and its thread goes on.                      *)
(*                                                                         *)
(* A graph is its fingerprint; the signature that guards against a hash    *)
(* collision, route-graph versions, counters and background-task rows are  *)
(* left out.  `dirty` is project_dirty or media_dirty.                     *)
(***************************************************************************)
EXTENDS Naturals

CONSTANTS
  Graphs,       \* fingerprints of engine snapshots
  NoGraph,      \* None
  MaxEdits,     \* bound on edits in a behaviour
  MaxTimeouts   \* bound on how often the watchdog fires

ASSUME ProjectSyncAssumption ==
  /\ NoGraph \notin Graphs
  /\ MaxEdits \in Nat /\ MaxTimeouts \in Nat

VARIABLES
  ui,        \* the UI thread's AudioBridgeState, and the timeline's own graph
  loads,     \* the load_project threads, and their results not yet handled
  engine,    \* the graph the audio thread has
  edits,     \* how many edits there were
  timeouts   \* how often the watchdog fired

syncVars == <<ui, loads, engine, edits, timeouts>>

Load(gen, g) == [gen |-> gen, graph |-> g, state |-> "loading"]

SyncInit ==
  /\ \E g \in Graphs :
       ui = [current      |-> g,        \* what the timeline shows
             dirty        |-> TRUE,     \* project_dirty, media_dirty
             inFlight     |-> FALSE,    \* sync_in_flight
             generation   |-> 0,        \* sync_generation
             running      |-> NoGraph,  \* running_fingerprint
             published    |-> NoGraph,  \* graph_fingerprint
             lastFailed   |-> NoGraph,  \* last_failed_fingerprint
             pending      |-> NoGraph,  \* pending_fingerprint
             pendingForce |-> FALSE,
             playAfter    |-> FALSE]    \* play_after_sync
  /\ loads = {} /\ engine = NoGraph /\ edits = 0 /\ timeouts = 0

-----------------------------------------------------------------------------
(* schedule_audio_project_sync and start_native_playback, as the UI states *)
(* they can turn the state s into.                                         *)

\* Mutant of ChangedInFlight: only the graph being loaded is compared with.
ChangedSincePublished(s) == s.current # s.published

\* Neither the load under way nor the pending sync stands for this graph.
ChangedInFlight(s) == s.current # s.running /\ s.current # s.pending

Folded(s, force) ==
  IF force \/ ChangedInFlight(s)
    THEN [s EXCEPT !.pending = s.current, !.pendingForce = @ \/ force, !.dirty = FALSE]
    ELSE [s EXCEPT !.dirty = FALSE]

\* Mutant of Deduplicated: a deferred Play is forgotten.
PlayForgotten(s) == [s EXCEPT !.dirty = FALSE]

\* Nothing to load; a deferred Play starts now.
Deduplicated(s) == [s EXCEPT !.dirty = FALSE, !.playAfter = FALSE]

Launched(s) ==
  [s EXCEPT !.dirty = FALSE, !.inFlight = TRUE, !.running = s.current,
            !.generation = @ + 1]

Committed(s, force) ==
  IF s.inFlight THEN Folded(s, force)
  ELSE IF ~force /\ s.current \in {s.published, s.lastFailed} THEN Deduplicated(s)
  ELSE Launched(s)

\* sync_should_build_now: a clean graph is left alone, and a dirty one may
\* wait, dirty, for the 75 ms window of the last snapshot to close.
Scheduled(s, force) ==
  (IF force \/ s.dirty THEN {Committed(s, force)} ELSE {})
    \cup (IF force THEN {} ELSE {s})

\* start_native_playback, with the transport stopped.
Started(s) ==
  IF s.inFlight THEN {[s EXCEPT !.playAfter = TRUE]}
  ELSE IF s.dirty THEN Scheduled([s EXCEPT !.playAfter = TRUE], FALSE)
  ELSE {s}

\* The UI is in state s now, having launched a load if it is in a new
\* generation; the loads were `others` before.
Becomes(s, others) ==
  /\ ui' = s
  /\ loads' = IF s.generation # ui.generation
                THEN others \cup {Load(s.generation, s.running)} ELSE others

-----------------------------------------------------------------------------
(* The UI thread.                                                          *)

\* An edit of the timeline, or a retry of the same graph: it marks the graph
\* dirty and asks for a sync, forced or not.
Edit(g, force) ==
  /\ edits < MaxEdits
  /\ edits' = edits + 1
  /\ \E s \in Scheduled([ui EXCEPT !.current = g, !.dirty = TRUE], force) :
       Becomes(s, loads)
  /\ UNCHANGED <<engine, timeouts>>

\* engine_dirty_poll, 60 times a second; while the window is open it does
\* nothing.
Poll ==
  /\ ui.dirty
  /\ Becomes(Committed(ui, FALSE), loads)
  /\ UNCHANGED <<engine, edits, timeouts>>

Play ==
  /\ ~ui.playAfter /\ (ui.inFlight \/ ui.dirty)
  /\ \E s \in Started(ui) : Becomes(s, loads)
  /\ UNCHANGED <<engine, edits, timeouts>>

\* Mutant of Fresh: a completion of a superseded sync is handled too.
AlwaysFresh(load) == TRUE

\* The freshness guard of complete_audio_project_sync.
Fresh(load) == load.gen = ui.generation

\* Mutant of PublishedBy: the timeline's graph is taken for the loaded one.
TimelineGraph(load) == ui.current

\* The graph a load that went well is recorded to have published.
PublishedBy(load) == IF ui.running # NoGraph THEN ui.running ELSE load.graph

\* Mutant of StillRunning: running_fingerprint is read, not taken.
NotTaken == ui.running

\* running_fingerprint.take()
StillRunning == NoGraph

\* complete_audio_project_sync up to the pending request.
Finished(load) ==
  IF load.state = "published"
    THEN [ui EXCEPT !.inFlight = FALSE, !.running = StillRunning,
                    !.published = PublishedBy(load), !.lastFailed = NoGraph]
    ELSE [ui EXCEPT !.inFlight = FALSE, !.running = StillRunning,
                    !.lastFailed = ui.running]

\* needs_pending
NeedsPending(s) ==
  /\ s.pending # NoGraph
  /\ s.pendingForce \/ (s.published # s.pending /\ s.lastFailed # s.pending)

\* Mutant of AfterPending: nobody looks at the pending request.
PendingDropped(s) == {[s EXCEPT !.pending = NoGraph, !.pendingForce = FALSE]}

\* The pending request runs if it would still do something, a deferred Play
\* starts if it would not.
AfterPending(s) ==
  LET taken == [s EXCEPT !.pending = NoGraph, !.pendingForce = FALSE]
  IN IF NeedsPending(s) THEN Scheduled([taken EXCEPT !.dirty = TRUE], s.pendingForce)
     ELSE IF s.playAfter THEN Started([taken EXCEPT !.playAfter = FALSE])
     ELSE {taken}

Complete(load) ==
  /\ load \in loads /\ load.state # "loading"
  /\ IF Fresh(load)
       THEN \E s \in AfterPending(Finished(load)) : Becomes(s, loads \ {load})
       ELSE ui' = ui /\ loads' = loads \ {load}
  /\ UNCHANGED <<engine, edits, timeouts>>

\* timeout_audio_project_sync: the load goes on as an orphan.
Timeout ==
  /\ ui.inFlight /\ timeouts < MaxTimeouts
  /\ timeouts' = timeouts + 1
  /\ ui' = [ui EXCEPT !.generation = @ + 1, !.inFlight = FALSE,
                      !.lastFailed = ui.running, !.running = NoGraph,
                      !.pending = NoGraph, !.pendingForce = FALSE, !.dirty = FALSE]
  /\ UNCHANGED <<loads, engine, edits>>

-----------------------------------------------------------------------------
(* The background: load_project ends, having sent its graph to the audio   *)
(* thread or not.                                                          *)

Ended(load, state) ==
  loads' = (loads \ {load}) \cup {[load EXCEPT !.state = state]}

LoadEnds(load) ==
  /\ load \in loads /\ load.state = "loading"
  /\ \/ Ended(load, "published") /\ engine' = load.graph
     \/ Ended(load, "failed") /\ UNCHANGED engine
  /\ UNCHANGED <<ui, edits, timeouts>>

-----------------------------------------------------------------------------

SyncNext ==
  \/ \E g \in Graphs, force \in BOOLEAN : Edit(g, force)
  \/ Poll \/ Play \/ Timeout
  \/ \E load \in loads : Complete(load) \/ LoadEnds(load)

SyncSpec == SyncInit /\ [][SyncNext]_syncVars

(***************************************************************************)
(* The poll goes on, the burst window closes, and a load that ended is     *)
(* handled; a load ends.  A load that hangs for good is the orphan of a    *)
(* Timeout, so runs with timeouts claim nothing about it.                  *)
(***************************************************************************)
SyncFairness ==
  /\ WF_syncVars(Poll)
  /\ WF_syncVars(\E load \in loads : Complete(load) \/ LoadEnds(load))

SyncFairSpec == SyncSpec /\ SyncFairness

-----------------------------------------------------------------------------
(* Properties.                                                             *)

\* Every variable has its type, and the fingerprints of a load under way and
\* of a pending sync are there exactly while there is one to have them.
SyncTypeOK ==
  /\ ui \in [current : Graphs, dirty : BOOLEAN, inFlight : BOOLEAN,
             generation : Nat, running : Graphs \cup {NoGraph},
             published : Graphs \cup {NoGraph}, lastFailed : Graphs \cup {NoGraph},
             pending : Graphs \cup {NoGraph}, pendingForce : BOOLEAN,
             playAfter : BOOLEAN]
  /\ loads \subseteq [gen : Nat, graph : Graphs, state : {"loading", "published", "failed"}]
  /\ engine \in Graphs \cup {NoGraph} /\ edits \in Nat /\ timeouts \in Nat
  /\ ui.inFlight = (ui.running # NoGraph)
  /\ ui.pending # NoGraph => ui.inFlight
  /\ ui.pendingForce => ui.pending # NoGraph

\* A sync is in flight exactly while a load of the current generation runs or
\* waits to be handled: no orphan ends the sync that superseded it, so no two
\* syncs fly, and none is waited for in vain.
InFlightHasItsLoad ==
  ui.inFlight = \E load \in loads : load.gen = ui.generation

\* With nothing dirty and nothing in flight, the timeline's graph is the
\* published one or is known to have failed: no edit is forgotten, whatever it
\* was folded into.  (A timeout forgets: it clears `pending` and `dirty`.)
NothingForgotten ==
  timeouts = 0 /\ ~ui.dirty /\ ~ui.inFlight =>
    ui.current \in {ui.published, ui.lastFailed}

\* graph_fingerprint is that "of the last graph actually published to the
\* audio thread", whenever no load is under way.
PublishedIsTheEngines ==
  loads = {} => ui.published \in {NoGraph, engine}

\* The same as long as no load was given up on.
PublishedWithoutTimeout ==
  timeouts = 0 /\ loads = {} => ui.published = engine

\* As long as no load is given up on, a Play that waits for a sync starts in
\* the end.
DeferredPlayStarts == ui.playAfter ~> (~ui.playAfter \/ timeouts > 0)

\* As long as no load is given up on, once the user pauses, the engine gets the
\* timeline's graph, unless loading that very graph failed.
EngineCatchesUp == <>[](ui.current \in {engine, ui.lastFailed} \/ timeouts > 0)

=============================================================================
