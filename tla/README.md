# Futureboard: TLA+ models of the studio's core

Futureboard is a digital audio workstation written in Rust. This directory holds
TLA+ modules translated from its source, TLC configurations that check them on
small instances, and TLAPS proofs that hold for every instance. Paths below are
relative to `src/`; `E/` is `crates/SphereDirectAudioEngine/src/`, `U/` is
`crates/SphereUIComponents/src/layout/`, `P/` is `crates/SpherePluginHost/src/`
and `J/` is `crates/SphereJamClient/src/`.

## 1. Inventory

What the repository consists of, and what of it has state worth modelling.

| Part | State | Operations | Hard behaviour | What makes it correct |
|---|---|---|---|---|
| Capture tap (`E/capture_tap.rs`) | command queue, trash channel, attached and retiring sink | install, clear, drain_trash; drain_commands, capture_block in the input callback | lock-free hand-over between control thread and audio callback, bounded channels | no block lost silently; the audio thread never frees memory; a running take stays attached |
| Recording pipeline (`E/recording.rs`) | session, block pool, audio queue, writer thread, stop flag, drop counter | start, write, stop, report | three threads, 200 ms and 60 s timeouts, write errors | the file holds what was captured, in order; a good report is true; every stop ends |
| Engine control side (`E/engine.rs`) | stored project, running take, live input stream, input ring, output stream | start/stop_recording, load_project, sync_live_input_stream, update_track_input_state, open_daux | UI thread and background loads under two mutexes | one capture client; no deadlock; the live stream follows the project |
| Engine project sync (`U/audio_transport.rs`) | dirty flags, fingerprints, in-flight and pending sync, generation | schedule, complete, time out, poll, play | single flight, folding, dedup, orphaned loads | no edit lost; a deferred Play starts; stale completions are harmless |
| Recording UI (`U/recording_ops.rs`, `U/transport_ops.rs`) | UI state, count-in token, previews, MIDI take | Record, count-in, cancel, Stop, restart, end of session, tick | late timers, failed starts, five ways to stop | the UI records exactly when there is a take; a cancelled take is never committed |
| Transport (`E/transport.rs`, `E/backend/render.rs`) | position, loop, MIDI and click schedules | seek, loop, tempo, block by block advance | blocks longer than the loop, its exact end | the schedules agree with the position |
| Render callback and graph (`E/runtime.rs`, `E/graveyard.rs`) | runtime graph, command queue, retired graphs | apply commands, mix, retire | realtime thread, bounded disposal queue | no allocation or free in the callback |
| Input ring (`E/input_ring.rs`) | ring, write position, active | push, read, reset | reader and writer on two audio threads | no torn or stale frame is heard as new |
| Plugin bridge (`P/plugin_bridge_sink.rs`, `P/bin/futureboard_plugin_host.rs`, `E/engine/render.rs`, `E/export/`) | shared-memory region, sequence numbers, sink mirror | exchange a block, detach for an export, restore, rebind after a load | two processes and two engine threads on buffers without a lock | nobody touches a buffer the other uses; the plugin comes back |
| Plugin instances (`U/plugin_ops.rs`, `U/plugin_bridge_runtime.rs`, `P/plugin_host_client.rs`) | insert slots, load dialog, the studio's loads and regions, engine sinks, the host's instances | add, restore, remove, delete and undo a track, New, Open, poll | a second process that may die between two writes, answers that come late | slot, studio, host and engine agree on every instance; no dialog stays |
| Plugin scan and process management (`P/process_manager.rs`, scanners) | processes, catalogue | scan, spawn, reap | I/O | the catalogue is right |
| Jam session (`J/session.rs`, `J/registry.rs`) | phase, routing wanted and believed, resume token, registry, media table | join, leave, route, reconcile, resume, back off | replies that overtake events, timeouts, reconnects | what is heard is what was routed; silence until asked |
| Jam jitter buffer (`J/jitter.rs`) | reorder queue, ceilings, counters | push, pop, drain, set target | loss, reordering, duplicates, replaced connections | packets in order once; all of them counted |
| Project files, switch, shutdown (`U/project_ops.rs`, `U/close_ops.rs`, `U/session_load.rs`, `loading_session.rs`) | session identity, generation, dialogs, pickers, background saves, load transactions | save, discard, New, Open, switch, close, quit | continuations that interleave, failed saves, rollback | no unsaved work is lost; a session keeps its identity |
| Streaming, decoding, export, DSP, backends (`E/`) | caches, file positions | read, decode, render | I/O | numeric |
| ARA (`crates/SphereAraHost`, `Ara2Bridge`) | bound documents | bind, edit, render | lifetime of C++ objects | plugin behaviour |
| Collaboration service (`services/collabstream`, Go) | rooms, tokens, streams | join, relay | disconnects | room membership |
| Studio UI, GPUI (`crates/SphereUIComponents`, `crates/gpui`) | views | rendering, editing | — | appearance |
| Native and web applications (`apps/`) | process state | launch, update | — | — |
| Package installer (`crates/SpherePackageInstaller`) | unpacked packages | install | I/O | — |
| Audio libraries (encoders, built-in plugins, soundfonts, stem extraction, video, notation, MIDI) | per call | process, encode | numeric code | numeric |

How they interact. The UI builds an engine snapshot from the timeline and loads
it on a background thread (*project sync*); the load builds a runtime graph,
stores the snapshot, opens or closes the live input stream, and sends the graph
to the render callback over a command channel. A recording taps that live input
stream, or opens a stream of its own; its blocks go from the input callback over
a queue to a disk writer thread, and `stop_recording` waits on the UI thread for
the writer's results. The render callback exchanges audio with a plugin host
process through shared memory; an export takes the plugin away from it for a
while, and every load of a graph carries the plugins' sinks along. The jam
client runs a session worker and media threads of its own. Around all of this
stand the project guards: what may replace the session, and when.

`PROJECT.json` lists each part under `components` and each hazard, with its line
and the properties that cover it, under `hazards`.

## 2. Modules

| Module | Models | Actions |
|---|---|---|
| `TakeLifecycle` | nothing by itself: what the recorder promises of takes | Begin, Grow, Decline, End, Report |
| `CaptureTap` | `E/capture_tap.rs`, `E/recording.rs` and their callers in `E/engine.rs`, for takes that tap the live stream | one per step of the callback, the writer, and the control thread |
| `CaptureDevice` | who may open the capture device, and the mutexes `recording` and `project` (`E/engine.rs`) | the critical sections of start/stop_recording, the sync, load_project, route edits, open_daux |
| `ProjectSync` | `AudioBridgeState` and its sync lifecycle (`U/audio_transport.rs`) | Edit, Poll, Play, Complete, Timeout, LoadEnds |
| `PluginBridge` | the block handshake with the plugin host, and the handoff of the sink around exports and loads | steps of the host, the callback, the export worker, a load |
| `PluginLoads` | a plugin instance, from the slot that asks for it to the host that runs it | AddPlugin, RestorePlugin, RemovePlugin, DeleteTrack, Undo, Redo, New, Open, EditorOrphaned, EngineReady, HostTakes, HostExits, PollEvent |
| `RecordUi` | Record, count-in and Stop on the UI thread | Record, Stop, Restart, EndSession, Play, PlayAfterSync, Tick, CountInOver, timers |
| `ProjectGuard` | saves, dialogs, pickers, close, quit, New, Open, switch and the load transaction | one per UI handler, plus the write of a background save |
| `TransportLoop` | position, loop, MIDI and click schedules in the output callback | the transport's commands and the segments of a block |
| `JamSession` | the session worker of the jam client against a server that is external | requests, replies, events, faults, the host's commands |
| `JitterBuffer` | the reorder queue of one received stream | Push, Pop, Drain, SetTarget |
| `CaptureTapProofs`, `TakeProofs` | proofs about `CaptureTap`, and that it implements `TakeLifecycle` | |
| `ControlProofs` | proofs about `CaptureDevice` and `PluginLoads` | |
| `EngineProofs` | proofs about `ProjectSync` and `PluginBridge` | |
| `StudioProofs`, `GuardProofs` | proofs about `RecordUi` and `ProjectGuard` | |
| `LoopProofs` | proofs about `TransportLoop` | |
| `JamProofs` | proofs about `JamSession` and `JitterBuffer` | |
| `MCCaptureTap`, `MCCaptureDevice`, `MCControl`, `MCEngine`, `MCQueues`, `MCStudio` | TLC instances | |

`CaptureTap` and `CaptureDevice` share one border. `CaptureTap` lets the live
stream close and reopen at any time between two blocks (`CloseStream`,
`OpenStream`); `CaptureDevice` shows which threads do that and under which
locks. `ProjectSync` calls `load_project` as one step; `CaptureDevice` shows its
inside as far as the capture device goes, and `PluginBridge` as far as the sinks
of plugins go. `RecordUi` sees a take as the control thread of `CaptureTap`
reports it: armed or not, good or failed. Its `EndSession` is the first thing the
shutdown inside a transaction of `ProjectGuard` does.

### CaptureTap

A step is the code between two points where another thread can be seen: one
channel operation, one atomic, or one critical section. `cb` is where the input
callback is: *waiting* for a block, *draining* its commands, *gating* (deciding
whether to capture), *stamping* a block that is, *popping* a buffer from the
pool, *pushing* it. `writer[t]` and `ctl` are the same for the disk writer of
take t and for the control thread. A sink is named by its take, a command is the
sink it carries (Clear carries `NoTake`), and a captured block is its stamp, so
the order of blocks is the order of numbers. A sink is dropped by leaving every
place that can hold it; whether `audio_tx` is connected is `SinkAlive`, computed
from those places. The writer's wait and its look at the stop flag are two steps
(`WaitExpires`, `CheckStop`), so blocks may be queued between them; and so are
the three reads and the store of a stop (`ReadFirst`, `ReadDropped`,
`RaiseStopFlag`).

Left out: sample conversion, preview peaks, file format, the ASIO tap (same
fan-out, Windows only), blocks of zero frames. `captured` and `overtaken` are
history variables. The pool is refilled by `try_send`, whose failure is ignored:
`Returned` says so and `PoolConserved` shows that the failure never happens
while the writer runs.

### CaptureDevice

A mutex guard that lives for one statement is part of the step that needs it, so
the step waits for the mutex to be free; a guard that lives longer is `recLock`
or `projLock`. parking_lot mutexes are not reentrant: a thread waits for itself
as for any other. A snapshot is the input device its tracks want. `early` and
`stale` are history variables: which syncs had passed their check when the
running take began, and whether the last attempt to bring the live stream in
line with the project failed.

A sync that finds two monitored tracks with different inputs ends in an error
and touches no stream. Left out: monitor flags and channels, a jam that sends
the live input (for which a sync opens the preferred device when no track wants
one), device negotiation (it succeeds or not), the ASIO session, meters, the
carry-over of input edits committed during a load (an edit never gets as far as
to commit, see the findings).

### ProjectSync

The UI thread is one actor, so one handler is one step, with every call it makes:
`Complete` is the whole of `complete_audio_project_sync`, with the pending sync
or the deferred Play it starts. `Scheduled` is the cheap gate of
`sync_should_build_now`: a clean graph is left alone, and a dirty one may be put
off while the 75 ms window is open. Left out: the signature that guards against
a hash collision, route-graph versions, counters, background-task rows. A load
that fails leaves the engine's graph alone.

### PluginBridge

One effect insert, on the per-insert path. The callback and the export worker
run the same code (`Read`, `CopyOut`, `Check`, `Publish`), the host its own
(`HostTakes`, `HostGoesOn`). The buffers have no lock: who may touch one follows
from `request_seq` and `done_seq`, which are counted from the last number read,
so the model is finite. The second half is the handoff: `EngineInner`'s mirror
of the sinks, the commands to the callback, the barrier an export waits for (it
may time out), the load that copies the mirror into the graph it builds, and the
re-binding that follows each load. `overrun` is a history variable: an input was
written while an answer was unread, or by two threads at a time.

Left out: audio itself, MIDI and parameter rings, meters, latency, the death of a
host, the legacy path without inserts, which requests without looking.

### PluginLoads

Where `PluginBridge` follows one block, this follows one instance. Four sides
know of it: its slot in the timeline (`slot`), the studio's bridge runtime
(`loaded`, `regions`), the engine (`sinks`), and the host process (`hosted`). A
handler of the UI is one step and writes into the host's pipe (`cmds`); the
host's main thread takes one command at a time, and its events come back through
a pipe (`events`), one of which a poll handles. The host may exit at any time,
also between the two writes of one load (`LoadLost`); what it had written is
still read, and then `gone`. Creating the shared region of an instance may fail
(`RegionTried`): the load goes on without one. The several commands of a load
(attach, load, prepare) are one, and so are their answers.

`adrift` and `leftover` are history variables. A slot is adrift when Undo, Redo,
New or a failed open moved it without its instance; a load is left over when its
session ended before it did. What the two exclude is listed in section 4.

Left out: editors but for the backstop that tears down behind an orphaned one
(`EditorOrphaned`), parameters, persisted states, built-in plugins, a master
insert (teardown forgets it, section 4), a malformed frame from a host that
lives on, and a studio window mounted anew, which has no dialog and no undo.

### RecordUi

The state is one record; each function of the code is an operator from a state
to the states it may leave, and a handler composes them in the order of its
calls. A take is the number of the Record press that started it, and `fate` is
its history: running, committed, discarded or lost to a failure that was
reported. A count-in has a timer of its own, which polls the engine's clock,
gives up at its deadline, and outlives its count-in when that is cancelled.

### ProjectGuard

A project is named by the file that held it first, or by a number if it was made
here, so that a session whose identity and content belong to different projects
is visible. Message boxes are modal, because the platform's are; file pickers
and the window of a load transaction are not, because the code does not make
them so. A save takes its content when it begins, writes its file off the UI
thread, and completes in a handler that compares generations. Left out:
autosave, recovery, copies, templates, the welcome screen.

### TransportLoop

A block is rendered in several walks over the same samples, each cut where the
loop wraps: MIDI, then the click, and last the published position. The position,
the loop and the block length are all small numbers, so that a block is longer
than a loop, ends on its end, or starts behind it. A mono output mixes its
click sample by sample, without walking the loop (`MonoClick`). Left out: the
suspension of the click while the ruler is dragged, tempo ramps inside a block.

### JamSession and JitterBuffer

The worker is one thread that blocks in each request; while it waits, events
that arrive are set aside, so a reply overtakes the events sent before it. The
server is not in this repository. It is modelled from `J/protocol.rs`, from what
the worker relies on, and from the end-to-end tests:

- a participant survives its socket and keeps its mode and its declared streams.
  A join from the same device finds it again, with a token or without one
  (`Reattach`; `tests/end_to_end.rs:323-337, 440-455`, `J/protocol.rs:744`), also
  one that an earlier session of the device left behind in any state (`Inherit`).
  A token whose participant is gone is rejected (`Refuse`);
- a stream the client cannot decode, or that is not in the room, is refused, and
  the rest of the request granted (`J/protocol.rs:966`); under `auto` the server
  sends what the client can decode (`Offered`);
- a stream id is published once, and events a snapshot already holds are not
  replayed.

One participant is tracked, the one of the jam last joined, and the jams share
one room. Left out: a second connected session of the same device, publishing,
the clock, media transport candidates and statistics.

`asked`, `tookAll`, `kept` and `adrift` are history variables. A client is
*adrift* while nothing confirmed what it believes of its participant: it joined
one it did not know, or a request that changes the routing was given up or cut
off. A silence that is answered, or a fresh participant, ends it. `kept` names
the streams whose format stays in the registry although they are served no more
(section 4).

`JitterBuffer` has the operations of the buffer in any order. The receive thread
(`J/media.rs`) pops after every push, so that there the ceilings are out of
reach; the model keeps them, because they are what the type promises a caller.
A packet is its sequence number and its size.

## 3. Runs

| Run | What it asks | Bounds | States |
|---|---|---|---|
| `tap_safety` | Do blocks leak, vanish or get out of order; is a take placed where its first block was; is a good report true; does a late command detach a running take? | 2 takes, pool 2, both channels 2, 3 blocks, 2 streams | 2,743,302 |
| `tap_live` | Does the pipeline implement `TakeLifecycle`; does every stop end and every file get closed? | 2 takes, pool and channels 1, 1 block, 1 stream | 230,408 |
| `control` | Does the live stream follow the project; does a late sync keep off a take; does every operation return? Do slot, studio, host and engine agree on every plugin instance, and does the dialog of a load go away? | UI thread, 2 loads, 2 devices; 2 inserts, 1 deleted track, one New or Open or else 2 undos, 2 commands and events in the pipes | 180,519 |
| `engine` | Is an edit ever lost, a Play forgotten, a stale completion believed? Do two sides ever use a bridge buffer at once, and does the plugin come back after an export? | 3 graphs, 3 edits, 1 timeout; 2 passes, 1 load, 1 barrier that times out | 321,786 |
| `queues` | Is what is heard what was routed; are packets in order and counted; does the audio thread ever free a sink? | below | 1,418,320 |
| `studio` | Does the recorder have its take, and does every take end as the user meant; is unsaved work kept; do the schedules agree with the position? | below | 697,057 |
| `tap_report` | violation: a good report means nothing was dropped | 1 take, 2 blocks | some 2,000 |
| `device_single` | violation: one capture client at a time | UI thread, 1 load, 1 device | some 1,000 |
| `device_edit` | violation: a route edit returns | UI thread, 1 load, 1 device | 2,491 |
| `sync_orphan` | violation: the recorded fingerprint is the engine's | 2 graphs, 2 edits, 1 timeout | some 1,400 |
| `studio_identity` | violation: a session keeps the identity of its project | 1 press, 2 background jobs | some 20,000 |
| `bridge_export` | violation: an export has the plugin to itself | 1 pass, 1 load, no barrier times out | 404 |

`tap_safety`: 3 blocks on one stream; where the stream is reopened, one before
that and two in all (`FewBlocks`). `queues`: 3 streams, of which 2 can be
decoded, and 2 jams; 3 commands of the host, 2 changes of the room (an inherited
participant counts as one), 2 faults, and 5 of all of these together
(`MaxEvents`). A session that meets the stream it cannot decode
(`MetUndecodable`) gets one event less, and the first jam joined is always the
same (`FirstJam`). Packets numbered 0 to 4 of 2 generations and 2 sizes, 3
queued, 4 bytes, 5 pushes; 4 takes over channels of 2, without blocks, whose
files do not fail and whose writers' waits expire after the stop. `studio`: 2
presses of Record, 1 Play; 3 files, of which one is an import, 3 background jobs
or continuations, 1 picker at a time; positions 0 to 3 and blocks of up to 5
samples.

### What the properties say

- `tap_safety`: `PoolConserved` (every buffer of a take is in exactly one
  place), `CaptureAccounted` (a captured block is in the file, on its way or
  counted as dropped), `FileInOrder`, `PlacedOnFirstBlock` (the take is placed
  where its first captured block was), `OkMissesOnlyTheTail` (a good take lacks
  the block in flight at its stop at most, unless its writer left on a timeout
  that blocks had overtaken: then what fits in the queue, too),
  `TakeStaysAttached` (with room in the queue for a late Clear beside the next
  take's Set).
- `tap_live`: `ImplementsLifecycle` (refinement of `TakeLifecycle`), and as
  liveness `StopCompletes`, `EveryFileIsClosed`.
- `control`: `LiveMatchesProject` (unless somebody is on the way to mend it, the
  open stream is the one the project wants), `LateSyncLeavesTakeAlone`,
  `OperationsReturn`; `InstancesAgree` (a Ready slot has a confirmed load, and a
  sink if its region could be created; a load the studio believes in is at the
  host, on its way there, or its failure is on its way back; an instance the
  host runs is known or about to be unloaded; a sink belongs to a slot and a
  region), and as liveness `LoadDialogEnds`.
- `engine`: `InFlightHasItsLoad`, `NothingForgotten`, `PublishedWithoutTimeout`,
  `BuffersApart`, and as liveness `DeferredPlayStarts`, `EngineCatchesUp`,
  `WetComesBack`.
- `queues`: `QuietMeansRouted` (once everything is handled and the belief
  confirmed, the server serves what the host routed as far as it can be decoded,
  each of it has a decoder, and nothing else has but what is in `kept`),
  `RoutedHearsOnlyRouted`, `TableFollowsRegistry`; `EveryPacketCounted`,
  `SlotsCounted`, `ReleasedInOrder`; `HeldSinkIsHandedBack`.
- `studio`: `RecorderHasItsTake`, `EveryTakeSettled`, `RollsOnItsOwnTimer`,
  `CountInEnds`; `IdentityKeptUnlessOvertaken`, `LeavesOnlySaved`;
  `SchedulesFollowPosition` (on a mono output the click may be ahead, never
  behind).

Each module has one type invariant besides, which in four of them says a little
more: who may hold a lock or close a gate, that a resume token is presented to
the jam that issued it, that a dead host has nothing. A run of several parts
checks their conjunction. Every property has a mutant: a named
operator beside the one it replaces (for example `Forgotten` beside `Returned`)
that changes the model the way a plausible bug would, and TLC finds the property
violated.

### Runs of several parts

`MCControl`, `MCEngine`, `MCQueues` and `MCStudio` check parts that share no
variable and no step. A behaviour of such an instance lets one part move while
the others rest in one fixed initial state. As no property relates two parts,
interleaving them would only multiply states: every state of a part occurs in
the run, in every order the part allows. In `MCEngine` the bridge moves only
after a first sync that went well, in that all behaviours of the bridge alone.

Symmetry: takes are interchangeable in `tap_safety`. In `queues` takes are numbers
that begin in their order, and the first jam joined is always the same one, which
are reductions of the same kind. No liveness property is checked with symmetry.

### Bounds

Two takes are what it needs for one take's leftovers (a Clear in the queue, a
sink in the trash) to meet the next; four takes over channels of two are what it
needs to retire sinks faster than the trash is emptied. A pool of two lets a
block wait in the queue, another be written, and a third find the pool empty.
Three blocks order a file and drop one. Two streams put a close and a reopen
into a take. `tap_live` has one stream, which may close in the middle of a take,
and channels of one, so that a Clear that does not fit is common; what two
commands in one queue do to each other is the question of `TakeStaysAttached`,
which has a queue of two. Three graphs are the one published, the one being
loaded and the one pending. One timeout makes one orphan, which lives on beside
the load that superseded it. Two passes of an export leave one pass's answer to
the next. Two streams that can be decoded and two jams tell a belief about one
from a belief about the other, and an old token from a new one; a third stream,
which cannot be decoded, is wanted, published and refused. Five packet numbers
in a queue of three leave a gap, fill one late, and reach the ceiling by count
and by bytes. Three files are the open project, the one to be opened and an
import. Blocks longer than the longest loop wrap more than once.

Two inserts share one host that takes both down, and one's poll binds the sinks
of the other. Two places in the pipes hold a load and the unload that follows it,
or the loads of both inserts; the bound holds back the user, not the host. One
New or Open per behaviour leaves everything that went before it to be met by what
comes after. Two undos around a redo bring back a slot whose instance is there
already.

Channel capacities of the program are larger (8 for the two of the tap, 64 and
more elsewhere); a small capacity reaches the full channel sooner and has every
behaviour of the larger one otherwise. `HeldSinkIsHandedBack` is the exception,
see the assumptions.

Deadlock is checked in `tap_safety`, `tap_live`, `tap_report`. `CHECK_DEADLOCK
FALSE` stands in the device runs, because a route edit really stops both threads
(`device_edit` names it), and in the others, where the user, the host or the
network may stop asking and a worker ends at shutdown.

### Fairness

- `CaptureTap`: the writer and the control thread run, and a callback ends the
  block it began, as it neither blocks nor waits. Nothing obliges the device to
  deliver another block, so `StopCompletes` and `EveryFileIsClosed` hold on a
  stalled device. The 60 s timeout is not fair either; it may or may not fire.
- `CaptureDevice`: strong fairness per thread. A thread that waits for a mutex
  competes with others, and parking_lot hands a contended mutex over eventually.
  Opening devices and waiting for results end. Nobody has to start an operation.
- `ProjectSync`: the 60 Hz poll goes on, a load ends, and its completion is
  handled. A load that hangs for good is the orphan of a `Timeout`; the liveness
  properties claim nothing after one.
- `PluginBridge`: the host's producer wakes at least every millisecond, a
  callback ends the block it began, the export worker and a load go on. An
  export that can end does end (strong fairness: a render has a last block). That
  the device goes on calling is not assumed but the premise of `WetComesBack`.
- `PluginLoads`: the host's main thread takes the next command, so a plugin's
  constructor returns or takes the host with it, and the studio polls events
  every few frames (`U/audio_transport.rs:834`). Nothing makes the user act, the
  engine start, or the host live.
- `RecordUi`: a timer goes on polling and reaches its deadline. Nothing is
  assumed of the engine, so `CountInEnds` holds when its clock stands still.

### Assumptions of the models

- *Prompt callback.* `HeldSinkIsHandedBack` is checked under `PromptNext`: a
  callback that began to drain its commands ends before the control thread takes
  its next step. Draining takes microseconds and a take seconds. Without that, or
  with a channel of capacity one, TLC finds the second retired sink overwriting
  the first in `retiring`, which frees it on the audio thread: "Held rather than
  dropped" (`E/capture_tap.rs:174`) rests on this timing, not on the protocol.
  `SinksAreHandedBack` (section 5) says what suffices: a prompt callback, and room
  for three sinks more than half the commands. The code has 8 and 8
  (`E/capture_tap.rs:182`), where 7 would do.
- *Jam server.* What `JamSession` assumes of it is in section 2: above all one
  participant at a time, one room for all jams, and no second session of the
  device that takes over from a connected one. Its definitions are external in
  the map of `PROJECT.json`.
- *Modality.* A message box stops every other handler of the UI; a picker and
  the transaction window do not.
- *Plugin host.* In `PluginBridge` it lives, and it answers in the order it was
  asked. In `PluginLoads` it may die, and its pipes keep their order.

## 4. Findings

Each is a run that ends in a counterexample.

- `device_edit` — a route edit hangs. `update_track_input_state_inner` holds
  `recording` over `sync_live_input_stream`, which locks `recording` again; and it
  locks `recording` before `project`, where a load locks `project` first.
- `device_single` — two capture clients. The sync checks for a running take once
  and opens the device later, on a background thread, while a take may start.
- `sync_orphan` — a graph the UI does not know of. A load the watchdog gave up on
  still puts its graph into the engine when it ends, and its completion is
  discarded as stale. In the counterexample an older graph was published, a newer
  one is loading, and the watchdog gives that load up: the engine ends up playing
  the newer graph while the UI's fingerprint names the older, and an edit back to
  the older is taken for published already.
- `studio_identity` — a switch in the native studio goes through a hook
  (`apps/native/studio/src/app.rs:1198`, `U/session_load.rs:361`) that never calls
  `advance_session_generation`. A save begun before it completes after it, and
  binds the new session to the old project's id and path; the next Save
  overwrites the old file. `IdentityKeptUnlessOvertaken` shows that nothing else
  does this.
- `bridge_export` — an export drives a plugin that the callback drives too. A
  load copies the sinks' mirror before the export detaches them, and its
  `LoadProject` lands after the barrier; or the completion of a sync binds the
  sinks again while the export runs (`U/audio_transport.rs:1686`).
- `tap_report` — a block lost in the last callback of a take is in no report.
  `OkMissesOnlyTheTail` bounds what a good take may lack.

Observations made on the way. The code does this, and the models have it; no
document says clearly enough that it should not.

*Capture.* `clear()` says the callback "releases its senders on the next block,
which disconnects the disk writer" (`E/capture_tap.rs:156`); the senders go to
the trash channel, alive, and the writer leaves by its 200 ms timeout and the
stop flag. That exit is meant for "the stop flag is raised with no data pending"
(`E/recording.rs:276`), but the flag is looked at after the wait has timed out: a
block that comes between the two stays in the queue, is dropped with it, and is
in no count. It takes an input callback stalled for the 200 ms, with blocks that
follow before the stop.

*Transport.* On a mono output the click is mixed without a look at the loop
(`E/backend/render.rs:1500-1526`), and the reset that a wrap in the middle of a
block asks for is MIDI's: the click's schedule stays past the loop's end, and the
metronome is silent until something else resets it. `SchedulesFollowPosition`
says of a mono output only that no click is late or twice.

*Sync.* A timeout drops the pending sync and the dirty flags, so that an edit made
during the load waits for the next one, and leaves `play_after_sync` set, so that
the Play waits for an unrelated sync.

*Bridge.* The callback may find no fresh answer, the host answer right after, and
`request_in_flight` then find nothing in flight: a request is published over an
unread answer. If the host is then late, the next block reads `audio_out` and
writes `audio_in` while the host uses them. An export primes the plugin with a
live answer still unread, and its first block renders that answer instead of
"this silent response" (`E/export/offline_renderer.rs:270`); so does its second
pass. That is why `BuffersApart` claims nothing from such an `overrun` on, until
the newest answer is read by a thread that drives alone.

*Recording.* Stop during a count-in does not cancel it
(`U/audio_transport.rs:3599` against the
comment five lines above): the timer goes on and rolls a take. A deferred Play
outlives Stop. A cancelled MIDI-only count-in leaves `transport.recording` set,
and a failed stop of the engine drops the MIDI take.

*Plugin instances.*

- A shared region that cannot be created is logged
  (`U/plugin_bridge_runtime.rs:330`) and the load sent all the same: the slot is
  Ready and silent. `InstancesAgree` asks for a sink only where there is a region.
- A dead host is never started again in the same session. `ensure_shared` returns
  the runtime it has (`U/plugin_bridge_runtime.rs:120`), the entries of `loaded`
  stay and make every later load a duplicate, and `PluginRuntimeState::Crashed` is
  set nowhere: slots go on saying Ready. Comments speak of a respawn
  (`U/plugin_ops.rs:3279`, `U/plugin_ops.rs:4103`). `InstancesAgree` therefore asks
  for an instance behind a load only while the host is up.
- A session that ends during a load takes the runtime away and leaves `loading`:
  the dialog has no button and no event will close it, though it "closes as soon
  as the instance reaches Ready or Failed" (`U/plugin_load_progress.rs:15`).
  `leftover` excludes it from `LoadDialogEnds`.
- Undo of a deleted track restores its slots as they were, Ready, after the
  teardown of their instances. Nothing loads them again: the restore takes
  unloaded slots only, and the editor waits for a load nobody asked for. Redo
  deletes the track without a teardown; only an open editor brings one along
  (`U/plugin_ops.rs:2783`).
- New replaces the timeline without a teardown (`U/project_ops.rs:346`), so that
  instances stay in the host and sinks in the engine, unlike every other
  replacement of a session (`U/plugin_ops.rs:2729`), but for those with an open
  editor. The undo history is kept, and
  its next command is applied to the new project.
- A switch that fails after the shutdown brings back slots marked Ready whose host
  is gone (`U/session_load.rs:113`).
- `teardown_all_plugin_instances` walks the tracks and not the master
  (`U/plugin_ops.rs:2734`).

*Project.* Confirmation, after-save and picker continuations do not ask again
whether a transaction is running. An edit made during a background save is marked
saved; two saves of one path may land in either order (`io.rs` has no lock).
`LeavesOnlySaved` therefore speaks of work the last save alone holds. A picker
opened on a clean session does not ask again when it returns. A failed save
leaves `pending_close_action` set.

*Jam.*

- A stream that is no longer subscribed keeps its format in two cases, contrary to
  "clearing the negotiated format is what takes it out of the media table"
  (`J/session.rs:1546`). When a host that heard everything takes streams of its
  own, `apply_subscribed` retires what is in `subscribed` and not held, and
  `subscribed` is empty under `auto` (`J/session.rs:1507-1525`). And a reply
  overtakes a waiting `audio.format_selected` of a stream it takes away. These
  are the streams in `kept`.
- A client that wants everything and inherits a participant that was routed
  believes it to be in mode `auto` (`J/session.rs:808`), and never asks for `all`.
- A request that timed out is not retried, and the belief about routing is stale
  when its answer was lost with the connection.

A participant that leaves stays in
`subscribed`. The byte ceiling of the jitter buffer sheds one packet only; `lost`
counts late packets, too, and misses a gap in front of a shed one; nobody calls
`drain`.

## 5. Proofs

Every theorem holds for all values of the constants. Nothing is assumed but the
`ASSUME`s on constants (named `...Assumption` in the modules that declare them),
which TLC evaluates in the runs, and the one hypothesis that
`SinksAreHandedBack` states. There are 40 theorems a reader should know of, some
15,000 obligations. They state every invariant and every action property of the
passing runs (`HeldSinkIsHandedBack`, which `queues` checks of an instance of
`CaptureTap`, is proved of `CaptureTap` itself). The runs that compose
independent parts (`MCControl`, `MCEngine`, `MCStudio`, `MCQueues`) are shown to
be behaviours of each part (`ControlIsBoth`, `EngineIsBoth`, `StudioIsAll`,
`QueuesAreBoth`), so the theorems of the parts are theorems of the runs, and
`ControlTyped`, `EngineTyped`, `StudioTyped` and `JamTyped` put the types
together.

**CaptureTap** (`CaptureTapProofs`, `TakeProofs`). `TypeCorrect`; `TypeOK` is
inductive as it stands. `PoolIsConserved` and `CaptureIsAccounted` are not: a step
of the callback changes the pool of the take that is attached, and if that take
had no running writer the balance would not be known. `AccountingInv` rules that
out: the callback has a sink while it works on a block (`BlockHasSink`), and a take
not yet begun has its sink nowhere (`UnbegunUnowned`) and nothing captured, queued,
written or lost (`UnbegunPristine`).

- `TakesStayAttached` follows from a callback that is nowhere when there is no
  stream (`AtRest`).
- `SinksAreHandedBack` counts sinks. A sink is in a command, active, held or in
  the trash. Two commands that bring one never follow each other (`Alternating`),
  so the commands bring half of what the channel holds; the take that ended was
  cleared, or the channel was full (`Cleared`); so there are never more than
  `Half + 4` sinks and one of those is active (`FewSinks`). A trash with room for
  the rest takes every sink that is retired, so none is ever held for long, and
  none overwritten.
- `FilesStayInOrder`: `OrderInv` adds that the file is before the writer's block,
  that before the queue, and all of them stamped before the block at hand.
- `PipelineImplementsLifecycle`: the refinement. `PhaseInv` ties
  the positions of writer and control thread to the abstract state; one lemma per
  step of the control thread shows what it maps to.
- `GoodReportsAreTrue`: `VerdictInv` follows a report back. A counter was read
  after the last block but the one that may still be in the callback; a writer
  that left on a timeout found its queue empty or is `overtaken`, and then lost
  what the queue holds, which is a pool at most.
- `TakesArePlaced`: `PlaceInv` says that a stamp is there exactly when a block
  was captured, and that nothing captured is older than it (`Untouched`,
  `NotBefore`, `Leads`).

**CaptureDevice** (`ControlProofs`). `DeviceTyped`, `LateSyncsKeepOff`,
`LiveFollowsProject`. The property `LiveMatchesProject` is about the moments when
nobody is at work, so the invariant says who is at work otherwise: `Snapshots`
relates what a thread has read to what is stored, `Mended` says that whenever
stream and project differ there is a thread still to come that will bring them
in line, or one failed to.

**PluginLoads** (`ControlProofs`). `InstancesDoAgree`. The invariant says, of
every instance that is not adrift, what may be in the pipes: what the runtime
knows is what the slot waits for or shows (`KnownTo`), a sink has its region
and, with an engine, a region of a slot its sink (`Audible`), no load and no
answer is on its way for a slot that does not wait (`Settled`), exactly one is
for a slot that does (`UnderWay`), and the host runs what was asked for until it
comes to the unload that follows the load of a slot that is gone (`Hosted`).

**ProjectSync** (`EngineProofs`). `SyncTyped`, `OneLoadInFlight`,
`NoEditForgotten`, `PublishedIsHeard`. `SyncInv` has six parts: `Formed`,
`Follows`, `Kept`, `Distinct` (no two loads of one number), `Tracked`,
`UpToDate`.

**PluginBridge** (`EngineProofs`). `BuffersStayApart`: `Counted` bounds the
request and answer numbers against each other, `Drivers` says who may be inside
the handshake, `InOrder` that answers follow requests; without an `overrun` there
is one request out at a time, and a thread that touches a buffer has none out.
`BridgeTyped` is about what overruns do: a render pass primes its first block
without looking, so the number of requests out is bounded by the passes so far
(`FewUnanswered`, `FewOut`, `PassesCounted`) and by nothing else.

**RecordUi** (`StudioProofs`). `RecordTyped`, `RecorderKeepsItsTake`,
`TakesAreSettled`, `CountInsRollOnTheirTimer`. As handlers are composed of
operators from states to states, the invariant `Fine` (`State`, `HasItsTake`,
`Settled`, `TimersInStep`) is stated of any state, with a lemma for each operator
about what it keeps and what it needs; a handler's proof chains them.

**ProjectGuard** (`GuardProofs`). `GuardTyped`, `IdentityIsKept`,
`OnlySavedIsLeft`, laid out like those of `RecordUi`. `Sound` says of the studio
that whatever holds a project holds one that is known (`Numbered`), that the gate
is closed only while a transaction will open it (`GateOpens`), that no save is of
a session to come (`Past`), and that, unless a load overtook a save, content and
identity belong together everywhere: session, saves, rollbacks, loads, files
(`Same`). `Apart` adds that a save which is alone has its file to itself, and once
written the file holds what was to be saved; with that `LeavesOnlySaved` follows.

**TransportLoop** (`LoopProofs`). `SchedulesFollow`. A walk cuts a block into
segments, the publication advances over the whole block at once. Both end in the
same sample, since `Advance` does not see the length of the loop taken off
(`Unfolds`); for that it is a recursive function of one argument, which exists
because every step makes the argument smaller, and whose equations are proved by
a least counterexample. `LoopInv` says at every segment where the block will end
(`Final`, `Walk`) and whether it ends in a wrap (`ResetKnown`). On a mono output the
click's schedule is only known to be no earlier.

**JitterBuffer** (`JamProofs`). `JitterSafe`, `PacketsAreCounted`,
`SlotsAreCounted`, `AudioIsInOrder`, from `Sorted` (the queue is strictly
ascending), `Ahead` (and in front of what was released), `InStep`. The place
where a packet is inserted is a least element, which exists by well-foundedness.
`JitterTyped` includes that `queued_bytes` is the sum of what is queued: the sum
is handed on from step to step as the function of its prefixes (`Summed`), which
needs no induction.

**JamSession** (`JamProofs`). `SessionInv` has the types, `Links` (what can be on
a connection that is down, joining or joined), `TableFollowsRegistry` and `Routed`:
what a client that never took everything is served, or has asked for, it wanted at
some time. `SessionTyped`, `TableDoesFollow`, `OnlyRoutedIsHeard` follow. The set of
stream ids is assumed finite, as the server's answers name them one by one.
`QuietIsRouted` is about a moment when nothing is on its way, so its invariant says
what is on its way at any other:

- `RoomFollows`: the worker's room, changed by the news on its two queues, is the
  one on the air. That each stream's "added" comes before what else is said of it
  (`AddedFirst`, also across the queue set aside) makes the order of the rest
  irrelevant.
- `Lockstep`: a request is under way or its reply is, not both, as long as none was
  given up.
- `Believed`: `subscribed` and `serverMode` are what the server holds, up to streams
  withdrawn since, unless the answer that makes it so is coming. It survives a
  dropped connection, as a participant does, and starts afresh with a silence.
- `Reconciled`: the server is at the aim, or the set is dirty, or the request under
  way takes it there (`Promised`), or its answer says it is there (`Granted`); after
  a drop only the streams to add are missing. What cannot be decoded is refused,
  and is in no aim.
- `Decodes`: every stream served has a format in the registry or on its way.
- `Spared`: a stream with a format is served, or left behind (`kept`), or an answer
  on its way takes it off (`Excused`, `Thorough`); a connection begins without any.

Where a belief matters they speak of a client that is not `adrift`, or whose silence
is under way.

Only model-checked: the liveness properties `StopCompletes`, `EveryFileIsClosed`,
`OperationsReturn`, `LoadDialogEnds`, `DeferredPlayStarts`, `EngineCatchesUp`,
`WetComesBack` and `CountInEnds` (fairness and ENABLED are out of reach of the
installed provers), and of course what the runs that end in a counterexample
refute. `TakeLifecycle` promises no liveness: the refinement proved is the whole.

## 6. Not modelled

The repository has some 543,000 lines in a thousand files. Most of it has no
protocol for a model checker: the vendored UI toolkit (GPUI), views and editors,
sample processing, encoders, notation, file formats, device and plugin SDK glue.
A model of such code would repeat it line by line and show nothing; the map
therefore covers a small share of all lines, and a large one of those that
decide when things happen, who may do them, and what becomes of them. Each part
that is left out, with its reason, is in `components` of `PROJECT.json`. Of the
code that has a protocol these are left out:

- *Input ring* (`E/input_ring.rs`): a frame may be overwritten while it is read.
  The claim is about a race of single words; who may write the ring at all is the
  question of `CaptureDevice`, which shows two writers.
- *Graveyard* (`E/graveyard.rs`): one bounded `try_send` against a thread that
  does nothing else.
- *Plugin scan and process management* (`P/process_manager.rs`): a scan is a child
  process and its output; `PluginLoads` has what the studio does with a host that
  dies, and `PluginBridge` is silent without one.
- *Takes that open a stream of their own, and ASIO*: they share the writer with
  `CaptureTap` and the device with `CaptureDevice`, not the tap.
- *Publishing audio to a jam, its clock and its transport candidates*.
- *Autosave and recovery, project copies*.
- *The DAWStream service* (`services/collabstream`, Go): a server of its own,
  unrelated to the jam server.

## 7. Plan

Done: the capture tap with `TakeLifecycle` and its refinement, the capture
device, the project sync, the recording UI, the project guards, the plugin
bridge and the plugin instances, the jam session and jitter buffer, and the
transport.

Next, by what it would add:

1. `PluginBridge` under a host of `PluginLoads`: the handshake with a region whose
   host is dead, and the sinks of a session that ends. Property: no thread drives
   a region the studio has given up.
2. The composition of `RecordUi` with `CaptureTap`, by a mapping from the UI's
   `fate` of a take to the verdict of `TakeLifecycle`.
3. Takes on a stream of their own, as a second kind of take in `CaptureTap`.
4. Publishing to a jam: candidates, fallback, generations of a publisher.
5. Autosave, recovery and shutdown waits as further continuations of
   `ProjectGuard`.

Theorems: no safety property of a passing run is left. What follows is stronger
statements of what is proved: `QuietMeansRouted` with a request given up, for the
streams that request did not name; and `LeavesOnlySaved` where a second save of the
same file is under way, for the content of the later one.
