---------------------------- MODULE PluginBridge ----------------------------
(***************************************************************************)
(* Blocks of audio to a plugin in the host process and back, through       *)
(* shared memory (plugin_bridge_sink.rs, render.rs, futureboard_plugin_    *)
(* host.rs), and the handoff of the plugin between playback and an export  *)
(* (export_window.rs, offline_renderer.rs, engine.rs).                     *)
(*                                                                         *)
(* The audio callback and the export worker drive the plugin with the same *)
(* code: read the answer to the last request, write the next input, bump   *)
(* request_seq.  The host answers the newest request and stores its number *)
(* in done_seq.  Neither buffer has a lock: who may touch one follows from *)
(* the two numbers, and that only one engine thread drives at a time.      *)
(*                                                                         *)
(* One effect insert, enabled and loaded throughout, on the per-insert     *)
(* path.  What the buffers hold, MIDI, parameters, meters and latency are  *)
(* left out, and so is a load that the watchdog gives up on: see           *)
(* ProjectSync.  request_seq and done_seq only grow and are only compared, *)
(* so they are counted from last_read_seq here.                            *)
(***************************************************************************)
EXTENDS Naturals, Sequences

CONSTANTS
  MaxPasses,    \* bound on offline render passes
  MaxLoads,     \* bound on graph loads
  MaxGraces     \* bound on barriers that time out

ASSUME PluginBridgeAssumption ==
  MaxPasses \in Nat /\ MaxLoads \in Nat /\ MaxGraces \in Nat

VARIABLES
  request, done,  \* request_seq and done_seq of the shared region, counted
                  \* from last_read_seq of the sink both engine threads share
  host,           \* the host's producer: its step, and the request it took
  driver,         \* the steps of the callback and of the export worker
  attached,       \* the callback's graph has the sink
  mirror,         \* EngineInner.plugin_bridge_sinks has it
  cmds,           \* commands for the callback, by their effect on `attached`
  load,           \* a load of the graph: its step, and the mirror it copied
  passes, loadsBegun, graces,
  overrun         \* history: since an answer to the newest request was last
                  \* read by a thread that drove alone, an input was written
                  \* while one was unread, or by two threads at a time

handshake  == <<request, done, host>>
handoff    == <<attached, mirror, cmds>>
bounds     == <<passes, loadsBegun, graces>>
bridgeVars == <<handshake, driver, handoff, load, bounds, overrun>>

\* The steps of a driver with a block in hand.
InBlock == {"read", "copyOut", "check", "write"}

Idle == [at |-> "idle", req |-> 0]

\* The callback has rendered through the sink before, or is about to begin.
BridgeInit ==
  /\ request = 0 /\ done = 0
  /\ host = Idle
  /\ driver = [callback |-> "idle", worker |-> "closed"]
  /\ attached = TRUE /\ mirror = TRUE /\ cmds = <<>>
  /\ load = [at |-> "none", sink |-> FALSE]
  /\ passes = 0 /\ loadsBegun = 0 /\ graces = 0
  /\ overrun = FALSE

On(d, step) == driver[d] = step
Move(d, step) == driver' = [driver EXCEPT ![d] = step]

-----------------------------------------------------------------------------
(* service_audio_bridge, on the host's producer thread.                    *)

HostTakes ==
  /\ host.at = "idle" /\ request # done
  /\ host' = [at |-> "copyIn", req |-> request]
  /\ UNCHANGED <<request, done, driver, handoff, load, bounds, overrun>>

\* Mutant of AnsweredAfter: the request is answered as soon as its input is
\* copied.
OnceCopied == "copyIn"

\* done_seq is stored after audio_out was written.
AnsweredAfter == "writeOut"

HostGoesOn ==
  /\ host.at # "idle"
  /\ done' = IF host.at = AnsweredAfter THEN host.req ELSE done
  /\ host' = IF host.at = "copyIn" THEN [host EXCEPT !.at = "writeOut"] ELSE Idle
  /\ UNCHANGED <<request, driver, handoff, load, bounds, overrun>>

-----------------------------------------------------------------------------
(* apply_external_bridge_insert_block, by whichever driver.                *)

\* After its block the callback returns; the worker decides what to render.
BlockOver(d) == Move(d, IF d = "callback" THEN "idle" ELSE "between")

DrivesAlone(d) == \A other \in DOMAIN driver \ {d} : driver[other] \notin InBlock

\* The driver begins to write the input.
Overruns(d) == request # 0 \/ ~DrivesAlone(d)

StartWrite(d) == Move(d, "write") /\ overrun' = (overrun \/ Overruns(d))

\* fresh_done_seq: a block is handed out once.  A miss is a miss: the worker
\* waits for the host, and misses after 5 s or when it is cancelled.
Read(d) ==
  /\ On(d, "read")
  /\ request' = request - done /\ done' = 0
  /\ host' = IF host.at = "idle" THEN Idle ELSE [host EXCEPT !.req = @ - done]
  /\ Move(d, IF done = 0 THEN "check" ELSE "copyOut")
  /\ overrun' = (overrun /\ ~(0 < done /\ done = request /\ DrivesAlone(d)))
  /\ UNCHANGED <<handoff, load, bounds>>

CopyOut(d) ==
  /\ On(d, "copyOut")
  /\ StartWrite(d)
  /\ UNCHANGED <<handshake, handoff, load, bounds>>

\* Nothing was read: publish all the same, unless a request is in flight.
Check(d) ==
  /\ On(d, "check")
  /\ IF request = done THEN StartWrite(d) ELSE BlockOver(d) /\ UNCHANGED overrun
  /\ UNCHANGED <<handshake, handoff, load, bounds>>

\* The input is written; request_block.
Publish(d) ==
  /\ On(d, "write")
  /\ request' = request + 1
  /\ BlockOver(d)
  /\ UNCHANGED <<done, host, handoff, load, bounds, overrun>>

DriveBlock(d) == Read(d) \/ CopyOut(d) \/ Check(d) \/ Publish(d)

-----------------------------------------------------------------------------
(* The audio callback.                                                     *)

\* drain_commands: SetPluginBridgeSink and LoadProject decide whether the
\* graph has the sink, the last of them for good; CommandBarrier is acked.
CallbackBegins ==
  /\ On("callback", "idle")
  /\ LET effects == SelectSeq(cmds, LAMBDA c : c # "barrier")
     IN attached' = IF effects = <<>> THEN attached
                    ELSE effects[Len(effects)] = "with"
  /\ cmds' = <<>>
  /\ Move("callback", "render")
  /\ UNCHANGED <<handshake, mirror, load, bounds, overrun>>

\* An insert without a sink is skipped.
CallbackRenders ==
  /\ On("callback", "render")
  /\ Move("callback", IF attached THEN "read" ELSE "idle")
  /\ UNCHANGED <<handshake, handoff, load, bounds, overrun>>

-----------------------------------------------------------------------------
(* The export worker: spawn_export's thread.  set_plugin_bridge_sink first *)
(* changes the mirror, then sends the command.                             *)

Send(c) == cmds' = Append(cmds, c)

ExportBegins ==
  /\ On("worker", "closed") /\ passes < MaxPasses
  /\ mirror' = FALSE
  /\ Move("worker", "detach")
  /\ UNCHANGED <<handshake, attached, cmds, load, bounds, overrun>>

\* BridgeSinkHandoff::detach, up to the barrier it waits for.
DetachSends ==
  /\ On("worker", "detach")
  /\ cmds' = cmds \o <<"without", "barrier">>
  /\ Move("worker", "barrier")
  /\ UNCHANGED <<handshake, attached, mirror, load, bounds, overrun>>

\* render_offline_impl primes the bridge: it writes silence and requests a
\* block, looking neither for an answer nor for a request in flight.
PassBegins ==
  /\ passes' = passes + 1
  /\ StartWrite("worker")

\* The barrier was acked, or 500 ms and a grace of 25 ms passed.
HandedOver ==
  /\ On("worker", "barrier")
  /\ PassBegins
  /\ \/ (\A i \in DOMAIN cmds : cmds[i] # "barrier") /\ UNCHANGED graces
     \/ graces < MaxGraces /\ graces' = graces + 1
  /\ UNCHANGED <<handshake, handoff, load, loadsBegun>>

NextBlock ==
  /\ On("worker", "between")
  /\ Move("worker", "read")
  /\ UNCHANGED <<handshake, handoff, load, bounds, overrun>>

\* Normalizing renders twice.
SecondPass ==
  /\ On("worker", "between") /\ passes < MaxPasses
  /\ PassBegins
  /\ UNCHANGED <<handshake, handoff, load, loadsBegun, graces>>

\* The render ended, failed or was cancelled: the handoff is dropped.
ExportEnds ==
  /\ On("worker", "between")
  /\ mirror' = TRUE
  /\ Move("worker", "restore")
  /\ UNCHANGED <<handshake, attached, cmds, load, bounds, overrun>>

RestoreSends ==
  /\ On("worker", "restore")
  /\ Send("with")
  /\ Move("worker", "closed")
  /\ UNCHANGED <<handshake, attached, mirror, load, bounds, overrun>>

-----------------------------------------------------------------------------
(* A load of the graph, and complete_audio_project_sync after it.          *)

LoadBegins ==
  /\ load.at = "none" /\ loadsBegun < MaxLoads
  /\ load' = [load EXCEPT !.at = "building"]
  /\ loadsBegun' = loadsBegun + 1
  /\ UNCHANGED <<handshake, driver, handoff, passes, graces, overrun>>

LoadCopies ==
  /\ load.at = "building"
  /\ load' = [at |-> "copied", sink |-> mirror]
  /\ UNCHANGED <<handshake, driver, handoff, bounds, overrun>>

\* The graph is sent, or cannot be.
LoadSends ==
  /\ load.at = "copied"
  /\ load' = [at |-> "ended", sink |-> FALSE]
  /\ Send(IF load.sink THEN "with" ELSE "without") \/ UNCHANGED cmds
  /\ UNCHANGED <<handshake, driver, attached, mirror, bounds, overrun>>

\* Mutant of RebindsTo: the sinks are not bound again after a load.
NotRebound == "none"

\* sync_plugin_bridge_sinks_to_engine follows every load, in two steps too.
RebindsTo == "rebinding"

LoadCompletes ==
  /\ load.at = "ended"
  /\ load' = [load EXCEPT !.at = RebindsTo]
  /\ mirror' = TRUE
  /\ UNCHANGED <<handshake, driver, attached, cmds, bounds, overrun>>

RebindSends ==
  /\ load.at = "rebinding"
  /\ load' = [load EXCEPT !.at = "none"]
  /\ Send("with")
  /\ UNCHANGED <<handshake, driver, attached, mirror, bounds, overrun>>

-----------------------------------------------------------------------------

HostStep     == HostTakes \/ HostGoesOn
CallbackStep == CallbackRenders \/ DriveBlock("callback")
WorkerStep   == DetachSends \/ HandedOver \/ RestoreSends \/ DriveBlock("worker")
LoadStep     == LoadCopies \/ LoadSends \/ LoadCompletes \/ RebindSends

BridgeNext ==
  \/ HostStep \/ CallbackBegins \/ CallbackStep
  \/ ExportBegins \/ WorkerStep \/ NextBlock \/ SecondPass \/ ExportEnds
  \/ LoadBegins \/ LoadStep

BridgeSpec == BridgeInit /\ [][BridgeNext]_bridgeVars

(***************************************************************************)
(* The host's producer wakes at the latest after 1 ms; a thread that has   *)
(* begun a block, a handoff or a load goes on; a render has a last block,  *)
(* so it ends however often it takes another one.  Nobody has to begin     *)
(* anything, and the device need not call the callback.                    *)
(***************************************************************************)
BridgeFairness ==
  /\ WF_bridgeVars(HostStep) /\ WF_bridgeVars(CallbackStep)
  /\ WF_bridgeVars(WorkerStep) /\ WF_bridgeVars(LoadStep)
  /\ SF_bridgeVars(ExportEnds)

-----------------------------------------------------------------------------
(* Properties.                                                             *)

\* Every variable has its type, and done_seq is never ahead of the request
\* it answers; a few requests at most are out that nobody read the answer to.
BridgeTypeOK ==
  /\ request \in 0 .. MaxPasses + 4 /\ done \in 0 .. request
  /\ host \in {Idle} \cup [at : {"copyIn", "writeOut"}, req : done .. request]
  /\ driver.callback \in InBlock \cup {"idle", "render"}
  /\ driver.worker \in InBlock \cup {"closed", "detach", "barrier", "between", "restore"}
  /\ attached \in BOOLEAN /\ mirror \in BOOLEAN /\ overrun \in BOOLEAN
  /\ cmds \in Seq({"with", "without", "barrier"})
  /\ load \in [at : {"none", "building", "copied", "ended", "rebinding"}, sink : BOOLEAN]

\* "Read previous wet proves the host finished the last cycle and released
\* audio_in": engine and host never touch a buffer at the same time, unless an
\* input was written over an unread answer, and then again as soon as the
\* newest answer is read.
BuffersApart ==
  ~overrun =>
    /\ host.at = "copyIn" => \A d \in DOMAIN driver : ~On(d, "write")
    /\ host.at = "writeOut" => \A d \in DOMAIN driver : ~On(d, "copyOut")

\* As long as the device calls the callback, it hears the plugin again and
\* again: no miss, overrun, export or load, in whatever order, ends with the
\* sink gone from the graph or with both sides waiting for each other.
WetComesBack == []<>On("callback", "render") => []<>On("callback", "copyOut")

\* "Detaches the live realtime plugin-bridge sinks for the duration of an
\* export": while the worker renders a block, the callback renders none.
DetachedForExport ==
  driver.worker \in InBlock \cup {"between"} => driver.callback \notin InBlock

=============================================================================
