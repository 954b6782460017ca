---------------------------- MODULE PluginLoads ----------------------------
(***************************************************************************)
(* The life of a plugin instance: the insert slot that wants it, the       *)
(* studio's bridge runtime, the host process that runs it, and the sink    *)
(* that carries its audio into the engine (plugin_ops.rs,                  *)
(* plugin_bridge_runtime.rs, futureboard_plugin_host.rs).                  *)
(*                                                                         *)
(* A handler of the UI thread is one step.  Commands to the host and its   *)
(* events are pipes: read later, in order.  The host may exit at any time, *)
(* also between two writes of one handler.  Nothing starts it again while  *)
(* a session lasts; a session that ends lets go of it.                     *)
(*                                                                         *)
(* Every insert is on a track of its own.  The load commands of one        *)
(* instance and their answers are one; Loaded, Ready and Active are one    *)
(* state, as are Failed and Missing, NotLoaded and Unloaded.  Left out:    *)
(* editors but for the backstop that tears down behind one, parameters,    *)
(* persisted states, built-in plugins, which have no dialog, and a studio  *)
(* mounted anew, which begins without dialog or undo.                      *)
(***************************************************************************)
EXTENDS Naturals, Sequences

CONSTANTS
  Slots,         \* insert ids
  MaxTurns,      \* bound on undos; New, Open or a failed open takes it all
  MaxDeleted,    \* bound on deleted tracks in the undo stack
  MaxPending     \* bound on commands and events in the pipes when the user acts

ASSUME PluginAssumption == {MaxTurns, MaxDeleted, MaxPending} \subseteq Nat

VARIABLES
  slot,       \* runtime_state of each slot, or "fresh" (id unused) or "gone"
  loading,    \* plugin_editors.loading: slots the dialog is shown for
  loaded,     \* PluginBridgeRuntime.loaded, with its flag confirmed
  regions,    \* PluginBridgeRuntime.shared_audio
  engine,     \* audio_bridge.engine is there
  sinks,      \* the engine's plugin bridge sinks
  undos,      \* deleted tracks in the undo stack, [id, was]
  redos,      \* and in the redo stack
  host,       \* "none" (no bridge_runtime), "up", or "down"
  cmds,       \* commands in the host's stdin, <<verb, id>>
  hosted,     \* instances the host runs
  events,     \* events the studio has not handled, <<kind, id>>
  turns,   \* history: New, Open, failed opens and undos
  leftover,   \* history: loads of the dialog whose session has ended
  adrift      \* history: slots dropped or brought back with a mere copy

uiVars     == <<slot, loading, loaded, regions, engine, sinks>>
pastVars   == <<undos, redos, turns, leftover, adrift>>
hostVars   == <<host, cmds, hosted, events>>
pluginVars == <<uiVars, pastVars, hostVars>>

Live     == {"Unloaded", "Loading", "Ready", "Failed"}
NoSlot   == "no slot"
InUse(f) == {i \in Slots : f[i] \in Live}

PluginInit ==
  /\ slot \in [Slots -> {"fresh", "Unloaded"}]
  /\ loading = {} /\ loaded = [i \in Slots |-> "no"] /\ regions = {}
  /\ engine = FALSE /\ sinks = {}
  /\ undos = <<>> /\ redos = <<>>
  /\ host = "none" /\ cmds = <<>> /\ hosted = {} /\ events = <<>>
  /\ turns = 0 /\ leftover = {} /\ adrift = {}

-----------------------------------------------------------------------------
(* Parts of the handlers.                                                  *)

\* sync_plugin_bridge_sinks_to_engine: every slot with a region gets its sink,
\* and no sink is taken away.
Installed(reg, f) == IF engine THEN sinks \cup (reg \cap InUse(f)) ELSE sinks

\* Mutant of Sent: the commands of a teardown get lost.
Unsent(verb, i) == cmds

\* A command; a host that is gone reads nothing.
Sent(verb, i) == IF host = "up" THEN Append(cmds, <<verb, i>>) ELSE cmds

\* teardown_insert_instance: unload, forget, take the sink away.  The dialog
\* is left to the answer of the load.
Teardown(i) ==
  /\ cmds' = Sent("unload", i)
  /\ loaded' = [loaded EXCEPT ![i] = "no"]
  /\ regions' = regions \ {i}
  /\ sinks' = IF engine THEN sinks \ {i} ELSE sinks
  /\ UNCHANGED <<loading, engine, host, hosted, events>>

\* establish_shared_audio_for_instance: a region that cannot be created is
\* logged, and the load goes on without it.
RegionTried(i) == regions' \in {regions, regions \cup {i}}

\* ensure_shared and send_load_plugin: a host is spawned if there never was
\* one; one that is down is not replaced.
LoadSent(i) ==
  /\ host \in {"none", "up"}
  /\ host' = "up" /\ cmds' = Append(cmds, <<"load", i>>)
  /\ loaded' = [loaded EXCEPT ![i] = "asked"]
  /\ RegionTried(i)
  /\ UNCHANGED <<hosted, events>>

\* The first write fails, or the host exits between the write of the region
\* and that of the load: then the region stays.
LoadLost(i) ==
  /\ \/ host = "down" /\ UNCHANGED <<regions, hostVars>>
     \/ /\ host \in {"none", "up"}
        /\ host' = "down" /\ cmds' = <<>> /\ hosted' = {}
        /\ events' = Append(events, <<"gone", NoSlot>>)
        /\ RegionTried(i)
  /\ UNCHANGED loaded

\* The file of the plugin is missing, or no host can be spawned.
NotAsked == UNCHANGED <<loaded, regions, hostVars>>

\* The dialog after an add whose load was not sent.
NotSent(i) == loading \ {i}

\* Mutant of AfterGone: loads are given up only when they fail.
GoneIgnored == loading

\* The dialog and the studio's loads after an event.
Without(i)   == loading \ {i}
AfterGone    == {}
Confirmed(i) == IF loaded[i] = "no" THEN loaded ELSE [loaded EXCEPT ![i] = "confirmed"]
Shown(i, state) == IF i \in InUse(slot) THEN [slot EXCEPT ![i] = state] ELSE slot

-----------------------------------------------------------------------------
(* Commands of the user.                                                   *)

\* apply_plugin_pick and the presets; the id is new.  To replace a plugin is
\* to remove it and to add the other.
AddPlugin(i) ==
  /\ slot[i] = "fresh"
  /\ \/ /\ LoadSent(i)
        /\ slot' = [slot EXCEPT ![i] = "Loading"]
        /\ loading' = loading \cup {i}
        /\ sinks' = Installed(regions', slot')
     \/ /\ LoadLost(i) \/ NotAsked
        /\ slot' = [slot EXCEPT ![i] = "Failed"]
        /\ loading' = NotSent(i)
        /\ sinks' \in {sinks, Installed(regions', slot')}
  /\ UNCHANGED <<engine, pastVars>>

\* load_bridge_insert_for_slot, for the slots of a project that was opened or
\* for an editor.  An instance asked for already is not asked for again.
RestorePlugin(i) ==
  /\ slot[i] = "Unloaded"
  /\ \/ /\ loaded[i] # "no"
        /\ sinks' = Installed(regions, slot)
        /\ UNCHANGED <<slot, loaded, regions, hostVars>>
     \/ /\ loaded[i] = "no" /\ LoadSent(i)
        /\ slot' = [slot EXCEPT ![i] = "Loading"]
        /\ sinks' = Installed(regions', slot')
     \/ /\ (loaded[i] = "no" /\ LoadLost(i)) \/ NotAsked
        /\ slot' = [slot EXCEPT ![i] = "Failed"]
        /\ UNCHANGED sinks
  /\ UNCHANGED <<loading, engine, pastVars>>

\* remove_insert_fully
RemovePlugin(i) ==
  /\ slot[i] \in Live
  /\ Teardown(i)
  /\ slot' = [slot EXCEPT ![i] = "gone"]
  /\ UNCHANGED pastVars

\* delete_selected_track: the copy the undo will bring back is taken after the
\* teardown and says what the slot said before it.
DeleteTrack(i) ==
  /\ slot[i] \in Live /\ Len(undos) < MaxDeleted
  /\ Teardown(i)
  /\ slot' = [slot EXCEPT ![i] = "gone"]
  /\ undos' = Append(undos, [id |-> i, was |-> slot[i]]) /\ redos' = <<>>
  /\ UNCHANGED <<turns, leftover, adrift>>

\* undo_edit: the track is back with its copy, unless it is there.
Undo ==
  /\ turns < MaxTurns /\ undos # <<>>
  /\ turns' = turns + 1
  /\ LET e == undos[Len(undos)] IN
       /\ slot' = IF slot[e.id] \in Live THEN slot ELSE [slot EXCEPT ![e.id] = e.was]
       /\ adrift' = adrift \cup {e.id}
       /\ undos' = SubSeq(undos, 1, Len(undos) - 1) /\ redos' = Append(redos, e)
  /\ UNCHANGED <<loading, loaded, regions, engine, sinks, leftover, hostVars>>

\* redo_edit: the track goes again, and nothing tears down its plugin.
Redo ==
  /\ redos # <<>>
  /\ LET e == redos[Len(redos)] IN
       /\ slot' = [slot EXCEPT ![e.id] = "gone"]
       /\ adrift' = adrift \cup {e.id}
       /\ redos' = SubSeq(redos, 1, Len(redos) - 1) /\ undos' = Append(undos, e)
  /\ UNCHANGED <<loading, loaded, regions, engine, sinks, turns, leftover, hostVars>>

\* new_empty_project: the timeline is replaced, no plugin is torn down, and the
\* undo stack is kept.
NewEmptyProject ==
  /\ turns = 0 /\ turns' = MaxTurns
  /\ slot' = [i \in Slots |-> IF slot[i] \in Live THEN "gone" ELSE slot[i]]
  /\ adrift' = adrift \cup InUse(slot)
  /\ UNCHANGED <<loading, loaded, regions, engine, sinks, undos, redos, leftover, hostVars>>

\* reconcile_open_plugin_editors: an editor is open for a slot that is gone.
EditorOrphaned(i) ==
  /\ slot[i] = "gone" /\ loaded[i] # "no"
  /\ Teardown(i)
  /\ UNCHANGED <<slot, pastVars>>

\* The lifecycle of a session that ends: engine, bridge_runtime and host go;
\* the dialog and the undo stack stay.
SessionEnds ==
  /\ turns = 0 /\ turns' = MaxTurns
  /\ engine' = FALSE /\ sinks' = {}
  /\ host' = "none" /\ cmds' = <<>> /\ hosted' = {} /\ events' = <<>>
  /\ loaded' = [i \in Slots |-> "no"] /\ regions' = {}
  /\ leftover' = leftover \cup loading
  /\ UNCHANGED <<loading, undos, redos>>

\* A project is opened: it may be the same one again.
OpenProject ==
  /\ SessionEnds
  /\ \E saved \in SUBSET {i \in Slots : slot[i] # "fresh"} :
       slot' = [i \in Slots |-> IF i \in saved THEN "Unloaded"
                                ELSE IF slot[i] \in Live THEN "gone" ELSE slot[i]]
  /\ adrift' = {}

\* The project cannot be read: restore_session_rollback_snapshot brings back
\* the timeline, not its plugins.
OpenFails == SessionEnds /\ adrift' = InUse(slot) /\ UNCHANGED slot

-----------------------------------------------------------------------------
(* The engine, the host, and the studio's poll of its events.              *)

\* The warm-up of an engine or a handoff.
EngineReady ==
  /\ ~engine
  /\ engine' = TRUE /\ sinks' = regions \cap InUse(slot)
  /\ UNCHANGED <<slot, loading, loaded, regions, pastVars, hostVars>>

\* The host's main thread: LoadPlugin or UnloadPlugin.
HostTakes ==
  /\ host = "up" /\ cmds # <<>>
  /\ LET i == Head(cmds)[2] IN
       \/ /\ Head(cmds)[1] = "load"
          /\ \/ hosted' = hosted \cup {i} /\ events' = Append(events, <<"loaded", i>>)
             \/ UNCHANGED hosted /\ events' = Append(events, <<"failed", i>>)
       \/ /\ Head(cmds)[1] = "unload"
          /\ hosted' = hosted \ {i} /\ UNCHANGED events
  /\ cmds' = Tail(cmds)
  /\ UNCHANGED <<host, uiVars, pastVars>>

\* The process is gone: what it wrote is still read, then the end of its pipe.
HostExits ==
  /\ host = "up"
  /\ host' = "down" /\ cmds' = <<>> /\ hosted' = {}
  /\ events' = Append(events, <<"gone", NoSlot>>)
  /\ UNCHANGED <<uiVars, pastVars>>

\* poll_plugin_bridge_runtime, one event.
PollEvent ==
  /\ events # <<>>
  /\ events' = Tail(events)
  /\ LET i == Head(events)[2] IN
       \/ /\ Head(events)[1] = "loaded"
          /\ loaded' = Confirmed(i) /\ loading' = Without(i)
          /\ slot' = Shown(i, "Ready") /\ sinks' = Installed(regions, slot')
          /\ UNCHANGED regions
       \/ /\ Head(events)[1] = "failed"
          /\ loaded' = [loaded EXCEPT ![i] = "no"] /\ regions' = regions \ {i}
          /\ loading' = Without(i)
          /\ sinks' = IF engine THEN sinks \ {i} ELSE sinks
          /\ slot' = Shown(i, "Failed")
       \/ /\ Head(events)[1] = "gone"
          /\ loading' = AfterGone
          /\ UNCHANGED <<slot, loaded, regions, sinks>>
  /\ UNCHANGED <<engine, host, cmds, hosted, pastVars>>

PluginNext ==
  \/ /\ Len(cmds) + Len(events) < MaxPending
     /\ \E i \in Slots : AddPlugin(i) \/ RestorePlugin(i) \/ RemovePlugin(i) \/ DeleteTrack(i)
  \/ \E i \in Slots : EditorOrphaned(i)
  \/ Undo \/ Redo \/ NewEmptyProject \/ OpenProject \/ OpenFails
  \/ EngineReady \/ HostTakes \/ HostExits \/ PollEvent

\* A load returns, and the studio polls every few frames.
PluginFairness == WF_pluginVars(HostTakes) /\ WF_pluginVars(PollEvent)

PluginSpec == PluginInit /\ [][PluginNext]_pluginVars /\ PluginFairness

-----------------------------------------------------------------------------
(* Properties.                                                             *)

\* Types; nothing is known of instances, regions and sinks without a host.
PluginTypeOK ==
  /\ slot \in [Slots -> Live \cup {"fresh", "gone"}]
  /\ loaded \in [Slots -> {"no", "asked", "confirmed"}]
  /\ host \in {"none", "up", "down"} /\ engine \in BOOLEAN
  /\ loading \subseteq Slots /\ sinks \subseteq Slots
  /\ (host = "none") => (regions = {} /\ hosted = {} /\ cmds = <<>>)
  /\ (host # "up") => (hosted = {} /\ cmds = <<>>)

Queued(q, m) == \E k \in DOMAIN q : q[k] = m

\* Slot, bridge runtime, host and engine agree on every instance, over the
\* commands and events between them, a host that exits, loads that fail, and
\* slots that go before their answer comes: a slot that is ready has its
\* instance, and is heard if its region could be created.  Not claimed of slots
\* that an undo, a redo, New, or a failed open dropped or brought back: those
\* move the slot and leave the instance as it is.
InstancesAgree ==
  \A i \in Slots \ adrift :
    /\ slot[i] = "Ready" =>
         loaded[i] = "confirmed" /\ (engine /\ i \in regions => i \in sinks)
    /\ (loaded[i] # "no" /\ host = "up") =>
         i \in hosted \/ Queued(cmds, <<"load", i>>) \/ Queued(events, <<"failed", i>>)
    /\ i \in hosted => loaded[i] # "no" \/ Queued(cmds, <<"unload", i>>)
    /\ i \in sinks => i \in regions \cap InUse(slot)

\* The dialog goes: a load ends, fails, or is given up with its host, also when
\* its slot is removed meanwhile.  Not claimed of a load whose session ended.
LoadDialogEnds ==
  \A i \in Slots : (i \in loading \ leftover) ~> (i \notin loading \ leftover)
=============================================================================
