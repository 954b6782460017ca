------------------------------ MODULE MCEngine ------------------------------
(***************************************************************************)
(* TLC instance of how graphs and plugins get to the audio callback: the   *)
(* project sync and the plugin bridge.  They share no variable here, so a  *)
(* first sync runs by itself, and then one of them goes on while the other *)
(* rests; interleaving them would add nothing but states.                  *)
(***************************************************************************)
EXTENDS ProjectSync, PluginBridge

EngineVars == <<syncVars, bridgeVars>>

\* Any graph will do for the first one.
FirstGraph == CHOOSE g \in Graphs : TRUE

EngineInit == SyncInit /\ ui.current = FirstGraph /\ BridgeInit

BridgeRests == BridgeInit

\* The first load went well, and nothing happened since.
SyncRests ==
  /\ loads = {} /\ edits = 0 /\ timeouts = 0
  /\ ui.published = ui.current /\ ~ui.dirty /\ ~ui.playAfter

SyncTurn(A)   == BridgeRests /\ A /\ UNCHANGED bridgeVars
BridgeTurn(A) == SyncRests /\ A /\ UNCHANGED syncVars

EngineNext == SyncTurn(SyncNext) \/ BridgeTurn(BridgeNext)

\* The fairness of each part, while it is its turn.
EngineFairness ==
  /\ WF_EngineVars(SyncTurn(Poll))
  /\ WF_EngineVars(SyncTurn(\E l \in loads : Complete(l) \/ LoadEnds(l)))
  /\ WF_EngineVars(BridgeTurn(HostStep)) /\ WF_EngineVars(BridgeTurn(CallbackStep))
  /\ WF_EngineVars(BridgeTurn(WorkerStep)) /\ WF_EngineVars(BridgeTurn(LoadStep))
  /\ SF_EngineVars(BridgeTurn(ExportEnds))

EngineSpec == EngineInit /\ [][EngineNext]_EngineVars /\ EngineFairness

\* The type invariants of both parts.
EngineTypeOK == SyncTypeOK /\ BridgeTypeOK
=============================================================================
