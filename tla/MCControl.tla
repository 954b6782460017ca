----------------------------- MODULE MCControl -----------------------------
(***************************************************************************)
(* TLC instance of two parts that open what outlives the call and have to  *)
(* give it back: the capture streams of the engine, and the plugin         *)
(* instances of the host.  They share no variable and no step here, so     *)
(* each behaviour lets one of them run while the other rests in one        *)
(* initial state; interleaving them would add nothing but states.          *)
(***************************************************************************)
EXTENDS CaptureDevice, PluginLoads

ControlVars == <<deviceVars, pluginVars>>

ControlInit == DeviceInit /\ PluginInit

DeviceRests == DeviceInit /\ project = NoDevice /\ UNCHANGED deviceVars
PluginRests == PluginInit /\ (\A i \in Slots : slot[i] = "fresh") /\ UNCHANGED pluginVars

ControlNext ==
  \/ PluginRests /\ DeviceNext
  \/ DeviceRests /\ PluginNext

ControlSpec ==
  ControlInit /\ [][ControlNext]_ControlVars /\ DeviceFairness /\ PluginFairness

\* The state of both parts has its type: threads, locks and streams; slots,
\* instances and pipes, of which a host that is gone has none.
ControlTypeOK == DeviceTypeOK /\ PluginTypeOK
=============================================================================
