---------------------------- MODULE ControlProofs ----------------------------
(***************************************************************************)
(* Proofs about what is opened and has to be given back: CaptureDevice, for*)
(* any number of loads and devices, and PluginLoads, for any slots, any    *)
(* number of undos, and pipes of any length.                               *)
(***************************************************************************)
EXTENDS MCControl, TLAPS

-----------------------------------------------------------------------------
(***************************************************************************)
(* CaptureDevice.                                                          *)
(***************************************************************************)

-----------------------------------------------------------------------------
(* Types, and the lock on the project.                                     *)

\* The steps with a snapshot locked.
Synchronizing == Touching \cup {"check", "editCheck", "synced"}

Typed ==
  /\ recLock \in Threads \cup {NoThread} /\ projLock \in Threads \cup {NoThread}
  /\ recording \in {"none", "tap", "own"}
  /\ project \in Wishes /\ live \in Wishes
  /\ own \in BOOLEAN /\ ring \in BOOLEAN /\ stale \in BOOLEAN
  /\ pc \in [Threads -> Steps] /\ want \in [Threads -> Wishes]
  /\ early \subseteq Threads

HoldsProject == \A th \in Threads : pc[th] \in Synchronizing => projLock = th

LEMMA TypeOKParts == DeviceTypeOK <=> Typed /\ HoldsProject
BY DEF DeviceTypeOK, Typed, HoldsProject, Synchronizing

LEMMA TypedInit == DeviceInit => Typed
<1> SUFFICES ASSUME DeviceInit PROVE Typed
  OBVIOUS
<1>1. pc \in [Threads -> Steps] /\ want \in [Threads -> Wishes]
  BY DEF DeviceInit, Steps, Wishes
<1>2. project \in Wishes /\ live \in Wishes
  BY DEF DeviceInit
<1>3. ring \in BOOLEAN
  BY DEF DeviceInit
<1> QED  BY <1>1, <1>2, <1>3 DEF DeviceInit, Typed

\* Where a thread goes, the others stay.
LEMMA Gone ==
  ASSUME Typed, NEW th \in Threads, NEW step \in Steps, Goto(th, step)
  PROVE  /\ pc' \in [Threads -> Steps] /\ pc'[th] = step
         /\ \A other \in Threads \ {th} : pc'[other] = pc[other]
BY DEF Typed, Goto

\* A step of one thread keeps the lock on the project where it has to be.
LEMMA HoldsKept ==
  ASSUME Typed, HoldsProject, NEW th \in Threads, NEW step \in Steps, Goto(th, step),
         \/ projLock' = projLock /\ (step \in Synchronizing => pc[th] \in Synchronizing)
         \/ projLock \in {NoThread, th} /\ projLock' = th
         \/ projLock = th /\ step \notin Synchronizing
  PROVE  HoldsProject'
<1>1. pc'[th] = step /\ \A other \in Threads \ {th} : pc'[other] = pc[other]
  BY Gone
<1>2. \A other \in Threads : pc[other] \in Synchronizing => projLock = other
  BY DEF HoldsProject
<1> QED  BY <1>1, <1>2, CaptureDeviceAssumption DEF HoldsProject

TypeInv == Typed /\ HoldsProject

LEMMA SyncTyped ==
  ASSUME TypeInv, NEW th \in Threads, Sync(th)
  PROVE  TypeInv'
<1> USE DEF TypeInv
<1>1. CASE SyncCheck(th)
  <2>1. PICK step \in {"route", "synced"} : Goto(th, step) /\ UNCHANGED <<locks, capture, want, early, stale>>
    BY <1>1 DEF SyncCheck
  <2>2. pc[th] \in Synchronizing
    BY <1>1 DEF SyncCheck, At, Synchronizing
  <2>3. Typed'
    BY <2>1, Gone DEF Typed, Steps, locks, capture
  <2> QED  BY <2>1, <2>2, <2>3, HoldsKept DEF Synchronizing, Steps, locks
<1>2. CASE SyncRoute(th)
  <2>1. PICK step \in {"unwanted", "synced", "close"} :
          Goto(th, step) /\ stale' \in BOOLEAN /\ UNCHANGED <<locks, capture, want, early>>
    BY <1>2 DEF SyncRoute, Typed
  <2>2. pc[th] \in Synchronizing
    BY <1>2 DEF SyncRoute, At, Synchronizing, Touching
  <2>3. Typed'
    BY <2>1, Gone DEF Typed, Steps, locks, capture
  <2> QED  BY <2>1, <2>2, <2>3, HoldsKept DEF Synchronizing, Steps, locks
<1>3. CASE SyncUnwanted(th) \/ SyncClose(th) \/ SyncOpen(th) \/ SyncPublish(th)
  <2>1. PICK step \in {"synced", "open", "publish"} : Goto(th, step)
    BY <1>3 DEF SyncUnwanted, SyncClose, SyncOpen, SyncPublish
  <2>2. /\ UNCHANGED <<locks, recording, project, own, want, early>>
        /\ live' \in Wishes /\ ring' \in BOOLEAN /\ stale' \in BOOLEAN
    BY <1>3 DEF SyncUnwanted, SyncClose, SyncOpen, SyncPublish, StopLive, Typed, Wishes
  <2>3. pc[th] \in Synchronizing
    BY <1>3 DEF SyncUnwanted, SyncClose, SyncOpen, SyncPublish, At, Synchronizing, Touching
  <2>4. Typed'
    BY <2>1, <2>2, Gone DEF Typed, Steps, locks
  <2> QED  BY <2>1, <2>2, <2>3, <2>4, HoldsKept DEF Steps, locks
<1>4. CASE SyncReturn(th)
  <2>1. projLock = th /\ Goto(th, "idle")
    BY <1>4 DEF SyncReturn, At, HoldsProject, Synchronizing
  <2>2. Typed'
    BY <1>4, <2>1, Gone DEF SyncReturn, Typed, Steps, Wishes
  <2> QED  BY <2>1, <2>2, HoldsKept DEF Synchronizing, Touching, Steps
<1> QED  BY <1>1, <1>2, <1>3, <1>4 DEF Sync

LEMMA LockTyped ==
  ASSUME TypeInv, NEW th \in Threads, LockProject(th)
  PROVE  TypeInv'
<1>1. Goto(th, "check") /\ projLock = NoThread /\ projLock' = th
  BY DEF LockProject, HolderOver
<1>2. want' \in [Threads -> Wishes]
  BY DEF LockProject, TypeInv, Typed
<1>3. Typed'
  BY <1>1, <1>2, Gone DEF LockProject, TypeInv, Typed, Steps, capture
<1> QED  BY <1>1, <1>3, HoldsKept DEF TypeInv, Steps

LEMMA LoadTyped ==
  ASSUME TypeInv, NEW th \in Loaders, LoadProject(th)
  PROVE  TypeInv'
<1>1. th \in Threads /\ Goto(th, "lockProject") /\ UNCHANGED <<locks, capture, early, stale>>
  BY DEF LoadProject, Threads
<1>2. want' \in [Threads -> Wishes]
  BY <1>1 DEF LoadProject, TypeInv, Typed
<1>3. Typed'
  BY <1>1, <1>2, Gone DEF TypeInv, Typed, Steps, locks, capture
<1> QED  BY <1>1, <1>3, HoldsKept DEF TypeInv, Steps, Synchronizing, Touching, locks

\* What the UI thread does outside of a sync.
UiStep ==
  \/ EditLocked \/ StartLock \/ StartTap \/ InstallTap \/ StartOwnStream \/ OpenOwnStream
  \/ TakeSession \/ ReleaseRing \/ ReleaseStream \/ Finalize
  \/ EditRoute \/ OpenDevice \/ BeginStart \/ BeginStop

\* All but the locking of an edit leave the project and its lock alone, and the
\* snapshots too.
LEMMA UiQuiet ==
  ASSUME TypeInv, UiStep, ~EditLocked
  PROVE  /\ UNCHANGED <<projLock, project, want>>
         /\ \/ pc' = pc
            \/ \E step \in Steps \ Synchronizing : Goto(Ui, step)
BY DEF UiStep, StartLock, StartTap, InstallTap, StartOwnStream, OpenOwnStream, TakeBegins,
       TakeSession, ReleaseRing, ReleaseStream, Finalize, AfterFinalize, EditRoute, OpenDevice,
       BeginStart, BeginStop, locks, capture, Steps, Synchronizing, Touching

LEMMA UiValues ==
  ASSUME TypeInv, UiStep, ~EditLocked
  PROVE  /\ recLock' \in Threads \cup {NoThread} /\ recording' \in {"none", "tap", "own"}
         /\ live' \in Wishes /\ early' \subseteq Threads
         /\ own' \in BOOLEAN /\ ring' \in BOOLEAN /\ stale' \in BOOLEAN
<1> USE DEF TypeInv, Typed, locks, capture, Threads
<1>1. CASE StartLock \/ EditRoute \/ BeginStart \/ BeginStop
  BY <1>1 DEF StartLock, EditRoute, BeginStart, BeginStop
<1>2. CASE StartTap \/ InstallTap
  BY <1>2 DEF StartTap, InstallTap, TakeBegins
<1>3. CASE StartOwnStream \/ OpenDevice
  BY <1>3 DEF StartOwnStream, OpenDevice, StopLive, Wishes
<1>4. CASE OpenOwnStream
  BY <1>4 DEF OpenOwnStream, TakeBegins, AfterFailedOpen
<1>5. CASE TakeSession \/ ReleaseRing \/ ReleaseStream \/ Finalize
  BY <1>5 DEF TakeSession, ReleaseRing, ReleaseStream, Finalize
<1> QED  BY <1>1, <1>2, <1>3, <1>4, <1>5 DEF UiStep

LEMMA UiTyped ==
  ASSUME TypeInv, UiStep
  PROVE  TypeInv'
<1>1. Ui \in Threads
  BY DEF Threads
<1>2. CASE EditLocked
  <2>1. Goto(Ui, "editCheck") /\ projLock = NoThread /\ projLock' = Ui
    BY <1>2 DEF EditLocked
  <2>2. project' \in Wishes /\ want' \in [Threads -> Wishes]
    BY <1>2 DEF EditLocked, TypeInv, Typed
  <2>3. Typed'
    BY <1>1, <1>2, <2>1, <2>2, Gone DEF EditLocked, TypeInv, Typed, Steps
  <2> QED  BY <1>1, <2>1, <2>3, HoldsKept DEF TypeInv, Steps
<1>3. CASE ~EditLocked
  <2>1. CASE pc' = pc
    BY <1>3, <2>1, UiQuiet, UiValues DEF TypeInv, Typed, HoldsProject
  <2>2. ASSUME NEW step \in Steps \ Synchronizing, Goto(Ui, step) PROVE TypeInv'
    <3>1. Typed'
      BY <1>1, <1>3, <2>2, UiQuiet, UiValues, Gone DEF TypeInv, Typed
    <3> QED  BY <1>1, <1>3, <2>2, <3>1, UiQuiet, HoldsKept DEF TypeInv
  <2> QED  BY <1>3, <2>1, <2>2, UiQuiet
<1> QED  BY <1>2, <1>3

\* The steps of the system, by who takes them.
LEMMA Actors ==
  ASSUME DeviceNext
  PROVE  \/ \E th \in Threads : LockProject(th) \/ Sync(th)
         \/ \E th \in Loaders : LoadProject(th)
         \/ UiStep
BY DEF DeviceNext, Step, UiStep

LEMMA TypeInvNext == TypeInv /\ [DeviceNext]_deviceVars => TypeInv'
<1>1. TypeInv /\ UNCHANGED deviceVars => TypeInv'
  BY DEF TypeInv, Typed, HoldsProject, deviceVars, locks, capture
<1>2. TypeInv /\ DeviceNext => TypeInv'
  BY Actors, SyncTyped, LockTyped, LoadTyped, UiTyped
<1> QED  BY <1>1, <1>2

LEMMA TypeInvInit == DeviceInit => TypeInv
BY TypedInit DEF DeviceInit, TypeInv, HoldsProject, Synchronizing, Touching

\* Every variable has its type, and whoever is in a sync or on its way out of
\* one holds the project (engine.rs, the guard over sync_live_input_stream).
THEOREM DeviceTyped == DeviceSpec => []DeviceTypeOK
<1>1. TypeInv => DeviceTypeOK
  BY TypeOKParts DEF TypeInv
<1> QED  BY <1>1, TypeInvInit, TypeInvNext, PTL DEF DeviceSpec

-----------------------------------------------------------------------------
(* A sync that comes late keeps off the stream.                            *)

LEMMA LateSyncs ==
  ASSUME TypeInv, LateSyncLeavesTakeAlone, NEW th \in Threads, LockProject(th) \/ Sync(th)
  PROVE  LateSyncLeavesTakeAlone'
<1> USE DEF LateSyncLeavesTakeAlone, TypeInv
<1>1. recording' = recording /\ (recording # "none" => ~MayTouch)
  BY DEF LockProject, Sync, SyncCheck, SyncRoute, SyncUnwanted, SyncClose, SyncOpen, SyncPublish,
         SyncReturn, StopLive, capture, MayTouch
<1>2. CASE SyncCheck(th)
  BY <1>2, <1>1, Gone DEF SyncCheck, Steps, Touching
<1>3. CASE SyncRoute(th) \/ SyncUnwanted(th) \/ SyncClose(th) \/ SyncOpen(th) \/ SyncPublish(th)
  <2>1. early' = early /\ pc[th] \in Touching
    BY <1>3 DEF SyncRoute, SyncUnwanted, SyncClose, SyncOpen, SyncPublish, At, Touching
  <2>2. PICK step \in Steps : Goto(th, step)
    BY <1>3 DEF SyncRoute, SyncUnwanted, SyncClose, SyncOpen, SyncPublish, Steps
  <2> QED  BY <1>1, <1>3, <2>1, <2>2, Gone DEF Sync
<1>4. CASE SyncReturn(th)
  BY <1>1, <1>4, Gone DEF SyncReturn, Steps, Touching
<1>5. CASE LockProject(th)
  BY <1>1, <1>5, Gone DEF LockProject, Steps, Touching
<1> QED  BY <1>2, <1>3, <1>4, <1>5 DEF Sync

LEMMA LateUi ==
  ASSUME TypeInv, LateSyncLeavesTakeAlone, UiStep
  PROVE  LateSyncLeavesTakeAlone'
<1> USE DEF LateSyncLeavesTakeAlone, TypeInv
<1>1. Ui \in Threads
  BY DEF Threads
<1>2. CASE InstallTap \/ OpenOwnStream
  BY <1>1, <1>2, Gone DEF InstallTap, OpenOwnStream, TakeBegins, Steps, Touching
<1>3. CASE TakeSession
  BY <1>3 DEF TakeSession
<1>4. CASE EditLocked
  BY <1>1, <1>4, Gone DEF EditLocked, Steps, Touching
<1>5. ASSUME UiStep, ~EditLocked, ~(InstallTap \/ OpenOwnStream \/ TakeSession)
      PROVE  LateSyncLeavesTakeAlone'
  <2>1. recording' = recording /\ early' = early
    BY <1>5 DEF UiStep, StartLock, StartTap, StartOwnStream, ReleaseRing, ReleaseStream,
                Finalize, EditRoute, OpenDevice, BeginStart, BeginStop, capture
  <2> QED  BY <1>1, <1>5, <2>1, UiQuiet, Gone DEF Synchronizing
<1> QED  BY <1>2, <1>3, <1>4, <1>5

\* However many loads run, a sync that asks after a take began touches no
\* stream until the take is over (engine.rs, live_input_sync_may_touch_stream).
THEOREM LateSyncsKeepOff == DeviceSpec => []LateSyncLeavesTakeAlone
<1>1. DeviceInit => LateSyncLeavesTakeAlone
  BY DEF DeviceInit, LateSyncLeavesTakeAlone
<1>2. TypeInv /\ LateSyncLeavesTakeAlone /\ [DeviceNext]_deviceVars => LateSyncLeavesTakeAlone'
  <2> SUFFICES ASSUME TypeInv, LateSyncLeavesTakeAlone, [DeviceNext]_deviceVars
               PROVE  LateSyncLeavesTakeAlone'
    OBVIOUS
  <2>1. CASE UNCHANGED deviceVars
    BY <2>1 DEF LateSyncLeavesTakeAlone, deviceVars, capture
  <2>2. ASSUME NEW th \in Loaders, LoadProject(th) PROVE LateSyncLeavesTakeAlone'
    BY <2>2, Gone DEF LoadProject, LateSyncLeavesTakeAlone, TypeInv, Threads, Steps, Touching, capture
  <2> QED  BY <2>1, <2>2, Actors, LateSyncs, LateUi
<1> QED  BY <1>1, <1>2, TypeInvInit, TypeInvNext, PTL DEF DeviceSpec

-----------------------------------------------------------------------------
(* The live stream is the project's.                                       *)

\* The UI thread will lock the project and sync, or give up and say so.
UiMends == pc[Ui] \in {"ownOpen", "releaseRing", "releaseStream", "finalize", "lockProject"}

SyncUnderWay == \E th \in Threads : pc[th] \in Synchronizing \ {"synced"}

\* A sync is over and its caller has yet to store the snapshot.
SyncDone == \E th \in Threads : At(th, "synced") /\ live = want[th]

NobodyDone == \A th \in Threads : ~At(th, "synced")

\* Whenever the stream is not the project's, somebody is there to mend it.
Mended ==
  recording = "none" /\ ~stale =>
    UiMends \/ SyncUnderWay \/ SyncDone \/ (NobodyDone /\ live = project)

\* The snapshot a thread syncs to is the one it was given.
Snapshots ==
  /\ pc[Ui] \in Synchronizing => want[Ui] = project
  /\ \A th \in Threads : At(th, "unwanted") => want[th] = NoDevice

DeviceInv == TypeInv /\ Snapshots /\ Mended

LEMMA MendedSuffices == DeviceInv => LiveMatchesProject
BY DEF DeviceInv, Mended, UiMends, SyncUnderWay, SyncDone, Synchronizing, Touching,
       LiveMatchesProject, At, Threads

LEMMA DeviceInvInit == DeviceInit => DeviceInv
BY TypeInvInit DEF DeviceInit, DeviceInv, Snapshots, Mended, NobodyDone, At, Synchronizing,
                   Touching, Threads

\* Only one thread is in a sync.
LEMMA OneSync ==
  ASSUME TypeInv, NEW th \in Threads, pc[th] \in Synchronizing
  PROVE  \A other \in Threads \ {th} : pc[other] \notin Synchronizing
BY DEF TypeInv, HoldsProject

LEMMA SnapshotsNext ==
  ASSUME DeviceInv, DeviceNext, TypeInv'
  PROVE  Snapshots'
<1> USE DEF DeviceInv, TypeInv, Snapshots, At
<1>1. Ui \in Threads /\ Ui \notin Loaders
  BY CaptureDeviceAssumption DEF Threads
<1>2. ASSUME NEW th \in Threads, LockProject(th) PROVE Snapshots'
  BY <1>1, <1>2, Gone DEF LockProject, capture, Typed, Threads, Steps, Synchronizing, Touching
<1>3. ASSUME NEW th \in Threads, SyncReturn(th) PROVE Snapshots'
  <2>1. pc'[th] = "idle" /\ \A other \in Threads \ {th} : pc'[other] = pc[other]
    BY <1>3, Gone DEF SyncReturn, Steps
  <2>2. \A other \in Threads \ {th} : pc[other] \notin Synchronizing
    BY <1>3, OneSync DEF SyncReturn, Synchronizing
  <2> QED  BY <1>1, <2>1, <2>2 DEF Synchronizing, Touching
<1>4. ASSUME NEW th \in Threads, Sync(th), ~SyncReturn(th) PROVE Snapshots'
  <2>1. project' = project /\ want' = want /\ pc[th] \in Synchronizing
    BY <1>4 DEF Sync, SyncCheck, SyncRoute, SyncUnwanted, SyncClose, SyncOpen, SyncPublish, capture,
                Synchronizing, Touching
  <2>2. PICK step \in Steps : Goto(th, step) /\ (step = "unwanted" => want[th] = NoDevice)
    BY <1>4 DEF Sync, SyncCheck, SyncRoute, SyncUnwanted, SyncClose, SyncOpen, SyncPublish, Steps
  <2> QED  BY <1>1, <2>1, <2>2, Gone
<1>5. ASSUME NEW th \in Loaders, LoadProject(th) PROVE Snapshots'
  BY <1>1, <1>5, Gone DEF LoadProject, capture, Typed, Threads, Steps, Synchronizing, Touching
<1>6. CASE UiStep
  <2>1. CASE EditLocked
    BY <1>1, <2>1, Gone DEF EditLocked, Typed, Steps
  <2>2. CASE ~EditLocked
    BY <1>1, <1>6, <2>2, UiQuiet, Gone DEF Synchronizing, Touching
  <2> QED  BY <2>1, <2>2
<1> QED  BY <1>2, <1>3, <1>4, <1>5, <1>6, Actors

LEMMA MendedSync ==
  ASSUME DeviceInv, NEW th \in Threads, Sync(th)
  PROVE  Mended'
<1> USE DEF DeviceInv, TypeInv, At
<1> SUFFICES ASSUME recording' = "none", ~stale'
             PROVE  (UiMends \/ SyncUnderWay \/ SyncDone \/ (NobodyDone /\ live = project))'
  BY DEF Mended
<1>1. recording = "none"
  BY DEF Sync, SyncCheck, SyncRoute, SyncUnwanted, SyncClose, SyncOpen, SyncPublish, SyncReturn,
         StopLive, capture
<1>2. CASE SyncReturn(th)
  <2>1. pc'[th] = "idle" /\ \A other \in Threads \ {th} : pc'[other] = pc[other]
    BY <1>2, Gone DEF SyncReturn, Steps
  <2>2. \A other \in Threads \ {th} : pc[other] \notin Synchronizing
    BY <1>2, OneSync DEF SyncReturn, Synchronizing
  <2>3. NobodyDone' /\ ~SyncUnderWay /\ ~NobodyDone
    BY <1>2, <2>1, <2>2 DEF SyncReturn, NobodyDone, SyncUnderWay, Synchronizing
  <2>4. CASE UiMends
    BY <1>2, <2>1, <2>4 DEF SyncReturn, UiMends, Threads
  <2>5. CASE SyncDone
    <3>1. live = want[th]
      BY <2>2, <2>5 DEF SyncDone, Synchronizing
    <3>2. th \in Loaders \/ want[th] = project
      BY <1>2 DEF SyncReturn, Snapshots, Synchronizing, Threads
    <3> QED  BY <1>2, <2>3, <3>1, <3>2 DEF SyncReturn
  <2> QED  BY <1>1, <1>2, <2>3, <2>4, <2>5 DEF Mended, SyncReturn
<1>3. CASE ~SyncReturn(th)
  <2>1. PICK step \in Synchronizing : Goto(th, step) /\ (step = "synced" => live' = want'[th])
    <3> USE DEF Synchronizing, Touching
    <3>1. CASE SyncCheck(th)
      BY <1>1, <3>1 DEF SyncCheck, MayTouch
    <3>2. CASE SyncRoute(th)
      BY <3>2 DEF SyncRoute, capture
    <3>3. CASE SyncUnwanted(th)
      BY <3>3 DEF SyncUnwanted, StopLive, Snapshots
    <3>4. CASE SyncClose(th)
      BY <3>4 DEF SyncClose
    <3>5. CASE SyncOpen(th)
      BY <3>5 DEF SyncOpen
    <3>6. CASE SyncPublish(th)
      BY <3>6 DEF SyncPublish
    <3> QED  BY <1>3, <3>1, <3>2, <3>3, <3>4, <3>5, <3>6 DEF Sync
  <2>2. pc'[th] = step
    BY <2>1, Gone DEF Synchronizing, Touching, Steps
  <2> QED  BY <2>1, <2>2 DEF SyncUnderWay, SyncDone
<1> QED  BY <1>2, <1>3

LEMMA MendedUi ==
  ASSUME DeviceInv, UiStep
  PROVE  Mended'
<1> USE DEF DeviceInv, TypeInv, At
<1>1. Ui \in Threads
  BY DEF Threads
<1>2. CASE EditLocked
  <2>1. pc'[Ui] = "editCheck"
    BY <1>1, <1>2, Gone DEF EditLocked, Steps
  <2> QED  BY <1>1, <2>1 DEF Mended, SyncUnderWay, Synchronizing
<1>3. CASE OpenDevice
  BY <1>3 DEF OpenDevice, Mended
<1>4. CASE StartOwnStream
  <2>1. pc'[Ui] = "ownOpen"
    BY <1>1, <1>4, Gone DEF StartOwnStream, Steps
  <2> QED  BY <2>1 DEF Mended, UiMends
<1>5. CASE OpenOwnStream
  <2>1. recording' = "own" \/ pc'[Ui] = "lockProject"
    BY <1>1, <1>5, Gone DEF OpenOwnStream, TakeBegins, Steps
  <2> QED  BY <2>1 DEF Mended, UiMends
<1>6. CASE Finalize
  <2>1. stale' \/ pc'[Ui] = "lockProject"
    BY <1>1, <1>6, Gone DEF Finalize, AfterFinalize, Steps
  <2> QED  BY <2>1 DEF Mended, UiMends
<1>7. CASE ReleaseRing \/ ReleaseStream
  <2>1. pc'[Ui] \in {"releaseStream", "finalize"}
    BY <1>1, <1>7, Gone DEF ReleaseRing, ReleaseStream, Steps
  <2> QED  BY <2>1 DEF Mended, UiMends
<1>8. CASE TakeSession /\ recording # "none"
  <2>1. pc'[Ui] \in {"releaseRing", "finalize"}
    BY <1>1, <1>8, Gone DEF TakeSession, Steps
  <2> QED  BY <2>1 DEF Mended, UiMends
<1>9. ASSUME UiStep, ~EditLocked, ~OpenDevice, ~StartOwnStream, ~OpenOwnStream, ~Finalize,
             ~ReleaseRing, ~ReleaseStream, ~(TakeSession /\ recording # "none"),
             recording' = "none", ~stale'
      PROVE  (UiMends \/ SyncUnderWay \/ SyncDone \/ (NobodyDone /\ live = project))'
  <2>1. /\ live' = live /\ want' = want /\ project' = project
        /\ pc[Ui] \in {"idle", "startLock", "tap", "install", "takeSession"}
        /\ recording = "none" /\ ~stale
    BY <1>9, UiQuiet DEF UiStep, StartLock, StartTap, InstallTap, TakeBegins, TakeSession,
                         EditRoute, BeginStart, BeginStop, capture
  <2>2. \/ pc' = pc
        \/ \E step \in Steps \ Synchronizing : Goto(Ui, step)
    BY <1>9, UiQuiet
  <2>3. pc'[Ui] \notin Synchronizing /\ \A other \in Threads \ {Ui} : pc'[other] = pc[other]
    BY <1>1, <2>1, <2>2, Gone DEF Synchronizing, Touching
  <2>4. SyncUnderWay' = SyncUnderWay /\ SyncDone' = SyncDone /\ NobodyDone' = NobodyDone
    BY <1>1, <2>1, <2>3 DEF SyncUnderWay, SyncDone, NobodyDone, Synchronizing, Touching
  <2>5. ~UiMends
    BY <2>1 DEF UiMends
  <2> QED  BY <2>1, <2>4, <2>5 DEF Mended
<1> QED  BY <1>2, <1>3, <1>4, <1>5, <1>6, <1>7, <1>8, <1>9 DEF Mended

\* Whatever loads, edits and takes were under way, once they are over the
\* live stream is the one the stored project wants, or the last attempt to
\* bring it there is known to have failed (engine.rs, stop_recording).
THEOREM LiveFollowsProject == DeviceSpec => []LiveMatchesProject
<1>1. DeviceInv /\ [DeviceNext]_deviceVars => DeviceInv'
  <2> SUFFICES ASSUME DeviceInv, [DeviceNext]_deviceVars PROVE DeviceInv'
    OBVIOUS
  <2>1. TypeInv'
    BY TypeInvNext DEF DeviceInv
  <2>2. CASE UNCHANGED deviceVars
    BY <2>1, <2>2 DEF DeviceInv, Snapshots, Mended, UiMends, SyncUnderWay, SyncDone, NobodyDone,
                      At, deviceVars, capture
  <2>3. CASE DeviceNext
    <3>1. ASSUME NEW th \in Threads, LockProject(th) PROVE Mended'
      BY <3>1, Gone DEF LockProject, DeviceInv, TypeInv, Steps, Mended, SyncUnderWay, Synchronizing
    <3>2. ASSUME NEW th \in Loaders, LoadProject(th) PROVE Mended'
      <4>1. /\ th \in Threads \ {Ui} /\ pc[th] = "idle" /\ pc'[th] = "lockProject"
            /\ \A other \in Threads \ {th} : pc'[other] = pc[other] /\ want'[other] = want[other]
        BY <3>2, Gone, CaptureDeviceAssumption
           DEF LoadProject, DeviceInv, TypeInv, Typed, Threads, Steps, At
      <4>2. /\ SyncUnderWay' = SyncUnderWay /\ NobodyDone' = NobodyDone /\ UiMends' = UiMends
            /\ live' = live /\ project' = project /\ recording' = recording /\ stale' = stale
        BY <3>2, <4>1 DEF LoadProject, SyncUnderWay, NobodyDone, UiMends, Synchronizing, Touching,
                          At, Threads, capture
      <4>3. SyncDone' = SyncDone
        BY <4>1, <4>2 DEF SyncDone, At
      <4> QED  BY <4>2, <4>3 DEF DeviceInv, Mended
    <3> QED  BY <2>1, <2>3, <3>1, <3>2, Actors, SnapshotsNext, MendedSync, MendedUi DEF DeviceInv
  <2> QED  BY <2>2, <2>3
<1> QED  BY <1>1, DeviceInvInit, MendedSuffices, PTL DEF DeviceSpec

-----------------------------------------------------------------------------
(***************************************************************************)
(* PluginLoads.                                                            *)
(***************************************************************************)

-----------------------------------------------------------------------------
(* Pipes.  What is queued in one, what is in it at most once, and what is  *)
(* never there without another message behind it.                          *)

Once(q, M) == \A j, k \in DOMAIN q : q[j] \in M /\ q[k] \in M => j = k

Followed(q, m, n) ==
  \A k \in DOMAIN q : q[k] = m => \E j \in DOMAIN q : k < j /\ q[j] = n

LEMMA EmptyPipe ==
  ASSUME NEW S
  PROVE  /\ <<>> \in Seq(S)
         /\ \A m : ~Queued(<<>>, m)
         /\ \A M : Once(<<>>, M)
         /\ \A m, n : Followed(<<>>, m, n)
BY DEF Queued, Once, Followed

\* Appending.
LEMMA Written ==
  ASSUME NEW S, NEW q \in Seq(S), NEW x \in S
  PROVE  /\ Append(q, x) \in Seq(S)
         /\ DOMAIN Append(q, x) = 1..(Len(q) + 1) /\ DOMAIN q = 1..Len(q) /\ Len(q) \in Nat
         /\ \A k \in 1..Len(q) : Append(q, x)[k] = q[k]
         /\ Append(q, x)[Len(q) + 1] = x
OBVIOUS

LEMMA WrittenQueued ==
  ASSUME NEW S, NEW q \in Seq(S), NEW x \in S, NEW m
  PROVE  Queued(Append(q, x), m) <=> Queued(q, m) \/ x = m
<1>1. Queued(q, m) => Queued(Append(q, x), m)
  BY Written DEF Queued
<1>2. x = m => Queued(Append(q, x), m)
  BY Written DEF Queued
<1>3. Queued(Append(q, x), m) => Queued(q, m) \/ x = m
  BY Written DEF Queued
<1> QED
  BY <1>1, <1>2, <1>3

LEMMA WrittenOnce ==
  ASSUME NEW S, NEW q \in Seq(S), NEW x \in S, NEW M, Once(q, M),
         x \notin M \/ \A m \in M : ~Queued(q, m)
  PROVE  Once(Append(q, x), M)
BY Written DEF Queued, Once

LEMMA WrittenFollowed ==
  ASSUME NEW S, NEW q \in Seq(S), NEW x \in S, NEW m, NEW n, m # n,
         (Followed(q, m, n) /\ x # m) \/ x = n
  PROVE  Followed(Append(q, x), m, n)
BY Written DEF Followed

\* Reading.
LEMMA ReadPipe ==
  ASSUME NEW S, NEW q \in Seq(S), q # <<>>
  PROVE  /\ Tail(q) \in Seq(S) /\ Head(q) \in S /\ Head(q) = q[1]
         /\ DOMAIN Tail(q) = 1..(Len(q) - 1) /\ DOMAIN q = 1..Len(q)
         /\ Len(q) \in Nat \ {0}
         /\ \A k \in 1..(Len(q) - 1) : Tail(q)[k] = q[k + 1]
OBVIOUS

LEMMA ReadQueued ==
  ASSUME NEW S, NEW q \in Seq(S), q # <<>>
  PROVE  /\ Queued(q, Head(q))
         /\ \A m : Queued(Tail(q), m) => Queued(q, m)
         /\ \A m : m # Head(q) /\ Queued(q, m) => Queued(Tail(q), m)
<1>1. Queued(q, Head(q))
  BY ReadPipe DEF Queued
<1>2. ASSUME NEW m, Queued(Tail(q), m) PROVE Queued(q, m)
  BY <1>2, ReadPipe DEF Queued
<1>3. ASSUME NEW m, m # Head(q), Queued(q, m) PROVE Queued(Tail(q), m)
  <2>1. PICK k \in 1..Len(q) : q[k] = m
    BY <1>3, ReadPipe DEF Queued
  <2>2. k - 1 \in 1..(Len(q) - 1) /\ Tail(q)[k - 1] = m
    <3>1. k # 1
      BY <1>3, <2>1, ReadPipe
    <3>2. k - 1 \in 1..(Len(q) - 1) /\ (k - 1) + 1 = k
      BY <2>1, <3>1, ReadPipe
    <3> QED
      BY <2>1, <3>2, ReadPipe
  <2> QED
    BY <2>2, ReadPipe DEF Queued
<1> QED
  BY <1>1, <1>2, <1>3

LEMMA ReadOnce ==
  ASSUME NEW S, NEW q \in Seq(S), q # <<>>, NEW M, Once(q, M)
  PROVE  /\ Once(Tail(q), M)
         /\ Head(q) \in M => \A m \in M : ~Queued(Tail(q), m)
<1>1. \A k \in 1..(Len(q) - 1) : k + 1 \in 1..Len(q) /\ k + 1 # 1
  BY ReadPipe
<1>2. Once(Tail(q), M)
  BY <1>1, ReadPipe DEF Once
<1>3. ASSUME Head(q) \in M, NEW m \in M, Queued(Tail(q), m) PROVE FALSE
  BY <1>1, <1>3, ReadPipe DEF Once, Queued
<1> QED
  BY <1>2, <1>3

LEMMA ReadFollowed ==
  ASSUME NEW S, NEW q \in Seq(S), q # <<>>, NEW m, NEW n, Followed(q, m, n)
  PROVE  /\ Followed(Tail(q), m, n)
         /\ Head(q) = m => Queued(Tail(q), n)
<1>1. ASSUME NEW k \in 1..(Len(q) - 1), Tail(q)[k] = m
      PROVE  \E j \in 1..(Len(q) - 1) : k < j /\ Tail(q)[j] = n
  <2>1. k + 1 \in 1..Len(q) /\ q[k + 1] = m
    BY <1>1, ReadPipe
  <2>2. PICK j \in 1..Len(q) : k + 1 < j /\ q[j] = n
    BY <2>1, ReadPipe DEF Followed
  <2>3. j - 1 \in 1..(Len(q) - 1) /\ k < j - 1 /\ (j - 1) + 1 = j
    BY <2>2, ReadPipe
  <2> QED
    BY <2>2, <2>3, ReadPipe
<1>2. ASSUME Head(q) = m PROVE Queued(Tail(q), n)
  <2>1. PICK j \in 1..Len(q) : 1 < j /\ q[j] = n
    BY <1>2, ReadPipe DEF Followed
  <2>2. j - 1 \in 1..(Len(q) - 1) /\ (j - 1) + 1 = j
    BY <2>1, ReadPipe
  <2> QED
    BY <2>1, <2>2, ReadPipe DEF Queued
<1> QED
  BY <1>1, <1>2, ReadPipe DEF Followed

-----------------------------------------------------------------------------
(* The inductive invariant.                                                *)

Commands   == {"load", "unload"} \X Slots
Happenings == ({"loaded", "failed"} \X Slots) \cup {<<"gone", NoSlot>>}
Deleted    == [id : Slots, was : Live]

PluginTypes ==
  /\ PluginTypeOK
  /\ {regions, hosted, adrift, leftover} \subseteq SUBSET Slots /\ turns \in Nat
  /\ engine \/ sinks = {}
  /\ cmds \in Seq(Commands) /\ events \in Seq(Happenings)
  /\ undos \in Seq(Deleted) /\ redos \in Seq(Deleted)

Load(i)       == <<"load", i>>
Unload(i)     == <<"unload", i>>
DidLoad(i)    == <<"loaded", i>>
DidNotLoad(i) == <<"failed", i>>

Asked(i)    == slot[i] \in {"Loading", "Ready"}
Answered(i) == Queued(events, DidLoad(i)) \/ Queued(events, DidNotLoad(i))

\* The runtime knows of the instances that their slots wait for or show.
KnownTo(i) ==
  loaded[i] = IF slot[i] = "Loading" THEN "asked"
              ELSE IF slot[i] = "Ready" THEN "confirmed" ELSE "no"

\* Those that got their region have their sink when there is an engine; a
\* region outlives only a load that failed, and a sink nothing.
Audible(i) ==
  /\ Asked(i) /\ i \in regions /\ engine => i \in sinks
  /\ i \in regions => Asked(i) \/ slot[i] = "Failed"
  /\ i \in sinks => i \in regions

\* Only of a slot that waits or is gone is a load, or its answer, on its way.
Settled(i) ==
  slot[i] \in {"fresh", "Unloaded", "Ready", "Failed"} =>
    ~Queued(cmds, Load(i)) /\ ~Answered(i)

\* A slot that waits has one load, or one answer; the host runs no instance
\* before the load, or after the answer that it failed.
UnderWay(i) ==
  slot[i] = "Loading" =>
    /\ Once(cmds, {Load(i)}) /\ Once(events, {DidLoad(i), DidNotLoad(i)})
    /\ Queued(cmds, Load(i)) => i \notin hosted /\ ~Answered(i)
    /\ Queued(events, DidNotLoad(i)) => i \notin hosted

\* The host runs what was asked for, until it comes to the unload; behind a
\* load whose slot is gone there is one.
Hosted(i) ==
  /\ i \in hosted => Asked(i) \/ Queued(cmds, Unload(i))
  /\ slot[i] # "gone" => ~Queued(cmds, Unload(i))
  /\ slot[i] = "gone" => Followed(cmds, Load(i), Unload(i))
  /\ Asked(i) => host # "none"
  /\ host = "up" /\ slot[i] = "Ready" => i \in hosted
  /\ host = "up" /\ slot[i] = "Loading" =>
       i \in hosted \/ Queued(cmds, Load(i)) \/ Queued(events, DidNotLoad(i))

Agreed(i) == KnownTo(i) /\ Audible(i) /\ Settled(i) /\ UnderWay(i) /\ Hosted(i)

PluginInv == PluginTypes /\ \A i \in Slots \ adrift : Agreed(i)

LEMMA InvSuffices == PluginInv => PluginTypeOK /\ InstancesAgree
<1> SUFFICES ASSUME PluginInv PROVE PluginTypeOK /\ InstancesAgree
  OBVIOUS
<1>1. PluginTypeOK
  BY DEF PluginInv, PluginTypes
<1>2. ASSUME NEW i \in Slots \ adrift
      PROVE  /\ slot[i] = "Ready" =>
                  loaded[i] = "confirmed" /\ (engine /\ i \in regions => i \in sinks)
             /\ (loaded[i] # "no" /\ host = "up") =>
                  \/ i \in hosted \/ Queued(cmds, <<"load", i>>)
                  \/ Queued(events, <<"failed", i>>)
             /\ i \in hosted => loaded[i] # "no" \/ Queued(cmds, <<"unload", i>>)
             /\ i \in sinks => i \in regions \cap InUse(slot)
  <2>1. Agreed(i)
    BY DEF PluginInv
  <2> QED
    BY <2>1 DEF Agreed, KnownTo, Audible, Hosted, Asked, InUse, Live, Load, Unload, DidNotLoad
<1> QED
  BY <1>1, <1>2 DEF InstancesAgree

LEMMA InvStarts == PluginInit => PluginInv
<1> SUFFICES ASSUME PluginInit PROVE PluginInv
  OBVIOUS
<1>1. PluginTypes
  BY EmptyPipe DEF PluginInit, PluginTypes, PluginTypeOK, Live
<1>2. ASSUME NEW i \in Slots PROVE Agreed(i)
  <2>1. slot[i] \in {"fresh", "Unloaded"} /\ loaded[i] = "no"
    BY DEF PluginInit
  <2> QED
    BY <2>1, EmptyPipe DEF PluginInit, Agreed, KnownTo, Audible, Settled, UnderWay, Hosted,
       Asked, Answered
<1> QED
  BY <1>1, <1>2 DEF PluginInv

-----------------------------------------------------------------------------
(* What a step leaves of a slot it is not about.                           *)

\* Slot, runtime, region and sink: a sink may come with its region.
Rests(j) ==
  /\ slot'[j] = slot[j] /\ loaded'[j] = loaded[j]
  /\ j \in regions' <=> j \in regions
  /\ engine' = engine
  /\ j \in sinks => j \in sinks'
  /\ j \in sinks' => j \in sinks \/ j \in regions

LEMMA RestsKeeps ==
  ASSUME NEW j, Rests(j), Agreed(j)
  PROVE  KnownTo(j)' /\ Audible(j)'
BY DEF Rests, Agreed, KnownTo, Audible, Asked

\* A command about another slot; the host comes up if there was none.
LEMMA CommandKeeps ==
  ASSUME NEW j \in Slots, PluginTypes, Agreed(j), slot'[j] = slot[j],
         NEW x \in Commands, x \notin {Load(j), Unload(j)}, cmds' = Append(cmds, x),
         hosted' = hosted, events' = events, host = "none" \/ host' = host,
         host' = "up"
  PROVE  Settled(j)' /\ UnderWay(j)' /\ Hosted(j)'
<1>1. cmds \in Seq(Commands)
  BY DEF PluginTypes
<1>2. /\ Queued(cmds', Load(j)) <=> Queued(cmds, Load(j))
      /\ Queued(cmds', Unload(j)) <=> Queued(cmds, Unload(j))
  BY <1>1, WrittenQueued
<1>3. Once(cmds, {Load(j)}) => Once(cmds', {Load(j)})
  BY <1>1, WrittenOnce
<1>4. Followed(cmds, Load(j), Unload(j)) => Followed(cmds', Load(j), Unload(j))
  BY <1>1, WrittenFollowed DEF Load, Unload
<1> QED
  BY <1>2, <1>3, <1>4 DEF Agreed, Settled, UnderWay, Hosted, Asked, Answered

\* The host goes down.
LEMMA DownKeeps ==
  ASSUME NEW j \in Slots, PluginTypes, Agreed(j), slot'[j] = slot[j],
         host' = "down", cmds' = <<>>, hosted' = {},
         events' = Append(events, <<"gone", NoSlot>>)
  PROVE  Settled(j)' /\ UnderWay(j)' /\ Hosted(j)'
<1>1. events \in Seq(Happenings) /\ <<"gone", NoSlot>> \in Happenings
  BY DEF PluginTypes, Happenings
<1>2. <<"gone", NoSlot>> \notin {DidLoad(j), DidNotLoad(j)}
  BY DEF DidLoad, DidNotLoad
<1>3. /\ Queued(events', DidLoad(j)) <=> Queued(events, DidLoad(j))
      /\ Queued(events', DidNotLoad(j)) <=> Queued(events, DidNotLoad(j))
  BY <1>1, <1>2, WrittenQueued
<1>4. Once(events, {DidLoad(j), DidNotLoad(j)}) => Once(events', {DidLoad(j), DidNotLoad(j)})
  BY <1>1, <1>2, WrittenOnce
<1>5. /\ ~Queued(cmds', Load(j)) /\ ~Queued(cmds', Unload(j))
      /\ Once(cmds', {Load(j)}) /\ Followed(cmds', Load(j), Unload(j))
  BY EmptyPipe
<1> QED
  BY <1>3, <1>4, <1>5 DEF Agreed, Settled, UnderWay, Hosted, Asked, Answered

\* The pipes are as they were.
LEMMA PipesKeep ==
  ASSUME NEW j \in Slots, Agreed(j), slot'[j] = slot[j], UNCHANGED hostVars
  PROVE  Settled(j)' /\ UnderWay(j)' /\ Hosted(j)'
BY DEF hostVars, Agreed, Settled, UnderWay, Hosted, Asked, Answered

LEMMA Commanded ==
  ASSUME NEW i \in Slots
  PROVE  /\ Load(i) \in Commands /\ Unload(i) \in Commands
         /\ DidLoad(i) \in Happenings /\ DidNotLoad(i) \in Happenings
         /\ <<"gone", NoSlot>> \in Happenings
BY DEF Load, Unload, DidLoad, DidNotLoad, Commands, Happenings

\* A sync of the sinks gives a slot that has a region its sink.
LEMMA InstalledFacts ==
  ASSUME PluginTypes, NEW reg \in SUBSET Slots, NEW f
  PROVE  /\ Installed(reg, f) \in SUBSET Slots
         /\ ~engine => Installed(reg, f) = {}
         /\ \A j : j \in sinks => j \in Installed(reg, f)
         /\ \A j : j \in Installed(reg, f) => j \in sinks \/ (j \in reg /\ f[j] \in Live)
         /\ \A j \in Slots : engine /\ j \in reg /\ f[j] \in Live => j \in Installed(reg, f)
BY DEF PluginTypes, PluginTypeOK, Installed, InUse

-----------------------------------------------------------------------------
(* The user's commands.                                                    *)

\* The slot is gone, and its unload is behind its load.
LEMMA TeardownKeeps ==
  ASSUME PluginInv, NEW i \in Slots, Teardown(i), slot' = [slot EXCEPT ![i] = "gone"],
         slot[i] \in Live \/ i \in adrift,
         NEW j \in Slots \ adrift
  PROVE  Agreed(j)'
<1>1. Agreed(j) /\ PluginTypes
  BY DEF PluginInv
<1>2. CASE j # i
  <2>1. Rests(j)
    BY <1>1, <1>2 DEF Rests, Teardown, PluginTypes, PluginTypeOK
  <2>2. CASE host = "up"
    <3>1. Unload(i) \in Commands /\ Unload(i) \notin {Load(j), Unload(j)}
      BY <1>2, Commanded DEF Load, Unload
    <3>2. cmds' = Append(cmds, Unload(i)) /\ hosted' = hosted /\ events' = events /\ host' = host
      BY <2>2 DEF Teardown, Sent, Unload
    <3> QED
      BY <1>1, <2>1, <2>2, <3>1, <3>2, RestsKeeps, CommandKeeps DEF Agreed, Rests
  <2>3. CASE host # "up"
    BY <1>1, <2>1, <2>3, RestsKeeps, PipesKeep DEF Teardown, Sent, hostVars, Agreed, Rests
  <2> QED
    BY <2>2, <2>3
<1>3. CASE j = i
  <2>1. /\ slot'[i] = "gone" /\ loaded'[i] = "no" /\ i \notin regions'
        /\ engine' = engine /\ hosted' = hosted
    BY <1>1 DEF Teardown, PluginTypes, PluginTypeOK
  <2>2. i \notin sinks'
    <3>1. i \in sinks => engine
      BY <1>1 DEF PluginTypes, PluginTypeOK
    <3> QED
      BY <3>1 DEF Teardown
  <2>3. /\ i \in hosted' => Queued(cmds', Unload(i))
        /\ Followed(cmds', Load(i), Unload(i))
    <3>1. CASE host = "up"
      <4>1. cmds' = Append(cmds, Unload(i)) /\ cmds \in Seq(Commands) /\ Unload(i) \in Commands
        BY <1>1, <3>1, Commanded DEF Teardown, Sent, Unload, PluginTypes
      <4>2. Load(i) # Unload(i)
        BY DEF Load, Unload
      <4> QED
        BY <4>1, <4>2, WrittenQueued, WrittenFollowed
    <3>2. CASE host # "up"
      BY <1>1, <2>1, <3>2, EmptyPipe DEF Teardown, Sent, PluginTypes, PluginTypeOK
    <3> QED
      BY <3>1, <3>2
  <2> QED
    BY <1>3, <2>1, <2>2, <2>3 DEF Agreed, KnownTo, Audible, Settled, UnderWay, Hosted, Asked
<1> QED
  BY <1>2, <1>3

LEMMA TeardownTypes ==
  ASSUME PluginTypes, NEW i \in Slots, Teardown(i)
  PROVE  /\ cmds' \in Seq(Commands) /\ events' \in Seq(Happenings)
         /\ loaded' \in [Slots -> {"no", "asked", "confirmed"}]
         /\ {regions', sinks', hosted', loading'} \subseteq SUBSET Slots
         /\ host' = host /\ engine' = engine /\ (engine' \/ sinks' = {})
         /\ (host' = "none") => (regions' = {} /\ hosted' = {} /\ cmds' = <<>>)
         /\ (host' # "up") => (hosted' = {} /\ cmds' = <<>>)
<1>1. cmds' \in Seq(Commands)
  BY Commanded, Written DEF Teardown, Sent, PluginTypes, Unload
<1>2. host # "up" => cmds' = cmds
  BY DEF Teardown, Sent
<1> QED
  BY <1>1, <1>2 DEF Teardown, PluginTypes, PluginTypeOK

LEMMA RemovePluginKeeps ==
  ASSUME PluginInv, NEW i \in Slots, RemovePlugin(i)
  PROVE  PluginInv'
<1>1. PluginTypes /\ slot[i] \in Live /\ Teardown(i) /\ slot' = [slot EXCEPT ![i] = "gone"]
      /\ UNCHANGED pastVars
  BY DEF PluginInv, RemovePlugin
<1>2. PluginTypes'
  BY <1>1, TeardownTypes DEF PluginTypes, PluginTypeOK, pastVars
<1>3. \A j \in Slots \ adrift' : Agreed(j)'
  BY <1>1, TeardownKeeps DEF pastVars
<1> QED
  BY <1>2, <1>3 DEF PluginInv

LEMMA DeleteTrackKeeps ==
  ASSUME PluginInv, NEW i \in Slots, DeleteTrack(i)
  PROVE  PluginInv'
<1>1. /\ PluginTypes /\ slot[i] \in Live /\ Teardown(i) /\ slot' = [slot EXCEPT ![i] = "gone"]
      /\ undos' = Append(undos, [id |-> i, was |-> slot[i]]) /\ redos' = <<>>
      /\ UNCHANGED <<turns, leftover, adrift>>
  BY DEF PluginInv, DeleteTrack
<1>2. undos' \in Seq(Deleted) /\ redos' \in Seq(Deleted)
  <2>1. [id |-> i, was |-> slot[i]] \in Deleted
    BY <1>1 DEF Deleted
  <2> QED
    BY <1>1, <2>1, Written, EmptyPipe DEF PluginTypes
<1>3. PluginTypes'
  BY <1>1, <1>2, TeardownTypes DEF PluginTypes, PluginTypeOK
<1>4. \A j \in Slots \ adrift' : Agreed(j)'
  BY <1>1, TeardownKeeps
<1> QED
  BY <1>3, <1>4 DEF PluginInv

\* Only of a slot that was dropped or brought back does an instance remain.
LEMMA EditorOrphanedKeeps ==
  ASSUME PluginInv, NEW i \in Slots, EditorOrphaned(i)
  PROVE  PluginInv'
<1>1. /\ PluginTypes /\ slot[i] = "gone" /\ loaded[i] # "no" /\ Teardown(i)
      /\ slot' = slot /\ UNCHANGED pastVars
  BY DEF PluginInv, EditorOrphaned
<1>2. i \in adrift
  BY <1>1 DEF PluginInv, Agreed, KnownTo
<1>3. slot' = [slot EXCEPT ![i] = "gone"]
  BY <1>1 DEF PluginTypes, PluginTypeOK
<1>4. PluginTypes'
  BY <1>1, TeardownTypes DEF PluginTypes, PluginTypeOK, pastVars
<1>5. \A j \in Slots \ adrift' : Agreed(j)'
  BY <1>1, <1>2, <1>3, TeardownKeeps DEF pastVars
<1> QED
  BY <1>4, <1>5 DEF PluginInv

\* A load is sent: slot, runtime, region and sink wait for its answer.
LEMMA LoadSentKeeps ==
  ASSUME PluginInv, NEW i \in Slots, LoadSent(i), slot[i] \in {"fresh", "Unloaded"},
         slot' = [slot EXCEPT ![i] = "Loading"], sinks' = Installed(regions', slot'),
         loading' \in SUBSET Slots, UNCHANGED <<engine, pastVars>>
  PROVE  PluginInv'
<1>1. /\ PluginTypes /\ host \in {"none", "up"} /\ host' = "up"
      /\ cmds' = Append(cmds, Load(i)) /\ hosted' = hosted /\ events' = events
      /\ loaded' = [loaded EXCEPT ![i] = "asked"] /\ regions' \in {regions, regions \cup {i}}
      /\ engine' = engine /\ adrift' = adrift
  BY DEF PluginInv, LoadSent, RegionTried, Load, pastVars
<1>2. /\ regions' \in SUBSET Slots /\ slot' \in [Slots -> Live \cup {"fresh", "gone"}]
      /\ slot'[i] = "Loading" /\ cmds' \in Seq(Commands) /\ Load(i) \in Commands
      /\ cmds \in Seq(Commands)
  BY <1>1, Commanded, Written DEF PluginTypes, PluginTypeOK, Live
<1>3. /\ sinks' \in SUBSET Slots
      /\ \A j : j \in sinks => j \in sinks'
      /\ \A j : j \in sinks' => j \in sinks \/ (j \in regions' /\ slot'[j] \in Live)
      /\ \A j \in Slots : engine /\ j \in regions' /\ slot'[j] \in Live => j \in sinks'
  <2>1. PluginTypes /\ regions' \in SUBSET Slots /\ sinks' = Installed(regions', slot')
    BY <1>1, <1>2
  <2> QED
    BY ONLY <2>1, InstalledFacts
<1>4. ~engine => sinks' = {}
  BY <1>1, <1>2, InstalledFacts
<1>5. engine' \in BOOLEAN /\ (engine' <=> engine)
  BY <1>1 DEF PluginTypes, PluginTypeOK
<1>6. PluginTypes'
  <2>1. engine' \/ sinks' = {}
    BY <1>4, <1>5
  <2>2. UNCHANGED pastVars
    OBVIOUS
  <2>3. PluginTypeOK'
    BY <1>1, <1>2, <1>3, <1>5 DEF PluginTypes, PluginTypeOK
  <2> QED
    BY <1>1, <1>2, <2>1, <2>2, <2>3 DEF PluginTypes, pastVars
<1>7. ASSUME NEW j \in Slots \ adrift PROVE Agreed(j)'
  <2>1. Agreed(j)
    BY DEF PluginInv
  <2>2. CASE j # i
    <3>1. Rests(j)
      BY <1>1, <1>3, <1>5, <2>2 DEF Rests, PluginTypes, PluginTypeOK
    <3>2. Load(i) \notin {Load(j), Unload(j)}
      BY <2>2 DEF Load, Unload
    <3>3. host = "none" \/ host' = host
      BY <1>1
    <3> QED
      BY <1>1, <1>2, <2>1, <3>1, <3>2, <3>3, RestsKeeps, CommandKeeps DEF Agreed, Rests
  <2>3. CASE j = i
    <3>1. /\ loaded'[i] = "asked" /\ (engine' /\ i \in regions' => i \in sinks')
      <4>1. loaded'[i] = "asked" /\ slot'[i] \in Live
        BY <1>1, <1>2 DEF PluginTypes, PluginTypeOK, Live
      <4>2. engine' /\ i \in regions' => i \in sinks'
        BY <1>3, <1>5, <4>1
      <4> QED
        BY <4>1, <4>2
    <3>2. /\ ~Queued(cmds, Load(i)) /\ ~Queued(cmds, Unload(i)) /\ ~Answered(i)
          /\ i \notin hosted
      BY <2>1, <2>3 DEF Agreed, Settled, Hosted, Asked
    <3>3. /\ Queued(cmds', Load(i)) /\ ~Queued(cmds', Unload(i))
      BY <1>1, <1>2, <3>2, WrittenQueued DEF Load, Unload
    <3>4. Once(cmds', {Load(i)})
      <4>1. Once(cmds, {Load(i)}) /\ \A m \in {Load(i)} : ~Queued(cmds, m)
        BY <3>2 DEF Once, Queued
      <4> QED
        BY <1>1, <1>2, <4>1, WrittenOnce
    <3>5. Once(events', {DidLoad(i), DidNotLoad(i)})
      BY <1>1, <3>2 DEF Once, Queued, Answered
    <3>6. Audible(i)'
      <4>1. i \in sinks' => i \in regions'
        BY <1>1, <1>3, <2>1, <2>3 DEF Agreed, Audible
      <4> QED
        BY <1>2, <3>1, <4>1 DEF Audible, Asked
    <3> QED
      BY <1>1, <1>2, <2>3, <3>1, <3>2, <3>3, <3>4, <3>5, <3>6
         DEF Agreed, KnownTo, Settled, UnderWay, Hosted, Asked, Answered
  <2> QED
    BY <2>2, <2>3
<1> QED
  BY <1>1, <1>6, <1>7 DEF PluginInv

\* It is not sent: at most the region is left, and the host is down.
LEMMA LoadLostKeeps ==
  ASSUME PluginInv, NEW i \in Slots, LoadLost(i) \/ NotAsked,
         slot[i] \in {"fresh", "Unloaded"}, slot' = [slot EXCEPT ![i] = "Failed"],
         sinks' \in {sinks, Installed(regions', slot')},
         loading' \in SUBSET Slots, UNCHANGED <<engine, pastVars>>
  PROVE  PluginInv'
<1>1. /\ PluginTypes /\ engine' = engine /\ adrift' = adrift /\ loaded' = loaded
      /\ regions' \in {regions, regions \cup {i}}
  BY DEF PluginInv, LoadLost, RegionTried, NotAsked, pastVars
<1>2. \/ UNCHANGED <<regions, hostVars>>
      \/ /\ host' = "down" /\ cmds' = <<>> /\ hosted' = {}
         /\ events' = Append(events, <<"gone", NoSlot>>)
  BY DEF LoadLost, NotAsked
<1>3. /\ regions' \in SUBSET Slots /\ slot' \in [Slots -> Live \cup {"fresh", "gone"}]
      /\ slot'[i] = "Failed"
  BY <1>1 DEF PluginTypes, PluginTypeOK, Live
<1>4. /\ sinks' \in SUBSET Slots /\ (~engine => sinks' = {})
      /\ \A j : j \in sinks => j \in sinks'
      /\ \A j : j \in sinks' => j \in sinks \/ (j \in regions' /\ slot'[j] \in Live)
  <2>1. CASE sinks' = sinks
    BY <1>1, <2>1 DEF PluginTypes, PluginTypeOK
  <2>2. CASE sinks' = Installed(regions', slot')
    <3>1. PluginTypes /\ regions' \in SUBSET Slots /\ sinks' = Installed(regions', slot')
      BY <1>1, <1>3, <2>2
    <3> QED
      BY ONLY <3>1, InstalledFacts
  <2> QED
    BY <2>1, <2>2
<1>5. /\ cmds' \in Seq(Commands) /\ events' \in Seq(Happenings) /\ hosted' \in SUBSET Slots
      /\ host' \in {"none", "up", "down"}
      /\ (host' = "none") => (regions' = {} /\ hosted' = {} /\ cmds' = <<>>)
      /\ (host' # "up") => (hosted' = {} /\ cmds' = <<>>)
  <2>1. CASE UNCHANGED <<regions, hostVars>>
    BY <1>1, <2>1 DEF hostVars, PluginTypes, PluginTypeOK
  <2>2. CASE /\ host' = "down" /\ cmds' = <<>> /\ hosted' = {}
             /\ events' = Append(events, <<"gone", NoSlot>>)
    BY <1>1, <2>2, Commanded, Written, EmptyPipe DEF PluginTypes
  <2> QED
    BY <1>2, <2>1, <2>2
<1>6. PluginTypes'
  BY <1>1, <1>3, <1>4, <1>5 DEF PluginTypes, PluginTypeOK, pastVars
<1>7. ASSUME NEW j \in Slots \ adrift PROVE Agreed(j)'
  <2>1. Agreed(j)
    BY DEF PluginInv
  <2>2. CASE j # i
    <3>1. Rests(j)
      BY <1>1, <1>4, <2>2 DEF Rests, PluginTypes, PluginTypeOK
    <3>2. Settled(j)' /\ UnderWay(j)' /\ Hosted(j)'
      BY <1>1, <1>2, <2>1, <3>1, DownKeeps, PipesKeep DEF Rests
    <3> QED
      BY <2>1, <3>1, <3>2, RestsKeeps DEF Agreed
  <2>3. CASE j = i
    <3>1. /\ loaded[i] = "no" /\ ~Asked(i) /\ ~Queued(cmds, Load(i)) /\ ~Queued(cmds, Unload(i))
          /\ ~Answered(i) /\ i \notin hosted /\ i \notin sinks
      BY <2>1, <2>3 DEF Agreed, KnownTo, Audible, Settled, Hosted, Asked
    <3>2. ~Queued(cmds', Load(i)) /\ ~Queued(cmds', Unload(i)) /\ i \notin hosted'
      BY <1>2, <3>1, EmptyPipe DEF hostVars
    <3>3. ~Answered(i)'
      <4>1. <<"gone", NoSlot>> \notin {DidLoad(i), DidNotLoad(i)}
        BY DEF DidLoad, DidNotLoad
      <4>2. CASE events' = events
        BY <3>1, <4>2 DEF Answered
      <4>3. CASE events' = Append(events, <<"gone", NoSlot>>)
        <5>1. events \in Seq(Happenings) /\ <<"gone", NoSlot>> \in Happenings
          BY <1>1, Commanded DEF PluginTypes
        <5>2. /\ Queued(events', DidLoad(i)) => Queued(events, DidLoad(i))
              /\ Queued(events', DidNotLoad(i)) => Queued(events, DidNotLoad(i))
          BY <4>1, <4>3, <5>1, WrittenQueued
        <5> QED
          BY <3>1, <5>2 DEF Answered
      <4> QED
        BY <1>2, <4>2, <4>3 DEF hostVars
    <3> QED
      BY <1>1, <1>3, <1>4, <2>3, <3>1, <3>2, <3>3
         DEF Agreed, KnownTo, Audible, Settled, UnderWay, Hosted, Asked, Live
  <2> QED
    BY <2>2, <2>3
<1> QED
  BY <1>1, <1>6, <1>7 DEF PluginInv

LEMMA AddPluginKeeps ==
  ASSUME PluginInv, NEW i \in Slots, AddPlugin(i)
  PROVE  PluginInv'
<1>1. /\ loading \cup {i} \in SUBSET Slots /\ loading \ {i} \in SUBSET Slots
      /\ slot[i] = "fresh" /\ UNCHANGED <<engine, pastVars>>
  BY DEF PluginInv, PluginTypes, PluginTypeOK, AddPlugin
<1>2. CASE /\ LoadSent(i)
           /\ slot' = [slot EXCEPT ![i] = "Loading"]
           /\ loading' = loading \cup {i}
           /\ sinks' = Installed(regions', slot')
  BY <1>1, <1>2, LoadSentKeeps
<1>3. CASE /\ LoadLost(i) \/ NotAsked
           /\ slot' = [slot EXCEPT ![i] = "Failed"]
           /\ loading' = loading \ {i}
           /\ sinks' \in {sinks, Installed(regions', slot')}
  BY <1>1, <1>3, LoadLostKeeps
<1> QED
  BY <1>2, <1>3 DEF AddPlugin, NotSent

\* Nothing but sinks of slots that have their region.
LEMMA InstallKeeps ==
  ASSUME PluginInv, sinks' = Installed(regions, slot),
         UNCHANGED <<slot, loading, loaded, regions, engine, pastVars, hostVars>>
  PROVE  PluginInv'
<1>1. PluginTypes /\ regions \in SUBSET Slots
  BY DEF PluginInv, PluginTypes
<1>2. /\ sinks' \in SUBSET Slots /\ (~engine => sinks' = {})
      /\ \A j : j \in sinks => j \in sinks'
      /\ \A j : j \in sinks' => j \in sinks \/ j \in regions
  BY <1>1, InstalledFacts
<1>3. PluginTypes'
  BY <1>1, <1>2 DEF PluginTypes, PluginTypeOK, pastVars, hostVars
<1>4. ASSUME NEW j \in Slots \ adrift PROVE Agreed(j)'
  <2>1. Agreed(j) /\ Rests(j)
    BY <1>2 DEF PluginInv, Rests
  <2> QED
    BY <2>1, RestsKeeps, PipesKeep DEF Rests, Agreed
<1> QED
  BY <1>3, <1>4 DEF PluginInv, pastVars

LEMMA RestorePluginKeeps ==
  ASSUME PluginInv, NEW i \in Slots, RestorePlugin(i)
  PROVE  PluginInv'
<1>1. /\ loading' \in SUBSET Slots /\ slot[i] = "Unloaded" /\ loading' = loading
      /\ UNCHANGED <<engine, pastVars>>
  BY DEF PluginInv, PluginTypes, PluginTypeOK, RestorePlugin
<1>2. CASE sinks' = Installed(regions, slot) /\ UNCHANGED <<slot, loaded, regions, hostVars>>
  BY <1>1, <1>2, InstallKeeps
<1>3. CASE /\ LoadSent(i) /\ slot' = [slot EXCEPT ![i] = "Loading"]
           /\ sinks' = Installed(regions', slot')
  BY <1>1, <1>3, LoadSentKeeps
<1>4. CASE /\ LoadLost(i) \/ NotAsked
           /\ slot' = [slot EXCEPT ![i] = "Failed"] /\ sinks' = sinks
  BY <1>1, <1>4, LoadLostKeeps
<1> QED
  BY <1>2, <1>3, <1>4 DEF RestorePlugin

\* Slots come and go without their instances.
LEMMA StillKeeps ==
  ASSUME PluginInv, UNCHANGED <<loaded, regions, engine, sinks, hostVars>>,
         NEW j \in Slots \ adrift, slot'[j] = slot[j]
  PROVE  Agreed(j)'
<1>1. Agreed(j) /\ Rests(j)
  BY DEF PluginInv, Rests
<1> QED
  BY <1>1, RestsKeeps, PipesKeep DEF Agreed

LEMMA LastOf ==
  ASSUME NEW S, NEW q \in Seq(S), q # <<>>
  PROVE  q[Len(q)] \in S /\ SubSeq(q, 1, Len(q) - 1) \in Seq(S)
OBVIOUS

LEMMA UndoKeeps ==
  ASSUME PluginInv, Undo
  PROVE  PluginInv'
<1> DEFINE e == undos[Len(undos)]
<1>1. PluginTypes /\ undos \in Seq(Deleted) /\ redos \in Seq(Deleted) /\ undos # <<>>
  BY DEF PluginInv, PluginTypes, Undo
<1>2. e \in Deleted /\ undos' \in Seq(Deleted) /\ redos' \in Seq(Deleted)
  <2>1. e \in Deleted /\ SubSeq(undos, 1, Len(undos) - 1) \in Seq(Deleted)
    BY <1>1, LastOf
  <2>2. Append(redos, e) \in Seq(Deleted)
    BY <1>1, <2>1, Written
  <2> QED
    BY <2>1, <2>2 DEF Undo
<1>3. /\ slot' = IF slot[e.id] \in Live THEN slot ELSE [slot EXCEPT ![e.id] = e.was]
      /\ adrift' = adrift \cup {e.id} /\ turns' = turns + 1
      /\ UNCHANGED <<loading, loaded, regions, engine, sinks, leftover, hostVars>>
  BY DEF Undo
<1> HIDE DEF e
<1>4. e.id \in Slots /\ e.was \in Live
  BY <1>2 DEF Deleted
<1>5. PluginTypes'
  BY <1>1, <1>2, <1>3, <1>4 DEF PluginTypes, PluginTypeOK, hostVars
<1>6. ASSUME NEW j \in Slots \ adrift' PROVE Agreed(j)'
  <2>1. j \in Slots \ adrift /\ slot'[j] = slot[j]
    BY <1>1, <1>3, <1>4 DEF PluginTypes, PluginTypeOK
  <2> QED
    BY <1>3, <2>1, StillKeeps
<1> QED
  BY <1>5, <1>6 DEF PluginInv

LEMMA RedoKeeps ==
  ASSUME PluginInv, Redo
  PROVE  PluginInv'
<1> DEFINE e == redos[Len(redos)]
<1>1. PluginTypes /\ undos \in Seq(Deleted) /\ redos \in Seq(Deleted) /\ redos # <<>>
  BY DEF PluginInv, PluginTypes, Redo
<1>2. e \in Deleted /\ undos' \in Seq(Deleted) /\ redos' \in Seq(Deleted)
  <2>1. e \in Deleted /\ SubSeq(redos, 1, Len(redos) - 1) \in Seq(Deleted)
    BY <1>1, LastOf
  <2>2. Append(undos, e) \in Seq(Deleted)
    BY <1>1, <2>1, Written
  <2> QED
    BY <2>1, <2>2 DEF Redo
<1>3. /\ slot' = [slot EXCEPT ![e.id] = "gone"] /\ adrift' = adrift \cup {e.id}
      /\ UNCHANGED <<loading, loaded, regions, engine, sinks, turns, leftover, hostVars>>
  BY DEF Redo
<1> HIDE DEF e
<1>4. e.id \in Slots
  BY <1>2 DEF Deleted
<1>5. PluginTypes'
  BY <1>1, <1>2, <1>3, <1>4 DEF PluginTypes, PluginTypeOK, hostVars
<1>6. ASSUME NEW j \in Slots \ adrift' PROVE Agreed(j)'
  <2>1. j \in Slots \ adrift /\ slot'[j] = slot[j]
    BY <1>1, <1>3, <1>4 DEF PluginTypes, PluginTypeOK
  <2> QED
    BY <1>3, <2>1, StillKeeps
<1> QED
  BY <1>5, <1>6 DEF PluginInv

LEMMA NewEmptyProjectKeeps ==
  ASSUME PluginInv, NewEmptyProject
  PROVE  PluginInv'
<1>1. /\ PluginTypes /\ turns' = MaxTurns
      /\ slot' = [i \in Slots |-> IF slot[i] \in Live THEN "gone" ELSE slot[i]]
      /\ adrift' = adrift \cup InUse(slot)
      /\ UNCHANGED <<loading, loaded, regions, engine, sinks, undos, redos, leftover, hostVars>>
  BY DEF PluginInv, NewEmptyProject
<1>2. PluginTypes'
  BY <1>1, PluginAssumption DEF PluginTypes, PluginTypeOK, InUse, hostVars
<1>3. ASSUME NEW j \in Slots \ adrift' PROVE Agreed(j)'
  <2>1. j \in Slots \ adrift /\ slot'[j] = slot[j]
    BY <1>1 DEF InUse
  <2> QED
    BY <1>1, <2>1, StillKeeps
<1> QED
  BY <1>2, <1>3 DEF PluginInv

-----------------------------------------------------------------------------
(* A session that ends takes every instance with it.                       *)

LEMMA SessionEndsTypes ==
  ASSUME PluginInv, SessionEnds, slot' \in [Slots -> Live \cup {"fresh", "gone"}],
         adrift' \in SUBSET Slots
  PROVE  PluginTypes'
<1>1. PluginTypes
  BY DEF PluginInv
<1>2. /\ engine' = FALSE /\ sinks' = {} /\ host' = "none" /\ cmds' = <<>> /\ hosted' = {}
      /\ events' = <<>> /\ loaded' = [i \in Slots |-> "no"] /\ regions' = {}
      /\ leftover' = leftover \cup loading /\ turns' = MaxTurns
      /\ UNCHANGED <<loading, undos, redos>>
  BY DEF SessionEnds
<1>3. PluginTypeOK'
  BY <1>1, <1>2 DEF PluginTypes, PluginTypeOK
<1> QED
  BY <1>1, <1>2, <1>3, EmptyPipe, PluginAssumption DEF PluginTypes, PluginTypeOK

LEMMA SessionEndsAgreed ==
  ASSUME SessionEnds, NEW j \in Slots, slot'[j] \in {"fresh", "Unloaded", "gone"}
  PROVE  Agreed(j)'
<1>1. /\ sinks' = {} /\ cmds' = <<>> /\ hosted' = {} /\ events' = <<>>
      /\ loaded'[j] = "no" /\ regions' = {}
  BY DEF SessionEnds
<1> QED
  BY <1>1, EmptyPipe
     DEF Agreed, KnownTo, Audible, Settled, UnderWay, Hosted, Asked, Answered

LEMMA OpenProjectKeeps ==
  ASSUME PluginInv, OpenProject
  PROVE  PluginInv'
<1>1. PICK saved \in SUBSET {i \in Slots : slot[i] # "fresh"} :
        slot' = [i \in Slots |-> IF i \in saved THEN "Unloaded"
                                 ELSE IF slot[i] \in Live THEN "gone" ELSE slot[i]]
  BY DEF OpenProject
<1>2. SessionEnds /\ adrift' = {} /\ slot \in [Slots -> Live \cup {"fresh", "gone"}]
  BY DEF OpenProject, PluginInv, PluginTypes, PluginTypeOK
<1>3. \A j \in Slots : slot'[j] \in {"fresh", "Unloaded", "gone"}
  BY <1>1, <1>2
<1>4. slot' \in [Slots -> Live \cup {"fresh", "gone"}]
  BY <1>1, <1>2 DEF Live
<1> QED
  BY <1>2, <1>3, <1>4, SessionEndsTypes, SessionEndsAgreed DEF PluginInv

LEMMA OpenFailsKeeps ==
  ASSUME PluginInv, OpenFails
  PROVE  PluginInv'
<1>1. /\ SessionEnds /\ adrift' = InUse(slot) /\ slot' = slot
      /\ slot \in [Slots -> Live \cup {"fresh", "gone"}]
  BY DEF OpenFails, PluginInv, PluginTypes, PluginTypeOK
<1>2. \A j \in Slots \ adrift' : slot'[j] \in {"fresh", "gone"}
  BY <1>1 DEF InUse
<1>3. adrift' \in SUBSET Slots
  BY <1>1 DEF InUse
<1> QED
  BY <1>1, <1>2, <1>3, SessionEndsTypes, SessionEndsAgreed DEF PluginInv

LEMMA EngineReadyKeeps ==
  ASSUME PluginInv, EngineReady
  PROVE  PluginInv'
<1>1. /\ PluginTypes /\ engine' = TRUE /\ sinks' = regions \cap InUse(slot)
      /\ UNCHANGED <<slot, loading, loaded, regions, pastVars, hostVars>>
  BY DEF PluginInv, EngineReady
<1>2. PluginTypes'
  BY <1>1 DEF PluginTypes, PluginTypeOK, pastVars, hostVars
<1>3. ASSUME NEW j \in Slots \ adrift PROVE Agreed(j)'
  <2>1. Agreed(j)
    BY DEF PluginInv
  <2>2. KnownTo(j)' /\ Audible(j)'
    BY <1>1, <2>1 DEF Agreed, KnownTo, Audible, Asked, InUse, Live
  <2> QED
    BY <1>1, <2>1, <2>2, PipesKeep DEF Agreed
<1> QED
  BY <1>1, <1>2, <1>3 DEF PluginInv, pastVars

LEMMA HostExitsKeeps ==
  ASSUME PluginInv, HostExits
  PROVE  PluginInv'
<1>1. /\ PluginTypes /\ host' = "down" /\ cmds' = <<>> /\ hosted' = {}
      /\ events' = Append(events, <<"gone", NoSlot>>) /\ UNCHANGED <<uiVars, pastVars>>
  BY DEF PluginInv, HostExits
<1>2. events' \in Seq(Happenings)
  <2>1. <<"gone", NoSlot>> \in Happenings /\ events \in Seq(Happenings)
    BY <1>1 DEF Happenings, PluginTypes
  <2> QED
    BY <1>1, <2>1, Written
<1>3. PluginTypes'
  BY <1>1, <1>2, EmptyPipe DEF PluginTypes, PluginTypeOK, uiVars, pastVars
<1>4. ASSUME NEW j \in Slots \ adrift PROVE Agreed(j)'
  <2>1. Agreed(j) /\ Rests(j)
    BY <1>1 DEF PluginInv, Rests, uiVars
  <2> QED
    BY <1>1, <2>1, RestsKeeps, DownKeeps DEF Rests, Agreed
<1> QED
  BY <1>1, <1>3, <1>4 DEF PluginInv, pastVars

-----------------------------------------------------------------------------
(* The host, and the studio's poll.                                        *)

\* The answer that the host writes, and what it runs then.
LEMMA TakenAnswers ==
  ASSUME PluginInv, HostTakes, NEW i, i = Head(cmds)[2]
  PROVE  /\ i \in Slots /\ Head(cmds) \in {Load(i), Unload(i)}
         /\ cmds \in Seq(Commands) /\ cmds # <<>> /\ cmds' = Tail(cmds)
         /\ \/ /\ Head(cmds) = Load(i) /\ hosted' = hosted \cup {i}
               /\ events' = Append(events, DidLoad(i))
            \/ /\ Head(cmds) = Load(i) /\ hosted' = hosted
               /\ events' = Append(events, DidNotLoad(i))
            \/ /\ Head(cmds) = Unload(i) /\ hosted' = hosted \ {i} /\ events' = events
<1>1. cmds \in Seq(Commands) /\ cmds # <<>>
  BY DEF PluginInv, PluginTypes, HostTakes
<1>2. Head(cmds) \in Commands
  BY <1>1, ReadPipe
<1>3. i \in Slots /\ Head(cmds) = <<Head(cmds)[1], i>> /\ Head(cmds)[1] \in {"load", "unload"}
  BY <1>2 DEF Commands
<1>4. /\ Head(cmds)[1] = "load" => Head(cmds) = Load(i)
      /\ Head(cmds)[1] = "unload" => Head(cmds) = Unload(i)
  BY <1>3 DEF Load, Unload
<1> QED
  BY <1>1, <1>3, <1>4 DEF HostTakes, DidLoad, DidNotLoad

LEMMA HostTakesKeeps ==
  ASSUME PluginInv, HostTakes
  PROVE  PluginInv'
<1> DEFINE i == Head(cmds)[2]
<1>1. /\ i \in Slots /\ Head(cmds) \in {Load(i), Unload(i)}
      /\ cmds \in Seq(Commands) /\ cmds # <<>> /\ cmds' = Tail(cmds)
      /\ \/ /\ Head(cmds) = Load(i) /\ hosted' = hosted \cup {i}
            /\ events' = Append(events, DidLoad(i))
         \/ /\ Head(cmds) = Load(i) /\ hosted' = hosted
            /\ events' = Append(events, DidNotLoad(i))
         \/ /\ Head(cmds) = Unload(i) /\ hosted' = hosted \ {i} /\ events' = events
  BY TakenAnswers
<1>2. /\ PluginTypes /\ host = "up" /\ host' = host /\ UNCHANGED <<uiVars, pastVars>>
      /\ events \in Seq(Happenings)
  BY DEF PluginInv, PluginTypes, HostTakes
<1> HIDE DEF i
<1>3. cmds' \in Seq(Commands) /\ events' \in Seq(Happenings) /\ hosted' \in SUBSET Slots
  <2>1. hosted' \in SUBSET Slots
    BY <1>1, <1>2 DEF PluginTypes
  <2>2. cmds' \in Seq(Commands)
    BY <1>1, ReadPipe
  <2>3. DidLoad(i) \in Happenings /\ DidNotLoad(i) \in Happenings
    BY <1>1, Commanded
  <2>4. events' \in Seq(Happenings)
    <3>1. \A x \in Happenings : Append(events, x) \in Seq(Happenings)
      BY <1>2, Written
    <3> QED
      BY <1>1, <1>2, <2>3, <3>1
  <2> QED
    BY <2>1, <2>2, <2>4
<1>4. PluginTypes'
  BY <1>2, <1>3 DEF PluginTypes, PluginTypeOK, uiVars, pastVars
<1>5. ASSUME NEW j \in Slots \ adrift PROVE Agreed(j)'
  <2>1. Agreed(j) /\ Rests(j)
    BY <1>2 DEF PluginInv, Rests, uiVars
  <2>2. slot' = slot
    BY <1>2 DEF uiVars
  <2>3. /\ Queued(cmds', Load(j)) => Queued(cmds, Load(j))
        /\ Queued(cmds', Unload(j)) => Queued(cmds, Unload(j))
        /\ Queued(cmds, Load(j)) /\ Head(cmds) # Load(j) => Queued(cmds', Load(j))
        /\ Queued(cmds, Unload(j)) /\ Head(cmds) # Unload(j) => Queued(cmds', Unload(j))
        /\ Queued(cmds, Head(cmds))
    BY <1>1, ReadQueued
  <2>4. /\ Once(cmds, {Load(j)}) => Once(cmds', {Load(j)})
        /\ Once(cmds, {Load(j)}) /\ Head(cmds) = Load(j) => ~Queued(cmds', Load(j))
    BY <1>1, ReadOnce
  <2>5. /\ Followed(cmds, Load(j), Unload(j)) => Followed(cmds', Load(j), Unload(j))
        /\ Followed(cmds, Load(j), Unload(j)) /\ Head(cmds) = Load(j) => Queued(cmds', Unload(j))
    BY <1>1, ReadFollowed
  <2>6. CASE j # i
    <3>1. Head(cmds) \notin {Load(j), Unload(j)} /\ (j \in hosted' <=> j \in hosted)
      BY <1>1, <2>6 DEF Load, Unload
    <3>2. {DidLoad(i), DidNotLoad(i)} \cap {DidLoad(j), DidNotLoad(j)} = {}
      BY <2>6 DEF DidLoad, DidNotLoad
    <3>3. /\ Queued(events', DidLoad(j)) <=> Queued(events, DidLoad(j))
          /\ Queued(events', DidNotLoad(j)) <=> Queued(events, DidNotLoad(j))
          /\ Once(events, {DidLoad(j), DidNotLoad(j)})
               => Once(events', {DidLoad(j), DidNotLoad(j)})
      <4>1. CASE events' = events
        BY <4>1
      <4>2. ASSUME NEW x \in {DidLoad(i), DidNotLoad(i)}, events' = Append(events, x)
            PROVE  /\ Queued(events', DidLoad(j)) <=> Queued(events, DidLoad(j))
                   /\ Queued(events', DidNotLoad(j)) <=> Queued(events, DidNotLoad(j))
                   /\ Once(events, {DidLoad(j), DidNotLoad(j)})
                        => Once(events', {DidLoad(j), DidNotLoad(j)})
        <5>1. x \in Happenings /\ x \notin {DidLoad(j), DidNotLoad(j)}
          BY <1>1, <3>2, Commanded
        <5> QED
          BY <1>2, <4>2, <5>1, WrittenQueued, WrittenOnce
      <4> QED
        BY <1>1, <4>1, <4>2
    <3>4. Settled(j)' /\ UnderWay(j)' /\ Hosted(j)'
      BY <1>2, <2>1, <2>2, <2>3, <2>4, <2>5, <3>1, <3>3
         DEF Agreed, Settled, UnderWay, Hosted, Asked, Answered
    <3> QED
      BY <2>1, <3>4, RestsKeeps DEF Agreed
  <2>7. CASE j = i
    <3>1. CASE Head(cmds) = Load(i)
      <4>1. Queued(cmds, Load(i)) /\ slot[i] \in {"Loading", "gone"}
        BY <1>2, <2>1, <2>3, <2>7, <3>1
           DEF Agreed, Settled, PluginTypes, PluginTypeOK, Live
      <4>2. CASE slot[i] = "gone"
        <5>1. Queued(cmds', Unload(i)) /\ Followed(cmds', Load(i), Unload(i))
          BY <2>1, <2>5, <2>7, <3>1, <4>2 DEF Agreed, Hosted
        <5> QED
          BY <1>2, <2>1, <2>2, <2>7, <4>2, <5>1, RestsKeeps
             DEF Agreed, Settled, UnderWay, Hosted, Asked
      <4>3. CASE slot[i] = "Loading"
        <5>1. /\ i \notin hosted /\ ~Queued(events, DidLoad(i)) /\ ~Queued(events, DidNotLoad(i))
              /\ Once(cmds', {Load(i)}) /\ ~Queued(cmds', Load(i))
              /\ ~Queued(cmds', Unload(i)) /\ Once(events, {DidLoad(i), DidNotLoad(i)})
          BY <2>1, <2>3, <2>4, <2>7, <3>1, <4>1, <4>3
             DEF Agreed, UnderWay, Hosted, Answered
        <5>2. DidLoad(i) \in Happenings /\ DidNotLoad(i) \in Happenings /\ DidLoad(i) # DidNotLoad(i)
          BY <1>1, Commanded DEF DidLoad, DidNotLoad
        <5>3. Once(events', {DidLoad(i), DidNotLoad(i)})
          <6>1. \A m \in {DidLoad(i), DidNotLoad(i)} : ~Queued(events, m)
            BY <5>1
          <6>2. Load(i) # Unload(i)
            BY DEF Load, Unload
          <6>3. PICK x \in {DidLoad(i), DidNotLoad(i)} : events' = Append(events, x)
            BY <1>1, <3>1, <6>2
          <6> QED
            BY <1>2, <5>1, <5>2, <6>1, <6>3, WrittenOnce
        <5>4. \/ i \in hosted' /\ ~Queued(events', DidNotLoad(i))
              \/ i \notin hosted' /\ Queued(events', DidNotLoad(i))
          <6>1. Load(i) # Unload(i)
            BY DEF Load, Unload
          <6>2. CASE hosted' = hosted \cup {i} /\ events' = Append(events, DidLoad(i))
            BY <1>2, <5>1, <5>2, <6>2, WrittenQueued
          <6>3. CASE hosted' = hosted /\ events' = Append(events, DidNotLoad(i))
            BY <1>2, <5>1, <5>2, <6>3, WrittenQueued
          <6> QED
            BY <1>1, <3>1, <6>1, <6>2, <6>3
        <5> QED
          BY <1>2, <2>1, <2>2, <2>7, <4>3, <5>1, <5>3, <5>4, RestsKeeps
             DEF Agreed, Settled, UnderWay, Hosted, Asked
      <4> QED
        BY <4>1, <4>2, <4>3
    <3>2. CASE Head(cmds) = Unload(i)
      <4>1. slot[i] = "gone" /\ i \notin hosted'
        <5>1. Load(i) # Unload(i)
          BY DEF Load, Unload
        <5> QED
          BY <1>1, <2>1, <2>3, <2>7, <3>2, <5>1 DEF Agreed, Hosted
      <4> QED
        BY <1>2, <2>1, <2>2, <2>5, <2>7, <4>1, RestsKeeps
           DEF Agreed, Settled, UnderWay, Hosted, Asked
    <3> QED
      BY <1>1, <3>1, <3>2
  <2> QED
    BY <2>6, <2>7
<1> QED
  BY <1>2, <1>4, <1>5 DEF PluginInv, pastVars

\* What an event says, of a slot or of the host.
LEMMA PolledEvent ==
  ASSUME PluginInv, PollEvent, NEW i, i = Head(events)[2]
  PROVE  /\ events \in Seq(Happenings) /\ events # <<>> /\ events' = Tail(events)
         /\ \/ /\ i \in Slots /\ Head(events) = DidLoad(i)
               /\ loaded' = Confirmed(i) /\ loading' = Without(i)
               /\ slot' = Shown(i, "Ready") /\ sinks' = Installed(regions, slot')
               /\ regions' = regions
            \/ /\ i \in Slots /\ Head(events) = DidNotLoad(i)
               /\ loaded' = [loaded EXCEPT ![i] = "no"] /\ regions' = regions \ {i}
               /\ loading' = Without(i)
               /\ sinks' = IF engine THEN sinks \ {i} ELSE sinks
               /\ slot' = Shown(i, "Failed")
            \/ /\ Head(events) = <<"gone", NoSlot>> /\ loading' = {}
               /\ UNCHANGED <<slot, loaded, regions, sinks>>
<1>1. events \in Seq(Happenings) /\ events # <<>>
  BY DEF PluginInv, PluginTypes, PollEvent
<1>2. Head(events) \in Happenings
  BY <1>1, ReadPipe
<1>3. CASE Head(events)[1] = "loaded"
  <2>1. i \in Slots /\ Head(events) = DidLoad(i)
    BY <1>2, <1>3 DEF Happenings, DidLoad
  <2> QED
    BY <1>1, <1>3, <2>1 DEF PollEvent
<1>4. CASE Head(events)[1] = "failed"
  <2>1. i \in Slots /\ Head(events) = DidNotLoad(i)
    BY <1>2, <1>4 DEF Happenings, DidNotLoad
  <2> QED
    BY <1>1, <1>4, <2>1 DEF PollEvent
<1>5. CASE Head(events)[1] = "gone"
  <2>1. Head(events) = <<"gone", NoSlot>>
    BY <1>2, <1>5 DEF Happenings
  <2> QED
    BY <1>1, <1>5, <2>1 DEF PollEvent, AfterGone
<1> QED
  BY <1>2, <1>3, <1>4, <1>5 DEF Happenings

\* The other slots see one event less that is not about them.
LEMMA PollKeeps ==
  ASSUME PluginInv, NEW j \in Slots \ adrift, Rests(j), host' = host, cmds' = cmds,
         hosted' = hosted, events # <<>>, events' = Tail(events),
         Head(events) \notin {DidLoad(j), DidNotLoad(j)}
  PROVE  Agreed(j)'
<1>1. Agreed(j) /\ events \in Seq(Happenings)
  BY DEF PluginInv, PluginTypes
<1>2. /\ Queued(events', DidLoad(j)) <=> Queued(events, DidLoad(j))
      /\ Queued(events', DidNotLoad(j)) <=> Queued(events, DidNotLoad(j))
  BY <1>1, ReadQueued
<1>3. Once(events, {DidLoad(j), DidNotLoad(j)}) => Once(events', {DidLoad(j), DidNotLoad(j)})
  BY <1>1, ReadOnce
<1>4. Settled(j)' /\ UnderWay(j)' /\ Hosted(j)'
  BY <1>1, <1>2, <1>3 DEF Agreed, Rests, Settled, UnderWay, Hosted, Asked, Answered
<1> QED
  BY <1>1, <1>4, RestsKeeps DEF Agreed

\* The answer to the slot that waited was the only one.
LEMMA LastAnswer ==
  ASSUME PluginInv, NEW i \in Slots \ adrift, events # <<>>, events' = Tail(events),
         Head(events) \in {DidLoad(i), DidNotLoad(i)}, slot[i] # "gone"
  PROVE  /\ slot[i] = "Loading" /\ ~Queued(cmds, Load(i)) /\ ~Queued(cmds, Unload(i))
         /\ ~Queued(events', DidLoad(i)) /\ ~Queued(events', DidNotLoad(i))
         /\ Head(events) = DidLoad(i) /\ host = "up" => i \in hosted
         /\ Head(events) = DidNotLoad(i) => i \notin hosted
<1>1. Agreed(i) /\ events \in Seq(Happenings) /\ slot[i] \in Live \cup {"fresh"}
  BY DEF PluginInv, PluginTypes, PluginTypeOK
<1>2. Queued(events, Head(events)) /\ Answered(i)
  BY <1>1, ReadQueued DEF Answered
<1>3. slot[i] = "Loading" /\ ~Queued(cmds, Load(i)) /\ ~Queued(cmds, Unload(i))
  BY <1>1, <1>2 DEF Agreed, Settled, UnderWay, Hosted, Live
<1>4. ~Queued(events', DidLoad(i)) /\ ~Queued(events', DidNotLoad(i))
  BY <1>1, <1>3, ReadOnce DEF Agreed, UnderWay
<1>5. Head(events) = DidLoad(i) => ~Queued(events, DidNotLoad(i))
  <2>1. DidLoad(i) # DidNotLoad(i)
    BY DEF DidLoad, DidNotLoad
  <2> QED
    BY <1>1, <1>4, <2>1, ReadQueued
<1> QED
  BY <1>1, <1>2, <1>3, <1>4, <1>5 DEF Agreed, UnderWay, Hosted

LEMMA PollEventKeeps ==
  ASSUME PluginInv, PollEvent
  PROVE  PluginInv'
<1> DEFINE i == Head(events)[2]
<1>1. /\ events \in Seq(Happenings) /\ events # <<>> /\ events' = Tail(events)
      /\ \/ /\ i \in Slots /\ Head(events) = DidLoad(i)
            /\ loaded' = Confirmed(i) /\ loading' = Without(i)
            /\ slot' = Shown(i, "Ready") /\ sinks' = Installed(regions, slot')
            /\ regions' = regions
         \/ /\ i \in Slots /\ Head(events) = DidNotLoad(i)
            /\ loaded' = [loaded EXCEPT ![i] = "no"] /\ regions' = regions \ {i}
            /\ loading' = Without(i)
            /\ sinks' = IF engine THEN sinks \ {i} ELSE sinks
            /\ slot' = Shown(i, "Failed")
         \/ /\ Head(events) = <<"gone", NoSlot>> /\ loading' = {}
            /\ UNCHANGED <<slot, loaded, regions, sinks>>
  BY PolledEvent
<1>2. /\ PluginTypes /\ PluginTypeOK /\ UNCHANGED <<engine, host, cmds, hosted, pastVars>>
      /\ regions \in SUBSET Slots
  BY DEF PluginInv, PluginTypes, PollEvent
<1>3. events' \in Seq(Happenings)
  BY <1>1, ReadPipe
<1>4. engine' \in BOOLEAN /\ (engine' <=> engine)
  BY <1>2 DEF PluginTypeOK
<1> HIDE DEF i
<1>5. CASE /\ i \in Slots /\ Head(events) = DidLoad(i)
           /\ loaded' = Confirmed(i) /\ loading' = Without(i)
           /\ slot' = Shown(i, "Ready") /\ sinks' = Installed(regions, slot')
           /\ regions' = regions
  <2>1. /\ slot' = IF slot[i] \in Live THEN [slot EXCEPT ![i] = "Ready"] ELSE slot
        /\ loaded' = IF loaded[i] = "no" THEN loaded ELSE [loaded EXCEPT ![i] = "confirmed"]
        /\ loading' = loading \ {i}
    BY <1>5 DEF Shown, Confirmed, Without, InUse
  <2>2. /\ sinks' \in SUBSET Slots /\ (~engine => sinks' = {})
        /\ \A j : j \in sinks => j \in sinks'
        /\ \A j : j \in sinks' => j \in sinks \/ (j \in regions /\ slot'[j] \in Live)
        /\ \A j \in Slots : engine /\ j \in regions /\ slot'[j] \in Live => j \in sinks'
    BY ONLY <1>2, <1>5, InstalledFacts
  <2>3. PluginTypeOK' /\ (engine' \/ sinks' = {})
    <3>1. engine' \/ sinks' = {}
      BY <1>4, <2>2
    <3>2. slot' \in [Slots -> Live \cup {"fresh", "gone"}]
      BY <1>2, <2>1 DEF PluginTypeOK, Live
    <3> QED
      BY <1>2, <1>4, <1>5, <2>1, <2>2, <3>1, <3>2 DEF PluginTypeOK
  <2>4. PluginTypes'
    BY <1>2, <1>3, <1>5, <2>3 DEF PluginTypes, pastVars
  <2>5. ASSUME NEW j \in Slots \ adrift PROVE Agreed(j)'
    <3>1. Agreed(j)
      BY DEF PluginInv
    <3>2. CASE j # i \/ slot[j] = "gone"
      <4>1. slot'[j] = slot[j] /\ loaded'[j] = loaded[j]
        BY <1>2, <2>1, <3>1, <3>2 DEF PluginTypeOK, Live, Agreed, KnownTo
      <4>2. Rests(j)
        BY <1>2, <1>5, <2>2, <4>1 DEF Rests
      <4>3. CASE j # i
        <5>1. Head(events) \notin {DidLoad(j), DidNotLoad(j)}
          BY <1>5, <4>3 DEF DidLoad, DidNotLoad
        <5> QED
          BY <1>1, <1>2, <4>2, <5>1, PollKeeps
      <4>4. CASE slot[j] = "gone"
        BY <1>2, <3>1, <4>1, <4>2, <4>4, RestsKeeps
           DEF Agreed, Settled, UnderWay, Hosted, Asked
      <4> QED
        BY <3>2, <4>3, <4>4
    <3>3. CASE j = i /\ slot[i] # "gone"
      <4>1. /\ slot[i] = "Loading" /\ ~Queued(cmds, Load(i)) /\ ~Queued(cmds, Unload(i))
            /\ ~Queued(events', DidLoad(i)) /\ ~Queued(events', DidNotLoad(i))
            /\ host = "up" => i \in hosted
        BY <1>1, <1>5, <3>3, LastAnswer
      <4>2. slot'[i] = "Ready" /\ loaded'[i] = "confirmed" /\ host # "none"
        BY <1>2, <1>5, <2>1, <3>1, <3>3, <4>1
           DEF PluginTypeOK, Live, Agreed, KnownTo, Audible, Hosted, Asked
      <4>3. engine' /\ i \in regions' => i \in sinks'
        BY <1>4, <1>5, <2>2, <4>2 DEF Live
      <4>4. Audible(j)'
        <5>1. j \in sinks' => j \in regions'
          BY <1>5, <2>2, <3>1 DEF Agreed, Audible
        <5> QED
          BY <3>3, <4>2, <4>3, <5>1 DEF Audible, Asked
      <4> QED
        BY <1>2, <3>3, <4>1, <4>2, <4>4
           DEF Agreed, KnownTo, Settled, UnderWay, Hosted, Asked, Answered
    <3> QED
      BY <3>2, <3>3
  <2> QED
    BY <1>2, <2>4, <2>5 DEF PluginInv, pastVars
<1>6. CASE /\ i \in Slots /\ Head(events) = DidNotLoad(i)
           /\ loaded' = [loaded EXCEPT ![i] = "no"] /\ regions' = regions \ {i}
           /\ loading' = Without(i)
           /\ sinks' = IF engine THEN sinks \ {i} ELSE sinks
           /\ slot' = Shown(i, "Failed")
  <2>1. /\ slot' = IF slot[i] \in Live THEN [slot EXCEPT ![i] = "Failed"] ELSE slot
        /\ loading' = loading \ {i}
    BY <1>6 DEF Shown, Without, InUse
  <2>2. sinks' = sinks \ {i}
    <3>1. i \in sinks => engine
      BY <1>2 DEF PluginTypes
    <3> QED
      BY <1>6, <3>1
  <2>3. PluginTypes'
    <3>1. slot' \in [Slots -> Live \cup {"fresh", "gone"}]
      BY <1>2, <2>1 DEF PluginTypeOK, Live
    <3>2. PluginTypeOK'
      BY <1>2, <1>6, <2>1, <2>2, <3>1 DEF PluginTypeOK
    <3>3. engine' \/ sinks' = {}
      BY <1>2, <1>4, <2>2 DEF PluginTypes
    <3> QED
      BY <1>2, <1>3, <1>6, <3>2, <3>3 DEF PluginTypes, pastVars
  <2>4. ASSUME NEW j \in Slots \ adrift PROVE Agreed(j)'
    <3>1. Agreed(j)
      BY DEF PluginInv
    <3>2. CASE j # i
      <4>1. Rests(j)
        BY <1>2, <1>6, <2>1, <2>2, <3>2 DEF Rests, PluginTypeOK
      <4>2. Head(events) \notin {DidLoad(j), DidNotLoad(j)}
        BY <1>6, <3>2 DEF DidLoad, DidNotLoad
      <4> QED
        BY <1>1, <1>2, <4>1, <4>2, PollKeeps
    <3>3. CASE j = i /\ slot[i] = "gone"
      <4>1. /\ slot'[i] = "gone" /\ loaded'[i] = "no" /\ i \notin regions' /\ i \notin sinks'
        BY <1>2, <1>6, <2>1, <2>2, <3>3 DEF PluginTypeOK, Live
      <4> QED
        BY <1>2, <3>1, <3>3, <4>1
           DEF Agreed, KnownTo, Audible, Settled, UnderWay, Hosted, Asked
    <3>4. CASE j = i /\ slot[i] # "gone"
      <4>1. /\ slot[i] = "Loading" /\ ~Queued(cmds, Load(i)) /\ ~Queued(cmds, Unload(i))
            /\ ~Queued(events', DidLoad(i)) /\ ~Queued(events', DidNotLoad(i))
            /\ i \notin hosted
        BY <1>1, <1>6, <3>4, LastAnswer
      <4>2. slot'[i] = "Failed" /\ loaded'[i] = "no" /\ i \notin regions' /\ i \notin sinks'
        BY <1>2, <1>6, <2>1, <2>2, <4>1 DEF PluginTypeOK, Live
      <4> QED
        BY <1>2, <3>4, <4>1, <4>2
           DEF Agreed, KnownTo, Audible, Settled, UnderWay, Hosted, Asked, Answered
    <3> QED
      BY <3>2, <3>3, <3>4
  <2> QED
    BY <1>2, <2>3, <2>4 DEF PluginInv, pastVars
<1>7. CASE /\ Head(events) = <<"gone", NoSlot>> /\ loading' = {}
           /\ UNCHANGED <<slot, loaded, regions, sinks>>
  <2>1. PluginTypes'
    <3>1. PluginTypeOK'
      BY <1>2, <1>7 DEF PluginTypeOK
    <3> QED
      BY <1>2, <1>3, <1>7, <3>1 DEF PluginTypes, pastVars
  <2>2. ASSUME NEW j \in Slots \ adrift PROVE Agreed(j)'
    <3>1. Rests(j)
      BY <1>2, <1>7 DEF Rests
    <3>2. Head(events) \notin {DidLoad(j), DidNotLoad(j)}
      BY <1>7 DEF DidLoad, DidNotLoad
    <3> QED
      BY <1>1, <1>2, <3>1, <3>2, PollKeeps
  <2> QED
    BY <1>2, <2>1, <2>2 DEF PluginInv, pastVars
<1> QED
  BY <1>1, <1>5, <1>6, <1>7

LEMMA PluginStep ==
  ASSUME PluginInv, [PluginNext]_pluginVars
  PROVE  PluginInv'
<1>1. CASE PluginNext
  BY <1>1, AddPluginKeeps, RestorePluginKeeps, RemovePluginKeeps, DeleteTrackKeeps,
     EditorOrphanedKeeps, UndoKeeps, RedoKeeps, NewEmptyProjectKeeps, OpenProjectKeeps,
     OpenFailsKeeps, EngineReadyKeeps, HostTakesKeeps, HostExitsKeeps, PollEventKeeps
     DEF PluginNext
<1>2. CASE UNCHANGED pluginVars
  <2>1. UNCHANGED <<slot, loading, loaded, regions, engine, sinks>> /\ UNCHANGED pastVars
    BY <1>2 DEF pluginVars, uiVars
  <2>2. UNCHANGED hostVars
    BY <1>2 DEF pluginVars
  <2>3. PluginTypes'
    BY <2>1, <2>2 DEF PluginInv, PluginTypes, PluginTypeOK, pastVars, hostVars
  <2>4. \A j \in Slots \ adrift : Agreed(j)'
    BY <2>1, <2>2, StillKeeps
  <2> QED
    BY <2>1, <2>3, <2>4 DEF PluginInv, pastVars
<1> QED
  BY <1>1, <1>2

\* The invariant holds of every behaviour of studio, runtime and host.
THEOREM PluginInvariant == PluginSpec => []PluginInv
BY InvStarts, PluginStep, PTL DEF PluginSpec

\* The studio and the host stay well-typed, and without a host nothing is known
\* of instances, regions and commands.
THEOREM PluginTyped == PluginSpec => []PluginTypeOK
BY InvSuffices, PluginInvariant, PTL

\* Slot, bridge runtime, host and engine agree on every instance that no undo,
\* redo, New or failed open has moved: a slot that is Ready has its region and
\* its sink; what the runtime knows of, the host runs while it lives, or has the
\* load or the failure of it in a pipe; the host runs nothing else without an
\* unload on its way; no sink outlives its slot.
THEOREM InstancesDoAgree == PluginSpec => []InstancesAgree
BY InvSuffices, PluginInvariant, PTL

-----------------------------------------------------------------------------
(***************************************************************************)
(* The two together, as they are run: what holds of each holds of both.    *)
(***************************************************************************)

\* A behaviour of the run is one of either part, the other resting.
THEOREM ControlIsBoth == ControlSpec => DeviceSpec /\ PluginSpec
<1>1. ControlInit => DeviceInit /\ PluginInit
  BY DEF ControlInit
<1>2. [ControlNext]_ControlVars => [DeviceNext]_deviceVars /\ [PluginNext]_pluginVars
  BY DEF ControlNext, ControlVars, DeviceRests, PluginRests
<1> QED
  BY <1>1, <1>2, PTL DEF ControlSpec, DeviceSpec, PluginSpec

\* The state of the devices and of the plugins has its type throughout.
THEOREM ControlTyped == ControlSpec => []ControlTypeOK
<1>1. DeviceTypeOK /\ PluginTypeOK => ControlTypeOK
  BY DEF ControlTypeOK
<1> QED
  BY <1>1, ControlIsBoth, DeviceTyped, PluginTyped, PTL
=============================================================================
