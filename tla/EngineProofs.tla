---------------------------- MODULE EngineProofs -----------------------------
(***************************************************************************)
(* Proofs about how graphs and plugins get to the audio callback:          *)
(* ProjectSync, for any number of graphs, edits and timeouts, and          *)
(* PluginBridge, for any number of passes, loads and barriers that time    *)
(* out.                                                                    *)
(***************************************************************************)
EXTENDS MCEngine, TLAPS

-----------------------------------------------------------------------------
(***************************************************************************)
(* ProjectSync.                                                            *)
(*                                                                         *)
(* A handler turns a state of the UI into another, so what it does is      *)
(* stated of any state s: it stays well formed (Formed), it launches at    *)
(* most one load and only when none is in flight (Follows), and it leaves  *)
(* no edit unaccounted for (Kept).                                         *)
(***************************************************************************)

OrNone == Graphs \cup {NoGraph}

UiStates ==
  [current : Graphs, dirty : BOOLEAN, inFlight : BOOLEAN, generation : Nat,
   running : OrNone, published : OrNone, lastFailed : OrNone, pending : OrNone,
   pendingForce : BOOLEAN, playAfter : BOOLEAN]

Formed(s) ==
  /\ s \in UiStates
  /\ s.inFlight = (s.running # NoGraph)
  /\ s.pending # NoGraph => s.inFlight
  /\ s.pendingForce => s.pending # NoGraph

\* Nothing was launched, or a first load after a last one.
Follows(s, r) ==
  /\ s.published = r.published /\ s.lastFailed = r.lastFailed
  /\ \/ s.generation = r.generation /\ s.inFlight = r.inFlight /\ s.running = r.running
     \/ s.generation = r.generation + 1 /\ s.inFlight /\ ~r.inFlight

\* An edit is dirty, being loaded, pending, or was dealt with.
Kept(s) ==
  ~s.dirty => s.current \in IF s.inFlight THEN {s.running, s.pending}
                            ELSE {s.published, s.lastFailed}

-----------------------------------------------------------------------------
(* What the handlers do to a state.                                        *)

LEMMA CommittedFacts ==
  ASSUME NEW r, Formed(r), NEW force \in BOOLEAN
  PROVE  LET s == Committed(r, force) IN Formed(s) /\ Follows(s, r) /\ Kept(s)
<1> DEFINE s == Committed(r, force)
<1> USE ProjectSyncAssumption DEF Formed, UiStates, OrNone, Follows, Kept
<1>1. CASE r.inFlight
  <2>1. s = Folded(r, force)
    BY <1>1 DEF Committed
  <2>2. CASE force \/ ChangedInFlight(r)
    <3>1. s = [r EXCEPT !.pending = r.current, !.pendingForce = r.pendingForce \/ force,
                        !.dirty = FALSE]
      BY <2>1, <2>2 DEF Folded
    <3>2. /\ s.pending = r.current /\ s.dirty = FALSE
          /\ s.pendingForce = (r.pendingForce \/ force)
          /\ s.current = r.current /\ s.inFlight = r.inFlight /\ s.generation = r.generation
          /\ s.running = r.running /\ s.published = r.published /\ s.lastFailed = r.lastFailed
      BY <3>1
    <3>3. s \in UiStates /\ r.current # NoGraph
      BY <3>1
    <3> HIDE DEF s
    <3>4. Formed(s)
      <4>1. /\ s.inFlight = (s.running # NoGraph) /\ s.pending # NoGraph /\ s.inFlight
        BY <1>1, <3>2, <3>3
      <4> QED
        BY <3>3, <4>1
    <3>5. Follows(s, r)
      BY <3>2
    <3>6. Kept(s)
      BY <1>1, <3>2
    <3> QED
      BY ONLY <3>4, <3>5, <3>6 DEF s
  <2>3. CASE ~(force \/ ChangedInFlight(r))
    BY <1>1, <2>1, <2>3 DEF Folded, ChangedInFlight
  <2> QED  BY <2>2, <2>3
<1>2. CASE ~r.inFlight /\ ~force /\ r.current \in {r.published, r.lastFailed}
  BY <1>2 DEF Committed, Deduplicated
<1>3. CASE ~r.inFlight /\ ~(~force /\ r.current \in {r.published, r.lastFailed})
  <2>1. s = [r EXCEPT !.dirty = FALSE, !.inFlight = TRUE, !.running = r.current,
                      !.generation = r.generation + 1]
    BY <1>3 DEF Committed, Launched
  <2>2. r.generation + 1 \in Nat /\ r.current \in Graphs /\ r.current # NoGraph
    OBVIOUS
  <2>3. s \in UiStates
    BY <2>1, <2>2
  <2>4. /\ s.inFlight = TRUE /\ s.running = r.current /\ s.generation = r.generation + 1
        /\ s.pending = r.pending /\ s.pendingForce = r.pendingForce /\ s.current = r.current
        /\ s.published = r.published /\ s.lastFailed = r.lastFailed
    BY <2>1
  <2> QED  BY <1>3, <2>2, <2>3, <2>4
<1> QED  BY <1>1, <1>2, <1>3

\* A change of what the timeline shows and of the flags launches nothing.
LEMMA FollowsOn ==
  ASSUME NEW s, NEW r, NEW q, Follows(s, r), r.published = q.published,
         r.lastFailed = q.lastFailed, r.generation = q.generation, r.inFlight = q.inFlight,
         r.running = q.running
  PROVE  Follows(s, q)
BY DEF Follows

LEMMA ScheduledFacts ==
  ASSUME NEW r, Formed(r), NEW force \in BOOLEAN, NEW s \in Scheduled(r, force)
  PROVE  Formed(s) /\ Follows(s, r) /\ (Kept(r) => Kept(s))
<1>1. s = r \/ s = Committed(r, force)
  BY DEF Scheduled
<1>2. Follows(r, r)
  BY DEF Follows
<1> QED  BY <1>1, <1>2, CommittedFacts

LEMMA StartedFacts ==
  ASSUME NEW r, Formed(r), NEW s \in Started(r)
  PROVE  Formed(s) /\ Follows(s, r) /\ (Kept(r) => Kept(s))
<1> DEFINE waiting == [r EXCEPT !.playAfter = TRUE]
<1>1. /\ waiting.current = r.current /\ waiting.dirty = r.dirty
      /\ waiting.inFlight = r.inFlight /\ waiting.generation = r.generation
      /\ waiting.running = r.running /\ waiting.published = r.published
      /\ waiting.lastFailed = r.lastFailed /\ waiting.pending = r.pending
      /\ waiting.pendingForce = r.pendingForce /\ waiting \in UiStates
  BY DEF Formed, UiStates
<1>2. Formed(waiting) /\ (Kept(r) => Kept(waiting)) /\ Follows(waiting, r)
  BY <1>1 DEF Formed, Kept, Follows
<1>3. CASE r.inFlight
  BY <1>2, <1>3 DEF Started
<1>4. CASE ~r.inFlight /\ r.dirty
  <2>1. s \in Scheduled(waiting, FALSE)
    BY <1>4 DEF Started
  <2> HIDE DEF waiting
  <2>2. Formed(s) /\ Follows(s, waiting) /\ (Kept(waiting) => Kept(s))
    BY <1>2, <2>1, ScheduledFacts
  <2> QED  BY <1>1, <1>2, <2>2, FollowsOn
<1>5. CASE ~r.inFlight /\ ~r.dirty
  BY <1>5 DEF Started, Follows
<1> QED  BY <1>3, <1>4, <1>5

LEMMA FinishedFacts ==
  ASSUME Formed(ui), NEW ld, ld.graph \in Graphs
  PROVE  LET f == Finished(ld) IN
         /\ f \in UiStates /\ f.running = NoGraph /\ ~f.inFlight /\ f.generation = ui.generation
         /\ f.current = ui.current /\ f.dirty = ui.dirty /\ f.pending = ui.pending
         /\ f.pendingForce = ui.pendingForce
         /\ ld.state # "published" => f.published = ui.published /\ f.lastFailed = ui.running
         /\ ld.state = "published" => f.published = PublishedBy(ld)
         /\ ui.running # NoGraph => ui.running \in {f.published, f.lastFailed}
<1> DEFINE f == Finished(ld)
<1> USE DEF Formed, UiStates, OrNone, StillRunning, PublishedBy
<1>1. CASE ld.state = "published"
  <2>1. f = [ui EXCEPT !.inFlight = FALSE, !.running = NoGraph,
                       !.published = PublishedBy(ld), !.lastFailed = NoGraph]
    BY <1>1 DEF Finished
  <2>2. PublishedBy(ld) \in OrNone /\ (ui.running # NoGraph => PublishedBy(ld) = ui.running)
    OBVIOUS
  <2> HIDE DEF PublishedBy
  <2> QED  BY <1>1, <2>1, <2>2
<1>2. CASE ld.state # "published"
  <2>1. f = [ui EXCEPT !.inFlight = FALSE, !.running = NoGraph, !.lastFailed = ui.running]
    BY <1>2 DEF Finished
  <2> QED  BY <1>2, <2>1
<1> QED  BY <1>1, <1>2

\* What the pending request and a deferred Play make of an ended sync.
LEMMA AfterFacts ==
  ASSUME Formed(ui), ui.inFlight, NEW ld, ld.graph \in Graphs,
         NEW s \in AfterPending(Finished(ld))
  PROVE  /\ Formed(s) /\ (Kept(ui) => Kept(s))
         /\ s.published = Finished(ld).published
         /\ \/ s.generation = ui.generation /\ ~s.inFlight
            \/ s.generation = ui.generation + 1 /\ s.inFlight
<1> DEFINE f == Finished(ld)
           taken == [f EXCEPT !.pending = NoGraph, !.pendingForce = FALSE]
           again == [taken EXCEPT !.dirty = TRUE]
           idle == [taken EXCEPT !.playAfter = FALSE]
<1>1. /\ f \in UiStates /\ f.running = NoGraph /\ ~f.inFlight /\ f.generation = ui.generation
      /\ f.current = ui.current /\ f.dirty = ui.dirty /\ f.pending = ui.pending
      /\ ui.running \in {f.published, f.lastFailed}
  BY FinishedFacts DEF Formed
<1> HIDE DEF f
<1>2. ASSUME NEW r \in {taken, again, idle}
      PROVE  /\ r \in UiStates /\ r.running = NoGraph /\ ~r.inFlight
             /\ r.pending = NoGraph /\ ~r.pendingForce /\ r.generation = ui.generation
             /\ r.current = ui.current /\ r.published = f.published /\ r.lastFailed = f.lastFailed
             /\ r = again => r.dirty
             /\ r # again => r.dirty = ui.dirty
  <2>1. taken \in UiStates /\ again \in UiStates /\ idle \in UiStates
    BY <1>1 DEF UiStates, OrNone
  <2>2. /\ again.dirty /\ taken.dirty = ui.dirty /\ idle.dirty = ui.dirty
        /\ \A q \in {taken, again, idle} :
             /\ q.running = NoGraph /\ ~q.inFlight /\ q.pending = NoGraph /\ ~q.pendingForce
             /\ q.generation = ui.generation /\ q.current = ui.current
             /\ q.published = f.published /\ q.lastFailed = f.lastFailed
    BY <1>1 DEF UiStates
  <2> HIDE DEF taken, again, idle
  <2> QED
    BY <2>1, <2>2
<1> HIDE DEF taken, again, idle
<1>3. ASSUME NEW r \in {taken, again, idle} PROVE Formed(r)
  <2>1. r.inFlight \in BOOLEAN
    BY <1>2, <1>3 DEF UiStates
  <2> QED  BY <1>2, <1>3, <2>1 DEF Formed
<1>4. CASE NeedsPending(f)
  <2>1. f.pendingForce \in BOOLEAN
    BY <1>1 DEF UiStates
  <2>2. s \in Scheduled(again, f.pendingForce)
    BY <1>4 DEF AfterPending, f, taken, again
  <2>3. Formed(s) /\ Follows(s, again) /\ (Kept(again) => Kept(s))
    BY <1>3, <2>1, <2>2, ScheduledFacts
  <2>4. Kept(again)
    BY <1>2 DEF Kept
  <2> QED  BY <1>2, <2>3, <2>4 DEF Follows, f
<1>5. ASSUME ~NeedsPending(f), NEW r \in {taken, idle}, Kept(ui) PROVE Kept(r)
  <2>1. CASE ui.dirty
    BY <1>1, <1>2, <1>5, <2>1 DEF Kept
  <2>2. CASE ~ui.dirty
    <3>1. ui.current \in {ui.running, ui.pending}
      BY <1>5, <2>2 DEF Kept
    <3>2. ui.current # NoGraph
      BY ProjectSyncAssumption DEF Formed, UiStates
    <3>3. ui.current \in {f.published, f.lastFailed}
      BY <1>1, <1>5, <3>1, <3>2 DEF NeedsPending
    <3> QED  BY <1>2, <1>5, <3>3 DEF Kept
  <2> QED  BY <2>1, <2>2
<1>6. CASE ~NeedsPending(f) /\ f.playAfter
  <2>1. s \in Started(idle)
    BY <1>6 DEF AfterPending, f, taken, idle
  <2>2. Formed(s) /\ Follows(s, idle) /\ (Kept(idle) => Kept(s))
    BY <1>3, <2>1, StartedFacts
  <2> QED  BY <1>2, <1>5, <1>6, <2>2 DEF Follows, f
<1>7. CASE ~NeedsPending(f) /\ ~f.playAfter
  <2>1. s = taken
    BY <1>7 DEF AfterPending, f, taken
  <2> QED  BY <1>2, <1>3, <1>5, <1>7, <2>1 DEF f
<1> QED  BY <1>4, <1>6, <1>7

-----------------------------------------------------------------------------
(* The loads.                                                              *)

LoadSet == [gen : Nat, graph : Graphs, state : {"loading", "published", "failed"}]

\* One load at most in each generation, none ahead of the UI's.
Distinct(ls, generation) ==
  /\ ls \subseteq LoadSet
  /\ \A l \in ls : l.gen <= generation
  /\ \A l, k \in ls : l.gen = k.gen => l = k

\* The load of the current generation is there while it is in flight, and is
\* that of the running fingerprint.
Tracked(s, ls) ==
  /\ s.inFlight = \E l \in ls : l.gen = s.generation
  /\ \A l \in ls : l.gen = s.generation => l.graph = s.running

\* Without a timeout there is no other load, and the engine has its graph once
\* it was sent.
UpToDate(s, ls) ==
  /\ \A l \in ls : l.gen = s.generation
  /\ \A l \in ls : l.state = "published" => engine = l.graph
  /\ (\A l \in ls : l.state # "published") => engine = s.published

SyncInv ==
  /\ Formed(ui) /\ Distinct(loads, ui.generation) /\ Tracked(ui, loads)
  /\ engine \in OrNone /\ edits \in Nat /\ timeouts \in Nat
  /\ timeouts = 0 => Kept(ui) /\ UpToDate(ui, loads)

\* A state with the loads it has, or with one more.
LEMMA BecomesFacts ==
  ASSUME Formed(ui), NEW s, Formed(s), NEW others, Distinct(others, ui.generation), Becomes(s, others),
         \/ s.generation = ui.generation /\ Tracked(s, others)
         \/ s.generation = ui.generation + 1 /\ s.inFlight
  PROVE  /\ Formed(ui') /\ Distinct(loads', ui'.generation) /\ Tracked(ui', loads')
         /\ \/ s.generation = ui.generation /\ loads' = others
            \/ \E l : loads' = others \cup {l} /\ l.gen = s.generation /\ l.state = "loading"
<1>1. ui' = s /\ ui.generation \in Nat /\ s.inFlight \in BOOLEAN
  BY DEF Becomes, Formed, UiStates
<1>2. CASE s.generation = ui.generation /\ Tracked(s, others)
  BY <1>1, <1>2 DEF Becomes
<1>3. CASE s.generation = ui.generation + 1 /\ s.inFlight
  <2> DEFINE l == Load(s.generation, s.running)
  <2>1. l.gen = s.generation /\ l.graph = s.running /\ l.state = "loading"
    BY DEF Load
  <2>2. l \in LoadSet
    BY <1>1, <1>3 DEF Load, LoadSet, Formed, UiStates, OrNone
  <2>3. loads' = others \cup {l}
    BY <1>1, <1>3 DEF Becomes
  <2> HIDE DEF l
  <2>4. \A k \in others : k.gen \in Nat /\ k.gen < s.generation
    BY <1>1, <1>3 DEF Distinct, LoadSet
  <2>5. Distinct(loads', s.generation)
    BY <1>1, <1>3, <2>1, <2>2, <2>3, <2>4 DEF Distinct
  <2>6. Tracked(s, loads')
    BY <1>3, <2>1, <2>3, <2>4 DEF Tracked
  <2> QED  BY <1>1, <2>1, <2>3, <2>5, <2>6
<1> QED  BY <1>2, <1>3

-----------------------------------------------------------------------------
(* The steps.                                                              *)

\* Edit, Poll and Play: at most a first load is launched.
LEMMA UiStep ==
  ASSUME SyncInv, NEW s, Formed(s), Follows(s, ui), timeouts = 0 => Kept(s),
         Becomes(s, loads), edits' \in Nat, UNCHANGED <<engine, timeouts>>
  PROVE  SyncInv'
<1>1. ui' = s
  BY DEF Becomes
<1>2. \/ s.generation = ui.generation /\ Tracked(s, loads)
      \/ s.generation = ui.generation + 1 /\ s.inFlight
  BY DEF Follows, SyncInv, Tracked
<1>3. /\ Distinct(loads', ui'.generation) /\ Tracked(ui', loads')
      /\ \/ s.generation = ui.generation /\ loads' = loads
         \/ \E l : loads' = loads \cup {l} /\ l.gen = s.generation /\ l.state = "loading"
  BY <1>2, BecomesFacts DEF SyncInv
<1>4. ASSUME timeouts = 0 PROVE UpToDate(ui, loads)'
  <2>1. UpToDate(ui, loads) /\ Tracked(ui, loads) /\ s.published = ui.published
    BY <1>4 DEF SyncInv, Follows
  <2>2. CASE s.generation = ui.generation
    <3>1. loads' = loads
      BY <2>2 DEF Becomes
    <3> QED  BY <1>1, <2>1, <2>2, <3>1 DEF UpToDate
  <2>3. CASE s.generation # ui.generation
    <3>1. ~ui.inFlight
      BY <2>3 DEF Follows
    <3>2. loads = {}
      BY <2>1, <3>1 DEF UpToDate, Tracked
    <3>3. PICK l : loads' = {l} /\ l.gen = s.generation /\ l.state = "loading"
      BY <1>3, <2>3, <3>2
    <3> QED  BY <1>1, <2>1, <3>2, <3>3 DEF UpToDate
  <2> QED  BY <2>2, <2>3
<1> QED  BY <1>1, <1>3, <1>4 DEF SyncInv

\* A change of what the timeline shows.
LEMMA EditStep ==
  ASSUME SyncInv, NEW g \in Graphs, NEW force \in BOOLEAN, Edit(g, force)
  PROVE  SyncInv'
<1> DEFINE r == [ui EXCEPT !.current = g, !.dirty = TRUE]
<1>1. /\ r \in UiStates /\ r.dirty /\ r.inFlight = ui.inFlight /\ r.generation = ui.generation
      /\ r.running = ui.running /\ r.published = ui.published /\ r.lastFailed = ui.lastFailed
      /\ r.pending = ui.pending /\ r.pendingForce = ui.pendingForce
  BY DEF SyncInv, Formed, UiStates
<1>2. Formed(r) /\ Kept(r)
  BY <1>1 DEF SyncInv, Formed, Kept
<1>3. PICK s \in Scheduled(r, force) : Becomes(s, loads)
  BY DEF Edit
<1> HIDE DEF r
<1>4. Formed(s) /\ Follows(s, r) /\ Kept(s)
  BY <1>2, <1>3, ScheduledFacts
<1>5. Follows(s, ui)
  BY <1>1, <1>4, FollowsOn
<1> QED  BY <1>3, <1>4, <1>5, UiStep DEF Edit, SyncInv

LEMMA PollStep == SyncInv /\ Poll => SyncInv'
<1> SUFFICES ASSUME SyncInv, Poll PROVE SyncInv'
  OBVIOUS
<1> DEFINE s == Committed(ui, FALSE)
<1>1. Formed(s) /\ Follows(s, ui) /\ Kept(s)
  BY CommittedFacts DEF SyncInv
<1>2. Becomes(s, loads)
  BY DEF Poll
<1> HIDE DEF s
<1> QED  BY <1>1, <1>2, UiStep DEF Poll, SyncInv

LEMMA PlayStep == SyncInv /\ Play => SyncInv'
<1> SUFFICES ASSUME SyncInv, Play PROVE SyncInv'
  OBVIOUS
<1>1. PICK s \in Started(ui) : Becomes(s, loads)
  BY DEF Play
<1>2. Formed(s) /\ Follows(s, ui) /\ (Kept(ui) => Kept(s))
  BY <1>1, StartedFacts DEF SyncInv
<1> QED  BY <1>1, <1>2, UiStep DEF Play, SyncInv

\* A load that was not superseded: it is the only one of its generation.
LEMMA FreshStep ==
  ASSUME SyncInv, NEW ld \in loads, ld.state # "loading", Fresh(ld), Complete(ld)
  PROVE  SyncInv'
<1> DEFINE others == loads \ {ld}
<1>1. ld.gen = ui.generation /\ ld.graph = ui.running /\ ui.inFlight /\ ld.graph \in Graphs
  BY DEF SyncInv, Tracked, Distinct, LoadSet, Fresh
<1>2. Distinct(others, ui.generation) /\ \A l \in others : l.gen # ui.generation
  BY <1>1 DEF SyncInv, Distinct
<1>3. PICK s \in AfterPending(Finished(ld)) : Becomes(s, others)
  BY DEF Complete
<1>4. /\ Formed(s) /\ (Kept(ui) => Kept(s)) /\ s.published = Finished(ld).published
      /\ \/ s.generation = ui.generation /\ ~s.inFlight
         \/ s.generation = ui.generation + 1 /\ s.inFlight
  BY <1>1, <1>3, AfterFacts DEF SyncInv
<1>5. s.generation = ui.generation /\ ~s.inFlight => Tracked(s, others)
  <2>1. s.inFlight \in BOOLEAN
    BY <1>4 DEF Formed, UiStates
  <2> QED  BY <1>2, <2>1 DEF Tracked
<1> HIDE DEF others
<1>6. /\ Formed(ui') /\ Distinct(loads', ui'.generation) /\ Tracked(ui', loads')
      /\ \/ s.generation = ui.generation /\ loads' = others
         \/ \E l : loads' = others \cup {l} /\ l.gen = s.generation /\ l.state = "loading"
  BY <1>2, <1>3, <1>4, <1>5, BecomesFacts DEF SyncInv
<1>7. ui' = s /\ UNCHANGED <<engine, edits, timeouts>>
  BY <1>3 DEF Becomes, Complete
<1>8. ASSUME timeouts = 0 PROVE UpToDate(ui, loads)'
  <2>1. UpToDate(ui, loads)
    BY <1>8 DEF SyncInv
  <2>2. others = {} /\ loads = {ld}
    BY <1>2, <2>1 DEF UpToDate, others
  <2>3. engine = Finished(ld).published
    <3>1. CASE ld.state = "published"
      <4>1. engine = ld.graph
        BY <2>1, <3>1 DEF UpToDate
      <4>2. ui.running # NoGraph
        BY <1>1 DEF SyncInv, Formed
      <4> QED  BY <1>1, <3>1, <4>1, <4>2, FinishedFacts DEF SyncInv, PublishedBy
    <3>2. CASE ld.state # "published"
      <4>1. engine = ui.published
        BY <2>1, <2>2, <3>2 DEF UpToDate
      <4> QED  BY <1>1, <3>2, <4>1, FinishedFacts DEF SyncInv
    <3> QED  BY <3>1, <3>2
  <2>4. engine' = ui'.published
    BY <1>4, <1>7, <2>3
  <2>5. loads' = {} \/ \E l : loads' = {l} /\ l.gen = ui'.generation /\ l.state = "loading"
    BY <1>6, <1>7, <2>2
  <2> QED  BY <2>4, <2>5 DEF UpToDate
<1> QED  BY <1>4, <1>6, <1>7, <1>8 DEF SyncInv

LEMMA CompleteStep ==
  ASSUME SyncInv, NEW ld \in loads, Complete(ld)
  PROVE  SyncInv'
<1>1. ld.state # "loading"
  BY DEF Complete
<1>2. CASE Fresh(ld)
  BY <1>1, <1>2, FreshStep
<1>3. CASE ~Fresh(ld)
  <2>1. ui' = ui /\ loads' = loads \ {ld} /\ UNCHANGED <<engine, edits, timeouts>>
    BY <1>3 DEF Complete
  <2>2. timeouts # 0
    BY <1>3 DEF SyncInv, UpToDate, Fresh
  <2>3. Distinct(loads', ui.generation) /\ Tracked(ui, loads')
    BY <1>3, <2>1 DEF SyncInv, Distinct, Tracked, Fresh
  <2> QED  BY <2>1, <2>2, <2>3 DEF SyncInv
<1> QED  BY <1>2, <1>3

\* The load keeps its generation and its graph.
LEMMA LoadEndsStep ==
  ASSUME SyncInv, NEW ld \in loads, LoadEnds(ld)
  PROVE  SyncInv'
<1>1. PICK state \in {"published", "failed"} :
        /\ Ended(ld, state)
        /\ state = "published" => engine' = ld.graph
        /\ state = "failed" => engine' = engine
  BY DEF LoadEnds
<1>2. ld.state = "loading" /\ ui' = ui /\ edits' = edits /\ timeouts' = timeouts
  BY DEF LoadEnds
<1> DEFINE ended == [ld EXCEPT !.state = state]
<1>3. ld \in LoadSet
  BY DEF SyncInv, Distinct
<1>4. ended \in LoadSet /\ ended.gen = ld.gen /\ ended.graph = ld.graph /\ ended.state = state
  BY <1>3 DEF LoadSet
<1>5. loads' = (loads \ {ld}) \cup {ended}
  BY <1>1 DEF Ended
<1> HIDE DEF ended
<1>6. Distinct(loads', ui.generation) /\ Tracked(ui, loads')
  BY <1>4, <1>5 DEF SyncInv, Distinct, Tracked
<1>7. engine' \in OrNone
  BY <1>1, <1>3 DEF SyncInv, LoadSet, OrNone
<1>8. ASSUME timeouts = 0 PROVE UpToDate(ui, loads)'
  <2>1. UpToDate(ui, loads) /\ Distinct(loads, ui.generation)
    BY <1>8 DEF SyncInv
  <2>2. loads = {ld} /\ loads' = {ended}
    BY <1>5, <2>1 DEF UpToDate, Distinct
  <2>3. ended.gen = ui.generation
    BY <1>4, <2>1 DEF UpToDate
  <2>4. CASE state = "published"
    BY <1>1, <1>2, <1>4, <2>2, <2>3, <2>4 DEF UpToDate
  <2>5. CASE state = "failed"
    <3>1. engine = ui.published
      BY <1>2, <2>1, <2>2 DEF UpToDate
    <3> QED  BY <1>1, <1>2, <1>4, <2>2, <2>3, <2>5, <3>1 DEF UpToDate
  <2> QED  BY <2>4, <2>5
<1> QED  BY <1>2, <1>6, <1>7, <1>8 DEF SyncInv

\* A generation without a load; what was pending or dirty is forgotten.
LEMMA TimeoutStep == SyncInv /\ Timeout => SyncInv'
<1> SUFFICES ASSUME SyncInv, Timeout PROVE SyncInv'
  OBVIOUS
<1>1. /\ ui' = [ui EXCEPT !.generation = ui.generation + 1, !.inFlight = FALSE,
                        !.lastFailed = ui.running, !.running = NoGraph,
                        !.pending = NoGraph, !.pendingForce = FALSE, !.dirty = FALSE]
      /\ timeouts' = timeouts + 1 /\ UNCHANGED <<loads, engine, edits>>
  BY DEF Timeout
<1>2. ui.generation \in Nat /\ ui \in UiStates
  BY DEF SyncInv, Formed, UiStates
<1>3. ui.generation + 1 \in Nat /\ ui.running \in OrNone /\ NoGraph \in OrNone
  BY <1>2 DEF UiStates, OrNone
<1>4. /\ ui' \in UiStates /\ ui'.generation = ui.generation + 1 /\ ui'.inFlight = FALSE
      /\ ui'.running = NoGraph /\ ui'.pending = NoGraph /\ ui'.pendingForce = FALSE
  BY <1>1, <1>2, <1>3 DEF UiStates
<1>5. \A l \in loads : l \in LoadSet /\ l.gen \in Nat /\ l.gen < ui'.generation
  BY <1>2, <1>4 DEF SyncInv, Distinct, LoadSet
<1>6. Distinct(loads', ui'.generation)
  <2>1. \A l, k \in loads : l.gen = k.gen => l = k
    BY DEF SyncInv, Distinct
  <2>2. \A l \in loads : l.gen <= ui'.generation
    BY <1>2, <1>4, <1>5
  <2> QED  BY <1>1, <1>5, <2>1, <2>2 DEF Distinct
<1>7. Tracked(ui', loads')
  <2>1. \A l \in loads : l.gen # ui'.generation
    BY <1>2, <1>4, <1>5
  <2> QED  BY <1>1, <1>4, <2>1 DEF Tracked
<1>8. Formed(ui')
  BY <1>4 DEF Formed
<1>9. timeouts' \in Nat /\ timeouts' # 0
  BY <1>1 DEF SyncInv
<1> QED  BY <1>1, <1>6, <1>7, <1>8, <1>9 DEF SyncInv

LEMMA SyncInvariant == SyncSpec => []SyncInv
<1>1. SyncInit => SyncInv
  <2> SUFFICES ASSUME SyncInit PROVE SyncInv
    OBVIOUS
  <2>1. /\ ui \in UiStates /\ ui.dirty = TRUE /\ ui.inFlight = FALSE /\ ui.running = NoGraph
        /\ ui.published = NoGraph /\ ui.pending = NoGraph /\ ui.pendingForce = FALSE
    BY DEF SyncInit, UiStates, OrNone
  <2>2. Formed(ui) /\ Kept(ui)
    BY <2>1 DEF Formed, Kept
  <2>3. loads = {} /\ engine = NoGraph /\ edits = 0 /\ timeouts = 0
    BY DEF SyncInit
  <2>4. Distinct(loads, ui.generation) /\ Tracked(ui, loads) /\ UpToDate(ui, loads)
    BY <2>1, <2>3 DEF Distinct, Tracked, UpToDate
  <2> QED  BY <2>2, <2>3, <2>4 DEF SyncInv, OrNone
<1>2. SyncInv /\ [SyncNext]_syncVars => SyncInv'
  <2> SUFFICES ASSUME SyncInv, [SyncNext]_syncVars PROVE SyncInv'
    OBVIOUS
  <2>1. CASE \E g \in Graphs, force \in BOOLEAN : Edit(g, force)
    BY <2>1, EditStep
  <2>2. CASE Poll
    BY <2>2, PollStep
  <2>3. CASE Play
    BY <2>3, PlayStep
  <2>4. CASE Timeout
    BY <2>4, TimeoutStep
  <2>5. CASE \E ld \in loads : Complete(ld) \/ LoadEnds(ld)
    BY <2>5, CompleteStep, LoadEndsStep
  <2>6. CASE UNCHANGED syncVars
    BY <2>6 DEF syncVars, SyncInv, UpToDate
  <2> QED  BY <2>1, <2>2, <2>3, <2>4, <2>5, <2>6 DEF SyncNext
<1> QED  BY <1>1, <1>2, PTL DEF SyncSpec

-----------------------------------------------------------------------------

\* The fingerprints of audio_transport.rs agree with the flags: running_fingerprint
\* is set exactly during a sync, and a pending request is there only then.
THEOREM SyncTyped == SyncSpec => []SyncTypeOK
<1>1. SyncInv => SyncTypeOK
  BY DEF SyncInv, SyncTypeOK, Formed, UiStates, OrNone, Distinct, LoadSet
<1> QED  BY <1>1, SyncInvariant, PTL

\* schedule_audio_project_sync never launches a second load while one is in
\* flight, and the completion of an orphan never ends the sync that superseded
\* it, however often the watchdog fires.
THEOREM OneLoadInFlight == SyncSpec => []InFlightHasItsLoad
<1>1. SyncInv => InFlightHasItsLoad
  BY DEF SyncInv, Tracked, InFlightHasItsLoad
<1> QED  BY <1>1, SyncInvariant, PTL

\* However edits are folded into a load, deferred by the burst window or
\* deduplicated against the last graphs, none is lost without a timeout.
THEOREM NoEditForgotten == SyncSpec => []NothingForgotten
<1>1. SyncInv => NothingForgotten
  BY DEF SyncInv, Kept, NothingForgotten
<1> QED  BY <1>1, SyncInvariant, PTL

\* graph_fingerprint is that of the graph the audio thread has whenever no load
\* is under way and none was given up on.
THEOREM PublishedIsHeard == SyncSpec => []PublishedWithoutTimeout
<1>1. SyncInv => PublishedWithoutTimeout
  BY DEF SyncInv, UpToDate, PublishedWithoutTimeout
<1> QED  BY <1>1, SyncInvariant, PTL

-----------------------------------------------------------------------------
(***************************************************************************)
(* PluginBridge.  Engine and host keep off each other's buffers.           *)
(*                                                                         *)
(* BuffersApart follows from how far the two numbers can be apart: as long *)
(* as nothing overran, one request is out at most (OneRequest), it is the  *)
(* one the host works on, and a driver that holds a buffer holds it with   *)
(* no request out (HoldsNothingOut).  That a read of the newest answer     *)
(* leaves an idle host, also after an overrun, needs the order of the      *)
(* three numbers (InOrder).                                                *)
(***************************************************************************)

\* What the arithmetic needs of the types.
Counted ==
  /\ request \in Nat /\ done \in Nat
  /\ host.at \in {"idle", "copyIn", "writeOut"} /\ host.req \in Nat
  /\ host = [at |-> host.at, req |-> host.req]
  /\ overrun \in BOOLEAN

Threads == {"callback", "worker"}

Steps == InBlock \cup {"idle", "render", "closed", "detach", "barrier", "between", "restore"}

Drivers == driver \in [Threads -> Steps]

\* The host never answers what was not asked, and never twice.
InOrder ==
  /\ done <= request
  /\ host.at # "idle" => done < host.req /\ host.req <= request

\* A driver that holds one of the buffers.
Holds(d) == driver[d] \in {"copyOut", "write"}

OneRequest == request <= 1

\* No request is out, read or unread, and nobody else has a buffer.
HoldsNothingOut ==
  \A d \in DOMAIN driver : Holds(d) =>
    request = 0 /\ \A other \in DOMAIN driver \ {d} : ~Holds(other)

BridgeInv ==
  /\ Counted /\ Drivers /\ InOrder
  /\ ~overrun => OneRequest /\ HoldsNothingOut

-----------------------------------------------------------------------------

\* The invariant says enough.
LEMMA InvSuffices == BridgeInv => BuffersApart
<1> SUFFICES ASSUME BridgeInv, ~overrun
             PROVE  /\ host.at = "copyIn" => \A d \in DOMAIN driver : ~On(d, "write")
                    /\ host.at = "writeOut" => \A d \in DOMAIN driver : ~On(d, "copyOut")
  BY DEF BuffersApart
<1>1. host.at # "idle" => request # 0
  BY DEF BridgeInv, InOrder, Counted
<1>2. \A d \in DOMAIN driver : Holds(d) => request = 0
  BY DEF BridgeInv, HoldsNothingOut
<1> QED  BY <1>1, <1>2 DEF On, Holds

LEMMA InvInit == BridgeInit => BridgeInv
<1> SUFFICES ASSUME BridgeInit PROVE BridgeInv
  OBVIOUS
<1>1. driver = [callback |-> "idle", worker |-> "closed"]
  BY DEF BridgeInit
<1>2. Drivers /\ \A d \in DOMAIN driver : ~Holds(d)
  BY <1>1 DEF Drivers, Threads, Steps, InBlock, Holds
<1>3. host.at = "idle" /\ host.req = 0 /\ host = [at |-> "idle", req |-> 0]
  BY DEF BridgeInit, Idle
<1>4. request = 0 /\ done = 0 /\ overrun \in BOOLEAN
  BY DEF BridgeInit
<1>5. Counted /\ InOrder /\ OneRequest
  BY <1>3, <1>4 DEF Counted, InOrder, OneRequest
<1> QED  BY <1>2, <1>5 DEF BridgeInv, HoldsNothingOut

-----------------------------------------------------------------------------
(* The steps.                                                              *)

\* A move of one driver leaves the other where it was.
LEMMA Moved ==
  ASSUME Drivers, NEW d \in Threads, NEW step \in Steps, Move(d, step)
  PROVE  /\ Drivers'
         /\ driver'[d] = step
         /\ \A other \in Threads \ {d} : driver'[other] = driver[other]
BY DEF Drivers, Move

\* Steps outside of the handshake, after which no driver holds a buffer that
\* did not hold it before.
LEMMA Elsewhere ==
  ASSUME BridgeInv, UNCHANGED <<handshake, overrun>>, Drivers',
         \A d \in Threads : Holds(d)' => Holds(d)
  PROVE  BridgeInv'
<1>1. DOMAIN driver = Threads /\ DOMAIN driver' = Threads
  BY DEF BridgeInv, Drivers
<1> QED  BY <1>1 DEF BridgeInv, Counted, InOrder, OneRequest, HoldsNothingOut, handshake

LEMMA HostKeeps ==
  ASSUME BridgeInv, HostStep
  PROVE  BridgeInv'
<1>1. UNCHANGED <<driver, overrun>>
  BY DEF HostStep, HostTakes, HostGoesOn
<1>2. Counted' /\ InOrder' /\ request' = request
  <2>1. CASE HostTakes
    BY <2>1 DEF HostTakes, BridgeInv, Counted, InOrder
  <2>2. CASE HostGoesOn
    BY <2>2 DEF HostGoesOn, AnsweredAfter, Idle, BridgeInv, Counted, InOrder
  <2> QED  BY <2>1, <2>2 DEF HostStep
<1> QED  BY <1>1, <1>2 DEF BridgeInv, Drivers, OneRequest, HoldsNothingOut, Holds

LEMMA StartKeeps ==
  ASSUME BridgeInv, NEW d \in Threads, StartWrite(d), UNCHANGED handshake
  PROVE  BridgeInv'
<1>1. Drivers' /\ \A other \in Threads \ {d} : driver'[other] = driver[other]
  BY Moved DEF StartWrite, BridgeInv, Steps, InBlock
<1>2. DOMAIN driver = Threads /\ DOMAIN driver' = Threads
  BY <1>1 DEF BridgeInv, Drivers
<1>3. overrun' \in BOOLEAN
  BY DEF StartWrite
<1>4. Counted' /\ InOrder'
  BY <1>3 DEF BridgeInv, Counted, InOrder, handshake
<1>5. ASSUME ~overrun' PROVE OneRequest' /\ HoldsNothingOut'
  <2>1. ~Overruns(d)
    BY <1>5 DEF StartWrite
  <2>2. request = 0 /\ DrivesAlone(d)
    BY <2>1 DEF Overruns
  <2>3. \A other \in Threads \ {d} : ~Holds(other)'
    BY <2>2, <1>1, <1>2 DEF DrivesAlone, Holds, InBlock
  <2>4. request' = 0
    BY <2>2 DEF handshake
  <2> QED  BY <2>3, <2>4, <1>2 DEF OneRequest, HoldsNothingOut
<1> QED  BY <1>1, <1>4, <1>5 DEF BridgeInv

LEMMA OverKeeps ==
  ASSUME BridgeInv, NEW d \in Threads, BlockOver(d), UNCHANGED <<handshake, overrun>>
  PROVE  BridgeInv'
<1>1. Drivers' /\ ~Holds(d)' /\ \A other \in Threads \ {d} : driver'[other] = driver[other]
  BY Moved DEF BlockOver, BridgeInv, Steps, Holds
<1> QED  BY <1>1, Elsewhere DEF Holds

LEMMA ReadKeeps ==
  ASSUME BridgeInv, NEW d \in Threads, Read(d)
  PROVE  BridgeInv'
<1> DEFINE Newest == 0 < done /\ done = request /\ DrivesAlone(d)
<1>1. /\ request' = request - done /\ done' = 0
      /\ host' = IF host.at = "idle" THEN Idle ELSE [host EXCEPT !.req = @ - done]
  BY DEF Read
<1>2. Move(d, IF done = 0 THEN "check" ELSE "copyOut") /\ overrun' = (overrun /\ ~Newest)
  BY DEF Read
<1>3. /\ Drivers' /\ driver'[d] = IF done = 0 THEN "check" ELSE "copyOut"
      /\ \A other \in Threads \ {d} : driver'[other] = driver[other]
  BY <1>2, Moved DEF BridgeInv, Steps, InBlock
<1>4. DOMAIN driver = Threads /\ DOMAIN driver' = Threads
  BY <1>3 DEF BridgeInv, Drivers
<1>5. overrun' \in BOOLEAN
  BY <1>2
<1>6. request' \in Nat /\ InOrder'
  BY <1>1 DEF BridgeInv, Counted, InOrder, Idle
<1>7. /\ host'.at \in {"idle", "copyIn", "writeOut"} /\ host'.req \in Nat
      /\ host' = [at |-> host'.at, req |-> host'.req]
  BY <1>1 DEF BridgeInv, Counted, InOrder, Idle
<1>8. ASSUME ~overrun' PROVE OneRequest' /\ HoldsNothingOut'
  <2>1. CASE Newest
    <3>1. request' = 0
      BY <2>1, <1>1 DEF BridgeInv, Counted
    <3>2. \A other \in Threads \ {d} : ~Holds(other)'
      BY <2>1, <1>3, <1>4 DEF DrivesAlone, Holds, InBlock
    <3> QED  BY <3>1, <3>2, <1>4 DEF OneRequest, HoldsNothingOut
  <2>2. CASE ~Newest
    <3>1. OneRequest /\ HoldsNothingOut
      BY <2>2, <1>8, <1>2 DEF BridgeInv
    <3>2. CASE done = 0
      <4>1. request' = request /\ ~Holds(d)'
        BY <3>2, <1>1, <1>3 DEF BridgeInv, Counted, Holds
      <4>2. \A other \in Threads \ {d} : Holds(other)' = Holds(other)
        BY <1>3 DEF Holds
      <4> QED  BY <4>1, <4>2, <3>1, <1>4 DEF OneRequest, HoldsNothingOut
    <3>3. CASE done # 0
      <4>1. request # 0 /\ request' = 0
        BY <3>3, <3>1, <1>1 DEF BridgeInv, Counted, InOrder, OneRequest
      <4>2. \A other \in Threads : ~Holds(other)
        BY <4>1, <3>1, <1>4 DEF HoldsNothingOut
      <4>3. \A other \in Threads \ {d} : ~Holds(other)'
        BY <4>2, <1>3 DEF Holds
      <4> QED  BY <4>1, <4>3, <1>4 DEF OneRequest, HoldsNothingOut
    <3> QED  BY <3>2, <3>3
  <2> QED  BY <2>1, <2>2
<1> QED  BY <1>1, <1>3, <1>5, <1>6, <1>7, <1>8 DEF BridgeInv, Counted

LEMMA PublishKeeps ==
  ASSUME BridgeInv, NEW d \in Threads, Publish(d)
  PROVE  BridgeInv'
<1>1. request' = request + 1 /\ done' = done /\ host' = host /\ overrun' = overrun
  BY DEF Publish
<1>2. Drivers' /\ ~Holds(d)' /\ \A other \in Threads \ {d} : driver'[other] = driver[other]
  BY Moved DEF Publish, BlockOver, BridgeInv, Steps, Holds
<1>3. Counted' /\ InOrder'
  BY <1>1 DEF BridgeInv, Counted, InOrder
<1>4. ASSUME ~overrun' PROVE OneRequest' /\ HoldsNothingOut'
  <2>1. request = 0 /\ \A other \in Threads \ {d} : ~Holds(other)
    BY <1>1, <1>4 DEF BridgeInv, Drivers, HoldsNothingOut, Holds, Publish, On
  <2>2. \A other \in Threads : ~Holds(other)'
    BY <2>1, <1>2 DEF Holds
  <2> QED  BY <2>1, <2>2, <1>1, <1>2 DEF OneRequest, HoldsNothingOut, Drivers
<1> QED  BY <1>2, <1>3, <1>4 DEF BridgeInv

LEMMA DriveKeeps ==
  ASSUME BridgeInv, NEW d \in Threads, DriveBlock(d)
  PROVE  BridgeInv'
<1>1. CASE CopyOut(d)
  BY <1>1, StartKeeps DEF CopyOut
<1>2. CASE Check(d)
  <2>1. CASE request = done
    BY <2>1, <1>2, StartKeeps DEF Check
  <2>2. CASE request # done
    BY <2>2, <1>2, OverKeeps DEF Check
  <2> QED  BY <2>1, <2>2
<1> QED  BY <1>1, <1>2, ReadKeeps, PublishKeeps DEF DriveBlock

\* A driver moves to a step without a buffer, outside of the handshake.
LEMMA MoveKeeps ==
  ASSUME BridgeInv, NEW d \in Threads, NEW step \in Steps \ {"copyOut", "write"},
         Move(d, step), UNCHANGED <<handshake, overrun>>
  PROVE  BridgeInv'
<1>1. Drivers' /\ ~Holds(d)' /\ \A other \in Threads \ {d} : driver'[other] = driver[other]
  BY Moved DEF BridgeInv, Holds
<1> QED  BY <1>1, Elsewhere DEF Holds

\* Nor do the steps that leave both drivers alone change anything.
LEMMA RestKeeps ==
  ASSUME BridgeInv, UNCHANGED <<handshake, driver, overrun>>
  PROVE  BridgeInv'
<1>1. Drivers' /\ \A d \in Threads : Holds(d)' => Holds(d)
  BY DEF BridgeInv, Drivers, Holds
<1> QED  BY <1>1, Elsewhere

LEMMA CallbackKeeps ==
  ASSUME BridgeInv, CallbackBegins \/ CallbackStep
  PROVE  BridgeInv'
<1>1. CASE CallbackBegins
  BY <1>1, MoveKeeps DEF CallbackBegins, Threads, Steps
<1>2. CASE CallbackRenders
  BY <1>2, MoveKeeps DEF CallbackRenders, Threads, Steps, InBlock
<1> QED  BY <1>1, <1>2, DriveKeeps DEF CallbackStep, Threads

LEMMA WorkerKeeps ==
  ASSUME BridgeInv, ExportBegins \/ WorkerStep \/ NextBlock \/ SecondPass \/ ExportEnds
  PROVE  BridgeInv'
<1> USE DEF Threads, Steps, InBlock
<1>1. CASE ExportBegins
  BY <1>1, MoveKeeps DEF ExportBegins
<1>2. CASE DetachSends
  BY <1>2, MoveKeeps DEF DetachSends
<1>3. CASE HandedOver
  BY <1>3, StartKeeps DEF HandedOver, PassBegins
<1>4. CASE RestoreSends
  BY <1>4, MoveKeeps DEF RestoreSends
<1>5. CASE NextBlock
  BY <1>5, MoveKeeps DEF NextBlock
<1>6. CASE SecondPass
  BY <1>6, StartKeeps DEF SecondPass, PassBegins
<1>7. CASE ExportEnds
  BY <1>7, MoveKeeps DEF ExportEnds
<1> QED  BY <1>1, <1>2, <1>3, <1>4, <1>5, <1>6, <1>7, DriveKeeps DEF WorkerStep

LEMMA LoadKeeps ==
  ASSUME BridgeInv, LoadBegins \/ LoadStep
  PROVE  BridgeInv'
BY RestKeeps DEF LoadBegins, LoadStep, LoadCopies, LoadSends, LoadCompletes, RebindSends

-----------------------------------------------------------------------------

LEMMA BridgeInvKept == BridgeInv /\ [BridgeNext]_bridgeVars => BridgeInv'
<1> SUFFICES ASSUME BridgeInv, [BridgeNext]_bridgeVars PROVE BridgeInv'
  OBVIOUS
<1>1. CASE UNCHANGED bridgeVars
  BY <1>1, RestKeeps DEF bridgeVars
<1>2. CASE BridgeNext
  BY <1>2, HostKeeps, CallbackKeeps, WorkerKeeps, LoadKeeps DEF BridgeNext
<1> QED  BY <1>1, <1>2

\* Whatever the bounds on passes, loads and barriers that time out, engine and
\* host keep off each other's buffers while the newest answer is the one that
\* was read before an input was written (plugin_bridge_sink.rs, SAFETY).
THEOREM BuffersStayApart == BridgeSpec => []BuffersApart
BY InvInit, InvSuffices, BridgeInvKept, PTL DEF BridgeSpec

-----------------------------------------------------------------------------
(***************************************************************************)
(* The types.  What needs an argument is that few requests are out: the    *)
(* primed block of a render pass is the only one that is written without a *)
(* look at the numbers, so what is unanswered, or about to be requested,   *)
(* is bounded by the passes (FewUnanswered), and so is all that was        *)
(* requested since an answer was last read (FewOut).                       *)
(***************************************************************************)

CallbackSteps == InBlock \cup {"idle", "render"}
WorkerSteps   == InBlock \cup {"closed", "detach", "barrier", "between", "restore"}

Placed == driver.callback \in CallbackSteps /\ driver.worker \in WorkerSteps

IdleHost == host.at = "idle" => host = Idle

CmdKinds == {"with", "without", "barrier"}

LoadStates == [at : {"none", "building", "copied", "ended", "rebinding"}, sink : BOOLEAN]

HandoffTyped ==
  /\ attached \in BOOLEAN /\ mirror \in BOOLEAN
  /\ cmds \in Seq(CmdKinds) /\ load \in LoadStates

\* A pass that is under way was counted, and an export that waits for the
\* barrier has one left.
PassesCounted ==
  /\ passes \in 0 .. MaxPasses
  /\ driver.worker \in {"detach", "barrier"} => passes < MaxPasses
  /\ driver.worker \in InBlock \cup {"between"} => 0 < passes

\* A driver that will publish, one that may, and an answer nobody has read.
WillPublish(d) == IF driver[d] \in {"copyOut", "write"} THEN 1 ELSE 0
MayPublish(d)  == IF driver[d] = "check" THEN 1 ELSE 0
Unread         == IF done = 0 THEN 0 ELSE 1

ToCome == WillPublish("callback") + WillPublish("worker")
Maybe  == MayPublish("callback") + MayPublish("worker")

FewUnanswered == (request - done) + ToCome + Unread <= passes + 2
FewOut        == request + ToCome + Maybe <= passes + 4

FewRequests == PassesCounted /\ FewUnanswered /\ FewOut

BridgeTypes == BridgeInv /\ Placed /\ IdleHost /\ HandoffTyped /\ FewRequests

LEMMA Publishers ==
  ASSUME NEW d
  PROVE  /\ WillPublish(d) \in 0..1 /\ MayPublish(d) \in 0..1
         /\ WillPublish(d)' \in 0..1 /\ MayPublish(d)' \in 0..1
BY DEF WillPublish, MayPublish

\* What a move of a driver does to the two counts.
LEMMA MoveCounts ==
  ASSUME Drivers, NEW d \in Threads, NEW step \in Steps, Move(d, step)
  PROVE  /\ WillPublish(d)' = IF step \in {"copyOut", "write"} THEN 1 ELSE 0
         /\ MayPublish(d)' = IF step = "check" THEN 1 ELSE 0
         /\ \A other \in Threads \ {d} :
              WillPublish(other)' = WillPublish(other) /\ MayPublish(other)' = MayPublish(other)
BY Moved DEF WillPublish, MayPublish

\* The sum over both threads, seen from one of them.
LEMMA BothThreads ==
  ASSUME NEW d \in Threads
  PROVE  \E other \in Threads \ {d} :
           /\ ToCome = WillPublish(d) + WillPublish(other)
           /\ Maybe = MayPublish(d) + MayPublish(other)
           /\ ToCome' = WillPublish(d)' + WillPublish(other)'
           /\ Maybe' = MayPublish(d)' + MayPublish(other)'
<1>1. CASE d = "callback"
  BY <1>1 DEF ToCome, Maybe, Threads
<1>2. CASE d = "worker"
  <2>1. /\ WillPublish("callback") + WillPublish("worker") = WillPublish(d) + WillPublish("callback")
        /\ MayPublish("callback") + MayPublish("worker") = MayPublish(d) + MayPublish("callback")
        /\ WillPublish("callback")' + WillPublish("worker")' = WillPublish(d)' + WillPublish("callback")'
        /\ MayPublish("callback")' + MayPublish("worker")' = MayPublish(d)' + MayPublish("callback")'
    BY <1>2, Publishers
  <2>2. "callback" \in Threads \ {d}
    BY <1>2 DEF Threads
  <2> QED
    BY <2>1, <2>2 DEF ToCome, Maybe
<1> QED
  BY <1>1, <1>2 DEF Threads

\* A step in a block keeps the bounds.
LEMMA BlockCounts ==
  ASSUME BridgeTypes, NEW d \in Threads, DriveBlock(d)
  PROVE  FewUnanswered' /\ FewOut'
<1>1. PICK other \in Threads \ {d} :
        /\ ToCome = WillPublish(d) + WillPublish(other)
        /\ Maybe = MayPublish(d) + MayPublish(other)
        /\ ToCome' = WillPublish(d)' + WillPublish(other)'
        /\ Maybe' = MayPublish(d)' + MayPublish(other)'
  BY BothThreads
<1>2. /\ WillPublish(d) \in 0..1 /\ MayPublish(d) \in 0..1
      /\ WillPublish(other) \in 0..1 /\ MayPublish(other) \in 0..1
  BY Publishers
<1>3. /\ request \in Nat /\ done \in Nat /\ done <= request /\ passes \in Nat
      /\ FewUnanswered /\ FewOut /\ Drivers
  BY PluginBridgeAssumption
  DEF BridgeTypes, BridgeInv, Counted, InOrder, FewRequests, PassesCounted
<1>4. WillPublish(other)' = WillPublish(other) /\ MayPublish(other)' = MayPublish(other)
  <2>1. \A step \in Steps : Move(d, step) =>
          WillPublish(other)' = WillPublish(other) /\ MayPublish(other)' = MayPublish(other)
    BY <1>3, MoveCounts
  <2>2. \E step \in Steps : Move(d, step)
    BY DEF DriveBlock, Read, CopyOut, Check, Publish, StartWrite, BlockOver, Steps, InBlock
  <2> QED
    BY <2>1, <2>2
<1>5. passes' = passes
  BY DEF DriveBlock, Read, CopyOut, Check, Publish, bounds
<1>6. CASE Read(d)
  <2>1. /\ request' = request - done /\ done' = 0
        /\ Move(d, IF done = 0 THEN "check" ELSE "copyOut")
    BY <1>6 DEF Read
  <2>2. /\ WillPublish(d)' = IF done = 0 THEN 0 ELSE 1
        /\ MayPublish(d)' = IF done = 0 THEN 1 ELSE 0
    BY <1>3, <2>1, MoveCounts DEF Steps, InBlock
  <2>3. WillPublish(d) = 0 /\ MayPublish(d) = 0
    BY <1>6 DEF Read, On, WillPublish, MayPublish
  <2>4. Unread' = 0
    BY <2>1 DEF Unread
  <2> QED
    BY <1>1, <1>2, <1>3, <1>4, <1>5, <2>1, <2>2, <2>3, <2>4 DEF FewUnanswered, FewOut, Unread
<1>7. CASE CopyOut(d)
  <2>1. request' = request /\ done' = done /\ Move(d, "write")
    BY <1>7 DEF CopyOut, StartWrite, handshake
  <2>2. WillPublish(d)' = 1 /\ MayPublish(d)' = 0
    BY <1>3, <2>1, MoveCounts DEF Steps, InBlock
  <2>3. WillPublish(d) = 1 /\ MayPublish(d) = 0
    BY <1>7 DEF CopyOut, On, WillPublish, MayPublish
  <2>4. Unread' = Unread
    BY <2>1 DEF Unread
  <2> QED
    BY <1>1, <1>2, <1>3, <1>4, <1>5, <2>1, <2>2, <2>3, <2>4 DEF FewUnanswered, FewOut
<1>8. CASE Check(d)
  <2>1. request' = request /\ done' = done
    BY <1>8 DEF Check, handshake
  <2>2. WillPublish(d) = 0 /\ MayPublish(d) = 1
    BY <1>8 DEF Check, On, WillPublish, MayPublish
  <2>3. Unread' = Unread /\ Unread \in 0..1
    BY <2>1 DEF Unread
  <2>4. CASE request # done
    <3>1. PICK step \in {"idle", "between"} : Move(d, step)
      BY <1>8, <2>4 DEF Check, BlockOver
    <3>2. WillPublish(d)' = 0 /\ MayPublish(d)' = 0
      BY <1>3, <3>1, MoveCounts DEF Steps
    <3> QED
      BY <1>1, <1>2, <1>3, <1>4, <1>5, <2>1, <2>2, <2>3, <3>2 DEF FewUnanswered, FewOut
  <2>5. CASE request = done
    <3>1. Move(d, "write")
      BY <1>8, <2>5 DEF Check, StartWrite
    <3>2. WillPublish(d)' = 1 /\ MayPublish(d)' = 0
      BY <1>3, <3>1, MoveCounts DEF Steps, InBlock
    <3>3. FewOut'
      BY <1>1, <1>2, <1>3, <1>4, <1>5, <2>1, <2>2, <3>2 DEF FewOut
    <3>4. WillPublish(other) = 1 => 0 < passes
      <4>1. d = "worker" => 0 < passes
        BY <1>8 DEF Check, On, BridgeTypes, FewRequests, PassesCounted, InBlock
      <4>2. d = "callback" => (WillPublish(other) = 1 => 0 < passes)
        BY DEF Threads, WillPublish, BridgeTypes, FewRequests, PassesCounted, InBlock
      <4> QED
        BY <4>1, <4>2 DEF Threads
    <3>5. FewUnanswered'
      BY <1>1, <1>2, <1>3, <1>4, <1>5, <2>1, <2>2, <2>3, <2>5, <3>2, <3>4 DEF FewUnanswered
    <3> QED
      BY <3>3, <3>5
  <2> QED
    BY <2>4, <2>5
<1>9. CASE Publish(d)
  <2>1. request' = request + 1 /\ done' = done
    BY <1>9 DEF Publish
  <2>2. PICK step \in {"idle", "between"} : Move(d, step)
    BY <1>9 DEF Publish, BlockOver
  <2>3. WillPublish(d)' = 0 /\ MayPublish(d)' = 0
    BY <1>3, <2>2, MoveCounts DEF Steps
  <2>4. WillPublish(d) = 1 /\ MayPublish(d) = 0
    BY <1>9 DEF Publish, On, WillPublish, MayPublish
  <2>5. Unread' = Unread /\ Unread \in 0..1
    BY <2>1 DEF Unread
  <2> QED
    BY <1>1, <1>2, <1>3, <1>4, <1>5, <2>1, <2>3, <2>4, <2>5 DEF FewUnanswered, FewOut
<1> QED
  BY <1>6, <1>7, <1>8, <1>9 DEF DriveBlock

\* The primed block of a pass.
LEMMA PassCounts ==
  ASSUME BridgeTypes, PassBegins, UNCHANGED handshake,
         driver.worker \in {"barrier", "between"}
  PROVE  FewUnanswered' /\ FewOut'
<1>1. /\ ToCome = WillPublish("callback") + WillPublish("worker")
      /\ Maybe = MayPublish("callback") + MayPublish("worker")
      /\ ToCome' = WillPublish("callback")' + WillPublish("worker")'
      /\ Maybe' = MayPublish("callback")' + MayPublish("worker")'
  BY DEF ToCome, Maybe
<1>2. WillPublish("callback") \in 0..1 /\ MayPublish("callback") \in 0..1
  BY Publishers
<1>3. WillPublish("worker") = 0 /\ MayPublish("worker") = 0
  BY DEF WillPublish, MayPublish
<1>4. Drivers /\ Move("worker", "write")
  BY DEF BridgeTypes, BridgeInv, PassBegins, StartWrite
<1>5. /\ WillPublish("worker")' = 1 /\ MayPublish("worker")' = 0
      /\ WillPublish("callback")' = WillPublish("callback")
      /\ MayPublish("callback")' = MayPublish("callback")
  BY <1>4, MoveCounts DEF Threads, Steps, InBlock
<1>6. /\ request' = request /\ done' = done /\ passes' = passes + 1
      /\ request \in Nat /\ done \in Nat /\ passes \in Nat /\ Unread' = Unread /\ Unread \in 0..1
  BY PluginBridgeAssumption
  DEF PassBegins, handshake, BridgeTypes, BridgeInv, Counted, FewRequests, PassesCounted, Unread
<1>7. FewUnanswered /\ FewOut
  BY DEF BridgeTypes, FewRequests
<1> QED
  BY <1>1, <1>2, <1>3, <1>5, <1>6, <1>7 DEF FewUnanswered, FewOut

\* The drivers elsewhere: the counts stay.
LEMMA CountsStay ==
  ASSUME BridgeTypes, UNCHANGED <<handshake, passes>>,
         \A d \in Threads : WillPublish(d)' = WillPublish(d) /\ MayPublish(d)' = MayPublish(d)
  PROVE  FewUnanswered' /\ FewOut'
BY DEF BridgeTypes, FewRequests, FewUnanswered, FewOut, ToCome, Maybe, Unread, handshake, Threads

LEMMA MoveOutside ==
  ASSUME BridgeTypes, NEW d \in Threads, driver[d] \notin InBlock,
         NEW step \in Steps \ {"copyOut", "check", "write"}, Move(d, step),
         UNCHANGED <<handshake, passes>>
  PROVE  FewUnanswered' /\ FewOut'
<1>1. /\ WillPublish(d) = 0 /\ MayPublish(d) = 0 /\ WillPublish(d)' = 0 /\ MayPublish(d)' = 0
      /\ \A other \in Threads \ {d} :
           WillPublish(other)' = WillPublish(other) /\ MayPublish(other)' = MayPublish(other)
  <2>1. WillPublish(d) = 0 /\ MayPublish(d) = 0
    BY DEF WillPublish, MayPublish, InBlock
  <2> QED
    BY <2>1, MoveCounts DEF BridgeTypes, BridgeInv
<1> QED
  BY <1>1, CountsStay

LEMMA HostCounts ==
  ASSUME BridgeTypes, HostStep
  PROVE  FewUnanswered' /\ FewOut'
<1>1. driver' = driver /\ passes' = passes /\ request' = request
  BY DEF HostStep, HostTakes, HostGoesOn, bounds
<1>2. ToCome' = ToCome /\ Maybe' = Maybe
  BY <1>1 DEF ToCome, Maybe, WillPublish, MayPublish
<1>3. ToCome \in Nat /\ Maybe \in Nat
  BY Publishers DEF ToCome, Maybe
<1>4. /\ request \in Nat /\ done \in Nat /\ passes \in Nat /\ FewUnanswered /\ FewOut
      /\ done' = done \/ (done' \in Nat /\ done < done')
  <2>1. done' = done \/ (done' \in Nat /\ done < done')
    BY DEF HostStep, HostTakes, HostGoesOn, BridgeTypes, BridgeInv, Counted, InOrder
  <2> QED
    BY <2>1, PluginBridgeAssumption DEF BridgeTypes, BridgeInv, Counted, FewRequests, PassesCounted
<1> QED
  BY <1>1, <1>2, <1>3, <1>4 DEF FewUnanswered, FewOut, Unread

LEMMA FewRequestsKept ==
  ASSUME BridgeTypes, BridgeNext
  PROVE  FewUnanswered' /\ FewOut'
<1> USE DEF Threads, Steps
<1>1. CASE HostStep
  BY <1>1, HostCounts
<1>2. CASE CallbackBegins
  BY <1>2, MoveOutside DEF CallbackBegins, On, InBlock, bounds
<1>3. CASE CallbackRenders
  <2>1. PICK step \in {"read", "idle"} : Move("callback", step)
    BY <1>3 DEF CallbackRenders
  <2>2. driver["callback"] \notin InBlock /\ step \in Steps \ {"copyOut", "check", "write"}
    BY <1>3 DEF CallbackRenders, On, InBlock
  <2> QED
    BY <1>3, <2>1, <2>2, MoveOutside DEF CallbackRenders, bounds
<1>4. CASE ExportBegins \/ DetachSends \/ RestoreSends \/ ExportEnds
  BY <1>4, MoveOutside DEF ExportBegins, DetachSends, RestoreSends, ExportEnds, On, InBlock, bounds
<1>5. CASE NextBlock
  BY <1>5, MoveOutside DEF NextBlock, On, InBlock, bounds
<1>6. CASE HandedOver \/ SecondPass
  BY <1>6, PassCounts DEF HandedOver, SecondPass, On
<1>7. CASE DriveBlock("callback") \/ DriveBlock("worker")
  BY <1>7, BlockCounts
<1>8. CASE LoadBegins \/ LoadStep
  <2>1. driver' = driver /\ passes' = passes /\ UNCHANGED handshake
    BY <1>8 DEF LoadBegins, LoadStep, LoadCopies, LoadSends, LoadCompletes, RebindSends, bounds
  <2> QED
    BY <2>1, CountsStay DEF WillPublish, MayPublish
<1> QED
  BY <1>1, <1>2, <1>3, <1>4, <1>5, <1>6, <1>7, <1>8 DEF BridgeNext, CallbackStep, WorkerStep

\* Where a thread can be, and the passes that were counted when it is there.
LEMMA PlacesKept ==
  ASSUME BridgeTypes, BridgeNext
  PROVE  Placed' /\ PassesCounted'
<1>1. /\ driver \in [Threads -> Steps] /\ Placed /\ PassesCounted
      /\ MaxPasses \in Nat /\ passes \in Nat
  BY PluginBridgeAssumption DEF BridgeTypes, BridgeInv, Drivers, FewRequests, PassesCounted
<1> USE DEF Placed, PassesCounted, CallbackSteps, WorkerSteps, InBlock, Threads, On, bounds
<1>2. CASE UNCHANGED <<driver, passes>>
  BY <1>1, <1>2
<1>3. CASE CallbackBegins \/ CallbackRenders
  BY <1>1, <1>3 DEF CallbackBegins, CallbackRenders, Move
<1>4. CASE DriveBlock("callback")
  BY <1>1, <1>4 DEF DriveBlock, Read, CopyOut, Check, Publish, StartWrite, BlockOver, Move
<1>5. CASE DriveBlock("worker")
  BY <1>1, <1>5 DEF DriveBlock, Read, CopyOut, Check, Publish, StartWrite, BlockOver, Move
<1>6. CASE ExportBegins \/ DetachSends \/ RestoreSends \/ NextBlock \/ ExportEnds
  BY <1>1, <1>6 DEF ExportBegins, DetachSends, RestoreSends, NextBlock, ExportEnds, Move
<1>7. CASE HandedOver \/ SecondPass
  BY <1>1, <1>7 DEF HandedOver, SecondPass, PassBegins, StartWrite, Move
<1>8. HostStep \/ LoadBegins \/ LoadStep => UNCHANGED <<driver, passes>>
  BY DEF HostStep, HostTakes, HostGoesOn, LoadBegins, LoadStep, LoadCopies, LoadSends,
         LoadCompletes, RebindSends
<1> QED
  BY <1>2, <1>3, <1>4, <1>5, <1>6, <1>7, <1>8 DEF BridgeNext, CallbackStep, WorkerStep

LEMMA IdleKept ==
  ASSUME BridgeTypes, BridgeNext
  PROVE  IdleHost'
<1>1. CASE HostStep
  BY <1>1 DEF HostStep, HostTakes, HostGoesOn, BridgeTypes, BridgeInv, Counted, IdleHost, Idle
<1>2. CASE \E d \in Threads : Read(d)
  BY <1>2 DEF Read, BridgeTypes, BridgeInv, Counted, IdleHost, Idle
<1>3. CASE ~HostStep /\ ~(\E d \in Threads : Read(d))
  <2>1. host' = host
    BY <1>3 DEF BridgeNext, CallbackBegins, CallbackStep, CallbackRenders, DriveBlock, CopyOut,
                Check, Publish, ExportBegins, WorkerStep, DetachSends, HandedOver, RestoreSends,
                NextBlock, SecondPass, ExportEnds, LoadBegins, LoadStep, LoadCopies, LoadSends,
                LoadCompletes, RebindSends, handshake, Threads
  <2> QED
    BY <2>1 DEF BridgeTypes, IdleHost
<1> QED
  BY <1>1, <1>2, <1>3

LEMMA HandoffKept ==
  ASSUME BridgeTypes, BridgeNext
  PROVE  HandoffTyped'
<1>1. /\ attached \in BOOLEAN /\ mirror \in BOOLEAN
      /\ cmds \in Seq(CmdKinds) /\ load \in LoadStates
  BY DEF BridgeTypes, HandoffTyped
<1>2. CASE UNCHANGED <<handoff, load>>
  BY <1>1, <1>2 DEF handoff, HandoffTyped
<1>3. CASE CallbackBegins
  <2>1. cmds' = <<>> /\ mirror' = mirror /\ load' = load /\ attached' \in BOOLEAN
    BY <1>1, <1>3 DEF CallbackBegins
  <2> QED
    BY <1>1, <2>1 DEF HandoffTyped
<1>4. CASE ExportBegins \/ ExportEnds
  BY <1>1, <1>4 DEF ExportBegins, ExportEnds, HandoffTyped
<1>5. CASE DetachSends
  <2>1. cmds' \in Seq(CmdKinds)
    <3>1. <<"without", "barrier">> \in Seq(CmdKinds)
      BY DEF CmdKinds
    <3> QED
      BY <1>1, <1>5, <3>1 DEF DetachSends
  <2> QED
    BY <1>1, <1>5, <2>1 DEF DetachSends, HandoffTyped
<1>6. CASE RestoreSends
  BY <1>1, <1>6 DEF RestoreSends, Send, CmdKinds, HandoffTyped
<1>7. CASE LoadBegins
  BY <1>1, <1>7 DEF LoadBegins, handoff, LoadStates, HandoffTyped
<1>8. CASE LoadCopies
  BY <1>1, <1>8 DEF LoadCopies, handoff, LoadStates, HandoffTyped
<1>9. CASE LoadSends
  <2>1. cmds' \in Seq(CmdKinds)
    BY <1>1, <1>9 DEF LoadSends, Send, CmdKinds
  <2>2. load' \in LoadStates
    BY <1>9 DEF LoadSends, LoadStates
  <2> QED
    BY <1>1, <1>9, <2>1, <2>2 DEF LoadSends, HandoffTyped
<1>10. CASE LoadCompletes
  BY <1>1, <1>10 DEF LoadCompletes, RebindsTo, LoadStates, HandoffTyped
<1>11. CASE RebindSends
  <2>1. cmds' \in Seq(CmdKinds)
    BY <1>1, <1>11 DEF RebindSends, Send, CmdKinds
  <2>2. load' \in LoadStates
    BY <1>1, <1>11 DEF RebindSends, LoadStates
  <2> QED
    BY <1>1, <1>11, <2>1, <2>2 DEF RebindSends, HandoffTyped
<1>12. \/ HostStep \/ CallbackStep \/ HandedOver \/ DriveBlock("worker")
       \/ NextBlock \/ SecondPass
       => UNCHANGED <<handoff, load>>
  BY DEF HostStep, HostTakes, HostGoesOn, CallbackStep, CallbackRenders, HandedOver, DriveBlock,
         Read, CopyOut, Check, Publish, NextBlock, SecondPass
<1> QED
  BY <1>2, <1>3, <1>4, <1>5, <1>6, <1>7, <1>8, <1>9, <1>10, <1>11, <1>12
  DEF BridgeNext, WorkerStep, LoadStep

LEMMA TypesInit == BridgeInit => BridgeTypes
<1> SUFFICES ASSUME BridgeInit PROVE BridgeTypes
  OBVIOUS
<1>1. BridgeInv
  BY InvInit
<1>2. /\ driver = [callback |-> "idle", worker |-> "closed"] /\ request = 0 /\ done = 0
      /\ passes = 0 /\ host = Idle /\ cmds = <<>> /\ attached = TRUE /\ mirror = TRUE
      /\ load = [at |-> "none", sink |-> FALSE]
  BY DEF BridgeInit
<1>3. Placed /\ IdleHost /\ HandoffTyped
  BY <1>2 DEF Placed, CallbackSteps, WorkerSteps, IdleHost, HandoffTyped, LoadStates
<1>4. PassesCounted
  BY <1>2, PluginBridgeAssumption DEF PassesCounted, InBlock
<1>5. ToCome = 0 /\ Maybe = 0 /\ Unread = 0
  BY <1>2 DEF ToCome, Maybe, Unread, WillPublish, MayPublish
<1>6. FewUnanswered /\ FewOut
  BY <1>2, <1>5 DEF FewUnanswered, FewOut
<1> QED
  BY <1>1, <1>3, <1>4, <1>6 DEF BridgeTypes, FewRequests

LEMMA TypesSuffice == BridgeTypes => BridgeTypeOK
<1> SUFFICES ASSUME BridgeTypes PROVE BridgeTypeOK
  OBVIOUS
<1>1. /\ request \in Nat /\ done \in Nat /\ done <= request /\ overrun \in BOOLEAN
      /\ host.at \in {"idle", "copyIn", "writeOut"} /\ host = [at |-> host.at, req |-> host.req]
      /\ host.at # "idle" => host.req \in done .. request
      /\ host.at = "idle" => host = Idle
  BY DEF BridgeTypes, BridgeInv, Counted, InOrder, IdleHost
<1>2. request <= MaxPasses + 4 /\ MaxPasses \in Nat
  <2>1. ToCome \in Nat /\ Maybe \in Nat
    BY Publishers DEF ToCome, Maybe
  <2>2. FewOut /\ passes \in Nat /\ passes <= MaxPasses /\ MaxPasses \in Nat
    BY PluginBridgeAssumption DEF BridgeTypes, FewRequests, PassesCounted
  <2> QED
    BY <1>1, <2>1, <2>2 DEF FewOut
<1>3. host \in {Idle} \cup [at : {"copyIn", "writeOut"}, req : done .. request]
  BY <1>1
<1>4. /\ driver.callback \in InBlock \cup {"idle", "render"}
      /\ driver.worker \in InBlock \cup {"closed", "detach", "barrier", "between", "restore"}
  BY DEF BridgeTypes, Placed, CallbackSteps, WorkerSteps
<1>5. /\ attached \in BOOLEAN /\ mirror \in BOOLEAN /\ cmds \in Seq({"with", "without", "barrier"})
      /\ load \in [at : {"none", "building", "copied", "ended", "rebinding"}, sink : BOOLEAN]
  BY DEF BridgeTypes, HandoffTyped, CmdKinds, LoadStates
<1>6. request \in 0 .. MaxPasses + 4 /\ done \in 0 .. request
  BY <1>1, <1>2
<1> QED
  BY <1>1, <1>3, <1>4, <1>5, <1>6 DEF BridgeTypeOK

\* The two sequence numbers of the shared region stay in order and close: no
\* more than a few requests are ever out, however many exports and loads
\* there are, and each thread is only ever at a step of its own code.
THEOREM BridgeTyped == BridgeSpec => []BridgeTypeOK
<1>1. BridgeTypes /\ [BridgeNext]_bridgeVars => BridgeTypes'
  <2> SUFFICES ASSUME BridgeTypes, [BridgeNext]_bridgeVars PROVE BridgeTypes'
    OBVIOUS
  <2>1. BridgeInv'
    BY BridgeInvKept DEF BridgeTypes
  <2>2. CASE BridgeNext
    BY <2>1, <2>2, FewRequestsKept, PlacesKept, IdleKept, HandoffKept DEF BridgeTypes, FewRequests
  <2>3. CASE UNCHANGED bridgeVars
    <3>1. UNCHANGED <<handshake, driver, handoff, load, passes>>
      BY <2>3 DEF bridgeVars, bounds
    <3>2. Placed' /\ IdleHost' /\ HandoffTyped' /\ PassesCounted'
      BY <3>1 DEF BridgeTypes, FewRequests, Placed, IdleHost, HandoffTyped, PassesCounted,
                  handshake, handoff
    <3>3. FewUnanswered' /\ FewOut'
      BY <3>1, CountsStay DEF WillPublish, MayPublish
    <3> QED
      BY <2>1, <3>2, <3>3 DEF BridgeTypes, FewRequests
  <2> QED
    BY <2>2, <2>3
<1> QED
  BY <1>1, TypesInit, TypesSuffice, PTL DEF BridgeSpec

-----------------------------------------------------------------------------
(***************************************************************************)
(* The two together, as they are run: what holds of each holds of both.    *)
(***************************************************************************)

\* A behaviour of the run is one of either part, the other resting.
THEOREM EngineIsBoth == EngineSpec => SyncSpec /\ BridgeSpec
<1>1. EngineInit => SyncInit /\ BridgeInit
  BY DEF EngineInit
<1>2. [EngineNext]_EngineVars => [SyncNext]_syncVars /\ [BridgeNext]_bridgeVars
  BY DEF EngineNext, EngineVars, SyncTurn, BridgeTurn
<1> QED
  BY <1>1, <1>2, PTL DEF EngineSpec, SyncSpec, BridgeSpec

\* The state of the sync and of the bridge has its type throughout.
THEOREM EngineTyped == EngineSpec => []EngineTypeOK
<1>1. SyncTypeOK /\ BridgeTypeOK => EngineTypeOK
  BY DEF EngineTypeOK
<1> QED
  BY <1>1, EngineIsBoth, SyncTyped, BridgeTyped, PTL
=============================================================================
