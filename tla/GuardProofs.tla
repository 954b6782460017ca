---------------------------- MODULE GuardProofs ----------------------------
(***************************************************************************)
(* Proofs about ProjectGuard, for any files, any number of saves, pickers  *)
(* and transactions, and any number of edits.                              *)
(*                                                                         *)
(* A handler turns a state of the studio into another, so the invariant is *)
(* stated of any studio r, saves ss and files dk, and each part of a       *)
(* handler is shown to keep it.                                            *)
(***************************************************************************)
EXTENDS ProjectGuard, TLAPS

-----------------------------------------------------------------------------
(* The inductive invariant.                                                *)

Places   == {NoPath} \cup Paths
Owners   == Places \cup Nat
Contents == [project : Owners, id : Owners, version : Nat]
Sessions == [project : Owners, id : Owners, version : Nat,
             path : {NoPath} \cup (Paths \ Imports), dirty : BOOLEAN]
Thens    == [kind : {"nothing", "close", "switch", "new", "open"}, path : Places]
Pickers  == [kind : {"open", "save"}, then : Thens]
Dialogs  == [kind : {"nothing", "unsaved", "switchDirty", "switchClean"}, path : Places]
Loads    == [path : Places, stage : {"opened", "shutdown", "reading", "installing"},
             rollback : Sessions, content : Contents]
Saves    == [n : Nat, generation : Nat, path : Paths \ Imports, then : Thens,
             content : Contents, written : BOOLEAN, alone : BOOLEAN]
Studios  == [session : Sessions, generation : Nat, busy : BOOLEAN, window : BOOLEAN,
             close : {"none"} \cup Closes, action : {"none"} \cup Actions,
             dialog : Dialogs, pickers : SUBSET Pickers, loads : SUBSET Loads,
             loaded : Nat, created : Nat, edits : Nat, over : BOOLEAN,
             overtaken : BOOLEAN]

Typed(r, ss, dk) == r \in Studios /\ ss \in SUBSET Saves /\ dk \in [Paths -> Contents]

\* A project is known by a file, or by a number given out.
Known(x, r) == {x.project, x.id} \subseteq Paths \cup 0..r.created

\* Whatever holds a project holds a known one; a transaction that goes on after
\* the shutdown has a file to read, and a project once it gets to install it.
Numbered(r, ss, dk) ==
  /\ Known(r.session, r)
  /\ \A save \in ss : Known(save.content, r)
  /\ \A p \in Paths : dk[p] = NoFile \/ Known(dk[p], r)
  /\ \A load \in r.loads : /\ Known(load.rollback, r)
                           /\ load.stage \in {"reading", "installing"} => load.path # NoPath
                           /\ load.stage = "installing" => Known(load.content, r)

\* The gate is closed only while a transaction will open it.
GateOpens(r) == r.busy => \E load \in r.loads : load.stage \in {"shutdown", "installing"}

\* No save is of a session to come.
Past(r, ss) == \A save \in ss : save.generation <= r.generation

\* Unless a load overtook a save: whatever holds a project has the id of it,
\* and a save of this generation is of the project the session shows.
Same(r, ss, dk) ==
  ~r.overtaken =>
    /\ r.session.id = r.session.project
    /\ \A save \in ss :
         /\ save.content.id = save.content.project
         /\ save.generation = r.generation => save.content.project = r.session.project
    /\ \A p \in Paths : dk[p].id = dk[p].project
    /\ \A load \in r.loads :
         load.rollback.id = load.rollback.project /\ load.content.id = load.content.project

Sound(r, ss, dk) ==
  /\ Typed(r, ss, dk) /\ Numbered(r, ss, dk)
  /\ GateOpens(r) /\ Past(r, ss) /\ Same(r, ss, dk)

\* Saves have numbers of their own; one that is alone has its file to itself,
\* and once written the file holds what was to be saved.
Apart(ss, dk, number) ==
  /\ number \in Nat
  /\ \A save \in ss :
       /\ save.n <= number
       /\ \A other \in ss : other.n = save.n => other = save
       /\ save.alone => \A other \in ss : other.path = save.path => other = save
       /\ save.alone /\ save.written => dk[save.path] = save.content

GuardInv == Sound(u, saves, disk) /\ Apart(saves, disk, begun)

-----------------------------------------------------------------------------
(* Parts of the handlers.                                                  *)

LEMMA Constants == NoFile \in Contents /\ NoPath \notin Paths /\ Imports \subseteq Paths
BY GuardAssumption DEF NoFile, Contents, Owners, Places

\* A transaction that may join those of r.
Good(load, r) ==
  /\ load \in Loads
  /\ Known(load.rollback, r)
  /\ load.stage \in {"reading", "installing"} => load.path # NoPath
  /\ load.stage = "installing" => Known(load.content, r)
  /\ ~r.overtaken => /\ load.rollback.id = load.rollback.project
                     /\ load.content.id = load.content.project

LEMMA LoadsAreGood ==
  ASSUME NEW r, NEW ss, NEW dk, Sound(r, ss, dk), NEW load \in r.loads
  PROVE  Good(load, r)
BY DEF Sound, Typed, Studios, Numbered, Same, Good

\* A change of the dialogs, of the window, of the gate, or of transactions.
LEMMA Framed ==
  ASSUME NEW r, NEW ss, NEW dk, Sound(r, ss, dk), NEW q \in Studios,
         q.session = r.session, q.generation = r.generation,
         q.created = r.created, q.overtaken = r.overtaken,
         \A load \in q.loads : load \in r.loads \/ Good(load, r),
         GateOpens(q)
  PROVE  Sound(q, ss, dk)
<1>1. \A load \in q.loads : Good(load, r)
  BY LoadsAreGood
<1>2. Numbered(q, ss, dk)
  BY <1>1 DEF Sound, Numbered, Known, Good
<1>3. Same(q, ss, dk)
  BY <1>1 DEF Sound, Same, Good
<1> QED
  BY <1>2, <1>3 DEF Sound, Typed, Past

LEMMA LoadingKeeps ==
  ASSUME NEW r, NEW ss, NEW dk, Sound(r, ss, dk), NEW path \in Places
  PROVE  Sound(Loading(r, path), ss, dk)
<1> DEFINE load == [path |-> path, stage |-> "opened", rollback |-> r.session,
                    content |-> NoFile]
           q == Loading(r, path)
<1>1. r \in Studios /\ r.session \in Sessions
  BY DEF Sound, Typed, Studios
<1>2. load \in Loads
  BY <1>1, Constants DEF Loads
<1>3. q \in Studios
  <2>1. r.loaded + 1 \in Nat /\ r.loads \cup {load} \in SUBSET Loads
    BY <1>1, <1>2 DEF Studios
  <2>2. q = [r EXCEPT !.loaded = r.loaded + 1, !.loads = r.loads \cup {load}]
    BY <1>1 DEF Loading, Studios
  <2> HIDE DEF q, load
  <2> QED
    BY <1>1, <2>1, <2>2 DEF Studios
<1>4. /\ q.session = r.session /\ q.generation = r.generation /\ q.created = r.created
      /\ q.overtaken = r.overtaken /\ q.busy = r.busy /\ q.loads = r.loads \cup {load}
  BY <1>1 DEF Loading, Studios
<1>5. Good(load, r)
  BY <1>2 DEF Good, Sound, Numbered, Same, NoFile
<1>6. GateOpens(q)
  BY <1>4 DEF Sound, GateOpens
<1> HIDE DEF q, load
<1>7. Sound(q, ss, dk)
  BY <1>3, <1>4, <1>5, <1>6, Framed
<1> QED
  BY <1>7 DEF q

\* A new project has a number of its own, and no save is of it.
LEMMA NewProjectKeeps ==
  ASSUME NEW r, NEW ss, NEW dk, Sound(r, ss, dk)
  PROVE  Sound(NewProject(r), ss, dk)
<1> DEFINE q == NewProject(r)
           session == Untitled(r.created + 1, r.edits, FALSE)
<1>1. r \in Studios /\ r.created \in Nat /\ r.edits \in Nat /\ r.generation \in Nat
  BY DEF Sound, Typed, Studios
<1>2. /\ session \in Sessions /\ session.project = r.created + 1
      /\ session.id = r.created + 1
  BY <1>1 DEF Untitled, Sessions, Owners
<1> HIDE DEF session
<1>3. q = [r EXCEPT !.session = session, !.created = r.created + 1,
                    !.generation = r.generation + 1]
  BY <1>1 DEF NewProject, session
<1> HIDE DEF q
<1>4. /\ q \in Studios /\ q.session = session /\ q.generation = r.generation + 1
      /\ q.created = r.created + 1 /\ q.loads = r.loads /\ q.busy = r.busy
      /\ q.overtaken = r.overtaken
  <2>1. r.created + 1 \in Nat /\ r.generation + 1 \in Nat
    BY <1>1
  <2> QED
    BY <1>1, <1>2, <1>3, <2>1 DEF Studios
<1>5. \A x : Known(x, r) => Known(x, q)
  BY <1>1, <1>4 DEF Known
<1>6. Numbered(q, ss, dk)
  <2>1. Known(session, q)
    BY <1>1, <1>2, <1>4 DEF Known
  <2> QED
    BY <2>1, <1>4, <1>5 DEF Sound, Numbered
<1>7. Past(q, ss) /\ \A save \in ss : save.generation # q.generation
  <2>1. \A save \in ss : save.generation \in Nat /\ save.generation <= r.generation
    BY DEF Sound, Typed, Past, Saves
  <2> QED
    BY <1>1, <1>4, <2>1 DEF Past
<1>8. Same(q, ss, dk)
  BY <1>2, <1>4, <1>7 DEF Sound, Same
<1>9. Sound(q, ss, dk)
  BY <1>4, <1>6, <1>7, <1>8 DEF Sound, Typed, GateOpens
<1> QED
  BY <1>9 DEF q

LEMMA CloseProjectKeeps ==
  ASSUME NEW r, NEW ss, NEW dk, Sound(r, ss, dk)
  PROVE  Sound(CloseProject(r), ss, dk)
<1> DEFINE q == [r EXCEPT !.window = FALSE]
<1>1. r \in Studios
  BY DEF Sound, Typed
<1>2. /\ q \in Studios /\ q.session = r.session /\ q.generation = r.generation
      /\ q.created = r.created /\ q.overtaken = r.overtaken /\ q.loads = r.loads
      /\ q.busy = r.busy
  BY <1>1 DEF Studios
<1> HIDE DEF q
<1>3. Sound(q, ss, dk)
  BY <1>2, Framed DEF Sound, GateOpens
<1>4. Sound(Loading(q, NoPath), ss, dk)
  BY <1>3, LoadingKeeps DEF Places
<1> QED
  BY <1>4 DEF CloseProject, q

LEMMA GoneKeeps ==
  ASSUME NEW r, NEW ss, NEW dk, Sound(r, ss, dk)
  PROVE  Sound(Gone(r), ss, dk)
<1> DEFINE q == Gone(r)
<1>1. r \in Studios
  BY DEF Sound, Typed
<1>2. /\ q \in Studios /\ q.session = r.session /\ q.generation = r.generation
      /\ q.created = r.created /\ q.overtaken = r.overtaken /\ q.loads = {} /\ ~q.busy
  BY <1>1 DEF Gone, Studios
<1> HIDE DEF q
<1>3. Sound(q, ss, dk)
  BY <1>2, Framed DEF GateOpens
<1> QED
  BY <1>3 DEF q

LEMMA PendingCloseKeeps ==
  ASSUME NEW r, NEW ss, NEW dk, Sound(r, ss, dk)
  PROVE  Sound(PendingClose(r), ss, dk)
<1> DEFINE q == [r EXCEPT !.close = "none"]
<1>1. r \in Studios
  BY DEF Sound, Typed
<1>2. /\ q \in Studios /\ q.session = r.session /\ q.generation = r.generation
      /\ q.created = r.created /\ q.overtaken = r.overtaken /\ q.loads = r.loads
      /\ q.busy = r.busy
  BY <1>1 DEF Studios
<1> HIDE DEF q
<1>3. Sound(q, ss, dk)
  BY <1>2, Framed DEF Sound, GateOpens
<1>4. Sound(CloseProject(q), ss, dk) /\ Sound(Gone(q), ss, dk)
  BY <1>3, CloseProjectKeeps, GoneKeeps
<1>5. PendingClose(r) \in {CloseProject(q), Gone(q), r}
  BY DEF PendingClose, q
<1> QED
  BY <1>4, <1>5

\* A picker opens.
LEMMA PickerKeeps ==
  ASSUME NEW r, NEW ss, NEW dk, Sound(r, ss, dk), NEW picker \in Pickers
  PROVE  Sound([r EXCEPT !.pickers = @ \cup {picker}], ss, dk)
<1> DEFINE q == [r EXCEPT !.pickers = @ \cup {picker}]
<1>1. r \in Studios
  BY DEF Sound, Typed
<1>2. /\ q \in Studios /\ q.session = r.session /\ q.generation = r.generation
      /\ q.created = r.created /\ q.overtaken = r.overtaken /\ q.loads = r.loads
      /\ q.busy = r.busy
  BY <1>1 DEF Studios
<1> HIDE DEF q
<1>3. Sound(q, ss, dk)
  BY <1>2, Framed DEF Sound, GateOpens
<1> QED
  BY <1>3 DEF q

LEMMA RunActionKeeps ==
  ASSUME NEW r, NEW ss, NEW dk, Sound(r, ss, dk), NEW action
  PROVE  Sound(RunAction(r, action), ss, dk)
<1>1. [kind |-> "open", then |-> Nothing] \in Pickers
  BY DEF Pickers, Thens, Nothing, Places
<1> QED
  BY <1>1, NewProjectKeeps, PickerKeeps DEF RunAction

LEMMA SwitchKeeps ==
  ASSUME NEW r, NEW ss, NEW dk, Sound(r, ss, dk), NEW path \in Places
  PROVE  Sound(SwitchTo(r, path), ss, dk)
BY LoadingKeeps DEF SwitchTo

LEMMA AfterKeeps ==
  ASSUME NEW r, NEW ss, NEW dk, Sound(r, ss, dk), NEW then \in Thens
  PROVE  Sound(After(r, then), ss, dk)
<1>1. then.path \in Places
  BY DEF Thens
<1>2. After(r, then) \in {r, PendingClose(r), SwitchTo(r, then.path), RunAction(r, then.kind)}
  BY DEF After
<1> QED
  BY <1>1, <1>2, PendingCloseKeeps, SwitchKeeps, RunActionKeeps

-----------------------------------------------------------------------------
(* Saving.                                                                 *)

\* A save begins: its content is of the session, its number is its own, and it
\* shares its file with no other that believes itself alone.
LEMMA BeginSaveKeeps ==
  ASSUME NEW r, Sound(r, saves, disk), Apart(saves, disk, begun),
         NEW path \in Paths \ Imports, NEW then \in Thens, BeginSave(r, path, then)
  PROVE  Sound(u', saves', disk') /\ Apart(saves', disk', begun')
<1> DEFINE rivals == {other \in saves : other.path = path}
           content == [project |-> r.session.project, id |-> r.session.id,
                       version |-> r.session.version]
           alone == rivals = {}
           new == [n |-> begun + 1, generation |-> r.generation, path |-> path, then |-> then,
                   content |-> content, written |-> FALSE, alone |-> alone]
           lone(other) == [other EXCEPT !.alone = FALSE]
<1>1. /\ r \in Studios /\ r.session \in Sessions /\ r.generation \in Nat
      /\ saves \in SUBSET Saves /\ disk \in [Paths -> Contents] /\ begun \in Nat
  BY DEF Sound, Typed, Studios, Apart
<1>2. /\ u' = r /\ disk' = disk /\ begun' = begun + 1
      /\ saves' = ((saves \ rivals) \cup {lone(other) : other \in rivals}) \cup {new}
  BY DEF BeginSave
<1>3. content \in Contents /\ alone \in BOOLEAN /\ begun + 1 \in Nat
  BY <1>1 DEF Sessions, Contents
<1>4. /\ new \in Saves /\ new.n = begun + 1 /\ new.generation = r.generation
      /\ new.path = path /\ new.content = content /\ ~new.written
      /\ new.alone <=> rivals = {}
  <2> HIDE DEF content, alone
  <2>1. /\ new \in Saves /\ new.n = begun + 1 /\ new.generation = r.generation
        /\ new.path = path /\ new.content = content /\ ~new.written /\ new.alone = alone
    BY <1>1, <1>3 DEF Saves
  <2> QED
    BY <2>1 DEF alone
<1> HIDE DEF new
<1>5. \A other \in rivals :
        /\ lone(other) \in Saves /\ lone(other).n = other.n
        /\ lone(other).generation = other.generation
        /\ lone(other).content = other.content /\ lone(other).path = path
        /\ ~lone(other).alone
  BY <1>1 DEF Saves
<1> HIDE DEF lone
<1>6. \A save \in saves' :
        \/ save = new
        \/ save \in saves /\ save.path # path
        \/ save.path = path /\ ~save.alone /\ \E other \in rivals : save = lone(other)
  BY <1>2, <1>5
<1>7. \A save \in saves' : save # new =>
        \E other \in saves : /\ save.n = other.n /\ save.generation = other.generation
                             /\ save.content = other.content
  BY <1>5, <1>6
<1>8. saves' \in SUBSET Saves
  BY <1>1, <1>4, <1>5, <1>6
<1> HIDE DEF rivals
<1>9. Numbered(r, saves', disk)
  <2>1. Known(content, r)
    BY DEF Sound, Numbered, Known
  <2>2. \A save \in saves' : Known(save.content, r)
    BY <1>4, <1>7, <2>1 DEF Sound, Numbered
  <2> QED
    BY <2>2 DEF Sound, Numbered
<1>10. Past(r, saves')
  BY <1>1, <1>4, <1>7 DEF Sound, Past
<1>11. Same(r, saves', disk)
  BY <1>4, <1>7 DEF Sound, Same
<1>12. Sound(r, saves', disk)
  BY <1>1, <1>8, <1>9, <1>10, <1>11 DEF Sound, Typed
<1>13. \A save \in saves' : save.n \in Nat /\ save.n <= begun + 1
  BY <1>1, <1>4, <1>7 DEF Apart, Saves
<1>14. \A save, other \in saves' : other.n = save.n => other = save
  <2>1. \A save \in saves : save.n # begun + 1 /\ \A other \in saves : other.n = save.n => other = save
    BY <1>1 DEF Apart, Saves
  <2>2. \A other \in rivals : other \in saves /\ other.path = path
    BY DEF rivals
  <2> SUFFICES ASSUME NEW save \in saves', NEW other \in saves', other.n = save.n
               PROVE  other = save
    OBVIOUS
  <2>3. save = new <=> other = new
    BY <1>4, <1>7, <2>1
  <2>4. CASE save # new /\ save.path # path /\ save \in saves
    BY <1>5, <1>6, <2>1, <2>2, <2>3, <2>4
  <2>5. CASE save # new /\ \E x \in rivals : save = lone(x)
    BY <1>5, <1>6, <2>1, <2>2, <2>3, <2>5
  <2> QED
    BY <1>6, <2>3, <2>4, <2>5
<1>15. \A save \in saves' : save.alone =>
         /\ \A other \in saves' : other.path = save.path => other = save
         /\ save.written => disk[save.path] = save.content
  <2> SUFFICES ASSUME NEW save \in saves', save.alone
               PROVE  /\ \A other \in saves' : other.path = save.path => other = save
                      /\ save.written => disk[save.path] = save.content
    OBVIOUS
  <2>1. CASE save = new
    BY <1>4, <1>6, <2>1 DEF rivals
  <2>2. CASE save # new
    <3>1. save \in saves /\ save.path # path
      BY <1>6, <2>2
    <3> QED
      BY <1>4, <1>6, <3>1 DEF Apart
  <2> QED
    BY <2>1, <2>2
<1> QED
  BY <1>1, <1>2, <1>12, <1>13, <1>14, <1>15 DEF Apart

\* A step of the studio alone.
LEMMA StudioStep ==
  ASSUME GuardInv, NEW q, Sound(q, saves, disk), u' = q, UNCHANGED <<saves, disk, begun>>
  PROVE  GuardInv'
<1>1. Sound(u', saves', disk') /\ Apart(saves', disk', begun')
  BY DEF GuardInv
<1> QED
  BY <1>1 DEF GuardInv

LEMMA SaveThenKeeps ==
  ASSUME GuardInv, NEW r, Sound(r, saves, disk), NEW then \in Thens, SaveThen(r, then)
  PROVE  GuardInv'
<1>1. CASE r.session.path # NoPath
  <2>1. r.session.path \in Paths \ Imports /\ BeginSave(r, r.session.path, then)
    BY <1>1 DEF SaveThen, Sound, Typed, Studios, Sessions
  <2>2. Sound(u', saves', disk') /\ Apart(saves', disk', begun')
    BY <2>1, BeginSaveKeeps DEF GuardInv
  <2> QED
    BY <2>2 DEF GuardInv
<1>2. CASE r.session.path = NoPath
  <2> DEFINE picker == [kind |-> "save", then |-> then]
             q == [r EXCEPT !.pickers = @ \cup {picker}]
  <2>1. picker \in Pickers
    BY DEF Pickers
  <2>2. Sound(q, saves, disk)
    BY <2>1, PickerKeeps
  <2>3. u' = q /\ UNCHANGED <<saves, disk, begun>>
    BY <1>2 DEF SaveThen
  <2> HIDE DEF q
  <2> QED
    BY <2>2, <2>3, StudioStep
<1> QED
  BY <1>1, <1>2

\* The file gets what the save holds; no other save that is alone is for it.
LEMMA SaveWritesKeeps ==
  ASSUME GuardInv, NEW save, SaveWrites(save)
  PROVE  GuardInv'
<1> DEFINE done == [save EXCEPT !.written = TRUE]
<1>1. /\ save \in saves /\ UNCHANGED <<u, begun>>
      /\ saves' = (saves \ {save}) \cup {done}
      /\ disk' = [disk EXCEPT ![save.path] = save.content]
  BY DEF SaveWrites
<1>2. /\ saves \in SUBSET Saves /\ disk \in [Paths -> Contents] /\ save \in Saves
      /\ save.path \in Paths /\ save.content \in Contents
  BY <1>1 DEF GuardInv, Sound, Typed, Saves
<1>3. /\ done \in Saves /\ done.n = save.n /\ done.generation = save.generation
      /\ done.path = save.path /\ done.content = save.content /\ done.alone = save.alone
      /\ done.written
  BY <1>2 DEF Saves
<1> HIDE DEF done
<1>4. \A p \in Paths : disk'[p] = IF p = save.path THEN save.content ELSE disk[p]
  BY <1>1, <1>2
<1>5. Typed(u, saves', disk')
  BY <1>1, <1>2, <1>3 DEF GuardInv, Sound, Typed
<1>6. Numbered(u, saves', disk')
  BY <1>1, <1>3, <1>4 DEF GuardInv, Sound, Numbered
<1>7. Past(u, saves')
  BY <1>1, <1>3 DEF GuardInv, Sound, Past
<1>8. Same(u, saves', disk')
  BY <1>1, <1>3, <1>4 DEF GuardInv, Sound, Same
<1>9. Apart(saves', disk', begun)
  <2>1. \A other \in saves : other.path \in Paths
    BY <1>2 DEF Saves
  <2> SUFFICES ASSUME NEW one \in saves'
               PROVE  /\ one.n <= begun
                      /\ \A other \in saves' : other.n = one.n => other = one
                      /\ one.alone => \A other \in saves' : other.path = one.path => other = one
                      /\ one.alone /\ one.written => disk'[one.path] = one.content
    BY DEF Apart, GuardInv
  <2>2. CASE one = done
    BY <1>1, <1>2, <1>3, <1>4, <2>2 DEF GuardInv, Apart
  <2>3. CASE one \in saves /\ one # save
    <3>1. one.path = save.path => ~one.alone
      BY <1>1, <2>3 DEF GuardInv, Apart
    <3> QED
      BY <1>1, <1>2, <1>3, <1>4, <2>1, <2>3, <3>1 DEF GuardInv, Apart
  <2> QED
    BY <1>1, <2>2, <2>3
<1>10. Sound(u', saves', disk') /\ Apart(saves', disk', begun')
  BY <1>1, <1>5, <1>6, <1>7, <1>8, <1>9 DEF GuardInv, Sound
<1> QED
  BY <1>10 DEF GuardInv

\* The session that a save is of gets its file, and keeps its project's id.
LEMMA SavedKeeps ==
  ASSUME GuardInv, NEW save \in saves, ~Superseded(save)
  PROVE  Sound(Saved(u, save), saves, disk)
<1> DEFINE session == [u.session EXCEPT !.id = save.content.id, !.path = save.path,
                                        !.dirty = FALSE]
           q == Saved(u, save)
<1>1. /\ u \in Studios /\ u.session \in Sessions /\ save \in Saves
      /\ save.content.id \in Owners /\ save.path \in Paths \ Imports
  BY DEF GuardInv, Sound, Typed, Studios, Saves, Contents
<1>2. /\ session \in Sessions /\ session.project = u.session.project
      /\ session.id = save.content.id
  BY <1>1 DEF Sessions
<1>3. q = [u EXCEPT !.session = session]
  BY <1>1 DEF Saved, Studios
<1> HIDE DEF session, q
<1>4. /\ q \in Studios /\ q.session = session /\ q.generation = u.generation
      /\ q.created = u.created /\ q.loads = u.loads /\ q.busy = u.busy
      /\ q.overtaken = u.overtaken
  BY <1>1, <1>2, <1>3 DEF Studios
<1>5. Numbered(q, saves, disk)
  BY <1>2, <1>4 DEF GuardInv, Sound, Numbered, Known
<1>6. Same(q, saves, disk)
  BY <1>2, <1>4 DEF GuardInv, Sound, Same, Superseded
<1>7. Sound(q, saves, disk)
  BY <1>4, <1>5, <1>6 DEF GuardInv, Sound, Typed, GateOpens, Past
<1> QED
  BY <1>7 DEF q

LEMMA SaveCompletesKeeps ==
  ASSUME GuardInv, NEW save, SaveCompletes(save)
  PROVE  GuardInv'
<1>1. /\ save \in saves /\ saves' = saves \ {save} /\ UNCHANGED <<disk, begun>>
      /\ u' = Completed(save) /\ save.then \in Thens
  BY DEF SaveCompletes, GuardInv, Sound, Typed, Saves
<1>2. Sound(Completed(save), saves, disk)
  BY <1>1, SavedKeeps, AfterKeeps DEF Completed, GuardInv
<1>3. Sound(u', saves', disk')
  BY <1>1, <1>2 DEF Sound, Typed, Numbered, GateOpens, Past, Same
<1>4. Apart(saves', disk', begun')
  BY <1>1 DEF GuardInv, Apart
<1> QED
  BY <1>3, <1>4 DEF GuardInv

-----------------------------------------------------------------------------
(* The user.                                                               *)

\* Dialogs, pickers and what waits for them do not matter to the invariant.
LEMMA Asked ==
  ASSUME GuardInv, NEW q \in Studios,
         q.session = u.session, q.generation = u.generation, q.created = u.created,
         q.overtaken = u.overtaken, q.loads = u.loads, q.busy = u.busy
  PROVE  Sound(q, saves, disk)
BY Framed DEF GuardInv, Sound, GateOpens

LEMMA EditKeeps ==
  ASSUME GuardInv, Edit
  PROVE  GuardInv'
<1> DEFINE session == [u.session EXCEPT !.version = u.edits + 1, !.dirty = TRUE]
           q == [u EXCEPT !.edits = u.edits + 1, !.session = session]
<1>1. u \in Studios /\ u.session \in Sessions /\ u.edits + 1 \in Nat
  BY DEF GuardInv, Sound, Typed, Studios
<1>2. /\ session \in Sessions /\ session.project = u.session.project
      /\ session.id = u.session.id
  BY <1>1 DEF Sessions
<1>3. u' = q
  BY <1>1 DEF Edit, Studios, Sessions
<1> HIDE DEF session
<1>4. /\ q \in Studios /\ q.session = session /\ q.generation = u.generation
      /\ q.created = u.created /\ q.loads = u.loads /\ q.busy = u.busy
      /\ q.overtaken = u.overtaken
  BY <1>1, <1>2 DEF Studios
<1> HIDE DEF q
<1>5. Sound(q, saves, disk)
  BY <1>2, <1>4 DEF GuardInv, Sound, Typed, Numbered, Known, GateOpens, Past, Same
<1> QED
  BY <1>3, <1>5, StudioStep DEF Edit

LEMMA NothingIsThen == Nothing \in Thens
BY DEF Nothing, Thens, Places

LEMMA SaveAsKeeps ==
  ASSUME GuardInv, SaveAs
  PROVE  GuardInv'
<1> DEFINE picker == [kind |-> "save", then |-> Nothing]
           q == [u EXCEPT !.pickers = @ \cup {picker}]
<1>1. picker \in Pickers
  BY NothingIsThen DEF Pickers
<1>2. Sound(q, saves, disk)
  BY <1>1, PickerKeeps DEF GuardInv
<1>3. u' = q /\ UNCHANGED <<saves, disk, begun>>
  BY DEF SaveAs
<1> HIDE DEF q
<1> QED
  BY <1>2, <1>3, StudioStep

LEMMA RequestCloseKeeps ==
  ASSUME GuardInv, NEW close \in Closes, RequestClose(close)
  PROVE  GuardInv'
<1> DEFINE r == [u EXCEPT !.close = close]
           box == [r EXCEPT !.dialog = Dialog("unsaved", NoPath)]
<1>1. u \in Studios
  BY DEF GuardInv, Sound, Typed
<1>2. /\ r \in Studios /\ r.session = u.session /\ r.generation = u.generation
      /\ r.created = u.created /\ r.overtaken = u.overtaken /\ r.loads = u.loads
      /\ r.busy = u.busy
  BY <1>1 DEF Studios
<1>3. Dialog("unsaved", NoPath) \in Dialogs
  BY DEF Dialog, Dialogs, Places
<1>4. /\ u' = box \/ u' = PendingClose(r)
      /\ UNCHANGED <<saves, disk, begun>>
  BY DEF RequestClose
<1> HIDE DEF r
<1>5. /\ box \in Studios /\ box.session = u.session /\ box.generation = u.generation
      /\ box.created = u.created /\ box.overtaken = u.overtaken /\ box.loads = u.loads
      /\ box.busy = u.busy
  BY <1>2, <1>3 DEF Studios
<1> HIDE DEF box
<1>6. Sound(box, saves, disk) /\ Sound(PendingClose(r), saves, disk)
  BY <1>2, <1>5, Asked, PendingCloseKeeps
<1> QED
  BY <1>4, <1>6, StudioStep

LEMMA RequestActionKeeps ==
  ASSUME GuardInv, NEW action \in Actions, RequestAction(action)
  PROVE  GuardInv'
<1> DEFINE box == [u EXCEPT !.action = action, !.dialog = Dialog("unsaved", NoPath)]
<1>1. u \in Studios
  BY DEF GuardInv, Sound, Typed
<1>2. Dialog("unsaved", NoPath) \in Dialogs
  BY DEF Dialog, Dialogs, Places
<1>3. /\ u' = box \/ u' = RunAction(u, action)
      /\ UNCHANGED <<saves, disk, begun>>
  BY DEF RequestAction
<1>4. /\ box \in Studios /\ box.session = u.session /\ box.generation = u.generation
      /\ box.created = u.created /\ box.overtaken = u.overtaken /\ box.loads = u.loads
      /\ box.busy = u.busy
  BY <1>1, <1>2 DEF Studios
<1> HIDE DEF box
<1>5. Sound(box, saves, disk) /\ Sound(RunAction(u, action), saves, disk)
  BY <1>4, Asked, RunActionKeeps DEF GuardInv
<1> QED
  BY <1>3, <1>5, StudioStep

LEMMA RequestSwitchKeeps ==
  ASSUME GuardInv, NEW path \in Paths, RequestSwitch(path)
  PROVE  GuardInv'
<1> DEFINE dialog == Dialog(IF u.session.dirty THEN "switchDirty" ELSE "switchClean", path)
           q == [u EXCEPT !.dialog = dialog]
<1>1. u \in Studios
  BY DEF GuardInv, Sound, Typed
<1>2. dialog \in Dialogs
  BY DEF Dialog, Dialogs, Places
<1>3. u' = q /\ UNCHANGED <<saves, disk, begun>>
  BY DEF RequestSwitch
<1> HIDE DEF dialog
<1>4. /\ q \in Studios /\ q.session = u.session /\ q.generation = u.generation
      /\ q.created = u.created /\ q.overtaken = u.overtaken /\ q.loads = u.loads
      /\ q.busy = u.busy
  BY <1>1, <1>2 DEF Studios
<1> HIDE DEF q
<1> QED
  BY <1>3, <1>4, Asked, StudioStep

\* A box that was answered is down.
LEMMA AnsweredFacts ==
  ASSUME GuardInv
  PROVE  /\ Answered \in Studios /\ Answered.session = u.session
         /\ Answered.generation = u.generation /\ Answered.created = u.created
         /\ Answered.overtaken = u.overtaken /\ Answered.loads = u.loads
         /\ Answered.busy = u.busy
         /\ Sound(Answered, saves, disk)
<1>1. u \in Studios /\ Nothing \in Dialogs
  BY DEF GuardInv, Sound, Typed, Nothing, Dialogs, Places
<1>2. /\ Answered \in Studios /\ Answered.session = u.session
      /\ Answered.generation = u.generation /\ Answered.created = u.created
      /\ Answered.overtaken = u.overtaken /\ Answered.loads = u.loads
      /\ Answered.busy = u.busy
  BY <1>1 DEF Answered, Studios
<1> QED
  BY <1>2, Asked

LEMMA AnswerUnsavedKeeps ==
  ASSUME GuardInv, AnswerUnsaved
  PROVE  GuardInv'
<1> DEFINE r == Answered
           cleared == [r EXCEPT !.close = "none", !.action = "none"]
           acting == [r EXCEPT !.action = "none"]
<1> HIDE DEF r
<1>1. /\ r \in Studios /\ r.session = u.session /\ r.generation = u.generation
      /\ r.created = u.created /\ r.overtaken = u.overtaken /\ r.loads = u.loads
      /\ r.busy = u.busy /\ Sound(r, saves, disk)
  BY AnsweredFacts DEF r
<1>2. /\ cleared \in Studios /\ cleared.session = u.session
      /\ cleared.generation = u.generation /\ cleared.created = u.created
      /\ cleared.overtaken = u.overtaken /\ cleared.loads = u.loads /\ cleared.busy = u.busy
      /\ acting \in Studios /\ acting.session = u.session
      /\ acting.generation = u.generation /\ acting.created = u.created
      /\ acting.overtaken = u.overtaken /\ acting.loads = u.loads /\ acting.busy = u.busy
  BY <1>1 DEF Studios
<1>3. \/ u' \in {cleared, PendingClose(r), RunAction(acting, u.action)}
         /\ UNCHANGED <<saves, disk, begun>>
      \/ u.action # "none" /\ SaveThen(acting, [kind |-> u.action, path |-> NoPath])
      \/ SaveThen(r, [kind |-> "close", path |-> NoPath])
  BY DEF AnswerUnsaved, r
<1> HIDE DEF cleared, acting
<1>4. Sound(cleared, saves, disk) /\ Sound(acting, saves, disk)
  BY <1>2, Asked
<1>5. CASE /\ u' \in {cleared, PendingClose(r), RunAction(acting, u.action)}
           /\ UNCHANGED <<saves, disk, begun>>
  <2>1. Sound(PendingClose(r), saves, disk) /\ Sound(RunAction(acting, u.action), saves, disk)
    BY <1>1, <1>4, PendingCloseKeeps, RunActionKeeps
  <2> QED
    BY <1>4, <1>5, <2>1, StudioStep
<1>6. CASE u.action # "none" /\ SaveThen(acting, [kind |-> u.action, path |-> NoPath])
  <2>1. u.action \in Actions
    BY <1>6 DEF GuardInv, Sound, Typed, Studios
  <2>2. [kind |-> u.action, path |-> NoPath] \in Thens
    BY <2>1 DEF Actions, Thens, Places
  <2> QED
    BY <1>4, <1>6, <2>2, SaveThenKeeps
<1>7. CASE SaveThen(r, [kind |-> "close", path |-> NoPath])
  <2>1. [kind |-> "close", path |-> NoPath] \in Thens
    BY DEF Thens, Places
  <2> QED
    BY <1>1, <1>7, <2>1, SaveThenKeeps
<1> QED
  BY <1>3, <1>5, <1>6, <1>7

LEMMA AnswerSwitchKeeps ==
  ASSUME GuardInv, AnswerSwitch
  PROVE  GuardInv'
<1>1. u.dialog.path \in Places
  BY DEF GuardInv, Sound, Typed, Studios, Dialogs
<1>2. Sound(Answered, saves, disk) /\ Sound(SwitchTo(Answered, u.dialog.path), saves, disk)
  BY <1>1, AnsweredFacts, SwitchKeeps
<1>3. CASE u' \in {Answered, SwitchTo(Answered, u.dialog.path)} /\ UNCHANGED <<saves, disk, begun>>
  BY <1>2, <1>3, StudioStep
<1>4. CASE SaveThen(Answered, [kind |-> "switch", path |-> u.dialog.path])
  <2>1. [kind |-> "switch", path |-> u.dialog.path] \in Thens
    BY <1>1 DEF Thens
  <2> QED
    BY <1>2, <1>4, <2>1, SaveThenKeeps
<1> QED
  BY <1>3, <1>4 DEF AnswerSwitch

\* A picker closes.
LEMMA PickerCloses ==
  ASSUME GuardInv, NEW picker \in u.pickers,
         NEW r, r = [u EXCEPT !.pickers = @ \ {picker}]
  PROVE  /\ Sound(r, saves, disk) /\ picker \in Pickers
         /\ Sound([r EXCEPT !.close = "none", !.action = "none"], saves, disk)
<1> DEFINE q == [r EXCEPT !.close = "none", !.action = "none"]
<1>1. u \in Studios /\ picker \in Pickers
  BY DEF GuardInv, Sound, Typed, Studios
<1>2. /\ r \in Studios /\ r.session = u.session /\ r.generation = u.generation
      /\ r.created = u.created /\ r.overtaken = u.overtaken /\ r.loads = u.loads
      /\ r.busy = u.busy
  BY <1>1 DEF Studios
<1>3. /\ q \in Studios /\ q.session = u.session /\ q.generation = u.generation
      /\ q.created = u.created /\ q.overtaken = u.overtaken /\ q.loads = u.loads
      /\ q.busy = u.busy
  BY <1>2 DEF Studios
<1> HIDE DEF q
<1>4. Sound(r, saves, disk) /\ Sound(q, saves, disk)
  BY <1>2, <1>3, Asked
<1> QED
  BY <1>1, <1>4 DEF q

LEMMA PickSaveKeeps ==
  ASSUME GuardInv, NEW picker \in u.pickers, PickSave(picker)
  PROVE  GuardInv'
<1> DEFINE r == [u EXCEPT !.pickers = @ \ {picker}]
           q == [r EXCEPT !.close = "none", !.action = "none"]
<1>1. Sound(r, saves, disk) /\ Sound(q, saves, disk) /\ picker \in Pickers
  BY PickerCloses
<1>2. \/ \E path \in Paths \ Imports : BeginSave(r, path, picker.then)
      \/ u' \in {r, q} /\ UNCHANGED <<saves, disk, begun>>
  BY DEF PickSave
<1> HIDE DEF r, q
<1>3. ASSUME NEW path \in Paths \ Imports, BeginSave(r, path, picker.then)
      PROVE  GuardInv'
  <2>1. picker.then \in Thens
    BY <1>1 DEF Pickers
  <2>2. Sound(u', saves', disk') /\ Apart(saves', disk', begun')
    BY <1>1, <1>3, <2>1, BeginSaveKeeps DEF GuardInv
  <2> QED
    BY <2>2 DEF GuardInv
<1>4. CASE u' \in {r, q} /\ UNCHANGED <<saves, disk, begun>>
  BY <1>1, <1>4, StudioStep
<1> QED
  BY <1>2, <1>3, <1>4

LEMMA PickOpenKeeps ==
  ASSUME GuardInv, NEW picker \in u.pickers, PickOpen(picker)
  PROVE  GuardInv'
<1> DEFINE r == [u EXCEPT !.pickers = @ \ {picker}]
<1>1. Sound(r, saves, disk)
  BY PickerCloses
<1>2. /\ u' \in {r} \cup {Loading(r, path) : path \in Paths}
      /\ UNCHANGED <<saves, disk, begun>>
  BY DEF PickOpen
<1> HIDE DEF r
<1>3. \A path \in Paths : Sound(Loading(r, path), saves, disk)
  BY <1>1, LoadingKeeps DEF Places
<1> QED
  BY <1>1, <1>2, <1>3, StudioStep

LEMMA SaveKeeps ==
  ASSUME GuardInv, Save
  PROVE  GuardInv'
<1>1. Sound(u, saves, disk) /\ SaveThen(u, Nothing)
  BY DEF GuardInv, Save
<1> QED
  BY <1>1, NothingIsThen, SaveThenKeeps

-----------------------------------------------------------------------------
(* The transaction.                                                        *)

\* A transaction that moves on, as what remains of the others and it.
LEMMA StagedKeeps ==
  ASSUME GuardInv, NEW load \in u.loads, NEW one, Good(one, u), NEW busy \in BOOLEAN,
         busy => one.stage \in {"shutdown", "installing"}
  PROVE  Sound([u EXCEPT !.loads = (u.loads \ {load}) \cup {one}, !.busy = busy],
               saves, disk)
<1> DEFINE loads == (u.loads \ {load}) \cup {one}
           q == [u EXCEPT !.loads = loads, !.busy = busy]
<1>1. u \in Studios /\ loads \in SUBSET Loads
  BY DEF GuardInv, Sound, Typed, Studios, Good
<1>2. one \in loads /\ \A other \in loads : other \in u.loads \/ Good(other, u)
  OBVIOUS
<1> HIDE DEF loads
<1>3. /\ q \in Studios /\ q.session = u.session /\ q.generation = u.generation
      /\ q.created = u.created /\ q.overtaken = u.overtaken /\ q.loads = loads
      /\ q.busy = busy
  BY <1>1 DEF Studios
<1> HIDE DEF q
<1>4. GateOpens(q)
  BY <1>2, <1>3 DEF GateOpens
<1>5. Sound(q, saves, disk)
  BY <1>2, <1>3, <1>4, Framed DEF GuardInv
<1> QED
  BY <1>5 DEF q, loads

\* A transaction that ends, with the gate open.
LEMMA EndedKeeps ==
  ASSUME GuardInv, NEW load
  PROVE  Sound([u EXCEPT !.loads = @ \ {load}, !.busy = FALSE], saves, disk)
<1> DEFINE q == [u EXCEPT !.loads = @ \ {load}, !.busy = FALSE]
<1>1. u \in Studios
  BY DEF GuardInv, Sound, Typed
<1>2. /\ q \in Studios /\ q.session = u.session /\ q.generation = u.generation
      /\ q.created = u.created /\ q.overtaken = u.overtaken
      /\ q.loads = u.loads \ {load} /\ ~q.busy
  BY <1>1 DEF Studios
<1> HIDE DEF q
<1>3. Sound(q, saves, disk)
  BY <1>2, Framed DEF GuardInv, GateOpens
<1> QED
  BY <1>3 DEF q

LEMMA ShutdownBeginsKeeps ==
  ASSUME GuardInv, NEW load \in u.loads, ShutdownBegins(load)
  PROVE  GuardInv'
<1> DEFINE one == [load EXCEPT !.stage = "shutdown"]
<1>1. /\ load \in Loads /\ one \in Loads /\ one.stage = "shutdown"
      /\ one.rollback = load.rollback /\ one.content = load.content
  BY DEF GuardInv, Sound, Typed, Studios, Loads
<1>2. /\ u' = [u EXCEPT !.loads = (u.loads \ {load}) \cup {one}, !.busy = TRUE]
      /\ UNCHANGED <<saves, disk, begun>>
  BY DEF ShutdownBegins, Staged
<1> HIDE DEF one
<1>3. Good(one, u)
  BY <1>1, LoadsAreGood DEF GuardInv, Good
<1>4. Sound([u EXCEPT !.loads = (u.loads \ {load}) \cup {one}, !.busy = TRUE], saves, disk)
  BY <1>1, <1>3, StagedKeeps
<1> QED
  BY <1>2, <1>4, StudioStep

\* The program ends; no save that comes late is of its session any more.
LEMMA ClosedKeeps ==
  ASSUME GuardInv
  PROVE  Sound(Gone([u EXCEPT !.generation = @ + 1]), saves, disk)
<1> DEFINE r == [u EXCEPT !.generation = u.generation + 1]
           q == Gone(r)
<1>1. u \in Studios /\ u.generation \in Nat /\ u.generation + 1 \in Nat
  BY DEF GuardInv, Sound, Typed, Studios
<1>2. /\ r \in Studios /\ r.session = u.session /\ r.generation = u.generation + 1
      /\ r.created = u.created /\ r.overtaken = u.overtaken
  BY <1>1 DEF Studios
<1> HIDE DEF r
<1>3. /\ q \in Studios /\ q.session = u.session /\ q.generation = u.generation + 1
      /\ q.created = u.created /\ q.overtaken = u.overtaken /\ q.loads = {} /\ ~q.busy
  BY <1>2 DEF Gone, Studios
<1> HIDE DEF q
<1>4. Past(q, saves) /\ \A save \in saves : save.generation # q.generation
  <2>1. \A save \in saves : save.generation \in Nat /\ save.generation <= u.generation
    BY DEF GuardInv, Sound, Typed, Past, Saves
  <2> QED
    BY <1>1, <1>3, <2>1 DEF Past
<1>5. Numbered(q, saves, disk) /\ Same(q, saves, disk)
  BY <1>3, <1>4 DEF GuardInv, Sound, Numbered, Known, Same
<1>6. Sound(q, saves, disk)
  BY <1>3, <1>4, <1>5 DEF GuardInv, Sound, Typed, GateOpens
<1> QED
  BY <1>6 DEF q, r

LEMMA ShutdownEndsKeeps ==
  ASSUME GuardInv, NEW load \in u.loads, ShutdownEnds(load)
  PROVE  GuardInv'
<1> DEFINE one == [load EXCEPT !.stage = "reading"]
           reading == [u EXCEPT !.loads = (u.loads \ {load}) \cup {one}, !.busy = FALSE]
           closed == Gone([u EXCEPT !.generation = @ + 1])
<1>1. /\ load \in Loads /\ one \in Loads /\ one.stage = "reading" /\ one.path = load.path
      /\ one.rollback = load.rollback /\ one.content = load.content
  BY DEF GuardInv, Sound, Typed, Studios, Loads
<1>2. /\ \/ u' = reading /\ load.path # NoPath
         \/ u' \in {ShutdownFailed(load), closed}
      /\ UNCHANGED <<saves, disk, begun>>
  BY DEF ShutdownEnds, Staged
<1> HIDE DEF one
<1>3. load.path # NoPath => Good(one, u)
  BY <1>1, LoadsAreGood DEF GuardInv, Good
<1>4. load.path # NoPath => Sound(reading, saves, disk)
  BY <1>3, StagedKeeps
<1>5. Sound(ShutdownFailed(load), saves, disk) /\ Sound(closed, saves, disk)
  BY EndedKeeps, ClosedKeeps DEF ShutdownFailed
<1> HIDE DEF reading, closed
<1> QED
  BY <1>2, <1>4, <1>5, StudioStep

\* Another session in place of the studio's: if a save is under way and the
\* project is another, the load has overtaken it.
LEMMA ReplacedKeeps ==
  ASSUME GuardInv, NEW session \in Sessions, NEW q \in Studios,
         Known(session, q), ~u.overtaken => session.id = session.project,
         q.session = session, q.generation = u.generation, q.created \in Nat,
         u.created <= q.created, q.loads \subseteq u.loads, ~q.busy,
         q.overtaken <=> \/ u.overtaken
                         \/ saves # {} /\ session.project # u.session.project
  PROVE  Sound(q, saves, disk)
<1>1. u.created \in Nat
  BY DEF GuardInv, Sound, Typed, Studios
<1>2. \A x : Known(x, u) => Known(x, q)
  BY <1>1 DEF Known
<1>3. Numbered(q, saves, disk)
  BY <1>2 DEF GuardInv, Sound, Numbered
<1>4. Same(q, saves, disk)
  BY DEF GuardInv, Sound, Same
<1> QED
  BY <1>3, <1>4 DEF GuardInv, Sound, Typed, GateOpens, Past

\* What Replaced makes of a studio.
LEMMA ReplacedFacts ==
  ASSUME NEW r \in Studios, NEW session \in Sessions
  PROVE  /\ Replaced(r, session) \in Studios
         /\ Replaced(r, session).session = session
         /\ Replaced(r, session).generation = r.generation
         /\ Replaced(r, session).created = r.created
         /\ Replaced(r, session).loads = r.loads
         /\ Replaced(r, session).busy = r.busy
         /\ Replaced(r, session).overtaken
              <=> \/ r.overtaken
                  \/ saves # {} /\ session.project # r.session.project
<1> DEFINE over == r.overtaken \/ (saves # {} /\ session.project # r.session.project)
           q == [r EXCEPT !.session = session, !.overtaken = over]
<1>1. Replaced(r, session) = q /\ over \in BOOLEAN
  BY DEF Replaced, Studios
<1>2. over <=> \/ r.overtaken
               \/ saves # {} /\ session.project # r.session.project
  OBVIOUS
<1> HIDE DEF over
<1>3. /\ q \in Studios /\ q.session = session /\ q.generation = r.generation
      /\ q.created = r.created /\ q.loads = r.loads /\ q.busy = r.busy
      /\ q.overtaken = over
  BY <1>1 DEF Studios
<1> HIDE DEF q
<1> QED
  BY <1>1, <1>2, <1>3

\* The session from before the transaction comes back.
LEMMA LoadFailedKeeps ==
  ASSUME GuardInv, NEW load \in u.loads
  PROVE  Sound(LoadFailed(load), saves, disk)
<1> DEFINE r == Replaced(u, load.rollback)
           q == [r EXCEPT !.loads = r.loads \ {load}, !.busy = FALSE]
<1>1. u \in Studios /\ u.created \in Nat /\ load \in Loads /\ load.rollback \in Sessions
  BY DEF GuardInv, Sound, Typed, Studios, Loads
<1>2. LoadFailed(load) = q
  BY DEF LoadFailed
<1>3. /\ r \in Studios /\ r.session = load.rollback /\ r.generation = u.generation
      /\ r.created = u.created /\ r.loads = u.loads
      /\ r.overtaken <=> \/ u.overtaken
                         \/ saves # {} /\ load.rollback.project # u.session.project
  BY <1>1, ReplacedFacts
<1> HIDE DEF r
<1>4. /\ q \in Studios /\ q.session = r.session /\ q.generation = r.generation
      /\ q.created = r.created /\ q.loads = r.loads \ {load} /\ ~q.busy
      /\ q.overtaken = r.overtaken
  BY <1>3 DEF Studios
<1> HIDE DEF q
<1>5. Good(load, u)
  BY LoadsAreGood DEF GuardInv
<1>6. Known(load.rollback, q)
  BY <1>3, <1>4, <1>5 DEF Good, Known
<1> QED
  BY <1>1, <1>2, <1>3, <1>4, <1>5, <1>6, ReplacedKeeps DEF Good

LEMMA ReadsFileKeeps ==
  ASSUME GuardInv, NEW load \in u.loads, ReadsFile(load)
  PROVE  GuardInv'
<1>1. CASE u' = LoadFailed(load)
  BY <1>1, LoadFailedKeeps, StudioStep DEF ReadsFile
<1>2. CASE /\ disk[load.path] # NoFile
           /\ u' = [u EXCEPT !.busy = TRUE, !.loads = (@ \ {load}) \cup
                     {[load EXCEPT !.stage = "installing", !.content = disk[load.path]]}]
  <2> DEFINE one == [load EXCEPT !.stage = "installing", !.content = disk[load.path]]
             q == [u EXCEPT !.loads = (u.loads \ {load}) \cup {one}, !.busy = TRUE]
  <2>1. load \in Loads /\ load.path \in Places /\ disk \in [Paths -> Contents]
    BY DEF GuardInv, Sound, Typed, Studios, Loads
  <2>2. Good(load, u)
    BY LoadsAreGood DEF GuardInv
  <2>3. load.path \in Paths /\ disk[load.path] \in Contents
    BY <2>1, <2>2 DEF ReadsFile, AtStage, Good, Places
  <2>4. /\ one \in Loads /\ one.stage = "installing" /\ one.path = load.path
        /\ one.rollback = load.rollback /\ one.content = disk[load.path]
    BY <2>1, <2>3 DEF Loads
  <2>5. u' = q
    BY <1>2 DEF GuardInv, Sound, Typed, Studios
  <2> HIDE DEF one
  <2>6. Good(one, u)
    <3>1. Known(disk[load.path], u)
      BY <1>2, <2>3 DEF GuardInv, Sound, Numbered
    <3>2. ~u.overtaken => disk[load.path].id = disk[load.path].project
      BY <2>3 DEF GuardInv, Sound, Same
    <3> QED
      BY <2>2, <2>3, <2>4, <3>1, <3>2, Constants DEF Good
  <2>7. Sound(q, saves, disk)
    BY <2>4, <2>6, StagedKeeps
  <2> HIDE DEF q
  <2> QED
    BY <2>5, <2>7, StudioStep DEF ReadsFile
<1> QED
  BY <1>1, <1>2 DEF ReadsFile

\* The session that was loaded; of an import, a project of its own.
LEMMA BoundKeeps ==
  ASSUME GuardInv, NEW load \in u.loads, load.stage = "installing",
         NEW r, r = [u EXCEPT !.loads = @ \ {load}, !.busy = FALSE, !.window = TRUE]
  PROVE  Sound(Bound(r, load), saves, disk)
<1>1. Good(load, u)
  BY LoadsAreGood DEF GuardInv
<1>2. /\ u \in Studios /\ u.created \in Nat /\ load \in Loads /\ load.path \in Paths
      /\ load.content \in Contents
  <2>1. u \in Studios
    BY DEF GuardInv, Sound, Typed
  <2>2. load \in Loads /\ load.path # NoPath
    BY <1>1 DEF Good
  <2> QED
    BY <2>1, <2>2 DEF Studios, Loads, Places
<1>3. /\ r \in Studios /\ r.session = u.session /\ r.generation = u.generation
      /\ r.created = u.created /\ r.loads = u.loads \ {load} /\ ~r.busy
      /\ r.overtaken = u.overtaken
  BY <1>2 DEF Studios
<1>4. CASE load.path \in Imports
  <2> DEFINE session == Untitled(r.created + 1, load.content.version, TRUE)
             one == Replaced(r, session)
             q == [one EXCEPT !.created = one.created + 1]
  <2>1. /\ session \in Sessions /\ session.project = u.created + 1
        /\ session.id = u.created + 1
    BY <1>2, <1>3 DEF Untitled, Sessions, Contents, Owners
  <2>2. Bound(r, load) = q
    BY <1>4 DEF Bound
  <2> HIDE DEF session
  <2>3. /\ one \in Studios /\ one.session = session /\ one.generation = u.generation
        /\ one.created = u.created /\ one.loads = u.loads \ {load} /\ ~one.busy
        /\ one.overtaken <=> \/ u.overtaken
                             \/ saves # {} /\ session.project # u.session.project
    <3>1. r \in Studios /\ session \in Sessions
      BY <1>3, <2>1
    <3>2. /\ Replaced(r, session).busy = r.busy
          /\ Replaced(r, session).overtaken
               <=> r.overtaken \/ (saves # {} /\ session.project # r.session.project)
      BY ONLY <3>1, ReplacedFacts
    <3>3. /\ Replaced(r, session) \in Studios /\ Replaced(r, session).session = session
          /\ Replaced(r, session).generation = r.generation
          /\ Replaced(r, session).created = r.created
          /\ Replaced(r, session).loads = r.loads
      BY ONLY <3>1, ReplacedFacts
    <3> QED
      BY <1>3, <3>2, <3>3
  <2> HIDE DEF one
  <2>4. /\ q \in Studios /\ q.session = one.session /\ q.generation = one.generation
        /\ q.created = one.created + 1 /\ q.loads = one.loads /\ q.busy = one.busy
        /\ q.overtaken = one.overtaken
    <3>1. one.created + 1 \in Nat
      BY <1>2, <2>3
    <3> QED
      BY <2>3, <3>1 DEF Studios
  <2> HIDE DEF q
  <2>5. /\ q.created \in Nat /\ u.created <= q.created /\ u.created + 1 \in 0..q.created
    BY <1>2, <2>3, <2>4
  <2>6. Known(session, q)
    BY <2>1, <2>5 DEF Known
  <2> QED
    BY <2>1, <2>2, <2>3, <2>4, <2>5, <2>6, ReplacedKeeps
<1>5. CASE load.path \notin Imports
  <2> DEFINE session == [project |-> load.content.project, id |-> load.content.id,
                         version |-> load.content.version, path |-> load.path,
                         dirty |-> FALSE]
             q == Replaced(r, session)
  <2>1. /\ session \in Sessions /\ session.project = load.content.project
        /\ session.id = load.content.id
    BY <1>2, <1>5 DEF Sessions, Contents
  <2>2. Bound(r, load) = q
    BY <1>5 DEF Bound
  <2> HIDE DEF session
  <2>3. /\ q \in Studios /\ q.session = session /\ q.generation = u.generation
        /\ q.created = u.created /\ q.loads = u.loads \ {load} /\ ~q.busy
        /\ q.overtaken <=> \/ u.overtaken
                           \/ saves # {} /\ session.project # u.session.project
    <3>1. r \in Studios /\ session \in Sessions
      BY <1>3, <2>1
    <3>2. /\ Replaced(r, session).busy = r.busy
          /\ Replaced(r, session).overtaken
               <=> r.overtaken \/ (saves # {} /\ session.project # r.session.project)
      BY ONLY <3>1, ReplacedFacts
    <3>3. /\ Replaced(r, session) \in Studios /\ Replaced(r, session).session = session
          /\ Replaced(r, session).generation = r.generation
          /\ Replaced(r, session).created = r.created
          /\ Replaced(r, session).loads = r.loads
      BY ONLY <3>1, ReplacedFacts
    <3> QED
      BY <1>3, <3>2, <3>3
  <2> HIDE DEF q
  <2>4. Known(session, q) /\ (~u.overtaken => session.id = session.project)
    BY <1>1, <2>1, <2>3 DEF Good, Known
  <2> QED
    BY <1>2, <2>1, <2>2, <2>3, <2>4, ReplacedKeeps
<1> QED
  BY <1>4, <1>5

LEMMA InstallsKeeps ==
  ASSUME GuardInv, NEW load \in u.loads, Installs(load)
  PROVE  GuardInv'
<1> DEFINE r == [u EXCEPT !.loads = @ \ {load}, !.busy = FALSE, !.window = TRUE]
           failed == [u EXCEPT !.loads = @ \ {load}, !.busy = FALSE]
<1>1. /\ load.stage = "installing" /\ u' \in {Bound(r, load), failed}
      /\ UNCHANGED <<saves, disk, begun>>
  BY DEF Installs, AtStage
<1>2. Sound(failed, saves, disk)
  BY EndedKeeps
<1>3. Sound(Bound(r, load), saves, disk)
  BY <1>1, BoundKeeps
<1> HIDE DEF r, failed
<1> QED
  BY <1>1, <1>2, <1>3, StudioStep

-----------------------------------------------------------------------------
(* Every step.                                                             *)

LEMMA GuardStep ==
  ASSUME GuardInv, [GuardNext]_guardVars
  PROVE  GuardInv'
<1>1. CASE GuardNext
  <2>1. CASE Edit \/ Save \/ SaveAs \/ AnswerUnsaved \/ AnswerSwitch
    BY <2>1, EditKeeps, SaveKeeps, SaveAsKeeps, AnswerUnsavedKeeps, AnswerSwitchKeeps
  <2>2. CASE \/ \E close \in Closes : RequestClose(close)
             \/ \E action \in Actions : RequestAction(action)
             \/ \E path \in Paths : RequestSwitch(path)
    BY <2>2, RequestCloseKeeps, RequestActionKeeps, RequestSwitchKeeps
  <2>3. CASE \E picker \in u.pickers : PickSave(picker) \/ PickOpen(picker)
    BY <2>3, PickSaveKeeps, PickOpenKeeps
  <2>4. CASE \E save \in saves : SaveWrites(save) \/ SaveCompletes(save)
    BY <2>4, SaveWritesKeeps, SaveCompletesKeeps
  <2>5. CASE \E load \in u.loads : ShutdownBegins(load) \/ ShutdownEnds(load)
                                   \/ ReadsFile(load) \/ Installs(load)
    BY <2>5, ShutdownBeginsKeeps, ShutdownEndsKeeps, ReadsFileKeeps, InstallsKeeps
  <2> QED
    BY <1>1, <2>1, <2>2, <2>3, <2>4, <2>5 DEF GuardNext
<1>2. CASE UNCHANGED guardVars
  BY <1>2 DEF guardVars, GuardInv, Sound, Typed, Numbered, Known, GateOpens, Past, Same,
     Apart
<1> QED
  BY <1>1, <1>2

LEMMA GuardStarts == GuardInit => GuardInv
<1> SUFFICES ASSUME GuardInit PROVE GuardInv
  OBVIOUS
<1>1. saves = {} /\ begun = 0
  BY DEF GuardInit
<1>2. /\ u \in Studios /\ u.session.project = 0 /\ u.session.id = 0 /\ u.created = 0
      /\ ~u.busy /\ u.loads = {}
  BY DEF GuardInit, Studios, Untitled, Sessions, Owners, Places, Dialogs, Nothing
<1>3. /\ disk \in [Paths -> Contents]
      /\ \A p \in Paths : disk[p].id = disk[p].project /\ (disk[p] = NoFile \/ Known(disk[p], u))
  BY Constants DEF GuardInit, Contents, Owners, Places, Known, NoFile
<1>4. Sound(u, saves, disk)
  BY <1>1, <1>2, <1>3 DEF Sound, Typed, Numbered, Known, GateOpens, Past, Same
<1>5. Apart(saves, disk, begun)
  BY <1>1 DEF Apart
<1> QED
  BY <1>4, <1>5 DEF GuardInv

\* The invariant holds of every behaviour of saves, pickers and transactions
\* (project_ops.rs, close_ops.rs, session_load.rs).
THEOREM GuardInvariant == GuardSpec => []GuardInv
BY GuardStarts, GuardStep, PTL DEF GuardSpec

\* The studio stays well-typed, and the gate that refuses the user's requests
\* (PROJECT_LIFECYCLE_BUSY) is never closed without a transaction that will
\* open it again.
THEOREM GuardTyped == GuardSpec => []GuardTypeOK
<1>1. GuardInv => GuardTypeOK
  BY DEF GuardInv, Sound, Typed, Studios, Sessions, Saves, Numbered, Known, GateOpens, Past,
     GuardTypeOK
<1> QED
  BY <1>1, GuardInvariant, PTL

\* Unless a load replaced the session while a save was under way, a session
\* that has a file has the id of the project it shows: a save that completes
\* late (finish_project_save) is told from those of its session.
THEOREM IdentityIsKept == GuardSpec => []IdentityKeptUnlessOvertaken
<1>1. GuardInv => IdentityKeptUnlessOvertaken
  BY DEF GuardInv, Sound, Same, IdentityKeptUnlessOvertaken, IdentityKept
<1> QED
  BY <1>1, GuardInvariant, PTL

\* A step that ends a save and then closes the studio, replaces the session,
\* starts a load or opens a picker has the file with what was saved: only a
\* completion ends a save, and one that did not write its file, or is not of
\* this session, does nothing.
LEMMA LeavesSaved ==
  ASSUME GuardInv, GuardNext, NEW save \in saves,
         save.n \notin {other.n : other \in saves'}, save.alone,
         u' # u \/ u.over
  PROVE  disk'[save.path] = save.content
<1>1. ASSUME NEW r, NEW path, NEW then, BeginSave(r, path, then)
      PROVE  FALSE
  <2>1. CASE save.path # path
    BY <1>1, <2>1 DEF BeginSave
  <2>2. CASE save.path = path
    <3>1. [save EXCEPT !.alone = FALSE] \in saves'
      BY <1>1, <2>2 DEF BeginSave
    <3>2. [save EXCEPT !.alone = FALSE].n = save.n
      BY DEF GuardInv, Sound, Typed, Saves
    <3> QED
      BY <3>1, <3>2
  <2> QED
    BY <2>1, <2>2
<1>2. ASSUME NEW r, NEW then, SaveThen(r, then)
      PROVE  FALSE
  BY <1>1, <1>2 DEF SaveThen
<1>3. saves' # saves
  OBVIOUS
<1>4. ~(Edit \/ Save \/ SaveAs \/ AnswerUnsaved \/ AnswerSwitch)
  BY <1>2, <1>3 DEF Edit, Save, SaveAs, AnswerUnsaved, AnswerSwitch
<1>5. /\ \A close : ~RequestClose(close)
      /\ \A action : ~RequestAction(action)
      /\ \A path : ~RequestSwitch(path)
  BY <1>3 DEF RequestClose, RequestAction, RequestSwitch
<1>6. \A picker : ~PickSave(picker) /\ ~PickOpen(picker)
  BY <1>1, <1>3 DEF PickSave, PickOpen
<1>7. \A load : ~(ShutdownBegins(load) \/ ShutdownEnds(load)
                  \/ ReadsFile(load) \/ Installs(load))
  BY <1>3 DEF ShutdownBegins, ShutdownEnds, ReadsFile, Installs
<1>8. \A one \in saves : ~SaveWrites(one)
  BY DEF SaveWrites
<1>9. PICK one \in saves : SaveCompletes(one)
  BY <1>4, <1>5, <1>6, <1>7, <1>8 DEF GuardNext
<1>10. one = save
  BY <1>9 DEF SaveCompletes
<1>11. save.written
  BY <1>9, <1>10 DEF SaveCompletes, Completed
<1> QED
  BY <1>9, <1>11 DEF GuardInv, Apart, SaveCompletes

\* "Save, then close, quit, new, open or switch" leaves nothing behind.
THEOREM OnlySavedIsLeft == GuardSpec => LeavesOnlySaved
<1> DEFINE Step ==
      \A save \in saves :
        /\ save.n \notin {other.n : other \in saves'}
        /\ save.then # Nothing /\ save.alone
        /\ \/ u'.over \/ u'.session.project # u.session.project
           \/ u'.loads # u.loads \/ u'.pickers # u.pickers
        => disk'[save.path] = save.content
<1>1. ASSUME GuardInv, [GuardNext]_guardVars
      PROVE  [Step]_guardVars
  <2> SUFFICES ASSUME GuardNext, NEW save \in saves,
                      save.n \notin {other.n : other \in saves'}, save.alone,
                      \/ u'.over \/ u'.session.project # u.session.project
                      \/ u'.loads # u.loads \/ u'.pickers # u.pickers
               PROVE  disk'[save.path] = save.content
    BY <1>1
  <2>1. u' # u \/ u.over
    OBVIOUS
  <2> QED
    BY <1>1, <2>1, LeavesSaved
<1>2. [][Step]_guardVars => LeavesOnlySaved
  BY PTL DEF LeavesOnlySaved
<1> QED
  BY <1>1, <1>2, GuardInvariant, PTL DEF GuardSpec
=============================================================================
