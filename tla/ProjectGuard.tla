---------------------------- MODULE ProjectGuard ----------------------------
(***************************************************************************)
(* What stands between the user and the loss of a project: the guards of   *)
(* New, Open, Switch, Close and Quit, the saves that run in the background *)
(* with an action to do after them, and the transaction that replaces the  *)
(* live session (close_ops.rs, project_ops.rs, project_switch.rs,          *)
(* session_load.rs, loading_session.rs, and app.rs of the native studio).  *)
(*                                                                         *)
(* A handler of the UI thread is one step; a save writes its file off it.  *)
(* The message boxes are modal, the file pickers and the window of a       *)
(* transaction are not.  A project is named by the file that held it first *)
(* or numbered if it was made here; its content is its last edit's number. *)
(* Autosaves, copies and templates are left out, and so is the welcome     *)
(* screen: a closed window is the end.                                     *)
(***************************************************************************)
EXTENDS Naturals, FiniteSets

CONSTANTS
  Paths,       \* project files
  NoPath,      \* no file
  Imports,     \* files of another program, which are never saved to
  MaxWork,     \* bound on edits, saves, new projects and transactions together
  MaxPickers   \* bound on file pickers at a time

ASSUME GuardAssumption ==
  /\ NoPath \notin Paths /\ Imports \subseteq Paths
  /\ {MaxWork, MaxPickers} \subseteq Nat

VARIABLES
  u,      \* the studio, its dialogs, pickers and transactions
  saves,  \* saves in the background (alone: no other to the file meanwhile)
  disk,   \* what each file holds
  begun   \* saves begun, to name them

guardVars == <<u, saves, disk, begun>>

NoFile  == [project |-> NoPath, id |-> NoPath, version |-> 0]
Nothing == [kind |-> "nothing", path |-> NoPath]
Closes  == {"close", "quit"}
Actions == {"new", "open"}

\* A session that no file holds; its id is its own.
Untitled(project, version, dirty) ==
  [project |-> project, id |-> project, version |-> version, path |-> NoPath,
   dirty |-> dirty]

GuardInit ==
  /\ disk \in [Paths -> {NoFile}] \cup
       {[p \in Paths |-> [project |-> p, id |-> p, version |-> 0]]}
  /\ u = [session   |-> Untitled(0, 0, FALSE),  \* project_session, timeline
          generation |-> 0,         \* session_generation
          busy      |-> FALSE,      \* PROJECT_LIFECYCLE_BUSY
          window    |-> TRUE,       \* window_hooks.self_window
          close     |-> "none",     \* pending_close_action
          action    |-> "none",     \* pending_lifecycle_action
          dialog    |-> Nothing,    \* the message box that is up
          pickers   |-> {},         \* file pickers
          loads     |-> {},         \* transactions
          loaded    |-> 0,          \* history: transactions begun
          created   |-> 0,          \* projects made after the first
          edits     |-> 0,          \* history: edits
          over      |-> FALSE,      \* the studio is gone
          overtaken |-> FALSE]      \* history: a load changed the project mid-save
  /\ saves = {} /\ begun = 0

-----------------------------------------------------------------------------
(* Parts of the handlers, as what they make of the studio r.               *)

\* new_empty_project: reset_project and an untitled session.
NewProject(r) ==
  [r EXCEPT !.session = Untitled(r.created + 1, r.edits, FALSE),
            !.created = @ + 1, !.generation = @ + 1]

\* A transaction: its window is up, and what a failure restores is kept.
Loading(r, path) ==
  [r EXCEPT !.loaded = @ + 1,
            !.loads = @ \cup {[path |-> path, stage |-> "opened",
                               rollback |-> r.session, content |-> NoFile]}]

\* do_close_project
CloseProject(r) ==
  IF r.busy \/ ~r.window THEN r
  ELSE Loading([r EXCEPT !.window = FALSE], NoPath)

\* The window or the program is gone, and its handlers with it.
Gone(r) == [r EXCEPT !.over = TRUE, !.loads = {}, !.pickers = {}, !.busy = FALSE]

\* perform_pending_close
PendingClose(r) ==
  CASE r.close = "close" -> CloseProject([r EXCEPT !.close = "none"])
    [] r.close = "quit"  -> Gone([r EXCEPT !.close = "none"])
    [] OTHER             -> r

\* run_lifecycle_action
RunAction(r, action) ==
  IF action = "new" THEN NewProject(r)
  ELSE [r EXCEPT !.pickers = @ \cup {[kind |-> "open", then |-> Nothing]}]

\* execute_confirmed_project_switch, and through the hook of the native shell
\* request_project_switch_in_studio.  Nothing asks again whether a transaction
\* is under way.
SwitchTo(r, path) ==
  IF r.session.path = path \/ disk[path] = NoFile THEN r
  ELSE Loading(r, path)

\* apply_save_then
After(r, then) ==
  CASE then.kind = "nothing" -> r
    [] then.kind = "close"   -> PendingClose(r)
    [] then.kind = "switch"  -> SwitchTo(r, then.path)
    [] OTHER                 -> RunAction(r, then.kind)

\* A load replaces the session.
Replaced(r, session) ==
  [r EXCEPT !.session = session,
            !.overtaken = @ \/ (saves # {} /\ session.project # r.session.project)]

-----------------------------------------------------------------------------
(* Saving.                                                                 *)

\* save_project_in_background_then: a copy of the project, stamped with the
\* session it is of.  Nothing orders two saves to one file.
BeginSave(r, path, then) ==
  LET rivals == {other \in saves : other.path = path} IN
  /\ begun' = begun + 1
  /\ saves' = (saves \ rivals) \cup {[other EXCEPT !.alone = FALSE] : other \in rivals}
       \cup
       {[n |-> begun + 1, generation |-> r.generation, path |-> path, then |-> then,
         content |-> [project |-> r.session.project, id |-> r.session.id,
                      version |-> r.session.version],
         written |-> FALSE, alone |-> rivals = {}]}
  /\ u' = r
  /\ UNCHANGED disk

\* save_then, cmd_save_project: a project without a file asks for one.
SaveThen(r, then) ==
  IF r.session.path # NoPath THEN BeginSave(r, r.session.path, then)
  ELSE /\ u' = [r EXCEPT !.pickers = @ \cup {[kind |-> "save", then |-> then]}]
       /\ UNCHANGED <<saves, disk, begun>>

\* save_project, off the UI thread: the file is replaced.
SaveWrites(save) ==
  /\ save \in saves /\ ~save.written /\ ~u.over
  /\ saves' = (saves \ {save}) \cup {[save EXCEPT !.written = TRUE]}
  /\ disk' = [disk EXCEPT ![save.path] = save.content]
  /\ UNCHANGED <<u, begun>>

\* Mutant of Superseded: a save is of whatever session there is.
NeverSuperseded(save) == FALSE

\* The session it was of is gone.
Superseded(save) == save.generation # u.generation

\* finish_project_save and bind_saved
Saved(r, save) ==
  [r EXCEPT !.session = [@ EXCEPT !.id = save.content.id, !.path = save.path,
                                  !.dirty = FALSE]]

\* Mutant of Completed: the next action follows a save that failed, too.
CompletedAnyway(save) ==
  CASE Superseded(save) -> u
    [] ~save.written    -> After(u, save.then)
    [] OTHER            -> After(Saved(u, save), save.then)

\* A save that failed drops its action, and the session stays as it is.
Completed(save) ==
  IF Superseded(save) \/ ~save.written THEN u ELSE After(Saved(u, save), save.then)

\* The save comes back; one that has not written its file has failed.
SaveCompletes(save) ==
  /\ save \in saves /\ ~u.over
  /\ u' = Completed(save)
  /\ saves' = saves \ {save}
  /\ UNCHANGED <<disk, begun>>

-----------------------------------------------------------------------------
(* The user, while no message box is up.                                   *)

Free == u.dialog = Nothing /\ ~u.over

\* mark_dirty
Edit ==
  /\ Free
  /\ u' = [u EXCEPT !.edits = @ + 1, !.session.version = u.edits + 1,
                    !.session.dirty = TRUE]
  /\ UNCHANGED <<saves, disk, begun>>

Save == Free /\ SaveThen(u, Nothing)

\* cmd_save_project_as
SaveAs ==
  /\ Free
  /\ u' = [u EXCEPT !.pickers = @ \cup {[kind |-> "save", then |-> Nothing]}]
  /\ UNCHANGED <<saves, disk, begun>>

Dialog(kind, path) == [kind |-> kind, path |-> path]

\* request_close, request_quit
RequestClose(close) ==
  LET r == [u EXCEPT !.close = close] IN
  /\ Free /\ ~u.busy
  /\ u' = IF r.session.dirty THEN [r EXCEPT !.dialog = Dialog("unsaved", NoPath)]
          ELSE PendingClose(r)
  /\ UNCHANGED <<saves, disk, begun>>

\* guard_dirty_then_lifecycle
RequestAction(action) ==
  /\ Free /\ ~u.busy
  /\ u' = IF u.session.dirty
          THEN [u EXCEPT !.action = action, !.dialog = Dialog("unsaved", NoPath)]
          ELSE RunAction(u, action)
  /\ UNCHANGED <<saves, disk, begun>>

\* request_switch_project
RequestSwitch(path) ==
  /\ Free /\ ~u.busy /\ u.session.path # path /\ disk[path] # NoFile
  /\ u' = [u EXCEPT !.dialog =
             Dialog(IF u.session.dirty THEN "switchDirty" ELSE "switchClean", path)]
  /\ UNCHANGED <<saves, disk, begun>>

Answered == [u EXCEPT !.dialog = Nothing]

\* The three answers of the unsaved-changes box.
AnswerUnsaved ==
  /\ u.dialog.kind = "unsaved" /\ ~u.over
  /\ \/ /\ u' = [Answered EXCEPT !.close = "none", !.action = "none"]
        /\ UNCHANGED <<saves, disk, begun>>
     \/ /\ u' = IF u.action = "none" THEN PendingClose(Answered)
                ELSE RunAction([Answered EXCEPT !.action = "none"], u.action)
        /\ UNCHANGED <<saves, disk, begun>>
     \/ IF u.action # "none"
        THEN SaveThen([Answered EXCEPT !.action = "none"],
                      [kind |-> u.action, path |-> NoPath])
        ELSE SaveThen(Answered, [kind |-> "close", path |-> NoPath])

\* confirm_and_switch_project
AnswerSwitch ==
  /\ u.dialog.kind \in {"switchDirty", "switchClean"} /\ ~u.over
  /\ \/ /\ u' \in {Answered, SwitchTo(Answered, u.dialog.path)}
        /\ UNCHANGED <<saves, disk, begun>>
     \/ /\ u.dialog.kind = "switchDirty"
        /\ SaveThen(Answered, [kind |-> "switch", path |-> u.dialog.path])

\* A picker returns a file, or nothing: then a guard's save drops what waits.
PickSave(picker) ==
  LET r == [u EXCEPT !.pickers = @ \ {picker}] IN
  /\ picker \in u.pickers /\ picker.kind = "save" /\ ~u.over
  /\ \/ \E path \in Paths \ Imports : BeginSave(r, path, picker.then)
     \/ /\ u' = IF picker.then = Nothing THEN r
                ELSE [r EXCEPT !.close = "none", !.action = "none"]
        /\ UNCHANGED <<saves, disk, begun>>

\* cmd_open_project, once a file is picked.  Neither the dirty session nor a
\* transaction is looked at again.
PickOpen(picker) ==
  LET r == [u EXCEPT !.pickers = @ \ {picker}] IN
  /\ picker \in u.pickers /\ picker.kind = "open" /\ ~u.over
  /\ u' \in {r} \cup {Loading(r, path) : path \in Paths}
  /\ UNCHANGED <<saves, disk, begun>>

-----------------------------------------------------------------------------
(* The transaction that replaces or closes the session.                    *)

Staged(load, stage) == (u.loads \ {load}) \cup {[load EXCEPT !.stage = stage]}

AtStage(load, stage) == load \in u.loads /\ load.stage = stage /\ ~u.over

\* begin_session_shutdown
ShutdownBegins(load) ==
  /\ AtStage(load, "opened")
  /\ u' = [u EXCEPT !.loads = Staged(load, "shutdown"), !.busy = TRUE]
  /\ UNCHANGED <<saves, disk, begun>>

\* Mutant of ShutdownFailed: the gate stays closed.
ShutdownFailedBusy(load) == [u EXCEPT !.loads = @ \ {load}]

\* finish_shutdown_failure: nothing is restored.
ShutdownFailed(load) == [u EXCEPT !.loads = @ \ {load}, !.busy = FALSE]

\* The session is quiet: a load goes on to read its file, a close ends in the
\* welcome screen.
ShutdownEnds(load) ==
  /\ AtStage(load, "shutdown")
  /\ \/ u' = ShutdownFailed(load)
     \/ /\ load.path # NoPath
        /\ u' = [u EXCEPT !.loads = Staged(load, "reading"), !.busy = FALSE]
     \/ /\ load.path = NoPath
        /\ u' = Gone([u EXCEPT !.generation = @ + 1])
  /\ UNCHANGED <<saves, disk, begun>>

\* finish_failure, handle_project_switch_load_failed and
\* restore_session_rollback_snapshot
LoadFailed(load) ==
  [Replaced(u, load.rollback) EXCEPT !.loads = @ \ {load}, !.busy = FALSE]

\* Validate and Decode, which leave the gate open.
ReadsFile(load) ==
  /\ AtStage(load, "reading")
  /\ \/ u' = LoadFailed(load)
     \/ /\ disk[load.path] # NoFile
        /\ u' = [u EXCEPT !.busy = TRUE, !.loads = (@ \ {load}) \cup
                   {[load EXCEPT !.stage = "installing", !.content = disk[load.path]]}]
  /\ UNCHANGED <<saves, disk, begun>>

\* bind_loaded_project_session; an import has no file to save back to.
Bound(r, load) ==
  IF load.path \in Imports
  THEN [Replaced(r, Untitled(r.created + 1, load.content.version, TRUE))
          EXCEPT !.created = @ + 1]
  ELSE Replaced(r, [project |-> load.content.project, id |-> load.content.id,
                    version |-> load.content.version, path |-> load.path,
                    dirty |-> FALSE])

\* install_loaded_session.  A failed install has no snapshot to restore.
Installs(load) ==
  LET r == [u EXCEPT !.loads = @ \ {load}, !.busy = FALSE, !.window = TRUE] IN
  /\ AtStage(load, "installing")
  /\ u' \in {Bound(r, load), [u EXCEPT !.loads = @ \ {load}, !.busy = FALSE]}
  /\ UNCHANGED <<saves, disk, begun>>

Bounded ==
  /\ u'.edits + begun' + u'.created + u'.loaded <= MaxWork
  /\ Cardinality(u'.pickers) <= MaxPickers

GuardNext ==
  /\ \/ Edit \/ Save \/ SaveAs
     \/ \E close \in Closes : RequestClose(close)
     \/ \E action \in Actions : RequestAction(action)
     \/ \E path \in Paths : RequestSwitch(path)
     \/ AnswerUnsaved \/ AnswerSwitch
     \/ \E picker \in u.pickers : PickSave(picker) \/ PickOpen(picker)
     \/ \E save \in saves : SaveWrites(save) \/ SaveCompletes(save)
     \/ \E load \in u.loads : ShutdownBegins(load) \/ ShutdownEnds(load)
                              \/ ReadsFile(load) \/ Installs(load)
  /\ Bounded

GuardSpec == GuardInit /\ [][GuardNext]_guardVars

-----------------------------------------------------------------------------
(* Properties.                                                             *)

\* Types; the gate that refuses the user's requests is closed only while a
\* transaction has work under way, and will open it again.
GuardTypeOK ==
  /\ u.session.path \in {NoPath} \cup (Paths \ Imports)
  /\ {u.session.project, u.session.id} \subseteq Paths \cup 0..u.created
  /\ u.close \in {"none"} \cup Closes /\ u.action \in {"none"} \cup Actions
  /\ u.busy => \E load \in u.loads : load.stage \in {"shutdown", "installing"}
  /\ \A save \in saves : save.generation <= u.generation /\ save.path \notin Imports

\* A session that has a file has the id of the project it shows.  A save that
\* completes late never gives it another project's (project_ops.rs).
IdentityKept == u.session.path # NoPath => u.session.id = u.session.project

\* The same, as long as no load has replaced the session while a save was
\* under way: the generation tells every other late save from its own.
IdentityKeptUnlessOvertaken == ~u.overtaken => IdentityKept

\* "Save, then" leaves nothing behind: when the action of a save closes the
\* studio, replaces the session or starts a load, the file holds what was to be
\* saved, unless a second save to the file was under way meanwhile.
LeavesOnlySaved ==
  [][\A save \in saves :
       /\ save.n \notin {other.n : other \in saves'}
       /\ save.then # Nothing /\ save.alone
       /\ \/ u'.over \/ u'.session.project # u.session.project
          \/ u'.loads # u.loads \/ u'.pickers # u.pickers
       => disk'[save.path] = save.content]_guardVars
=============================================================================
