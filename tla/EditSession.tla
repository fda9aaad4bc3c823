---------------------------- MODULE EditSession ----------------------------
(***************************************************************************)
(* The editor as the commander opens, saves and leaves it (NCWin, SaveFile *)
(* of eloadsave.cpp): the mode of the main window, the editor or viewer    *)
(* that waits in the background while the panels are shown, and the file   *)
(* on the disk.  What has been typed is not to be lost unless the user     *)
(* agrees.                                                                 *)
(***************************************************************************)
EXTENDS EditText

CONSTANT MaxRunning     \* bound: how many commands run at a time

ASSUME SessionAssumption == MaxRunning \in Nat

VARIABLES
    mode,       \* _mode, or "quit"
    background, \* m_BackgroundActivity
    running,    \* how many commands of the shell are running
    asked,      \* the question of EditExit is on the screen
    agreed,     \* the user has agreed to lose the text as it is
    gaps        \* what has happened of that which the code does not guard against

windowVars == <<mode, background, running, asked>>
sessionVars == <<editVars, windowVars, agreed, gaps>>
-----------------------------------------------------------------------------
SessionInit ==
    /\ mode = "panel" /\ background = "none" /\ running = 0
    /\ asked = FALSE /\ agreed = FALSE /\ gaps = {}

EditorKey ==
    /\ mode = "edit"
    /\ (\E c \in EdChar : Key(InsChar(ed, c))) \/ Key(Undo(ed)) \/ Key(Redo(ed))
    /\ agreed' = FALSE
    /\ UNCHANGED <<windowVars, gaps>>

(***************************************************************************)
(* EditSave and SaveFile.  The editor forgets its history, as the setting  *)
(* clear says, before it is known whether the file can be written.  The    *)
(* file is truncated when it is opened; the dialog can be cancelled at any *)
(* time, also when everything has been written.                            *)
(***************************************************************************)
Truncated == <<"?">>
Forgotten(clear) == IF clear THEN [ed EXCEPT !.undo = <<>>, !.pos = 0] ELSE ed

Saves ==
    \E clear \in BOOLEAN :
        \/ /\ disk' = Save(ed.text)
           /\ ed' = [Forgotten(clear) EXCEPT !.changed = FALSE]
           /\ gaps' = IF clear \/ ed.undo = <<>> THEN gaps ELSE gaps \cup {"history kept"}
        \/ /\ disk' \in {disk, Truncated, Save(ed.text)}
           /\ ed' = Forgotten(clear)
           /\ gaps' = gaps \cup {"not saved"}

EditSave ==
    /\ mode = "edit" /\ Saves
    /\ UNCHANGED <<changes, windowVars, agreed>>

(***************************************************************************)
(* The editor is no longer in the background once it is to be left, and a  *)
(* text with changes is asked about.  While the question is on the screen  *)
(* a command may end (CommandEnds), and the panels are shown behind it.    *)
(***************************************************************************)
EditExit ==
    /\ mode = "edit" /\ background' = "none"
    /\ mode' = IF ed.changed THEN mode ELSE "panel"
    /\ asked' = ed.changed
    /\ UNCHANGED <<editVars, running, agreed, gaps>>

\* "File has changes, save it?"  No; Yes, when EditSave returns true whatever comes of
\* it; Yes, when EditSave returns at once, since the editor is not shown; Cancel.
ExitAnswered ==
    /\ asked /\ asked' = FALSE
    /\ \/ mode' = "panel" /\ agreed' = TRUE /\ UNCHANGED <<ed, disk, gaps>>
       \/ mode = "edit" /\ mode' = "panel" /\ Saves /\ UNCHANGED agreed
       \/ mode # "edit" /\ gaps' = gaps \cup {"exit overtaken"} /\ UNCHANGED <<mode, ed, disk, agreed>>
       \/ gaps' = gaps \cup {"exit cancelled"} /\ UNCHANGED <<mode, ed, disk, agreed>>
    /\ UNCHANGED <<changes, background, running>>

\* Ctrl+Tab in the editor, and Ctrl+O in the editor and the viewer
LeaveWindow ==
    /\ \/ mode = "edit" /\ mode' \in {"panel", "terminal"}
       \/ mode = "view" /\ mode' = "terminal"
    /\ UNCHANGED <<editVars, background, running, agreed, gaps>>

\* Ctrl+Tab in the panels, Ctrl+O and Escape in the terminal
SwitchToBackgroundActivity ==
    /\ mode \in {"panel", "terminal"} /\ background # "none"
    /\ mode' = IF background = "editor" THEN "edit" ELSE "view"
    /\ UNCHANGED <<editVars, background, running, agreed, gaps>>

\* Yes to "Do you want to drop all unsaved changes?"  No and Cancel change
\* nothing, and "Switch to editor" is SwitchToBackgroundActivity.
CheckEditorBackgroundActivity == agreed' = (agreed \/ background = "editor")

\* the file is read, or the reading fails or is cancelled
EditFile ==
    /\ mode = "panel"
    /\ \/ /\ LoadFile /\ agreed' = FALSE
          /\ mode' = "edit" /\ background' = "editor"
       \/ CheckEditorBackgroundActivity /\ UNCHANGED <<editVars, mode, background>>
    /\ UNCHANGED <<running, gaps>>

ViewFile ==
    /\ mode = "panel" /\ CheckEditorBackgroundActivity
    /\ mode' = "view" /\ background' = "viewer"
    /\ UNCHANGED <<editVars, running, gaps>>

ViewExit ==
    /\ mode = "view" /\ mode' = "panel" /\ background' = "none"
    /\ UNCHANGED <<editVars, running, agreed, gaps>>

\* nothing keeps a second command from being started while one runs
StartExecute ==
    /\ mode = "panel" /\ running < MaxRunning
    /\ mode' = "terminal" /\ running' = running + 1
    /\ UNCHANGED <<editVars, background, agreed, gaps>>

\* the command ends: NCWin::ThreadStopped shows the panels, whatever is shown
CommandEnds ==
    /\ running > 0 /\ running' = running - 1 /\ mode' = "panel"
    /\ UNCHANGED <<editVars, background, agreed, gaps>>

\* the window is closed, or "Do you want to quit?" is answered
Quit ==
    /\ mode = "panel" /\ mode' = "quit"
    /\ gaps' = gaps \cup {"quit"}
    /\ UNCHANGED <<editVars, background, running, agreed>>

\* what the user does in the windows
WindowNext ==
    \/ EditorKey \/ EditSave
    \/ LeaveWindow \/ SwitchToBackgroundActivity
    \/ EditFile \/ ViewFile \/ ViewExit
    \/ StartExecute \/ Quit

SessionNext ==
    \/ ~asked /\ WindowNext /\ UNCHANGED asked
    \/ ~asked /\ EditExit
    \/ ExitAnswered
    \/ CommandEnds /\ UNCHANGED asked

SessionSpec == EditInit /\ SessionInit /\ [][SessionNext]_sessionVars
-----------------------------------------------------------------------------
(***************************************************************************)
(* Properties.                                                             *)
(***************************************************************************)
(***************************************************************************)
(* A text with unsaved changes is in the editor, or is the background      *)
(* activity to which the user can return, or is being asked about, or the  *)
(* user has agreed to lose it as it is.  Four things are not guarded       *)
(* against and are excluded: a save that fails, a cancelled exit, the end  *)
(* of a command while the exit is asked about and its Yes then saves       *)
(* nothing, the end of the program.                                        *)
(***************************************************************************)
UnsavedKept ==
    gaps \cap {"not saved", "exit cancelled", "exit overtaken", "quit"} = {} /\ ed.changed
        => mode = "edit" \/ background = "editor" \/ asked \/ agreed

(***************************************************************************)
(* A text that is not marked as changed is what the file holds, also when  *)
(* the changes were undone and redone across a save.  A save that fails or *)
(* keeps the history breaks this, and is excluded.                         *)
(***************************************************************************)
SavedExactly ==
    gaps \cap {"not saved", "history kept"} = {} => ChangeMarked

\* Nothing that was typed is lost without a question: what differs from the file
\* is marked, and what is marked can be reached (EditSave, EditExit, EditFile).
EditsKept == UnsavedKept /\ SavedExactly

=============================================================================
