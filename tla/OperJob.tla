------------------------------ MODULE OperJob ------------------------------
(***************************************************************************)
(* A modal dialog that runs one operation thread and waits for it, as      *)
(* SearchFile, DirCalc, LoadFile, SaveFile and LoadToTempFile do:          *)
(*                                                                         *)
(*     Data data; Dialog dlg;                                              *)
(*     dlg.RunNewThread( ... ); dlg.DoModal(); dlg.StopThread();           *)
(*     return what dlg or data hold;                                       *)
(*                                                                         *)
(* It is OperThread seen from one dialog and without callbacks: the thread *)
(* has one place for a message, its end overwrites a signal that has not   *)
(* been taken (ThreadMail), and when the caller returns the dialog and the *)
(* data are gone, while a stopped thread may still run.                    *)
(***************************************************************************)
EXTENDS Sequences

VARIABLES
    jbRun,      \* the thread: "running" or "ended"
    jbStopped,  \* OperThreadNode::stopped; StopThread also clears its data
    jbBox,      \* its message: "none", "signal" or "STOP"
    jbModal,    \* what DoModal returns: "running", "ok" or "cancel"
    jbUi,       \* the handler that the dialog executes
    jbTold,     \* OperThreadStopped has been called
    jbOpen,     \* the caller has not returned: the dialog and the data exist
    jbLate      \* by what the data have been used after that

jbVars == <<jbRun, jbStopped, jbBox, jbModal, jbUi, jbTold, jbOpen, jbLate>>

JbInit ==
    /\ jbRun = "running" /\ jbStopped = FALSE /\ jbBox = "none"
    /\ jbModal = "running" /\ jbUi = "loop" /\ jbTold = FALSE
    /\ jbOpen = TRUE /\ jbLate = {}

-----------------------------------------------------------------------------
(* The thread.                                                             *)

\* Node().SendSignal
SendSignal ==
    /\ jbBox' = IF jbStopped THEN jbBox ELSE "signal"
    /\ UNCHANGED <<jbRun, jbStopped, jbModal, jbUi, jbTold, jbOpen, jbLate>>

\* The thread uses the data.
Uses(by) ==
    /\ jbLate' = IF jbOpen THEN jbLate ELSE jbLate \cup {by}
    /\ UNCHANGED <<jbRun, jbStopped, jbBox, jbModal, jbUi, jbTold, jbOpen>>

\* The thread's function returns.
JobEnds ==
    /\ jbRun' = "ended" /\ jbBox' = "STOP"
    /\ UNCHANGED <<jbStopped, jbModal, jbUi, jbTold, jbOpen, jbLate>>

-----------------------------------------------------------------------------
(* The user-interface thread.                                              *)

InLoop == jbModal = "running" /\ jbUi = "loop"

\* A signal: the dialog goes on with its handler.
TakeSignal(handler) ==
    /\ InLoop /\ jbBox = "signal"
    /\ jbBox' = "none" /\ jbUi' = handler
    /\ UNCHANGED <<jbRun, jbStopped, jbModal, jbTold, jbOpen, jbLate>>

HandlerReturns ==
    /\ jbUi' = "loop"
    /\ UNCHANGED <<jbRun, jbStopped, jbBox, jbModal, jbTold, jbOpen, jbLate>>

\* The end is told, and OperThreadStopped may end the dialog.
TakeEnd(modal) ==
    /\ InLoop /\ jbBox = "STOP"
    /\ jbBox' = "none" /\ jbTold' = TRUE /\ jbModal' = modal
    /\ UNCHANGED <<jbRun, jbStopped, jbUi, jbOpen, jbLate>>

\* The user ends the dialog.
EndModal(modal) ==
    /\ InLoop
    /\ jbModal' = modal
    /\ UNCHANGED <<jbRun, jbStopped, jbBox, jbUi, jbTold, jbOpen, jbLate>>

\* The user's cancel sets the flag and leaves the dialog open (SetStopFlag).
SetStopFlag ==
    /\ InLoop /\ jbRun = "running"
    /\ jbStopped' = TRUE
    /\ UNCHANGED <<jbRun, jbBox, jbModal, jbUi, jbTold, jbOpen, jbLate>>

\* DoModal has returned, and StopThread stops the run if there still is one.
StopThread ==
    /\ jbModal \in {"ok", "cancel"} /\ jbUi = "loop"
    /\ jbStopped' = (jbStopped \/ jbRun = "running")
    /\ jbUi' = "stopped"
    /\ UNCHANGED <<jbRun, jbBox, jbModal, jbTold, jbOpen, jbLate>>

\* The caller returns.
Return ==
    /\ jbUi = "stopped" /\ jbOpen
    /\ jbOpen' = FALSE
    /\ UNCHANGED <<jbRun, jbStopped, jbBox, jbModal, jbUi, jbTold, jbLate>>

JobOver == ~jbOpen /\ jbRun = "ended"
-----------------------------------------------------------------------------
(***************************************************************************)
(* A thread whose dialog has been closed does not use the data any more:   *)
(* SearchDir, CalcDir, Run of the loaders and the handlers of their        *)
(* failures look at Data() or stopped under the mutex that StopThread      *)
(* takes.  Three places do not, and are excluded by name: Calc (dircalc    *)
(* .cpp:191) and the ends of the loader and the saver (eloadsave.cpp:112). *)
(***************************************************************************)
UsedWhileOpen == jbLate \subseteq {"Calc", "tail"}
=============================================================================
