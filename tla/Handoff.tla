------------------------------- MODULE Handoff -------------------------------
(***************************************************************************)
(* Two modal dialogs run a thread of their own and share with it an object *)
(* that holds the mutex guarding it: VSearchDialog of the viewer with its  *)
(* VSTData (ncview.cpp), and ShellLoadDirDialog of the command line with   *)
(* its ShellLoadDirTD (shell-tools.cpp).  The user may close the dialog    *)
(* before the thread has finished; whoever comes last deletes the object,  *)
(* after it has unlocked the mutex inside it.                              *)
(*                                                                         *)
(* Thread t stands for a thread and for the address of its object.  How    *)
(* the thread's signals and its end reach the dialog is left to ThreadMail.*)
(* Dialogs are nested: modal is the stack of those whose DoModal runs, and *)
(* a message box, that has no thread, may be above a dialog.               *)
(***************************************************************************)
EXTENDS Naturals, Sequences

CONSTANTS Thread, Window, None

ASSUME NoneAssumption == None \notin Thread \cup Window \cup {"signal", "STOP"}

VARIABLES
    life, box, owner,   \* the mail boxes of the threads
    modal,              \* the windows whose DoModal runs, the innermost last
    dlg,                \* window -> its data pointer and its ModalStruct
    alloc,              \* the objects that are allocated
    winClosed,          \* the objects whose winClosed is set
    threadStopped,      \* the objects whose threadStopped is set
    pc,                 \* thread -> where it is
    ui,                 \* what the user-interface thread is in the middle of
    heapOK              \* no object has been deleted twice

mail == <<life, box, owner>>
vars == <<life, box, owner, modal, dlg, alloc, winClosed, threadStopped, pc,
          ui, heapOK>>

\* WinThreadSignal( 0 ): the number says nothing more.
Data == {"signal"}

Mail == INSTANCE ThreadMail

NewDialog(t) == [data |-> t, end |-> FALSE]

At(op, x, p) == [op |-> op, win |-> x, p |-> p]

Idle == At("idle", None, None)

Init ==
    /\ Mail!Init
    /\ modal = <<>>
    /\ dlg = [x \in Window |-> NewDialog(None)]
    /\ alloc = {} /\ winClosed = {} /\ threadStopped = {}
    /\ pc = [t \in Thread |-> "none"]
    /\ ui = Idle
    /\ heapOK = TRUE

Shown == {modal[i] : i \in 1..Len(modal)}

Top == modal[Len(modal)]

\* delete data
Delete(t) ==
    /\ alloc' = alloc \ {t}
    /\ heapOK' = (heapOK /\ t \in alloc)

-----------------------------------------------------------------------------
(* The thread.                                                             *)

\* Mutant: the thread does not look at winClosed.
LeaveDataAlways(t) ==
    /\ pc[t] = "search"
    /\ threadStopped' = threadStopped \cup {t}
    /\ pc' = [pc EXCEPT ![t] = "posted"]
    /\ Mail!Post(t, "signal")
    /\ UNCHANGED <<modal, dlg, alloc, winClosed, ui, heapOK>>

\* The thread has searched, and locks the mutex.  If the dialog has been
\* closed it unlocks it and will delete the object; else it leaves its results
\* there and signals the dialog with the mutex locked.
LeaveData(t) ==
    /\ pc[t] = "search"
    /\ IF t \in winClosed
       THEN /\ pc' = [pc EXCEPT ![t] = "delete"]
            /\ UNCHANGED <<mail, threadStopped>>
       ELSE /\ threadStopped' = threadStopped \cup {t}
            /\ pc' = [pc EXCEPT ![t] = "posted"]
            /\ Mail!Post(t, "signal")
    /\ UNCHANGED <<modal, dlg, alloc, winClosed, ui, heapOK>>

\* The end of the locked block.
UnlockData(t) ==
    /\ pc[t] = "posted"
    /\ pc' = [pc EXCEPT ![t] = "ended"]
    /\ UNCHANGED <<mail, modal, dlg, alloc, winClosed, threadStopped, ui, heapOK>>

DeleteData(t) ==
    /\ pc[t] = "delete"
    /\ Delete(t)
    /\ pc' = [pc EXCEPT ![t] = "ended"]
    /\ UNCHANGED <<mail, modal, dlg, winClosed, threadStopped, ui>>

ThreadEnd(t) ==
    /\ pc[t] = "ended"
    /\ Mail!Finish(t)
    /\ pc' = [pc EXCEPT ![t] = "none"]
    /\ UNCHANGED <<modal, dlg, alloc, winClosed, threadStopped, ui, heapOK>>

Searcher(t) == LeaveData(t) \/ UnlockData(t) \/ DeleteData(t) \/ ThreadEnd(t)

-----------------------------------------------------------------------------
(* The user-interface thread.                                              *)

\* The dialog is constructed, with its object and its thread, and shown.
OpenDialog(x, t) ==
    /\ ui = Idle /\ x \notin Shown
    /\ t \notin alloc
    /\ Mail!Create(t, x)
    /\ modal' = Append(modal, x)
    /\ dlg' = [dlg EXCEPT ![x] = NewDialog(t)]
    /\ alloc' = alloc \cup {t}
    /\ winClosed' = winClosed \ {t} /\ threadStopped' = threadStopped \ {t}
    /\ pc' = [pc EXCEPT ![t] = "search"]
    /\ UNCHANGED <<ui, heapOK>>

\* NCMessageBox, called by a handler in the loop of the innermost dialog.
OpenBox(x) ==
    /\ ui = Idle /\ x \notin Shown
    /\ modal' = Append(modal, x)
    /\ dlg' = [dlg EXCEPT ![x] = NewDialog(None)]
    /\ UNCHANGED <<mail, alloc, winClosed, threadStopped, pc, ui, heapOK>>

\* EndModal does nothing to a window whose DoModal does not run, or that
\* another window's DoModal has blocked.
EndModal(x) ==
    IF x \in Shown /\ x = Top
    THEN [dlg EXCEPT ![x] = [data |-> @.data, end |-> TRUE]] ELSE dlg

\* Mutant: ThreadSignal ends the dialog.
ThreadSignalEnds(t) ==
    /\ ui = Idle
    /\ Mail!Take(t)
    /\ dlg' = EndModal(owner[t])
    /\ UNCHANGED <<modal, alloc, winClosed, threadStopped, pc, ui, heapOK>>

\* Win::ThreadSignal does nothing.
ThreadSignal(t) ==
    /\ ui = Idle
    /\ Mail!Take(t)
    /\ UNCHANGED <<modal, dlg, alloc, winClosed, threadStopped, pc, ui, heapOK>>

\* ThreadStopped of the dialog, if it still exists, calls EndModal.
ThreadStopped(t) ==
    /\ ui = Idle
    /\ Mail!TakeStop(t)
    /\ dlg' = EndModal(owner[t])
    /\ ui' = IF owner[t] # None THEN At("told", None, t) ELSE ui
    /\ UNCHANGED <<modal, alloc, winClosed, threadStopped, pc, heapOK>>

\* The handler returns and the thread's node is deleted.
HandlerReturn ==
    /\ ui.op = "told"
    /\ Mail!Forget(ui.p)
    /\ ui' = Idle
    /\ UNCHANGED <<modal, dlg, alloc, winClosed, threadStopped, pc, heapOK>>

\* DoModal of the innermost dialog returns.  When its thread ended it, the
\* caller reads the results, without locking the mutex.
ReadResult ==
    /\ ui = Idle /\ modal # <<>> /\ dlg[Top].end
    /\ ui' = At("result", Top, dlg[Top].data)
    /\ UNCHANGED <<mail, modal, dlg, alloc, winClosed, threadStopped, pc, heapOK>>

\* The destructor of a dialog, which looks at its data pointer first.
Leave(x, t) == At(IF t = None THEN "drop" ELSE "close", x, t)

CloseRead ==
    /\ ui.op = "result"
    /\ ui' = Leave(ui.win, ui.p)
    /\ UNCHANGED <<mail, modal, dlg, alloc, winClosed, threadStopped, pc, heapOK>>

\* DoModal returns CMD_CANCEL, at any time.
Cancel ==
    /\ ui = Idle /\ modal # <<>>
    /\ ui' = Leave(Top, dlg[Top].data)
    /\ UNCHANGED <<mail, modal, dlg, alloc, winClosed, threadStopped, pc, heapOK>>

\* Mutant: the destructor does not lock the mutex.
CloseDataUnlocked ==
    /\ ui.op = "close"
    /\ dlg' = [dlg EXCEPT ![ui.win] = [data |-> None, end |-> @.end]]
    /\ IF ui.p \in threadStopped
       THEN ui' = At("delete", ui.win, ui.p) /\ UNCHANGED winClosed
       ELSE ui' = At("drop", ui.win, None) /\ winClosed' = winClosed \cup {ui.p}
    /\ UNCHANGED <<mail, modal, alloc, threadStopped, pc, heapOK>>

\* The dialog's destructor has locked the mutex, which its thread holds while
\* it is between LeaveData and UnlockData.
CloseData ==
    /\ ui.op = "close" /\ pc[ui.p] # "posted"
    /\ dlg' = [dlg EXCEPT ![ui.win] = [data |-> None, end |-> @.end]]
    /\ IF ui.p \in threadStopped
       THEN ui' = At("delete", ui.win, ui.p) /\ UNCHANGED winClosed
       ELSE ui' = At("drop", ui.win, None) /\ winClosed' = winClosed \cup {ui.p}
    /\ UNCHANGED <<mail, modal, alloc, threadStopped, pc, heapOK>>

CloseDelete ==
    /\ ui.op = "delete"
    /\ Delete(ui.p)
    /\ ui' = At("drop", ui.win, None)
    /\ UNCHANGED <<mail, modal, dlg, winClosed, threadStopped, pc>>

\* Win::~Win: the window's threads lose it.
DropWindow ==
    /\ ui.op = "drop"
    /\ Mail!Destroy(ui.win)
    /\ modal' = SubSeq(modal, 1, Len(modal) - 1)
    /\ ui' = Idle
    /\ UNCHANGED <<dlg, alloc, winClosed, threadStopped, pc, heapOK>>

Events(t) == ThreadSignal(t) \/ ThreadStopped(t)

Program == HandlerReturn \/ CloseRead \/ CloseData \/ CloseDelete \/ DropWindow

Next ==
    \/ \E t \in Thread : Searcher(t) \/ Events(t)
    \/ \E x \in Window : OpenBox(x) \/ \E t \in Thread : OpenDialog(x, t)
    \/ ReadResult \/ Cancel
    \/ Program

Spec == Init /\ [][Next]_vars

\* A search comes to its end (it reads a file of finite size, and is not
\* stopped earlier: FSCViewerInfo does not override FSCInfo::IsStopped), the
\* event loops serve the mail boxes, and a loop that has been ended returns.
Fairness ==
    /\ \A t \in Thread : WF_vars(Searcher(t)) /\ SF_vars(Events(t))
    /\ WF_vars(ReadResult) /\ WF_vars(Program)

FairSpec == Spec /\ Fairness

-----------------------------------------------------------------------------
(* Properties.                                                             *)

TypeOK ==
    /\ Mail!TypeOK
    /\ modal \in Seq(Window)
    /\ dlg \in [Window -> [data : Thread \cup {None}, end : BOOLEAN]]
    /\ alloc \subseteq Thread
    /\ winClosed \subseteq Thread /\ threadStopped \subseteq Thread
    /\ pc \in [Thread -> {"none", "search", "posted", "delete", "ended"}]
    /\ ui \in [op : {"idle", "told", "result", "close", "delete", "drop"},
               win : Window \cup {None}, p : Thread \cup {None}]
    /\ heapOK \in BOOLEAN

\* Whoever may use the object finds it allocated: the thread until it has left
\* it or while it is going to delete it, and the dialog (ncview.cpp 2667-2678,
\* 2710-2726; shell-tools.cpp 68-78, 98-114).
DataAlive ==
    /\ \A t \in Thread : pc[t] \in {"search", "posted", "delete"} => t \in alloc
    /\ \A x \in Shown : dlg[x].data # None => dlg[x].data \in alloc
    /\ ui.op \in {"result", "close", "delete"} /\ ui.p # None => ui.p \in alloc

\* The object is deleted once, and not forgotten by both: it is allocated only
\* while its thread will look at it, its dialog has it, or is deleting it.
DeletedOnce ==
    /\ heapOK
    /\ \A t \in alloc :
          \/ pc[t] \in {"search", "delete"}
          \/ \E x \in Shown : dlg[x].data = t
          \/ ui.op = "delete" /\ ui.p = t

\* The object is there for those who use it, and goes away with the last of them.
DataOwned == DataAlive /\ DeletedOnce

\* The results are read by the caller of DoModal, without the mutex, only when
\* the thread has left them and no longer uses the object.
ResultReady ==
    ui.op = "result" /\ ui.p # None =>
        ui.p \in threadStopped /\ pc[ui.p] = "none"

\* An object whose dialog has been closed is deleted at last.
Freed ==
    \A t \in Thread :
        t \in alloc /\ (\A x \in Shown : dlg[x].data # t)
            ~> t \notin alloc \/ \E x \in Shown : dlg[x].data = t
=============================================================================
