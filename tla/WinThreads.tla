----------------------------- MODULE WinThreads -----------------------------
(***************************************************************************)
(* The window threads of the swl library: worker threads that belong to a  *)
(* window, the command queue through which they reach the user-interface   *)
(* thread, and the event loops that empty it.                              *)
(*                                                                         *)
(* Every critical section of wtHash.mutex is one action: no other lock is  *)
(* taken inside one.  A WTHNode is an address: the node of a finished      *)
(* thread is deleted and its address may be given to a later thread, so    *)
(* that the pointer comparison  p == last  of wth_DoEvents is modelled     *)
(* with the reuse a real heap has.  A window is an address too.            *)
(*                                                                         *)
(* The user-interface thread is a stack of frames: the loop of AppRun at   *)
(* the bottom, and above it what the loop is executing: a run of           *)
(* wth_DoEvents, the window's handler it has called, a modal loop that the *)
(* handler has started, and so on.                                         *)
(***************************************************************************)
EXTENDS Naturals, Sequences, FiniteSets

CONSTANTS
    Node,       \* addresses a WTHNode may have
    Window,     \* addresses a Win may have
    MainWin,    \* the window that exists as long as AppRun runs
    Data,       \* what a thread may pass to WinThreadSignal
    None,       \* the null pointer
    MaxDepth,   \* bound on the user-interface thread's stack
    MayThrow    \* whether a window's handler may throw an exception

ASSUME NoneAssumption == None \notin Node \cup Window \cup Data
ASSUME MainAssumption == MainWin \in Window
ASSUME BoundAssumption == MaxDepth \in Nat \ {0} /\ MayThrow \in BOOLEAN

VARIABLES
    alloc,      \* the nodes that are allocated
    thList,     \* the nodes of the threads that have not ended
    winList,    \* the nodes linked in their window's list
    w,          \* node -> its window, or None
    cmd,        \* node -> its command slot
    data,       \* node -> the argument of its last WinThreadSignal
    cmdQueue,   \* the list cmdFirst ... cmdLast
    signaled,   \* the state of wthInternalEvent
    open,       \* the windows that exist
    stack,      \* the user-interface thread, the innermost frame last
    heapOK      \* no node has been deleted twice

nodeVars == <<alloc, thList, winList, w, cmd, data>>
queueVars == <<cmdQueue, signaled>>
vars == <<alloc, thList, winList, w, cmd, data, cmdQueue, signaled, open,
          stack, heapOK>>

-----------------------------------------------------------------------------
(* Frames of the user-interface thread.                                    *)

Kinds == {"enter", "loop", "events", "signal", "stopped"}

Frame(at, win, p) == [at |-> at, win |-> win, p |-> p]

Frames == [at : Kinds, win : Window \cup {None}, p : Node \cup {None}]

Top == stack[Len(stack)]

Pop(s, k) == SubSeq(s, 1, Len(s) - k)

\* The user-interface thread is executing program code (a key handler called
\* by a loop, or a window's thread handler), not code of the library.
InUserCode == Top.at \in {"loop", "signal", "stopped"}

\* The end of one round of wth_DoEvents for node p, whose frame is the top of
\* s: the function returns when p is the node it noted as the last one.
EndRound(s, p) == IF p = s[Len(s)].p THEN Pop(s, 1) ELSE s

-----------------------------------------------------------------------------
Init ==
    /\ alloc = {} /\ thList = {} /\ winList = {}
    /\ w = [n \in Node |-> None]
    /\ cmd = [n \in Node |-> "NONE"]
    /\ data = [n \in Node |-> None]
    /\ cmdQueue = <<>> /\ signaled = FALSE
    /\ open = {MainWin}
    /\ stack = <<Frame("loop", MainWin, None)>>
    /\ heapOK = TRUE

(***************************************************************************)
(* Worker threads.                                                         *)
(***************************************************************************)

\* Mutant: the event is only set when the list was empty.
EnqueueQuietly(n) ==
    /\ cmdQueue' = IF cmd[n] = "NONE" THEN Append(cmdQueue, n) ELSE cmdQueue
    /\ signaled' = (signaled \/ cmdQueue = <<>>)

\* The node is linked at the end of the command list unless it is in it.
Enqueue(n) ==
    /\ cmdQueue' = IF cmd[n] = "NONE" THEN Append(cmdQueue, n) ELSE cmdQueue
    /\ signaled' = TRUE

\* Thread n calls WinThreadSignal(d).  A command that has not been processed
\* is overwritten.
Signal(n, d) ==
    /\ n \in thList
    /\ Enqueue(n)
    /\ cmd' = [cmd EXCEPT ![n] = "EVENT"]
    /\ data' = [data EXCEPT ![n] = d]
    /\ UNCHANGED <<alloc, thList, winList, w, open, stack, heapOK>>

\* What WinThreadSignal returns to thread n.
SignalResult(n) == n \in thList /\ w[n] # None

\* Mutant: the node is not unlinked from the list of the threads.
EndThreadLinked(n) ==
    /\ n \in thList
    /\ Enqueue(n)
    /\ cmd' = [cmd EXCEPT ![n] = "END"]
    /\ UNCHANGED <<alloc, thList, winList, w, data, open, stack, heapOK>>

\* The function of thread n has returned: the rest of _swl_win_thread_func.
EndThread(n) ==
    /\ n \in thList
    /\ thList' = thList \ {n}
    /\ Enqueue(n)
    /\ cmd' = [cmd EXCEPT ![n] = "END"]
    /\ UNCHANGED <<alloc, winList, w, data, open, stack, heapOK>>

(***************************************************************************)
(* The user-interface thread: program code.                                *)
(***************************************************************************)

\* wth_CreateThread for window x, which may not have called DoModal yet.
CreateThread(x, n) ==
    /\ Top.at # "events"
    /\ x \in open /\ n \notin alloc
    /\ alloc' = alloc \cup {n}
    /\ thList' = thList \cup {n}
    /\ winList' = winList \cup {n}
    /\ w' = [w EXCEPT ![n] = x]
    /\ cmd' = [cmd EXCEPT ![n] = "NONE"]
    /\ data' = [data EXCEPT ![n] = None]
    /\ UNCHANGED <<queueVars, open, stack, heapOK>>

\* Mutant: DoModal waits for an event before it calls wth_DoEvents.
OpenDialogWaiting(x) ==
    /\ InUserCode
    /\ x \notin open /\ Len(stack) < MaxDepth
    /\ open' = open \cup {x}
    /\ stack' = Append(stack, Frame("loop", x, None))
    /\ UNCHANGED <<nodeVars, queueVars, heapOK>>

\* A window is constructed and its DoModal is called.
OpenDialog(x) ==
    /\ InUserCode
    /\ x \notin open /\ Len(stack) < MaxDepth
    /\ open' = open \cup {x}
    /\ stack' = Append(stack, Frame("enter", x, None))
    /\ UNCHANGED <<nodeVars, queueVars, heapOK>>

\* Mutant: the nodes are unlinked and keep their window.
DropWindowKept(x) ==
    /\ winList' = winList \ {n \in winList : w[n] = x}
    /\ open' = open \ {x}
    /\ UNCHANGED w

\* wth_DropWindow(x): the nodes of x in the window lists lose their window.
DropWindow(x) ==
    LET mine == {n \in winList : w[n] = x}
    IN  /\ winList' = winList \ mine
        /\ w' = [n \in Node |-> IF n \in mine THEN None ELSE w[n]]
        /\ open' = open \ {x}

\* DoModal of a dialog returns and the dialog is destroyed.
CloseDialog ==
    /\ Top.at = "loop" /\ Top.win # MainWin
    /\ DropWindow(Top.win)
    /\ stack' = Pop(stack, 1)
    /\ UNCHANGED <<alloc, thList, cmd, data, queueVars, heapOK>>

(***************************************************************************)
(* The user-interface thread: wth_DoEvents.                                *)
(***************************************************************************)

\* Called by a loop: DoModal calls it before it first waits, and both loops
\* call it whenever wthInternalEvent or the display connection wakes them up.
BeginEvents ==
    /\ Top.at \in {"enter", "loop"}
    /\ signaled' = FALSE
    /\ LET inLoop == Append(Pop(stack, 1), Frame("loop", Top.win, None))
       IN  stack' = IF cmdQueue = <<>>
                    THEN inLoop
                    ELSE Append(inLoop,
                                Frame("events", None, cmdQueue[Len(cmdQueue)]))
    /\ UNCHANGED <<nodeVars, cmdQueue, open, heapOK>>

\* cmdFirst is null.
EmptyRound ==
    /\ Top.at = "events" /\ cmdQueue = <<>>
    /\ stack' = Pop(stack, 1)
    /\ UNCHANGED <<nodeVars, queueVars, open, heapOK>>

\* cmdFirst is a thread's signal: ThreadSignal of its window is called, when
\* it still has one, after the lock has been released.
EventRound ==
    /\ Top.at = "events" /\ cmdQueue # <<>>
    /\ LET p == Head(cmdQueue)
       IN  /\ cmd[p] = "EVENT"
           /\ cmd' = [cmd EXCEPT ![p] = "NONE"]
           /\ stack' = IF w[p] = None
                       THEN EndRound(stack, p)
                       ELSE Append(stack, Frame("signal", w[p], p))
    /\ cmdQueue' = Tail(cmdQueue)
    /\ UNCHANGED <<alloc, thList, winList, w, data, signaled, open, heapOK>>

\* delete p
Free(p) ==
    /\ alloc' = alloc \ {p}
    /\ heapOK' = (heapOK /\ p \in alloc)

\* cmdFirst is a thread that has ended: it is joined, ThreadStopped of its
\* window is called, and the node is deleted when the handler returns.
StopRound ==
    /\ Top.at = "events" /\ cmdQueue # <<>>
    /\ LET p == Head(cmdQueue)
       IN  /\ cmd[p] = "END"
           /\ winList' = winList \ {p}
           /\ IF w[p] = None
              THEN /\ Free(p)
                   /\ stack' = EndRound(stack, p)
              ELSE /\ stack' = Append(stack, Frame("stopped", w[p], p))
                   /\ UNCHANGED <<alloc, heapOK>>
    /\ cmdQueue' = Tail(cmdQueue)
    /\ UNCHANGED <<thList, w, cmd, data, signaled, open>>

\* ThreadSignal returns.
SignalReturn ==
    /\ Top.at = "signal"
    /\ stack' = EndRound(Pop(stack, 1), Top.p)
    /\ UNCHANGED <<nodeVars, queueVars, open, heapOK>>

\* ThreadStopped returns.
StoppedReturn ==
    /\ Top.at = "stopped"
    /\ Free(Top.p)
    /\ stack' = EndRound(Pop(stack, 1), Top.p)
    /\ UNCHANGED <<thList, winList, w, cmd, data, queueVars, open>>

\* ThreadStopped throws: the handler of wth_DoEvents deletes the node, and the
\* statement after the try block deletes it again.
StoppedThrow ==
    /\ MayThrow /\ Top.at = "stopped"
    /\ alloc' = alloc \ {Top.p}
    /\ heapOK' = FALSE
    /\ stack' = EndRound(Pop(stack, 1), Top.p)
    /\ UNCHANGED <<thList, winList, w, cmd, data, queueVars, open>>

\* ThreadSignal throws: wth_DoEvents does not catch it, DoModal passes it on,
\* and the dialog is destroyed; the code that had opened the dialog goes on.
SignalThrow ==
    /\ MayThrow /\ Top.at = "signal" /\ Len(stack) > 3
    /\ DropWindow(stack[Len(stack) - 2].win)
    /\ stack' = Pop(stack, 3)
    /\ UNCHANGED <<alloc, thList, cmd, data, queueVars, heapOK>>

-----------------------------------------------------------------------------
Worker(n) == EndThread(n) \/ \E d \in Data : Signal(n, d)

UserCode ==
    \/ \E x \in Window, n \in Node : CreateThread(x, n)
    \/ \E x \in Window : OpenDialog(x)
    \/ CloseDialog

DoEvents == EmptyRound \/ EventRound \/ StopRound

Handlers == SignalReturn \/ StoppedReturn \/ StoppedThrow \/ SignalThrow

Next ==
    \/ \E n \in Node : Worker(n)
    \/ UserCode
    \/ BeginEvents
    \/ DoEvents
    \/ Handlers

Spec == Init /\ [][Next]_vars

\* The loops wait in select for wthInternalEvent, wth_DoEvents does not wait
\* for anything but the end of a thread that has already announced it, and a
\* handler, once the dialogs it shows are closed, comes to its end.  When a
\* dialog is closed and when a thread ends is for others to decide.
Fairness ==
    /\ WF_vars(BeginEvents /\ (signaled \/ Top.at = "enter"))
    /\ WF_vars(DoEvents)
    /\ WF_vars(SignalReturn)
    /\ WF_vars(StoppedReturn)

FairSpec == Spec /\ Fairness

-----------------------------------------------------------------------------
(* Properties.                                                             *)

Queued == {cmdQueue[i] : i \in 1..Len(cmdQueue)}

FrameIds == 1..Len(stack)

TypeOK ==
    /\ alloc \subseteq Node /\ thList \subseteq Node /\ winList \subseteq Node
    /\ w \in [Node -> Window \cup {None}]
    /\ cmd \in [Node -> {"NONE", "EVENT", "END"}]
    /\ data \in [Node -> Data \cup {None}]
    /\ cmdQueue \in Seq(Node)
    /\ signaled \in BOOLEAN
    /\ open \subseteq Window
    /\ stack \in Seq(Frames) /\ stack # <<>>
    /\ heapOK \in BOOLEAN

\* No wake-up is lost: a loop (swl_wincoreUX.cpp, AppRun and DoModal) that
\* waits while wthInternalEvent is not signaled has nothing to do, even when
\* it is a modal loop that a handler of an interrupted wth_DoEvents started,
\* and the interrupted one had noted an older last node.
IdleLoopDrained ==
    Top.at = "loop" /\ ~signaled => cmdQueue = <<>>

\* While wth_DoEvents is interrupted by handlers, whatever is queued is either
\* announced by wthInternalEvent or will be reached by a run of wth_DoEvents
\* that no waiting loop has interrupted.
QueueCovered ==
    ~signaled /\ cmdQueue # <<>> =>
        \E i \in FrameIds :
            /\ stack[i].at = "events"
            /\ stack[i].p = cmdQueue[Len(cmdQueue)]
            /\ \A j \in FrameIds : j > i => stack[j].at # "loop"

\* A node is deleted exactly once, and neither the lists nor a ThreadStopped
\* that is being called can reach a node that has been deleted.
NodesSafe ==
    /\ heapOK
    /\ Queued \cup thList \cup winList \subseteq alloc
    /\ \A i \in FrameIds : stack[i].at = "stopped" => stack[i].p \in alloc

\* A command that is queued is queued once, so that the end of one round never
\* leaves a second entry of a node that StopRound is about to delete.
QueuedOnce ==
    \A i, j \in 1..Len(cmdQueue) : cmdQueue[i] = cmdQueue[j] => i = j

\* A node that can still be delivered never points to a window that has been
\* destroyed (or, since addresses are reused, to another window there), and
\* no handler runs in a destroyed window.
OwnersOpen ==
    /\ \A n \in thList \cup Queued : w[n] \in open \cup {None}
    /\ \A i \in FrameIds : stack[i].at # "events" => stack[i].win \in open

-----------------------------------------------------------------------------
(* The window threads implement the mail boxes.                            *)

\* The node whose ThreadStopped is being called.
Stopping(n) ==
    \E i \in FrameIds : stack[i].at = "stopped" /\ stack[i].p = n

lifeMap ==
    [n \in Node |-> IF n \notin alloc THEN "none"
                   ELSE IF n \in thList THEN "running"
                   ELSE IF Stopping(n) THEN "joined"
                   ELSE "ended"]

boxMap ==
    [n \in Node |-> IF n \notin Queued THEN None
                   ELSE IF cmd[n] = "EVENT" THEN data[n]
                   ELSE "STOP"]

ownerMap == [n \in Node |-> IF n \in alloc THEN w[n] ELSE None]

Mail == INSTANCE ThreadMail
    WITH Thread <- Node, life <- lifeMap, box <- boxMap, owner <- ownerMap

\* Every step of the queue is a step of the mail boxes: a window hears the last
\* thing each of its threads said, its threads' end once and last, and, as the
\* loops are scheduled fairly, hears it however deep the dialogs are nested.
MailSpec == Mail!Spec
=============================================================================
