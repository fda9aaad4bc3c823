----------------------------- MODULE OperThread -----------------------------
(***************************************************************************)
(* The operation threads of WCM Commander: windows (OperThreadWin) that    *)
(* run one worker at a time, and workers that touch the window's data      *)
(* under a mutex and ask the user questions through CallBack.              *)
(*                                                                         *)
(* The module extends WinThreads: every worker is a window thread, and     *)
(* every step below that concerns the command queue or the stack of the    *)
(* user-interface thread is a step of WinThreads.  A node n stands for the *)
(* WTHNode of a run and for its OperThreadNode, which is deleted first.    *)
(*                                                                         *)
(* MainWin is the window of a panel: it lives as long as the program and   *)
(* starts one run after the other.  The other windows are dialogs: they    *)
(* start one run and are destroyed.                                        *)
(*                                                                         *)
(* operMutex is held across a step only by StopThread, while it waits for  *)
(* node->mutex; node->mutex is held across a step only by its worker.      *)
(***************************************************************************)
EXTENDS WinThreads

CONSTANTS
    Askers,         \* the windows whose operations use CallBack
    Call, Info,     \* the data of the signals 1 and 10, 20 ...
    Sticky,         \* a signal to a Cond nobody waits on is kept (Windows)
    Spurious,       \* Cond.Wait may return without a signal (POSIX)
    Careful,        \* operations look at stopped before they use CallBack
    UseStopFlag,    \* dialogs use SetStopFlag when they are cancelled
    CreateMayFail   \* the system may refuse to create a thread

ASSUME OperAssumption ==
    /\ Askers \subseteq Window
    /\ Call # Info /\ Data = {Call, Info}
    /\ {Sticky, Spurious, Careful, UseStopFlag, CreateMayFail} \subseteq BOOLEAN
    /\ ~MayThrow

VARIABLES
    tNode,          \* window -> the OperThreadNode of its run, or None
    threadId,       \* window -> the run whose end it waits for, or None
    cbExecuted,     \* window -> whether ThreadSignal is executing a callback
    inOper,         \* PanelWin::_inOperState of the panel
    ui,             \* what the user-interface thread is in the middle of
    calls,          \* the handlers of stack that execute program code
    operStopList,   \* the first stopped run
    node,           \* the fields of the OperThreadNodes
    opAlive,        \* the OperThreadNodes that are allocated
    pc,             \* node -> where its worker is
    fault           \* the failures that have occurred

winVars == <<tNode, threadId, cbExecuted, inOper>>
runVars == <<operStopList, node, opAlive, pc>>
operVars == <<tNode, threadId, cbExecuted, inOper, ui, calls, operStopList,
              node, opAlive, pc, fault>>
allVars == <<vars, operVars>>

\* A worker's cbRet, whether its cbFunc has been set, and whether its cbCond
\* holds a signal.
NewNode(x) ==
    [win |-> x, prev |-> None, next |-> None, stopped |-> FALSE,
     cbRet |-> "negative", cbFunc |-> FALSE, cond |-> FALSE]

NoNode == [NewNode(None) EXCEPT !.stopped = TRUE]

Idle == [op |-> "none", win |-> None, then |-> "none", p |-> None]

OperInit ==
    /\ Init
    /\ tNode = [x \in Window |-> None]
    /\ threadId = [x \in Window |-> None]
    /\ cbExecuted = [x \in Window |-> FALSE]
    /\ inOper = FALSE
    /\ ui = Idle
    /\ calls = <<>>
    /\ operStopList = None
    /\ node = [n \in Node |-> NoNode]
    /\ opAlive = {}
    /\ pc = [n \in Node |-> "none"]
    /\ fault = {}

-----------------------------------------------------------------------------
(* Locks and faults.                                                       *)

NodeLocked(n) == n \in opAlive /\ pc[n] \in {"data", "posted"}

OperLocked == ui.op = "stopping"

\* A failed assertion ends a debug build only; the others end the program.
Running == fault \subseteq {"assert"}

\* cond_signal
Signalled(nd, n) ==
    IF Sticky \/ pc[n] = "waiting" THEN [nd EXCEPT ![n].cond = TRUE] ELSE nd

-----------------------------------------------------------------------------
(* Worker n, between __123___OperThread and its return.                    *)

\* The operation locks node->mutex, sees that it is not stopped, and works
\* with the window's data until it unlocks the mutex.
LockData(n) ==
    /\ pc[n] = "run" /\ ~node[n].stopped
    /\ pc' = [pc EXCEPT ![n] = "data"]
    /\ UNCHANGED <<vars, winVars, ui, calls, operStopList, node, opAlive, fault>>

UnlockData(n) ==
    /\ pc[n] = "data"
    /\ pc' = [pc EXCEPT ![n] = "run"]
    /\ UNCHANGED <<vars, winVars, ui, calls, operStopList, node, opAlive, fault>>

\* SendSignal of a dialog's operation, which reports its progress.
SendSignal(n) ==
    /\ pc[n] = "run" /\ ~node[n].stopped /\ w[n] # MainWin
    /\ Signal(n, Info)
    /\ UNCHANGED operVars

\* OF_FSCInfo: the prompts of the file systems look, with the mutex locked,
\* whether the operation is stopped before they use CallBack.  RedMessage,
\* with which the file operations ask what to do, does not.
LookBeforeAsking(n) ==
    /\ Careful /\ pc[n] = "run" /\ ~node[n].stopped
    /\ pc' = [pc EXCEPT ![n] = "ask"]
    /\ UNCHANGED <<vars, winVars, ui, calls, operStopList, node, opAlive, fault>>

\* CallBack up to the wait, with the mutex held.  The thread does not wait
\* when its window has been destroyed.
CallBack(n) ==
    /\ pc[n] = IF Careful THEN "ask" ELSE "run"
    /\ Signal(n, Call)
    /\ node' = [node EXCEPT ![n].cbRet = "negative", ![n].cbFunc = TRUE]
    /\ pc' = [pc EXCEPT ![n] = IF SignalResult(n) THEN "posted" ELSE "run"]
    /\ UNCHANGED <<winVars, ui, calls, operStopList, opAlive, fault>>

EnterWait(n) ==
    /\ pc[n] = "posted"
    /\ pc' = [pc EXCEPT ![n] = "waiting"]
    /\ UNCHANGED <<vars, winVars, ui, calls, operStopList, node, opAlive, fault>>

\* Mutant: CallBack does not wait.
CallBackHasty(n) ==
    /\ pc[n] = "waiting"
    /\ pc' = [pc EXCEPT ![n] = "run"]
    /\ node' = [node EXCEPT ![n].cond = FALSE]
    /\ UNCHANGED <<vars, winVars, ui, calls, operStopList, opAlive, fault>>

\* Wait returns, and with it CallBack: its result is cbRet.
CallBackReturn(n) ==
    /\ pc[n] = "waiting" /\ (node[n].cond \/ Spurious)
    /\ pc' = [pc EXCEPT ![n] = "run"]
    /\ node' = [node EXCEPT ![n].cond = FALSE]
    /\ UNCHANGED <<vars, winVars, ui, calls, operStopList, opAlive, fault>>

\* Mutant: the window keeps its pointer to the deleted node.
FuncReturnBound(n) ==
    /\ pc[n] = "run" /\ ~OperLocked /\ ~node[n].stopped
    /\ node' = [node EXCEPT ![n] = NoNode]
    /\ opAlive' = opAlive \ {n}
    /\ pc' = [pc EXCEPT ![n] = "ended"]
    /\ UNCHANGED <<vars, winVars, ui, calls, operStopList, fault>>

\* The operation's function returns: the node leaves the stop list, or its
\* window if it has not been stopped, and is deleted.
FuncReturn(n) ==
    /\ pc[n] = "run" /\ ~OperLocked
    /\ LET me == node[n]
           prevLink == IF me.stopped /\ me.prev # None
                       THEN [node EXCEPT ![me.prev].next = me.next] ELSE node
           nextLink == IF me.stopped /\ me.next # None
                       THEN [prevLink EXCEPT ![me.next].prev = me.prev] ELSE prevLink
       IN  /\ operStopList' = IF me.stopped /\ me.prev = None
                              THEN me.next ELSE operStopList
           /\ node' = [nextLink EXCEPT ![n] = NoNode]
           /\ tNode' = IF me.win = None THEN tNode ELSE [tNode EXCEPT ![me.win] = None]
    /\ opAlive' = opAlive \ {n}
    /\ pc' = [pc EXCEPT ![n] = "ended"]
    /\ UNCHANGED <<vars, threadId, cbExecuted, inOper, ui, calls, fault>>

\* The window thread ends.
WorkerEnd(n) ==
    /\ pc[n] = "ended"
    /\ EndThread(n)
    /\ pc' = [pc EXCEPT ![n] = "none"]
    /\ UNCHANGED <<winVars, ui, calls, operStopList, node, opAlive, fault>>

Ask(n) == w[n] \in Askers \cup {None} /\ (LookBeforeAsking(n) \/ CallBack(n))

OperWorker(n) ==
    \/ LockData(n) \/ UnlockData(n) \/ SendSignal(n)
    \/ Ask(n) \/ EnterWait(n) \/ CallBackReturn(n)
    \/ FuncReturn(n) \/ WorkerEnd(n)

-----------------------------------------------------------------------------
(* The user-interface thread: starting, stopping, closing.                 *)

\* An entry of calls: what the handler is executing.  It is the run that is
\* called back, or that the end of the run is told to OperThreadStopped, or
\* nothing but the handler's return.
Told == "told"

\* The tag is not one of the addresses that share the entries with it.
ASSUME ToldAssumption == Told \notin Node \cup {None}

UiIdle == ui.op = "none"

\* The program's own code is on top of the stack.
InProgram ==
    \/ Top.at = "loop"
    \/ Top.at \in {"signal", "stopped"} /\ calls[Len(calls)] # None

UiDoes(op, x, then, n) == [op |-> op, win |-> x, then |-> then, p |-> n]

\* PanelWin::LoadPath: the user enters a directory, or the panel is told of
\* the end of its run and shows another one.  In the loop of a dialog it is
\* NCWin::ThreadStopped, told of the end of a command, that rereads the panel.
MayLoadPath ==
    \/ Top.at = "loop"
    \/ Top.at = "stopped" /\ Top.win = MainWin /\ InProgram

\* RunNewThread of a panel, or of a dialog that has been constructed, up to
\* its StopThread's wait for operMutex.
StartRun(x) ==
    /\ UiIdle
    /\ IF x = MainWin THEN MayLoadPath
       ELSE Top.at = "enter" /\ Top.win = x /\ threadId[x] = None
    /\ Node \ (alloc \cup opAlive) # {}
    /\ ui' = UiDoes("stopping", x, "create", None)
    /\ UNCHANGED <<vars, winVars, calls, runVars, fault>>

\* The dialog's loop has ended: the dialog is stopped and then destroyed.
LeaveDialog(x) ==
    /\ UiIdle
    /\ Top.at = "loop" /\ Top.win = x /\ x # MainWin
    /\ ui' = UiDoes("stopping", x, "close", None)
    /\ UNCHANGED <<vars, winVars, calls, runVars, fault>>

\* Mutants: the old head of the list is not linked to the new one; the worker
\* that may be waiting is not woken up.
UnbindNoPrev(x, n) ==
    LET answered == IF cbExecuted[x] THEN node
                    ELSE Signalled([node EXCEPT ![n].cbRet = "negative"], n)
    IN  [answered EXCEPT ![n].stopped = TRUE, ![n].win = None,
                         ![n].prev = None, ![n].next = operStopList]

UnbindQuiet(x, n) ==
    [node EXCEPT ![n].stopped = TRUE, ![n].win = None, ![n].next = operStopList]

\* Run n is told that it is stopped, leaves its window and heads the list.
Unbind(x, n) ==
    LET answered == IF cbExecuted[x] THEN node
                    ELSE Signalled([node EXCEPT ![n].cbRet = "negative"], n)
        unlinked == [answered EXCEPT ![n].stopped = TRUE, ![n].win = None,
                                     ![n].prev = None, ![n].next = operStopList]
    IN  IF operStopList = None THEN unlinked
        ELSE [unlinked EXCEPT ![operStopList].prev = n]

\* Mutant: node->mutex is not locked.
FinishStopUnlocked(x) ==
    /\ ui.op = "stopping" /\ ui.win = x
    /\ IF tNode[x] = None
       THEN UNCHANGED <<node, operStopList>>
       ELSE node' = Unbind(x, tNode[x]) /\ operStopList' = tNode[x]
    /\ tNode' = [tNode EXCEPT ![x] = None]
    /\ threadId' = [threadId EXCEPT ![x] = None]
    /\ inOper' = (inOper \/ (x = MainWin /\ ui.then = "create"))
    /\ ui' = [ui EXCEPT !.op = ui.then]
    /\ UNCHANGED <<vars, cbExecuted, calls, opAlive, pc, fault>>

\* The rest of StopThread(x), when the worker has unlocked node->mutex.
FinishStop(x) ==
    /\ ui.op = "stopping" /\ ui.win = x
    /\ IF tNode[x] = None
       THEN UNCHANGED <<node, operStopList>>
       ELSE /\ ~NodeLocked(tNode[x])
            /\ node' = Unbind(x, tNode[x])
            /\ operStopList' = tNode[x]
    /\ tNode' = [tNode EXCEPT ![x] = None]
    /\ threadId' = [threadId EXCEPT ![x] = None]
    /\ inOper' = (inOper \/ (x = MainWin /\ ui.then = "create"))
    /\ ui' = [ui EXCEPT !.op = ui.then]
    /\ UNCHANGED <<vars, cbExecuted, calls, opAlive, pc, fault>>

\* Mutant: the window does not note the number of its run.
CreateRunUnnoted(x, n) ==
    /\ ui.op = "create" /\ ui.win = x /\ n \notin opAlive
    /\ CreateThread(x, n)
    /\ tNode' = [tNode EXCEPT ![x] = n]
    /\ node' = [node EXCEPT ![n] = NewNode(x)]
    /\ opAlive' = opAlive \cup {n}
    /\ pc' = [pc EXCEPT ![n] = "run"]
    /\ ui' = Idle
    /\ UNCHANGED <<threadId, cbExecuted, inOper, calls, operStopList, fault>>

\* The rest of RunNewThread.  That the number NewThreadID returns identifies
\* the run is modelled by using the node as the number.
CreateRun(x, n) ==
    /\ ui.op = "create" /\ ui.win = x /\ n \notin opAlive
    /\ CreateThread(x, n)
    /\ tNode' = [tNode EXCEPT ![x] = n]
    /\ threadId' = [threadId EXCEPT ![x] = n]
    /\ node' = [node EXCEPT ![n] = NewNode(x)]
    /\ opAlive' = opAlive \cup {n}
    /\ pc' = [pc EXCEPT ![n] = "run"]
    /\ ui' = Idle
    /\ UNCHANGED <<cbExecuted, inOper, calls, operStopList, fault>>

\* RunNewThread catches the exception of ThreadCreate and deletes the node.
CreateFails ==
    /\ CreateMayFail /\ ui.op = "create"
    /\ ui' = Idle
    /\ UNCHANGED <<vars, winVars, calls, runVars, fault>>

OpenWindow(x) ==
    /\ UiIdle /\ InProgram
    /\ OpenDialog(x)
    /\ UNCHANGED operVars

\* The dialog's destructor; StopThread has nothing left to do in it.
DestroyDialog ==
    /\ ui.op = "close"
    /\ CloseDialog
    /\ ui' = Idle
    /\ UNCHANGED <<winVars, calls, runVars, fault>>

\* SetStopFlag reads tNode, without operMutex.
ReadFlagNode(x) ==
    /\ UseStopFlag /\ UiIdle
    /\ Top.at = "loop" /\ Top.win = x /\ x # MainWin /\ tNode[x] # None
    /\ ui' = UiDoes("flag", x, "none", tNode[x])
    /\ UNCHANGED <<vars, winVars, calls, runVars, fault>>

\* Then it locks the mutex of what it has read, and sets the flag.
SetStopFlag ==
    /\ ui.op = "flag"
    /\ IF ui.p \in opAlive
       THEN /\ ~NodeLocked(ui.p)
            /\ node' = [node EXCEPT ![ui.p].stopped = TRUE]
            /\ UNCHANGED fault
       ELSE fault' = fault \cup {"freed"} /\ UNCHANGED node
    /\ ui' = Idle
    /\ UNCHANGED <<vars, winVars, calls, operStopList, opAlive, pc>>

-----------------------------------------------------------------------------
(* The user-interface thread: ThreadSignal and ThreadStopped.              *)

LoopTurn ==
    /\ UiIdle
    /\ BeginEvents \/ EmptyRound
    /\ UNCHANGED operVars

Occurs(wrong, kind) == IF wrong THEN {kind} ELSE {}

\* ThreadSignal of window x for the signal 1, up to the call of cbFunc.
EnterCallback(x) ==
    LET run == tNode[x]
    IN  /\ fault' = fault \cup Occurs(cbExecuted[x], "assert")
                           \cup Occurs(~node[run].cbFunc, "null")
        /\ cbExecuted' = [cbExecuted EXCEPT ![x] = TRUE]
        /\ calls' = Append(calls, run)

ThreadSignal ==
    /\ UiIdle /\ EventRound
    /\ LET p == Head(cmdQueue)
           x == w[p]
       IN  CASE x = None -> UNCHANGED <<calls, cbExecuted, fault>>
             [] x # None /\ data[p] = Call /\ tNode[x] # None -> EnterCallback(x)
             [] OTHER -> calls' = Append(calls, None) /\ UNCHANGED <<cbExecuted, fault>>
    /\ UNCHANGED <<tNode, threadId, inOper, ui, runVars>>

\* cbFunc returns, its result is stored and the worker is woken up; or the
\* handler, that had nothing to do, returns.
ThreadSignalReturn ==
    /\ UiIdle /\ SignalReturn
    /\ LET run == calls[Len(calls)]
       IN  /\ cbExecuted' = IF run = None THEN cbExecuted
                            ELSE [cbExecuted EXCEPT ![Top.win] = FALSE]
           /\ node' = IF run \in opAlive
                      THEN Signalled([node EXCEPT ![run].cbRet = "ok"], run) ELSE node
           /\ fault' = fault \cup Occurs(run \notin opAlive \cup {None}, "freed")
    /\ calls' = Pop(calls, 1)
    /\ UNCHANGED <<tNode, threadId, inOper, ui, operStopList, opAlive, pc>>

\* OperThreadStopped is called if it is the run the window waits for; that of
\* a panel that shows no operation reports a bug and returns.
ThreadStopped ==
    /\ UiIdle /\ StopRound
    /\ LET p == Head(cmdQueue)
           x == w[p]
           mine == x # None /\ threadId[x] = p
       IN  /\ threadId' = IF mine THEN [threadId EXCEPT ![x] = None] ELSE threadId
           /\ inOper' = (inOper /\ ~(mine /\ x = MainWin))
           /\ calls' = CASE x = None -> calls
                        [] mine /\ (x = MainWin => inOper) -> Append(calls, Told)
                        [] OTHER -> Append(calls, None)
    /\ UNCHANGED <<tNode, cbExecuted, ui, runVars, fault>>

ThreadStoppedReturn ==
    /\ UiIdle /\ StoppedReturn
    /\ calls' = Pop(calls, 1)
    /\ UNCHANGED <<winVars, ui, runVars, fault>>

OperUI ==
    \/ \E x \in Window :
          \/ StartRun(x) \/ LeaveDialog(x) \/ FinishStop(x)
          \/ OpenWindow(x) \/ ReadFlagNode(x)
          \/ \E n \in Node : CreateRun(x, n)
    \/ CreateFails \/ DestroyDialog \/ SetStopFlag
    \/ LoopTurn
    \/ ThreadSignal \/ ThreadSignalReturn
    \/ ThreadStopped \/ ThreadStoppedReturn

OperNext == Running /\ (OperUI \/ \E n \in Node : OperWorker(n))

OperSpec == OperInit /\ [][OperNext]_allVars

\* A mutex that is unlocked again and again is got (the workers hold it for
\* short copies between long operations), a returned call goes on, and the
\* loops and the handlers are as fair as those of WinThreads.  How long an
\* operation takes, and what the user does, is left open.
OperFairness ==
    /\ \A n \in Node : WF_allVars(Running /\ (UnlockData(n) \/ EnterWait(n) \/ WorkerEnd(n)))
    /\ \A n \in Node : WF_allVars(Running /\ node[n].cond /\ CallBackReturn(n))
    /\ \A x \in Window : SF_allVars(Running /\ FinishStop(x))
    /\ WF_allVars(Running /\ \E x \in Window, n \in Node : CreateRun(x, n))
    /\ SF_allVars(Running /\ (DestroyDialog \/ SetStopFlag))
    /\ WF_allVars(Running /\ (signaled \/ Top.at # "loop") /\ LoopTurn)
    /\ WF_allVars(Running /\ (ThreadSignal \/ ThreadStopped))
    /\ WF_allVars(Running /\ ThreadSignalReturn)
    /\ WF_allVars(Running /\ ThreadStoppedReturn)

FairOperSpec == OperSpec /\ OperFairness

-----------------------------------------------------------------------------
(* Properties.                                                             *)

\* The run a window is bound to has not been deleted and is bound to it; a run
\* that is bound to no window has been stopped.  The pointers are changed by
\* the worker (__123___OperThread) and by StopThread and RunNewThread.
BoundBothWays ==
    /\ \A x \in Window : tNode[x] # None =>
          tNode[x] \in opAlive /\ node[tNode[x]].win = x
    /\ \A n \in opAlive :
          IF node[n].win = None THEN node[n].stopped
          ELSE tNode[node[n].win] = n /\ node[n].win \in open

\* A worker is between LockData and UnlockData only while the window whose
\* data it uses exists, is bound to it and not to a later run of the window:
\* StopThread has not returned (OperThreadNode::Data, operwin.h).  The pointers
\* between runs and windows, which both sides change, agree all the time.
DataSafe ==
    /\ BoundBothWays
    /\ \A n \in Node : pc[n] = "data" =>
          /\ node[n].win \in open /\ tNode[node[n].win] = n
          /\ ~node[n].stopped

\* operStopList is a doubly linked list of the stopped runs that have not
\* ended, of every window, in whatever order they end.
StopListExact ==
    LET stopped == {n \in opAlive : node[n].stopped}
    IN  /\ operStopList = None <=> stopped = {}
        /\ \A n \in stopped :
              /\ node[n].prev = None <=> n = operStopList
              /\ node[n].prev # None =>
                    node[n].prev \in stopped /\ node[node[n].prev].next = n
              /\ node[n].next # None =>
                    node[n].next \in stopped /\ node[node[n].next].prev = n

CalledBack == {calls[i] : i \in 1..Len(calls)} \cap Node

\* A callback is executed for a worker that is waiting, or about to wait, for
\* its result in CallBack, so that the worker's cbData on its stack and its
\* node exist as long as ThreadSignal uses them; and a window never executes
\* two at a time, whatever modal loops the first one runs (the assertion of
\* ThreadSignal, and the check of the destructor that closes no window in one).
CallbackCurrent ==
    /\ \A n \in CalledBack : n \in opAlive /\ pc[n] \in {"posted", "waiting"}
    /\ fault = {}
    /\ ui.op = "close" => ~cbExecuted[ui.win]

\* A panel shows "Loading" exactly as long as it will be told of the end of
\* the run that reads its directory, or is about to start it.
LoadingShown ==
    inOper <=> threadId[MainWin] # None \/ (ui.op = "create" /\ ui.win = MainWin)

\* When a window is told of the end of its run, the run has let go of it: a
\* run that has announced its end is bound to no window.
ToldAfterRun ==
    \A x \in Window : threadId[x] # None /\ threadId[x] \notin thList => tNode[x] = None

\* StopThread returns, whatever the worker is doing (it may be asking).
StopReturns == \A x \in Window : ui.op = "stopping" /\ ui.win = x ~> ui.op # "stopping"

\* A worker that waits in CallBack has its question put to the user, or it is
\* woken up by StopThread; when the user has answered it is woken up.
CallBackServed ==
    \A n \in Node :
        /\ pc[n] = "waiting" ~> (pc[n] # "waiting" \/ n \in CalledBack)
        /\ pc[n] = "waiting" /\ node[n].cond ~> pc[n] # "waiting"

\* A window that waits for the end of a run that has ended is told.
EndTold ==
    \A x \in Window : (threadId[x] # None /\ threadId[x] \notin thList)
        ~> (threadId[x] = None \/ threadId[x] \in thList)

\* Whoever waits is served: StopThread for the worker's lock, a worker for the
\* answer to its question, a window for the end of its run.
WaitsEnd == StopReturns /\ CallBackServed /\ EndTold

-----------------------------------------------------------------------------
(* What comments of the code say of it.                                    *)

\* operwin.cpp:76 and 201: a worker that has been stopped and that no callback
\* will answer has been sent the signal with the negative result.
StoppedIsAnswered ==
    \A n \in opAlive :
        node[n].stopped /\ pc[n] = "waiting" /\ n \notin CalledBack => node[n].cond

=============================================================================
