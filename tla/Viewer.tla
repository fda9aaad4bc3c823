------------------------------- MODULE Viewer -------------------------------
(***************************************************************************)
(* The viewer's window and its threads (ncview.cpp).  Each file that is    *)
(* shown has a thread of its own and an object, ViewerThreadData, in which *)
(* the window leaves its requests (inFlags, inMode, inSize, inEvent) and   *)
(* the thread its results.  The window never waits: it replaces a request  *)
(* that has not been taken, and to be rid of a thread it leaves it the     *)
(* request FSTOP and forgets it; the thread deletes the object.            *)
(*                                                                         *)
(* Thread t stands for a thread, its number tid, its object and its file.  *)
(* How its signals reach the window is left to ThreadMail.  The mode       *)
(* (wrapping, hexadecimal, character set) and the size of the window are   *)
(* one value, the look: FMODE and FSIZE are treated alike.  disk counts    *)
(* the changes of the files on disk: it is their size and time of change.  *)
(***************************************************************************)
EXTENDS Naturals

CONSTANTS
    Thread, None,
    Look,       \* the modes and sizes
    Place,      \* the places in a file where the user may go
    Begin,      \* its beginning
    MaxDisk,    \* bound: how often the files change
    Timer,      \* does the timer of the window run?
    MayFail     \* may an operation of the file system fail?

ASSUME NoneAssumption ==
    /\ None \notin Thread \cup Look \cup Place \cup {"signal", "STOP"}
    /\ None \notin 0..MaxDisk
ASSUME PlaceAssumption == Begin \in Place
ASSUME BoundAssumption ==
    MaxDisk \in Nat /\ Timer \in BOOLEAN /\ MayFail \in BOOLEAN

VARIABLES
    life, box, owner,   \* the mail boxes of the threads
    view,               \* the window's threadData
    ui,                 \* is a handler about to compute the size?
    shown,              \* the window's lastResult
    drawLoading,
    alloc,              \* the objects that are allocated
    inFlags, inLook, inEvent, ret, loadStarted, error,  \* their fields
    pc,                 \* thread -> where it is
    job,                \* thread -> the request it has taken
    seen,               \* its file's size and time of change when it looked
    cache,              \* the change from which its cached blocks are, or None
    disk

mail == <<life, box, owner>>
window == <<view, ui, shown, drawLoading>>
request == <<inFlags, inLook, inEvent>>
file == <<seen, cache, disk>>
vars == <<life, box, owner, view, ui, shown, drawLoading, alloc, inFlags, inLook,
          inEvent, ret, loadStarted, error, pc, job, seen, cache, disk>>

Window == {"viewer"}
Data == {"signal"}

Mail == INSTANCE ThreadMail

\* FLOOK is FMODE or FSIZE.  inEvent is None when FEVENT is not set.
Flag == {"FSTOP", "FLOOK", "FTIMER"}

\* What a thread has computed, and nothing yet.
Result == [of : Thread \cup {None}, look : Look \cup {None}, place : Place,
           disk : 0..MaxDisk]

NoResult == [of |-> None, look |-> None, place |-> Begin, disk |-> 0]

NoJob == [flags |-> {}, look |-> None, event |-> None]

Init ==
    /\ Mail!Init
    /\ view = None /\ ui = "idle" /\ shown = NoResult /\ drawLoading = FALSE
    /\ alloc = {}
    /\ inFlags = [t \in Thread |-> {}]
    /\ inLook = [t \in Thread |-> None]
    /\ inEvent = [t \in Thread |-> None]
    /\ ret = [t \in Thread |-> NoResult]
    /\ loadStarted = [t \in Thread |-> FALSE]
    /\ error = [t \in Thread |-> FALSE]
    /\ pc = [t \in Thread |-> "none"]
    /\ job = [t \in Thread |-> NoJob]
    /\ seen = [t \in Thread |-> None]
    /\ cache = [t \in Thread |-> None]
    /\ disk = 0

\* inFlags is not 0.
Asked(t) == inFlags[t] # {} \/ inEvent[t] # None

\* cond.Signal: a thread that waits will wake up, one that does not is not
\* affected.
Signalled(t) == IF pc[t] = "wait" THEN [pc EXCEPT ![t] = "woken"] ELSE pc

-----------------------------------------------------------------------------
(* The window.                                                             *)

\* What ClearFile does to the thread of the file that is shown, if any: to its
\* flags (the others are not looked at again), and to where it is.
StopFlags ==
    IF view = None THEN inFlags ELSE [inFlags EXCEPT ![view] = {"FSTOP"}]

\* Mutant: it is not signalled.
StopQuietly == pc

StopSignal == IF view = None THEN pc ELSE Signalled(view)

\* Mutants: the window keeps the object; or what it shows.
ClearFileKept ==
    /\ ui = "idle" /\ view # None
    /\ inFlags' = StopFlags /\ pc' = StopSignal
    /\ shown' = NoResult
    /\ UNCHANGED <<mail, view, ui, drawLoading, alloc, inLook, inEvent, ret,
                   loadStarted, error, job, file>>

ClearFileShowing ==
    /\ ui = "idle" /\ view # None
    /\ inFlags' = StopFlags /\ pc' = StopSignal
    /\ view' = None
    /\ UNCHANGED <<mail, ui, shown, drawLoading, alloc, inLook, inEvent, ret,
                   loadStarted, error, job, file>>

ClearFile ==
    /\ ui = "idle" /\ view # None
    /\ inFlags' = StopFlags /\ pc' = StopSignal
    /\ view' = None /\ shown' = NoResult
    /\ UNCHANGED <<mail, ui, drawLoading, alloc, inLook, inEvent, ret,
                   loadStarted, error, job, file>>

\* SetFile: the old file is cleared, and there is a new object and its thread.
SetFile(t, l) ==
    /\ ui = "idle"
    /\ Mail!Create(t, "viewer")
    /\ view' = t /\ shown' = NoResult /\ ui' = "size"
    /\ alloc' = alloc \cup {t}
    /\ inFlags' = StopFlags
    /\ pc' = [StopSignal EXCEPT ![t] = "top"]
    /\ inLook' = [inLook EXCEPT ![t] = l]
    /\ UNCHANGED <<drawLoading, inEvent, ret, loadStarted, error, job, file>>

\* A request replaces the one of its kind; one for another look takes back
\* the keys that have not been looked at.
Request(flags, l, e) ==
    /\ inFlags' = [inFlags EXCEPT ![view] = flags]
    /\ inLook' = [inLook EXCEPT ![view] = l]
    /\ inEvent' = [inEvent EXCEPT ![view] = e]
    /\ pc' = Signalled(view)

\* CalcSize, called by SetFile.
FirstSize(l) ==
    /\ ui = "size"
    /\ Request(inFlags[view] \cup {"FLOOK"}, l, None)
    /\ ui' = "idle" /\ drawLoading' = TRUE
    /\ UNCHANGED <<mail, view, shown, alloc, ret, loadStarted, error, job,
                   file>>

\* WrapUnwrap, SetCharset, CalcSize called by EventSize, and HexText, which
\* goes on to compute the size.
ChangeLook(l) ==
    /\ ui = "idle" /\ view # None /\ l # inLook[view]
    /\ Request(inFlags[view] \cup {"FLOOK"}, l, None)
    /\ ui' \in {"idle", "resize"}
    /\ UNCHANGED <<mail, view, shown, drawLoading, alloc, ret, loadStarted,
                   error, job, file>>

\* CalcSize, called by HexText and CalcScroll: the size may be another.
CalcSize(l) ==
    /\ ui = "resize" /\ ui' = "idle"
    /\ IF l = inLook[view]
       THEN UNCHANGED <<request, pc>>
       ELSE Request(inFlags[view] \cup {"FLOOK"}, l, None)
    /\ UNCHANGED <<mail, view, shown, drawLoading, alloc, ret, loadStarted,
                   error, job, file>>

SetEvent(e) ==
    /\ ui = "idle" /\ view # None
    /\ Request(inFlags[view], inLook[view], e)
    /\ UNCHANGED <<mail, window, alloc, ret, loadStarted, error, job, file>>

\* EventTimer.  The message is drawn when a load has begun in another second.
EventTimer ==
    /\ Timer /\ ui = "idle" /\ view # None
    /\ Request(inFlags[view] \cup {"FTIMER"}, inLook[view], inEvent[view])
    /\ drawLoading' \in {drawLoading, drawLoading \/ loadStarted[view]}
    /\ UNCHANGED <<mail, view, ui, shown, alloc, ret, loadStarted, error, job,
                   file>>

\* Mutant: while a load has not ended.
PostponedLoading(t) == loadStarted[t]

\* While there is a request that has not been taken, the result is not shown.
Postponed(t) == Asked(t)

LoadingAfter(t) == drawLoading /\ view # t

\* ThreadSignal: the signal of a thread that has been forgotten is not looked
\* at, but CalcScroll is called for the file that is shown.  An error closes
\* the file.
ThreadSignal(t) ==
    /\ ui = "idle"
    /\ Mail!Take(t)
    /\ drawLoading' = LoadingAfter(t)
    /\ \/ /\ view = t /\ error[t]
          /\ view' = None /\ shown' = NoResult
          /\ inFlags' = StopFlags /\ pc' = StopSignal
          /\ UNCHANGED ui
       \/ /\ view = t /\ ~error[t] /\ Postponed(t)
          /\ UNCHANGED <<view, ui, shown, inFlags, pc>>
       \/ /\ view = t /\ ~error[t] /\ ~Postponed(t)
          /\ shown' = ret[t] /\ ui' = "resize"
          /\ UNCHANGED <<view, inFlags, pc>>
       \/ /\ view # t
          /\ ui' = IF view = None THEN "idle" ELSE "resize"
          /\ UNCHANGED <<view, shown, inFlags, pc>>
    /\ UNCHANGED <<alloc, inLook, inEvent, ret, loadStarted, error, job, file>>

\* Win::ThreadStopped does nothing.
ThreadStopped(t) ==
    /\ Mail!TakeStop(t)
    /\ UNCHANGED <<window, alloc, request, ret, loadStarted, error, pc, job,
                   file>>

StoppedReturn(t) ==
    /\ Mail!Forget(t)
    /\ UNCHANGED <<window, alloc, request, ret, loadStarted, error, pc, job,
                   file>>

-----------------------------------------------------------------------------
(* The thread.                                                             *)

Go(t, place) == pc' = [pc EXCEPT ![t] = place]

BeginWait(t) ==
    /\ pc[t] = "top" /\ ~Asked(t)
    /\ Go(t, "wait")
    /\ UNCHANGED <<mail, window, alloc, request, ret, loadStarted, error, job,
                   file>>

\* A condition variable may wake a thread that nobody has signalled.
WakeUp(t) ==
    /\ pc[t] = "wait"
    /\ Go(t, "woken")
    /\ UNCHANGED <<mail, window, alloc, request, ret, loadStarted, error, job,
                   file>>

\* The thread takes the request, or leaves its loop.
TakeJob(t) ==
    /\ \/ pc[t] = "woken"
       \/ pc[t] = "top" /\ Asked(t)
    /\ IF "FSTOP" \in inFlags[t]
       THEN Go(t, "delete") /\ UNCHANGED <<inFlags, inEvent, job>>
       ELSE /\ job' = [job EXCEPT ![t] = [flags |-> inFlags[t], look |-> inLook[t],
                                          event |-> inEvent[t]]]
            /\ inFlags' = [inFlags EXCEPT ![t] = {}]
            /\ inEvent' = [inEvent EXCEPT ![t] = None]
            /\ Go(t, "check")
    /\ UNCHANGED <<mail, window, alloc, inLook, ret, loadStarted, error, file>>

\* Mutant: the cache is kept.
CheckStatKept(t) ==
    /\ seen' = [seen EXCEPT ![t] = disk]
    /\ cache' = cache

\* VFile::CheckStat: the cache is cleared when the file has changed.
CheckStat(t) ==
    /\ seen' = [seen EXCEPT ![t] = disk]
    /\ cache' = IF seen[t] = disk THEN cache ELSE [cache EXCEPT ![t] = None]

\* Mutant: a timer that comes with another request is taken for a timer alone.
OnlyTimerAny(t) == "FTIMER" \in job[t].flags

OnlyTimer(t) == job[t].flags = {"FTIMER"} /\ job[t].event = None

\* Nothing but the timer, and the file has not changed: nothing is signalled.
Unchanged(t) ==
    /\ pc[t] = "check" /\ OnlyTimer(t) /\ seen[t] = disk
    /\ job' = [job EXCEPT ![t] = NoJob]
    /\ Go(t, "top")
    /\ UNCHANGED <<mail, window, alloc, request, ret, loadStarted, error,
                   file>>

\* Nothing but the timer, and the file has changed.  (A thread that was sent to
\* the end of the file goes to its new end: END is one of the places.)
Changed(t) ==
    /\ pc[t] = "check" /\ OnlyTimer(t) /\ seen[t] # disk
    /\ CheckStat(t)
    /\ Go(t, "load")
    /\ UNCHANGED <<mail, window, alloc, request, ret, loadStarted, error, job,
                   disk>>

BeginLoad(t) ==
    /\ pc[t] = "check" /\ ~OnlyTimer(t)
    /\ loadStarted' = [loadStarted EXCEPT ![t] = TRUE]
    /\ CheckStat(t)
    /\ Go(t, "load")
    /\ UNCHANGED <<mail, window, alloc, request, ret, error, job, disk>>

\* The blocks that are not in the cache are read.
Load(t) ==
    /\ pc[t] = "load"
    /\ cache' = [cache EXCEPT ![t] = IF @ = None THEN disk ELSE @]
    /\ Go(t, "post")
    /\ UNCHANGED <<mail, window, alloc, request, ret, loadStarted, error, job,
                   seen, disk>>

\* Where the thread is, if it was not sent elsewhere.
PlaceOf(t) ==
    IF job[t].event # None THEN job[t].event ELSE ret[t].place

Post(t) ==
    /\ pc[t] = "post"
    /\ ret' = [ret EXCEPT ![t] = [of |-> t, look |-> job[t].look,
                                  place |-> PlaceOf(t), disk |-> cache[t]]]
    /\ job' = [job EXCEPT ![t] = NoJob]
    /\ Mail!Post(t, "signal")
    /\ Go(t, "posted")
    /\ UNCHANGED <<window, alloc, request, loadStarted, error, file>>

\* CheckStat or a read has thrown: the message is stored without the mutex.
Fail(t) ==
    /\ MayFail /\ pc[t] \in {"check", "load"}
    /\ loadStarted' = [loadStarted EXCEPT ![t] =
                          @ \/ (pc[t] = "check" /\ ~OnlyTimer(t))]
    /\ error' = [error EXCEPT ![t] = TRUE]
    /\ job' = [job EXCEPT ![t] = NoJob]
    /\ Go(t, "failed")
    /\ UNCHANGED <<mail, window, alloc, request, ret, file>>

FailSignal(t) ==
    /\ pc[t] = "failed"
    /\ Mail!Post(t, "signal")
    /\ Go(t, "posted")
    /\ UNCHANGED <<window, alloc, request, ret, loadStarted, error, job, file>>

EndLoad(t) ==
    /\ pc[t] = "posted"
    /\ loadStarted' = [loadStarted EXCEPT ![t] = FALSE]
    /\ Go(t, "top")
    /\ UNCHANGED <<mail, window, alloc, request, ret, error, job, file>>

\* delete tData, and with it the file when nobody searches it.
Delete(t) ==
    /\ pc[t] = "delete"
    /\ alloc' = alloc \ {t}
    /\ inFlags' = [inFlags EXCEPT ![t] = {}]
    /\ inLook' = [inLook EXCEPT ![t] = None]
    /\ inEvent' = [inEvent EXCEPT ![t] = None]
    /\ ret' = [ret EXCEPT ![t] = NoResult]
    /\ error' = [error EXCEPT ![t] = FALSE]
    /\ seen' = [seen EXCEPT ![t] = None]
    /\ cache' = [cache EXCEPT ![t] = None]
    /\ Go(t, "ended")
    /\ UNCHANGED <<mail, window, loadStarted, job, disk>>

ThreadEnd(t) ==
    /\ pc[t] = "ended"
    /\ Mail!Finish(t)
    /\ Go(t, "none")
    /\ UNCHANGED <<window, alloc, request, ret, loadStarted, error, job, file>>

ViewerThread(t) ==
    \/ BeginWait(t) \/ TakeJob(t)
    \/ Unchanged(t) \/ Changed(t) \/ BeginLoad(t)
    \/ Load(t) \/ Post(t) \/ FailSignal(t) \/ EndLoad(t)
    \/ Delete(t) \/ ThreadEnd(t)

-----------------------------------------------------------------------------
\* Somebody writes to the files.
FileChanges ==
    /\ disk < MaxDisk
    /\ disk' = disk + 1
    /\ UNCHANGED <<mail, window, alloc, request, ret, loadStarted, error, pc,
                   job, seen, cache>>

Events(t) == ThreadSignal(t) \/ ThreadStopped(t) \/ StoppedReturn(t)

Next ==
    \/ \E t \in Thread :
          \/ ViewerThread(t) \/ WakeUp(t) \/ Fail(t)
          \/ Events(t)
          \/ \E l \in Look : SetFile(t, l)
    \/ \E l \in Look : FirstSize(l) \/ ChangeLook(l) \/ CalcSize(l)
    \/ \E e \in Place : SetEvent(e)
    \/ ClearFile \/ EventTimer
    \/ FileChanges

Spec == Init /\ [][Next]_vars

\* Threads run, loads of files come to an end, the loops serve the mail boxes
\* and the timer.
Fairness ==
    /\ \A t \in Thread : WF_vars(ViewerThread(t)) /\ SF_vars(Events(t))
    /\ WF_vars(\E l \in Look : FirstSize(l) \/ CalcSize(l))
    /\ WF_vars(EventTimer)

FairSpec == Spec /\ Fairness

-----------------------------------------------------------------------------
(* Properties.                                                             *)

TypeOK ==
    /\ Mail!TypeOK
    /\ view \in Thread \cup {None} /\ ui \in {"idle", "size", "resize"}
    /\ shown \in Result /\ drawLoading \in BOOLEAN
    /\ alloc \subseteq Thread
    /\ inFlags \in [Thread -> SUBSET Flag]
    /\ inLook \in [Thread -> Look \cup {None}]
    /\ inEvent \in [Thread -> Place \cup {None}]
    /\ ret \in [Thread -> Result]
    /\ loadStarted \in [Thread -> BOOLEAN] /\ error \in [Thread -> BOOLEAN]
    /\ pc \in [Thread -> {"none", "top", "wait", "woken", "check", "load", "post",
                          "posted", "failed", "delete", "ended"}]
    /\ job \in [Thread -> [flags : SUBSET Flag, look : Look \cup {None},
                           event : Place \cup {None}]]
    /\ seen \in [Thread -> (0..MaxDisk) \cup {None}]
    /\ cache \in [Thread -> (0..MaxDisk) \cup {None}]
    /\ disk \in 0..MaxDisk

\* The object the window uses is allocated, is that of a thread that has not
\* been told to stop, and a thread that has not left its loop has its object
\* (ncview.cpp 2459-2470, 1674-1688: nobody waits for anybody).
DataAlive ==
    /\ view # None => view \in alloc /\ "FSTOP" \notin inFlags[view]
    /\ \A t \in Thread : pc[t] \notin {"none", "ended"} => t \in alloc

\* What is shown is of the file that is shown, though signals of threads that
\* have been forgotten still arrive (1846-1876, 2459-2470).
ShownOfView == shown.of # None => shown.of = view

\* The thread of the file that is shown waits and has nothing to do.
Resting(t) ==
    view = t /\ ui = "idle" /\ pc[t] = "wait" /\ ~Asked(t) /\ ~error[t]

\* No request is lost: a thread that rests has computed the look that was
\* asked for last (922-972).
RequestsKept ==
    \A t \in Thread : Resting(t) => ret[t].of = t /\ ret[t].look = inLook[t]

\* "There is an event that has not been worked off, let us wait for it to be
\* executed" (1866): when it has been, and the signals have been taken, the
\* last result is shown.
PostponedIsShown ==
    \A t \in Thread : Resting(t) /\ box[t] = None => shown = ret[t]

\* A thread that has been told to stop ends (2459-2470, 922-931).
StopEnds == \A t \in Thread : "FSTOP" \in inFlags[t] ~> pc[t] = "none"

\* The viewer follows its file: the results are at last those of the file as
\* it is on disk (1733-1748, 942-953).
FollowsDisk ==
    \A t \in Thread :
        <>[](view = t /\ ~error[t]) => <>[](ret[t].of = t /\ ret[t].disk = disk)
=============================================================================
