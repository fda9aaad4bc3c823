---------------------------- MODULE ViewerProofs ----------------------------
(***************************************************************************)
(* Theorems on Viewer, for any sets of threads, looks and places and any   *)
(* number of changes on disk; and on ViewerText, for any files of short    *)
(* lines and any sizes of the window.                                      *)
(***************************************************************************)
EXTENDS Viewer, ViewerText, SequenceTheorems, WellFoundedInduction, NaturalsInduction, TLAPS

Busy(t) == pc[t] \in {"check", "load", "post"}

\* A thread has its object until it has deleted it; a new one is empty.
Alive ==
    \A t \in Thread :
        /\ t \in alloc <=> pc[t] \notin {"none", "ended"}
        /\ life[t] = "running" <=> pc[t] # "none"
        /\ box[t] = "STOP" => life[t] = "ended"
        /\ t \notin alloc =>
              inFlags[t] = {} /\ inEvent[t] = None /\ ret[t] = NoResult /\ ~error[t]

\* The thread of the file that is shown has not been told to stop; a thread
\* leaves its loop only when it has.
Viewed ==
    /\ view # None => "FSTOP" \notin inFlags[view] /\ view \in alloc
    /\ \A t \in Thread : pc[t] = "delete" => "FSTOP" \in inFlags[t]
    /\ ui # "idle" => view # None

\* Every object has a look, and so has every job that is being done.
Looks ==
    \A t \in Thread :
        /\ t \in alloc => inLook[t] \in Look
        /\ Busy(t) => job[t].look \in Look
        /\ pc[t] = "post" => cache[t] # None

\* A result says which file it is of.
Results ==
    /\ \A t \in Thread : ret[t].of \in {t, None} /\ (ret[t].of = None => ret[t].look = None)
    /\ shown.of # None => shown.of = view
    /\ view = None => shown = NoResult

\* The look that was asked for last is asked for, or being computed, or
\* computed; and no older one is being computed after it.
LookComing ==
    \A t \in Thread :
        view = t /\ ui # "size" /\ ~error[t] =>
            /\ \/ "FLOOK" \in inFlags[t]
               \/ /\ Busy(t) /\ job[t].look = inLook[t]
                  /\ pc[t] = "check" => "FLOOK" \in job[t].flags
               \/ ret[t].look = inLook[t]
            /\ Busy(t) => "FLOOK" \in inFlags[t] \/ job[t].look = inLook[t]

\* Without the timer the last result is shown, or a signal is still to come.
ResultComing ==
    /\ \A t \in Thread :
          "FTIMER" \notin inFlags[t] /\ (Busy(t) => "FTIMER" \notin job[t].flags)
    /\ \A t \in Thread :
          view = t /\ ~error[t] =>
              shown = ret[t] \/ box[t] = "signal" \/ Asked(t) \/ Busy(t)

IInv == TypeOK /\ Alive /\ Viewed /\ Looks /\ Results /\ LookComing


-----------------------------------------------------------------------------
(* Each action preserves the invariant.                                    *)

\* What an action preserves.
Kept == IInv' /\ (~Timer /\ ResultComing => ResultComing')

LEMMA NoResultType == NoResult \in Result
<1> QED
  BY PlaceAssumption, BoundAssumption DEF NoResult, Result

LEMMA InitIInv == Init => IInv /\ ResultComing
<1> SUFFICES ASSUME Init PROVE IInv /\ ResultComing
  OBVIOUS
<1>1. TypeOK
  <2>1. NoJob \in [flags : SUBSET Flag, look : Look \cup {None},
                   event : Place \cup {None}]
    BY DEF NoJob
  <2>2. NoResult \in Result /\ disk \in 0..MaxDisk
    BY NoResultType, BoundAssumption DEF Init
  <2> QED
    BY <2>1, <2>2 DEF Init, TypeOK, Mail!Init, Mail!TypeOK, Data, Window
<1>2. Alive /\ Viewed /\ Looks /\ Results /\ LookComing /\ ResultComing
  BY NoneAssumption
     DEF Init, Mail!Init, Alive, Viewed, Looks, Results, LookComing,
         ResultComing, Busy, NoResult
<1> QED
  BY <1>1, <1>2 DEF IInv

LEMMA ClearFileKeeps ==
    ASSUME IInv, ClearFile
    PROVE  Kept
<1> USE NoneAssumption DEF ClearFile, IInv
<1>1. TypeOK'
  BY BoundAssumption, NoResultType
     DEF TypeOK, Mail!TypeOK, Data, Window, Flag, mail, file, StopFlags,
         StopSignal, Signalled
<1>2. Alive'
  BY DEF TypeOK, Mail!TypeOK, Alive, Viewed, NoResult, mail, file, StopFlags,
         StopSignal, Signalled
<1>3. Viewed'
  BY DEF TypeOK, Mail!TypeOK, Alive, Viewed, mail, file, StopFlags, StopSignal,
         Signalled
<1>4. Looks'
  BY DEF TypeOK, Alive, Viewed, Looks, Busy, mail, file, StopFlags, StopSignal,
         Signalled
<1>5. Results'
  BY DEF TypeOK, Alive, Viewed, Results, Result, NoResult, mail, file,
         StopFlags, StopSignal, Signalled
<1>6. LookComing'
  BY DEF TypeOK, Alive, Viewed, Looks, LookComing, Busy, NoResult, mail, file,
         StopFlags, StopSignal, Signalled
<1>7. ~Timer /\ ResultComing => ResultComing'
  BY DEF TypeOK, Mail!TypeOK, Data, Alive, Viewed, Results, ResultComing, Busy,
         Asked, mail, file, StopFlags, StopSignal, Signalled
<1> QED
  BY <1>1, <1>2, <1>3, <1>4, <1>5, <1>6, <1>7 DEF Kept

LEMMA SetFileKeeps ==
    ASSUME IInv, NEW t \in Thread, NEW l \in Look, SetFile(t, l)
    PROVE  Kept
<1> USE NoneAssumption DEF SetFile, IInv
<1>1. TypeOK'
  BY BoundAssumption, NoResultType
     DEF TypeOK, Mail!TypeOK, Data, Window, Flag, file, StopFlags, StopSignal,
         Signalled, Mail!Create
<1>2. Alive'
  BY DEF TypeOK, Mail!TypeOK, Alive, Viewed, NoResult, file, StopFlags,
         StopSignal, Signalled, Mail!Create
<1>3. Viewed'
  BY DEF TypeOK, Mail!TypeOK, Alive, Viewed, file, StopFlags, StopSignal,
         Signalled, Mail!Create
<1>4. Looks'
  BY DEF TypeOK, Alive, Viewed, Looks, Busy, file, StopFlags, StopSignal,
         Signalled, Mail!Create
<1>5. Results'
  BY DEF TypeOK, Alive, Viewed, Results, Result, NoResult, file, StopFlags,
         StopSignal, Signalled, Mail!Create
<1>6. LookComing'
  BY DEF TypeOK, Alive, Viewed, Looks, LookComing, Busy, NoResult, file,
         StopFlags, StopSignal, Signalled, Mail!Create
<1>7. ~Timer /\ ResultComing => ResultComing'
  BY DEF TypeOK, Mail!TypeOK, Data, Alive, Viewed, Results, ResultComing, Busy,
         Asked, file, StopFlags, StopSignal, Signalled, Mail!Create
<1> QED
  BY <1>1, <1>2, <1>3, <1>4, <1>5, <1>6, <1>7 DEF Kept

LEMMA FirstSizeKeeps ==
    ASSUME IInv, NEW l \in Look, FirstSize(l)
    PROVE  Kept
<1> USE NoneAssumption DEF FirstSize, IInv
<1>1. TypeOK'
  BY BoundAssumption, NoResultType
     DEF TypeOK, Mail!TypeOK, Data, Window, Flag, Alive, Viewed, Looks, mail,
         file, Request, Signalled
<1>2. Alive'
  BY DEF TypeOK, Mail!TypeOK, Alive, Viewed, NoResult, mail, file, Request,
         Signalled
<1>3. Viewed'
  BY DEF TypeOK, Mail!TypeOK, Alive, Viewed, mail, file, Request, Signalled
<1>4. Looks'
  BY DEF TypeOK, Alive, Viewed, Looks, Busy, mail, file, Request, Signalled
<1>5. Results'
  BY DEF TypeOK, Alive, Viewed, Results, Result, NoResult, mail, file, Request,
         Signalled
<1>6. LookComing'
  BY DEF TypeOK, Alive, Viewed, Looks, LookComing, Busy, NoResult, mail, file,
         Request, Signalled
<1>7. ~Timer /\ ResultComing => ResultComing'
  BY DEF TypeOK, Mail!TypeOK, Data, Alive, Viewed, Results, ResultComing, Busy,
         Asked, mail, file, Request, Signalled
<1> QED
  BY <1>1, <1>2, <1>3, <1>4, <1>5, <1>6, <1>7 DEF Kept

LEMMA ChangeLookKeeps ==
    ASSUME IInv, NEW l \in Look, ChangeLook(l)
    PROVE  Kept
<1> USE NoneAssumption DEF ChangeLook, IInv
<1>1. TypeOK'
  BY BoundAssumption, NoResultType
     DEF TypeOK, Mail!TypeOK, Data, Window, Flag, mail, window, file, Request,
         Signalled
<1>2. Alive'
  BY DEF TypeOK, Mail!TypeOK, Alive, Viewed, NoResult, mail, window, file,
         Request, Signalled
<1>3. Viewed'
  BY DEF TypeOK, Mail!TypeOK, Alive, Viewed, mail, window, file, Request,
         Signalled
<1>4. Looks'
  BY DEF TypeOK, Alive, Viewed, Looks, Busy, mail, window, file, Request,
         Signalled
<1>5. Results'
  BY DEF TypeOK, Alive, Viewed, Results, Result, NoResult, mail, window, file,
         Request, Signalled
<1>6. LookComing'
  BY DEF TypeOK, Alive, Viewed, Looks, LookComing, Busy, NoResult, mail,
         window, file, Request, Signalled
<1>7. ~Timer /\ ResultComing => ResultComing'
  BY DEF TypeOK, Mail!TypeOK, Data, Alive, Viewed, Results, ResultComing, Busy,
         Asked, mail, window, file, Request, Signalled
<1> QED
  BY <1>1, <1>2, <1>3, <1>4, <1>5, <1>6, <1>7 DEF Kept

LEMMA CalcSizeKeeps ==
    ASSUME IInv, NEW l \in Look, CalcSize(l)
    PROVE  Kept
<1> USE NoneAssumption DEF IInv
<1>1. /\ ui = "resize" /\ ui' = "idle" /\ view \in Thread /\ view \in alloc
      /\ UNCHANGED <<life, box, owner, view, shown, drawLoading, alloc, ret,
                     loadStarted, error, job, seen, cache, disk>>
  BY DEF CalcSize, mail, file, TypeOK, Viewed
<1>2. CASE l = inLook[view]
  <2>1. UNCHANGED <<inFlags, inLook, inEvent, pc>>
    BY <1>2 DEF CalcSize, request
  <2>2. TypeOK' /\ Alive' /\ Viewed'
    BY <1>1, <2>1 DEF TypeOK, Mail!TypeOK, Alive, Viewed
  <2>3. Looks' /\ Results' /\ LookComing'
    BY <1>1, <2>1 DEF Looks, Results, LookComing, Busy
  <2>4. ResultComing => ResultComing'
    BY <1>1, <2>1 DEF ResultComing, Busy, Asked
  <2> QED
    BY <2>2, <2>3, <2>4 DEF Kept
<1>3. CASE l # inLook[view]
  <2>1. /\ inFlags' = [inFlags EXCEPT ![view] = @ \cup {"FLOOK"}]
        /\ inLook' = [inLook EXCEPT ![view] = l]
        /\ inEvent' = [inEvent EXCEPT ![view] = None]
        /\ pc' = Signalled(view)
    BY <1>3 DEF CalcSize, Request
  <2>2. TypeOK'
    BY <1>1, <2>1 DEF TypeOK, Mail!TypeOK, Flag, Signalled
  <2>3. Alive' /\ Viewed'
    BY <1>1, <2>1 DEF TypeOK, Alive, Viewed, Signalled
  <2>4. Looks' /\ Results'
    BY <1>1, <2>1 DEF TypeOK, Looks, Results, Busy, Signalled
  <2>5. LookComing'
    BY <1>1, <2>1 DEF TypeOK, LookComing, Busy, Signalled
  <2>6. ResultComing => ResultComing'
    BY <1>1, <2>1 DEF TypeOK, ResultComing, Busy, Asked, Signalled
  <2> QED
    BY <2>2, <2>3, <2>4, <2>5, <2>6 DEF Kept
<1> QED
  BY <1>2, <1>3

LEMMA SetEventKeeps ==
    ASSUME IInv, NEW e \in Place, SetEvent(e)
    PROVE  Kept
<1> USE NoneAssumption DEF SetEvent, IInv
<1>1. TypeOK'
  BY BoundAssumption, NoResultType
     DEF TypeOK, Mail!TypeOK, Data, Window, Flag, mail, window, file, Request,
         Signalled
<1>2. Alive'
  BY DEF TypeOK, Mail!TypeOK, Alive, Viewed, NoResult, mail, window, file,
         Request, Signalled
<1>3. Viewed'
  BY DEF TypeOK, Mail!TypeOK, Alive, Viewed, mail, window, file, Request,
         Signalled
<1>4. Looks'
  BY DEF TypeOK, Alive, Viewed, Looks, Busy, mail, window, file, Request,
         Signalled
<1>5. Results'
  BY DEF TypeOK, Alive, Viewed, Results, Result, NoResult, mail, window, file,
         Request, Signalled
<1>6. LookComing'
  BY DEF TypeOK, Alive, Viewed, Looks, LookComing, Busy, NoResult, mail,
         window, file, Request, Signalled
<1>7. ~Timer /\ ResultComing => ResultComing'
  BY DEF TypeOK, Mail!TypeOK, Data, Alive, Viewed, Results, ResultComing, Busy,
         Asked, mail, window, file, Request, Signalled
<1> QED
  BY <1>1, <1>2, <1>3, <1>4, <1>5, <1>6, <1>7 DEF Kept

LEMMA EventTimerKeeps ==
    ASSUME IInv, EventTimer
    PROVE  Kept
<1> USE NoneAssumption DEF EventTimer, IInv
<1>1. TypeOK'
  BY BoundAssumption, NoResultType
     DEF TypeOK, Mail!TypeOK, Data, Window, Flag, mail, file, Request,
         Signalled
<1>2. Alive'
  BY DEF TypeOK, Mail!TypeOK, Alive, Viewed, NoResult, mail, file, Request,
         Signalled
<1>3. Viewed'
  BY DEF TypeOK, Mail!TypeOK, Alive, Viewed, mail, file, Request, Signalled
<1>4. Looks'
  BY DEF TypeOK, Alive, Viewed, Looks, Busy, mail, file, Request, Signalled
<1>5. Results'
  BY DEF TypeOK, Alive, Viewed, Results, Result, NoResult, mail, file, Request,
         Signalled
<1>6. LookComing'
  BY DEF TypeOK, Alive, Viewed, Looks, LookComing, Busy, NoResult, mail, file,
         Request, Signalled
<1>7. ~Timer /\ ResultComing => ResultComing'
  BY DEF TypeOK, Mail!TypeOK, Data, Alive, Viewed, Results, ResultComing, Busy,
         Asked, mail, file, Request, Signalled
<1> QED
  BY <1>1, <1>2, <1>3, <1>4, <1>5, <1>6, <1>7 DEF Kept

LEMMA ThreadSignalKeeps ==
    ASSUME IInv, NEW t \in Thread, ThreadSignal(t)
    PROVE  Kept
<1> USE NoneAssumption DEF ThreadSignal, IInv
<1>0. /\ box' = [box EXCEPT ![t] = None]
      /\ UNCHANGED <<life, owner, alloc, inLook, inEvent, ret, loadStarted,
                     error, job, seen, cache, disk>>
      /\ drawLoading' \in BOOLEAN /\ ui' \in {"idle", "resize"}
  BY DEF Mail!Take, file, LoadingAfter, TypeOK
<1>1. TypeOK'
  <2>1. CASE view = t /\ error[t]
    <3>1. view' = None /\ shown' = NoResult
      BY <2>1
    <3>2. inFlags' \in [Thread -> SUBSET Flag]
      BY <2>1 DEF StopFlags, TypeOK, Flag
    <3>3. pc' = pc \/ pc' = [pc EXCEPT ![t] = "woken"]
      BY <2>1 DEF StopSignal, Signalled
    <3>4. /\ Mail!TypeOK'
          /\ pc' \in [Thread -> {"none", "top", "wait", "woken", "check", "load",
                                "post", "posted", "failed", "delete", "ended"}]
      BY <1>0, <3>3 DEF TypeOK, Mail!TypeOK
    <3> QED
      BY <1>0, <3>1, <3>2, <3>4, NoResultType DEF TypeOK
  <2>2. CASE ~(view = t /\ error[t])
    BY <2>2, NoResultType
       DEF TypeOK, Mail!TypeOK, Data, Flag, Mail!Take, LoadingAfter, Postponed,
           StopFlags, StopSignal, Signalled, file
  <2> QED
    BY <2>1, <2>2
<1>2. Alive'
  BY DEF TypeOK, Mail!TypeOK, Alive, Viewed, NoResult, file, Mail!Take,
         LoadingAfter, Postponed, StopFlags, StopSignal, Signalled
<1>3. Viewed'
  <2>1. CASE view = t /\ error[t]
    BY <2>1
       DEF TypeOK, Alive, Viewed, Mail!Take, LoadingAfter, Postponed, StopFlags,
           StopSignal, Signalled, file
  <2>2. CASE ~(view = t /\ error[t])
    BY <2>2
       DEF TypeOK, Alive, Viewed, Mail!Take, LoadingAfter, Postponed, StopFlags,
           StopSignal, Signalled, file
  <2> QED
    BY <2>1, <2>2
<1>4. Looks'
  BY DEF TypeOK, Alive, Viewed, Looks, Busy, file, Mail!Take, LoadingAfter,
         Postponed, StopFlags, StopSignal, Signalled
<1>5. Results'
  BY DEF TypeOK, Alive, Viewed, Results, Result, NoResult, file, Mail!Take,
         LoadingAfter, Postponed, StopFlags, StopSignal, Signalled
<1>6. LookComing'
  BY DEF TypeOK, Alive, Viewed, Looks, LookComing, Busy, NoResult, file,
         Mail!Take, LoadingAfter, Postponed, StopFlags, StopSignal, Signalled
<1>7. ~Timer /\ ResultComing => ResultComing'
  <2>1. CASE view = t /\ error[t]
    <3>1. view' = None /\ inFlags' = [inFlags EXCEPT ![t] = {"FSTOP"}]
      BY <2>1 DEF StopFlags
    <3>2. \A u \in Thread : Busy(u)' => Busy(u)
      BY <2>1 DEF StopSignal, Signalled, Busy, TypeOK
    <3> QED
      BY <1>0, <3>1, <3>2 DEF ResultComing, TypeOK
  <2>2. CASE ~(view = t /\ error[t])
    BY <2>2
       DEF TypeOK, Mail!TypeOK, Data, Alive, Viewed, ResultComing, NoResult,
           Busy, Asked, Mail!Take, LoadingAfter, Postponed, StopFlags,
           StopSignal, Signalled, file
  <2> QED
    BY <2>1, <2>2
<1> QED
  BY <1>1, <1>2, <1>3, <1>4, <1>5, <1>6, <1>7 DEF Kept

LEMMA ThreadStoppedKeeps ==
    ASSUME IInv, NEW t \in Thread, ThreadStopped(t)
    PROVE  Kept
<1> USE NoneAssumption DEF ThreadStopped, IInv
<1>1. TypeOK'
  BY BoundAssumption, NoResultType
     DEF TypeOK, Mail!TypeOK, Data, Window, Flag, window, request, file,
         Mail!TakeStop
<1>2. Alive'
  BY DEF TypeOK, Mail!TypeOK, Alive, Viewed, NoResult, window, request, file,
         Mail!TakeStop
<1>3. Viewed'
  BY DEF TypeOK, Mail!TypeOK, Alive, Viewed, window, request, file,
         Mail!TakeStop
<1>4. Looks'
  BY DEF TypeOK, Alive, Viewed, Looks, Busy, window, request, file,
         Mail!TakeStop
<1>5. Results'
  BY DEF TypeOK, Alive, Viewed, Results, Result, NoResult, window, request,
         file, Mail!TakeStop
<1>6. LookComing'
  BY DEF TypeOK, Alive, Viewed, Looks, LookComing, Busy, NoResult, window,
         request, file, Mail!TakeStop
<1>7. ~Timer /\ ResultComing => ResultComing'
  BY DEF TypeOK, Mail!TypeOK, Data, Alive, Viewed, Results, ResultComing, Busy,
         Asked, window, request, file, Mail!TakeStop
<1> QED
  BY <1>1, <1>2, <1>3, <1>4, <1>5, <1>6, <1>7 DEF Kept

LEMMA StoppedReturnKeeps ==
    ASSUME IInv, NEW t \in Thread, StoppedReturn(t)
    PROVE  Kept
<1> USE NoneAssumption DEF StoppedReturn, IInv
<1>1. TypeOK'
  BY BoundAssumption, NoResultType
     DEF TypeOK, Mail!TypeOK, Data, Window, Flag, window, request, file,
         Mail!Forget
<1>2. Alive'
  BY DEF TypeOK, Mail!TypeOK, Alive, Viewed, NoResult, window, request, file,
         Mail!Forget
<1>3. Viewed'
  BY DEF TypeOK, Mail!TypeOK, Alive, Viewed, window, request, file, Mail!Forget
<1>4. Looks'
  BY DEF TypeOK, Alive, Viewed, Looks, Busy, window, request, file, Mail!Forget
<1>5. Results'
  BY DEF TypeOK, Alive, Viewed, Results, Result, NoResult, window, request,
         file, Mail!Forget
<1>6. LookComing'
  BY DEF TypeOK, Alive, Viewed, Looks, LookComing, Busy, NoResult, window,
         request, file, Mail!Forget
<1>7. ~Timer /\ ResultComing => ResultComing'
  BY DEF TypeOK, Mail!TypeOK, Data, Alive, Viewed, Results, ResultComing, Busy,
         Asked, window, request, file, Mail!Forget
<1> QED
  BY <1>1, <1>2, <1>3, <1>4, <1>5, <1>6, <1>7 DEF Kept

LEMMA BeginWaitKeeps ==
    ASSUME IInv, NEW t \in Thread, BeginWait(t)
    PROVE  Kept
<1> USE NoneAssumption DEF BeginWait, IInv
<1>1. TypeOK'
  BY BoundAssumption, NoResultType
     DEF TypeOK, Mail!TypeOK, Data, Window, Flag, mail, window, request, file,
         Go
<1>2. Alive'
  BY DEF TypeOK, Mail!TypeOK, Alive, Viewed, NoResult, mail, window, request,
         file, Go
<1>3. Viewed'
  BY DEF TypeOK, Mail!TypeOK, Alive, Viewed, mail, window, request, file, Go
<1>4. Looks'
  BY DEF TypeOK, Alive, Viewed, Looks, Busy, mail, window, request, file, Go
<1>5. Results'
  BY DEF TypeOK, Alive, Viewed, Results, Result, NoResult, mail, window,
         request, file, Go
<1>6. LookComing'
  BY DEF TypeOK, Alive, Viewed, Looks, LookComing, Busy, NoResult, mail,
         window, request, file, Go
<1>7. ~Timer /\ ResultComing => ResultComing'
  BY DEF TypeOK, Mail!TypeOK, Data, Alive, Viewed, Results, ResultComing, Busy,
         Asked, mail, window, request, file, Go
<1> QED
  BY <1>1, <1>2, <1>3, <1>4, <1>5, <1>6, <1>7 DEF Kept

LEMMA WakeUpKeeps ==
    ASSUME IInv, NEW t \in Thread, WakeUp(t)
    PROVE  Kept
<1> USE NoneAssumption DEF WakeUp, IInv
<1>1. TypeOK'
  BY BoundAssumption, NoResultType
     DEF TypeOK, Mail!TypeOK, Data, Window, Flag, mail, window, request, file,
         Go
<1>2. Alive'
  BY DEF TypeOK, Mail!TypeOK, Alive, Viewed, NoResult, mail, window, request,
         file, Go
<1>3. Viewed'
  BY DEF TypeOK, Mail!TypeOK, Alive, Viewed, mail, window, request, file, Go
<1>4. Looks'
  BY DEF TypeOK, Alive, Viewed, Looks, Busy, mail, window, request, file, Go
<1>5. Results'
  BY DEF TypeOK, Alive, Viewed, Results, Result, NoResult, mail, window,
         request, file, Go
<1>6. LookComing'
  BY DEF TypeOK, Alive, Viewed, Looks, LookComing, Busy, NoResult, mail,
         window, request, file, Go
<1>7. ~Timer /\ ResultComing => ResultComing'
  BY DEF TypeOK, Mail!TypeOK, Data, Alive, Viewed, Results, ResultComing, Busy,
         Asked, mail, window, request, file, Go
<1> QED
  BY <1>1, <1>2, <1>3, <1>4, <1>5, <1>6, <1>7 DEF Kept

LEMMA TakeJobKeeps ==
    ASSUME IInv, NEW t \in Thread, TakeJob(t)
    PROVE  Kept
<1> USE NoneAssumption DEF TakeJob, IInv
<1>1. TypeOK'
  <2>1. [flags |-> inFlags[t], look |-> inLook[t], event |-> inEvent[t]]
           \in [flags : SUBSET Flag, look : Look \cup {None},
                event : Place \cup {None}]
    BY DEF TypeOK
  <2>2. CASE "FSTOP" \in inFlags[t]
    BY <2>2 DEF TypeOK, Mail!TypeOK, mail, window, file, Go
  <2>3. CASE "FSTOP" \notin inFlags[t]
    <3>1. job' \in [Thread -> [flags : SUBSET Flag, look : Look \cup {None},
                               event : Place \cup {None}]]
      BY <2>1, <2>3 DEF TypeOK
    <3>2. inFlags' \in [Thread -> SUBSET Flag]
      BY <2>3 DEF TypeOK
    <3>3. inEvent' \in [Thread -> Place \cup {None}]
      BY <2>3 DEF TypeOK
    <3> QED
      BY <2>3, <3>1, <3>2, <3>3 DEF TypeOK, Mail!TypeOK, mail, window, file, Go
  <2> QED
    BY <2>2, <2>3
<1>2. Alive'
  BY DEF TypeOK, Mail!TypeOK, Alive, Viewed, NoResult, mail, window, file, Go
<1>3. Viewed'
  <2>1. CASE "FSTOP" \in inFlags[t]
    BY <2>1 DEF TypeOK, Viewed, window, Go
  <2>2. CASE "FSTOP" \notin inFlags[t]
    <3>1. /\ \A u \in Thread : "FSTOP" \in inFlags'[u] <=> "FSTOP" \in inFlags[u]
          /\ pc'[t] = "check" /\ \A u \in Thread \ {t} : pc'[u] = pc[u]
      BY <2>2 DEF TypeOK, Go
    <3> QED
      BY <2>2, <3>1 DEF TypeOK, Viewed, window
  <2> QED
    BY <2>1, <2>2
<1>4. Looks'
  BY DEF TypeOK, Alive, Viewed, Looks, Busy, mail, window, file, Go
<1>5. Results'
  BY DEF TypeOK, Alive, Viewed, Results, Result, NoResult, mail, window, file,
         Go
<1>6. LookComing'
  BY DEF TypeOK, Alive, Viewed, Looks, LookComing, Busy, NoResult, mail,
         window, file, Go
<1>7. ~Timer /\ ResultComing => ResultComing'
  <2> SUFFICES ASSUME ResultComing PROVE ResultComing'
    OBVIOUS
  <2>1. UNCHANGED <<view, error, shown, ret, box>>
    BY DEF mail, window
  <2>2. CASE "FSTOP" \in inFlags[t]
    BY <2>1, <2>2 DEF TypeOK, ResultComing, Viewed, Busy, Asked, Go
  <2>3. CASE "FSTOP" \notin inFlags[t]
    <3>1. Busy(t)' /\ job'[t].flags = inFlags[t] /\ inFlags'[t] = {}
      BY <2>3 DEF TypeOK, Busy, Go
    <3>2. \A u \in Thread \ {t} :
             /\ Busy(u)' = Busy(u) /\ Asked(u)' = Asked(u)
             /\ job'[u] = job[u] /\ inFlags'[u] = inFlags[u]
      BY <2>3 DEF TypeOK, Busy, Asked, Go
    <3> QED
      BY <2>1, <3>1, <3>2 DEF ResultComing
  <2> QED
    BY <2>2, <2>3
<1> QED
  BY <1>1, <1>2, <1>3, <1>4, <1>5, <1>6, <1>7 DEF Kept

LEMMA UnchangedKeeps ==
    ASSUME IInv, NEW t \in Thread, Unchanged(t)
    PROVE  Kept
<1> USE NoneAssumption DEF Unchanged, IInv
<1>1. TypeOK'
  BY BoundAssumption, NoResultType
     DEF TypeOK, Mail!TypeOK, Data, Window, Flag, mail, window, request, file,
         Go, OnlyTimer, NoJob
<1>2. Alive'
  BY DEF TypeOK, Mail!TypeOK, Alive, Viewed, NoResult, mail, window, request,
         file, Go, OnlyTimer, NoJob
<1>3. Viewed'
  BY DEF TypeOK, Mail!TypeOK, Alive, Viewed, mail, window, request, file, Go,
         OnlyTimer, NoJob
<1>4. Looks'
  BY DEF TypeOK, Alive, Viewed, Looks, Busy, mail, window, request, file, Go,
         OnlyTimer, NoJob
<1>5. Results'
  BY DEF TypeOK, Alive, Viewed, Results, Result, NoResult, mail, window,
         request, file, Go, OnlyTimer, NoJob
<1>6. LookComing'
  BY DEF TypeOK, Alive, Viewed, Looks, LookComing, Busy, NoResult, mail,
         window, request, file, Go, OnlyTimer, NoJob
<1>7. ~Timer /\ ResultComing => ResultComing'
  BY DEF TypeOK, Mail!TypeOK, Data, Alive, Viewed, Results, ResultComing, Busy,
         Asked, mail, window, request, file, Go, OnlyTimer, NoJob
<1> QED
  BY <1>1, <1>2, <1>3, <1>4, <1>5, <1>6, <1>7 DEF Kept

LEMMA ChangedKeeps ==
    ASSUME IInv, NEW t \in Thread, Changed(t)
    PROVE  Kept
<1> USE NoneAssumption DEF Changed, IInv
<1>1. TypeOK'
  BY BoundAssumption, NoResultType
     DEF TypeOK, Mail!TypeOK, Data, Window, Flag, mail, window, request, Go,
         OnlyTimer, CheckStat
<1>2. Alive'
  BY DEF TypeOK, Mail!TypeOK, Alive, Viewed, NoResult, mail, window, request,
         Go, OnlyTimer, CheckStat
<1>3. Viewed'
  BY DEF TypeOK, Mail!TypeOK, Alive, Viewed, mail, window, request, Go,
         OnlyTimer, CheckStat
<1>4. Looks'
  BY DEF TypeOK, Alive, Viewed, Looks, Busy, mail, window, request, Go,
         OnlyTimer, CheckStat
<1>5. Results'
  BY DEF TypeOK, Alive, Viewed, Results, Result, NoResult, mail, window,
         request, Go, OnlyTimer, CheckStat
<1>6. LookComing'
  BY DEF TypeOK, Alive, Viewed, Looks, LookComing, Busy, NoResult, mail,
         window, request, Go, OnlyTimer, CheckStat
<1>7. ~Timer /\ ResultComing => ResultComing'
  BY DEF TypeOK, Mail!TypeOK, Data, Alive, Viewed, Results, ResultComing, Busy,
         Asked, mail, window, request, Go, OnlyTimer, CheckStat
<1> QED
  BY <1>1, <1>2, <1>3, <1>4, <1>5, <1>6, <1>7 DEF Kept

LEMMA BeginLoadKeeps ==
    ASSUME IInv, NEW t \in Thread, BeginLoad(t)
    PROVE  Kept
<1> USE NoneAssumption DEF BeginLoad, IInv
<1>1. TypeOK'
  BY BoundAssumption, NoResultType
     DEF TypeOK, Mail!TypeOK, Data, Window, Flag, mail, window, request, Go,
         OnlyTimer, CheckStat
<1>2. Alive'
  BY DEF TypeOK, Mail!TypeOK, Alive, Viewed, NoResult, mail, window, request,
         Go, OnlyTimer, CheckStat
<1>3. Viewed'
  BY DEF TypeOK, Mail!TypeOK, Alive, Viewed, mail, window, request, Go,
         OnlyTimer, CheckStat
<1>4. Looks'
  BY DEF TypeOK, Alive, Viewed, Looks, Busy, mail, window, request, Go,
         OnlyTimer, CheckStat
<1>5. Results'
  BY DEF TypeOK, Alive, Viewed, Results, Result, NoResult, mail, window,
         request, Go, OnlyTimer, CheckStat
<1>6. LookComing'
  BY DEF TypeOK, Alive, Viewed, Looks, LookComing, Busy, NoResult, mail,
         window, request, Go, OnlyTimer, CheckStat
<1>7. ~Timer /\ ResultComing => ResultComing'
  BY DEF TypeOK, Mail!TypeOK, Data, Alive, Viewed, Results, ResultComing, Busy,
         Asked, mail, window, request, Go, OnlyTimer, CheckStat
<1> QED
  BY <1>1, <1>2, <1>3, <1>4, <1>5, <1>6, <1>7 DEF Kept

LEMMA LoadKeeps ==
    ASSUME IInv, NEW t \in Thread, Load(t)
    PROVE  Kept
<1> USE NoneAssumption DEF Load, IInv
<1>1. TypeOK'
  BY BoundAssumption, NoResultType
     DEF TypeOK, Mail!TypeOK, Data, Window, Flag, mail, window, request, Go
<1>2. Alive'
  BY DEF TypeOK, Mail!TypeOK, Alive, Viewed, NoResult, mail, window, request,
         Go
<1>3. Viewed'
  BY DEF TypeOK, Mail!TypeOK, Alive, Viewed, mail, window, request, Go
<1>4. Looks'
  BY DEF TypeOK, Alive, Viewed, Looks, Busy, mail, window, request, Go
<1>5. Results'
  BY DEF TypeOK, Alive, Viewed, Results, Result, NoResult, mail, window,
         request, Go
<1>6. LookComing'
  BY DEF TypeOK, Alive, Viewed, Looks, LookComing, Busy, NoResult, mail,
         window, request, Go
<1>7. ~Timer /\ ResultComing => ResultComing'
  BY DEF TypeOK, Mail!TypeOK, Data, Alive, Viewed, Results, ResultComing, Busy,
         Asked, mail, window, request, Go
<1> QED
  BY <1>1, <1>2, <1>3, <1>4, <1>5, <1>6, <1>7 DEF Kept

LEMMA PostKeeps ==
    ASSUME IInv, NEW t \in Thread, Post(t)
    PROVE  Kept
<1> USE NoneAssumption DEF Post, IInv
<1>1. TypeOK'
  <2>1. PlaceOf(t) \in Place
    BY PlaceAssumption DEF PlaceOf, TypeOK, Result
  <2>2. job[t].look \in Look /\ cache[t] \in 0..MaxDisk
    BY DEF Looks, Busy, TypeOK
  <2>3. [of |-> t, look |-> job[t].look, place |-> PlaceOf(t),
         disk |-> cache[t]] \in Result
    BY <2>1, <2>2 DEF Result
  <2>4. NoJob \in [flags : SUBSET Flag, look : Look \cup {None},
                   event : Place \cup {None}]
    BY DEF NoJob
  <2> QED
    BY <2>3, <2>4
       DEF TypeOK, Mail!TypeOK, Mail!Post, Data, window, request, file, Go
<1>2. Alive'
  BY DEF TypeOK, Mail!TypeOK, Alive, Viewed, NoResult, window, request, file,
         Go, NoJob, PlaceOf, Mail!Post
<1>3. Viewed'
  BY DEF TypeOK, Mail!TypeOK, Alive, Viewed, window, request, file, Go, NoJob,
         PlaceOf, Mail!Post
<1>4. Looks'
  BY DEF TypeOK, Alive, Viewed, Looks, Busy, window, request, file, Go, NoJob,
         PlaceOf, Mail!Post
<1>5. Results'
  BY DEF TypeOK, Alive, Viewed, Results, Result, NoResult, window, request,
         file, Go, NoJob, PlaceOf, Mail!Post
<1>6. LookComing'
  <2>1. ret'[t].look = job[t].look
    BY DEF TypeOK
  <2>2. \A u \in Thread \ {t} : ret'[u] = ret[u] /\ Busy(u)' = Busy(u) /\ job'[u] = job[u]
    BY DEF TypeOK, Busy, Go
  <2>3. ~Busy(t)' /\ Busy(t) /\ pc[t] # "check"
    BY DEF TypeOK, Busy, Go
  <2> QED
    BY <2>1, <2>2, <2>3 DEF TypeOK, LookComing, window, request, Go
<1>7. ~Timer /\ ResultComing => ResultComing'
  BY DEF TypeOK, Mail!TypeOK, Data, Alive, Viewed, Results, ResultComing, Busy,
         Asked, window, request, file, Go, NoJob, PlaceOf, Mail!Post
<1> QED
  BY <1>1, <1>2, <1>3, <1>4, <1>5, <1>6, <1>7 DEF Kept

LEMMA FailKeeps ==
    ASSUME IInv, NEW t \in Thread, Fail(t)
    PROVE  Kept
<1> USE NoneAssumption DEF Fail, IInv
<1>1. TypeOK'
  BY BoundAssumption, NoResultType
     DEF TypeOK, Mail!TypeOK, Data, Window, Flag, mail, window, request, file,
         Go, NoJob, OnlyTimer
<1>2. Alive'
  BY DEF TypeOK, Mail!TypeOK, Alive, Viewed, NoResult, mail, window, request,
         file, Go, NoJob, OnlyTimer
<1>3. Viewed'
  BY DEF TypeOK, Mail!TypeOK, Alive, Viewed, mail, window, request, file, Go,
         NoJob, OnlyTimer
<1>4. Looks'
  BY DEF TypeOK, Alive, Viewed, Looks, Busy, mail, window, request, file, Go,
         NoJob, OnlyTimer
<1>5. Results'
  BY DEF TypeOK, Alive, Viewed, Results, Result, NoResult, mail, window,
         request, file, Go, NoJob, OnlyTimer
<1>6. LookComing'
  BY DEF TypeOK, Alive, Viewed, Looks, LookComing, Busy, NoResult, mail,
         window, request, file, Go, NoJob, OnlyTimer
<1>7. ~Timer /\ ResultComing => ResultComing'
  BY DEF TypeOK, Mail!TypeOK, Data, Alive, Viewed, Results, ResultComing, Busy,
         Asked, mail, window, request, file, Go, NoJob, OnlyTimer
<1> QED
  BY <1>1, <1>2, <1>3, <1>4, <1>5, <1>6, <1>7 DEF Kept

LEMMA FailSignalKeeps ==
    ASSUME IInv, NEW t \in Thread, FailSignal(t)
    PROVE  Kept
<1> USE NoneAssumption DEF FailSignal, IInv
<1>1. TypeOK'
  BY BoundAssumption, NoResultType
     DEF TypeOK, Mail!TypeOK, Data, Window, Flag, window, request, file, Go,
         Mail!Post
<1>2. Alive'
  BY DEF TypeOK, Mail!TypeOK, Alive, Viewed, NoResult, window, request, file,
         Go, Mail!Post
<1>3. Viewed'
  BY DEF TypeOK, Mail!TypeOK, Alive, Viewed, window, request, file, Go,
         Mail!Post
<1>4. Looks'
  BY DEF TypeOK, Alive, Viewed, Looks, Busy, window, request, file, Go,
         Mail!Post
<1>5. Results'
  BY DEF TypeOK, Alive, Viewed, Results, Result, NoResult, window, request,
         file, Go, Mail!Post
<1>6. LookComing'
  BY DEF TypeOK, Alive, Viewed, Looks, LookComing, Busy, NoResult, window,
         request, file, Go, Mail!Post
<1>7. ~Timer /\ ResultComing => ResultComing'
  BY DEF TypeOK, Mail!TypeOK, Data, Alive, Viewed, Results, ResultComing, Busy,
         Asked, window, request, file, Go, Mail!Post
<1> QED
  BY <1>1, <1>2, <1>3, <1>4, <1>5, <1>6, <1>7 DEF Kept

LEMMA EndLoadKeeps ==
    ASSUME IInv, NEW t \in Thread, EndLoad(t)
    PROVE  Kept
<1> USE NoneAssumption DEF EndLoad, IInv
<1>1. TypeOK'
  BY BoundAssumption, NoResultType
     DEF TypeOK, Mail!TypeOK, Data, Window, Flag, mail, window, request, file,
         Go
<1>2. Alive'
  BY DEF TypeOK, Mail!TypeOK, Alive, Viewed, NoResult, mail, window, request,
         file, Go
<1>3. Viewed'
  BY DEF TypeOK, Mail!TypeOK, Alive, Viewed, mail, window, request, file, Go
<1>4. Looks'
  BY DEF TypeOK, Alive, Viewed, Looks, Busy, mail, window, request, file, Go
<1>5. Results'
  BY DEF TypeOK, Alive, Viewed, Results, Result, NoResult, mail, window,
         request, file, Go
<1>6. LookComing'
  BY DEF TypeOK, Alive, Viewed, Looks, LookComing, Busy, NoResult, mail,
         window, request, file, Go
<1>7. ~Timer /\ ResultComing => ResultComing'
  BY DEF TypeOK, Mail!TypeOK, Data, Alive, Viewed, Results, ResultComing, Busy,
         Asked, mail, window, request, file, Go
<1> QED
  BY <1>1, <1>2, <1>3, <1>4, <1>5, <1>6, <1>7 DEF Kept

LEMMA DeleteKeeps ==
    ASSUME IInv, NEW t \in Thread, Delete(t)
    PROVE  Kept
<1> USE NoneAssumption DEF Delete, IInv
<1>1. TypeOK'
  BY BoundAssumption, NoResultType
     DEF TypeOK, Mail!TypeOK, Data, Window, Flag, mail, window, Go
<1>2. Alive'
  BY DEF TypeOK, Mail!TypeOK, Alive, Viewed, NoResult, mail, window, Go
<1>3. Viewed'
  BY DEF TypeOK, Mail!TypeOK, Alive, Viewed, mail, window, Go
<1>4. Looks'
  BY DEF TypeOK, Alive, Viewed, Looks, Busy, mail, window, Go
<1>5. Results'
  BY DEF TypeOK, Alive, Viewed, Results, Result, NoResult, mail, window, Go
<1>6. LookComing'
  BY DEF TypeOK, Alive, Viewed, Looks, LookComing, Busy, NoResult, mail,
         window, Go
<1>7. ~Timer /\ ResultComing => ResultComing'
  BY DEF TypeOK, Mail!TypeOK, Data, Alive, Viewed, Results, ResultComing, Busy,
         Asked, mail, window, Go
<1> QED
  BY <1>1, <1>2, <1>3, <1>4, <1>5, <1>6, <1>7 DEF Kept

LEMMA ThreadEndKeeps ==
    ASSUME IInv, NEW t \in Thread, ThreadEnd(t)
    PROVE  Kept
<1> USE NoneAssumption DEF ThreadEnd, IInv
<1>1. TypeOK'
  BY BoundAssumption, NoResultType
     DEF TypeOK, Mail!TypeOK, Data, Window, Flag, window, request, file, Go,
         Mail!Finish
<1>2. Alive'
  BY DEF TypeOK, Mail!TypeOK, Alive, Viewed, NoResult, window, request, file,
         Go, Mail!Finish
<1>3. Viewed'
  BY DEF TypeOK, Mail!TypeOK, Alive, Viewed, window, request, file, Go,
         Mail!Finish
<1>4. Looks'
  BY DEF TypeOK, Alive, Viewed, Looks, Busy, window, request, file, Go,
         Mail!Finish
<1>5. Results'
  BY DEF TypeOK, Alive, Viewed, Results, Result, NoResult, window, request,
         file, Go, Mail!Finish
<1>6. LookComing'
  BY DEF TypeOK, Alive, Viewed, Looks, LookComing, Busy, NoResult, window,
         request, file, Go, Mail!Finish
<1>7. ~Timer /\ ResultComing => ResultComing'
  BY DEF TypeOK, Mail!TypeOK, Data, Alive, Viewed, Results, ResultComing, Busy,
         Asked, window, request, file, Go, Mail!Finish
<1> QED
  BY <1>1, <1>2, <1>3, <1>4, <1>5, <1>6, <1>7 DEF Kept

LEMMA FileChangesKeeps ==
    ASSUME IInv, FileChanges
    PROVE  Kept
<1> USE NoneAssumption DEF FileChanges, IInv
<1>1. TypeOK'
  BY BoundAssumption, NoResultType
     DEF TypeOK, Mail!TypeOK, Data, Window, Flag, mail, window, request
<1>2. Alive'
  BY DEF TypeOK, Mail!TypeOK, Alive, Viewed, NoResult, mail, window, request
<1>3. Viewed'
  BY DEF TypeOK, Mail!TypeOK, Alive, Viewed, mail, window, request
<1>4. Looks'
  BY DEF TypeOK, Alive, Viewed, Looks, Busy, mail, window, request
<1>5. Results'
  BY DEF TypeOK, Alive, Viewed, Results, Result, NoResult, mail, window,
         request
<1>6. LookComing'
  BY DEF TypeOK, Alive, Viewed, Looks, LookComing, Busy, NoResult, mail,
         window, request
<1>7. ~Timer /\ ResultComing => ResultComing'
  BY DEF TypeOK, Mail!TypeOK, Data, Alive, Viewed, Results, ResultComing, Busy,
         Asked, mail, window, request
<1> QED
  BY <1>1, <1>2, <1>3, <1>4, <1>5, <1>6, <1>7 DEF Kept

LEMMA StutterKeeps ==
    ASSUME IInv, UNCHANGED vars
    PROVE  Kept
<1>1. TypeOK' /\ Alive' /\ Viewed'
  BY DEF IInv, vars, TypeOK, Mail!TypeOK, Alive, Viewed
<1>2. Looks' /\ Results' /\ LookComing'
  BY DEF IInv, vars, Looks, Results, LookComing, Busy
<1>3. ResultComing => ResultComing'
  BY DEF vars, ResultComing, Busy, Asked
<1> QED
  BY <1>1, <1>2, <1>3 DEF Kept, IInv

LEMMA NextKeeps ==
    ASSUME IInv, [Next]_vars
    PROVE  Kept
<1>1. CASE UNCHANGED vars
  BY <1>1, StutterKeeps
<1>2. ASSUME NEW t \in Thread, ViewerThread(t) PROVE Kept
  BY <1>2, BeginWaitKeeps, TakeJobKeeps, UnchangedKeeps, ChangedKeeps,
     BeginLoadKeeps, LoadKeeps, PostKeeps, FailSignalKeeps, EndLoadKeeps,
     DeleteKeeps, ThreadEndKeeps
     DEF ViewerThread
<1>3. ASSUME NEW t \in Thread, WakeUp(t) \/ Fail(t) PROVE Kept
  BY <1>3, WakeUpKeeps, FailKeeps
<1>4. ASSUME NEW t \in Thread, Events(t) PROVE Kept
  BY <1>4, ThreadSignalKeeps, ThreadStoppedKeeps, StoppedReturnKeeps DEF Events
<1>5. ASSUME NEW t \in Thread, NEW l \in Look, SetFile(t, l) PROVE Kept
  BY <1>5, SetFileKeeps
<1>6. ASSUME NEW l \in Look, FirstSize(l) \/ ChangeLook(l) \/ CalcSize(l)
      PROVE  Kept
  BY <1>6, FirstSizeKeeps, ChangeLookKeeps, CalcSizeKeeps
<1>7. ASSUME NEW e \in Place, SetEvent(e) PROVE Kept
  BY <1>7, SetEventKeeps
<1>8. CASE ClearFile \/ EventTimer \/ FileChanges
  BY <1>8, ClearFileKeeps, EventTimerKeeps, FileChangesKeeps
<1> QED
  BY <1>1, <1>2, <1>3, <1>4, <1>5, <1>6, <1>7, <1>8 DEF Next

LEMMA Inductive == Spec => []IInv
<1>1. Init => IInv
  BY InitIInv
<1>2. IInv /\ [Next]_vars => IInv'
  BY NextKeeps DEF Kept
<1> QED
  BY <1>1, <1>2, PTL DEF Spec

-----------------------------------------------------------------------------
(* The theorems.                                                           *)

\* The types: a result is of a file, a place and a state of the disk that
\* exist, and a message is a signal or the end of a thread.
THEOREM TypeCorrect == Spec => []TypeOK
<1>1. IInv => TypeOK
  BY DEF IInv
<1> QED
  BY <1>1, Inductive, PTL

\* The window never uses an object that its thread has deleted, nor does a
\* thread, though neither waits for the other (2459-2470, 1674-1688).
THEOREM DataIsAlive == Spec => []DataAlive
<1>1. IInv => DataAlive
  BY DEF IInv, TypeOK, Alive, Viewed, DataAlive
<1> QED
  BY <1>1, Inductive, PTL

\* What is shown is of the file that was opened last, however late the
\* signals of the others come (1846-1876, 2459-2470).
THEOREM ShowsOwnFile == Spec => []ShownOfView
<1>1. IInv => ShownOfView
  BY DEF IInv, Results, ShownOfView
<1> QED
  BY <1>1, Inductive, PTL

\* A thread that rests has worked off the last change of the mode and of the
\* size, whatever it was doing when it was asked (922-972).
THEOREM KeepsRequests == Spec => []RequestsKept
<1>1. IInv => RequestsKept
  <2> SUFFICES ASSUME IInv, NEW t \in Thread, Resting(t)
               PROVE  ret[t].of = t /\ ret[t].look = inLook[t]
    BY DEF RequestsKept
  <2>1. ret[t].look = inLook[t]
    BY DEF IInv, LookComing, Resting, Busy, Asked
  <2>2. inLook[t] \in Look
    BY NoneAssumption DEF IInv, Looks, Viewed, Resting, TypeOK
  <2> QED
    BY <2>1, <2>2, NoneAssumption DEF IInv, Results
<1> QED
  BY <1>1, Inductive, PTL

\* Between two ticks of the timer a result that is held back because there is
\* a request that has not been taken is shown in the end (1866-1870): with the
\* timer it may not be.
THEOREM ShowsPostponed == ASSUME ~Timer PROVE Spec => []PostponedIsShown
<1>1. Init => IInv /\ ResultComing
  BY InitIInv
<1>2. (IInv /\ ResultComing) /\ [Next]_vars => (IInv /\ ResultComing)'
  BY NextKeeps DEF Kept
<1>3. IInv /\ ResultComing => PostponedIsShown
  BY NoneAssumption
     DEF IInv, ResultComing, PostponedIsShown, Resting, Busy, Asked
<1> QED
  BY <1>1, <1>2, <1>3, PTL DEF Spec
-----------------------------------------------------------------------------
(***************************************************************************)
(* ViewerText.  What a loop makes is a function of how often it is run     *)
(* (Repeats); a set that every step stays in holds it.  A place in a line  *)
(* has a column that only grows (Widths), reading forwards stops at the    *)
(* end of the line (ReadLine), going back never passes its start           *)
(* (BackToStart) and, where the line fits the buffer, reaches it           *)
(* (PrevLineStarts).  So each key ends in Places, and what is shown is     *)
(* Placed.                                                                 *)
(***************************************************************************)
(* Repetition, and induction up to a number.                               *)

LEMMA UpTo ==
    ASSUME NEW n \in Nat, NEW K, 0 \in K, \A k \in 1..n : k - 1 \in K => k \in K
    PROVE  \A k \in 0..n : k \in K
<1> DEFINE wrong == {k \in 0..n : k \notin K}
<1> SUFFICES ASSUME wrong # {}
             PROVE  FALSE
  OBVIOUS
<1> DEFINE R == OpToRel(<, Nat)
<1>1. IsWellFoundedOn(R, Nat)
  BY NatLessThanWellFounded
<1>2. \A k, m \in Nat : k < m <=> <<k, m>> \in R
  BY DEF OpToRel
<1>3. wrong \subseteq Nat
  OBVIOUS
<1> HIDE DEF R
<1>4. PICK k \in wrong : \A m \in wrong : ~(<<m, k>> \in R)
  BY <1>1, <1>3, WFMin
<1>5. k \in 0..n /\ k \notin K /\ k # 0
  BY <1>4
<1>6. k - 1 \in 0..n /\ k \in 1..n /\ k - 1 < k /\ k - 1 \in Nat /\ k \in Nat
  BY <1>5
<1>7. k - 1 \notin wrong
  BY <1>2, <1>4, <1>6
<1> QED
  BY <1>5, <1>6, <1>7

Repeats(f, n, base, step) == f[0] = base /\ \A k \in 1..n : f[k] = step[f[k - 1]]

\* What a step that stays in a set makes, repeated up to n times.
LEMMA Repeated ==
    ASSUME NEW S, NEW n \in Nat, NEW base \in S, NEW step \in [S -> S]
    PROVE  \E f \in [0..n -> S] : Repeats(f, n, base, step)
<1> DEFINE K == {m \in 0..n : \E f \in [0..m -> S] : Repeats(f, m, base, step)}
<1>1. 0 \in K
  <2> DEFINE g == [k \in 0..0 |-> base]
  <2>1. g \in [0..0 -> S] /\ g[0] = base /\ 1..0 = {}
    OBVIOUS
  <2> HIDE DEF g
  <2> QED  BY <2>1 DEF Repeats
<1>2. ASSUME NEW m \in 1..n, m - 1 \in K
      PROVE  m \in K
  <2>1. PICK f \in [0..m - 1 -> S] : Repeats(f, m - 1, base, step)
    BY <1>2
  <2> DEFINE g == [k \in 0..m |-> IF k = m THEN step[f[m - 1]] ELSE f[k]]
  <2>2. m - 1 \in 0..m - 1 /\ f[m - 1] \in S /\ step[f[m - 1]] \in S /\ m # 0 /\ 0 \in 0..m - 1
    BY <2>1
  <2>3. g \in [0..m -> S]
    <3>1. ASSUME NEW k \in 0..m, k # m
          PROVE  f[k] \in S
      <4>1. k \in 0..m - 1
        BY <3>1
      <4> QED  BY <2>1, <4>1
    <3> QED  BY <2>2, <3>1
  <2>4. g[m] = step[f[m - 1]] /\ \A k \in 0..m - 1 : g[k] = f[k]
    BY <2>2
  <2> HIDE DEF g
  <2>5. ASSUME NEW k \in 1..m
        PROVE  g[k] = step[g[k - 1]]
    <3>1. k - 1 \in 0..m - 1
      OBVIOUS
    <3>2. CASE k = m
      BY <2>4, <3>1, <3>2
    <3>3. CASE k # m
      <4>1. k \in 1..m - 1 /\ k \in 0..m - 1
        BY <3>3
      <4> QED  BY <2>1, <2>4, <3>1, <4>1 DEF Repeats
    <3> QED  BY <3>2, <3>3
  <2>6. g[0] = base
    BY <2>1, <2>2, <2>4 DEF Repeats
  <2>7. Repeats(g, m, base, step)
    BY <2>5, <2>6 DEF Repeats
  <2> QED  BY <2>3, <2>7
<1> HIDE DEF K
<1>3. \A m \in 0..n : m \in K
  BY <1>1, <1>2, UpTo
<1>4. n \in K
  BY <1>3
<1> QED
  BY <1>4 DEF K

\* What stays in a set is a function to it.
LEMMA Grown ==
    ASSUME NEW S, NEW n \in Nat, NEW h, h = [k \in 0..n |-> h[k]],
           h[0] \in S, \A k \in 1..n : h[k - 1] \in S => h[k] \in S
    PROVE  h \in [0..n -> S]
<1> DEFINE K == {k \in 0..n : h[k] \in S}
<1>1. 0 \in K
  OBVIOUS
<1>2. ASSUME NEW k \in 1..n, k - 1 \in K
      PROVE  k \in K
  <2>1. h[k - 1] \in S /\ k \in 0..n
    BY <1>2
  <2> QED  BY <2>1
<1> HIDE DEF K
<1>3. \A k \in 0..n : k \in K
  BY <1>1, <1>2, UpTo
<1>4. \A k \in 0..n : h[k] \in S
  BY <1>3 DEF K
<1> QED
  BY <1>4

\* The loop of ReadString.
Reads(text, offset, base, n) ==
    CHOOSE g : g = [k \in 0..n |-> IF k = 0 THEN base ELSE ReadStep(text, offset, g[k - 1])]

ReadsStay(text, offset, S, base, n) ==
    LET h == Reads(text, offset, base, n)
    IN  h \in [0..n -> S] /\ h[0] = base /\ \A k \in 1..n : h[k] = ReadStep(text, offset, h[k - 1])

LEMMA ReadRepeated ==
    ASSUME NEW text, NEW offset, NEW S, NEW n \in Nat, NEW base \in S, \A s \in S : ReadStep(text, offset, s) \in S
    PROVE  ReadsStay(text, offset, S, base, n)
<1> DEFINE G(g) == [k \in 0..n |-> IF k = 0 THEN base ELSE ReadStep(text, offset, g[k - 1])]
           h == Reads(text, offset, base, n)
           step == [s \in S |-> ReadStep(text, offset, s)]
<1>0. step \in [S -> S]
  OBVIOUS
<1>1. \A s \in S : step[s] = ReadStep(text, offset, s)
  OBVIOUS
<1> HIDE DEF step
<1> PICK f \in [0..n -> S] : Repeats(f, n, base, step)
  BY <1>0, Repeated
<1>2. f \in [0..n -> S] /\ f[0] = base /\ \A k \in 1..n : f[k] = step[f[k - 1]]
  BY DEF Repeats
<1>3. f = G(f)
  <2>1. ASSUME NEW k \in 0..n
        PROVE  f[k] = IF k = 0 THEN base ELSE ReadStep(text, offset, f[k - 1])
    <3>1. CASE k = 0
      BY <1>2, <3>1
    <3>2. CASE k # 0
      <4>1. k \in 1..n /\ k - 1 \in 0..n
        BY <3>2
      <4>2. f[k - 1] \in S /\ f[k] = step[f[k - 1]]
        BY <1>2, <4>1
      <4> QED  BY <1>1, <3>2, <4>2
    <3> QED  BY <3>1, <3>2
  <2>2. f = [k \in 0..n |-> f[k]]
    BY <1>2
  <2> QED  BY <2>1, <2>2
<1>4. h = G(h)
  BY <1>3 DEF Reads
<1> HIDE DEF h
<1>5. DOMAIN h = 0..n /\ h[0] = base /\ \A k \in 1..n : h[k] = ReadStep(text, offset, h[k - 1])
  <2>1. DOMAIN h = 0..n
    BY <1>4
  <2>2. h[0] = base
    BY <1>4
  <2>3. ASSUME NEW k \in 1..n
        PROVE  h[k] = ReadStep(text, offset, h[k - 1])
    <3>1. k \in 0..n /\ k # 0
      OBVIOUS
    <3> QED  BY <1>4, <3>1
  <2> QED  BY <2>1, <2>2, <2>3
<1>6. h = [k \in 0..n |-> h[k]]
  BY <1>4
<1>7. \A k \in 1..n : h[k - 1] \in S => h[k] \in S
  BY <1>5
<1>8. h \in [0..n -> S]
  BY <1>5, <1>6, <1>7, Grown
<1> QED
  BY <1>5, <1>8 DEF h, ReadsStay

\* The loop of GetPrevLine.
Prevs(text, base, n) ==
    CHOOSE g : g = [k \in 0..n |-> IF k = 0 THEN base ELSE PrevStep(text, g[k - 1])]

PrevsStay(text, S, base, n) ==
    LET h == Prevs(text, base, n)
    IN  h \in [0..n -> S] /\ h[0] = base /\ \A k \in 1..n : h[k] = PrevStep(text, h[k - 1])

LEMMA PrevRepeated ==
    ASSUME NEW text, NEW S, NEW n \in Nat, NEW base \in S, \A s \in S : PrevStep(text, s) \in S
    PROVE  PrevsStay(text, S, base, n)
<1> DEFINE G(g) == [k \in 0..n |-> IF k = 0 THEN base ELSE PrevStep(text, g[k - 1])]
           h == Prevs(text, base, n)
           step == [s \in S |-> PrevStep(text, s)]
<1>0. step \in [S -> S]
  OBVIOUS
<1>1. \A s \in S : step[s] = PrevStep(text, s)
  OBVIOUS
<1> HIDE DEF step
<1> PICK f \in [0..n -> S] : Repeats(f, n, base, step)
  BY <1>0, Repeated
<1>2. f \in [0..n -> S] /\ f[0] = base /\ \A k \in 1..n : f[k] = step[f[k - 1]]
  BY DEF Repeats
<1>3. f = G(f)
  <2>1. ASSUME NEW k \in 0..n
        PROVE  f[k] = IF k = 0 THEN base ELSE PrevStep(text, f[k - 1])
    <3>1. CASE k = 0
      BY <1>2, <3>1
    <3>2. CASE k # 0
      <4>1. k \in 1..n /\ k - 1 \in 0..n
        BY <3>2
      <4>2. f[k - 1] \in S /\ f[k] = step[f[k - 1]]
        BY <1>2, <4>1
      <4> QED  BY <1>1, <3>2, <4>2
    <3> QED  BY <3>1, <3>2
  <2>2. f = [k \in 0..n |-> f[k]]
    BY <1>2
  <2> QED  BY <2>1, <2>2
<1>4. h = G(h)
  BY <1>3 DEF Prevs
<1> HIDE DEF h
<1>5. DOMAIN h = 0..n /\ h[0] = base /\ \A k \in 1..n : h[k] = PrevStep(text, h[k - 1])
  <2>1. DOMAIN h = 0..n
    BY <1>4
  <2>2. h[0] = base
    BY <1>4
  <2>3. ASSUME NEW k \in 1..n
        PROVE  h[k] = PrevStep(text, h[k - 1])
    <3>1. k \in 0..n /\ k # 0
      OBVIOUS
    <3> QED  BY <1>4, <3>1
  <2> QED  BY <2>1, <2>2, <2>3
<1>6. h = [k \in 0..n |-> h[k]]
  BY <1>4
<1>7. \A k \in 1..n : h[k - 1] \in S => h[k] \in S
  BY <1>5
<1>8. h \in [0..n -> S]
  BY <1>5, <1>6, <1>7, Grown
<1> QED
  BY <1>5, <1>8 DEF h, PrevsStay

\* Lines back and lines down.
Backs(text, base, n) ==
    CHOOSE g : g = [k \in 0..n |-> IF k = 0 THEN base ELSE PrevLine(text, g[k - 1])]

BacksStay(text, S, base, n) ==
    LET h == Backs(text, base, n)
    IN  h \in [0..n -> S] /\ h[0] = base /\ \A k \in 1..n : h[k] = PrevLine(text, h[k - 1])

LEMMA BackRepeated ==
    ASSUME NEW text, NEW S, NEW n \in Nat, NEW base \in S, \A s \in S : PrevLine(text, s) \in S
    PROVE  BacksStay(text, S, base, n)
<1> DEFINE G(g) == [k \in 0..n |-> IF k = 0 THEN base ELSE PrevLine(text, g[k - 1])]
           h == Backs(text, base, n)
           step == [s \in S |-> PrevLine(text, s)]
<1>0. step \in [S -> S]
  OBVIOUS
<1>1. \A s \in S : step[s] = PrevLine(text, s)
  OBVIOUS
<1> HIDE DEF step
<1> PICK f \in [0..n -> S] : Repeats(f, n, base, step)
  BY <1>0, Repeated
<1>2. f \in [0..n -> S] /\ f[0] = base /\ \A k \in 1..n : f[k] = step[f[k - 1]]
  BY DEF Repeats
<1>3. f = G(f)
  <2>1. ASSUME NEW k \in 0..n
        PROVE  f[k] = IF k = 0 THEN base ELSE PrevLine(text, f[k - 1])
    <3>1. CASE k = 0
      BY <1>2, <3>1
    <3>2. CASE k # 0
      <4>1. k \in 1..n /\ k - 1 \in 0..n
        BY <3>2
      <4>2. f[k - 1] \in S /\ f[k] = step[f[k - 1]]
        BY <1>2, <4>1
      <4> QED  BY <1>1, <3>2, <4>2
    <3> QED  BY <3>1, <3>2
  <2>2. f = [k \in 0..n |-> f[k]]
    BY <1>2
  <2> QED  BY <2>1, <2>2
<1>4. h = G(h)
  BY <1>3 DEF Backs
<1> HIDE DEF h
<1>5. DOMAIN h = 0..n /\ h[0] = base /\ \A k \in 1..n : h[k] = PrevLine(text, h[k - 1])
  <2>1. DOMAIN h = 0..n
    BY <1>4
  <2>2. h[0] = base
    BY <1>4
  <2>3. ASSUME NEW k \in 1..n
        PROVE  h[k] = PrevLine(text, h[k - 1])
    <3>1. k \in 0..n /\ k # 0
      OBVIOUS
    <3> QED  BY <1>4, <3>1
  <2> QED  BY <2>1, <2>2, <2>3
<1>6. h = [k \in 0..n |-> h[k]]
  BY <1>4
<1>7. \A k \in 1..n : h[k - 1] \in S => h[k] \in S
  BY <1>5
<1>8. h \in [0..n -> S]
  BY <1>5, <1>6, <1>7, Grown
<1> QED
  BY <1>5, <1>8 DEF h, BacksStay

Downs(base, n) ==
    CHOOSE g : g = [k \in 0..n |-> IF k = 0 THEN base ELSE LineDown(g[k - 1])]

DownsStay(S, base, n) ==
    LET h == Downs(base, n)
    IN  h \in [0..n -> S] /\ h[0] = base /\ \A k \in 1..n : h[k] = LineDown(h[k - 1])

LEMMA DownRepeated ==
    ASSUME NEW S, NEW n \in Nat, NEW base \in S, \A s \in S : LineDown(s) \in S
    PROVE  DownsStay(S, base, n)
<1> DEFINE G(g) == [k \in 0..n |-> IF k = 0 THEN base ELSE LineDown(g[k - 1])]
           h == Downs(base, n)
           step == [s \in S |-> LineDown(s)]
<1>0. step \in [S -> S]
  OBVIOUS
<1>1. \A s \in S : step[s] = LineDown(s)
  OBVIOUS
<1> HIDE DEF step
<1> PICK f \in [0..n -> S] : Repeats(f, n, base, step)
  BY <1>0, Repeated
<1>2. f \in [0..n -> S] /\ f[0] = base /\ \A k \in 1..n : f[k] = step[f[k - 1]]
  BY DEF Repeats
<1>3. f = G(f)
  <2>1. ASSUME NEW k \in 0..n
        PROVE  f[k] = IF k = 0 THEN base ELSE LineDown(f[k - 1])
    <3>1. CASE k = 0
      BY <1>2, <3>1
    <3>2. CASE k # 0
      <4>1. k \in 1..n /\ k - 1 \in 0..n
        BY <3>2
      <4>2. f[k - 1] \in S /\ f[k] = step[f[k - 1]]
        BY <1>2, <4>1
      <4> QED  BY <1>1, <3>2, <4>2
    <3> QED  BY <3>1, <3>2
  <2>2. f = [k \in 0..n |-> f[k]]
    BY <1>2
  <2> QED  BY <2>1, <2>2
<1>4. h = G(h)
  BY <1>3 DEF Downs
<1> HIDE DEF h
<1>5. DOMAIN h = 0..n /\ h[0] = base /\ \A k \in 1..n : h[k] = LineDown(h[k - 1])
  <2>1. DOMAIN h = 0..n
    BY <1>4
  <2>2. h[0] = base
    BY <1>4
  <2>3. ASSUME NEW k \in 1..n
        PROVE  h[k] = LineDown(h[k - 1])
    <3>1. k \in 0..n /\ k # 0
      OBVIOUS
    <3> QED  BY <1>4, <3>1
  <2> QED  BY <2>1, <2>2, <2>3
<1>6. h = [k \in 0..n |-> h[k]]
  BY <1>4
<1>7. \A k \in 1..n : h[k - 1] \in S => h[k] \in S
  BY <1>5
<1>8. h \in [0..n -> S]
  BY <1>5, <1>6, <1>7, Grown
<1> QED
  BY <1>5, <1>8 DEF h, DownsStay

\* The loops over the rows of wrapped lines.
RowsUps(v, base, n) ==
    CHOOSE g : g = [k \in 0..n |-> IF k = 0 THEN base ELSE RowsUp(v, g[k - 1])]

RowsUpsStay(v, S, base, n) ==
    LET h == RowsUps(v, base, n)
    IN  h \in [0..n -> S] /\ h[0] = base /\ \A k \in 1..n : h[k] = RowsUp(v, h[k - 1])

LEMMA RowsUpRepeated ==
    ASSUME NEW v, NEW S, NEW n \in Nat, NEW base \in S, \A s \in S : RowsUp(v, s) \in S
    PROVE  RowsUpsStay(v, S, base, n)
<1> DEFINE G(g) == [k \in 0..n |-> IF k = 0 THEN base ELSE RowsUp(v, g[k - 1])]
           h == RowsUps(v, base, n)
           step == [s \in S |-> RowsUp(v, s)]
<1>0. step \in [S -> S]
  OBVIOUS
<1>1. \A s \in S : step[s] = RowsUp(v, s)
  OBVIOUS
<1> HIDE DEF step
<1> PICK f \in [0..n -> S] : Repeats(f, n, base, step)
  BY <1>0, Repeated
<1>2. f \in [0..n -> S] /\ f[0] = base /\ \A k \in 1..n : f[k] = step[f[k - 1]]
  BY DEF Repeats
<1>3. f = G(f)
  <2>1. ASSUME NEW k \in 0..n
        PROVE  f[k] = IF k = 0 THEN base ELSE RowsUp(v, f[k - 1])
    <3>1. CASE k = 0
      BY <1>2, <3>1
    <3>2. CASE k # 0
      <4>1. k \in 1..n /\ k - 1 \in 0..n
        BY <3>2
      <4>2. f[k - 1] \in S /\ f[k] = step[f[k - 1]]
        BY <1>2, <4>1
      <4> QED  BY <1>1, <3>2, <4>2
    <3> QED  BY <3>1, <3>2
  <2>2. f = [k \in 0..n |-> f[k]]
    BY <1>2
  <2> QED  BY <2>1, <2>2
<1>4. h = G(h)
  BY <1>3 DEF RowsUps
<1> HIDE DEF h
<1>5. DOMAIN h = 0..n /\ h[0] = base /\ \A k \in 1..n : h[k] = RowsUp(v, h[k - 1])
  <2>1. DOMAIN h = 0..n
    BY <1>4
  <2>2. h[0] = base
    BY <1>4
  <2>3. ASSUME NEW k \in 1..n
        PROVE  h[k] = RowsUp(v, h[k - 1])
    <3>1. k \in 0..n /\ k # 0
      OBVIOUS
    <3> QED  BY <1>4, <3>1
  <2> QED  BY <2>1, <2>2, <2>3
<1>6. h = [k \in 0..n |-> h[k]]
  BY <1>4
<1>7. \A k \in 1..n : h[k - 1] \in S => h[k] \in S
  BY <1>5
<1>8. h \in [0..n -> S]
  BY <1>5, <1>6, <1>7, Grown
<1> QED
  BY <1>5, <1>8 DEF h, RowsUpsStay

RowsDowns(v, base, n) ==
    CHOOSE g : g = [k \in 0..n |-> IF k = 0 THEN base ELSE RowsDown(v, g[k - 1])]

RowsDownsStay(v, S, base, n) ==
    LET h == RowsDowns(v, base, n)
    IN  h \in [0..n -> S] /\ h[0] = base /\ \A k \in 1..n : h[k] = RowsDown(v, h[k - 1])

LEMMA RowsDownRepeated ==
    ASSUME NEW v, NEW S, NEW n \in Nat, NEW base \in S, \A s \in S : RowsDown(v, s) \in S
    PROVE  RowsDownsStay(v, S, base, n)
<1> DEFINE G(g) == [k \in 0..n |-> IF k = 0 THEN base ELSE RowsDown(v, g[k - 1])]
           h == RowsDowns(v, base, n)
           step == [s \in S |-> RowsDown(v, s)]
<1>0. step \in [S -> S]
  OBVIOUS
<1>1. \A s \in S : step[s] = RowsDown(v, s)
  OBVIOUS
<1> HIDE DEF step
<1> PICK f \in [0..n -> S] : Repeats(f, n, base, step)
  BY <1>0, Repeated
<1>2. f \in [0..n -> S] /\ f[0] = base /\ \A k \in 1..n : f[k] = step[f[k - 1]]
  BY DEF Repeats
<1>3. f = G(f)
  <2>1. ASSUME NEW k \in 0..n
        PROVE  f[k] = IF k = 0 THEN base ELSE RowsDown(v, f[k - 1])
    <3>1. CASE k = 0
      BY <1>2, <3>1
    <3>2. CASE k # 0
      <4>1. k \in 1..n /\ k - 1 \in 0..n
        BY <3>2
      <4>2. f[k - 1] \in S /\ f[k] = step[f[k - 1]]
        BY <1>2, <4>1
      <4> QED  BY <1>1, <3>2, <4>2
    <3> QED  BY <3>1, <3>2
  <2>2. f = [k \in 0..n |-> f[k]]
    BY <1>2
  <2> QED  BY <2>1, <2>2
<1>4. h = G(h)
  BY <1>3 DEF RowsDowns
<1> HIDE DEF h
<1>5. DOMAIN h = 0..n /\ h[0] = base /\ \A k \in 1..n : h[k] = RowsDown(v, h[k - 1])
  <2>1. DOMAIN h = 0..n
    BY <1>4
  <2>2. h[0] = base
    BY <1>4
  <2>3. ASSUME NEW k \in 1..n
        PROVE  h[k] = RowsDown(v, h[k - 1])
    <3>1. k \in 0..n /\ k # 0
      OBVIOUS
    <3> QED  BY <1>4, <3>1
  <2> QED  BY <2>1, <2>2, <2>3
<1>6. h = [k \in 0..n |-> h[k]]
  BY <1>4
<1>7. \A k \in 1..n : h[k - 1] \in S => h[k] \in S
  BY <1>5
<1>8. h \in [0..n -> S]
  BY <1>5, <1>6, <1>7, Grown
<1> QED
  BY <1>5, <1>8 DEF h, RowsDownsStay

\* The loop over the lines that are shown.
Longers(v, base, n) ==
    CHOOSE g : g = [k \in 0..n |-> IF k = 0 THEN base ELSE LongerLine(v, g[k - 1])]

LongersStay(v, S, base, n) ==
    LET h == Longers(v, base, n)
    IN  h \in [0..n -> S] /\ h[0] = base /\ \A k \in 1..n : h[k] = LongerLine(v, h[k - 1])

LEMMA LongestRepeated ==
    ASSUME NEW v, NEW S, NEW n \in Nat, NEW base \in S, \A s \in S : LongerLine(v, s) \in S
    PROVE  LongersStay(v, S, base, n)
<1> DEFINE G(g) == [k \in 0..n |-> IF k = 0 THEN base ELSE LongerLine(v, g[k - 1])]
           h == Longers(v, base, n)
           step == [s \in S |-> LongerLine(v, s)]
<1>0. step \in [S -> S]
  OBVIOUS
<1>1. \A s \in S : step[s] = LongerLine(v, s)
  OBVIOUS
<1> HIDE DEF step
<1> PICK f \in [0..n -> S] : Repeats(f, n, base, step)
  BY <1>0, Repeated
<1>2. f \in [0..n -> S] /\ f[0] = base /\ \A k \in 1..n : f[k] = step[f[k - 1]]
  BY DEF Repeats
<1>3. f = G(f)
  <2>1. ASSUME NEW k \in 0..n
        PROVE  f[k] = IF k = 0 THEN base ELSE LongerLine(v, f[k - 1])
    <3>1. CASE k = 0
      BY <1>2, <3>1
    <3>2. CASE k # 0
      <4>1. k \in 1..n /\ k - 1 \in 0..n
        BY <3>2
      <4>2. f[k - 1] \in S /\ f[k] = step[f[k - 1]]
        BY <1>2, <4>1
      <4> QED  BY <1>1, <3>2, <4>2
    <3> QED  BY <3>1, <3>2
  <2>2. f = [k \in 0..n |-> f[k]]
    BY <1>2
  <2> QED  BY <2>1, <2>2
<1>4. h = G(h)
  BY <1>3 DEF Longers
<1> HIDE DEF h
<1>5. DOMAIN h = 0..n /\ h[0] = base /\ \A k \in 1..n : h[k] = LongerLine(v, h[k - 1])
  <2>1. DOMAIN h = 0..n
    BY <1>4
  <2>2. h[0] = base
    BY <1>4
  <2>3. ASSUME NEW k \in 1..n
        PROVE  h[k] = LongerLine(v, h[k - 1])
    <3>1. k \in 0..n /\ k # 0
      OBVIOUS
    <3> QED  BY <1>4, <3>1
  <2> QED  BY <2>1, <2>2, <2>3
<1>6. h = [k \in 0..n |-> h[k]]
  BY <1>4
<1>7. \A k \in 1..n : h[k - 1] \in S => h[k] \in S
  BY <1>5
<1>8. h \in [0..n -> S]
  BY <1>5, <1>6, <1>7, Grown
<1> QED
  BY <1>5, <1>8 DEF h, LongersStay

-----------------------------------------------------------------------------
(* The columns of a line.                                                  *)

\* The tab stops.
Stops == {VtTab * q : q \in Nat}

LEMMA StopFacts ==
    /\ 0 \in Stops /\ Stops \subseteq Nat
    /\ \A x \in Stops : x + VtTab \in Stops /\ (x > 0 => x - VtTab \in Stops)
    /\ \A x, y \in Stops : x - VtTab < y /\ y < x + VtTab => x = y
<1>1. VtTab \in Nat /\ VtTab > 0
  BY ViewedAssumption
<1>2. \A p, q \in Nat : p < q => VtTab * p + VtTab <= VtTab * q
  <2>1. ASSUME NEW p \in Nat, NEW q \in Nat, p < q
        PROVE  VtTab * p + VtTab <= VtTab * q
    <3>1. PICK d \in Nat : q = p + 1 + d
      <4>1. q - p - 1 \in Nat /\ q = p + 1 + (q - p - 1)
        BY <2>1
      <4> QED  BY <4>1
    <3>2. VtTab * q = VtTab * p + VtTab + VtTab * d /\ VtTab * d \in Nat /\ VtTab * p \in Nat
      BY <1>1, <3>1
    <3> QED  BY <1>1, <3>2
  <2> QED  BY <2>1
<1>3. 0 \in Stops
  <2>1. VtTab * 0 = 0
    BY <1>1
  <2> QED  BY <2>1 DEF Stops
<1>4. \A q \in Nat : VtTab * q \in Nat
  BY <1>1
<1>5. ASSUME NEW x \in Stops
      PROVE  x + VtTab \in Stops /\ (x > 0 => x - VtTab \in Stops)
  <2>1. PICK q \in Nat : x = VtTab * q
    BY DEF Stops
  <2>2. x + VtTab = VtTab * (q + 1)
    BY <1>1, <2>1
  <2>3. ASSUME x > 0
        PROVE  x - VtTab \in Stops
    <3>1. q > 0
      BY <1>1, <2>1, <2>3
    <3>2. q - 1 \in Nat /\ x - VtTab = VtTab * (q - 1)
      BY <1>1, <2>1, <3>1
    <3> QED  BY <3>2 DEF Stops
  <2>4. q + 1 \in Nat
    OBVIOUS
  <2> QED  BY <2>2, <2>3, <2>4 DEF Stops
<1>6. ASSUME NEW x \in Stops, NEW y \in Stops, x - VtTab < y, y < x + VtTab
      PROVE  x = y
  <2>1. PICK p \in Nat : x = VtTab * p
    BY DEF Stops
  <2>2. PICK q \in Nat : y = VtTab * q
    BY DEF Stops
  <2>3. x \in Nat /\ y \in Nat
    BY <1>4, <2>1, <2>2
  <2>4. ~(p < q)
    BY <1>1, <1>2, <1>6, <2>1, <2>2, <2>3
  <2>5. ~(q < p)
    BY <1>1, <1>2, <1>6, <2>1, <2>2, <2>3
  <2>6. p = q
    BY <2>4, <2>5
  <2> QED  BY <2>1, <2>2, <2>6
<1> QED
  BY <1>3, <1>4, <1>5, <1>6 DEF Stops

\* A tab leads to the next stop.
LEMMA NextStop ==
    ASSUME NEW w \in Nat
    PROVE  \E x \in Stops : x <= w /\ w < x + VtTab /\ VtTab - (w % VtTab) = x + VtTab - w
<1>1. VtTab \in Nat /\ VtTab > 0
  BY ViewedAssumption
<1>2. PICK q \in Nat, r \in Nat : q = w \div VtTab /\ r = w % VtTab
  BY <1>1
<1>3. w = VtTab * q + r /\ r < VtTab
  BY <1>1, <1>2
<1>4. VtTab * q \in Stops /\ VtTab * q \in Nat
  BY <1>1 DEF Stops
<1> QED
  BY <1>1, <1>2, <1>3, <1>4

Wider(w, ch) == w + (IF ch = TabChar THEN VtTab - (w % VtTab) ELSE 1)

\* The columns before each character from an offset on, as if no line ended.
Widths(text, n) ==
    {F \in [0..Len(text) - n -> Nat] :
        F[0] = 0 /\ \A k \in 1..Len(text) - n : F[k] = Wider(F[k - 1], text[n + k])}

LEMMA WiderIs ==
    ASSUME NEW w \in Nat, NEW ch
    PROVE  Wider(w, ch) \in Nat /\ Wider(w, ch) > w
<1>1. PICK x \in Stops : x <= w /\ w < x + VtTab /\ VtTab - (w % VtTab) = x + VtTab - w
  BY NextStop
<1>2. x \in Nat /\ VtTab \in Nat
  BY StopFacts, ViewedAssumption
<1> QED
  BY <1>1, <1>2 DEF Wider

LEMMA WidthsExist ==
    ASSUME NEW text, Len(text) \in Nat, NEW n \in 0..Len(text)
    PROVE  \E F : F \in Widths(text, n)
<1> DEFINE m == Len(text) - n
           S == (0..m) \X Nat
           step == [s \in S |-> IF s[1] < m THEN <<s[1] + 1, Wider(s[2], text[n + s[1] + 1])>> ELSE s]
           base == <<0, 0>>
<1>1. m \in Nat /\ base \in S
  OBVIOUS
<1>2. step \in [S -> S]
  <2>1. ASSUME NEW s \in S, s[1] < m
        PROVE  <<s[1] + 1, Wider(s[2], text[n + s[1] + 1])>> \in S
    <3>1. s[1] + 1 \in 0..m /\ s[2] \in Nat
      BY <1>1, <2>1
    <3> QED  BY <3>1, WiderIs
  <2> QED  BY <2>1
<1>3. \A s \in S : s[1] < m => step[s] = <<s[1] + 1, Wider(s[2], text[n + s[1] + 1])>>
  OBVIOUS
<1> HIDE DEF step
<1> PICK f \in [0..m -> S] : Repeats(f, m, base, step)
  BY <1>1, <1>2, Repeated
<1>4. f[0] = base /\ \A k \in 1..m : f[k] = step[f[k - 1]]
  BY DEF Repeats
<1> DEFINE K == {k \in 0..m : f[k][1] = k}
<1>5. 0 \in K
  BY <1>1, <1>4
<1>6. ASSUME NEW k \in 1..m, f[k - 1][1] = k - 1
      PROVE  f[k] = <<k, Wider(f[k - 1][2], text[n + k])>>
  <2>1. k - 1 \in 0..m /\ k - 1 < m /\ k - 1 + 1 = k /\ n + (k - 1) + 1 = n + k
    BY <1>1
  <2>2. f[k - 1] \in S
    BY <2>1
  <2> HIDE DEF S
  <2> QED  BY <1>3, <1>4, <1>6, <2>1, <2>2
<1>7. ASSUME NEW k \in 1..m, k - 1 \in K
      PROVE  k \in K
  BY <1>6, <1>7
<1> HIDE DEF K
<1>8. \A k \in 0..m : k \in K
  BY <1>1, <1>5, <1>7, UpTo
<1> DEFINE F == [k \in 0..m |-> f[k][2]]
<1>9. F \in [0..m -> Nat]
  OBVIOUS
<1>10. F[0] = 0
  BY <1>1, <1>4
<1>11. ASSUME NEW k \in 1..m
       PROVE  F[k] = Wider(F[k - 1], text[n + k])
  <2>1. k - 1 \in 0..m /\ k \in 0..m
    BY <1>1
  <2>2. f[k - 1][1] = k - 1
    BY <1>8, <2>1 DEF K
  <2>3. f[k] = <<k, Wider(f[k - 1][2], text[n + k])>>
    BY <1>6, <2>2
  <2> QED  BY <2>1, <2>3
<1> HIDE DEF F
<1> QED
  BY <1>9, <1>10, <1>11 DEF Widths

LEMMA WidthsGrow ==
    ASSUME NEW text, Len(text) \in Nat, NEW n \in 0..Len(text), NEW F \in Widths(text, n),
           NEW j \in 0..Len(text) - n, NEW k \in 0..j
    PROVE  F[k] \in Nat /\ F[j] \in Nat /\ F[k] <= F[j]
<1> DEFINE m == Len(text) - n
           K == {i \in 0..j - k : F[k] <= F[k + i]}
<1>1. F \in [0..m -> Nat] /\ \A i \in 1..m : F[i] = Wider(F[i - 1], text[n + i])
  BY DEF Widths
<1>2. j - k \in Nat /\ k \in 0..m /\ j \in 0..m /\ F[k] \in Nat /\ F[j] \in Nat
  <2>1. m \in Nat /\ j \in 0..m
    OBVIOUS
  <2> HIDE DEF m
  <2>2. j - k \in Nat /\ k \in 0..m
    BY <2>1
  <2> QED  BY <1>1, <2>1, <2>2
<1>3. 0 \in K
  <2>1. 0 \in 0..j - k /\ k + 0 = k
    BY <1>2
  <2>2. F[k] <= F[k + 0]
    BY <1>2, <2>1
  <2> QED  BY <2>1, <2>2
<1>4. ASSUME NEW i \in 1..j - k, i - 1 \in K
      PROVE  i \in K
  <2>1. k + i \in 1..m /\ k + i - 1 \in 0..m /\ k + (i - 1) = k + i - 1
    BY <1>2
  <2>2. F[k + i] = Wider(F[k + i - 1], text[n + (k + i)]) /\ F[k + i - 1] \in Nat
    <3> DEFINE q == k + i
    <3>1. q \in 1..m /\ q - 1 \in 0..m
      BY <2>1
    <3> HIDE DEF q, m
    <3>2. F[q] = Wider(F[q - 1], text[n + q]) /\ F[q - 1] \in Nat
      BY <1>1, <3>1
    <3> QED  BY <3>2 DEF q
  <2>3. F[k + i] > F[k + i - 1] /\ F[k + i] \in Nat
    BY <2>2, WiderIs
  <2>4. F[k] <= F[k + i - 1]
    BY <1>4, <2>1
  <2> QED  BY <1>2, <2>2, <2>3, <2>4
<1> HIDE DEF K
<1>5. \A i \in 0..j - k : i \in K
  BY <1>2, <1>3, <1>4, UpTo
<1>6. j - k \in K /\ k + (j - k) = j
  BY <1>2, <1>5
<1> QED
  BY <1>2, <1>6 DEF K

\* No line ends in the first characters from an offset on.
OneLine(text, n, k) == \A i \in n + 1..n + k : text[i] # NL
\* The line at an offset ends after so many characters.
LineOf(text, n, F, k) ==
    /\ k \in 0..Len(text) - n /\ OneLine(text, n, k) /\ F[k] < VtCols
    /\ n + k < Len(text) => text[n + k + 1] = NL
\* The state of the loop of ReadString.
Reading(text, n, F) ==
    {s \in [bytes : 0..Len(text) - n, len : Int, last : Range(text) \union {NL}, done : BOOLEAN] :
        /\ ~s.done => s.len = F[s.bytes] /\ OneLine(text, n, s.bytes)
        /\ s.done => \/ s.len >= VtCols - 1
                     \/ \E k \in 0..Len(text) - n :
                            LineOf(text, n, F, k) /\ s.bytes = (IF n + k < Len(text) THEN k + 1 ELSE k)}

LEMMA ReadPut ==
    ASSUME NEW B, NEW C, NEW s \in [bytes : B, len : Int, last : C, done : BOOLEAN],
           NEW b \in B, NEW l \in Int, NEW c \in C, NEW d \in BOOLEAN
    PROVE  LET t == [s EXCEPT !.bytes = b, !.len = l, !.last = c, !.done = d]
           IN  /\ t \in [bytes : B, len : Int, last : C, done : BOOLEAN]
               /\ t.bytes = b /\ t.len = l /\ t.last = c /\ t.done = d
  OBVIOUS

LEMMA ReadingIs ==
    ASSUME NEW text, NEW n, NEW F,
           NEW t \in [bytes : 0..Len(text) - n, len : Int, last : Range(text) \union {NL}, done : BOOLEAN],
           ~t.done => t.len = F[t.bytes] /\ OneLine(text, n, t.bytes),
           t.done => \/ t.len >= VtCols - 1
                     \/ \E k \in 0..Len(text) - n :
                            LineOf(text, n, F, k) /\ t.bytes = (IF n + k < Len(text) THEN k + 1 ELSE k)
    PROVE  t \in Reading(text, n, F)
  BY DEF Reading

LEMMA ReadStays ==
    ASSUME NEW text, text \in Seq(Range(text)), NEW n \in Nat, n < Len(text), NEW F \in Widths(text, n),
           NEW s \in Reading(text, n, F)
    PROVE  /\ ReadStep(text, n, s) \in Reading(text, n, F)
           /\ ~ReadStep(text, n, s).done => ReadStep(text, n, s).bytes = s.bytes + 1
<1> DEFINE m == Len(text) - n
           T == [bytes : 0..m, len : Int, last : Range(text) \union {NL}, done : BOOLEAN]
           ch == text[n + s.bytes + 1]
           spaces == VtTab - (s.len % VtTab)
           t == ReadStep(text, n, s)
<1>1. Len(text) \in Nat /\ m \in Nat /\ m > 0 /\ n + m = Len(text) /\ VtCols \in Nat /\ VtTab \in Nat
  BY ViewedAssumption
<1>2. F \in [0..m -> Nat] /\ \A k \in 1..m : F[k] = Wider(F[k - 1], text[n + k])
  BY DEF Widths
<1>3. s \in T
  BY DEF Reading
<1>4. s.bytes \in 0..m /\ s.len \in Int /\ s.last \in Range(text) \union {NL} /\ s.done \in BOOLEAN
  BY <1>3
<1>5. CASE s.done
  <2>1. t = s
    BY <1>3, <1>5 DEF ReadStep, Leave
  <2> QED  BY <1>5, <2>1
<1>6. CASE ~s.done
  <2>1. s.len = F[s.bytes] /\ OneLine(text, n, s.bytes)
    BY <1>6 DEF Reading
  <2>2. CASE s.bytes = m
    <3>1. t = [s EXCEPT !.done = TRUE]
      BY <1>1, <1>4, <2>2 DEF ReadStep, Leave
    <3>2. t \in T /\ t.done /\ t.len = F[m] /\ t.bytes = m
      BY <1>3, <2>1, <2>2, <3>1
    <3>3. F[m] < VtCols => LineOf(text, n, F, m)
      BY <1>1, <2>1, <2>2 DEF LineOf
    <3>4. F[m] \in Nat /\ m \in 0..m /\ ~(n + m < Len(text))
      BY <1>1, <1>2
    <3>5. t.len >= VtCols - 1 \/ LineOf(text, n, F, m)
      BY <1>1, <3>2, <3>3, <3>4
    <3> HIDE DEF t
    <3>6. t \in Reading(text, n, F)
      BY <3>2, <3>4, <3>5, ReadingIs
    <3> QED  BY <3>2, <3>6 DEF t
  <2>3. CASE s.bytes # m
    <3>1. s.bytes + 1 \in 1..m /\ n + (s.bytes + 1) = n + s.bytes + 1 /\ n + s.bytes + 1 \in 1..Len(text)
          /\ ~(n + s.bytes >= Len(text)) /\ s.bytes \in 0..m /\ s.bytes + 1 - 1 = s.bytes
      BY <1>1, <1>4, <2>3
    <3>2. F[s.bytes + 1] = Wider(F[s.bytes], ch) /\ F[s.bytes] \in Nat /\ F[s.bytes + 1] \in Nat
      <4> DEFINE q == s.bytes + 1
      <4>1. q \in 1..m /\ q \in 0..m /\ q - 1 = s.bytes /\ s.bytes \in 0..m /\ n + q = n + s.bytes + 1
        BY <1>1, <3>1
      <4> HIDE DEF q, m
      <4>2. F[q] = Wider(F[q - 1], text[n + q]) /\ F[q] \in Nat /\ F[q - 1] \in Nat
        BY <1>2, <4>1
      <4>3. F[q] = Wider(F[s.bytes], ch) /\ F[s.bytes] \in Nat /\ F[q] \in Nat
        BY <4>1, <4>2
      <4> QED  BY <4>3 DEF q
    <3>3. F[s.bytes + 1] = s.len + (IF ch = TabChar THEN spaces ELSE 1) /\ s.len \in Nat
      BY <2>1, <3>2 DEF Wider
    <3>4. ch \in Range(text)
      <4>1. DOMAIN text = 1..Len(text)
        OBVIOUS
      <4> QED  BY <3>1, <4>1 DEF Range
    <3>5. CASE ch = NL
      <4> DEFINE l == IF s.last = CRet THEN s.len - 1 ELSE s.len
      <4>1. t = [s EXCEPT !.bytes = s.bytes + 1, !.len = l, !.done = TRUE]
        BY <1>3, <1>6, <3>1, <3>5 DEF ReadStep, Leave
      <4>2. t \in T /\ t.done /\ t.len = l /\ t.bytes = s.bytes + 1
        <5>1. l \in Int /\ s.bytes + 1 \in 0..m
          BY <1>4, <3>1
        <5>2. t = [s EXCEPT !.bytes = s.bytes + 1, !.len = l, !.last = s.last, !.done = TRUE]
          BY <1>3, <4>1
        <5> HIDE DEF t, l, m
        <5> QED  BY <1>3, <1>4, <5>1, <5>2, ReadPut
      <4>3. l \in Int /\ (l < VtCols - 1 => F[s.bytes] < VtCols)
        BY <1>1, <1>4, <2>1
      <4>4. F[s.bytes] < VtCols => LineOf(text, n, F, s.bytes)
        BY <1>1, <2>1, <3>1, <3>5 DEF LineOf
      <4>5. n + s.bytes < Len(text)
        BY <1>1, <3>1, <1>4
      <4> HIDE DEF t, l
      <4>6. t.len >= VtCols - 1 \/ LineOf(text, n, F, s.bytes)
        BY <1>1, <4>2, <4>3, <4>4
      <4>7. t \in Reading(text, n, F)
        BY <1>4, <4>2, <4>5, <4>6, ReadingIs
      <4> QED  BY <4>2, <4>7 DEF t
    <3>6. CASE ch # NL /\ s.len >= VtCols
      <4>1. t = [s EXCEPT !.done = TRUE]
        BY <1>3, <1>6, <3>1, <3>6 DEF ReadStep, Leave
      <4>2. t \in T /\ t.done /\ t.len >= VtCols - 1
        <5>1. t = [s EXCEPT !.bytes = s.bytes, !.len = s.len, !.last = s.last, !.done = TRUE]
          BY <1>3, <4>1
        <5> HIDE DEF t, m
        <5>2. t \in T /\ t.done /\ t.len = s.len
          BY <1>3, <1>4, <5>1, ReadPut
        <5> QED  BY <1>1, <1>4, <3>6, <5>2
      <4> HIDE DEF t
      <4>3. t \in Reading(text, n, F)
        BY <4>2, ReadingIs
      <4> QED  BY <4>2, <4>3 DEF t
    <3>7. CASE ch # NL /\ ~(s.len >= VtCols) /\ ch = TabChar /\ s.len + spaces > VtCols
      <4>1. t = [s EXCEPT !.len = VtCols, !.bytes = 0, !.done = TRUE]
        BY <1>3, <1>6, <3>1, <3>7 DEF ReadStep, Leave
      <4>2. t \in T /\ t.done /\ t.len >= VtCols - 1
        <5>1. t = [s EXCEPT !.bytes = 0, !.len = VtCols, !.last = s.last, !.done = TRUE]
          BY <1>3, <4>1
        <5>2. 0 \in 0..m /\ VtCols \in Int
          BY <1>1
        <5> HIDE DEF t, m
        <5>3. t \in T /\ t.done /\ t.len = VtCols
          BY <1>3, <1>4, <5>1, <5>2, ReadPut
        <5> QED  BY <1>1, <5>3
      <4> HIDE DEF t
      <4>3. t \in Reading(text, n, F)
        BY <4>2, ReadingIs
      <4> QED  BY <4>2, <4>3 DEF t
    <3>8. CASE ch # NL /\ ~(s.len >= VtCols) /\ ~(ch = TabChar /\ s.len + spaces > VtCols)
      <4>1. t = [s EXCEPT !.bytes = s.bytes + 1, !.last = ch, !.len = s.len + (IF ch = TabChar THEN spaces ELSE 1)]
        BY <1>3, <1>6, <3>1, <3>8 DEF ReadStep, Leave
      <4>2. t \in [bytes : 0..m, len : Int, last : Range(text) \union {NL}, done : BOOLEAN]
            /\ ~t.done /\ t.len = F[s.bytes + 1] /\ t.bytes = s.bytes + 1
        <5>1. F[s.bytes + 1] \in Int /\ s.bytes + 1 \in 0..m
          BY <1>1, <3>1, <3>2
        <5>2. t = [s EXCEPT !.bytes = s.bytes + 1, !.len = F[s.bytes + 1], !.last = ch, !.done = FALSE]
          BY <1>3, <1>4, <1>6, <3>3, <4>1
        <5> HIDE DEF t, ch, m
        <5> QED  BY <1>3, <3>4, <5>1, <5>2, ReadPut
      <4>3. OneLine(text, n, s.bytes + 1)
        <5>1. ASSUME NEW i \in n + 1..n + (s.bytes + 1)
              PROVE  text[i] # NL
          <6>1. i \in n + 1..n + s.bytes \/ i = n + s.bytes + 1
            <7>1. i \in Int /\ n + 1 <= i /\ i <= n + s.bytes + 1 /\ s.bytes \in Int
              BY <1>4
            <7> QED  BY <7>1
          <6> QED  BY <2>1, <3>8, <6>1 DEF OneLine
        <5> QED  BY <5>1 DEF OneLine
      <4> HIDE DEF t
      <4>4. t \in Reading(text, n, F)
        BY <4>2, <4>3, ReadingIs
      <4> QED  BY <4>2, <4>4 DEF t
    <3> QED  BY <3>5, <3>6, <3>7, <3>8
  <2> QED  BY <2>2, <2>3
<1> QED
  BY <1>4, <1>5, <1>6

\* What ReadString finds at an offset in the file.
LEMMA ReadLine ==
    ASSUME NEW text, text \in Seq(Range(text)), NEW n \in Nat, n < Len(text), NEW F \in Widths(text, n)
    PROVE  LET r == ReadString(text, n)
           IN  /\ r.len \in Int /\ r.next \in 0..Len(text) /\ r.ok
               /\ \/ r.len >= VtCols - 1
                  \/ \E k \in 0..Len(text) - n :
                        LineOf(text, n, F, k) /\ r.next = n + (IF n + k < Len(text) THEN k + 1 ELSE k)
<1> DEFINE m == Len(text) - n
           L == Len(text) + 1
           S == Reading(text, n, F)
           h == Reads(text, n, NothingRead, L)
           r == ReadString(text, n)
<1>1. Len(text) \in Nat /\ m \in Nat /\ L \in Nat /\ n + m = Len(text)
  OBVIOUS
<1>2. NothingRead \in S
  <2>1. F[0] = 0 /\ 0 \in 0..m
    BY <1>1 DEF Widths
  <2>2. OneLine(text, n, 0)
    BY DEF OneLine
  <2> QED  BY <2>1, <2>2 DEF NothingRead, Reading
<1>3. \A s \in S : ReadStep(text, n, s) \in S
  BY ReadStays
<1>4. h \in [0..L -> S] /\ h[0] = NothingRead /\ \A k \in 1..L : h[k] = ReadStep(text, n, h[k - 1])
  <2> HIDE DEF S, L
  <2>1. L \in Nat
    BY <1>1
  <2>2. ReadsStay(text, n, S, NothingRead, L)
    BY <2>1, <1>2, <1>3, ReadRepeated
  <2> QED  BY <2>2 DEF ReadsStay
<1> HIDE DEF h
<1> DEFINE K == {k \in 0..L : ~h[k].done => h[k].bytes = k}
<1>5. 0 \in K
  BY <1>1, <1>4 DEF NothingRead
<1>6. ASSUME NEW k \in 1..L, k - 1 \in K
      PROVE  k \in K
  <2>1. k - 1 \in 0..L /\ k \in 0..L /\ h[k - 1] \in S /\ h[k] = ReadStep(text, n, h[k - 1])
    BY <1>1, <1>4
  <2>2. ~h[k].done => h[k].bytes = h[k - 1].bytes + 1
    BY <2>1, ReadStays
  <2>3. h[k - 1].done => h[k].done
    <3>1. h[k - 1].done => h[k] = [h[k - 1] EXCEPT !.done = TRUE]
      BY <2>1 DEF ReadStep, Leave
    <3>2. h[k - 1] \in [bytes : 0..m, len : Int, last : Range(text) \union {NL}, done : BOOLEAN]
      BY <2>1 DEF Reading
    <3> HIDE DEF S, K
    <3> QED  BY <3>1, <3>2
  <2>4. ~h[k - 1].done => h[k - 1].bytes = k - 1
    BY <1>6
  <2> QED  BY <2>1, <2>2, <2>3, <2>4
<1> HIDE DEF K
<1>7. \A k \in 0..L : k \in K
  BY <1>1, <1>5, <1>6, UpTo
<1>8. h[L].done /\ h[L] \in S
  <2>1. L \in K /\ L \in 0..L /\ h[L] \in S
    BY <1>1, <1>4, <1>7
  <2>2. h[L].bytes \in 0..m
    BY <2>1 DEF Reading
  <2>3. ~h[L].done => h[L].bytes = L
    BY <2>1 DEF K
  <2> QED  BY <1>1, <2>1, <2>2, <2>3
<1>9. r = [len |-> h[L].len, begin |-> n, next |-> n + h[L].bytes, ok |-> TRUE]
  BY DEF ReadString, Iterate, h, Reads
<1>10. h[L].len \in Int /\ h[L].bytes \in 0..m
       /\ \/ h[L].len >= VtCols - 1
          \/ \E k \in 0..m : LineOf(text, n, F, k) /\ h[L].bytes = (IF n + k < Len(text) THEN k + 1 ELSE k)
  BY <1>8 DEF Reading
<1>11. r.len = h[L].len /\ r.next = n + h[L].bytes /\ r.ok
  BY <1>9
<1> HIDE DEF r, S
<1>12. r.len \in Int /\ r.next \in 0..Len(text) /\ r.ok
  BY <1>1, <1>10, <1>11
<1>13. (r.len >= VtCols - 1) \/ \E k \in 0..m : LineOf(text, n, F, k) /\ r.next = n + (IF n + k < Len(text) THEN k + 1 ELSE k)
  BY <1>10, <1>11
<1> QED
  BY <1>12, <1>13 DEF r

Readable(text) == text \in Seq(Range(text)) /\ ShortLines(text)

LEMMA LineIs ==
    ASSUME NEW text, Readable(text), NEW n \in LineStarts(text), n < Len(text), NEW F \in Widths(text, n)
    PROVE  /\ n \in Nat
           /\ \E k \in 0..Len(text) - n :
                  LineOf(text, n, F, k) /\ ReadString(text, n).next = n + (IF n + k < Len(text) THEN k + 1 ELSE k)
<1>1. n \in Nat /\ text \in Seq(Range(text))
  BY DEF Readable, LineStarts
<1> DEFINE r == ReadString(text, n)
<1>2. /\ r.len \in Int
      /\ \/ r.len >= VtCols - 1
         \/ \E k \in 0..Len(text) - n :
                LineOf(text, n, F, k) /\ r.next = n + (IF n + k < Len(text) THEN k + 1 ELSE k)
  BY <1>1, ReadLine
<1>3. r.len < VtCols - 1
  BY DEF Readable, ShortLines
<1> HIDE DEF r
<1>4. VtCols \in Nat
  BY ViewedAssumption
<1>5. ~(r.len >= VtCols - 1)
  BY <1>2, <1>3, <1>4
<1> QED
  BY <1>1, <1>2, <1>5 DEF r

\* A line is followed by a line.
LEMMA NextStart ==
    ASSUME NEW text, Readable(text), NEW n \in LineStarts(text), n < Len(text)
    PROVE  /\ ReadString(text, n).len \in Int /\ ReadString(text, n).next \in 0..Len(text) /\ ReadString(text, n).ok
           /\ ReadString(text, n).next < Len(text) => ReadString(text, n).next \in LineStarts(text)
<1>1. n \in Nat /\ text \in Seq(Range(text)) /\ Len(text) \in Nat /\ n \in 0..Len(text)
  BY DEF Readable, LineStarts
<1> PICK F : F \in Widths(text, n)
  BY <1>1, WidthsExist
<1> DEFINE r == ReadString(text, n)
<1>2. r.len \in Int /\ r.next \in 0..Len(text) /\ r.ok
  BY <1>1, ReadLine
<1>3. PICK k \in 0..Len(text) - n : LineOf(text, n, F, k) /\ r.next = n + (IF n + k < Len(text) THEN k + 1 ELSE k)
  BY LineIs
<1> HIDE DEF r
<1>4. ASSUME r.next < Len(text)
      PROVE  r.next \in LineStarts(text)
  <2>1. n + k < Len(text) /\ r.next = n + k + 1
    BY <1>1, <1>3, <1>4
  <2>2. text[n + k + 1] = NL
    BY <1>3, <2>1 DEF LineOf
  <2>3. n + k + 1 \in 1..Len(text) - 1
    BY <1>1, <1>4, <2>1
  <2> QED  BY <2>1, <2>2, <2>3 DEF LineStarts
<1> QED
  BY <1>2, <1>4 DEF r

-----------------------------------------------------------------------------
(* The way back.                                                           *)

\* The start of the line of a place in the file.
LEMMA StartOf ==
    ASSUME NEW text, NEW e \in Nat
    PROVE  \E n \in 0..e : (n = 0 \/ text[n] = NL) /\ \A i \in n + 1..e : text[i] # NL
<1> DEFINE K == {k \in 0..e : \E n \in 0..k : (n = 0 \/ text[n] = NL) /\ \A i \in n + 1..k : text[i] # NL}
<1>1. 0 \in K
  <2>1. 0 \in 0..0 /\ 0 \in 0..e /\ 0 + 1..0 = {}
    OBVIOUS
  <2> QED  BY <2>1
<1>2. ASSUME NEW k \in 1..e, k - 1 \in K
      PROVE  k \in K
  <2>1. PICK n \in 0..k - 1 : (n = 0 \/ text[n] = NL) /\ \A i \in n + 1..k - 1 : text[i] # NL
    BY <1>2
  <2>2. CASE text[k] = NL
    <3>1. k \in 0..k /\ k \in 0..e /\ k + 1..k = {}
      OBVIOUS
    <3> QED  BY <2>2, <3>1
  <2>3. CASE text[k] # NL
    <3>1. n \in 0..k /\ k \in 0..e
      BY <2>1
    <3>2. \A i \in n + 1..k : i \in n + 1..k - 1 \/ i = k
      BY <2>1
    <3>3. \A i \in n + 1..k : text[i] # NL
      BY <2>1, <2>3, <3>2
    <3> QED  BY <2>1, <3>1, <3>3
  <2> QED  BY <2>2, <2>3
<1> HIDE DEF K
<1>3. \A k \in 0..e : k \in K
  BY <1>1, <1>2, UpTo
<1>4. e \in K
  BY <1>3
<1> QED
  BY <1>4 DEF K

\* A tab ends at a stop.
LEMMA TabStops ==
    ASSUME NEW w \in Nat
    PROVE  Wider(w, TabChar) \in Stops /\ w < Wider(w, TabChar) /\ Wider(w, TabChar) <= w + VtTab
<1>1. PICK x \in Stops : x <= w /\ w < x + VtTab /\ VtTab - (w % VtTab) = x + VtTab - w
  BY NextStop
<1>2. x \in Nat /\ VtTab \in Nat /\ x + VtTab \in Stops
  BY StopFacts, ViewedAssumption
<1>3. Wider(w, TabChar) = x + VtTab
  BY <1>1, <1>2 DEF Wider
<1> QED
  BY <1>1, <1>2, <1>3

\* A stop that is not the first is as wide as a tab.
LEMMA StopWide ==
    ASSUME NEW x \in Stops, x > 0
    PROVE  x >= VtTab /\ x - VtTab \in Stops
<1>1. x - VtTab \in Stops /\ x \in Nat /\ VtTab \in Nat
  BY StopFacts, ViewedAssumption
<1>2. x - VtTab \in Nat
  BY <1>1, StopFacts
<1> QED
  BY <1>1, <1>2

\* The columns that are left on the way back are those that are in front, up to
\* the characters that the tab just passed may have taken in.
Fits(free, tab, end, here) ==
    /\ tab = 0 => VtCols - free = end - here
    /\ tab > 0 => \E x \in Stops : /\ VtCols - free = end - x
                                   /\ x - (VtTab - tab) <= here /\ here <= x + tab - 1
BackStates(n, e) ==
    [at : n..e, free : Int, tab : 0..VtTab, nl : BOOLEAN, known : BOOLEAN, done : BOOLEAN]
\* The state of the loop of GetPrevLine in the line that starts at n, from e on.
Going(n, F, e) ==
    {s \in BackStates(n, e) : Fits(s.free, s.tab, F[e - n], F[s.at - n]) /\ (s.done => s.at = n)}

\* A character is passed.
LEMMA FitsPlain ==
    ASSUME NEW free \in Int, NEW tab \in 0..VtTab, NEW end \in Nat, NEW here \in Nat, NEW w \in Nat,
           here = w + 1, here <= end, end < VtCols, Fits(free, tab, end, here)
    PROVE  /\ free > 0
           /\ tab = 0 => Fits(free - 1, 0, end, w)
           /\ tab = 1 => free >= VtTab /\ Fits(free - VtTab, VtTab, end, w)
           /\ tab > 1 => Fits(free, tab - 1, end, w)
<1>1. VtCols \in Nat /\ VtTab \in Nat /\ VtTab > 0
  BY ViewedAssumption
<1>2. CASE tab = 0
  <2>1. VtCols - free = end - here
    BY <1>2 DEF Fits
  <2>2. VtCols - (free - 1) = end - w /\ free > 0
    BY <1>1, <2>1
  <2> QED  BY <1>2, <2>2 DEF Fits
<1>3. CASE tab > 0
  <2>1. PICK x \in Stops : VtCols - free = end - x /\ x - (VtTab - tab) <= here /\ here <= x + tab - 1
    BY <1>3 DEF Fits
  <2>2. x \in Nat /\ free > 0
    BY <1>1, <2>1, StopFacts
  <2>3. CASE tab = 1
    <3>1. x > 0
      BY <1>1, <2>1, <2>2, <2>3
    <3>2. x >= VtTab /\ x - VtTab \in Stops
      BY <3>1, StopWide
    <3>3. free >= VtTab
      BY <1>1, <2>1, <2>2, <3>2
    <3> DEFINE y == x - VtTab
    <3>4. VtCols - (free - VtTab) = end - y /\ y - (VtTab - VtTab) <= w /\ w <= y + VtTab - 1
      BY <1>1, <2>1, <2>2, <2>3
    <3>5. y \in Stops
      BY <3>2
    <3> HIDE DEF y
    <3>6. Fits(free - VtTab, VtTab, end, w)
      BY <1>1, <3>4, <3>5 DEF Fits
    <3> QED  BY <2>2, <2>3, <3>3, <3>6
  <2>4. CASE tab > 1
    <3>1. x - (VtTab - (tab - 1)) <= w /\ w <= x + (tab - 1) - 1
      BY <1>1, <2>1, <2>2, <2>4
    <3>2. Fits(free, tab - 1, end, w)
      BY <1>1, <2>1, <2>4, <3>1 DEF Fits
    <3> QED  BY <2>2, <2>4, <3>2
  <2> QED  BY <1>3, <2>3, <2>4
<1> QED
  BY <1>2, <1>3

\* A tab is passed.
LEMMA FitsTab ==
    ASSUME NEW free \in Int, NEW tab \in 0..VtTab, NEW end \in Nat, NEW here \in Nat, NEW w \in Nat,
           here = Wider(w, TabChar), here <= end, end < VtCols, Fits(free, tab, end, here)
    PROVE  free > 0 /\ free >= VtTab /\ Fits(free - VtTab, VtTab, end, w)
<1>1. VtCols \in Nat /\ VtTab \in Nat /\ VtTab > 0
  BY ViewedAssumption
<1>2. here \in Stops /\ w < here /\ here <= w + VtTab
  BY TabStops
<1>3. here >= VtTab /\ here - VtTab \in Stops
  <2>1. here > 0
    BY <1>2
  <2> QED  BY <1>2, <2>1, StopWide
<1>4. VtCols - free = end - here
  <2>1. CASE tab = 0
    BY <2>1 DEF Fits
  <2>2. CASE tab > 0
    <3>1. PICK x \in Stops : VtCols - free = end - x /\ x - (VtTab - tab) <= here /\ here <= x + tab - 1
      BY <2>2 DEF Fits
    <3>2. x \in Nat
      BY StopFacts
    <3>3. x - VtTab < here /\ here < x + VtTab
      BY <1>1, <2>2, <3>1, <3>2
    <3>4. x = here
      BY <1>2, <3>3, StopFacts
    <3> QED  BY <3>1, <3>4
  <2> QED  BY <2>1, <2>2
<1>5. free > 0 /\ free >= VtTab
  BY <1>1, <1>3, <1>4
<1> DEFINE y == here - VtTab
<1>6. VtCols - (free - VtTab) = end - y /\ y - (VtTab - VtTab) <= w /\ w <= y + VtTab - 1
  BY <1>1, <1>2, <1>3, <1>4
<1>7. y \in Stops
  BY <1>3
<1> HIDE DEF y
<1>8. Fits(free - VtTab, VtTab, end, w)
  BY <1>1, <1>6, <1>7 DEF Fits
<1> QED
  BY <1>5, <1>8

\* Nothing is passed.
LEMMA FitsFree ==
    ASSUME NEW free \in Int, NEW tab \in 0..VtTab, NEW end \in Nat, NEW here \in Nat,
           here <= end, end < VtCols, Fits(free, tab, end, here)
    PROVE  free > 0
<1>1. VtCols \in Nat /\ VtTab \in Nat /\ VtTab > 0
  BY ViewedAssumption
<1>2. CASE tab = 0
  BY <1>1, <1>2 DEF Fits
<1>3. CASE tab > 0
  <2>1. PICK x \in Stops : VtCols - free = end - x
    BY <1>3 DEF Fits
  <2> QED  BY <1>1, <2>1, StopFacts
<1> QED
  BY <1>2, <1>3

LEMMA GoingPut ==
    ASSUME NEW B, NEW s \in [at : B, free : Int, tab : 0..VtTab, nl : BOOLEAN, known : BOOLEAN, done : BOOLEAN],
           NEW a \in B, NEW f \in Int, NEW t \in 0..VtTab
    PROVE  LET p == [s EXCEPT !.at = a, !.free = f, !.tab = t]
           IN  /\ p \in [at : B, free : Int, tab : 0..VtTab, nl : BOOLEAN, known : BOOLEAN, done : BOOLEAN]
               /\ p.at = a /\ p.free = f /\ p.tab = t /\ p.done = s.done
  OBVIOUS

LEMMA GoingLeave ==
    ASSUME NEW B, NEW s \in [at : B, free : Int, tab : 0..VtTab, nl : BOOLEAN, known : BOOLEAN, done : BOOLEAN],
           NEW p, p \in {Leave(s), [Leave(s) EXCEPT !.known = FALSE], [Leave(s) EXCEPT !.nl = TRUE]}
    PROVE  /\ p \in [at : B, free : Int, tab : 0..VtTab, nl : BOOLEAN, known : BOOLEAN, done : BOOLEAN]
           /\ p.at = s.at /\ p.free = s.free /\ p.tab = s.tab /\ p.done
  BY DEF Leave

\* A line from its start to a place in it.
InLine(text, n, F, e) ==
    /\ n \in Nat /\ Len(text) \in Nat /\ e \in n..Len(text) /\ F \in Widths(text, n)
    /\ F[e - n] < VtCols /\ OneLine(text, n, e - n)
    /\ n = 0 \/ text[n] = NL

LEMMA BackStays ==
    ASSUME NEW text, NEW n, NEW F, NEW e, InLine(text, n, F, e), NEW s \in Going(n, F, e)
    PROVE  /\ PrevStep(text, s) \in Going(n, F, e)
           /\ ~PrevStep(text, s).done => PrevStep(text, s).at = s.at - 1
<1> DEFINE p == PrevStep(text, s)
           end == F[e - n]
           here == F[s.at - n]
<1>1. n \in Nat /\ Len(text) \in Nat /\ e \in n..Len(text) /\ F \in Widths(text, n) /\ n \in 0..Len(text)
      /\ end < VtCols /\ OneLine(text, n, e - n) /\ (n = 0 \/ text[n] = NL)
  BY DEF InLine
<1>2. s \in BackStates(n, e) /\ Fits(s.free, s.tab, end, here) /\ (s.done => s.at = n)
  BY DEF Going
<1>3. s.at \in n..e /\ s.free \in Int /\ s.tab \in 0..VtTab /\ s.done \in BOOLEAN
  BY <1>2 DEF BackStates
<1>4. s.at - n \in 0..e - n /\ e - n \in 0..Len(text) - n
  BY <1>1, <1>3
<1>5. here \in Nat /\ end \in Nat /\ here <= end
  BY <1>1, <1>4, WidthsGrow
<1>6. s.free > 0
  <2> HIDE DEF here, end
  <2> QED  BY <1>1, <1>2, <1>3, <1>5, FitsFree
<1>7. ASSUME s.at = n, p \in {Leave(s), [Leave(s) EXCEPT !.known = FALSE], [Leave(s) EXCEPT !.nl = TRUE]}
      PROVE  p \in Going(n, F, e) /\ p.done
  <2>1. p \in BackStates(n, e) /\ p.at = s.at /\ p.free = s.free /\ p.tab = s.tab /\ p.done
    <3> HIDE DEF p
    <3> QED  BY <1>2, <1>7, GoingLeave DEF BackStates
  <2> HIDE DEF p
  <2> QED  BY <1>2, <1>7, <2>1 DEF Going
<1>8. CASE s.done
  <2>1. p = Leave(s) /\ s.at = n
    BY <1>2, <1>8 DEF PrevStep
  <2> QED  BY <1>7, <2>1
<1>9. CASE ~s.done /\ s.at = n
  <2>1. CASE s.at = 0
    <3>1. p = [Leave(s) EXCEPT !.known = FALSE]
      BY <1>3, <1>6, <1>9, <2>1 DEF PrevStep
    <3> QED  BY <1>7, <1>9, <3>1
  <2>2. CASE s.at # 0
    <3>1. text[s.at] = NL
      BY <1>1, <1>9, <2>2
    <3>2. p = [Leave(s) EXCEPT !.nl = TRUE]
      BY <1>3, <1>6, <1>9, <2>2, <3>1 DEF PrevStep
    <3> QED  BY <1>7, <1>9, <3>2
  <2> QED  BY <2>1, <2>2
<1>10. CASE ~s.done /\ s.at # n
  <2> DEFINE w == F[s.at - 1 - n]
             ch == text[s.at]
  <2>1. s.at \in n + 1..n + (e - n) /\ s.at # 0 /\ s.at - 1 \in n..e /\ s.at - n \in 1..Len(text) - n
        /\ n + (s.at - n) = s.at /\ s.at - n - 1 = s.at - 1 - n /\ s.at - 1 - n \in 0..Len(text) - n
    BY <1>1, <1>3, <1>10
  <2>2. ch # NL
    BY <1>1, <2>1 DEF OneLine
  <2>3. w \in Nat /\ here = Wider(w, ch)
    BY <1>1, <2>1 DEF Widths
  <2>4. ASSUME NEW f \in Int, NEW t \in 0..VtTab, p = [s EXCEPT !.at = s.at - 1, !.free = f, !.tab = t],
               Fits(f, t, end, w)
        PROVE  p \in Going(n, F, e) /\ p.at = s.at - 1
    <3>1. p \in BackStates(n, e) /\ p.at = s.at - 1 /\ p.free = f /\ p.tab = t /\ p.done = s.done
      <4> HIDE DEF p
      <4> QED  BY <1>2, <2>1, <2>4, GoingPut DEF BackStates
    <3> HIDE DEF p
    <3> QED  BY <1>10, <2>4, <3>1 DEF Going
  <2>5. CASE ch = TabChar
    <3>1. s.free >= VtTab /\ Fits(s.free - VtTab, VtTab, end, w)
      <4>1. here = Wider(w, TabChar)
        BY <2>3, <2>5
      <4> HIDE DEF here, end, w
      <4> QED  BY <1>1, <1>2, <1>3, <1>5, <2>3, <4>1, FitsTab
    <3>2. VtTab \in Nat
      BY ViewedAssumption
    <3>3. p = Passed(s, VtTab, VtTab)
      BY <1>3, <1>6, <1>10, <2>1, <2>2, <2>5, <3>1, <3>2 DEF PrevStep
    <3>4. p = [s EXCEPT !.at = s.at - 1, !.free = s.free - VtTab, !.tab = VtTab]
      BY <3>3 DEF Passed
    <3>5. s.free - VtTab \in Int /\ VtTab \in 0..VtTab
      BY <1>3, <3>2
    <3> QED  BY <2>4, <3>1, <3>4, <3>5
  <2>6. CASE ch # TabChar
    <3>1. here = w + 1
      BY <2>3, <2>6 DEF Wider
    <3>2. /\ s.tab = 0 => Fits(s.free - 1, 0, end, w)
          /\ s.tab = 1 => s.free >= VtTab /\ Fits(s.free - VtTab, VtTab, end, w)
          /\ s.tab > 1 => Fits(s.free, s.tab - 1, end, w)
      <4> HIDE DEF here, end, w
      <4> QED  BY <1>1, <1>2, <1>3, <1>5, <2>3, <3>1, FitsPlain
    <3>3. VtTab \in Nat /\ VtTab > 0
      BY ViewedAssumption
    <3>4. CASE s.tab = 1
      <4>1. p = Passed(s, VtTab, VtTab)
        BY <1>3, <1>6, <1>10, <2>1, <2>2, <3>2, <3>3, <3>4 DEF PrevStep
      <4>2. p = [s EXCEPT !.at = s.at - 1, !.free = s.free - VtTab, !.tab = VtTab]
        BY <4>1 DEF Passed
      <4>3. s.free - VtTab \in Int /\ VtTab \in 0..VtTab
        BY <1>3, <3>3
      <4> QED  BY <2>4, <3>2, <3>4, <4>2, <4>3
    <3>5. CASE s.tab > 1
      <4>1. p = Passed(s, 0, s.tab - 1)
        BY <1>3, <1>6, <1>10, <2>1, <2>2, <2>6, <3>3, <3>5 DEF PrevStep
      <4>2. p = [s EXCEPT !.at = s.at - 1, !.free = s.free - 0, !.tab = s.tab - 1]
        BY <4>1 DEF Passed
      <4>3. s.free - 0 = s.free /\ s.tab - 1 \in 0..VtTab
        BY <1>3, <3>3, <3>5
      <4>4. p = [s EXCEPT !.at = s.at - 1, !.free = s.free, !.tab = s.tab - 1]
        BY <4>2, <4>3
      <4> QED  BY <1>3, <2>4, <3>2, <3>5, <4>3, <4>4
    <3>6. CASE s.tab = 0
      <4>1. p = Passed(s, 1, 0)
        BY <1>3, <1>6, <1>10, <2>1, <2>2, <2>6, <3>3, <3>6 DEF PrevStep
      <4>2. p = [s EXCEPT !.at = s.at - 1, !.free = s.free - 1, !.tab = 0]
        BY <4>1 DEF Passed
      <4>3. s.free - 1 \in Int /\ 0 \in 0..VtTab
        BY <1>3, <3>3
      <4> QED  BY <2>4, <3>2, <3>6, <4>2, <4>3
    <3> QED  BY <1>3, <3>3, <3>4, <3>5, <3>6
  <2> QED  BY <2>5, <2>6
<1> QED
  BY <1>3, <1>8, <1>9, <1>10

\* The way back from a place in a line ends where the line begins.
LEMMA BackToStart ==
    ASSUME NEW text, NEW n, NEW F, NEW e, InLine(text, n, F, e)
    PROVE  LET r == Iterate(LAMBDA s : PrevStep(text, s), NothingTaken(e), Len(text) + 1)
           IN  r.at = n /\ r.free \in Int
<1> DEFINE L == Len(text) + 1
           S == Going(n, F, e)
           h == Prevs(text, NothingTaken(e), L)
           r == Iterate(LAMBDA s : PrevStep(text, s), NothingTaken(e), Len(text) + 1)
<1>1. n \in Nat /\ Len(text) \in Nat /\ e \in n..Len(text) /\ L \in Nat /\ e \in Nat
  BY DEF InLine
<1>2. NothingTaken(e) \in S
  <2>1. VtCols \in Nat /\ VtTab \in Nat /\ 0 \in 0..VtTab
    BY ViewedAssumption
  <2>2. NothingTaken(e) \in BackStates(n, e)
    BY <1>1, <2>1 DEF NothingTaken, BackStates
  <2>3. F[e - n] \in Nat
    <3>1. e - n \in 0..Len(text) - n
      BY <1>1
    <3> QED  BY <3>1 DEF InLine, Widths
  <2>4. Fits(VtCols, 0, F[e - n], F[e - n])
    BY <2>1, <2>3 DEF Fits
  <2> QED  BY <2>2, <2>4 DEF NothingTaken, Going
<1>3. \A s \in S : PrevStep(text, s) \in S
  BY BackStays
<1>4. h \in [0..L -> S] /\ h[0] = NothingTaken(e) /\ \A k \in 1..L : h[k] = PrevStep(text, h[k - 1])
  <2> HIDE DEF S, L
  <2>1. L \in Nat
    BY <1>1
  <2>2. PrevsStay(text, S, NothingTaken(e), L)
    BY <2>1, <1>2, <1>3, PrevRepeated
  <2> QED  BY <2>2 DEF PrevsStay
<1> HIDE DEF h
<1> DEFINE K == {k \in 0..L : ~h[k].done => h[k].at = e - k}
<1>5. 0 \in K
  BY <1>1, <1>4 DEF NothingTaken
<1>6. ASSUME NEW k \in 1..L, k - 1 \in K
      PROVE  k \in K
  <2>1. k - 1 \in 0..L /\ k \in 0..L /\ h[k - 1] \in S /\ h[k] = PrevStep(text, h[k - 1])
    BY <1>1, <1>4
  <2>2. ~h[k].done => h[k].at = h[k - 1].at - 1
    BY <2>1, BackStays
  <2>3. h[k - 1].done => h[k].done
    <3>1. h[k - 1].done => h[k] = Leave(h[k - 1])
      BY <2>1 DEF PrevStep
    <3>2. h[k - 1] \in BackStates(n, e)
      BY <2>1 DEF Going
    <3>3. Leave(h[k - 1]).done
      BY <3>2 DEF Leave, BackStates
    <3> QED  BY <3>1, <3>3
  <2>4. ~h[k - 1].done => h[k - 1].at = e - (k - 1)
    BY <1>6
  <2>5. e - (k - 1) - 1 = e - k
    BY <1>1
  <2> QED  BY <2>1, <2>2, <2>3, <2>4, <2>5
<1> HIDE DEF K
<1>7. \A k \in 0..L : k \in K
  BY <1>1, <1>5, <1>6, UpTo
<1>8. h[L].at = n /\ h[L].free \in Int
  <2>1. L \in K /\ L \in 0..L /\ h[L] \in S
    BY <1>1, <1>4, <1>7
  <2>2. h[L].at \in n..e /\ h[L].free \in Int /\ (h[L].done => h[L].at = n)
    BY <2>1 DEF Going, BackStates
  <2>3. ~h[L].done => h[L].at = e - L
    BY <2>1 DEF K
  <2>4. h[L].done
    BY <1>1, <2>2, <2>3
  <2> QED  BY <2>2, <2>4
<1>9. r = h[L]
  BY DEF Iterate, h, Prevs
<1> HIDE DEF r
<1>10. r.at = n /\ r.free \in Int
  BY <1>8, <1>9
<1> QED
  BY <1>10 DEF r

\* GetPrevLine finds the start of a line, wherever it is asked from.
LEMMA PrevLineStarts ==
    ASSUME NEW text, Readable(text), NEW offset \in 0..Len(text)
    PROVE  GetPrevLine(text, offset).at \in LineStarts(text) /\ GetPrevLine(text, offset).cols \in Int
<1> DEFINE end == LineEnd(text, offset)
           r == Iterate(LAMBDA s : PrevStep(text, s), NothingTaken(end), Len(text) + 1)
           g == GetPrevLine(text, offset)
<1>1. Len(text) \in Nat /\ offset \in Nat /\ VtCols \in Nat
  BY ViewedAssumption DEF Readable
<1>2. 0 \in LineStarts(text)
  BY DEF LineStarts
<1>3. CASE offset = 0
  <2>1. g = [at |-> 0, cols |-> 0, nl |-> FALSE]
    BY <1>3 DEF GetPrevLine
  <2> QED  BY <1>2, <2>1
<1>4. CASE offset # 0 /\ end = 0
  <2>1. ~(offset <= 0)
    BY <1>1, <1>4
  <2>2. g = [at |-> 0, cols |-> 0, nl |-> FALSE]
    BY <1>4, <2>1 DEF GetPrevLine
  <2> QED  BY <1>2, <2>2
<1>5. CASE offset # 0 /\ end # 0
  <2>1. ~(offset <= 0) /\ offset > 0
    BY <1>1, <1>5
  <2>2. g = [at |-> r.at, cols |-> IF r.known THEN VtCols - r.free ELSE 0, nl |-> r.nl]
    BY <1>5, <2>1 DEF GetPrevLine
  <2>3. end \in Nat /\ end <= offset /\ (end < offset \/ text[offset] # NL)
    BY <1>1, <1>5, <2>1 DEF LineEnd
  <2>4. end = offset => text[end] # NL
    BY <1>1, <2>1, <2>3
  <2> HIDE DEF end
  <2>5. PICK n \in 0..end : (n = 0 \/ text[n] = NL) /\ \A i \in n + 1..end : text[i] # NL
    BY <2>3, StartOf
  <2>6. n < Len(text) /\ n \in Nat
    BY <1>1, <2>1, <2>3, <2>4, <2>5, <1>5
  <2>7. n \in LineStarts(text)
    BY <1>1, <2>5, <2>6 DEF LineStarts
  <2>8. n \in 0..Len(text)
    BY <1>1, <2>6
  <2>9. PICK F : F \in Widths(text, n)
    BY <1>1, <2>8, WidthsExist
  <2>10. PICK k \in 0..Len(text) - n : LineOf(text, n, F, k)
    BY <2>6, <2>7, <2>9, LineIs
  <2>11. end - n \in 0..k
    <3>1. ~(end - n > k)
      <4>1. ASSUME end - n > k
            PROVE  FALSE
        <5>1. n + k < Len(text) /\ n + k + 1 \in n + 1..end
          BY <1>1, <2>3, <2>5, <2>6, <4>1
        <5>2. text[n + k + 1] = NL
          BY <2>10, <5>1 DEF LineOf
        <5> QED  BY <2>5, <5>1, <5>2
      <4> QED  BY <4>1
    <3> QED  BY <1>1, <2>3, <2>5, <2>6, <3>1
  <2>12. F[end - n] \in Nat /\ F[k] \in Nat /\ F[end - n] <= F[k] /\ F[k] < VtCols
    <3>1. F[k] < VtCols
      BY <2>10 DEF LineOf
    <3> QED  BY <1>1, <2>8, <2>9, <2>11, <3>1, WidthsGrow
  <2>13. OneLine(text, n, end - n)
    <3>1. n + (end - n) = end
      BY <2>3, <2>6
    <3> QED  BY <2>5, <3>1 DEF OneLine
  <2>14. end \in n..Len(text)
    BY <1>1, <2>3, <2>5, <2>6
  <2>15. F[end - n] < VtCols
    BY <1>1, <2>12
  <2>16. InLine(text, n, F, end)
    BY <1>1, <2>5, <2>6, <2>9, <2>13, <2>14, <2>15 DEF InLine
  <2>17. r.at = n /\ r.free \in Int
    BY <2>16, BackToStart
  <2> HIDE DEF r, g
  <2>18. g.at = n /\ g.cols \in Int
    BY <1>1, <2>2, <2>17
  <2> QED  BY <2>7, <2>18 DEF g
<1> QED
  BY <1>3, <1>4, <1>5

-----------------------------------------------------------------------------
(* The keys.                                                               *)

LEMMA QuotientIs ==
    ASSUME NEW y \in Nat, NEW c \in Nat, c > 0
    PROVE  y \div c \in Nat /\ (y >= c => y \div c >= 1)
<1>1. PICK q \in Int, r \in Int : q = y \div c /\ r = y % c
  BY SMT
<1>2. y = c * q + r /\ 0 <= r /\ r < c
  BY <1>1, SMT
<1>3. q >= 0
  <2>1. ASSUME q < 0
        PROVE  FALSE
    <3>1. c * q <= c * (0 - 1)
      BY <2>1, SMT
    <3>2. c * (0 - 1) = 0 - c /\ c * q \in Int
      BY SMT
    <3> QED  BY <1>2, <3>1, <3>2
  <2> QED  BY <2>1
<1>4. y >= c => q # 0
  <2>1. c * 0 = 0
    BY SMT
  <2> QED  BY <1>2, <2>1
<1> QED
  BY <1>1, <1>3, <1>4

LEMMA WrapIs ==
    ASSUME NEW x \in Int, NEW c \in Nat, c > 0
    PROVE  WrapCount(x, c) \in Nat /\ WrapCount(x, c) >= 1
<1>1. CASE x <= c
  BY <1>1 DEF WrapCount
<1>2. CASE ~(x <= c)
  <2> DEFINE y == x + c - 1
  <2>1. y \in Nat /\ y >= c
    BY <1>2
  <2>2. WrapCount(x, c) = y \div c
    BY <1>2 DEF WrapCount
  <2> HIDE DEF y
  <2>3. y \div c \in Nat /\ y \div c >= 1
    BY <2>1, QuotientIs
  <2> QED  BY <2>2, <2>3
<1> QED
  BY <1>1, <1>2

Modes == {"plain", "wrap", "hex"}
Views == [file : VtFiles \union {<<>>}, size : (Nat \ {0}) \X (Nat \ {0}), mode : Modes,
          begin : Nat, col : Nat, maxLine : Int, free : BOOLEAN]
AllShort == \A text \in VtFiles : ShortLines(text)
\* The place is in the file, and at the start of a line unless it is free.
Placed(v) ==
    /\ v \in Views /\ v.begin \in 0..AtLeast(Len(v.file) - 1, 0)
    /\ ~v.free => v.begin \in LineStarts(v.file)

LEMMA FilesReadable ==
    ASSUME AllShort, NEW text \in VtFiles \union {<<>>}
    PROVE  Readable(text) /\ Len(text) \in Nat /\ LineStarts(text) \subseteq 0..Len(text) /\ 0 \in LineStarts(text)
<1>1. CASE text \in VtFiles
  BY <1>1, ViewedAssumption DEF AllShort, Readable, LineStarts
<1>2. CASE text = <<>>
  <2>1. Len(<<>>) = 0 /\ <<>> \in Seq(Range(<<>>))
    OBVIOUS
  <2>2. \A n \in LineStarts(<<>>) : n = 0
    BY <2>1 DEF LineStarts
  <2> QED  BY <1>2, <2>1, <2>2 DEF Readable, ShortLines, LineStarts
<1> QED
  BY <1>1, <1>2

\* What is read from any place.
LEMMA ReadTypes ==
    ASSUME NEW text, Readable(text), NEW n \in Nat
    PROVE  LET r == ReadString(text, n)
           IN  /\ (r.ok <=> n < Len(text))
               /\ n < Len(text) => r.len \in Int /\ r.next \in 0..Len(text)
               /\ n < Len(text) /\ n \in LineStarts(text) /\ r.next < Len(text) => r.next \in LineStarts(text)
<1> DEFINE r == ReadString(text, n)
<1>1. (r.ok <=> n < Len(text))
  BY DEF ReadString
<1>2. ASSUME n < Len(text)
      PROVE  r.len \in Int /\ r.next \in 0..Len(text)
  <2>1. n \in 0..Len(text) /\ Len(text) \in Nat /\ text \in Seq(Range(text))
    BY <1>2 DEF Readable
  <2>2. PICK F : F \in Widths(text, n)
    BY <2>1, WidthsExist
  <2> QED  BY <1>2, <2>1, <2>2, ReadLine
<1>3. ASSUME n < Len(text), n \in LineStarts(text), r.next < Len(text)
      PROVE  r.next \in LineStarts(text)
  BY <1>3, NextStart
<1> HIDE DEF r
<1>4. n < Len(text) /\ n \in LineStarts(text) /\ r.next < Len(text) => r.next \in LineStarts(text)
  BY <1>3
<1> QED
  BY <1>1, <1>2, <1>4 DEF r

LEMMA BackFacts ==
    ASSUME NEW text, Readable(text), LineStarts(text) \subseteq 0..Len(text), NEW offset \in 0..Len(text), NEW rows \in Nat
    PROVE  /\ LinesBack(text, offset, rows) \in 0..Len(text)
           /\ rows > 0 \/ offset \in LineStarts(text) => LinesBack(text, offset, rows) \in LineStarts(text)
<1> DEFINE S == 0..Len(text)
           h == Backs(text, offset, rows)
<1>1. \A s \in S : PrevLine(text, s) \in LineStarts(text)
  BY PrevLineStarts DEF PrevLine
<1>2. \A s \in S : PrevLine(text, s) \in S
  BY <1>1
<1>3. BacksStay(text, S, offset, rows)
  <2> HIDE DEF S
  <2>1. offset \in S
    BY DEF S
  <2> QED  BY <1>2, <2>1, BackRepeated
<1>4. h \in [0..rows -> S] /\ h[0] = offset /\ \A k \in 1..rows : h[k] = PrevLine(text, h[k - 1])
  BY <1>3 DEF BacksStay
<1>5. LinesBack(text, offset, rows) = h[rows]
  BY DEF LinesBack, Iterate, h, Backs
<1> HIDE DEF h
<1>6. h[rows] \in S
  BY <1>4
<1>7. ASSUME rows > 0
      PROVE  h[rows] \in LineStarts(text)
  <2>1. rows \in 1..rows /\ rows - 1 \in 0..rows
    BY <1>7
  <2>2. h[rows - 1] \in S /\ h[rows] = PrevLine(text, h[rows - 1])
    BY <1>4, <2>1
  <2> QED  BY <1>1, <2>2
<1>8. ASSUME ~(rows > 0)
      PROVE  h[rows] = offset
  <2>1. rows = 0
    BY <1>8
  <2> QED  BY <1>4, <2>1
<1> QED
  BY <1>5, <1>6, <1>7, <1>8

\* Where a key may go: to the start of a line, or behind the file, if it is exact.
Spots(text, exact) == {b \in Nat : exact => b \in LineStarts(text) \/ b >= Len(text)}
Places(v, exact) ==
    {w \in Views : /\ w.file = v.file /\ w.size = v.size /\ w.mode = v.mode
                   /\ w.maxLine = v.maxLine /\ w.free = v.free
                   /\ w.begin \in Spots(v.file, exact)}

LEMMA PlaceIs ==
    ASSUME NEW v \in Views, NEW exact, NEW w \in Places(v, exact)
    PROVE  /\ w \in Views /\ w.file = v.file /\ w.size = v.size /\ w.mode = v.mode
           /\ w.maxLine = v.maxLine /\ w.free = v.free
           /\ w.begin \in Spots(v.file, exact) /\ w.col \in Nat
           /\ \A b \in Spots(v.file, exact), c \in Nat : MovedTo(w, b, c) \in Places(v, exact)
<1>1. /\ w \in Views /\ w.file = v.file /\ w.size = v.size /\ w.mode = v.mode
      /\ w.maxLine = v.maxLine /\ w.free = v.free /\ w.begin \in Spots(v.file, exact)
  BY DEF Places
<1>2. w.col \in Nat
  BY <1>1 DEF Views
<1>3. ASSUME NEW b \in Spots(v.file, exact), NEW c \in Nat
      PROVE  MovedTo(w, b, c) \in Places(v, exact)
  <2> DEFINE m == MovedTo(w, b, c)
  <2>1. b \in Nat
    BY DEF Spots
  <2>2. m \in Views /\ m.file = w.file /\ m.size = w.size /\ m.mode = w.mode
        /\ m.maxLine = w.maxLine /\ m.free = w.free /\ m.begin = b
    BY <1>1, <2>1 DEF MovedTo, Views
  <2> HIDE DEF m
  <2>3. m \in Places(v, exact)
    BY <1>1, <2>2 DEF Places
  <2> QED  BY <2>3 DEF m
<1> QED
  BY <1>1, <1>2, <1>3

LEMMA StayIs ==
    ASSUME NEW v \in Views, NEW exact, v.begin \in Spots(v.file, exact)
    PROVE  v \in Places(v, exact)
  BY DEF Places

LEMMA MoveIs ==
    ASSUME NEW v \in Views, NEW exact, NEW b \in Spots(v.file, exact), NEW c \in Nat
    PROVE  MovedTo(v, b, c) \in Places(v, exact)
<1> DEFINE m == MovedTo(v, b, c)
<1>1. b \in Nat
  BY DEF Spots
<1>2. m \in Views /\ m.file = v.file /\ m.size = v.size /\ m.mode = v.mode
      /\ m.maxLine = v.maxLine /\ m.free = v.free /\ m.begin = b
  BY <1>1 DEF MovedTo, Views
<1> HIDE DEF m
<1>3. m \in Places(v, exact)
  BY <1>2 DEF Places
<1> QED
  BY <1>3 DEF m

\* The next line, and a page of them.
LEMMA DownFacts ==
    ASSUME AllShort, NEW v \in Views, NEW exact, NEW w \in Places(v, exact)
    PROVE  LineDown(w) \in Places(v, exact)
<1>1. w.file = v.file /\ w.begin \in Spots(v.file, exact) /\ w.col \in Nat
      /\ \A b \in Spots(v.file, exact), c \in Nat : MovedTo(w, b, c) \in Places(v, exact)
  BY PlaceIs
<1>2. Readable(v.file) /\ Len(v.file) \in Nat
  BY FilesReadable DEF Views
<1> DEFINE r == ReadString(v.file, w.begin)
<1>3. w.begin \in Nat /\ LineAt(w) = r /\ Size(w) = Len(v.file)
  BY <1>1 DEF LineAt, Size, Spots
<1>4. /\ (r.ok <=> w.begin < Len(v.file))
      /\ w.begin < Len(v.file) => r.len \in Int /\ r.next \in 0..Len(v.file)
      /\ w.begin < Len(v.file) /\ w.begin \in LineStarts(v.file) /\ r.next < Len(v.file) => r.next \in LineStarts(v.file)
  BY <1>2, <1>3, ReadTypes
<1> HIDE DEF r
<1>5. CASE r.ok /\ r.next < Len(v.file)
  <2>1. w.begin < Len(v.file) /\ r.next \in Nat
    BY <1>2, <1>4, <1>5
  <2>2. exact => w.begin \in LineStarts(v.file)
    BY <1>1, <1>2, <1>3, <2>1 DEF Spots
  <2>3. r.next \in Spots(v.file, exact)
    BY <1>4, <1>5, <2>1, <2>2 DEF Spots
  <2>4. LineDown(w) = MovedTo(w, r.next, w.col)
    BY <1>3, <1>5 DEF LineDown
  <2> QED  BY <1>1, <2>3, <2>4
<1>6. CASE ~(r.ok /\ r.next < Len(v.file))
  BY <1>3, <1>6 DEF LineDown
<1> QED
  BY <1>5, <1>6

LEMMA PageDownFacts ==
    ASSUME AllShort, NEW v \in Views, NEW exact, v.begin \in Spots(v.file, exact)
    PROVE  PageDownPlain(v) \in Places(v, exact)
<1> DEFINE S == Places(v, exact)
           n == Rows(v) - 1
           h == Downs(v, n)
<1>1. n \in Nat
  BY DEF Rows, Views
<1>2. v \in S
  BY StayIs
<1>3. \A s \in S : LineDown(s) \in S
  BY DownFacts
<1>4. DownsStay(S, v, n)
  <2> HIDE DEF S, n
  <2> QED  BY <1>1, <1>2, <1>3, DownRepeated
<1>5. h[n] \in S
  BY <1>1, <1>4 DEF DownsStay
<1>6. PageDownPlain(v) = h[n]
  BY DEF PageDownPlain, Iterate, h, Downs
<1> QED
  BY <1>5, <1>6

LEMMA LongestIs ==
    ASSUME AllShort, NEW v \in Views
    PROVE  Longest(v) \in Int
<1> DEFINE S == [p : Nat, max : Int]
           n == Rows(v)
           base == [p |-> v.begin, max |-> v.maxLine]
           h == Longers(v, base, n)
<1>1. n \in Nat
  BY DEF Rows, Views
<1>2. base \in S
  BY DEF Views
<1>3. ASSUME NEW s \in S
      PROVE  LongerLine(v, s) \in S
  <2> DEFINE r == ReadString(v.file, s.p)
  <2>1. Readable(v.file) /\ Len(v.file) \in Nat /\ s.p \in Nat /\ s.max \in Int
    BY FilesReadable DEF Views
  <2>2. r.ok => r.len \in Int /\ r.next \in 0..Len(v.file)
    BY <2>1, ReadTypes
  <2>3. LongerLine(v, s) = IF ~r.ok THEN s ELSE [p |-> r.next, max |-> AtLeast(s.max, r.len)]
    BY DEF LongerLine
  <2> HIDE DEF r
  <2>4. r.ok => AtLeast(s.max, r.len) \in Int /\ r.next \in Nat
    BY <2>1, <2>2 DEF AtLeast
  <2> QED  BY <2>3, <2>4
<1>4. LongersStay(v, S, base, n)
  <2> HIDE DEF S, n, base
  <2> QED  BY <1>1, <1>2, <1>3, LongestRepeated
<1>5. h[n] \in S
  BY <1>1, <1>4 DEF LongersStay
<1>6. Longest(v) = h[n].max
  BY DEF Longest, Iterate, h, Longers
<1> QED
  BY <1>5, <1>6

\* Places the rows may begin at: as Spots, but not behind the end.
Lines(text, exact) == {b \in 0..Len(text) : exact => b \in LineStarts(text) \/ b = Len(text)}
UpStates(text, exact) == [p : Lines(text, exact), col : Nat, n : Int, r : Int, done : BOOLEAN]

LEMMA LinesAreSpots ==
    ASSUME NEW text, Len(text) \in Nat, NEW exact, NEW b \in Lines(text, exact)
    PROVE  b \in Spots(text, exact) /\ b \in 0..Len(text)
  BY DEF Lines, Spots

LEMMA StartsAreLines ==
    ASSUME NEW text, LineStarts(text) \subseteq 0..Len(text), NEW exact, NEW b \in LineStarts(text)
    PROVE  b \in Lines(text, exact) /\ b \in Spots(text, exact)
  BY DEF Lines, Spots

LEMMA UpPut ==
    ASSUME NEW B, NEW s \in [p : B, col : Nat, n : Int, r : Int, done : BOOLEAN],
           NEW p \in B, NEW c \in Nat, NEW n \in Int, NEW r \in Int, NEW d \in BOOLEAN
    PROVE  /\ [s EXCEPT !.col = c, !.done = d] \in [p : B, col : Nat, n : Int, r : Int, done : BOOLEAN]
           /\ [s EXCEPT !.p = p, !.col = c, !.done = d] \in [p : B, col : Nat, n : Int, r : Int, done : BOOLEAN]
           /\ [s EXCEPT !.p = p, !.col = c, !.r = r, !.n = n] \in [p : B, col : Nat, n : Int, r : Int, done : BOOLEAN]
  OBVIOUS

LEMMA RowsUpStays ==
    ASSUME AllShort, NEW v \in Views, NEW exact, NEW s \in UpStates(v.file, exact)
    PROVE  RowsUp(v, s) \in UpStates(v.file, exact)
<1> DEFINE f == GetPrevLine(v.file, s.p)
           B == Lines(v.file, exact)
<1>1. Readable(v.file) /\ Len(v.file) \in Nat /\ LineStarts(v.file) \subseteq 0..Len(v.file) /\ 0 \in LineStarts(v.file)
  BY FilesReadable DEF Views
<1>2. s \in [p : B, col : Nat, n : Int, r : Int, done : BOOLEAN]
  BY DEF UpStates
<1>3. s.p \in B /\ s.col \in Nat /\ s.n \in Int /\ s.r \in Int /\ s.done \in BOOLEAN /\ s.p \in 0..Len(v.file)
  BY <1>1, <1>2, LinesAreSpots
<1>4. f.at \in LineStarts(v.file) /\ f.cols \in Int
  BY <1>1, <1>3, PrevLineStarts
<1>5. f.at \in B /\ 0 \in B
  BY <1>1, <1>4, StartsAreLines
<1>6. Cols(v) \in Nat /\ Cols(v) > 0
  BY DEF Cols, Views
<1>7. WrapCount(f.cols, Cols(v)) \in Int
  <2> DEFINE c == Cols(v)
  <2>1. c \in Nat /\ c > 0
    BY <1>6
  <2> HIDE DEF c, f
  <2>2. WrapCount(f.cols, c) \in Nat
    BY <1>4, <2>1, WrapIs
  <2> QED  BY <2>2 DEF c
<1> DEFINE T == [p : B, col : Nat, n : Int, r : Int, done : BOOLEAN]
<1>12. UpStates(v.file, exact) = T
  BY DEF UpStates
<1>8. CASE s.done
  BY <1>8 DEF RowsUp
<1>9. CASE ~s.done /\ s.n >= s.r /\ s.n > 0
  <2>1. (s.n - s.r) * Cols(v) \in Nat
    <3>1. s.n - s.r \in Nat
      BY <1>3, <1>9
    <3> QED  BY <1>6, <3>1, SMT
  <2> DEFINE c == (s.n - s.r) * Cols(v)
             t == [s EXCEPT !.col = c, !.done = TRUE]
  <2>2. RowsUp(v, s) = t
    BY <1>9 DEF RowsUp
  <2>3. t \in T
    <3> HIDE DEF B, c
    <3> QED  BY <1>2, <1>3, <2>1, UpPut DEF c
  <2> QED  BY <1>12, <2>2, <2>3
<1>10. CASE ~s.done /\ ~(s.n >= s.r /\ s.n > 0) /\ (s.p <= 0 \/ f.at = 0)
  <2> DEFINE t == [s EXCEPT !.p = 0, !.col = 0, !.done = TRUE]
  <2>1. RowsUp(v, s) = t
    BY <1>10 DEF RowsUp
  <2>2. t \in T
    <3> HIDE DEF B
    <3> QED  BY <1>2, <1>3, <1>5, UpPut
  <2> QED  BY <1>12, <2>1, <2>2
<1>11. CASE ~s.done /\ ~(s.n >= s.r /\ s.n > 0) /\ ~(s.p <= 0 \/ f.at = 0)
  <2> DEFINE a == f.at
             w == WrapCount(f.cols, Cols(v))
             d == s.r - s.n
             t == [s EXCEPT !.p = a, !.col = 0, !.r = d, !.n = w]
  <2>1. RowsUp(v, s) = t
    BY <1>11 DEF RowsUp
  <2>2. d \in Int /\ a \in B /\ w \in Int
    BY <1>3, <1>5, <1>7
  <2>3. t \in T
    <3> HIDE DEF B, f, a, w, d
    <3> QED  BY <1>2, <1>3, <2>2, UpPut
  <2> QED  BY <1>12, <2>1, <2>3
<1> QED
  BY <1>3, <1>8, <1>9, <1>10, <1>11

LEMMA RowsBackFacts ==
    ASSUME AllShort, NEW v \in Views, NEW exact, NEW from \in Lines(v.file, exact), NEW rows \in Int, NEW r \in Nat
    PROVE  RowsBack(v, from, rows, r).p \in Spots(v.file, exact) /\ RowsBack(v, from, rows, r).col \in Nat
<1> DEFINE S == UpStates(v.file, exact)
           n == 2 * (r + 1)
           base == [p |-> from, col |-> v.col, n |-> rows, r |-> r, done |-> FALSE]
           h == RowsUps(v, base, n)
<1>1. n \in Nat
  OBVIOUS
<1>2. base \in S
  <2>1. v.col \in Nat
    BY DEF Views
  <2> QED  BY <2>1 DEF UpStates
<1>3. \A s \in S : RowsUp(v, s) \in S
  BY RowsUpStays
<1>4. RowsUpsStay(v, S, base, n)
  <2> HIDE DEF S, n, base
  <2> QED  BY <1>1, <1>2, <1>3, RowsUpRepeated
<1>5. h[n] \in S
  <2> HIDE DEF S, n, base
  <2> QED  BY <1>1, <1>4 DEF RowsUpsStay
<1>6. RowsBack(v, from, rows, r) = h[n]
  BY DEF RowsBack, Iterate, h, RowsUps
<1> HIDE DEF h, n
<1>7. h[n].p \in Lines(v.file, exact) /\ h[n].col \in Nat
  BY <1>5 DEF UpStates
<1>8. Len(v.file) \in Nat
  BY FilesReadable DEF Views
<1> QED
  BY <1>6, <1>7, <1>8, LinesAreSpots

DownStates(text, exact) == [p : Spots(text, exact), col : Nat, r : Int]

LEMMA DownPut ==
    ASSUME NEW B, NEW s \in [p : B, col : Nat, r : Int], NEW c \in Nat, NEW r \in Int
    PROVE  [s EXCEPT !.col = c, !.r = r] \in [p : B, col : Nat, r : Int]
  OBVIOUS

LEMMA RowsDownStays ==
    ASSUME AllShort, NEW v \in Views, NEW exact, NEW s \in DownStates(v.file, exact)
    PROVE  RowsDown(v, s) \in DownStates(v.file, exact)
<1> DEFINE l == ReadString(v.file, s.p)
           c == Cols(v)
           n == WrapCount(l.len, c) - ((s.col + c - 1) \div c)
           B == Spots(v.file, exact)
<1>1. Readable(v.file) /\ Len(v.file) \in Nat
  BY FilesReadable DEF Views
<1>2. s \in [p : B, col : Nat, r : Int] /\ s.p \in B /\ s.col \in Nat /\ s.r \in Int /\ s.p \in Nat
  BY DEF DownStates, Spots
<1>3. c \in Nat /\ c > 0
  BY DEF Cols, Views
<1>4. /\ (l.ok <=> s.p < Len(v.file))
      /\ s.p < Len(v.file) => l.len \in Int /\ l.next \in 0..Len(v.file)
      /\ s.p < Len(v.file) /\ s.p \in LineStarts(v.file) /\ l.next < Len(v.file) => l.next \in LineStarts(v.file)
  BY <1>1, <1>2, ReadTypes
<1>5. l.ok => n \in Int
  <2>1. s.col + c - 1 \in Nat
    BY <1>2, <1>3
  <2>2. (s.col + c - 1) \div c \in Nat
    <3> DEFINE y == s.col + c - 1
    <3> HIDE DEF y, c
    <3>1. y \in Nat
      BY <2>1 DEF y
    <3>2. y \div c \in Nat
      BY <1>3, <3>1, QuotientIs
    <3> QED  BY <3>2 DEF y
  <2>3. l.ok => WrapCount(l.len, c) \in Nat
    <3> HIDE DEF c, l
    <3> QED  BY <1>3, <1>4, WrapIs
  <2> HIDE DEF c, l
  <2> QED  BY <2>2, <2>3
<1>6. RowsDown(v, s) =
        IF s.r <= 0 THEN s
        ELSE IF ~l.ok \/ n < 0 THEN [s EXCEPT !.r = 0]
        ELSE IF n >= s.r THEN [s EXCEPT !.col = s.col + s.r * c, !.r = 0]
        ELSE IF l.next >= Len(v.file) THEN [s EXCEPT !.col = AtLeast(n - 1, 0) * c, !.r = 0]
        ELSE [p |-> l.next, col |-> 0, r |-> s.r - n]
  BY DEF RowsDown, Size
<1> HIDE DEF n, c, l, B
<1>7. CASE s.r <= 0 \/ ~l.ok \/ n < 0
  <2>1. RowsDown(v, s) = s \/ RowsDown(v, s) = [s EXCEPT !.r = 0]
    BY <1>6, <1>7
  <2> QED  BY <1>2, <2>1 DEF DownStates, B
<1>8. CASE ~(s.r <= 0) /\ l.ok /\ ~(n < 0) /\ n >= s.r
  <2> DEFINE d == s.col + s.r * c
  <2>1. RowsDown(v, s) = [s EXCEPT !.col = d, !.r = 0]
    BY <1>6, <1>8
  <2>2. d \in Nat
    <3>1. s.r \in Nat
      BY <1>2, <1>8
    <3>2. s.r * c \in Nat
      BY <1>3, <3>1, SMT
    <3> QED  BY <1>2, <3>2
  <2> HIDE DEF d
  <2> PICK z \in Int : z = 0
    OBVIOUS
  <2>3. [s EXCEPT !.col = d, !.r = z] \in [p : B, col : Nat, r : Int]
    BY <1>2, <2>2, DownPut
  <2> QED  BY <2>1, <2>3 DEF DownStates, B
<1>9. CASE ~(s.r <= 0) /\ l.ok /\ ~(n < 0) /\ ~(n >= s.r) /\ l.next >= Len(v.file)
  <2> DEFINE d == AtLeast(n - 1, 0) * c
  <2>1. RowsDown(v, s) = [s EXCEPT !.col = d, !.r = 0]
    BY <1>6, <1>9
  <2>2. d \in Nat
    <3>1. AtLeast(n - 1, 0) \in Nat
      BY <1>5, <1>9 DEF AtLeast
    <3> QED  BY <1>3, <3>1, SMT
  <2> HIDE DEF d
  <2> PICK z \in Int : z = 0
    OBVIOUS
  <2>3. [s EXCEPT !.col = d, !.r = z] \in [p : B, col : Nat, r : Int]
    BY <1>2, <2>2, DownPut
  <2> QED  BY <2>1, <2>3 DEF DownStates, B
<1>10. CASE ~(s.r <= 0) /\ l.ok /\ ~(n < 0) /\ ~(n >= s.r) /\ ~(l.next >= Len(v.file))
  <2>1. RowsDown(v, s) = [p |-> l.next, col |-> 0, r |-> s.r - n]
    BY <1>6, <1>10
  <2>2. l.next \in Nat /\ l.next < Len(v.file) /\ s.p < Len(v.file)
    BY <1>1, <1>4, <1>10
  <2>3. exact => s.p \in LineStarts(v.file)
    BY <1>1, <1>2, <2>2 DEF B, Spots
  <2>4. l.next \in B
    BY <1>4, <2>2, <2>3 DEF B, Spots
  <2>5. s.r - n \in Int
    BY <1>2, <1>5, <1>10
  <2> QED  BY <2>1, <2>4, <2>5 DEF DownStates, B
<1> QED
  BY <1>7, <1>8, <1>9, <1>10

LEMMA WrapPageDownFacts ==
    ASSUME AllShort, NEW v \in Views, NEW exact, v.begin \in Spots(v.file, exact)
    PROVE  WrapPageDown(v) \in Places(v, exact)
<1> DEFINE S == DownStates(v.file, exact)
           n == Size(v) + 1
           base == [p |-> v.begin, col |-> v.col, r |-> Page(v)]
           h == RowsDowns(v, base, n)
<1>1. n \in Nat
  BY FilesReadable DEF Size, Views
<1>2. base \in S
  <2>1. v.col \in Nat /\ Rows(v) \in Nat
    BY DEF Views, Rows
  <2>2. Page(v) \in Int
    BY <2>1 DEF Page, AtLeast
  <2> QED  BY <2>1, <2>2 DEF DownStates
<1>3. \A s \in S : RowsDown(v, s) \in S
  BY RowsDownStays
<1>4. RowsDownsStay(v, S, base, n)
  <2> HIDE DEF S, n, base
  <2> QED  BY <1>1, <1>2, <1>3, RowsDownRepeated
<1>5. h[n] \in S
  <2> HIDE DEF S, n, base
  <2> QED  BY <1>1, <1>4 DEF RowsDownsStay
<1>6. WrapPageDown(v) = MovedTo(v, h[n].p, h[n].col)
  BY DEF WrapPageDown, Iterate, h, RowsDowns
<1> HIDE DEF h, n
<1>7. h[n].p \in Spots(v.file, exact) /\ h[n].col \in Nat
  BY <1>5 DEF DownStates
<1> QED
  BY <1>6, <1>7, MoveIs

\* Whether a key, in a mode with lines, leads to the start of one.
Exact(v, event, track) ==
    /\ event # "SET" /\ (event = "FOUND" => Found(v, track).nl)
    /\ v.free => event \in Aligning
AllKeys == Untracked \union Tracked

LEMMA ColIs ==
    ASSUME NEW v \in Views, NEW exact, v.begin \in Spots(v.file, exact), NEW c \in Nat
    PROVE  [v EXCEPT !.col = c] \in Places(v, exact)
<1> DEFINE m == [v EXCEPT !.col = c]
<1>1. m \in Views /\ m.file = v.file /\ m.size = v.size /\ m.mode = v.mode
      /\ m.maxLine = v.maxLine /\ m.free = v.free /\ m.begin = v.begin
  BY DEF Views
<1> HIDE DEF m
<1>2. m \in Places(v, exact)
  BY <1>1 DEF Places
<1> QED
  BY <1>2 DEF m

LEMMA SidewaysFacts ==
    ASSUME NEW v \in Views, NEW exact, v.begin \in Spots(v.file, exact), NEW event \in SidewaysKeys, NEW track \in Nat
    PROVE  Sideways(v, event, track) \in Places(v, exact)
<1> DEFINE w == Cols(v)
           rest == v.maxLine - (v.col + w)
           left(n) == IF v.col > n THEN v.col - n ELSE 0
           right(n) == v.col + AtLeast(0, AtMost(n, rest))
           hold == AtLeast(0, AtMost(track, v.maxLine - w))
<1>1. w \in Nat /\ w > 0 /\ v.col \in Nat /\ v.maxLine \in Int /\ VtStep \in Nat
  BY ViewedAssumption DEF Cols, Views
<1>2. \A n \in Nat : left(n) \in Nat
  BY <1>1
<1>3. \A n \in Nat : right(n) \in Nat
  <2>1. rest \in Int
    BY <1>1
  <2> HIDE DEF rest
  <2> QED  BY <1>1, <2>1 DEF AtLeast, AtMost
<1>4. hold \in Nat
  BY <1>1 DEF AtLeast, AtMost
<1>5. w - 1 \in Nat /\ 1 \in Nat
  BY <1>1
<1>6. CASE event = "LEFT"
  <2>1. Sideways(v, event, track) = [v EXCEPT !.col = left(1)]
    BY <1>6 DEF Sideways
  <2>2. left(1) \in Nat
    BY <1>2, <1>5
  <2> HIDE DEF left
  <2> QED  BY <2>1, <2>2, ColIs
<1>7. CASE event = "RIGHT"
  <2>1. Sideways(v, event, track) = [v EXCEPT !.col = right(1)]
    BY <1>7 DEF Sideways
  <2>2. right(1) \in Nat
    BY <1>3, <1>5
  <2> HIDE DEF right
  <2> QED  BY <2>1, <2>2, ColIs
<1>8. CASE event = "LEFTSTEP"
  <2>1. Sideways(v, event, track) = [v EXCEPT !.col = left(VtStep)]
    BY <1>8 DEF Sideways
  <2>2. left(VtStep) \in Nat
    BY <1>1, <1>2
  <2> HIDE DEF left
  <2> QED  BY <2>1, <2>2, ColIs
<1>9. CASE event = "RIGHTSTEP"
  <2>1. Sideways(v, event, track) = [v EXCEPT !.col = right(VtStep)]
    BY <1>9 DEF Sideways
  <2>2. right(VtStep) \in Nat
    BY <1>1, <1>3
  <2> HIDE DEF right
  <2> QED  BY <2>1, <2>2, ColIs
<1>10. CASE event = "PAGELEFT"
  <2>1. Sideways(v, event, track) = IF w > 1 THEN [v EXCEPT !.col = left(w - 1)] ELSE v
    BY <1>10 DEF Sideways
  <2>2. left(w - 1) \in Nat
    BY <1>2, <1>5
  <2> HIDE DEF left, w
  <2>3. [v EXCEPT !.col = left(w - 1)] \in Places(v, exact)
    BY <2>2, ColIs
  <2> QED  BY <2>1, <2>3, StayIs
<1>11. CASE event = "PAGERIGHT"
  <2>1. Sideways(v, event, track) = [v EXCEPT !.col = right(w - 1)]
    BY <1>11 DEF Sideways
  <2>2. right(w - 1) \in Nat
    BY <1>3, <1>5
  <2> HIDE DEF right, w
  <2> QED  BY <2>1, <2>2, ColIs
<1>12. CASE event = "HTRACK"
  <2>1. Sideways(v, event, track) = [v EXCEPT !.col = hold]
    BY <1>12 DEF Sideways
  <2> HIDE DEF hold
  <2> QED  BY <1>4, <2>1, ColIs
<1> QED
  BY <1>6, <1>7, <1>8, <1>9, <1>10, <1>11, <1>12 DEF SidewaysKeys

\* What a view that is placed has, for the keys.
LEMMA PlacedFacts ==
    ASSUME AllShort, NEW v, Placed(v)
    PROVE  /\ v \in Views /\ Readable(v.file) /\ Len(v.file) \in Nat /\ v.begin \in 0..Len(v.file)
           /\ LineStarts(v.file) \subseteq 0..Len(v.file) /\ 0 \in LineStarts(v.file)
           /\ Rows(v) \in Nat /\ Rows(v) > 0 /\ Cols(v) \in Nat /\ Cols(v) > 0 /\ v.col \in Nat
           /\ Size(v) = Len(v.file) /\ (~v.free => v.begin \in LineStarts(v.file))
<1>1. v \in Views /\ v.begin \in 0..AtLeast(Len(v.file) - 1, 0) /\ (~v.free => v.begin \in LineStarts(v.file))
  BY DEF Placed
<1>2. Readable(v.file) /\ Len(v.file) \in Nat /\ LineStarts(v.file) \subseteq 0..Len(v.file) /\ 0 \in LineStarts(v.file)
  BY <1>1, FilesReadable DEF Views
<1>3. v.begin \in 0..Len(v.file)
  BY <1>1, <1>2 DEF AtLeast
<1>4. Rows(v) \in Nat /\ Rows(v) > 0 /\ Cols(v) \in Nat /\ Cols(v) > 0 /\ v.col \in Nat
  BY <1>1 DEF Rows, Cols, Views
<1> QED
  BY <1>1, <1>2, <1>3, <1>4 DEF Size

LEMMA AlignIs ==
    ASSUME NEW text, Len(text) \in Nat, NEW x \in Int
    PROVE  Align(text, x) \in 0..Len(text)
  BY DEF Align, AtLeast, AtMost

LEMMA SpotsAre ==
    ASSUME NEW text, LineStarts(text) \subseteq 0..Len(text), NEW b \in LineStarts(text), NEW exact
    PROVE  b \in Spots(text, exact)
  BY DEF Spots

LEMMA BeginIs ==
    ASSUME AllShort, NEW v, Placed(v), NEW event, event \notin Aligning, NEW track
    PROVE  v.begin \in Spots(v.file, Exact(v, event, track)) /\ v.begin \in Lines(v.file, Exact(v, event, track))
<1>1. v.begin \in 0..Len(v.file) /\ Len(v.file) \in Nat /\ (~v.free => v.begin \in LineStarts(v.file))
  BY PlacedFacts
<1>2. Exact(v, event, track) => ~v.free
  BY DEF Exact
<1> QED
  BY <1>1, <1>2 DEF Spots, Lines

LEMMA PlainFacts ==
    ASSUME AllShort, NEW v, Placed(v), NEW event \in AllKeys, NEW track \in 0..Size(v)
    PROVE  PlainKey(v, event, track) \in Places(v, Exact(v, event, track))
<1> DEFINE e == Exact(v, event, track)
           f == Found(v, track)
           w == PlainKey(v, event, track)
           S == Spots(v.file, e)
<1>1. /\ v \in Views /\ Readable(v.file) /\ Len(v.file) \in Nat /\ v.begin \in 0..Len(v.file)
      /\ LineStarts(v.file) \subseteq 0..Len(v.file) /\ 0 \in LineStarts(v.file)
      /\ Rows(v) \in Nat /\ Rows(v) > 0 /\ Cols(v) \in Nat /\ Cols(v) > 0 /\ v.col \in Nat
      /\ Size(v) = Len(v.file) /\ (~v.free => v.begin \in LineStarts(v.file))
  BY PlacedFacts
<1>2. track \in Nat /\ 0 \in Nat
  BY <1>1
<1>3. \A b \in LineStarts(v.file) : b \in S
  BY <1>1, SpotsAre
<1>4. event \notin Aligning => v.begin \in S
  BY BeginIs
<1>5. \A b \in S, c \in Nat : MovedTo(v, b, c) \in Places(v, e)
  <2> HIDE DEF e
  <2> QED  BY <1>1, MoveIs
<1>6. f.at \in LineStarts(v.file) /\ f.cols \in Int
  <2> DEFINE a == Align(v.file, track + 1)
  <2>1. track + 1 \in Int
    BY <1>2
  <2>2. a \in 0..Len(v.file)
    BY <1>1, <2>1, AlignIs
  <2>3. f = GetPrevLine(v.file, a)
    BY DEF Found
  <2> HIDE DEF f, a
  <2> QED  BY <1>1, <2>2, <2>3, PrevLineStarts
<1>7. CASE event = "SET"
  <2>1. ~e
    BY <1>7 DEF Exact
  <2>2. AtLeast(0, track) \in Nat
    BY <1>2 DEF AtLeast
  <2>3. AtLeast(0, track) \in S
    BY <2>1, <2>2 DEF Spots
  <2>4. w = MovedTo(v, AtLeast(0, track), 0)
    BY <1>7 DEF PlainKey, SidewaysKeys
  <2> HIDE DEF e, S, w
  <2>5. w \in Places(v, e)
    BY <1>2, <1>5, <2>3, <2>4
  <2> QED  BY <2>5 DEF e, w
<1>8. CASE event = "HOME"
  <2>1. w = MovedTo(v, 0, 0)
    BY <1>8 DEF PlainKey, SidewaysKeys
  <2> HIDE DEF e, S, w
  <2>2. w \in Places(v, e)
    BY <1>1, <1>2, <1>3, <1>5, <2>1
  <2> QED  BY <2>2 DEF e, w
<1>9. CASE event = "END"
  <2>1. w = MovedTo(v, LinesBack(v.file, Size(v), Rows(v)), 0)
    BY <1>9 DEF PlainKey, SidewaysKeys
  <2>2. Len(v.file) \in 0..Len(v.file)
    BY <1>1
  <2>3. LinesBack(v.file, Size(v), Rows(v)) \in LineStarts(v.file)
    BY <1>1, <2>2, BackFacts
  <2> HIDE DEF e, S, w
  <2>4. w \in Places(v, e)
    BY <1>2, <1>3, <1>5, <2>1, <2>3
  <2> QED  BY <2>4 DEF e, w
<1>10. CASE event = "DOWN"
  <2>1. w = LineDown(v) /\ event \notin Aligning
    BY <1>10 DEF PlainKey, SidewaysKeys, Aligning
  <2> HIDE DEF e, w
  <2>2. v \in Places(v, e)
    BY <1>1, <1>4, <2>1, StayIs
  <2>3. w \in Places(v, e)
    BY <1>1, <2>1, <2>2, DownFacts
  <2> QED  BY <2>3 DEF e, w
<1>11. CASE event = "UP"
  <2>1. w = MovedTo(v, PrevLine(v.file, v.begin), v.col)
    BY <1>11 DEF PlainKey, SidewaysKeys
  <2>2. PrevLine(v.file, v.begin) \in LineStarts(v.file)
    BY <1>1, PrevLineStarts DEF PrevLine
  <2> HIDE DEF e, S, w
  <2>3. w \in Places(v, e)
    BY <1>1, <1>3, <1>5, <2>1, <2>2
  <2> QED  BY <2>3 DEF e, w
<1>12. CASE event = "VTRACK"
  <2>1. w = MovedTo(v, PrevLine(v.file, Align(v.file, track)), v.col)
    BY <1>12 DEF PlainKey, SidewaysKeys
  <2>2. track \in Int
    BY <1>2
  <2>3. Align(v.file, track) \in 0..Len(v.file)
    BY <1>1, <2>2, AlignIs
  <2>4. PrevLine(v.file, Align(v.file, track)) \in LineStarts(v.file)
    BY <1>1, <2>3, PrevLineStarts DEF PrevLine
  <2> HIDE DEF e, S, w
  <2>5. w \in Places(v, e)
    BY <1>1, <1>3, <1>5, <2>1, <2>4
  <2> QED  BY <2>5 DEF e, w
<1>13. CASE event = "FOUND"
  <2>1. w = IF ~f.nl THEN MovedTo(v, track, 0)
            ELSE MovedTo(v, f.at, IF v.col + Cols(v) <= f.cols THEN AtLeast(f.cols - 5, 0) ELSE v.col)
    BY <1>13 DEF PlainKey, SidewaysKeys
  <2>2. ~f.nl => ~e
    BY <1>13 DEF Exact
  <2>3. ~f.nl => track \in S
    BY <1>2, <2>2 DEF Spots
  <2> HIDE DEF f
  <2>4. AtLeast(f.cols - 5, 0) \in Nat
    BY <1>6 DEF AtLeast
  <2>5. (IF v.col + Cols(v) <= f.cols THEN AtLeast(f.cols - 5, 0) ELSE v.col) \in Nat
    BY <1>1, <2>4
  <2> HIDE DEF e, S, w
  <2>6. w \in Places(v, e)
    BY <1>2, <1>3, <1>5, <1>6, <2>1, <2>3, <2>5
  <2> QED  BY <2>6 DEF e, w
<1>14. CASE event = "PAGEUP"
  <2> DEFINE n == Rows(v) - 1
             b == LinesBack(v.file, v.begin, n)
  <2>1. w = MovedTo(v, b, v.col)
    BY <1>14 DEF PlainKey, SidewaysKeys
  <2>2. n \in Nat
    BY <1>1
  <2>3. b \in 0..Len(v.file) /\ (v.begin \in LineStarts(v.file) => b \in LineStarts(v.file))
    <3> HIDE DEF n
    <3> QED  BY <1>1, <2>2, BackFacts
  <2>4. e => ~v.free
    BY <1>14 DEF Exact, Aligning
  <2>5. b \in S
    <3> HIDE DEF e, b
    <3> QED  BY <1>1, <2>3, <2>4 DEF Spots
  <2> HIDE DEF e, S, w, b
  <2>6. w \in Places(v, e)
    BY <1>1, <1>5, <2>1, <2>5
  <2> QED  BY <2>6 DEF e, w
<1>15. CASE event = "PAGEDOWN"
  <2>1. w = PageDownPlain(v) /\ event \notin Aligning
    BY <1>15 DEF PlainKey, SidewaysKeys, Aligning
  <2> HIDE DEF e, w
  <2>2. w \in Places(v, e)
    BY <1>1, <1>4, <2>1, PageDownFacts
  <2> QED  BY <2>2 DEF e, w
<1>16. CASE event \in SidewaysKeys
  <2>1. w = Sideways(v, event, track) /\ event \notin Aligning
    BY <1>16 DEF PlainKey, Aligning, SidewaysKeys
  <2> HIDE DEF e, w
  <2>2. w \in Places(v, e)
    BY <1>1, <1>2, <1>4, <1>16, <2>1, SidewaysFacts
  <2> QED  BY <2>2 DEF e, w
<1> QED
  BY <1>7, <1>8, <1>9, <1>10, <1>11, <1>12, <1>13, <1>14, <1>15, <1>16
     DEF AllKeys, Tracked, Untracked, SidewaysKeys

LEMMA WrapFacts ==
    ASSUME AllShort, NEW v, Placed(v), NEW event \in AllKeys, NEW track \in 0..Size(v)
    PROVE  WrapKey(v, event, track) \in Places(v, Exact(v, event, track))
<1> DEFINE e == Exact(v, event, track)
           f == Found(v, track)
           w == WrapKey(v, event, track)
           S == Spots(v.file, e)
<1>1. /\ v \in Views /\ Readable(v.file) /\ Len(v.file) \in Nat /\ v.begin \in 0..Len(v.file)
      /\ LineStarts(v.file) \subseteq 0..Len(v.file) /\ 0 \in LineStarts(v.file)
      /\ Rows(v) \in Nat /\ Rows(v) > 0 /\ Cols(v) \in Nat /\ Cols(v) > 0 /\ v.col \in Nat
      /\ Size(v) = Len(v.file) /\ (~v.free => v.begin \in LineStarts(v.file))
  BY PlacedFacts
<1>2. track \in Nat /\ 0 \in Nat
  BY <1>1
<1>3. \A b \in LineStarts(v.file) : b \in S
  BY <1>1, SpotsAre
<1>4. event \notin Aligning => v.begin \in S
  BY BeginIs
<1>5. \A b \in S, c \in Nat : MovedTo(v, b, c) \in Places(v, e)
  <2> HIDE DEF e
  <2> QED  BY <1>1, MoveIs
<1>6. \A b \in 0..Len(v.file) :
        LET g == GetPrevLine(v.file, b) IN g.at \in S /\ LastRow(v, g) \in Nat
  <2> SUFFICES ASSUME NEW b \in 0..Len(v.file)
               PROVE  LET g == GetPrevLine(v.file, b) IN g.at \in S /\ LastRow(v, g) \in Nat
    OBVIOUS
  <2> DEFINE g == GetPrevLine(v.file, b)
             c == Cols(v)
             n == WrapCount(g.cols, c)
  <2>1. g.at \in LineStarts(v.file) /\ g.cols \in Int
    BY <1>1, PrevLineStarts
  <2>2. n \in Nat /\ n >= 1
    <3>1. c \in Nat /\ c > 0
      BY <1>1
    <3> HIDE DEF c, g
    <3> QED  BY <2>1, <3>1, WrapIs
  <2>3. (n - 1) * c \in Nat
    <3>1. n - 1 \in Nat /\ c \in Nat
      BY <1>1, <2>2
    <3> HIDE DEF n, c
    <3> QED  BY <3>1, SMT
  <2>4. LastRow(v, g) = (n - 1) * c
    BY DEF LastRow
  <2> HIDE DEF g, n, c, S, e
  <2>5. g.at \in S /\ LastRow(v, g) \in Nat
    BY <1>3, <2>1, <2>3, <2>4
  <2> QED  BY <2>5 DEF g, S, e
<1>7. f.at \in S /\ LastRow(v, f) \in Nat
  <2> DEFINE a == Align(v.file, track + 1)
  <2>1. track + 1 \in Int
    BY <1>2
  <2>2. a \in 0..Len(v.file)
    BY <1>1, <2>1, AlignIs
  <2>3. f = GetPrevLine(v.file, a)
    BY DEF Found
  <2> HIDE DEF f, a, e, S
  <2> QED  BY <1>6, <2>2, <2>3
<1>8. CASE event = "SET"
  <2>1. ~e
    BY <1>8 DEF Exact
  <2>2. AtLeast(0, track) \in Nat
    BY <1>2 DEF AtLeast
  <2>3. AtLeast(0, track) \in S
    BY <2>1, <2>2 DEF Spots
  <2>4. w = MovedTo(v, AtLeast(0, track), 0)
    BY <1>8 DEF WrapKey
  <2> HIDE DEF e, S, w
  <2>5. w \in Places(v, e)
    BY <1>2, <1>5, <2>3, <2>4
  <2> QED  BY <2>5 DEF e, w
<1>9. CASE event = "HOME"
  <2>1. w = MovedTo(v, 0, 0)
    BY <1>9 DEF WrapKey
  <2> HIDE DEF e, S, w
  <2>2. w \in Places(v, e)
    BY <1>1, <1>2, <1>3, <1>5, <2>1
  <2> QED  BY <2>2 DEF e, w
<1>10. CASE event = "END"
  <2> DEFINE s == RowsBack(v, Size(v), 0, Rows(v))
             c == IF s.done THEN s.col ELSE 0
  <2>1. w = MovedTo(v, s.p, c)
    BY <1>10 DEF WrapKey, WrapEnd
  <2> HIDE DEF e, w
  <2>2. Len(v.file) \in Lines(v.file, e)
    BY <1>1 DEF Lines
  <2>3. s.p \in S /\ s.col \in Nat
    <3>1. Size(v) \in Lines(v.file, e) /\ Rows(v) \in Nat /\ 0 \in Int
      BY <1>1, <2>2
    <3>2. \A x \in Int : /\ RowsBack(v, Size(v), x, Rows(v)).p \in S
                        /\ RowsBack(v, Size(v), x, Rows(v)).col \in Nat
      BY <1>1, <3>1, RowsBackFacts
    <3> HIDE DEF S
    <3> QED  BY <3>1, <3>2
  <2> HIDE DEF S, s
  <2>4. w \in Places(v, e)
    BY <1>2, <1>5, <2>1, <2>3
  <2> QED  BY <2>4 DEF e, w
<1>11. CASE event = "DOWN"
  <2> DEFINE l == LineAt(v)
  <2>1. w = IF ~l.ok THEN v
            ELSE IF l.len - v.col >= Cols(v) THEN MovedTo(v, v.begin, v.col + Cols(v))
            ELSE IF l.next < Size(v) THEN MovedTo(v, l.next, 0) ELSE v
    BY <1>11 DEF WrapKey
  <2>2. event \notin Aligning /\ (e => v.begin \in LineStarts(v.file))
    BY <1>1, <1>11 DEF Aligning, Exact
  <2>3. v \in Places(v, e)
    <3> HIDE DEF e
    <3> QED  BY <1>1, <1>4, <2>2, StayIs
  <2>4. l.ok /\ l.next < Size(v) => l.next \in S
    <3>1. v.begin \in Nat
      BY <1>1
    <3>2. /\ (l.ok <=> v.begin < Len(v.file))
          /\ v.begin < Len(v.file) => l.next \in 0..Len(v.file)
          /\ v.begin < Len(v.file) /\ v.begin \in LineStarts(v.file) /\ l.next < Len(v.file)
             => l.next \in LineStarts(v.file)
      BY <1>1, <3>1, ReadTypes DEF LineAt
    <3> HIDE DEF l, e
    <3> QED  BY <1>1, <2>2, <3>2 DEF Spots
  <2>5. v.col + Cols(v) \in Nat
    BY <1>1
  <2> HIDE DEF e, S, w, l
  <2>6. w \in Places(v, e)
    BY <1>2, <1>4, <1>5, <2>1, <2>2, <2>3, <2>4, <2>5
  <2> QED  BY <2>6 DEF e, w
<1>12. CASE event = "UP"
  <2> DEFINE g == GetPrevLine(v.file, v.begin)
  <2>1. w = IF v.col > 0 THEN MovedTo(v, v.begin, AtLeast(v.col - Cols(v), 0))
            ELSE IF v.begin > 0 THEN MovedTo(v, g.at, LastRow(v, g)) ELSE v
    BY <1>12 DEF WrapKey
  <2>2. event \notin Aligning
    BY <1>12 DEF Aligning
  <2>3. v \in Places(v, e)
    <3> HIDE DEF e
    <3> QED  BY <1>1, <1>4, <2>2, StayIs
  <2>4. g.at \in S /\ LastRow(v, g) \in Nat
    <3> HIDE DEF e, S
    <3> QED  BY <1>1, <1>6
  <2>5. AtLeast(v.col - Cols(v), 0) \in Nat
    BY <1>1 DEF AtLeast
  <2> HIDE DEF e, S, w, g
  <2>6. w \in Places(v, e)
    BY <1>4, <1>5, <2>1, <2>2, <2>3, <2>4, <2>5
  <2> QED  BY <2>6 DEF e, w
<1>13. CASE event = "VTRACK"
  <2> DEFINE a == Align(v.file, track)
  <2>1. w = MovedTo(v, GetPrevLine(v.file, a).at, 0)
    BY <1>13 DEF WrapKey, PrevLine
  <2>2. track \in Int
    BY <1>2
  <2>3. a \in 0..Len(v.file)
    BY <1>1, <2>2, AlignIs
  <2> HIDE DEF e, S, w, a
  <2>4. w \in Places(v, e)
    BY <1>2, <1>5, <1>6, <2>1, <2>3
  <2> QED  BY <2>4 DEF e, w
<1>14. CASE event = "FOUND"
  <2>1. w = IF f.nl THEN MovedTo(v, f.at, LastRow(v, f)) ELSE MovedTo(v, track, 0)
    BY <1>14 DEF WrapKey
  <2>2. ~f.nl => ~e
    BY <1>14 DEF Exact
  <2>3. ~f.nl => track \in S
    BY <1>2, <2>2 DEF Spots
  <2> HIDE DEF f, e, S, w
  <2>4. w \in Places(v, e)
    BY <1>2, <1>5, <1>7, <2>1, <2>3
  <2> QED  BY <2>4 DEF e, w
<1>15. CASE event = "PAGEUP"
  <2> DEFINE n == WrapCount(v.col, Cols(v))
             rows == n * (IF v.col > 0 THEN 1 ELSE 0)
             s == RowsBack(v, v.begin, rows, Page(v))
  <2>1. w = IF v.begin > 0 THEN MovedTo(v, s.p, s.col) ELSE v
    BY <1>15 DEF WrapKey, WrapPageUp
  <2>2. rows \in Int
    <3> DEFINE c == Cols(v)
    <3>1. c \in Nat /\ c > 0 /\ v.col \in Int
      BY <1>1
    <3>2. n \in Nat
      <4> HIDE DEF c
      <4>1. WrapCount(v.col, c) \in Nat
        BY <3>1, WrapIs
      <4> QED  BY <4>1 DEF c
    <3> HIDE DEF n
    <3> QED  BY <3>1, <3>2
  <2>3. Page(v) \in Nat
    BY <1>1 DEF Page, AtLeast
  <2>4. event \notin Aligning
    BY <1>15 DEF Aligning
  <2>5. v.begin \in Lines(v.file, e)
    BY <2>4, BeginIs
  <2> HIDE DEF e, w, rows
  <2>6. s.p \in S /\ s.col \in Nat
    <3>1. \A x \in Int : /\ RowsBack(v, v.begin, x, Page(v)).p \in S
                        /\ RowsBack(v, v.begin, x, Page(v)).col \in Nat
      BY <1>1, <2>3, <2>5, RowsBackFacts
    <3> HIDE DEF S
    <3> QED  BY <2>2, <3>1 DEF rows
  <2>7. v \in Places(v, e)
    BY <1>1, <1>4, <2>4, StayIs
  <2> HIDE DEF S, s
  <2>8. w \in Places(v, e)
    BY <1>5, <2>1, <2>6, <2>7
  <2> QED  BY <2>8 DEF e, w
<1>16. CASE event = "PAGEDOWN"
  <2>1. w = WrapPageDown(v) /\ event \notin Aligning
    BY <1>16 DEF WrapKey, Aligning
  <2> HIDE DEF e, w
  <2>2. w \in Places(v, e)
    BY <1>1, <1>4, <2>1, WrapPageDownFacts
  <2> QED  BY <2>2 DEF e, w
<1>17. CASE event \in SidewaysKeys
  <2>1. w = v /\ event \notin Aligning
    BY <1>17 DEF WrapKey, Aligning, SidewaysKeys
  <2> HIDE DEF e, w
  <2>2. w \in Places(v, e)
    BY <1>1, <1>4, <2>1, StayIs
  <2> QED  BY <2>2 DEF e, w
<1> QED
  BY <1>8, <1>9, <1>10, <1>11, <1>12, <1>13, <1>14, <1>15, <1>16, <1>17
     DEF AllKeys, Tracked, Untracked, SidewaysKeys

LEMMA HexFacts ==
    ASSUME AllShort, NEW v, Placed(v), NEW event \in AllKeys, NEW track \in 0..Size(v)
    PROVE  HexKey(v, event, track) \in Places(v, FALSE)
<1> DEFINE w == HexKey(v, event, track)
           c == Cols(v)
           bytes == Rows(v) * c
           page == Page(v) * c
           B == v.begin
           To(n) == [v EXCEPT !.begin = n]
           Back(n) == To(IF B > n THEN B - n ELSE 0)
<1>1. v \in Views /\ Len(v.file) \in Nat /\ v.begin \in Nat /\ Size(v) = Len(v.file)
      /\ Rows(v) \in Nat /\ Rows(v) > 0 /\ Cols(v) \in Nat /\ Cols(v) > 0
  BY PlacedFacts
<1>2. track \in Nat /\ AtLeast(0, track) \in Nat /\ 0 \in Nat
  BY <1>1 DEF AtLeast
<1>3. bytes \in Nat /\ page \in Nat /\ c \in Nat
  <2> DEFINE r == Rows(v)
             p == Page(v)
  <2>1. r \in Nat /\ p \in Nat /\ c \in Nat
    BY <1>1 DEF Page, AtLeast
  <2> HIDE DEF r, p, c
  <2>2. r * c \in Nat /\ p * c \in Nat
    BY <2>1, SMT
  <2> QED  BY <2>1, <2>2 DEF r, p
<1>4. ASSUME NEW n \in Nat
      PROVE  To(n) \in Places(v, FALSE)
  <2> DEFINE m == To(n)
  <2>1. m \in Views /\ m.file = v.file /\ m.size = v.size /\ m.mode = v.mode
        /\ m.maxLine = v.maxLine /\ m.free = v.free /\ m.begin = n
    BY <1>1 DEF Views
  <2> HIDE DEF m
  <2>2. m \in Places(v, FALSE)
    BY <2>1 DEF Places, Spots
  <2> QED  BY <2>2 DEF m
<1>5. v \in Places(v, FALSE)
  BY <1>1 DEF Places, Spots
<1>6. \A n \in Nat : Back(n) \in Places(v, FALSE)
  <2> SUFFICES ASSUME NEW n \in Nat PROVE Back(n) \in Places(v, FALSE)
    OBVIOUS
  <2> DEFINE m == IF B > n THEN B - n ELSE 0
  <2>1. m \in Nat
    BY <1>1
  <2> HIDE DEF m
  <2>2. To(m) \in Places(v, FALSE)
    BY <2>1, <1>4
  <2> QED  BY <2>2 DEF m
<1>7. w = CASE event \in {"SET", "FOUND", "VTRACK"} -> To(AtLeast(0, track))
            [] event = "HOME" -> To(0)
            [] event = "END" -> IF Size(v) >= bytes THEN To(Size(v) - bytes) ELSE v
            [] event = "DOWN" -> IF B + bytes < Size(v) THEN To(B + c) ELSE v
            [] event = "UP" -> Back(c)
            [] event = "LEFTSTEP" -> IF B > 0 THEN To(B - 1) ELSE v
            [] event = "RIGHTSTEP" -> IF B + 1 < Size(v) THEN To(B + 1) ELSE v
            [] event = "PAGEUP" -> Back(page)
            [] event = "PAGEDOWN" -> IF B + bytes < Size(v) THEN To(B + page) ELSE v
            [] OTHER -> v
  BY DEF HexKey
<1>8. B + c \in Nat /\ B + page \in Nat /\ B + 1 \in Nat
      /\ (B > 0 => B - 1 \in Nat) /\ (Size(v) >= bytes => Size(v) - bytes \in Nat)
  <2> HIDE DEF page, bytes, c
  <2> QED  BY <1>1, <1>3
<1> HIDE DEF page, bytes, c, To, Back, w
<1> DEFINE P == Places(v, FALSE)
<1> HIDE DEF P
<1>9. \A n \in Nat : To(n) \in P /\ Back(n) \in P
  BY <1>4, <1>6 DEF P
<1>10. v \in P
  BY <1>5 DEF P
<1>11. w \in P
  <2>1. CASE event \in {"SET", "FOUND", "VTRACK"}
    BY <1>2, <1>7, <1>9, <2>1
  <2>2. CASE event = "HOME"
    BY <1>2, <1>7, <1>9, <2>2
  <2>3. CASE event = "END"
    BY <1>7, <1>8, <1>9, <1>10, <2>3
  <2>4. CASE event = "DOWN"
    BY <1>7, <1>8, <1>9, <1>10, <2>4
  <2>5. CASE event = "UP"
    BY <1>3, <1>7, <1>9, <2>5
  <2>6. CASE event = "LEFTSTEP"
    BY <1>7, <1>8, <1>9, <1>10, <2>6
  <2>7. CASE event = "RIGHTSTEP"
    BY <1>7, <1>8, <1>9, <1>10, <2>7
  <2>8. CASE event = "PAGEUP"
    BY <1>3, <1>7, <1>9, <2>8
  <2>9. CASE event = "PAGEDOWN"
    BY <1>7, <1>8, <1>9, <1>10, <2>9
  <2>10. CASE event \in {"LEFT", "RIGHT", "PAGELEFT", "PAGERIGHT", "HTRACK"}
    BY <1>7, <1>10, <2>10
  <2> QED  BY <2>1, <2>2, <2>3, <2>4, <2>5, <2>6, <2>7, <2>8, <2>9, <2>10
              DEF AllKeys, Tracked, Untracked
<1> QED
  BY <1>11 DEF w, P

\* What is filled begins in the file, and at a line when it was to.
LEMMA FilledFacts ==
    ASSUME AllShort, NEW w \in Views, NEW exact, w.begin \in Spots(w.file, exact)
    PROVE  LET x == Filled(w)
           IN  /\ x \in Views /\ x.file = w.file /\ x.size = w.size /\ x.mode = w.mode /\ x.free = w.free
               /\ x.begin \in 0..AtLeast(Len(w.file) - 1, 0)
               /\ exact => x.begin \in LineStarts(w.file)
<1> DEFINE x == Filled(w)
           m == IF w.begin >= Size(w) THEN MovedTo(w, 0, 0) ELSE w
<1>1. /\ Len(w.file) \in Nat /\ 0 \in LineStarts(w.file) /\ Size(w) = Len(w.file) /\ w.begin \in Nat
      /\ exact => w.begin \in LineStarts(w.file) \/ w.begin >= Len(w.file)
  BY FilesReadable DEF Views, Size, Spots
<1>2. PICK z \in Nat : z = 0
  OBVIOUS
<1>3. /\ m \in Views /\ m.file = w.file /\ m.size = w.size /\ m.mode = w.mode /\ m.free = w.free
      /\ m.begin = (IF w.begin >= Size(w) THEN 0 ELSE w.begin)
  <2>1. CASE w.begin >= Size(w)
    <3>1. m = MovedTo(w, z, z)
      BY <1>2, <2>1
    <3> HIDE DEF m
    <3> QED  BY <1>2, <2>1, <3>1 DEF MovedTo, Views
  <2>2. CASE ~(w.begin >= Size(w))
    BY <2>2
  <2> QED  BY <2>1, <2>2
<1>4. /\ m.begin \in 0..AtLeast(Len(w.file) - 1, 0)
      /\ exact => m.begin \in LineStarts(w.file)
  <2> HIDE DEF m
  <2> QED  BY <1>1, <1>3 DEF AtLeast
<1>5. x = CASE m.mode = "hex" -> [m EXCEPT !.col = 0]
            [] m.mode = "wrap" -> m
            [] m.mode = "plain" -> [m EXCEPT !.maxLine = Longest(m)]
  BY DEF Filled
<1> HIDE DEF m, x
<1>6. m.mode \in Modes
  BY <1>3 DEF Views
<1>7. x \in Views /\ x.file = m.file /\ x.size = m.size /\ x.mode = m.mode /\ x.free = m.free /\ x.begin = m.begin
  <2>1. CASE m.mode = "hex"
    <3>1. x = [m EXCEPT !.col = z]
      BY <1>2, <1>5, <2>1
    <3> QED  BY <1>3, <3>1 DEF Views
  <2>2. CASE m.mode = "wrap"
    BY <1>3, <1>5, <2>2
  <2>3. CASE m.mode = "plain"
    <3> DEFINE g == Longest(m)
    <3>1. g \in Int
      BY <1>3, LongestIs
    <3>2. x = [m EXCEPT !.maxLine = g]
      BY <1>5, <2>3
    <3> HIDE DEF g
    <3> QED  BY <1>3, <3>1, <3>2 DEF Views
  <2> QED  BY <1>6, <2>1, <2>2, <2>3 DEF Modes
<1>8. /\ x \in Views /\ x.file = w.file /\ x.size = w.size /\ x.mode = w.mode /\ x.free = w.free
      /\ x.begin \in 0..AtLeast(Len(w.file) - 1, 0)
      /\ exact => x.begin \in LineStarts(w.file)
  BY <1>3, <1>4, <1>7
<1> QED
  BY <1>8 DEF x

\* What does not move stays placed: a mode, a size, a file opened.
LEMMA FilledPlaced ==
    ASSUME AllShort, NEW v, Placed(v), NEW w \in Views, w.file = v.file, w.begin = v.begin, w.free = v.free
    PROVE  Placed(Filled(w))
<1> DEFINE e == ~v.free
           x == Filled(w)
<1>1. v.begin \in 0..Len(v.file) /\ Len(v.file) \in Nat /\ (e => v.begin \in LineStarts(v.file))
  BY PlacedFacts
<1> HIDE DEF e
<1>2. w.begin \in Spots(w.file, e)
  BY <1>1 DEF Spots
<1>3. /\ x \in Views /\ x.file = w.file /\ x.free = w.free
      /\ x.begin \in 0..AtLeast(Len(w.file) - 1, 0)
      /\ e => x.begin \in LineStarts(w.file)
  BY <1>2, FilledFacts
<1> HIDE DEF x
<1>4. Placed(x)
  BY <1>3 DEF Placed, e
<1> QED
  BY <1>4 DEF x

LEMMA OpenPlaced ==
    ASSUME AllShort, NEW v, Placed(v), NEW text \in VtFiles \union {<<>>}
    PROVE  Placed(Start(text, v.size, v.mode)) /\ Placed(Filled(Start(text, v.size, v.mode)))
<1> DEFINE s == Start(text, v.size, v.mode)
<1>1. v.size \in (Nat \ {0}) \X (Nat \ {0}) /\ v.mode \in Modes
  BY DEF Placed, Views
<1>2. s \in Views /\ s.file = text /\ s.begin = 0 /\ ~s.free
  BY <1>1 DEF Start, Views
<1>3. Len(text) \in Nat /\ 0 \in LineStarts(text)
  BY FilesReadable
<1> HIDE DEF s
<1>4. Placed(s)
  BY <1>2, <1>3 DEF Placed, AtLeast
<1>5. Placed(Filled(s))
  BY <1>2, <1>4, FilledPlaced
<1> QED
  BY <1>4, <1>5 DEF s

LEMMA KeyPlaced ==
    ASSUME AllShort, NEW v, Placed(v), NEW event \in AllKeys, NEW track \in 0..Size(v)
    PROVE  Placed(ViewKey(v, event, track))
<1> DEFINE e == v.mode # "hex" /\ Exact(v, event, track)
           w == CASE v.mode = "hex" -> HexKey(v, event, track)
                  [] v.mode = "wrap" -> WrapKey(v, event, track)
                  [] v.mode = "plain" -> PlainKey(v, event, track)
           offset == v.mode = "hex" \/ event = "SET" \/ (event = "FOUND" /\ ~Found(v, track).nl)
           x == Filled(w)
           free == offset \/ (x.free /\ event \notin Aligning)
           y == [x EXCEPT !.free = free]
<1>1. v \in Views /\ v.mode \in Modes /\ v.free \in BOOLEAN
  BY DEF Placed, Views
<1>2. w \in Places(v, e)
  <2>1. CASE v.mode = "hex"
    <3>1. HexKey(v, event, track) \in Places(v, FALSE)
      BY HexFacts
    <3>2. w = HexKey(v, event, track)
      BY <2>1
    <3>3. e <=> FALSE
      BY <2>1
    <3> HIDE DEF w, e
    <3> QED  BY <3>1, <3>2, <3>3 DEF Places, Spots
  <2>2. CASE v.mode = "wrap"
    <3>1. WrapKey(v, event, track) \in Places(v, Exact(v, event, track))
      BY WrapFacts
    <3>2. w = WrapKey(v, event, track)
      BY <2>2
    <3>3. e <=> Exact(v, event, track)
      BY <2>2
    <3> HIDE DEF w, e
    <3> QED  BY <3>1, <3>2, <3>3 DEF Places, Spots
  <2>3. CASE v.mode = "plain"
    <3>1. PlainKey(v, event, track) \in Places(v, Exact(v, event, track))
      BY PlainFacts
    <3>2. w = PlainKey(v, event, track)
      BY <2>3
    <3>3. e <=> Exact(v, event, track)
      BY <2>3
    <3> HIDE DEF w, e
    <3> QED  BY <3>1, <3>2, <3>3 DEF Places, Spots
  <2> HIDE DEF w, e
  <2> QED  BY <1>1, <2>1, <2>2, <2>3 DEF Modes
<1>3. ViewKey(v, event, track) = y
  BY DEF ViewKey
<1>4. free \/ e
  <2>1. offset \/ (v.mode # "hex" /\ event # "SET" /\ (event = "FOUND" => Found(v, track).nl))
    OBVIOUS
  <2>2. x.free <=> v.free
    <3> HIDE DEF w, e
    <3>1. w \in Views /\ w.file = v.file /\ w.free = v.free /\ w.begin \in Spots(v.file, e)
      BY <1>1, <1>2, PlaceIs
    <3>2. Filled(w).free = w.free
      BY <3>1, FilledFacts
    <3> QED  BY <3>1, <3>2
  <2> HIDE DEF x, w
  <2> QED  BY <2>1, <2>2 DEF Exact
<1> HIDE DEF w, e
<1>5. w \in Views /\ w.file = v.file /\ w.begin \in Spots(w.file, e)
  BY <1>1, <1>2, PlaceIs
<1>6. /\ x \in Views /\ x.file = w.file
      /\ x.begin \in 0..AtLeast(Len(w.file) - 1, 0)
      /\ e => x.begin \in LineStarts(w.file)
  BY <1>5, FilledFacts
<1>7. free \in BOOLEAN
  OBVIOUS
<1> HIDE DEF x, free
<1>8. y \in Views /\ y.file = x.file /\ y.begin = x.begin /\ (y.free <=> free)
  BY <1>6, <1>7 DEF Views
<1> HIDE DEF y
<1>9. Placed(y)
  BY <1>4, <1>6, <1>8 DEF Placed
<1> QED
  BY <1>3, <1>9

LEMMA VtKept ==
    ASSUME AllShort, Placed(vt), [VtNext]_vtVars
    PROVE  Placed(vt)'
<1>1. vt \in Views /\ Len(vt.file) \in Nat
  BY PlacedFacts
<1>2. CASE OpenFile
  <2>1. PICK text \in VtFiles : vt' = Filled(Start(text, vt.size, vt.mode))
    BY <1>2 DEF OpenFile
  <2>2. Placed(Filled(Start(text, vt.size, vt.mode)))
    BY OpenPlaced
  <2>3. Placed(vt')
    BY <2>1, <2>2
  <2> QED  BY <2>3 DEF Placed
<1>3. CASE EventKey
  <2>1. PICK event \in AllKeys, track \in 0..Size(vt) : vt' = ViewKey(vt, event, track)
    <3>1. 0 \in 0..Size(vt)
      BY <1>1 DEF Size
    <3> QED  BY <1>3, <3>1 DEF EventKey, AllKeys
  <2>2. Placed(ViewKey(vt, event, track))
    BY KeyPlaced
  <2>3. Placed(vt')
    BY <2>1, <2>2
  <2> QED  BY <2>3 DEF Placed
<1>4. CASE SetMode
  <2>1. PICK mode \in Modes : vt' = Filled([vt EXCEPT !.mode = mode, !.col = 0])
    BY <1>4 DEF SetMode, Modes
  <2> DEFINE w == [vt EXCEPT !.mode = mode, !.col = 0]
  <2>2. w \in Views /\ w.file = vt.file /\ w.begin = vt.begin /\ w.free = vt.free
    BY <1>1 DEF Views
  <2> HIDE DEF w
  <2>3. Placed(Filled(w))
    BY <2>2, FilledPlaced
  <2>4. Placed(vt')
    BY <2>1, <2>3 DEF w
  <2> QED  BY <2>4 DEF Placed
<1>5. CASE Resized
  <2>1. PICK size \in VtSizes : vt' = Filled([vt EXCEPT !.size = size, !.col = 0])
    BY <1>5 DEF Resized
  <2> DEFINE w == [vt EXCEPT !.size = size, !.col = 0]
  <2>2. size \in (Nat \ {0}) \X (Nat \ {0})
    BY ViewedAssumption
  <2>3. w \in Views /\ w.file = vt.file /\ w.begin = vt.begin /\ w.free = vt.free
    BY <1>1, <2>2 DEF Views
  <2> HIDE DEF w
  <2>4. Placed(Filled(w))
    BY <2>3, FilledPlaced
  <2>5. Placed(vt')
    BY <2>1, <2>4 DEF w
  <2> QED  BY <2>5 DEF Placed
<1>6. CASE UNCHANGED vtVars
  BY <1>6 DEF vtVars, Placed
<1> QED
  BY <1>2, <1>3, <1>4, <1>5, <1>6 DEF VtNext

(***************************************************************************)
(* Whatever is viewed, in a window of whatever size, the screen begins at  *)
(* a line of the file after any keys, modes and sizes, unless an offset    *)
(* was gone to: the lines that the viewer finds backwards are those that   *)
(* it finds forwards.  Of lines that are shorter than VIEWER_COLS with all *)
(* their tabs and the return before the newline: a line that fills the     *)
(* buffer may be cut in the middle.                                        *)
(***************************************************************************)
THEOREM ShowsFromALine ==
    ASSUME \A text \in VtFiles : ShortLines(text)
    PROVE  VtSpec => []BeginsWithLine
<1>1. AllShort
  BY DEF AllShort
<1>2. VtInit => Placed(vt)
  <2> SUFFICES ASSUME VtInit PROVE Placed(vt)
    OBVIOUS
  <2> DEFINE z == CHOOSE s \in VtSizes : TRUE
             first == Start(<<>>, z, "plain")
  <2>1. z \in (Nat \ {0}) \X (Nat \ {0})
    BY ViewedAssumption
  <2>2. vt = first
    BY DEF VtInit
  <2> HIDE DEF z
  <2>3. first \in Views /\ first.file = <<>> /\ first.begin = 0
    BY <2>1 DEF Start, Views, Modes
  <2>4. Placed(first)
    BY <2>3 DEF Placed, AtLeast, LineStarts
  <2> QED  BY <2>2, <2>4
<1>3. Placed(vt) /\ [VtNext]_vtVars => Placed(vt)'
  BY <1>1, VtKept
<1>4. Placed(vt) => BeginsWithLine
  BY DEF Placed, Views, BeginsWithLine, Size
<1> QED
  BY <1>2, <1>3, <1>4, PTL DEF VtSpec
=============================================================================
