------------------------------ MODULE JobProofs ------------------------------
(***************************************************************************)
(* Theorems on the operations of OperJob: FileLoad, for any lengths of     *)
(* files, and TreeWalk, for any tree of directories; and on TextSearch,    *)
(* for any texts and files.                                                *)
(***************************************************************************)
EXTENDS FileLoad, TreeWalk, TextSearch, SequenceTheorems, FiniteSetTheorems, WellFoundedInduction, TLAPS

(***************************************************************************)
(* What the dialog and the thread of one operation know of each other.     *)
(***************************************************************************)
JbTypeOK ==
    /\ jbRun \in {"running", "ended"} /\ jbStopped \in BOOLEAN
    /\ jbBox \in {"none", "signal", "STOP"}
    /\ jbModal \in {"running", "ok", "cancel"}
    /\ jbUi \in {"loop", "results", "stopped"}
    /\ jbTold \in BOOLEAN /\ jbOpen \in BOOLEAN

\* The data are gone only when the thread has been stopped, or is over.
JbShape ==
    /\ jbBox = "STOP" \/ jbTold => jbRun = "ended"
    /\ ~jbOpen => jbUi = "stopped"
    /\ jbUi = "stopped" => (jbStopped \/ jbRun = "ended") /\ jbModal # "running"
    /\ jbUi = "results" => jbModal = "running"
    /\ UsedWhileOpen

JbInv == JbTypeOK /\ JbShape

\* A thread that has not been stopped has its data.
LEMMA DataThere ==
    ASSUME JbInv, jbRun = "running", ~jbStopped
    PROVE  jbOpen
BY DEF JbInv, JbTypeOK, JbShape

LEMMA JbInitial == JbInit => JbInv
BY DEF JbInit, JbInv, JbTypeOK, JbShape, UsedWhileOpen

LEMMA JbUses ==
    ASSUME JbInv, NEW by, Uses(by), jbOpen \/ by \in {"Calc", "tail"}
    PROVE  JbInv'
BY DEF JbInv, JbTypeOK, JbShape, UsedWhileOpen, Uses

LEMMA JbEnds ==
    ASSUME JbInv, JobEnds
    PROVE  JbInv'
BY DEF JbInv, JbTypeOK, JbShape, UsedWhileOpen, JobEnds

LEMMA JbSignals ==
    ASSUME JbInv, jbRun = "running", SendSignal
    PROVE  JbInv'
BY DEF JbInv, JbTypeOK, JbShape, UsedWhileOpen, SendSignal

LEMMA JbDialog ==
    ASSUME JbInv,
           \/ TakeSignal("results")
           \/ jbUi = "results" /\ HandlerReturns
           \/ \E modal \in {"running", "ok", "cancel"} : TakeEnd(modal)
           \/ \E modal \in {"ok", "cancel"} : EndModal(modal)
           \/ SetStopFlag \/ StopThread \/ Return
    PROVE  JbInv'
<1>1. CASE TakeSignal("results")
    BY <1>1 DEF JbInv, JbTypeOK, JbShape, UsedWhileOpen, TakeSignal, InLoop
<1>2. CASE jbUi = "results" /\ HandlerReturns
    BY <1>2 DEF JbInv, JbTypeOK, JbShape, UsedWhileOpen, HandlerReturns
<1>3. CASE \E modal \in {"running", "ok", "cancel"} : TakeEnd(modal)
    BY <1>3 DEF JbInv, JbTypeOK, JbShape, UsedWhileOpen, TakeEnd, InLoop
<1>4. CASE \E modal \in {"ok", "cancel"} : EndModal(modal)
    BY <1>4 DEF JbInv, JbTypeOK, JbShape, UsedWhileOpen, EndModal, InLoop
<1>5. CASE SetStopFlag
    BY <1>5 DEF JbInv, JbTypeOK, JbShape, UsedWhileOpen, SetStopFlag, InLoop
<1>6. CASE StopThread
    BY <1>6 DEF JbInv, JbTypeOK, JbShape, UsedWhileOpen, StopThread
<1>7. CASE Return
    BY <1>7 DEF JbInv, JbTypeOK, JbShape, UsedWhileOpen, Return
<1> QED
    BY <1>1, <1>2, <1>3, <1>4, <1>5, <1>6, <1>7
-----------------------------------------------------------------------------
(***************************************************************************)
(* FileLoad.                                                               *)
(***************************************************************************)
FlTypeOK ==
    /\ flJob \in [kind : {"load", "save", "temp"}, blocks : FlBlocks, exists : BOOLEAN, new : BOOLEAN]
    /\ flPc \in {"start", "open", "absent", "create", "block", "transfer", "close",
                 "stopped", "tail", "leave", "throw", "end"}
    /\ flDone \in Nat /\ flDisk \in Int /\ flOpened \subseteq {"in", "out"}
    /\ flError \in BOOLEAN /\ flNotExist \in BOOLEAN
    /\ flLeft \in {<<>>, <<flJob.blocks>>}
    /\ ~Loading => flJob.exists

\* How much has been moved, wherever the thread is.
Moved ==
    /\ jbRun = "ended" => flPc = "end"
    /\ flDone <= flJob.blocks
    /\ flPc \in {"start", "open", "absent", "create"} => flDone = 0
    /\ flPc \in {"close", "tail", "leave"} => flDone = flJob.blocks
    /\ flPc \in {"block", "transfer", "close", "stopped", "tail", "leave"} =>
          flJob.exists /\ (~Loading => flDisk = flDone)
    /\ flPc \in {"tail", "leave", "absent"} => ~ToTemp
    /\ flPc \in {"open", "absent"} => ~Saving
    /\ flPc = "create" => ~Loading

\* What it leaves: the whole file, or a reason why there is none.
LeftWhole ==
    /\ flLeft # <<>> => flPc = "end" /\ flJob.exists /\ (~Loading => flDisk = flJob.blocks \/ flUnseen)
    /\ flPc = "end" => flLeft # <<>> \/ flError \/ jbStopped
    /\ flPc = "stopped" => jbStopped
    /\ flPc = "absent" \/ flNotExist => Loading /\ ~flJob.exists

\* The files it has open.
Opened ==
    /\ flPc \in {"start", "open", "absent", "throw", "tail", "leave"} => flOpened = {}
    /\ flPc = "end" => flOpened = {} \/ (jbStopped /\ ~ToTemp)

\* What the dialog has made of it.
WholeFile == IF flJob.exists THEN <<flJob.blocks>> ELSE <<0>>

Taken ==
    /\ jbUi # "results"
    /\ ToTemp /\ jbModal # "running" => jbRun = "ended"
    /\ ~ToTemp /\ jbUi = "loop" => ~jbStopped
    /\ flFile # <<>> => Loading /\ flFile = WholeFile /\ (flJob.exists \/ flJob.new)
    /\ Loading /\ jbTold /\ flFile = <<>> => flError

\* What the caller has been given.
Given ==
    /\ flTempDir \in BOOLEAN
    /\ jbOpen => flResult = <<FlNone>> /\ (ToTemp => flTempDir)
    /\ ~jbOpen =>
          /\ Loading => flResult = flFile
          /\ ~Loading => flResult = flLeft \/ flResult = <<>>
          /\ ~Loading /\ flResult = <<>> => flError \/ jbStopped
          /\ ToTemp => (flTempDir <=> flResult # <<>>)

FlInv == JbInv /\ FlTypeOK /\ Moved /\ LeftWhole /\ Opened /\ Taken /\ Given

LEMMA FlInitial == FlInit => FlInv
<1> SUFFICES ASSUME FlInit PROVE FlInv
    OBVIOUS
<1>1. JbInv
    BY JbInitial DEF FlInit
<1>2. /\ flJob \in [kind : {"load", "save", "temp"}, blocks : FlBlocks, exists : BOOLEAN, new : BOOLEAN]
      /\ flJob.blocks \in Nat
    BY LoadAssumption DEF FlInit
<1>3. flDisk \in Int
    BY DEF FlInit, FlNone, FlOld
<1>4. flTempDir = ToTemp /\ flTempDir \in BOOLEAN
    BY DEF FlInit, ToTemp
<1> flPc = "start" /\ flDone = 0 /\ flOpened = {} /\ jbRun = "running"
    BY DEF FlInit, JbInit
<1>5. FlTypeOK
    <2>1. flError \in BOOLEAN /\ flNotExist \in BOOLEAN
        BY DEF FlInit
    <2>2. ~Loading => flJob.exists
        BY DEF FlInit
    <2>3. flLeft \in {<<>>, <<flJob.blocks>>}
        BY Zenon DEF FlInit
    <2> QED
        BY <1>2, <1>3, <1>4, <2>1, <2>2, <2>3 DEF FlTypeOK
<1>6. Moved
    BY <1>2 DEF Moved
<1>7. LeftWhole /\ Opened
    BY DEF FlInit, JbInit, LeftWhole, Opened
<1>8. Taken
    <2>1. flFile = <<>> /\ jbModal = "running" /\ ~jbStopped /\ ~jbTold
        BY DEF FlInit, JbInit
    <2>2. jbUi # "results"
        BY DEF FlInit, JbInit
    <2> QED
        BY <2>1, <2>2 DEF Taken
<1>9. Given
    <2>1. flResult = <<FlNone>> /\ jbOpen
        BY DEF FlInit, JbInit
    <2> QED
        BY <1>4, <2>1 DEF Given
<1> QED
    BY <1>1, <1>5, <1>6, <1>7, <1>8, <1>9 DEF FlInv

LEMMA SameJob ==
    ASSUME UNCHANGED flJob
    PROVE  /\ Loading' = Loading /\ Saving' = Saving /\ ToTemp' = ToTemp
           /\ WholeFile' = WholeFile
BY DEF Loading, Saving, ToTemp, WholeFile

\* A step of the thread: what it shares with the dialog it leaves alone, and
\* what it leaves and what has failed stay.
LEMMA ThreadStep ==
    ASSUME FlInv, UNCHANGED <<flJob, flFile, flTempDir, flResult, jbModal, jbUi, jbTold, jbOpen, jbStopped>>,
           jbRun = "running", flError => flError', flLeft # <<>> => UNCHANGED flLeft
    PROVE  Taken' /\ Given'
<1>1. Taken'
    BY SameJob DEF FlInv, Taken, JbInv, JbShape
<1>2. Given'
    BY SameJob DEF FlInv, Given, JbInv, JbShape
<1> QED
    BY <1>1, <1>2

LEMMA Alone ==
    ASSUME FlInv, UNCHANGED jbVars
    PROVE  JbInv'
BY DEF FlInv, JbInv, JbTypeOK, JbShape, UsedWhileOpen, jbVars

LEMMA StartsStep == ASSUME FlInv, Starts PROVE FlInv'
<1> USE DEF FlAt, jbVars
<1>1. JbInv'
    BY Alone DEF Starts
<1>2. FlTypeOK'
    BY DEF FlInv, Starts, FlTypeOK, Moved, Loading, Saving, ToTemp
<1>3. Moved'
    BY DEF FlInv, Starts, FlTypeOK, Moved, LeftWhole, Loading, Saving, ToTemp
<1>4. LeftWhole'
    BY DEF FlInv, Starts, FlTypeOK, Moved, LeftWhole, Loading, Saving, ToTemp
<1>5. Opened'
    BY DEF FlInv, Starts, FlTypeOK, Moved, Opened, Loading, Saving, ToTemp
<1>6. Taken' /\ Given'
    BY ThreadStep DEF Starts
<1> QED
    BY <1>1, <1>2, <1>3, <1>4, <1>5, <1>6 DEF FlInv

LEMMA OpenReadStep == ASSUME FlInv, OpenRead PROVE FlInv'
<1> USE DEF FlAt, jbVars
<1>1. JbInv'
    BY Alone DEF OpenRead
<1>2. FlTypeOK'
    BY DEF FlInv, OpenRead, FlTypeOK, Moved, Loading, Saving, ToTemp
<1>3. Moved'
    BY DEF FlInv, OpenRead, FlTypeOK, Moved, LeftWhole, Loading, Saving, ToTemp
<1>4. LeftWhole'
    BY DEF FlInv, OpenRead, FlTypeOK, Moved, LeftWhole, Loading, Saving, ToTemp
<1>5. Opened'
    BY DEF FlInv, OpenRead, FlTypeOK, Moved, Opened, Loading, Saving, ToTemp
<1>6. Taken' /\ Given'
    BY ThreadStep DEF OpenRead
<1> QED
    BY <1>1, <1>2, <1>3, <1>4, <1>5, <1>6 DEF FlInv

LEMMA OpenCreateStep == ASSUME FlInv, OpenCreate PROVE FlInv'
<1> USE DEF FlAt, jbVars
<1>1. JbInv'
    BY Alone DEF OpenCreate
<1>2. FlTypeOK'
    <2>1. flDisk' \in Int
        BY DEF FlInv, OpenCreate, FlTypeOK
    <2>2. flOpened' \subseteq {"in", "out"}
        BY DEF FlInv, OpenCreate, FlTypeOK
    <2>3. flPc' \in {"block", "throw"}
        BY DEF OpenCreate
    <2>4. UNCHANGED <<flJob, flDone, flLeft, flError, flNotExist>>
        BY DEF OpenCreate
    <2>5. flLeft' \in {<<>>, <<flJob.blocks>>}'
        BY <2>4 DEF FlInv, FlTypeOK
    <2> QED
        BY <2>1, <2>2, <2>3, <2>4, <2>5 DEF FlInv, FlTypeOK, Loading
<1>3. Moved'
    BY DEF FlInv, OpenCreate, FlTypeOK, Moved, LeftWhole, Loading, Saving, ToTemp
<1>4. LeftWhole'
    BY DEF FlInv, OpenCreate, FlTypeOK, Moved, LeftWhole, Loading, Saving, ToTemp
<1>5. Opened'
    BY DEF FlInv, OpenCreate, FlTypeOK, Moved, Opened, Loading, Saving, ToTemp
<1>6. Taken' /\ Given'
    BY ThreadStep DEF OpenCreate
<1> QED
    BY <1>1, <1>2, <1>3, <1>4, <1>5, <1>6 DEF FlInv

LEMMA NextBlockStep == ASSUME FlInv, NextBlock PROVE FlInv'
<1> USE DEF FlAt, jbVars
<1>1. JbInv'
    BY Alone DEF NextBlock
<1>2. FlTypeOK'
    BY DEF FlInv, NextBlock, FlTypeOK, Moved, Loading, Saving, ToTemp
<1>3. Moved'
    BY DEF FlInv, NextBlock, FlTypeOK, Moved, LeftWhole, Loading, Saving, ToTemp
<1>4. LeftWhole'
    BY DEF FlInv, NextBlock, FlTypeOK, Moved, LeftWhole, Loading, Saving, ToTemp
<1>5. Opened'
    BY DEF FlInv, NextBlock, FlTypeOK, Moved, Opened, Loading, Saving, ToTemp
<1>6. Taken' /\ Given'
    BY ThreadStep DEF NextBlock
<1> QED
    BY <1>1, <1>2, <1>3, <1>4, <1>5, <1>6 DEF FlInv

LEMMA TransferStep == ASSUME FlInv, Transfer PROVE FlInv'
<1> USE DEF FlAt, jbVars
<1>1. JbInv'
    BY Alone DEF Transfer
<1> flJob.blocks \in Nat /\ flDone \in Nat /\ flDone <= flJob.blocks
    BY LoadAssumption DEF FlInv, FlTypeOK, Moved
<1>2. FlTypeOK'
    <2>1. flDisk' \in Int /\ flDone' \in Nat
        BY DEF FlInv, Transfer, FlTypeOK, FlPart
    <2>2. flPc' \in {"block", "close", "throw"} /\ flOpened' \subseteq {"in", "out"}
        BY DEF FlInv, Transfer, FlTypeOK
    <2> QED
        BY <2>1, <2>2 DEF FlInv, Transfer, FlTypeOK, Loading
<1>3. Moved'
    <2>1. CASE flDone < flJob.blocks /\ flDone' = flDone + 1 /\ flDisk' = (IF Loading THEN flDisk ELSE flDone + 1) /\ flPc' = "block"
        BY <2>1 DEF FlInv, Transfer, FlTypeOK, Moved, Loading, Saving, ToTemp
    <2>2. CASE flDone = flJob.blocks /\ flPc' = "close" /\ UNCHANGED <<flDone, flDisk>>
        BY <2>2 DEF FlInv, Transfer, FlTypeOK, Moved, Loading, Saving, ToTemp
    <2>3. CASE flPc' = "throw" /\ UNCHANGED flDone
        BY <2>3 DEF FlInv, Transfer, FlTypeOK, Moved, Loading, Saving, ToTemp
    <2> QED
        BY <2>1, <2>2, <2>3 DEF Transfer
<1>4. LeftWhole'
    BY DEF FlInv, Transfer, FlTypeOK, Moved, LeftWhole, Loading, Saving, ToTemp
<1>5. Opened'
    BY DEF FlInv, Transfer, FlTypeOK, Moved, Opened, Loading, Saving, ToTemp
<1>6. Taken' /\ Given'
    BY ThreadStep DEF Transfer
<1> QED
    BY <1>1, <1>2, <1>3, <1>4, <1>5, <1>6 DEF FlInv

LEMMA StoppedClosesStep == ASSUME FlInv, StoppedCloses PROVE FlInv'
<1> USE DEF FlAt, jbVars
<1>1. JbInv'
    BY Alone DEF StoppedCloses
<1>2. FlTypeOK'
    BY DEF FlInv, StoppedCloses, FlTypeOK, Moved, Loading, Saving, ToTemp
<1>3. Moved'
    BY DEF FlInv, StoppedCloses, FlTypeOK, Moved, LeftWhole, Loading, Saving, ToTemp
<1>4. LeftWhole'
    BY DEF FlInv, StoppedCloses, FlTypeOK, Moved, LeftWhole, Loading, Saving, ToTemp
<1>5. Opened'
    BY DEF FlInv, StoppedCloses, FlTypeOK, Moved, Opened, Loading, Saving, ToTemp
<1>6. Taken' /\ Given'
    BY ThreadStep DEF StoppedCloses
<1> QED
    BY <1>1, <1>2, <1>3, <1>4, <1>5, <1>6 DEF FlInv

LEMMA LooksUnlockedStep == ASSUME FlInv, LooksUnlocked PROVE FlInv'
<1> USE DEF FlAt, jbVars
<1>1. JbInv'
    BY Alone DEF LooksUnlocked
<1>2. FlTypeOK'
    BY DEF FlInv, LooksUnlocked, FlTypeOK, Moved, Loading, Saving, ToTemp
<1>3. Moved'
    BY DEF FlInv, LooksUnlocked, FlTypeOK, Moved, LeftWhole, Loading, Saving, ToTemp
<1>4. LeftWhole'
    BY DEF FlInv, LooksUnlocked, FlTypeOK, Moved, LeftWhole, Loading, Saving, ToTemp
<1>5. Opened'
    BY DEF FlInv, LooksUnlocked, FlTypeOK, Moved, Opened, Loading, Saving, ToTemp
<1>6. Taken' /\ Given'
    BY ThreadStep DEF LooksUnlocked
<1> QED
    BY <1>1, <1>2, <1>3, <1>4, <1>5, <1>6 DEF FlInv

LEMMA NotesAbsentStep == ASSUME FlInv, NotesAbsent PROVE FlInv'
<1> USE DEF FlAt, jbVars
<1>1. JbInv'
    <2>1. CASE jbStopped
        BY <2>1, Alone DEF NotesAbsent
    <2>2. CASE ~jbStopped
        BY <2>2, DataThere, JbUses DEF FlInv, NotesAbsent
    <2> QED
        BY <2>1, <2>2
<1>2. FlTypeOK'
    BY DEF FlInv, NotesAbsent, Uses, FlTypeOK, Moved, Loading, Saving, ToTemp
<1>3. Moved'
    BY DEF FlInv, NotesAbsent, Uses, FlTypeOK, Moved, LeftWhole, Loading, Saving, ToTemp
<1>4. LeftWhole'
    BY DEF FlInv, NotesAbsent, Uses, FlTypeOK, Moved, LeftWhole, Loading, Saving, ToTemp
<1>5. Opened'
    BY DEF FlInv, NotesAbsent, Uses, FlTypeOK, Moved, Opened, Loading, Saving, ToTemp
<1>6. Taken' /\ Given'
    BY ThreadStep DEF NotesAbsent, Uses
<1> QED
    BY <1>1, <1>2, <1>3, <1>4, <1>5, <1>6 DEF FlInv

LEMMA ClosesFilesStep == ASSUME FlInv, ClosesFiles PROVE FlInv'
<1> USE DEF FlAt, jbVars
<1>1. JbInv'
    <2>1. CASE ToTemp
        <3>1. jbOpen
            BY <2>1 DEF FlInv, JbInv, JbTypeOK, JbShape, Taken, ClosesFiles
        <3> QED
            BY <2>1, <3>1, JbUses DEF FlInv, ClosesFiles
    <2>2. CASE ~ToTemp
        BY <2>2, Alone DEF ClosesFiles
    <2> QED
        BY <2>1, <2>2
<1>2. FlTypeOK'
    <2>1. flLeft' \in {<<>>, <<flJob.blocks>>} /\ flDone = flJob.blocks
        BY DEF FlInv, ClosesFiles, FlTypeOK, Moved
    <2>2. flDisk' \in Int /\ flPc' \in {"end", "tail", "throw"}
        BY DEF FlInv, ClosesFiles, FlTypeOK, FlPart
    <2> QED
        BY <2>1, <2>2 DEF FlInv, ClosesFiles, FlTypeOK, Loading
<1>3. Moved'
    BY DEF FlInv, ClosesFiles, Uses, FlTypeOK, Moved, LeftWhole, Loading, Saving, ToTemp
<1>4. LeftWhole'
    BY DEF FlInv, ClosesFiles, Uses, FlTypeOK, Moved, LeftWhole, Loading, Saving, ToTemp
<1>5. Opened'
    BY DEF FlInv, ClosesFiles, Uses, FlTypeOK, Moved, Opened, Loading, Saving, ToTemp
<1>6. Taken' /\ Given'
    <2>1. flLeft = <<>>
        BY DEF FlInv, ClosesFiles, LeftWhole
    <2> QED
        BY <2>1, ThreadStep DEF ClosesFiles, Uses
<1> QED
    BY <1>1, <1>2, <1>3, <1>4, <1>5, <1>6 DEF FlInv

LEMMA LeavesStep == ASSUME FlInv, Leaves PROVE FlInv'
<1> USE DEF FlAt, jbVars
<1>1. JbInv'
    BY JbUses DEF FlInv, Leaves
<1>2. FlTypeOK'
    BY DEF FlInv, Leaves, Uses, FlTypeOK, Moved, Loading, Saving, ToTemp
<1>3. Moved'
    BY DEF FlInv, Leaves, Uses, FlTypeOK, Moved, LeftWhole, Loading, Saving, ToTemp
<1>4. LeftWhole'
    BY DEF FlInv, Leaves, Uses, FlTypeOK, Moved, LeftWhole, Loading, Saving, ToTemp
<1>5. Opened'
    BY DEF FlInv, Leaves, Uses, FlTypeOK, Moved, Opened, Loading, Saving, ToTemp
<1>6. Taken' /\ Given'
    <2>1. flLeft = <<>>
        BY DEF FlInv, Leaves, LeftWhole
    <2> QED
        BY <2>1, ThreadStep DEF Leaves, Uses
<1> QED
    BY <1>1, <1>2, <1>3, <1>4, <1>5, <1>6 DEF FlInv

LEMMA CatchesStep == ASSUME FlInv, Catches PROVE FlInv'
<1> USE DEF FlAt, jbVars
<1>1. JbInv'
    <2>1. CASE jbStopped
        BY <2>1, Alone DEF Catches
    <2>2. CASE ~jbStopped
        BY <2>2, DataThere, JbUses DEF FlInv, Catches
    <2> QED
        BY <2>1, <2>2
<1>2. FlTypeOK'
    BY DEF FlInv, Catches, Uses, FlTypeOK, Moved, Loading, Saving, ToTemp
<1>3. Moved'
    BY DEF FlInv, Catches, Uses, FlTypeOK, Moved, LeftWhole, Loading, Saving, ToTemp
<1>4. LeftWhole'
    BY DEF FlInv, Catches, Uses, FlTypeOK, Moved, LeftWhole, Loading, Saving, ToTemp
<1>5. Opened'
    BY DEF FlInv, Catches, Uses, FlTypeOK, Moved, Opened, Loading, Saving, ToTemp
<1>6. Taken' /\ Given'
    BY ThreadStep DEF Catches, Uses
<1> QED
    BY <1>1, <1>2, <1>3, <1>4, <1>5, <1>6 DEF FlInv

LEMMA LoadEndsStep == ASSUME FlInv, LoadEnds PROVE FlInv'
<1> USE DEF FlAt
<1>1. JbInv'
    BY JbEnds DEF FlInv, LoadEnds
<1>2. FlTypeOK' /\ Moved'
    BY SameJob DEF FlInv, LoadEnds, JobEnds, flThread, FlTypeOK, Moved
<1>3. LeftWhole' /\ Opened'
    BY SameJob DEF FlInv, LoadEnds, JobEnds, flThread, LeftWhole, Opened
<1>4. Taken' /\ Given'
    BY ThreadStep DEF LoadEnds, JobEnds, flThread
<1> QED
    BY <1>1, <1>2, <1>3, <1>4 DEF FlInv

\* A step of the dialog leaves the thread alone; only its stopping it can see.
LEMMA DialogStep ==
    ASSUME FlInv, UNCHANGED <<flJob, flThread, jbRun>>, jbStopped => jbStopped'
    PROVE  FlTypeOK' /\ Moved' /\ LeftWhole' /\ Opened'
BY SameJob DEF FlInv, flThread, FlTypeOK, Moved, LeftWhole, Opened

LEMMA LoadStoppedStep == ASSUME FlInv, LoadStopped PROVE FlInv'
<1> DEFINE failed == flError /\ ~(Loading /\ flJob.new /\ flNotExist)
<1>1. /\ TakeEnd(IF failed THEN "cancel" ELSE "ok")
      /\ flFile' = (IF ~Loading \/ failed THEN flFile ELSE IF flLeft = <<>> THEN <<0>> ELSE flLeft)
      /\ UNCHANGED <<flJob, flThread, flTempDir, flResult>>
    BY DEF LoadStopped
<1> HIDE DEF failed
<1>2. jbRun = "ended" /\ jbUi = "loop" /\ jbModal = "running" /\ jbTold' /\ jbOpen
    BY <1>1 DEF FlInv, JbInv, JbTypeOK, JbShape, TakeEnd, InLoop
<1>3. UNCHANGED <<jbRun, jbStopped, jbUi, jbOpen>>
    BY <1>1 DEF TakeEnd
<1>4. JbInv'
    BY <1>1, JbDialog DEF FlInv
<1>5. FlTypeOK' /\ Moved' /\ LeftWhole' /\ Opened'
    BY <1>1, <1>3, DialogStep
<1>6. Taken'
    <2>1. CASE ~Loading \/ failed
        BY <1>1, <1>2, <1>3, <2>1, SameJob DEF FlInv, Taken, flThread, failed
    <2>2. CASE Loading /\ ~failed /\ flLeft = <<>>
        <3>1. flError /\ flJob.new /\ ~flJob.exists
            BY <1>2, <2>2 DEF FlInv, Taken, Moved, LeftWhole, failed, Loading, ToTemp
        <3>2. flFile' = <<0>> /\ WholeFile = <<0>>
            BY <1>1, <2>2, <3>1 DEF WholeFile
        <3> QED
            BY <1>1, <1>2, <1>3, <2>2, <3>1, <3>2, SameJob DEF FlInv, Taken, flThread
    <2>3. CASE Loading /\ ~failed /\ flLeft # <<>>
        <3>1. flJob.exists /\ flLeft = <<flJob.blocks>>
            BY <2>3 DEF FlInv, FlTypeOK, LeftWhole
        <3>2. flFile' = WholeFile /\ flFile' # <<>>
            BY <1>1, <2>3, <3>1 DEF WholeFile
        <3> QED
            BY <1>1, <1>2, <1>3, <2>3, <3>1, <3>2, SameJob DEF FlInv, Taken, flThread
    <2> QED
        BY <2>1, <2>2, <2>3
<1>7. Given'
    BY <1>1, <1>2, <1>3, SameJob DEF FlInv, Given, flThread
<1> QED
    BY <1>4, <1>5, <1>6, <1>7 DEF FlInv

LEMMA UserCancelsStep == ASSUME FlInv, UserCancels PROVE FlInv'
<1>1. JbInv'
    BY JbDialog DEF FlInv, UserCancels
<1>2. /\ UNCHANGED <<flJob, flThread, flFile, flTempDir, flResult, jbRun, jbUi, jbTold, jbOpen>>
      /\ jbStopped => jbStopped'
      /\ ToTemp => UNCHANGED jbModal
      /\ ~ToTemp => UNCHANGED jbStopped
    BY DEF FlInv, JbInv, JbTypeOK, UserCancels, SetStopFlag, EndModal
<1>3. FlTypeOK' /\ Moved' /\ LeftWhole' /\ Opened'
    BY <1>2, DialogStep
<1>4. Taken' /\ Given'
    BY <1>2, SameJob DEF FlInv, Taken, Given, flThread
<1> QED
    BY <1>1, <1>3, <1>4 DEF FlInv

LEMMA LoaderStoppedStep == ASSUME FlInv, LoaderStopped PROVE FlInv'
<1>1. JbInv'
    BY JbDialog DEF FlInv, LoaderStopped
<1>2. /\ UNCHANGED <<flJob, flThread, flFile, flTempDir, flResult, jbRun, jbModal, jbTold, jbOpen>>
      /\ jbStopped => jbStopped'
      /\ jbUi' = "stopped"
    BY DEF LoaderStopped, StopThread
<1>3. FlTypeOK' /\ Moved' /\ LeftWhole' /\ Opened'
    BY <1>2, DialogStep
<1>4. Taken' /\ Given'
    BY <1>2, SameJob DEF FlInv, Taken, Given, flThread
<1> QED
    BY <1>1, <1>3, <1>4 DEF FlInv

LEMMA LoaderReturnsStep == ASSUME FlInv, LoaderReturns PROVE FlInv'
<1>1. JbInv'
    BY JbDialog DEF FlInv, LoaderReturns
<1>2. /\ UNCHANGED <<flJob, flThread, flFile, jbRun, jbStopped, jbModal, jbUi, jbTold>>
      /\ jbOpen /\ ~jbOpen' /\ jbUi = "stopped"
      /\ flResult' = (IF Loading THEN flFile ELSE flLeft)
      /\ flTempDir' = (flTempDir /\ flLeft # <<>>)
    BY DEF FlInv, JbInv, JbTypeOK, LoaderReturns, Return
<1>3. FlTypeOK' /\ Moved' /\ LeftWhole' /\ Opened'
    BY <1>2, SameJob DEF FlInv, flThread, FlTypeOK, Moved, LeftWhole, Opened
<1>4. Taken'
    BY <1>2, SameJob DEF FlInv, Taken, flThread
<1>5. flLeft = <<>> => flError \/ jbStopped
    BY <1>2 DEF FlInv, JbInv, JbShape, Moved, LeftWhole
<1>6. Given'
    BY <1>2, <1>5, SameJob DEF FlInv, Given, flThread, Loading, ToTemp
<1> QED
    BY <1>1, <1>3, <1>4, <1>6 DEF FlInv

LEMMA FlPreserves == FlInv /\ [FlNext]_flVars => FlInv'
<1> SUFFICES ASSUME FlInv, [FlNext]_flVars PROVE FlInv'
    OBVIOUS
<1>1. CASE UNCHANGED flVars
    <2>1. UNCHANGED <<flJob, flThread, flFile, flTempDir, flResult, jbVars>>
        BY <1>1 DEF flVars, flOwn
    <2>2. FlTypeOK' /\ Moved' /\ LeftWhole' /\ Opened'
        BY <2>1, DialogStep DEF jbVars
    <2>3. Taken' /\ Given'
        BY <2>1, SameJob DEF FlInv, Taken, Given, flThread, jbVars
    <2> QED
        BY <2>1, <2>2, <2>3, Alone DEF FlInv
<1>2. CASE FlNext
    BY <1>2, StartsStep, OpenReadStep, NotesAbsentStep, OpenCreateStep, NextBlockStep, TransferStep,
       ClosesFilesStep, StoppedClosesStep, LooksUnlockedStep, LeavesStep, CatchesStep, LoadEndsStep,
       LoadStoppedStep, UserCancelsStep, LoaderStoppedStep, LoaderReturnsStep
    DEF FlNext
<1> QED
    BY <1>1, <1>2

LEMMA FlInvariance == FlSpec => []FlInv
BY FlInitial, FlPreserves, PTL DEF FlSpec

LEMMA WholeFromInv == FlInv => WholeOrTold
<1> SUFFICES ASSUME FlInv PROVE WholeOrTold
    OBVIOUS
<1>1. jbRun = "ended" => flOpened = {} \/ (jbStopped /\ ~ToTemp)
    BY DEF FlInv, Moved, Opened
<1>2. ASSUME flResult # <<FlNone>>
      PROVE  /\ flResult = <<>> => flError \/ jbStopped \/ ~jbTold
             /\ ToTemp => (flTempDir <=> flResult # <<>>)
    BY <1>2 DEF FlInv, Given, Taken
<1>3. ASSUME flResult # <<FlNone>>, flResult # <<>>, ~Loading
      PROVE  flDisk = flJob.blocks \/ flUnseen
    BY <1>3 DEF FlInv, Given, LeftWhole
<1>4. ASSUME flResult # <<FlNone>>, flResult # <<>>, Loading
      PROVE  IF flJob.exists THEN flResult[1] = flJob.blocks ELSE flJob.new /\ flResult[1] = 0
    <2>1. flResult = WholeFile /\ (flJob.exists \/ flJob.new)
        BY <1>4 DEF FlInv, Given, Taken
    <2> QED
        BY <2>1 DEF WholeFile
<1> QED
    BY <1>1, <1>2, <1>3, <1>4 DEF WholeOrTold

(***************************************************************************)
(* Whatever is loaded, saved or copied to a temporary file, of whatever    *)
(* length, wherever it fails and whenever the user cancels: the caller has *)
(* the whole file or knows that it has not (eloadsave.cpp, file-util.cpp), *)
(* but for a copy whose Close has failed: LoadToTempFile does not look.    *)
(***************************************************************************)
THEOREM LoadsTheWhole == FlSpec => []WholeOrTold
BY FlInvariance, WholeFromInv, PTL

(***************************************************************************)
(* A loader, a saver or a copier whose dialog is gone does not use its     *)
(* data, but for the unlocked ends of the loader and the saver.            *)
(***************************************************************************)
THEOREM LoadUsesItsData == FlSpec => []UsedWhileOpen
<1>1. FlInv => UsedWhileOpen
    BY DEF FlInv, JbInv, JbShape
<1> QED
    BY <1>1, FlInvariance, PTL
-----------------------------------------------------------------------------
(***************************************************************************)
(* TreeWalk.  What it does to the data, whatever the tree holds.           *)
(***************************************************************************)
\* Each step of the thread looks at jbStopped before it uses the data, but for
\* those of Calc.
LEMMA WalkThread ==
    ASSUME JbInv,
           \/ EnterDir \/ SignalPath \/ ReadsDir \/ BadDir
           \/ SearchEntry \/ BadFile \/ AddFound \/ TellFound \/ NoMoreFiles
           \/ AddCounts \/ TellCounts \/ NextDir \/ NoMoreDirs
           \/ CalcEntry \/ CalcCounted \/ WalkEnds
    PROVE  JbInv'
<1>1. \/ UNCHANGED jbVars
      \/ jbRun = "running" /\ ~jbStopped /\ Uses("walk")
      \/ Uses("Calc")
      \/ jbRun = "running" /\ SendSignal
      \/ JobEnds
    <2>1. CASE EnterDir \/ AddCounts
        BY <2>1 DEF EnterDir, AddCounts, WithData, At
    <2>2. CASE SignalPath \/ TellFound \/ TellCounts
        BY <2>2 DEF SignalPath, TellFound, TellCounts, At
    <2>3. CASE ReadsDir \/ SearchEntry \/ NoMoreFiles \/ NextDir \/ NoMoreDirs
        BY <2>3 DEF ReadsDir, SearchEntry, NoMoreFiles, NextDir, NoMoreDirs
    <2>4. CASE BadDir \/ BadFile \/ AddFound
        BY <2>4 DEF BadDir, BadFile, AddFound, At
    <2>5. CASE CalcEntry \/ CalcCounted
        BY <2>5 DEF CalcEntry, CalcCounted
    <2>6. CASE WalkEnds
        BY <2>6 DEF WalkEnds
    <2> QED
        BY <2>1, <2>2, <2>3, <2>4, <2>5, <2>6
<1>2. CASE UNCHANGED jbVars
    BY <1>2 DEF JbInv, JbTypeOK, JbShape, UsedWhileOpen, jbVars
<1>3. CASE jbRun = "running" /\ ~jbStopped /\ Uses("walk")
    BY <1>3, DataThere, JbUses
<1>4. CASE Uses("Calc")
    BY <1>4, JbUses
<1>5. CASE jbRun = "running" /\ SendSignal
    BY <1>5, JbSignals
<1>6. CASE JobEnds
    BY <1>6, JbEnds
<1> QED
    BY <1>1, <1>2, <1>3, <1>4, <1>5, <1>6

LEMMA WalkDialog ==
    ASSUME JbInv, SignalCounters \/ SignalResults \/ WalkStopped \/ UserEnds \/ CallerGoesOn
    PROVE  JbInv'
<1>1. CASE SignalCounters
    BY <1>1, JbDialog DEF SignalCounters
<1>2. CASE SignalResults
    BY <1>2, JbDialog DEF SignalResults
<1>3. CASE WalkStopped
    <2>1. PICK modal \in {"running", "ok", "cancel"} : TakeEnd(modal)
        BY <1>3 DEF WalkStopped
    <2> QED
        BY <2>1, JbDialog
<1>4. CASE UserEnds
    BY <1>4, JbDialog DEF UserEnds
<1>5. CASE CallerGoesOn
    BY <1>5, JbDialog DEF CallerGoesOn
<1> QED
    BY <1>1, <1>2, <1>3, <1>4, <1>5

(***************************************************************************)
(* A search or a count whose dialog is gone does not use the data of its   *)
(* caller, whatever the tree and wherever it is stopped: every step looks  *)
(* at Data() under the mutex that StopThread takes.  Calc alone does not   *)
(* (dircalc.cpp:191).                                                      *)
(***************************************************************************)
THEOREM WalkUsesItsData == TwSpec => []UsedWhileOpen
<1>1. TwInit => JbInv
    BY JbInitial DEF TwInit
<1>2. JbInv /\ [TwNext]_twVars => JbInv'
    <2>1. ASSUME JbInv, TwNext PROVE JbInv'
        BY <2>1, WalkThread, WalkDialog DEF TwNext
    <2>2. ASSUME JbInv, UNCHANGED twVars PROVE JbInv'
        BY <2>2 DEF JbInv, JbTypeOK, JbShape, UsedWhileOpen, twVars, jbVars
    <2> QED
        BY <2>1, <2>2
<1>3. JbInv => UsedWhileOpen
    BY DEF JbInv, JbShape
<1> QED
    BY <1>1, <1>2, <1>3, PTL DEF TwSpec

(***************************************************************************)
(* What the search finds and lists.                                        *)
(***************************************************************************)
Frames == [dir : DOMAIN TwDirs, i : Nat \ {0}, id : Nat, sum : Int,
           pc : {"enter", "signal", "read", "files", "found", "tell", "badFile", "bad", "dirs"}]
Items == [id : Nat \ {0}, name : Names \cup {NoName}, added : BOOLEAN]
Counters == [found : Nat, badDirs : Nat, badFiles : Nat, files : Nat, folders : Nat, size : Nat]
Shared == [n : Counters, path : DOMAIN TwDirs \cup {NoName}, dirs : SUBSET Nat, items : Seq(Items)]

TwTypeOK ==
    /\ twStack \in Seq(Frames) /\ twTop = <<>> /\ twDirId \in Nat
    /\ twData \in Shared /\ twList \in Seq(Items)

\* Only the innermost call looks at files; the entry it has found is there.
Calls ==
    /\ \A k \in 1..(Len(twStack) - 1) : twStack[k].pc = "dirs"
    /\ twStack # <<>> /\ Call0.pc = "found" => Call0.i <= Len(Entries)

\* A directory that has a row is the one of the last item, as long as the call
\* looks at its files.
LastItem ==
    /\ twStack # <<>> /\ Call0.pc \in {"enter", "signal", "read", "bad"} => Call0.id = 0
    /\ twStack # <<>> /\ Call0.pc \in {"files", "found", "tell", "badFile"} /\ Call0.id # 0 =>
          twData.items # <<>> /\ Last(twData.items).id = Call0.id

\* The rows of a directory are together, behind its own.
Rows ==
    /\ \A k \in 1..Len(twData.items) :
          /\ twData.items[k].id \in twData.dirs /\ twData.items[k].id <= twDirId
          /\ twData.items[k].name # NoName => k > 1 /\ twData.items[k - 1].id = twData.items[k].id
    /\ \A j, k \in 1..Len(twData.items) :
          twData.items[j].name = NoName /\ twData.items[j].id = twData.items[k].id => j <= k

\* The dialog lists a part of them, from the first one on, and it is those that
\* are marked.
ListedPart ==
    /\ Len(twList) <= Len(twData.items)
    /\ \A k \in 1..Len(twData.items) : twData.items[k].added <=> k <= Len(twList)
    /\ \A k \in 1..Len(twList) :
          /\ twList[k].id = twData.items[k].id /\ twList[k].name = twData.items[k].name
          /\ twList[k].id \in twHash
    /\ jbTold => Len(twList) = Len(twData.items)

SearchInv == TwTypeOK /\ Calls /\ LastItem /\ Rows /\ ListedPart
TwInv == JbInv /\ (Searching => SearchInv)

LEMMA TopCall ==
    ASSUME TwTypeOK, twStack # <<>>
    PROVE  /\ Len(twStack) \in Nat \ {0} /\ DOMAIN twStack = 1..Len(twStack)
           /\ Call0 = twStack[Len(twStack)] /\ Call0 \in Frames
           /\ Call0.dir \in DOMAIN TwDirs /\ Call0.i \in Nat \ {0} /\ Call0.id \in Nat /\ Call0.sum \in Int
<1>1. twStack \in Seq(Frames)
    BY DEF TwTypeOK
<1> HIDE DEF Frames
<1>2. Len(twStack) \in Nat \ {0} /\ DOMAIN twStack = 1..Len(twStack) /\ Call0 = twStack[Len(twStack)]
    BY <1>1 DEF Call0, Last
<1>3. Call0 \in Frames
    BY <1>1, <1>2
<1> QED
    BY <1>2, <1>3 DEF Frames

\* The entry a call is at.
LEMMA EntryThere ==
    ASSUME TwTypeOK, twStack # <<>>, Call0.i <= Len(Entries)
    PROVE  /\ Entry.name \in Names /\ Entry.name # NoName
           /\ Entry.dir /\ ~Entry.link => Entry.name \in DOMAIN TwDirs
<1>1. Call0.dir \in DOMAIN TwDirs /\ Call0.i \in Nat \ {0}
    BY TopCall
<1>2. Entries \in Seq(Range(Entries))
    BY <1>1, TreeAssumption DEF Entries
<1>3. Call0.i \in DOMAIN Entries
    BY <1>1, <1>2
<1>4. Entry.name # NoName /\ (Entry.dir /\ ~Entry.link => Entry.name \in DOMAIN TwDirs)
    BY <1>1, <1>3, TreeAssumption DEF Entry, Entries
<1>5. Entry \in Range(Entries)
    BY <1>3 DEF Entry, Range
<1>6. Entry.name \in Names
    BY <1>1, <1>5 DEF Names, Entries
<1> QED
    BY <1>4, <1>6

LEMMA Inner ==
    ASSUME NEW n \in Nat, NEW k \in 1..(n - 1)
    PROVE  k \in 1..n /\ k # n
OBVIOUS

LEMMA TwoFields ==
    ASSUME NEW f, NEW n \in DOMAIN f, NEW r
    PROVE  [f EXCEPT ![n].i = @ + 1, ![n].sum = @ + r]
           = [f EXCEPT ![n] = [f[n] EXCEPT !.i = @ + 1, !.sum = @ + r]]
OBVIOUS

\* The innermost call goes on.
LEMMA CallGoesOn ==
    ASSUME TwTypeOK, Calls, twStack # <<>>, NEW f \in Frames, Becomes(f)
    PROVE  /\ twStack' \in Seq(Frames) /\ twStack' # <<>> /\ Call0' = f
           /\ \A k \in 1..(Len(twStack') - 1) : twStack'[k].pc = "dirs"
<1>1. twStack \in Seq(Frames) /\ Len(twStack) \in Nat \ {0} /\ DOMAIN twStack = 1..Len(twStack)
    BY TopCall DEF TwTypeOK
<1> HIDE DEF Frames
<1>2. twStack' = [twStack EXCEPT ![Len(twStack)] = f]
    BY DEF Becomes
<1>3. twStack' \in Seq(Frames) /\ Len(twStack') = Len(twStack) /\ twStack'[Len(twStack)] = f
    BY <1>1, <1>2
<1>4. Call0' = f
    BY <1>3 DEF Call0, Last
<1>5. ASSUME NEW k \in 1..(Len(twStack') - 1) PROVE twStack'[k].pc = "dirs"
    <2>1. k \in 1..(Len(twStack) - 1)
        BY <1>3
    <2>2. k \in DOMAIN twStack /\ k # Len(twStack)
        BY <1>1, <2>1, Inner, Zenon
    <2>3. twStack'[k] = twStack[k]
        BY <1>2, <2>2, Zenon
    <2> QED
        BY <2>1, <2>3 DEF Calls
<1> QED
    BY <1>1, <1>3, <1>4, <1>5

\* A call returns: its caller is going through its directories.
LEMMA CallReturns ==
    ASSUME TwTypeOK, Calls, twStack # <<>>, NEW ret \in Int, Returns(ret)
    PROVE  /\ twStack' \in Seq(Frames)
           /\ twStack' # <<>> => Call0'.pc = "dirs"
           /\ \A k \in 1..(Len(twStack') - 1) : twStack'[k].pc = "dirs"
<1>1. twStack \in Seq(Frames) /\ Len(twStack) \in Nat \ {0} /\ DOMAIN twStack = 1..Len(twStack)
    BY TopCall DEF TwTypeOK
<1> DEFINE callers == Front(twStack)
           n == Len(callers)
<1>2. callers \in Seq(Frames) /\ n = Len(twStack) - 1 /\ \A k \in 1..n : callers[k] = twStack[k]
    <2> HIDE DEF Frames
    <2> QED
        BY <1>1 DEF Front
<1>3. CASE callers = <<>>
    BY <1>3 DEF Returns
<1>4. CASE callers # <<>>
    <2> HIDE DEF callers
    <2>1. n \in 1..(Len(twStack) - 1) /\ callers[n] \in Frames /\ callers[n].pc = "dirs"
        BY <1>1, <1>2, <1>4 DEF Calls
    <2> PICK c \in Frames : c = callers[n]
        BY <2>1
    <2> DEFINE g == [[c EXCEPT !.i = @ + 1] EXCEPT !.sum = @ + ret]
    <2>2. g \in Frames /\ g.pc = "dirs"
        <3>1. c.i \in Nat \ {0} /\ c.sum \in Int /\ c.pc = "dirs"
            BY <2>1 DEF Frames
        <3>2. c.i + 1 \in Nat \ {0} /\ c.sum + ret \in Int
            BY <3>1
        <3> QED
            BY <3>1, <3>2 DEF Frames
    <2>3. twStack' = [callers EXCEPT ![n] = g]
        <3>1. n \in DOMAIN callers
            BY <1>2, <2>1
        <3>2. twStack' = [callers EXCEPT ![n].i = @ + 1, ![n].sum = @ + ret]
            BY <1>4, Zenon DEF Returns, callers
        <3>3. twStack' = [callers EXCEPT ![n] = [c EXCEPT !.i = @ + 1, !.sum = @ + ret]]
            BY <3>1, <3>2, TwoFields
        <3> QED
            BY <3>3
    <2> HIDE DEF g, Frames
    <2>4. twStack' \in Seq(Frames) /\ Len(twStack') = n /\ twStack'[n] = g
        BY <1>2, <2>1, <2>2, <2>3
    <2>5. Call0' = g
        BY <2>4 DEF Call0, Last
    <2>6. ASSUME NEW k \in 1..(Len(twStack') - 1) PROVE twStack'[k].pc = "dirs"
        <3>0. n \in Int /\ Len(twStack) \in Int /\ n = Len(twStack) - 1 /\ k \in 1..(n - 1)
            BY <1>1, <1>2, <2>1, <2>4
        <3>1. k \in 1..(Len(twStack) - 1) /\ k \in 1..n /\ k # n
            BY <3>0
        <3>2. twStack'[k] = twStack[k]
            BY <1>2, <2>3, <3>1
        <3> QED
            BY <3>1, <3>2 DEF Calls
    <2> QED
        BY <2>2, <2>4, <2>5, <2>6
<1> QED
    BY <1>3, <1>4

LEMMA CallFields ==
    ASSUME TwTypeOK, twStack # <<>>, NEW pc \in {"signal", "read", "files", "found", "tell", "badFile", "bad", "dirs"}
    PROVE  LET f == [Call0 EXCEPT !.pc = pc]
               g == [Call0 EXCEPT !.pc = pc, !.i = @ + 1]
           IN  /\ f \in Frames /\ f.pc = pc /\ f.id = Call0.id /\ f.i = Call0.i /\ f.dir = Call0.dir
               /\ g \in Frames /\ g.pc = pc /\ g.id = Call0.id
<1>1. PICK c \in Frames : c = Call0
    BY TopCall
<1>2. c.i \in Nat \ {0} /\ c.i + 1 \in Nat \ {0}
    BY DEF Frames
<1>3. [c EXCEPT !.pc = pc] \in Frames
    BY DEF Frames
<1>4. [c EXCEPT !.pc = pc, !.i = @ + 1] \in Frames
    BY <1>2 DEF Frames
<1> QED
    BY <1>1, <1>3, <1>4 DEF Frames

\* The thread goes on inside its innermost call.
LEMMA GoesOn ==
    ASSUME SearchInv, twStack # <<>>, NEW f \in Frames, Becomes(f),
           f.pc = "found" => f.i <= Len(TwDirs[f.dir]),
           f.pc \in {"enter", "signal", "read", "bad"} => f.id = 0,
           f.pc \in {"files", "found", "tell", "badFile"} /\ f.id # 0 =>
              twData'.items # <<>> /\ Last(twData'.items).id = f.id
    PROVE  twStack' \in Seq(Frames) /\ Calls' /\ LastItem'
<1>1. /\ twStack' \in Seq(Frames) /\ twStack' # <<>> /\ Call0' = f
      /\ \A k \in 1..(Len(twStack') - 1) : twStack'[k].pc = "dirs"
    BY CallGoesOn DEF SearchInv
<1>2. Calls'
    BY <1>1 DEF Calls, Entries
<1>3. LastItem'
    BY <1>1 DEF LastItem
<1> QED
    BY <1>1, <1>2, <1>3

\* It goes back to the caller.
LEMMA GoesBack ==
    ASSUME SearchInv, twStack # <<>>, NEW ret \in Int, Returns(ret)
    PROVE  twStack' \in Seq(Frames) /\ Calls' /\ LastItem'
<1>1. /\ twStack' \in Seq(Frames)
      /\ twStack' # <<>> => Call0'.pc = "dirs"
      /\ \A k \in 1..(Len(twStack') - 1) : twStack'[k].pc = "dirs"
    BY CallReturns DEF SearchInv
<1>2. Calls'
    BY <1>1 DEF Calls
<1>3. LastItem'
    BY <1>1 DEF LastItem
<1> QED
    BY <1>1, <1>2, <1>3

\* A step that finds nothing and lists nothing.
LEMMA NothingFound ==
    ASSUME SearchInv, UNCHANGED <<twTop, twDirId, twList, twHash, jbTold>>,
           twStack' \in Seq(Frames), Calls', LastItem',
           twData' \in Shared, twData'.items = twData.items, twData'.dirs = twData.dirs
    PROVE  SearchInv'
<1>1. TwTypeOK'
    BY DEF SearchInv, TwTypeOK
<1>2. Rows'
    BY DEF SearchInv, Rows
<1>3. ListedPart'
    BY DEF SearchInv, ListedPart
<1> QED
    BY <1>1, <1>2, <1>3 DEF SearchInv

\* The data with another path or another counter.
LEMMA DataFields ==
    ASSUME twData \in Shared, NEW d \in DOMAIN TwDirs
    PROVE  /\ [twData EXCEPT !.path = d] \in Shared
           /\ [twData EXCEPT !.path = d].items = twData.items /\ [twData EXCEPT !.path = d].dirs = twData.dirs
           /\ [twData EXCEPT !.n.badDirs = @ + 1] \in Shared
           /\ [twData EXCEPT !.n.badDirs = @ + 1].items = twData.items
           /\ [twData EXCEPT !.n.badDirs = @ + 1].dirs = twData.dirs
           /\ [twData EXCEPT !.n.badFiles = @ + 1] \in Shared
           /\ [twData EXCEPT !.n.badFiles = @ + 1].items = twData.items
           /\ [twData EXCEPT !.n.badFiles = @ + 1].dirs = twData.dirs
<1>1. twData.n \in Counters /\ twData.path \in DOMAIN TwDirs \cup {NoName}
      /\ twData.dirs \in SUBSET Nat /\ twData.items \in Seq(Items)
    BY DEF Shared
<1>2. [twData.n EXCEPT !.badDirs = @ + 1] \in Counters /\ [twData.n EXCEPT !.badFiles = @ + 1] \in Counters
    BY <1>1 DEF Counters
<1> HIDE DEF Counters, Items
<1>3. [twData EXCEPT !.path = d] \in Shared
    BY <1>1 DEF Shared
<1>4. [twData EXCEPT !.n.badDirs = @ + 1] \in Shared
    BY <1>1, <1>2 DEF Shared
<1>5. [twData EXCEPT !.n.badFiles = @ + 1] \in Shared
    BY <1>1, <1>2 DEF Shared
<1> QED
    BY <1>1, <1>3, <1>4, <1>5 DEF Shared

LEMMA SearchEnters == ASSUME SearchInv, EnterDir PROVE SearchInv'
<1>1. /\ twStack # <<>> /\ Call0.pc = "enter"
      /\ WithData([twData EXCEPT !.path = Call0.dir], "signal")
      /\ UNCHANGED <<twTop, twDirId, twList, twHash>>
    BY DEF EnterDir, At, dialogOnly
<1>2. TwTypeOK /\ twData \in Shared /\ Call0.dir \in DOMAIN TwDirs /\ Call0.id = 0
    BY <1>1, TopCall DEF SearchInv, TwTypeOK, LastItem
<1>3. CASE jbStopped
    <2>1. Returns(-1) /\ UNCHANGED <<twData, jbTold>>
        BY <1>1, <1>3 DEF WithData, jbVars
    <2>2. twStack' \in Seq(Frames) /\ Calls' /\ LastItem'
        BY <1>1, <2>1, GoesBack
    <2> QED
        BY <1>1, <1>2, <2>1, <2>2, NothingFound
<1>4. CASE ~jbStopped
    <2>1. twData' = [twData EXCEPT !.path = Call0.dir] /\ GoesTo("signal") /\ UNCHANGED jbTold
        BY <1>1, <1>4 DEF WithData, Uses
    <2>2. twData' \in Shared /\ twData'.items = twData.items /\ twData'.dirs = twData.dirs
        BY <1>2, <2>1, DataFields
    <2> DEFINE f == [Call0 EXCEPT !.pc = "signal"]
    <2>3. f \in Frames /\ f.pc = "signal" /\ f.id = 0 /\ Becomes(f)
        BY <1>1, <1>2, <2>1, CallFields DEF GoesTo
    <2> HIDE DEF f
    <2>4. twStack' \in Seq(Frames) /\ Calls' /\ LastItem'
        BY <1>1, <2>3, GoesOn
    <2> QED
        BY <1>1, <2>1, <2>2, <2>4, NothingFound
<1> QED
    BY <1>3, <1>4

LEMMA SearchSignals == ASSUME SearchInv, SignalPath PROVE SearchInv'
<1>1. /\ twStack # <<>> /\ Call0.pc = "signal" /\ GoesTo("read")
      /\ UNCHANGED <<twData, twTop, twDirId, twList, twHash, jbTold>>
    BY DEF SignalPath, At, dialogOnly, SendSignal
<1>2. TwTypeOK /\ twData \in Shared /\ Call0.id = 0
    BY <1>1 DEF SearchInv, TwTypeOK, LastItem
<1> DEFINE f == [Call0 EXCEPT !.pc = "read"]
<1>3. f \in Frames /\ f.pc = "read" /\ f.id = 0 /\ Becomes(f)
    BY <1>1, <1>2, CallFields DEF GoesTo
<1> HIDE DEF f
<1>4. twStack' \in Seq(Frames) /\ Calls' /\ LastItem'
    BY <1>1, <1>3, GoesOn
<1> QED
    BY <1>1, <1>2, <1>4, NothingFound

LEMMA SearchReads == ASSUME Searching, SearchInv, ReadsDir PROVE SearchInv'
<1>1. /\ twStack # <<>> /\ Call0.pc = "read"
      /\ UNCHANGED <<twData, twTop, twDirId, twList, twHash, jbTold>>
    BY DEF ReadsDir, At, dialogOnly, jbVars
<1>2. TwTypeOK /\ twData \in Shared /\ Call0.id = 0
    BY <1>1 DEF SearchInv, TwTypeOK, LastItem
<1>3. PICK pc \in {"files", "bad"} : GoesTo(pc)
    BY DEF ReadsDir
<1> DEFINE f == [Call0 EXCEPT !.pc = pc]
<1>4. f \in Frames /\ f.pc = pc /\ f.id = 0 /\ Becomes(f)
    BY <1>1, <1>2, <1>3, CallFields DEF GoesTo
<1> HIDE DEF f
<1>5. twStack' \in Seq(Frames) /\ Calls' /\ LastItem'
    BY <1>1, <1>4, GoesOn
<1> QED
    BY <1>1, <1>2, <1>5, NothingFound

LEMMA SearchFails == ASSUME SearchInv, BadDir PROVE SearchInv'
<1>1. /\ twStack # <<>> /\ Call0.pc = "bad" /\ Returns(-1)
      /\ UNCHANGED <<twTop, twDirId, twList, twHash, jbTold>>
      /\ twData' = twData \/ twData' = [twData EXCEPT !.n.badDirs = @ + 1]
    BY DEF BadDir, At, dialogOnly, Uses, jbVars
<1>2. TwTypeOK /\ twData \in Shared /\ Call0.dir \in DOMAIN TwDirs
    BY <1>1, TopCall DEF SearchInv, TwTypeOK
<1>3. twStack' \in Seq(Frames) /\ Calls' /\ LastItem'
    BY <1>1, GoesBack
<1>4. twData' \in Shared /\ twData'.items = twData.items /\ twData'.dirs = twData.dirs
    BY <1>1, <1>2, DataFields
<1> QED
    BY <1>1, <1>3, <1>4, NothingFound

LEMMA SearchLooks == ASSUME SearchInv, SearchEntry PROVE SearchInv'
<1>1. /\ twStack # <<>> /\ Call0.pc = "files" /\ Call0.i <= Len(Entries)
      /\ UNCHANGED <<twData, twTop, twDirId, twList, twHash, jbTold>>
      /\ \/ GoesTo("found") \/ GoesTo("badFile") \/ Becomes([Call0 EXCEPT !.i = @ + 1])
    BY DEF SearchEntry, At, dialogOnly, jbVars
<1>2. TwTypeOK /\ twData \in Shared
    BY DEF SearchInv, TwTypeOK
<1>3. Call0.id # 0 => twData.items # <<>> /\ Last(twData.items).id = Call0.id
    BY <1>1 DEF SearchInv, LastItem
<1>4. CASE Becomes([Call0 EXCEPT !.i = @ + 1])
    <2> DEFINE f == [Call0 EXCEPT !.i = @ + 1]
    <2>1. PICK c \in Frames : c = Call0
        BY <1>1, <1>2, TopCall
    <2>2. c.i + 1 \in Nat \ {0}
        BY DEF Frames
    <2>3. [c EXCEPT !.i = @ + 1] \in Frames
        BY <2>2 DEF Frames
    <2>4. f \in Frames /\ f.pc = "files" /\ f.id = Call0.id
        BY <1>1, <2>1, <2>3 DEF Frames
    <2> HIDE DEF f
    <2>5. twStack' \in Seq(Frames) /\ Calls' /\ LastItem'
        BY <1>1, <1>3, <1>4, <2>4, GoesOn DEF f
    <2> QED
        BY <1>1, <1>2, <2>5, NothingFound
<1>5. ASSUME NEW pc \in {"found", "badFile"}, GoesTo(pc) PROVE SearchInv'
    <2> DEFINE f == [Call0 EXCEPT !.pc = pc]
    <2>1. f \in Frames /\ f.pc = pc /\ f.id = Call0.id /\ f.i = Call0.i /\ f.dir = Call0.dir /\ Becomes(f)
        BY <1>1, <1>2, <1>5, CallFields DEF GoesTo
    <2> HIDE DEF f
    <2>2. f.i <= Len(TwDirs[f.dir])
        BY <1>1, <2>1 DEF Entries
    <2>3. twStack' \in Seq(Frames) /\ Calls' /\ LastItem'
        BY <1>1, <1>3, <2>1, <2>2, GoesOn
    <2> QED
        BY <1>1, <1>2, <2>3, NothingFound
<1> QED
    BY <1>1, <1>4, <1>5

LEMMA SearchMisses == ASSUME SearchInv, BadFile PROVE SearchInv'
<1>1. /\ twStack # <<>> /\ Call0.pc = "badFile"
      /\ UNCHANGED <<twTop, twDirId, twList, twHash, jbTold>>
      /\ \/ Returns(-1) /\ UNCHANGED twData
         \/ /\ twData' = [twData EXCEPT !.n.badFiles = @ + 1]
            /\ Becomes([Call0 EXCEPT !.pc = "files", !.i = @ + 1])
    BY DEF BadFile, At, dialogOnly, Uses, jbVars
<1>2. TwTypeOK /\ twData \in Shared /\ Call0.dir \in DOMAIN TwDirs
    BY <1>1, TopCall DEF SearchInv, TwTypeOK
<1>3. Call0.id # 0 => twData.items # <<>> /\ Last(twData.items).id = Call0.id
    BY <1>1 DEF SearchInv, LastItem
<1>4. twData' \in Shared /\ twData'.items = twData.items /\ twData'.dirs = twData.dirs
    BY <1>1, <1>2, DataFields
<1>5. CASE Returns(-1)
    <2>1. twStack' \in Seq(Frames) /\ Calls' /\ LastItem'
        BY <1>1, <1>5, GoesBack
    <2> QED
        BY <1>1, <1>4, <2>1, NothingFound
<1>6. CASE Becomes([Call0 EXCEPT !.pc = "files", !.i = @ + 1])
    <2> DEFINE f == [Call0 EXCEPT !.pc = "files", !.i = @ + 1]
    <2>1. f \in Frames /\ f.pc = "files" /\ f.id = Call0.id /\ Becomes(f)
        BY <1>1, <1>2, <1>6, CallFields
    <2> HIDE DEF f
    <2>2. twStack' \in Seq(Frames) /\ Calls' /\ LastItem'
        BY <1>1, <1>3, <1>4, <2>1, GoesOn
    <2> QED
        BY <1>1, <1>4, <2>2, NothingFound
<1> QED
    BY <1>1, <1>5, <1>6

LEMMA SearchTells == ASSUME SearchInv, TellFound PROVE SearchInv'
<1>1. /\ twStack # <<>> /\ Call0.pc = "tell" /\ Becomes([Call0 EXCEPT !.pc = "files", !.i = @ + 1])
      /\ UNCHANGED <<twData, twTop, twDirId, twList, twHash, jbTold>>
    BY DEF TellFound, At, dialogOnly, SendSignal
<1>2. TwTypeOK /\ twData \in Shared
    BY DEF SearchInv, TwTypeOK
<1>3. Call0.id # 0 => twData.items # <<>> /\ Last(twData.items).id = Call0.id
    BY <1>1 DEF SearchInv, LastItem
<1> DEFINE f == [Call0 EXCEPT !.pc = "files", !.i = @ + 1]
<1>4. f \in Frames /\ f.pc = "files" /\ f.id = Call0.id /\ Becomes(f)
    BY <1>1, <1>2, CallFields
<1> HIDE DEF f
<1>5. twStack' \in Seq(Frames) /\ Calls' /\ LastItem'
    BY <1>1, <1>3, <1>4, GoesOn
<1> QED
    BY <1>1, <1>2, <1>5, NothingFound

LEMMA SearchTurns == ASSUME SearchInv, NoMoreFiles PROVE SearchInv'
<1>1. /\ twStack # <<>> /\ Becomes([Call0 EXCEPT !.pc = "dirs", !.i = 1])
      /\ UNCHANGED <<twData, twTop, twDirId, twList, twHash, jbTold>>
    BY DEF NoMoreFiles, At, dialogOnly, jbVars
<1>2. TwTypeOK /\ twData \in Shared
    BY DEF SearchInv, TwTypeOK
<1> DEFINE f == [Call0 EXCEPT !.pc = "dirs", !.i = 1]
<1>3. f \in Frames /\ f.pc = "dirs"
    <2>1. PICK c \in Frames : c = Call0
        BY <1>1, <1>2, TopCall
    <2>2. 1 \in Nat \ {0}
        OBVIOUS
    <2>3. [c EXCEPT !.pc = "dirs", !.i = 1] \in Frames
        BY <2>2 DEF Frames
    <2>4. [c EXCEPT !.pc = "dirs", !.i = 1].pc = "dirs"
        BY DEF Frames
    <2> QED
        BY <2>1, <2>3, <2>4
<1> HIDE DEF f
<1>4. twStack' \in Seq(Frames) /\ Calls' /\ LastItem'
    BY <1>1, <1>3, GoesOn DEF f
<1> QED
    BY <1>1, <1>2, <1>4, NothingFound

LEMMA SearchDescends == ASSUME SearchInv, NextDir PROVE SearchInv'
<1>1. /\ twStack # <<>> /\ Call0.pc = "dirs" /\ Call0.i <= Len(Entries)
      /\ UNCHANGED <<twData, twTop, twDirId, twList, twHash, jbTold>>
      /\ \/ Becomes([Call0 EXCEPT !.i = @ + 1])
         \/ Returns(-1)
         \/ Entry.dir /\ ~Entry.link /\ twStack' = Append(twStack, Call(Entry.name))
    BY DEF NextDir, At, dialogOnly, jbVars
<1>2. TwTypeOK /\ twData \in Shared
    BY DEF SearchInv, TwTypeOK
<1>3. CASE Returns(-1)
    <2>1. twStack' \in Seq(Frames) /\ Calls' /\ LastItem'
        BY <1>1, <1>3, GoesBack
    <2> QED
        BY <1>1, <1>2, <2>1, NothingFound
<1>4. CASE Becomes([Call0 EXCEPT !.i = @ + 1])
    <2> DEFINE f == [Call0 EXCEPT !.i = @ + 1]
    <2>1. PICK c \in Frames : c = Call0
        BY <1>1, <1>2, TopCall
    <2>2. c.i + 1 \in Nat \ {0}
        BY DEF Frames
    <2>3. [c EXCEPT !.i = @ + 1] \in Frames
        BY <2>2 DEF Frames
    <2>4. f \in Frames /\ f.pc = "dirs"
        BY <1>1, <2>1, <2>3 DEF Frames
    <2> HIDE DEF f
    <2>5. twStack' \in Seq(Frames) /\ Calls' /\ LastItem'
        BY <1>1, <1>4, <2>4, GoesOn DEF f
    <2> QED
        BY <1>1, <1>2, <2>5, NothingFound
<1>5. CASE Entry.dir /\ ~Entry.link /\ twStack' = Append(twStack, Call(Entry.name))
    <2> DEFINE f == Call(Entry.name)
    <2>1. f \in Frames /\ f.pc = "enter" /\ f.id = 0
        BY <1>1, <1>2, <1>5, EntryThere DEF Call, Frames
    <2>2. twStack \in Seq(Frames) /\ Len(twStack) \in Nat \ {0}
          /\ twStack[Len(twStack)].pc = "dirs"
        BY <1>1, <1>2, TopCall DEF TwTypeOK
    <2> HIDE DEF f, Frames
    <2>3. /\ twStack' \in Seq(Frames) /\ Len(twStack') = Len(twStack) + 1
          /\ twStack'[Len(twStack) + 1] = f /\ twStack' # <<>>
          /\ \A k \in 1..Len(twStack) : twStack'[k] = twStack[k]
        BY <1>5, <2>1, <2>2 DEF f
    <2>4. Call0' = f
        BY <2>3 DEF Call0, Last
    <2>5. ASSUME NEW k \in 1..(Len(twStack') - 1) PROVE twStack'[k].pc = "dirs"
        <3>1. k \in 1..Len(twStack) /\ (k \in 1..(Len(twStack) - 1) \/ k = Len(twStack))
            BY <2>2, <2>3
        <3> QED
            BY <2>2, <2>3, <3>1 DEF SearchInv, Calls
    <2>6. Calls'
        BY <2>1, <2>4, <2>5 DEF Calls
    <2>7. LastItem'
        BY <2>1, <2>4 DEF LastItem
    <2> QED
        BY <1>1, <1>2, <2>3, <2>6, <2>7, NothingFound
<1> QED
    BY <1>1, <1>3, <1>4, <1>5

LEMMA SearchReturns == ASSUME SearchInv, NoMoreDirs PROVE SearchInv'
<1>1. /\ twStack # <<>> /\ Returns(Call0.sum)
      /\ UNCHANGED <<twData, twTop, twDirId, twList, twHash, jbTold>>
    BY DEF NoMoreDirs, At, dialogOnly, jbVars
<1>2. TwTypeOK /\ twData \in Shared /\ Call0.sum \in Int
    BY <1>1, TopCall DEF SearchInv, TwTypeOK
<1>3. twStack' \in Seq(Frames) /\ Calls' /\ LastItem'
    BY <1>1, <1>2, GoesBack
<1> QED
    BY <1>1, <1>2, <1>3, NothingFound

\* What goes through the items and lists those that have not been added leaves
\* the list as it was, and behind it the rest of the items.
Upto(n) ==
    [k \in 1..(IF n < Len(twList) THEN Len(twList) ELSE n) |->
        IF k <= Len(twList) THEN twList[k] ELSE twData.items[k]]

Going(f) ==
    f = [n \in 0..Len(twData.items) |->
            IF n = 0 THEN twList
            ELSE IF twData.items[n].added THEN f[n - 1]
            ELSE Append(f[n - 1], twData.items[n])]

LEMMA UptoStep ==
    ASSUME SearchInv, NEW n \in 1..Len(twData.items)
    PROVE  Upto(n) = IF twData.items[n].added THEN Upto(n - 1) ELSE Append(Upto(n - 1), twData.items[n])
<1> DEFINE t == Len(twList)
           items == twData.items
<1>1. twList \in Seq(Items) /\ items \in Seq(Items) /\ t \in Nat /\ n \in Nat \ {0} /\ items[n] \in Items
      /\ Len(items) \in Nat /\ n <= Len(items)
    <2> HIDE DEF Items
    <2> QED
        BY DEF SearchInv, TwTypeOK, Shared
<1>2. items[n].added <=> n <= t
    BY DEF SearchInv, ListedPart
<1> HIDE DEF t, items, Items
<1>3. CASE n <= t
    <2>1. (IF n < t THEN t ELSE n) = t /\ (IF n - 1 < t THEN t ELSE n - 1) = t
        BY <1>1, <1>3
    <2>2. Upto(n) = Upto(n - 1)
        BY <2>1, Zenon DEF Upto, t
    <2> QED
        BY <1>2, <1>3, <2>2 DEF items
<1>4. CASE ~(n <= t)
    <2>1. (IF n < t THEN t ELSE n) = n /\ (IF n - 1 < t THEN t ELSE n - 1) = n - 1 /\ n - 1 \in Nat
        BY <1>1, <1>4
    <2> DEFINE u == [k \in 1..(n - 1) |-> IF k <= t THEN twList[k] ELSE items[k]]
               v == [k \in 1..n |-> IF k <= t THEN twList[k] ELSE items[k]]
    <2>2. Upto(n - 1) = u /\ Upto(n) = v
        BY <2>1, Zenon DEF Upto, t, items
    <2>3. ASSUME NEW k \in 1..(n - 1) PROVE (IF k <= t THEN twList[k] ELSE items[k]) \in Items
        <3>1. k \in 1..Len(items)
            BY <1>1, <2>1
        <3>2. CASE k <= t
            <4>1. k \in 1..Len(twList)
                BY <1>1, <3>1, <3>2 DEF t
            <4> QED
                BY <1>1, <3>2, <4>1
        <3>3. CASE ~(k <= t)
            BY <1>1, <3>1, <3>3
        <3> QED
            BY <3>2, <3>3
    <2>4. u \in Seq(Items) /\ Len(u) = n - 1 /\ \A k \in 1..(n - 1) : u[k] = IF k <= t THEN twList[k] ELSE items[k]
        BY <2>1, <2>3
    <2> HIDE DEF u
    <2>5. Append(u, items[n]) = v
        BY <1>1, <1>4, <2>1, <2>4
    <2> QED
        BY <1>2, <1>4, <2>2, <2>5 DEF items
<1> QED
    BY <1>3, <1>4

LEMMA UptoZero ==
    ASSUME SearchInv
    PROVE  Upto(0) = twList
<1>1. twList \in Seq(Items)
    BY DEF SearchInv, TwTypeOK
<1> HIDE DEF Items
<1>2. (IF 0 < Len(twList) THEN Len(twList) ELSE 0) = Len(twList)
    BY <1>1
<1>3. \A k \in 1..Len(twList) : (IF k <= Len(twList) THEN twList[k] ELSE twData.items[k]) = twList[k]
    BY <1>1
<1>4. Upto(0) = [k \in 1..Len(twList) |-> twList[k]]
    BY <1>2, <1>3, Zenon DEF Upto
<1> QED
    BY <1>1, <1>4

LEMMA LeastOf ==
    ASSUME NEW set, set \subseteq Nat, set # {}
    PROVE  \E n \in set : \A k \in set : n <= k
<1> DEFINE R == OpToRel(<, Nat)
<1>1. IsWellFoundedOn(R, Nat)
    BY NatLessThanWellFounded
<1>2. \A k, m \in Nat : k < m <=> <<k, m>> \in R
    BY DEF OpToRel
<1> HIDE DEF R
<1>3. PICK n \in set : \A k \in set : ~(<<k, n>> \in R)
    BY <1>1, WFMin
<1>4. ASSUME NEW k \in set PROVE n <= k
    <2>1. k \in Nat /\ n \in Nat
        OBVIOUS
    <2>2. ~(k < n)
        BY <1>2, <1>3, <2>1, Zenon
    <2> QED
        BY <2>1, <2>2
<1> QED
    BY <1>4

LEMMA UptoGoes ==
    ASSUME SearchInv
    PROVE  Going([n \in 0..Len(twData.items) |-> Upto(n)])
<1> DEFINE F == [n \in 0..Len(twData.items) |-> Upto(n)]
<1>1. Len(twData.items) \in Nat
    <2> HIDE DEF Items
    <2> QED
        BY DEF SearchInv, TwTypeOK, Shared
<1>2. Upto(0) = twList
    BY UptoZero
<1>3. ASSUME NEW n \in 0..Len(twData.items)
      PROVE  Upto(n) = IF n = 0 THEN twList
                       ELSE IF twData.items[n].added THEN F[n - 1]
                       ELSE Append(F[n - 1], twData.items[n])
    <2>1. CASE n = 0
        BY <1>2, <2>1
    <2>2. CASE n # 0
        <3>1. n \in 1..Len(twData.items) /\ n - 1 \in 0..Len(twData.items)
            BY <1>1, <2>2
        <3>2. F[n - 1] = Upto(n - 1)
            BY <3>1
        <3> QED
            BY <2>2, <3>1, <3>2, UptoStep, Zenon
    <2> QED
        BY <2>1, <2>2
<1> HIDE DEF F
<1>4. F = [n \in 0..Len(twData.items) |-> Upto(n)]
    BY DEF F
<1>5. F = [n \in 0..Len(twData.items) |->
            IF n = 0 THEN twList
            ELSE IF twData.items[n].added THEN F[n - 1]
            ELSE Append(F[n - 1], twData.items[n])]
    BY <1>3, <1>4, Zenon
<1> QED
    BY <1>4, <1>5, Zenon DEF Going

LEMMA ListedIs ==
    ASSUME SearchInv
    PROVE  Listed = Upto(Len(twData.items))
<1> DEFINE L == Len(twData.items)
           wrong == {n \in 0..L : listedUpTo[n] # Upto(n)}
<1>1. L \in Nat
    <2> HIDE DEF Items
    <2> QED
        BY DEF SearchInv, TwTypeOK, Shared
<1>2. Going(listedUpTo)
    <2>1. listedUpTo = CHOOSE f : Going(f)
        BY DEF listedUpTo, Going
    <2> QED
        BY <2>1, UptoGoes
<1>3. wrong = {}
    <2> SUFFICES ASSUME wrong # {} PROVE FALSE
        OBVIOUS
    <2>1. wrong \subseteq Nat
        BY <1>1
    <2>2. PICK n \in wrong : \A k \in wrong : n <= k
        BY <2>1, LeastOf
    <2>3. n \in 0..L /\ listedUpTo[n] # Upto(n)
        BY <2>2
    <2> HIDE DEF wrong
    <2>4. CASE n = 0
        <3>1. listedUpTo[0] = twList
            BY <1>1, <1>2, <2>3, <2>4 DEF Going
        <3>2. Upto(0) = twList
            BY <1>1, UptoZero
        <3> QED
            BY <2>3, <2>4, <3>1, <3>2
    <2>5. CASE n # 0
        <3>1. n \in 1..L /\ n - 1 \in 0..L /\ ~(n <= n - 1)
            BY <1>1, <2>3, <2>5
        <3>2. n - 1 \notin wrong
            BY <2>2, <3>1
        <3>3. listedUpTo[n - 1] = Upto(n - 1)
            BY <3>1, <3>2 DEF wrong
        <3>4. listedUpTo[n] = IF twData.items[n].added THEN listedUpTo[n - 1]
                              ELSE Append(listedUpTo[n - 1], twData.items[n])
            BY <1>2, <2>3, <2>5, Zenon DEF Going
        <3> QED
            BY <2>3, <3>1, <3>3, <3>4, UptoStep, Zenon
    <2> QED
        BY <2>4, <2>5
<1>4. L \in 0..L
    BY <1>1
<1> QED
    BY <1>3, <1>4 DEF Listed

\* The dialog lists what it has not listed yet.
LEMMA SearchLists ==
    ASSUME SearchInv, AddResults, UNCHANGED <<twStack, twTop, twDirId>>
    PROVE  SearchInv'
<1> DEFINE items == twData.items
           L == Len(items)
           t == Len(twList)
           new == [i \in 1..L |-> [items[i] EXCEPT !.added = TRUE]]
<1>1. /\ twList \in Seq(Items) /\ items \in Seq(Items) /\ twData \in Shared
      /\ t \in Nat /\ L \in Nat /\ t <= L /\ DOMAIN items = 1..L
    <2> HIDE DEF Items
    <2>1. twList \in Seq(Items) /\ items \in Seq(Items) /\ twData \in Shared /\ t <= L
        BY DEF SearchInv, TwTypeOK, Shared, ListedPart
    <2> QED
        BY <2>1
<1>2. ASSUME NEW k \in 1..L
      PROVE  /\ items[k] \in Items /\ new[k] \in Items /\ new[k].added
             /\ new[k].id = items[k].id /\ new[k].name = items[k].name
    <2>1. PICK it \in Items : it = items[k]
        <3> HIDE DEF Items
        <3> QED
            BY <1>1
    <2>2. [it EXCEPT !.added = TRUE] \in Items
        BY DEF Items
    <2>3. new[k] = [it EXCEPT !.added = TRUE]
        BY <2>1
    <2> HIDE DEF new
    <2> QED
        BY <2>1, <2>2, <2>3 DEF Items
<1>3. new \in Seq(Items) /\ Len(new) = L
    <2> HIDE DEF Items, items, L
    <2> QED
        BY <1>1, <1>2
<1>4. twData' = [twData EXCEPT !.items = new]
    BY <1>1, Zenon DEF AddResults
<1> HIDE DEF new
<1>5. twData' \in Shared /\ twData'.items = new /\ twData'.dirs = twData.dirs
    BY <1>1, <1>3, <1>4 DEF Shared
<1>6. /\ twList' \in Seq(Items) /\ Len(twList') = L
      /\ \A k \in 1..L : twList'[k] = IF k <= t THEN twList[k] ELSE items[k]
    <2>1. twList' = Upto(L)
        BY ListedIs DEF AddResults
    <2>2. (IF L < t THEN t ELSE L) = L
        BY <1>1
    <2>3. twList' = [k \in 1..L |-> IF k <= t THEN twList[k] ELSE items[k]]
        BY <2>1, <2>2, Zenon DEF Upto
    <2>4. ASSUME NEW k \in 1..L PROVE (IF k <= t THEN twList[k] ELSE items[k]) \in Items
        <3>1. CASE k <= t
            <4>1. k \in 1..t
                BY <1>1, <3>1
            <4> HIDE DEF Items
            <4> QED
                BY <1>1, <3>1, <4>1
        <3>2. CASE ~(k <= t)
            BY <1>2, <3>2
        <3> QED
            BY <3>1, <3>2
    <2> HIDE DEF Items, L, items, t
    <2> QED
        BY <1>1, <2>3, <2>4
<1>7. twHash' = twHash \cup twData.dirs
    BY DEF AddResults
<1>8. TwTypeOK'
    BY <1>5, <1>6 DEF SearchInv, TwTypeOK
<1>9. Calls'
    BY DEF SearchInv, Calls, Call0, Entries
<1>10. LastItem'
    <2>1. ASSUME items # <<>> PROVE new # <<>> /\ Last(new).id = Last(items).id
        <3>1. L \in 1..L
            <4> HIDE DEF Items
            <4> QED
                BY <1>1, <2>1
        <3>2. Last(new) = new[L] /\ Last(items) = items[L]
            BY <1>3 DEF Last
        <3>3. new # <<>>
            <4> HIDE DEF L, Items
            <4> QED
                BY <1>3, <3>1
        <3> QED
            BY <1>2, <3>1, <3>2, <3>3
    <2>2. UNCHANGED Call0
        BY DEF Call0
    <2> QED
        BY <1>5, <2>1, <2>2 DEF SearchInv, LastItem
<1>11. Rows'
    <2>1. ASSUME NEW k \in 1..L
          PROVE  /\ new[k].id \in twData.dirs /\ new[k].id <= twDirId
                 /\ new[k].name # NoName => k > 1 /\ new[k - 1].id = new[k].id
        <3>1. /\ items[k].id \in twData.dirs /\ items[k].id <= twDirId
              /\ items[k].name # NoName => k > 1 /\ items[k - 1].id = items[k].id
            BY DEF SearchInv, Rows
        <3>2. k > 1 => k - 1 \in 1..L
            BY <1>1
        <3> QED
            BY <1>2, <3>1, <3>2
    <2>2. ASSUME NEW j \in 1..L, NEW k \in 1..L, new[j].name = NoName, new[j].id = new[k].id
          PROVE  j <= k
        BY <1>2, <2>2 DEF SearchInv, Rows
    <2> QED
        BY <1>3, <1>5, <2>1, <2>2 DEF Rows
<1>12. ListedPart'
    <2>1. ASSUME NEW k \in 1..L
          PROVE  /\ new[k].added /\ k <= Len(twList')
                 /\ twList'[k].id = new[k].id /\ twList'[k].name = new[k].name
                 /\ twList'[k].id \in twHash'
        <3>1. items[k].id \in twData.dirs
            BY DEF SearchInv, Rows
        <3>2. CASE k <= t
            <4>1. k \in 1..t
                BY <1>1, <3>2
            <4>2. twList'[k] = twList[k] /\ twList[k].id = items[k].id /\ twList[k].name = items[k].name
                BY <1>6, <3>2, <4>1 DEF SearchInv, ListedPart
            <4> QED
                BY <1>1, <1>2, <1>6, <1>7, <3>1, <4>2
        <3>3. CASE ~(k <= t)
            BY <1>1, <1>2, <1>6, <1>7, <3>1, <3>3
        <3> QED
            BY <3>2, <3>3
    <2> QED
        BY <1>1, <1>3, <1>5, <1>6, <2>1 DEF ListedPart
<1> QED
    BY <1>8, <1>9, <1>10, <1>11, <1>12 DEF SearchInv

LEMMA OneBehind ==
    ASSUME NEW S, NEW s \in Seq(S), NEW x \in S
    PROVE  /\ s \o <<x>> \in Seq(S) /\ Len(s \o <<x>>) = Len(s) + 1
           /\ (s \o <<x>>)[Len(s) + 1] = x
           /\ \A k \in 1..Len(s) : (s \o <<x>>)[k] = s[k]
<1>1. Len(s) \in Nat /\ <<x>> \in Seq(S) /\ Len(<<x>>) = 1 /\ <<x>>[1] = x
    OBVIOUS
<1>2. /\ s \o <<x>> \in Seq(S) /\ Len(s \o <<x>>) = Len(s) + 1
      /\ \A i \in 1..(Len(s) + 1) : (s \o <<x>>)[i] = IF i <= Len(s) THEN s[i] ELSE <<x>>[i - Len(s)]
    BY <1>1, ConcatProperties
<1> QED
    BY <1>1, <1>2

\* What has been found is added behind the row of its directory.
LEMMA SearchFinds ==
    ASSUME JbInv, SearchInv, AddFound
    PROVE  SearchInv'
<1> DEFINE items == twData.items
           L == Len(items)
           id == IF Call0.id = 0 THEN twDirId + 1 ELSE Call0.id
           row == IF Call0.id = 0 THEN <<Item(id, NoName)>> ELSE <<>>
           it == Item(id, Entry.name)
           rows == items \o row \o <<it>>
           f == [Call0 EXCEPT !.pc = "tell", !.id = id]
<1>1. /\ twStack # <<>> /\ Call0.pc = "found" /\ ~jbTold
      /\ UNCHANGED <<twTop, twList, twHash, jbTold>>
      /\ \/ Returns(-1) /\ UNCHANGED <<twDirId, twData>>
         \/ /\ twDirId' = IF Call0.id = 0 THEN id ELSE twDirId
            /\ twData' = [twData EXCEPT !.n.found = @ + 1, !.dirs = @ \cup {id}, !.items = rows]
            /\ Becomes(f)
    BY DEF AddFound, At, dialogOnly, Uses, jbVars, JbInv, JbTypeOK, JbShape
<1>2. TwTypeOK /\ twData \in Shared /\ twDirId \in Nat
    BY DEF SearchInv, TwTypeOK
<1>3. CASE Returns(-1) /\ UNCHANGED <<twDirId, twData>>
    <2>1. twStack' \in Seq(Frames) /\ Calls' /\ LastItem'
        BY <1>1, <1>3, GoesBack
    <2> QED
        BY <1>1, <1>2, <1>3, <2>1, NothingFound
<1>4. CASE /\ twDirId' = IF Call0.id = 0 THEN id ELSE twDirId
           /\ twData' = [twData EXCEPT !.n.found = @ + 1, !.dirs = @ \cup {id}, !.items = rows]
           /\ Becomes(f)
    <2>1. Call0 \in Frames /\ Call0.id \in Nat /\ id \in Nat \ {0} /\ Entry.name \in Names /\ Entry.name # NoName
        BY <1>1, <1>2, TopCall, EntryThere DEF SearchInv, Calls
    <2>2. f \in Frames /\ f.pc = "tell" /\ f.id = id
        <3> HIDE DEF id
        <3>1. PICK c \in Frames : c = Call0
            BY <2>1
        <3>2. id \in Nat
            BY <2>1
        <3>3. [c EXCEPT !.pc = "tell", !.id = id] \in Frames
            BY <3>2 DEF Frames
        <3> QED
            BY <3>1, <3>3 DEF Frames
    <2>3. it \in Items /\ it.id = id /\ it.name = Entry.name /\ it.added = FALSE
        <3> HIDE DEF id
        <3> QED
            BY <2>1 DEF Item, Items
    <2>4. items \in Seq(Items) /\ L \in Nat /\ DOMAIN items = 1..L
        <3> HIDE DEF Items
        <3>1. items \in Seq(Items)
            BY <1>2 DEF Shared
        <3> QED
            BY <3>1
    <2>5. PICK M \in Nat \ {0} :
              /\ rows \in Seq(Items) /\ Len(rows) = M /\ rows[M] = it
              /\ \A k \in 1..L : rows[k] = items[k]
              /\ Call0.id # 0 => M = L + 1
              /\ Call0.id = 0 => M = L + 2 /\ rows[L + 1] = Item(id, NoName)
        <3>1. CASE Call0.id # 0
            <4> HIDE DEF it, Items, items, L
            <4>1. rows = items \o <<>> \o <<it>>
                BY <3>1
            <4>2. rows = items \o <<it>>
                BY <2>4, <4>1, ConcatEmptySeq
            <4> HIDE DEF rows
            <4>3. rows \in Seq(Items) /\ Len(rows) = L + 1 /\ rows[L + 1] = it /\ \A k \in 1..L : rows[k] = items[k]
                BY <2>3, <2>4, <4>2, OneBehind DEF L
            <4> QED
                BY <2>4, <3>1, <4>3
        <3>2. CASE Call0.id = 0
            <4> DEFINE own == Item(id, NoName)
            <4>0. own \in Items
                <5> HIDE DEF id
                <5> QED
                    BY <2>1 DEF Item, Items
            <4>1. rows = items \o <<own>> \o <<it>>
                BY <3>2
            <4> HIDE DEF it, own, Items, items, L
            <4> DEFINE headed == items \o <<own>>
            <4>2. /\ headed \in Seq(Items) /\ Len(headed) = L + 1 /\ headed[L + 1] = own
                  /\ \A k \in 1..L : headed[k] = items[k]
                BY <2>4, <4>0, OneBehind DEF L
            <4> HIDE DEF headed
            <4>3. rows = headed \o <<it>>
                BY <4>1 DEF headed
            <4> HIDE DEF rows
            <4>4. /\ rows \in Seq(Items) /\ Len(rows) = Len(headed) + 1 /\ rows[Len(headed) + 1] = it
                  /\ \A k \in 1..Len(headed) : rows[k] = headed[k]
                BY <2>3, <4>2, <4>3, OneBehind
            <4>5. /\ rows \in Seq(Items) /\ Len(rows) = L + 2 /\ rows[L + 2] = it
                  /\ rows[L + 1] = own /\ \A k \in 1..L : rows[k] = items[k]
                BY <2>4, <4>2, <4>4
            <4> QED
                BY <2>4, <3>2, <4>5 DEF own
        <3> QED
            BY <3>1, <3>2
    <2>6. twDirId' \in Nat /\ id <= twDirId' /\ twDirId <= twDirId' /\ (Call0.id = 0 => id = twDirId + 1)
          /\ (Call0.id # 0 => id = Call0.id /\ L >= 1 /\ items[L].id = id)
        <3>1. CASE Call0.id = 0
            BY <1>2, <1>4, <2>1, <3>1
        <3>2. CASE Call0.id # 0
            <4>1. items # <<>> /\ Last(items).id = Call0.id
                BY <1>1, <3>2 DEF SearchInv, LastItem
            <4>2. L \in 1..L /\ items[L].id = Call0.id
                <5> HIDE DEF Items
                <5> QED
                    BY <2>4, <4>1 DEF Last
            <4>3. items[L].id <= twDirId
                BY <4>2 DEF SearchInv, Rows
            <4> QED
                BY <1>2, <1>4, <2>1, <2>4, <3>2, <4>2, <4>3
        <3> QED
            BY <3>1, <3>2
    <2> HIDE DEF rows, it, f
    <2>7. twData' \in Shared /\ twData'.items = rows /\ twData'.dirs = twData.dirs \cup {id}
        <3>1. twData.n \in Counters /\ twData.dirs \in SUBSET Nat /\ id \in Nat
            BY <1>2, <2>1 DEF Shared
        <3>2. [twData.n EXCEPT !.found = @ + 1] \in Counters
            BY <3>1 DEF Counters
        <3> HIDE DEF id, Counters, Items
        <3> QED
            BY <1>2, <1>4, <2>5, <3>1, <3>2 DEF Shared
    <2>8. Last(rows) = it /\ rows # <<>>
        <3> HIDE DEF Items
        <3> QED
            BY <2>5 DEF Last
    <2>9. twStack' \in Seq(Frames) /\ Calls' /\ LastItem'
        BY <1>1, <1>4, <2>2, <2>3, <2>7, <2>8, GoesOn
    <2>10. TwTypeOK'
        BY <1>1, <1>2, <2>6, <2>7, <2>9 DEF TwTypeOK
    <2> HIDE DEF id
    \* A place in the new items: one of the old, the row, or the one found.
    <2>11. ASSUME NEW k \in 1..M
           PROVE  \/ k \in 1..L /\ rows[k] = items[k]
                  \/ k = L + 1 /\ Call0.id = 0 /\ rows[k] = Item(id, NoName)
                  \/ k = M /\ rows[k] = it
        BY <2>1, <2>4, <2>5
    <2>12. Item(id, NoName).id = id /\ Item(id, NoName).name = NoName /\ Item(id, NoName).added = FALSE
        BY DEF Item
    <2>13. ASSUME NEW k \in 1..L
           PROVE  /\ items[k].id \in Nat /\ items[k].id \in twData.dirs /\ items[k].id <= twDirId
                  /\ items[k].name # NoName => k > 1 /\ items[k - 1].id = items[k].id
        <3>1. items[k] \in Items
            <4> HIDE DEF Items
            <4> QED
                BY <2>4
        <3> QED
            BY <3>1 DEF Items, SearchInv, Rows
    <2>14. Rows'
        <3>1. ASSUME NEW k \in 1..M
              PROVE  /\ rows[k].id \in twData.dirs \cup {id} /\ rows[k].id <= twDirId'
                     /\ rows[k].name # NoName => k > 1 /\ rows[k - 1].id = rows[k].id
            <4>1. CASE k \in 1..L /\ rows[k] = items[k]
                <5>1. k > 1 => k - 1 \in 1..L
                    BY <2>4, <4>1
                <5>2. k > 1 => rows[k - 1] = items[k - 1]
                    BY <2>5, <5>1
                <5> QED
                    BY <1>2, <2>6, <2>13, <4>1, <5>2
            <4>2. CASE k = L + 1 /\ Call0.id = 0 /\ rows[k] = Item(id, NoName)
                BY <2>6, <2>12, <4>2
            <4>3. CASE k = M /\ rows[k] = it
                <5>1. CASE Call0.id = 0
                    <6>1. k > 1 /\ k - 1 = L + 1 /\ rows[k - 1].id = id
                        BY <2>4, <2>5, <2>12, <4>3, <5>1
                    <6> QED
                        BY <2>3, <2>6, <4>3, <6>1
                <5>2. CASE Call0.id # 0
                    <6>1. k > 1 /\ k - 1 = L /\ L \in 1..L
                        BY <2>4, <2>5, <2>6, <4>3, <5>2
                    <6>2. rows[k - 1].id = id
                        BY <2>5, <2>6, <5>2, <6>1
                    <6> QED
                        BY <2>3, <2>6, <4>3, <6>1, <6>2
                <5> QED
                    BY <5>1, <5>2
            <4> QED
                BY <2>11, <4>1, <4>2, <4>3
        <3>2. ASSUME NEW j \in 1..M, NEW k \in 1..M, rows[j].name = NoName, rows[j].id = rows[k].id
              PROVE  j <= k
            <4>1. j # M \/ rows[j] # it
                BY <2>1, <2>3, <3>2
            <4>2. CASE j \in 1..L /\ rows[j] = items[j] /\ k \in 1..L
                BY <2>5, <3>2, <4>2 DEF SearchInv, Rows
            <4>3. CASE j \in 1..L /\ k \notin 1..L
                BY <2>4, <4>3
            <4>4. CASE j = L + 1 /\ Call0.id = 0 /\ rows[j] = Item(id, NoName)
                <5>1. ASSUME k \in 1..L PROVE FALSE
                    <6>1. items[k].id = id /\ id = twDirId + 1
                        BY <2>5, <2>6, <2>12, <3>2, <4>4, <5>1
                    <6> QED
                        BY <1>2, <2>13, <5>1, <6>1
                <5> QED
                    BY <2>4, <4>4, <5>1
            <4> QED
                BY <2>11, <4>1, <4>2, <4>3, <4>4
        <3> QED
            BY <2>5, <2>7, <3>1, <3>2 DEF Rows
    <2>15. ListedPart'
        <3>1. Len(twList) \in Nat /\ Len(twList) <= L /\ L <= M
            <4> HIDE DEF Items
            <4> QED
                BY <1>2, <2>4, <2>5 DEF SearchInv, ListedPart, TwTypeOK
        <3>2. ASSUME NEW k \in 1..M PROVE rows[k].added <=> k <= Len(twList)
            <4>1. CASE k \in 1..L /\ rows[k] = items[k]
                BY <4>1 DEF SearchInv, ListedPart
            <4>2. CASE ~(k \in 1..L)
                <5>1. ~(k <= Len(twList))
                    BY <2>4, <3>1, <4>2
                <5>2. rows[k].added = FALSE
                    BY <2>3, <2>11, <2>12, <4>2
                <5> QED
                    BY <5>1, <5>2
            <4> QED
                BY <2>5, <4>1, <4>2
        <3>3. ASSUME NEW k \in 1..Len(twList)
              PROVE  twList[k].id = rows[k].id /\ twList[k].name = rows[k].name /\ twList[k].id \in twHash
            <4>1. k \in 1..L
                BY <2>4, <3>1
            <4> QED
                BY <2>5, <4>1 DEF SearchInv, ListedPart
        <3> QED
            BY <1>1, <2>5, <2>7, <3>1, <3>2, <3>3 DEF ListedPart
    <2> QED
        BY <2>9, <2>10, <2>14, <2>15 DEF SearchInv
<1> QED
    BY <1>1, <1>3, <1>4

\* A step that leaves what the search has and lists alone.
LEMMA SearchAside ==
    ASSUME SearchInv, UNCHANGED <<twStack, twTop, twDirId, twData, twList, twHash, jbTold>>
    PROVE  SearchInv'
<1>1. TwTypeOK'
    BY DEF SearchInv, TwTypeOK
<1>2. Calls' /\ LastItem'
    BY DEF SearchInv, Calls, LastItem, Call0, Entries
<1>3. Rows' /\ ListedPart'
    BY DEF SearchInv, Rows, ListedPart
<1> QED
    BY <1>1, <1>2, <1>3 DEF SearchInv

LEMMA TwInitial == TwInit => TwInv
<1> SUFFICES ASSUME TwInit, Searching PROVE SearchInv
    BY JbInitial DEF TwInit, TwInv
<1>1. twJob.list = <<>>
    <2>1. twJob \notin [kind : {"count"}, text : {FALSE}, mask : {{}}, list : TwSelected, service : BOOLEAN]
        BY DEF Searching
    <2>2. twJob \in [kind : {"search"}, text : BOOLEAN, mask : {Names, Names \ DOMAIN TwDirs},
                     list : {<<>>}, service : {FALSE}]
        BY <2>1 DEF TwInit
    <2> QED
        BY <2>2, Zenon
<1>2. /\ twTop = <<>> /\ twStack = <<Call(TwRoot)>> /\ twDirId = 0 /\ twList = <<>> /\ jbTold = FALSE
      /\ twData = [n |-> NoCounters, path |-> NoName, dirs |-> {}, items |-> <<>>]
    BY <1>1 DEF TwInit, JbInit
<1>3. Call(TwRoot) \in Frames /\ Call(TwRoot).pc = "enter" /\ Call(TwRoot).id = 0
    BY TreeAssumption DEF Call, Frames
<1>4. twStack \in Seq(Frames) /\ Len(twStack) = 1 /\ Call0 = Call(TwRoot)
    <2> HIDE DEF Frames
    <2> QED
        BY <1>2, <1>3 DEF Call0, Last
<1>5. twData \in Shared /\ twData.items = <<>>
    <2>1. NoCounters \in Counters
        BY DEF NoCounters, Counters
    <2>2. <<>> \in Seq(Items) /\ {} \in SUBSET Nat
        <3> HIDE DEF Items
        <3> QED
            OBVIOUS
    <2> HIDE DEF Counters, Items
    <2> QED
        BY <1>2, <2>1, <2>2 DEF Shared
<1>6. TwTypeOK
    <2>1. twList \in Seq(Items)
        <3> HIDE DEF Items
        <3> QED
            BY <1>2
    <2> QED
        BY <1>2, <1>4, <1>5, <2>1 DEF TwTypeOK
<1>7. Calls /\ LastItem
    BY <1>3, <1>4 DEF Calls, LastItem
<1>8. Rows /\ ListedPart
    BY <1>2, <1>5 DEF Rows, ListedPart
<1> QED
    BY <1>6, <1>7, <1>8 DEF SearchInv

LEMMA SearchThread ==
    ASSUME JbInv, Searching, SearchInv,
           \/ EnterDir \/ SignalPath \/ ReadsDir \/ BadDir
           \/ SearchEntry \/ BadFile \/ AddFound \/ TellFound \/ NoMoreFiles
           \/ AddCounts \/ TellCounts \/ NextDir \/ NoMoreDirs
           \/ CalcEntry \/ CalcCounted \/ WalkEnds
    PROVE  SearchInv'
<1>1. ~(AddCounts \/ TellCounts)
    <2>1. twStack # <<>> => Call0.pc # "add" /\ Call0.pc # "told"
        <3> SUFFICES ASSUME twStack # <<>> PROVE Call0.pc # "add" /\ Call0.pc # "told"
            OBVIOUS
        <3>1. Call0 \in Frames
            BY TopCall DEF SearchInv
        <3> QED
            BY <3>1 DEF Frames
    <2> QED
        BY <2>1 DEF AddCounts, TellCounts, At
<1>2. ~(CalcEntry \/ CalcCounted)
    BY DEF CalcEntry, CalcCounted, InCalc, SearchInv, TwTypeOK
<1>3. CASE WalkEnds
    BY <1>3, SearchAside DEF WalkEnds, JobEnds, threadOnly, dialogOnly
<1> QED
    BY <1>1, <1>2, <1>3, SearchEnters, SearchSignals, SearchReads, SearchFails, SearchLooks, SearchMisses,
       SearchFinds, SearchTells, SearchTurns, SearchDescends, SearchReturns

LEMMA SearchDialog ==
    ASSUME JbInv, Searching, SearchInv, SignalCounters \/ SignalResults \/ WalkStopped \/ UserEnds \/ CallerGoesOn
    PROVE  SearchInv'
<1>1. CASE SignalCounters
    BY <1>1, SearchAside DEF SignalCounters, TakeSignal, threadOnly
<1>2. CASE SignalResults
    BY <1>2, SearchLists DEF SignalResults
<1>3. CASE WalkStopped
    BY <1>3, SearchLists DEF WalkStopped
<1>4. CASE UserEnds
    BY <1>4, SearchAside DEF UserEnds, EndModal, threadOnly, dialogOnly
<1>5. CASE CallerGoesOn
    BY <1>5, SearchAside DEF CallerGoesOn, StopThread, Return, threadOnly, dialogOnly
<1> QED
    BY <1>1, <1>2, <1>3, <1>4, <1>5

LEMMA TwInvariance == TwSpec => []TwInv
<1>1. ASSUME TwInv, TwNext PROVE TwInv'
    <2>1. JbInv'
        BY <1>1, WalkThread, WalkDialog DEF TwInv, TwNext
    <2>2. UNCHANGED twJob
        BY <1>1
        DEF TwNext, EnterDir, SignalPath, ReadsDir, BadDir, SearchEntry, BadFile, AddFound, TellFound,
            NoMoreFiles, AddCounts, TellCounts, NextDir, NoMoreDirs, CalcEntry, CalcCounted, WalkEnds,
            SignalCounters, SignalResults, WalkStopped, UserEnds, CallerGoesOn
    <2>3. Searching => SearchInv'
        BY <1>1, SearchThread, SearchDialog DEF TwInv, TwNext
    <2> QED
        BY <2>1, <2>2, <2>3 DEF TwInv, Searching
<1>2. ASSUME TwInv, UNCHANGED twVars PROVE TwInv'
    <2>1. JbInv'
        BY <1>2 DEF TwInv, JbInv, JbTypeOK, JbShape, UsedWhileOpen, twVars, jbVars
    <2>2. Searching => SearchInv'
        BY <1>2, SearchAside DEF TwInv, twVars, twOwn, jbVars
    <2> QED
        BY <1>2, <2>1, <2>2 DEF TwInv, Searching, twVars, twOwn
<1> QED
    BY TwInitial, <1>1, <1>2, PTL DEF TwSpec

LEMMA ListedFromInv == TwInv => ResultsListed
<1> SUFFICES ASSUME TwInv, Searching PROVE ResultsListed
    BY DEF ResultsListed
<1> DEFINE items == twData.items
<1>1. SearchInv /\ twList \in Seq(Items) /\ items \in Seq(Items) /\ Len(twList) <= Len(items)
    <2> HIDE DEF Items
    <2> QED
        BY DEF TwInv, SearchInv, TwTypeOK, Shared, ListedPart
<1>2. DOMAIN twList = 1..Len(twList) /\ Len(twList) \in Nat /\ Len(items) \in Nat
    <2> HIDE DEF Items
    <2> QED
        BY <1>1
<1>3. ASSUME NEW i \in 1..Len(twList)
      PROVE  /\ i \in 1..Len(items)
             /\ [twList[i] EXCEPT !.added = FALSE] = [items[i] EXCEPT !.added = FALSE]
             /\ twList[i].id = items[i].id /\ twList[i].name = items[i].name /\ twList[i].id \in twHash
    <2>1. i \in 1..Len(items)
        BY <1>1, <1>2
    <2>2. twList[i].id = items[i].id /\ twList[i].name = items[i].name /\ twList[i].id \in twHash
        BY <1>1 DEF SearchInv, ListedPart
    <2>3. twList[i] \in Items /\ items[i] \in Items
        <3> HIDE DEF Items
        <3> QED
            BY <1>1, <2>1
    <2>4. PICK x \in Items, y \in Items : x = twList[i] /\ y = items[i]
        BY <2>3
    <2>5. [x EXCEPT !.added = FALSE] = [y EXCEPT !.added = FALSE]
        BY <2>2, <2>4 DEF Items
    <2> QED
        BY <2>1, <2>2, <2>4, <2>5
<1>4. ASSUME NEW i \in 1..Len(twList), twList[i].name # NoName
      PROVE  i > 1 /\ twList[i - 1].id = twList[i].id
    <2>1. i > 1 /\ items[i - 1].id = items[i].id
        BY <1>1, <1>3, <1>4 DEF SearchInv, Rows
    <2>2. i - 1 \in 1..Len(twList)
        BY <1>2, <2>1
    <2> QED
        BY <1>3, <2>1, <2>2
<1>5. ASSUME NEW i \in 1..Len(twList), NEW j \in 1..Len(twList),
             twList[i].name = NoName, twList[i].id = twList[j].id
      PROVE  i <= j
    BY <1>1, <1>3, <1>5 DEF SearchInv, Rows
<1>6. jbTold => Len(twList) = Len(items)
    BY <1>1 DEF SearchInv, ListedPart
<1> QED
    BY <1>1, <1>2, <1>3, <1>4, <1>5, <1>6 DEF ResultsListed

(***************************************************************************)
(* Whatever the tree of directories, the masks and the failures, and       *)
(* whenever the signals come: the list of a search shows what the thread   *)
(* has found, in that order and each once, every row behind the one of its *)
(* directory, and nothing is missing when the user is told that it is done *)
(* (filesearch.cpp).                                                       *)
(***************************************************************************)
THEOREM ListsTheResults == TwSpec => []ResultsListed
BY TwInvariance, ListedFromInv, PTL

-----------------------------------------------------------------------------
(***************************************************************************)
(* What the count adds up.  First sums over finite sets: that of a union   *)
(* of two that have nothing in common is the sum of theirs.                *)
(***************************************************************************)
\* Of sets of finite ones, one that holds no other.
LEMMA SmallestOf ==
    ASSUME NEW U, IsFiniteSet(U), NEW sets, sets \subseteq SUBSET U, sets # {}
    PROVE  \E a \in sets : \A b \in sets : b \subseteq a => b = a
<1> DEFINE sizes == {n \in Nat : \E a \in sets : Cardinality(a) = n}
<1>1. \A a \in sets : IsFiniteSet(a) /\ Cardinality(a) \in Nat
    BY FS_Subset, FS_CardinalityType
<1>2. sizes \subseteq Nat /\ sizes # {}
    BY <1>1
<1>3. PICK n \in sizes : \A k \in sizes : n <= k
    BY <1>2, LeastOf
<1>4. PICK a \in sets : Cardinality(a) = n
    BY <1>3
<1>5. ASSUME NEW b \in sets, b \subseteq a PROVE b = a
    <2>1. Cardinality(b) <= Cardinality(a) /\ (Cardinality(a) = Cardinality(b) => a = b)
        BY <1>1, <1>5, FS_Subset
    <2>2. n <= Cardinality(b)
        BY <1>1, <1>3
    <2> QED
        BY <1>1, <1>4, <2>1, <2>2
<1> QED
    BY <1>4, <1>5

\* The element that the sum of a set takes first.
Pick(set) == CHOOSE x \in set : TRUE

\* g sums up f over the subsets of S.
Sums1(g, f, S) ==
    g = [set \in SUBSET S |-> IF set = {} THEN 0 ELSE f[Pick(set)] + g[set \ {Pick(set)}]]

LEMMA SumUnfolds ==
    ASSUME NEW f, NEW S
    PROVE  SumOver(f, S) = LET g == CHOOSE g : Sums1(g, f, S) IN g[S]
BY DEF SumOver, MapThenSumSet, MapThenFoldSet, Pick, Sums1

LEMMA SumFields ==
    ASSUME NEW f, NEW S, NEW g, Sums1(g, f, S), NEW set \in SUBSET S
    PROVE  /\ set = {} => g[set] = 0
           /\ set # {} => /\ Pick(set) \in set /\ set \ {Pick(set)} \in SUBSET S
                         /\ g[set] = f[Pick(set)] + g[set \ {Pick(set)}]
<1>1. g[set] = IF set = {} THEN 0 ELSE f[Pick(set)] + g[set \ {Pick(set)}]
    BY Zenon DEF Sums1
<1>2. set # {} => Pick(set) \in set
    BY DEF Pick
<1> QED
    BY <1>1, <1>2

LEMMA SumNone ==
    ASSUME NEW f, NEW S, NEW g, Sums1(g, f, S)
    PROVE  g[{}] = 0
<1>1. {} \in SUBSET S
    OBVIOUS
<1> QED
    BY <1>1, SumFields

LEMMA SumsAgree ==
    ASSUME NEW f, NEW A, IsFiniteSet(A), NEW B, NEW g, NEW h, Sums1(g, f, A), Sums1(h, f, B),
           NEW s \in SUBSET A, s \in SUBSET B
    PROVE  g[s] = h[s]
<1> DEFINE wrong == {t \in SUBSET A : t \in SUBSET B /\ g[t] # h[t]}
<1>1. wrong = {}
    <2> SUFFICES ASSUME wrong # {} PROVE FALSE
        OBVIOUS
    <2>1. wrong \subseteq SUBSET A
        OBVIOUS
    <2> HIDE DEF wrong
    <2>2. PICK t \in wrong : \A b \in wrong : b \subseteq t => b = t
        BY <2>1, SmallestOf
    <2>3. t \in SUBSET A /\ t \in SUBSET B /\ g[t] # h[t]
        BY <2>2 DEF wrong
    <2>4. t # {}
        BY <2>3, SumNone
    <2>5. /\ Pick(t) \in t /\ t \ {Pick(t)} \in SUBSET A /\ t \ {Pick(t)} \in SUBSET B
          /\ g[t] = f[Pick(t)] + g[t \ {Pick(t)}] /\ h[t] = f[Pick(t)] + h[t \ {Pick(t)}]
        <3>1. Pick(t) \in t /\ t \ {Pick(t)} \in SUBSET A /\ g[t] = f[Pick(t)] + g[t \ {Pick(t)}]
            BY <2>3, <2>4, SumFields
        <3>2. t \ {Pick(t)} \in SUBSET B /\ h[t] = f[Pick(t)] + h[t \ {Pick(t)}]
            BY <2>3, <2>4, SumFields
        <3> QED
            BY <3>1, <3>2
    <2>6. t \ {Pick(t)} \notin wrong
        <3>1. t \ {Pick(t)} # t /\ t \ {Pick(t)} \subseteq t
            BY <2>5
        <3> QED
            BY <2>2, <3>1
    <2> QED
        BY <2>3, <2>5, <2>6 DEF wrong
<1> QED
    BY <1>1

LEMMA SumExists ==
    ASSUME NEW S, IsFiniteSet(S), NEW f, \A x \in S : f[x] \in Nat
    PROVE  \E g \in [SUBSET S -> Nat] : Sums1(g, f, S)
<1> DEFINE Has(t) == \E g \in [SUBSET t -> Nat] : Sums1(g, f, t)
           wrong == {t \in SUBSET S : ~Has(t)}
<1>1. wrong = {}
    <2> SUFFICES ASSUME wrong # {} PROVE FALSE
        OBVIOUS
    <2>1. wrong \subseteq SUBSET S
        OBVIOUS
    <2> HIDE DEF wrong
    <2>2. PICK t \in wrong : \A b \in wrong : b \subseteq t => b = t
        BY <2>1, SmallestOf
    <2>3. t \in SUBSET S /\ ~Has(t)
        BY <2>2 DEF wrong
    <2>4. ASSUME NEW s \in SUBSET t, s # t PROVE Has(s)
        <3>1. s \notin wrong
            BY <2>2, <2>4
        <3> QED
            BY <2>3, <3>1 DEF wrong
    <2> DEFINE H(s) == CHOOSE g \in [SUBSET s -> Nat] : Sums1(g, f, s)
    <2>5. ASSUME NEW s \in SUBSET t, s # t
          PROVE  H(s) \in [SUBSET s -> Nat] /\ Sums1(H(s), f, s)
        <3>1. \E g \in [SUBSET s -> Nat] : Sums1(g, f, s)
            BY <2>4, <2>5
        <3> QED
            BY <3>1, Zenon
    <2> DEFINE g == [s \in SUBSET t |-> IF s = {} THEN 0
                        ELSE IF s = t THEN f[Pick(t)] + H(t \ {Pick(t)})[t \ {Pick(t)}] ELSE H(s)[s]]
    <2> HIDE DEF H
    <2>6. ASSUME NEW s \in SUBSET t, s # t, s # {}
          PROVE  /\ Pick(s) \in s /\ s \ {Pick(s)} \in SUBSET t /\ s \ {Pick(s)} # t
                 /\ H(s)[s] \in Nat /\ H(s)[s] = f[Pick(s)] + H(s \ {Pick(s)})[s \ {Pick(s)}]
        <3>1. Pick(s) \in s
            BY <2>6 DEF Pick
        <3>2. PICK r : r = s \ {Pick(s)}
            OBVIOUS
        <3>3. r \in SUBSET t /\ r # t /\ r \in SUBSET s /\ r \in SUBSET r /\ s \in SUBSET s /\ IsFiniteSet(r)
            BY <2>3, <2>6, <3>1, <3>2, FS_Subset
        <3>4. H(s)[s] \in Nat /\ H(s)[s] = f[Pick(s)] + H(s)[r]
            <4>1. PICK h : h = H(s)
                OBVIOUS
            <4>2. h \in [SUBSET s -> Nat] /\ Sums1(h, f, s)
                BY <2>5, <2>6, <4>1
            <4>3. h[s] = f[Pick(s)] + h[s \ {Pick(s)}]
                BY <2>6, <3>3, <4>2, SumFields
            <4> QED
                BY <3>2, <3>3, <4>1, <4>2, <4>3
        <3>5. H(r)[r] = H(s)[r]
            <4>1. PICK h, k : h = H(s) /\ k = H(r)
                OBVIOUS
            <4>2. Sums1(h, f, s) /\ Sums1(k, f, r)
                BY <2>5, <2>6, <3>3, <4>1
            <4>3. k[r] = h[r]
                BY <3>3, <4>2, SumsAgree
            <4> QED
                BY <4>1, <4>3
        <3> QED
            BY <2>6, <3>1, <3>2, <3>3, <3>4, <3>5
    <2>7. ASSUME t # {}
          PROVE  /\ Pick(t) \in t /\ f[Pick(t)] \in Nat
                 /\ t \ {Pick(t)} \in SUBSET t /\ t \ {Pick(t)} # t
                 /\ H(t \ {Pick(t)})[t \ {Pick(t)}] \in Nat
        <3>1. Pick(t) \in t
            BY <2>7 DEF Pick
        <3>2. PICK r : r = t \ {Pick(t)}
            OBVIOUS
        <3>3. r \in SUBSET t /\ r # t /\ r \in SUBSET r
            BY <3>1, <3>2
        <3>4. H(r)[r] \in Nat
            BY <2>5, <3>3
        <3> QED
            BY <2>3, <3>1, <3>2, <3>3, <3>4
    <2>8. g \in [SUBSET t -> Nat]
        <3>1. ASSUME NEW s \in SUBSET t PROVE g[s] \in Nat
            <4>1. CASE s = {}
                BY <4>1
            <4>2. CASE s # {} /\ s = t
                BY <2>7, <4>2
            <4>3. CASE s # {} /\ s # t
                BY <2>6, <4>3
            <4> QED
                BY <4>1, <4>2, <4>3
        <3> QED
            BY <3>1
    <2>9. ASSUME NEW s \in SUBSET t
          PROVE  g[s] = IF s = {} THEN 0 ELSE f[Pick(s)] + g[s \ {Pick(s)}]
        <3>1. CASE s = {}
            BY <3>1
        <3>2. CASE s # {}
            <4>1. PICK r : r = s \ {Pick(s)}
                OBVIOUS
            <4>2. r \in SUBSET t /\ r # t
                BY <2>6, <2>7, <3>2, <4>1
            <4>3. g[s] = f[Pick(s)] + H(r)[r]
                BY <2>6, <2>7, <3>2, <4>1
            <4>4. g[r] = H(r)[r]
                <5>1. CASE r = {}
                    <6>1. H(r)[r] = 0
                        <7>1. PICK h : h = H(r)
                            OBVIOUS
                        <7>2. Sums1(h, f, r) /\ r \in SUBSET r
                            BY <2>5, <4>2, <7>1
                        <7> QED
                            BY <5>1, <7>1, <7>2, SumFields
                    <6> QED
                        BY <4>2, <5>1, <6>1
                <5> QED
                    BY <4>2, <5>1
            <4> HIDE DEF g
            <4> QED
                BY <3>2, <4>1, <4>3, <4>4
        <3> QED
            BY <3>1, <3>2
    <2>10. Sums1(g, f, t)
        <3>1. g = [s \in SUBSET t |-> g[s]]
            BY <2>8
        <3> HIDE DEF g
        <3> QED
            BY <2>9, <3>1 DEF Sums1
    <2> HIDE DEF g
    <2> QED
        BY <2>3, <2>8, <2>10
<1> QED
    BY <1>1

\* g is that sum for each of the subsets.
SumsUp(g, f, S) == Sums1(g, f, S) /\ \A set \in SUBSET S : SumOver(f, set) = g[set]

LEMMA SumIs ==
    ASSUME NEW S, IsFiniteSet(S), NEW f, \A x \in S : f[x] \in Nat
    PROVE  \E g \in [SUBSET S -> Nat] : SumsUp(g, f, S)
<1>1. PICK g \in [SUBSET S -> Nat] : Sums1(g, f, S)
    BY SumExists
<1>2. ASSUME NEW set \in SUBSET S PROVE SumOver(f, set) = g[set]
    <2>1. IsFiniteSet(set) /\ \A x \in set : f[x] \in Nat
        BY FS_Subset
    <2>2. PICK h \in [SUBSET set -> Nat] : Sums1(h, f, set)
        BY <2>1, SumExists
    <2> DEFINE c == CHOOSE c : Sums1(c, f, set)
    <2>3. Sums1(c, f, set)
        BY <2>2
    <2>4. SumOver(f, set) = c[set]
        BY SumUnfolds
    <2> HIDE DEF c
    <2>5. c[set] = g[set]
        BY <1>1, <2>1, <2>3, SumsAgree
    <2> QED
        BY <2>4, <2>5
<1> QED
    BY <1>1, <1>2, Zenon DEF SumsUp

LEMMA SumRules ==
    ASSUME NEW S, IsFiniteSet(S), NEW f, \A x \in S : f[x] \in Nat
    PROVE  /\ SumOver(f, {}) = 0
           /\ \A t \in SUBSET S : SumOver(f, t) \in Nat
           /\ \A t \in SUBSET S : t # {} =>
                Pick(t) \in t /\ SumOver(f, t) = f[Pick(t)] + SumOver(f, t \ {Pick(t)})
<1>1. PICK g \in [SUBSET S -> Nat] : SumsUp(g, f, S)
    BY SumIs
<1>2. Sums1(g, f, S)
    BY <1>1, Zenon DEF SumsUp
<1>3. \A t \in SUBSET S : SumOver(f, t) = g[t]
    BY <1>1, Zenon DEF SumsUp
<1>6. SumOver(f, {}) = 0
    <2>1. {} \in SUBSET S
        OBVIOUS
    <2> QED
        BY <1>2, <1>3, <2>1, SumNone
<1>4. ASSUME NEW t \in SUBSET S, t # {}
      PROVE  Pick(t) \in t /\ SumOver(f, t) = f[Pick(t)] + SumOver(f, t \ {Pick(t)})
    <2>1. /\ Pick(t) \in t /\ t \ {Pick(t)} \in SUBSET S
          /\ g[t] = f[Pick(t)] + g[t \ {Pick(t)}]
        BY <1>2, <1>4, SumFields
    <2>2. PICK r : r = t \ {Pick(t)}
        OBVIOUS
    <2> QED
        BY <1>3, <2>1, <2>2
<1>5. \A t \in SUBSET S : SumOver(f, t) \in Nat
    BY <1>1, <1>3
<1> QED
    BY <1>4, <1>5, <1>6, Zenon

LEMMA SumAdds ==
    ASSUME NEW S, IsFiniteSet(S), NEW f, \A x \in S : f[x] \in Nat,
           NEW set \in SUBSET S, NEW x \in set
    PROVE  SumOver(f, set) = f[x] + SumOver(f, set \ {x})
<1> DEFINE wrong == {t \in SUBSET S : \E y \in t : SumOver(f, t) # f[y] + SumOver(f, t \ {y})}
<1>1. wrong = {}
    <2> SUFFICES ASSUME wrong # {} PROVE FALSE
        OBVIOUS
    <2>1. wrong \subseteq SUBSET S
        OBVIOUS
    <2> HIDE DEF wrong
    <2>2. PICK t \in wrong : \A b \in wrong : b \subseteq t => b = t
        BY <2>1, SmallestOf
    <2>3. t \in SUBSET S
        BY <2>1
    <2>4. PICK y \in t : SumOver(f, t) # f[y] + SumOver(f, t \ {y})
        BY DEF wrong
    <2>5. PICK p : p = Pick(t)
        OBVIOUS
    <2>6. p \in t /\ SumOver(f, t) = f[p] + SumOver(f, t \ {p})
        BY <2>3, <2>5, SumRules
    <2>7. p # y
        BY <2>4, <2>6
    <2>8. PICK r : r = t \ {p}
        OBVIOUS
    <2>9. PICK q : q = t \ {y}
        OBVIOUS
    <2>10. r \in SUBSET S /\ q \in SUBSET S /\ r \subseteq t /\ q \subseteq t /\ r # t /\ q # t /\ y \in r /\ p \in q
        BY <2>3, <2>4, <2>6, <2>7, <2>8, <2>9
    <2>11. r \notin wrong /\ q \notin wrong
        BY <2>2, <2>10
    <2>12. SumOver(f, r) = f[y] + SumOver(f, r \ {y}) /\ SumOver(f, q) = f[p] + SumOver(f, q \ {p})
        BY <2>10, <2>11 DEF wrong
    <2>13. r \ {y} = q \ {p} /\ r \ {y} \in SUBSET S
        BY <2>8, <2>9, <2>10
    <2>14. SumOver(f, r \ {y}) \in Nat /\ f[p] \in Nat /\ f[y] \in Nat
        BY <2>3, <2>4, <2>6, <2>13, SumRules
    <2>15. PICK z : z = SumOver(f, r \ {y})
        OBVIOUS
    <2>16. SumOver(f, t) = f[p] + (f[y] + z)
        BY <2>6, <2>8, <2>12, <2>15
    <2>17. SumOver(f, q) = f[p] + z
        BY <2>12, <2>13, <2>15
    <2>18. SumOver(f, t) # f[y] + (f[p] + z)
        BY <2>4, <2>9, <2>17
    <2> QED
        BY <2>14, <2>15, <2>16, <2>18
<1> QED
    BY <1>1

LEMMA SumTwo ==
    ASSUME NEW S, IsFiniteSet(S), NEW f, \A x \in S : f[x] \in Nat,
           NEW a \in SUBSET S, NEW b \in SUBSET S, a \cap b = {}
    PROVE  SumOver(f, a \cup b) = SumOver(f, a) + SumOver(f, b)
<1> DEFINE wrong == {t \in SUBSET S : a \cap t = {} /\ SumOver(f, a \cup t) # SumOver(f, a) + SumOver(f, t)}
<1>1. wrong = {}
    <2> SUFFICES ASSUME wrong # {} PROVE FALSE
        OBVIOUS
    <2>1. wrong \subseteq SUBSET S
        OBVIOUS
    <2> HIDE DEF wrong
    <2>2. PICK t \in wrong : \A c \in wrong : c \subseteq t => c = t
        BY <2>1, SmallestOf
    <2>3. t \in SUBSET S /\ a \cap t = {} /\ SumOver(f, a \cup t) # SumOver(f, a) + SumOver(f, t)
        BY <2>2 DEF wrong
    <2>4. SumOver(f, a) \in Nat /\ SumOver(f, {}) = 0
        BY SumRules
    <2>5. t # {}
        <3>1. a \cup {} = a
            OBVIOUS
        <3> QED
            BY <2>3, <2>4, <3>1
    <2>6. PICK y : y \in t
        BY <2>5
    <2>7. PICK r : r = t \ {y}
        OBVIOUS
    <2>8. r \in SUBSET S /\ r \subseteq t /\ r # t /\ a \cap r = {} /\ (a \cup t) \ {y} = a \cup r
          /\ a \cup t \in SUBSET S /\ y \in a \cup t
        BY <2>3, <2>6, <2>7
    <2>9. r \notin wrong
        BY <2>2, <2>8
    <2>10. SumOver(f, a \cup r) = SumOver(f, a) + SumOver(f, r)
        BY <2>8, <2>9 DEF wrong
    <2>11. SumOver(f, t) = f[y] + SumOver(f, r)
        BY <2>3, <2>6, <2>7, SumAdds
    <2>12. SumOver(f, a \cup t) = f[y] + SumOver(f, a \cup r)
        BY <2>8, SumAdds
    <2>13. SumOver(f, r) \in Nat /\ f[y] \in Nat
        BY <2>3, <2>6, <2>8, SumRules
    <2> QED
        BY <2>3, <2>4, <2>10, <2>11, <2>12, <2>13
<1> QED
    BY <1>1

-----------------------------------------------------------------------------
(***************************************************************************)
(* The tree.  Below a directory are itself and those below the directories *)
(* in it, and what is below two of these is apart: what CalcDir adds up    *)
(* for them is what is below.                                              *)
(***************************************************************************)
Dirs == DOMAIN TwDirs
\* What is below d, when every directory can be read.
Below(d) == Reached({d}, {})
\* The entries to which CalcDir descends.
Real(d) == {j \in DOMAIN TwDirs[d] : TwDirs[d][j].dir /\ ~TwDirs[d][j].link}

LEMMA SubdirsAre ==
    ASSUME NEW d \in Dirs
    PROVE  /\ Subdirs(d) \subseteq Dirs
           /\ Subdirs(d) = {TwDirs[d][j].name : j \in Real(d)}
           /\ TwDirs[d] \in Seq(Range(TwDirs[d])) /\ DOMAIN TwDirs[d] = 1..Len(TwDirs[d]) /\ Len(TwDirs[d]) \in Nat
<1>1. TwDirs[d] \in Seq(Range(TwDirs[d]))
    BY TreeAssumption DEF Dirs
<1>2. DOMAIN TwDirs[d] = 1..Len(TwDirs[d]) /\ Len(TwDirs[d]) \in Nat
    BY <1>1
<1>3. Subdirs(d) = {TwDirs[d][j].name : j \in Real(d)}
    BY DEF Subdirs, Real, Range
<1>4. \A j \in Real(d) : TwDirs[d][j].name \in Dirs
    BY TreeAssumption DEF Dirs, Real
<1> QED
    BY <1>1, <1>2, <1>3, <1>4

LEMMA ReachedIs ==
    ASSUME NEW start, start \subseteq Dirs, NEW bad
    PROVE  /\ start \subseteq Reached(start, bad) /\ Reached(start, bad) \subseteq Dirs
           /\ \A p \in Reached(start, bad) \ bad : Subdirs(p) \subseteq Reached(start, bad)
           /\ \A ds \in SUBSET Dirs :
                start \subseteq ds /\ (\A p \in ds \ bad : Subdirs(p) \subseteq ds) => Reached(start, bad) \subseteq ds
<1>1. start \subseteq Reached(start, bad) /\ Reached(start, bad) \subseteq Dirs
    BY DEF Reached, Dirs
<1>2. ASSUME NEW p \in Reached(start, bad) \ bad, NEW k \in Subdirs(p) PROVE k \in Reached(start, bad)
    <2>1. p \in Dirs /\ k \in Dirs
        BY <1>1, SubdirsAre
    <2>2. ASSUME NEW ds \in SUBSET DOMAIN TwDirs, start \subseteq ds, \A q \in ds \ bad : Subdirs(q) \subseteq ds
          PROVE  k \in ds
        <3>1. p \in ds
            BY <1>2, <2>2 DEF Reached
        <3> QED
            BY <1>2, <2>2, <3>1
    <2> QED
        BY <2>1, <2>2 DEF Reached, Dirs
<1>3. ASSUME NEW ds \in SUBSET Dirs, start \subseteq ds, \A p \in ds \ bad : Subdirs(p) \subseteq ds
      PROVE  Reached(start, bad) \subseteq ds
    BY <1>3 DEF Reached, Dirs
<1> QED
    BY <1>1, <1>2, <1>3

\* What is reached is in start or in a directory that is reached.
LEMMA ReachedFrom ==
    ASSUME NEW start, start \subseteq Dirs, NEW bad, NEW x \in Reached(start, bad), x \notin start
    PROVE  \E p \in Reached(start, bad) \ bad : x \in Subdirs(p)
<1> SUFFICES ASSUME \A p \in Reached(start, bad) \ bad : x \notin Subdirs(p) PROVE FALSE
    OBVIOUS
<1> DEFINE ds == Reached(start, bad) \ {x}
<1>1. ds \in SUBSET Dirs /\ start \subseteq ds /\ \A p \in ds \ bad : Subdirs(p) \subseteq ds
    BY ReachedIs
<1>2. Reached(start, bad) \subseteq ds
    <2>1. \A s \in SUBSET Dirs :
            start \subseteq s /\ (\A p \in s \ bad : Subdirs(p) \subseteq s) => Reached(start, bad) \subseteq s
        BY ReachedIs, Zenon
    <2> HIDE DEF ds
    <2> QED
        BY <1>1, <2>1
<1> QED
    BY <1>2

LEMMA BelowIs ==
    ASSUME NEW d \in Dirs
    PROVE  /\ d \in Below(d) /\ Below(d) \subseteq Dirs
           /\ \A p \in Below(d) : Subdirs(p) \subseteq Below(d)
           /\ \A ds \in SUBSET Dirs :
                d \in ds /\ (\A p \in ds : Subdirs(p) \subseteq ds) => Below(d) \subseteq ds
           /\ \A x \in Below(d) : x # d => \E p \in Below(d) : x \in Subdirs(p)
<1> DEFINE start == {d}
<1>0. start \subseteq Dirs
    OBVIOUS
<1>1. start \subseteq Below(d) /\ Below(d) \subseteq Dirs
    BY <1>0, ReachedIs DEF Below
<1>2. \A p \in Below(d) \ {} : Subdirs(p) \subseteq Below(d)
    BY <1>0, ReachedIs DEF Below
<1>3. \A ds \in SUBSET Dirs :
         start \subseteq ds /\ (\A p \in ds \ {} : Subdirs(p) \subseteq ds) => Below(d) \subseteq ds
    BY <1>0, ReachedIs, Zenon DEF Below
<1>4. ASSUME NEW x \in Below(d), x # d PROVE \E p \in Below(d) : x \in Subdirs(p)
    <2>1. x \in Reached(start, {}) /\ x \notin start
        BY <1>4 DEF Below
    <2>2. \E p \in Reached(start, {}) \ {} : x \in Subdirs(p)
        BY <1>0, <2>1, ReachedFrom
    <2> QED
        BY <2>2 DEF Below
<1>5. ASSUME NEW ds \in SUBSET Dirs, d \in ds, \A p \in ds : Subdirs(p) \subseteq ds
      PROVE  Below(d) \subseteq ds
    BY <1>3, <1>5
<1> QED
    BY <1>1, <1>2, <1>4, <1>5

\* No directory is below one of its own.
LEMMA NotBelowItself ==
    ASSUME NEW d \in Dirs, NEW k \in Subdirs(d)
    PROVE  d \notin Below(k)
<1> SUFFICES ASSUME d \in Below(k) PROVE FALSE
    OBVIOUS
<1> DEFINE ds == {x \in Below(k) : d \in Below(x)}
<1>1. k \in Dirs /\ Below(k) \subseteq Dirs
    BY SubdirsAre, BelowIs
<1>2. d \in ds /\ ds \in SUBSET Dirs
    BY <1>1, BelowIs
<1>3. PICK x \in ds : \A p \in ds : x \notin Subdirs(p)
    <2> HIDE DEF ds
    <2>1. ds # {} /\ ds \in SUBSET DOMAIN TwDirs
        BY <1>2 DEF Dirs
    <2> QED
        BY <2>1, OneTreeAssumption
<1>4. x # k
    BY <1>2, <1>3
<1>5. PICK p \in Below(k) : x \in Subdirs(p)
    BY <1>1, <1>3, <1>4, BelowIs
<1>6. Below(x) \subseteq Below(p)
    <2>1. p \in Dirs /\ x \in Dirs
        BY <1>1, <1>3
    <2>2. x \in Below(p) /\ Below(p) \in SUBSET Dirs /\ \A q \in Below(p) : Subdirs(q) \subseteq Below(p)
        BY <1>5, <2>1, BelowIs
    <2> QED
        BY <2>1, <2>2, BelowIs
<1> QED
    BY <1>3, <1>5, <1>6

\* A directory has one place.
LEMMA OneParent ==
    ASSUME NEW c \in Dirs, NEW d \in Dirs, NEW x \in Subdirs(c), x \in Subdirs(d)
    PROVE  c = d
BY OneTreeAssumption DEF Dirs

LEMMA OnePlace ==
    ASSUME NEW d \in Dirs, NEW i \in Real(d), NEW j \in DOMAIN TwDirs[d], TwDirs[d][i].name = TwDirs[d][j].name
    PROVE  i = j
BY OneTreeAssumption DEF Dirs, Real

LEMMA BelowApart ==
    ASSUME NEW d \in Dirs, NEW k \in Subdirs(d), NEW l \in Subdirs(d), k # l
    PROVE  Below(k) \cap Below(l) = {}
<1>1. k \in Dirs /\ l \in Dirs /\ Below(k) \subseteq Dirs /\ Below(l) \subseteq Dirs
    BY SubdirsAre, BelowIs
<1>2. d \notin Below(k) /\ d \notin Below(l)
    BY NotBelowItself
<1>3. k \notin Below(l)
    <2> SUFFICES ASSUME k \in Below(l) PROVE FALSE
        OBVIOUS
    <2>1. PICK p \in Below(l) : k \in Subdirs(p)
        BY <1>1, BelowIs
    <2> QED
        BY <1>1, <1>2, <2>1, OneParent
<1> DEFINE ds == Below(k) \ Below(l)
<1>4. k \in ds /\ ds \in SUBSET Dirs
    BY <1>1, <1>3, BelowIs
<1>5. ASSUME NEW x \in ds, NEW y \in Subdirs(x) PROVE y \in ds
    <2>1. y \in Below(k)
        BY <1>1, BelowIs
    <2>2. ASSUME y \in Below(l) PROVE FALSE
        <3>1. CASE y = l
            BY <1>1, <1>2, <3>1, OneParent
        <3>2. CASE y # l
            <4>1. PICK p \in Below(l) : y \in Subdirs(p)
                BY <1>1, <2>2, <3>2, BelowIs
            <4> QED
                BY <1>1, <4>1, OneParent
        <3> QED
            BY <3>1, <3>2
    <2> QED
        BY <2>1, <2>2
<1> HIDE DEF ds
<1>6. Below(k) \subseteq ds
    BY <1>1, <1>4, <1>5, BelowIs
<1> QED
    BY <1>6 DEF ds

\* What is below those directories of d whose entries are before i, and d itself.
Seen(d, i) == {d} \cup UNION {Below(TwDirs[d][j].name) : j \in {j \in Real(d) : j < i}}

LEMMA SeenFirst ==
    ASSUME NEW d \in Dirs
    PROVE  Seen(d, 1) = {d}
<1>1. \A j \in Real(d) : ~(j < 1)
    BY SubdirsAre DEF Real
<1> QED
    BY <1>1 DEF Seen

LEMMA SeenNext ==
    ASSUME NEW d \in Dirs, NEW i \in DOMAIN TwDirs[d]
    PROVE  IF i \in Real(d)
           THEN /\ Seen(d, i + 1) = Seen(d, i) \cup Below(TwDirs[d][i].name)
                /\ Seen(d, i) \cap Below(TwDirs[d][i].name) = {}
           ELSE Seen(d, i + 1) = Seen(d, i)
<1>1. \A j \in Real(d) : j \in Int /\ (j < i + 1 <=> j < i \/ j = i)
    BY SubdirsAre DEF Real
<1>2. CASE i \notin Real(d)
    <2>1. {j \in Real(d) : j < i + 1} = {j \in Real(d) : j < i}
        BY <1>1, <1>2
    <2> QED
        BY <1>2, <2>1 DEF Seen
<1>3. CASE i \in Real(d)
    <2>1. {j \in Real(d) : j < i + 1} = {j \in Real(d) : j < i} \cup {i}
        BY <1>1, <1>3
    <2>2. Seen(d, i + 1) = Seen(d, i) \cup Below(TwDirs[d][i].name)
        BY <2>1 DEF Seen
    <2>3. ASSUME NEW x \in Seen(d, i), x \in Below(TwDirs[d][i].name) PROVE FALSE
        <3>1. TwDirs[d][i].name \in Subdirs(d)
            BY <1>3, SubdirsAre
        <3>2. x # d
            BY <2>3, <3>1, NotBelowItself
        <3>3. PICK j \in Real(d) : j < i /\ x \in Below(TwDirs[d][j].name)
            BY <2>3, <3>2 DEF Seen
        <3>4. TwDirs[d][j].name \in Subdirs(d) /\ j # i
            BY <1>1, <3>3, SubdirsAre
        <3>5. TwDirs[d][j].name # TwDirs[d][i].name
            BY <3>4, OnePlace
        <3> QED
            BY <2>3, <3>1, <3>3, <3>4, <3>5, BelowApart
    <2> QED
        BY <1>3, <2>2, <2>3
<1> QED
    BY <1>2, <1>3

LEMMA SeenAll ==
    ASSUME NEW d \in Dirs, NEW i \in Nat, i > Len(TwDirs[d])
    PROVE  Seen(d, i) = Below(d)
<1>1. \A j \in Real(d) : j < i
    BY SubdirsAre DEF Real
<1>2. ASSUME NEW x PROVE x \in Seen(d, i) <=> x = d \/ \E k \in Subdirs(d) : x \in Below(k)
    BY <1>1, SubdirsAre DEF Seen
<1>3. ASSUME NEW k \in Subdirs(d) PROVE Below(k) \subseteq Below(d) /\ k \in Dirs
    <2>1. k \in Dirs /\ k \in Below(d) /\ Below(d) \in SUBSET Dirs /\ \A p \in Below(d) : Subdirs(p) \subseteq Below(d)
        BY SubdirsAre, BelowIs
    <2> QED
        BY <2>1, BelowIs
<1>4. Seen(d, i) \subseteq Below(d)
    BY <1>2, <1>3, BelowIs
<1>5. Seen(d, i) \in SUBSET Dirs /\ d \in Seen(d, i)
    BY <1>2, <1>4, BelowIs
<1>6. ASSUME NEW p \in Seen(d, i), NEW y \in Subdirs(p) PROVE y \in Seen(d, i)
    <2>1. CASE p = d
        BY <1>2, <1>3, <2>1, BelowIs
    <2>2. CASE p # d
        <3>1. PICK k \in Subdirs(d) : p \in Below(k)
            BY <1>2, <2>2
        <3>2. y \in Below(k)
            BY <1>3, <3>1, BelowIs
        <3> QED
            BY <1>2, <3>1, <3>2
    <2> QED
        BY <2>1, <2>2
<1>7. Below(d) \subseteq Seen(d, i)
    BY <1>5, <1>6, BelowIs
<1> QED
    BY <1>4, <1>7

\* What is reached without a bad directory is all that is below.
LEMMA ReachedClean ==
    ASSUME NEW d \in Dirs, NEW bad, Reached({d}, bad) \cap bad = {}
    PROVE  Reached({d}, bad) = Below(d)
<1> DEFINE start == {d}
           r == Reached(start, bad)
<1>0. start \subseteq Dirs /\ r \cap bad = {}
    OBVIOUS
<1>1. start \subseteq r /\ r \subseteq Dirs /\ \A p \in r \ bad : Subdirs(p) \subseteq r
    BY <1>0, ReachedIs
<1>2. \A ds \in SUBSET Dirs :
         start \subseteq ds /\ (\A p \in ds \ bad : Subdirs(p) \subseteq ds) => r \subseteq ds
    BY <1>0, ReachedIs, Zenon
<1> HIDE DEF r
<1>3. Below(d) \subseteq r
    BY <1>0, <1>1, BelowIs
<1>4. r \subseteq Below(d)
    <2>1. d \in Below(d) /\ Below(d) \in SUBSET Dirs /\ \A p \in Below(d) : Subdirs(p) \subseteq Below(d)
        BY BelowIs
    <2> QED
        BY <1>2, <2>1
<1> QED
    BY <1>3, <1>4 DEF r

-----------------------------------------------------------------------------
(***************************************************************************)
(* The invariant of the count.  The calls are a way down the tree; some    *)
(* set `done' of directories, read or found bad, is what has been counted, *)
(* everything that follows from it is in it or a call will still come to   *)
(* it, and nothing to which a call will come is: so each directory is      *)
(* counted once, and at the end done is what is reached.                   *)
(***************************************************************************)
CountFrames == [dir : Dirs, i : Nat \ {0}, id : Nat, sum : Int,
                pc : {"enter", "signal", "read", "add", "told", "bad", "dirs"}]
FilesIn == [d \in Dirs |-> Cardinality(FilesOf(d))]
FoldersIn == [d \in Dirs |-> Len(TwDirs[d]) - Cardinality(FilesOf(d))]
SizeIn == [d \in Dirs |-> SizeOf(d)]

SelectedDirs == {e \in Range(twJob.list) : e.dir /\ ~e.link}
Others == Range(twJob.list) \ SelectedDirs
OtherSizes == [e \in Others |-> e.size]
StartDirs == IF twJob.list = <<>> THEN {TwRoot} ELSE {e.name : e \in SelectedDirs}

\* The entry at which a call of CalcDir stands, and the one that Calc has called it for.
EntryAt(f) == TwDirs[f.dir][f.i]
Current == twStack # <<>> \/ twRet # <<>>

\* The calls are for a directory, one in it, and so on; each but the innermost
\* waits for the directory that it is at.
CallChain ==
    /\ twStack \in Seq(CountFrames)
    /\ \A k \in 1..(Len(twStack) - 1) :
          /\ twStack[k].pc = "dirs" /\ twStack[k].i \in Real(twStack[k].dir)
          /\ EntryAt(twStack[k]).name = twStack[k + 1].dir
    /\ twStack # <<>> =>
          /\ Call0.pc # "dirs" => Call0.i = 1
          /\ twRet = <<>>
          /\ twStack[1].dir = IF twJob.list = <<>> THEN TwRoot ELSE Head(twTop).name

CalcList ==
    /\ twJob.list \in TwSelected
    /\ twTop \in Seq(Range(twJob.list)) /\ \A i, j \in DOMAIN twTop : twTop[i] = twTop[j] => i = j
    /\ IF twJob.list = <<>> THEN Current ELSE Current => twTop # <<>> /\ Head(twTop) \in SelectedDirs
    /\ twRet = <<>> \/ \E r \in Int : twRet = <<r>>
    /\ jbRun = "ended" => twStack = <<>> /\ twTop = <<>>

\* What has been added up is right for the directories without a bad one.
SumsRight ==
    /\ \A k \in 1..Len(twStack) :
          twStack[k].pc = "dirs" /\ Seen(twStack[k].dir, twStack[k].i) \cap twBad = {} =>
              twStack[k].sum = SumOver(SizeIn, Seen(twStack[k].dir, twStack[k].i))
    /\ twRet # <<>> /\ twJob.list # <<>> /\ Below(Head(twTop).name) \cap twBad = {} =>
          twRet[1] = SumOver(SizeIn, Below(Head(twTop).name))
    /\ \A e \in SelectedDirs \ Range(twTop) : Below(e.name) \cap twBad = {} =>
          e.name \in DOMAIN twSizes /\ twSizes[e.name] = SumOver(SizeIn, Below(e.name))

\* The counters of a count.
Counts(b, a, d, s) == [found |-> 0, badFiles |-> 0, badDirs |-> b, files |-> a, folders |-> d, size |-> s]

\* The counters are those of `done', the directories that have been read or not.
CountersOf(done) ==
    twData.n = Counts(Cardinality(done \cap twBad),
        Cardinality(Others \ Range(twTop)) + SumOver(FilesIn, done \ twBad),
        Cardinality(SelectedDirs \ Range(twTop)) + SumOver(FoldersIn, done \ twBad),
        SumOver(OtherSizes, Others \ Range(twTop)) + SumOver(SizeIn, done \ twBad))

\* `done' is reached from the start,
DoneReached(done) ==
    \A d \in done : d \in StartDirs \/ \E p \in done \ twBad : d \in Subdirs(p)
\* what follows it is done, or a call will still come to it,
DoneClosed(done) ==
    /\ \A p \in done \ twBad : \A j \in Real(p) :
          TwDirs[p][j].name \in done \/ \E k \in 1..Len(twStack) : twStack[k].dir = p /\ twStack[k].i <= j
    /\ \A e \in SelectedDirs \ Range(twTop) : e.name \in done
    /\ twRet # <<>> => (IF twJob.list = <<>> THEN TwRoot ELSE Head(twTop).name) \in done
\* and what a call will come to is not done.
NotYetDone(done) ==
    /\ \A k \in 1..Len(twStack) :
          /\ twStack[k].dir \in done <=> twStack[k].pc \in {"told", "dirs"}
          /\ twStack[k].pc \in {"told", "dirs"} => twStack[k].dir \notin twBad
          /\ \A j \in Real(twStack[k].dir) : j >= twStack[k].i /\ TwDirs[twStack[k].dir][j].name \in done =>
                k < Len(twStack) /\ j = twStack[k].i
    /\ \A e \in SelectedDirs \cap Range(twTop) : e.name \in done => Current /\ e = Head(twTop)
    /\ twBad \ done = IF twStack # <<>> /\ Call0.pc = "bad" THEN {Call0.dir} ELSE {}
\* No directory has two calls.
Apart == \A k, l \in 1..Len(twStack) : twStack[k].dir = twStack[l].dir => k = l

Counted(done) == CountersOf(done) /\ DoneReached(done) /\ DoneClosed(done) /\ NotYetDone(done)
Counting == CallChain /\ CalcList /\ SumsRight /\ Apart /\ \E done \in SUBSET Dirs : Counted(done)
CountInv ==
    /\ jbStopped => jbUi = "stopped" /\ ~jbTold
    /\ ~Searching /\ ~jbStopped => twData \in Shared /\ Counting /\ (jbTold => twShown = twData.n)

LEMMA SizesAre ==
    /\ IsFiniteSet(Dirs)
    /\ \A d \in Dirs : SizeIn[d] \in Nat /\ FilesIn[d] \in Nat /\ FoldersIn[d] \in Nat
    /\ \A d \in Dirs : /\ SizeIn[d] = SizeOf(d) /\ FilesIn[d] = Cardinality(FilesOf(d))
                       /\ FoldersIn[d] = Cardinality(DOMAIN TwDirs[d] \ FilesOf(d))
<1>1. IsFiniteSet(Dirs)
    BY OneTreeAssumption DEF Dirs
<1>2. ASSUME NEW d \in Dirs
      PROVE  /\ SizeOf(d) \in Nat /\ Cardinality(FilesOf(d)) \in Nat
             /\ Len(TwDirs[d]) - Cardinality(FilesOf(d)) \in Nat
             /\ Len(TwDirs[d]) - Cardinality(FilesOf(d)) = Cardinality(DOMAIN TwDirs[d] \ FilesOf(d))
    <2> DEFINE all == DOMAIN TwDirs[d]
               sizes == [i \in DOMAIN TwDirs[d] |-> TwDirs[d][i].size]
               some == {i \in FilesOf(d) : ~TwDirs[d][i].link}
    <2>1. all = 1..Len(TwDirs[d]) /\ Len(TwDirs[d]) \in Nat
        BY SubdirsAre
    <2>2. IsFiniteSet(all) /\ Cardinality(all) = Len(TwDirs[d])
        BY <2>1, FS_Interval
    <2>3. FilesOf(d) \in SUBSET all /\ some \in SUBSET all
        BY DEF FilesOf
    <2>4. \A i \in all : sizes[i] \in Nat
        BY OneTreeAssumption DEF Dirs, Range
    <2>5. SizeOf(d) = SumOver(sizes, some)
        BY Zenon DEF SizeOf
    <2> HIDE DEF all, sizes, some
    <2>6. SumOver(sizes, some) \in Nat
        BY <2>2, <2>3, <2>4, SumRules
    <2>7. IsFiniteSet(FilesOf(d)) /\ IsFiniteSet(all \ FilesOf(d))
        BY <2>2, <2>3, FS_Subset
    <2>8. Cardinality(FilesOf(d)) \in Nat /\ Cardinality(all \ FilesOf(d)) \in Nat
        BY <2>7, FS_CardinalityType
    <2>9. Cardinality(all) = Cardinality(FilesOf(d)) + Cardinality(all \ FilesOf(d))
        <3>1. PICK rest : rest = all \ FilesOf(d)
            OBVIOUS
        <3>2. all = FilesOf(d) \cup rest /\ FilesOf(d) \cap rest = {} /\ IsFiniteSet(rest)
            BY <2>3, <2>7, <3>1
        <3>3. Cardinality({}) = 0
            BY FS_EmptySet
        <3>4. Cardinality(FilesOf(d) \cup rest)
              = Cardinality(FilesOf(d)) + Cardinality(rest) - Cardinality(FilesOf(d) \cap rest)
            BY <2>7, <3>2, FS_Union
        <3>5. Cardinality(FilesOf(d) \cap rest) = 0 /\ Cardinality(FilesOf(d) \cup rest) = Cardinality(all)
            BY <3>2, <3>3, Zenon
        <3> QED
            BY <2>8, <3>1, <3>4, <3>5
    <2>10. Len(TwDirs[d]) - Cardinality(FilesOf(d)) = Cardinality(all \ FilesOf(d))
        BY <2>2, <2>8, <2>9
    <2> QED
        BY <2>5, <2>6, <2>8, <2>10 DEF all
<1>3. \A d \in Dirs : SizeIn[d] = SizeOf(d) /\ FilesIn[d] = Cardinality(FilesOf(d))
                      /\ FoldersIn[d] = Len(TwDirs[d]) - Cardinality(FilesOf(d))
    BY DEF SizeIn, FilesIn, FoldersIn
<1> QED
    BY <1>1, <1>2, <1>3

\* The selected directories.
LEMMA SelectedAre ==
    ASSUME CalcList
    PROVE  /\ TwRoot \in Dirs /\ \A d \in Dirs : TwRoot \notin Subdirs(d)
           /\ \A e \in SelectedDirs : e.name \in Subdirs(TwRoot) /\ e.name \in Dirs
           /\ \A e, f \in SelectedDirs : e.name = f.name => e = f
           /\ twJob.list = <<>> => SelectedDirs = {} /\ twTop = <<>>
           /\ IsFiniteSet(SelectedDirs) /\ IsFiniteSet(Others)
           /\ \A e \in Others : OtherSizes[e] \in Nat /\ OtherSizes[e] = e.size
           /\ twTop \in Seq(Range(twJob.list))
<1>1. /\ TwRoot \in Dirs /\ twJob.list \in Seq(Range(TwDirs[TwRoot])) /\ twTop \in Seq(Range(twJob.list))
      /\ \A d \in Dirs : TwRoot \notin Subdirs(d)
    BY TreeAssumption, OneTreeAssumption DEF CalcList, Dirs
<1>2. Range(twJob.list) \subseteq Range(TwDirs[TwRoot])
    BY <1>1 DEF Range
<1>3. \A e \in SelectedDirs : e.name \in Subdirs(TwRoot) /\ e.name \in Dirs
    <2>1. \A e \in SelectedDirs : e.name \in Subdirs(TwRoot)
        BY <1>2 DEF SelectedDirs, Subdirs
    <2> QED
        BY <1>1, <2>1, SubdirsAre
<1>4. ASSUME NEW e \in SelectedDirs, NEW f \in SelectedDirs, e.name = f.name PROVE e = f
    <2>1. PICK i \in DOMAIN TwDirs[TwRoot] : TwDirs[TwRoot][i] = e
        BY <1>2 DEF SelectedDirs, Range
    <2>2. PICK j \in DOMAIN TwDirs[TwRoot] : TwDirs[TwRoot][j] = f
        BY <1>2 DEF SelectedDirs, Range
    <2>3. i \in Real(TwRoot)
        BY <2>1 DEF Real, SelectedDirs
    <2>4. i = j
        BY <1>1, <1>4, <2>1, <2>2, <2>3, OnePlace
    <2> QED
        BY <2>1, <2>2, <2>4
<1>5. twJob.list = <<>> => Range(twJob.list) = {}
    BY DEF Range
<1>6. twJob.list = <<>> => SelectedDirs = {} /\ twTop = <<>>
    BY <1>1, <1>5 DEF SelectedDirs
<1>7. IsFiniteSet(Range(twJob.list))
    <2> DEFINE n == Len(twJob.list)
    <2>1. n \in Nat /\ DOMAIN twJob.list = 1..n
        BY <1>1
    <2>2. twJob.list \in Surjection(1..n, Range(twJob.list))
        BY <1>1, <2>1 DEF Surjection, Range
    <2>3. IsFiniteSet(1..n)
        BY <2>1, FS_Interval
    <2> QED
        BY <2>2, <2>3, FS_Surjection
<1>8. IsFiniteSet(SelectedDirs) /\ IsFiniteSet(Others)
    BY <1>7, FS_Subset DEF SelectedDirs, Others
<1>9. \A e \in Others : OtherSizes[e] = e.size /\ e.size \in Nat
    BY <1>1, <1>2, OneTreeAssumption DEF Others, OtherSizes, Dirs
<1> QED
    BY <1>1, <1>3, <1>4, <1>6, <1>8, <1>9

LEMMA LastOrInner ==
    ASSUME NEW n \in Nat \ {0}, NEW k \in 1..n
    PROVE  k = n \/ k \in 1..(n - 1)
OBVIOUS

\* The innermost call, and what the others know of it.
LEMMA CountTop ==
    ASSUME CallChain, twStack # <<>>
    PROVE  /\ Len(twStack) \in Nat \ {0} /\ DOMAIN twStack = 1..Len(twStack)
           /\ Call0 = twStack[Len(twStack)] /\ Call0 \in CountFrames
           /\ Call0.dir \in Dirs /\ Call0.i \in Nat \ {0} /\ Call0.sum \in Int /\ twRet = <<>>
<1>1. twStack \in Seq(CountFrames)
    BY DEF CallChain
<1> HIDE DEF CountFrames
<1>2. Len(twStack) \in Nat \ {0} /\ DOMAIN twStack = 1..Len(twStack) /\ Call0 = twStack[Len(twStack)]
    BY <1>1 DEF Call0, Last
<1>3. Call0 \in CountFrames
    BY <1>1, <1>2
<1>4. Call0.dir \in Dirs /\ Call0.i \in Nat \ {0} /\ Call0.sum \in Int
    BY <1>3 DEF CountFrames
<1> QED
    BY <1>2, <1>3, <1>4 DEF CallChain

LEMMA FrameFields ==
    ASSUME CallChain, NEW k \in 1..Len(twStack)
    PROVE  /\ twStack[k] \in CountFrames /\ twStack[k].dir \in Dirs /\ twStack[k].i \in Nat \ {0}
           /\ twStack[k].sum \in Int /\ DOMAIN TwDirs[twStack[k].dir] \subseteq Nat
<1>1. twStack[k] \in CountFrames
    BY DEF CallChain
<1>2. twStack[k].dir \in Dirs /\ twStack[k].i \in Nat \ {0} /\ twStack[k].sum \in Int
    BY <1>1 DEF CountFrames
<1> QED
    BY <1>1, <1>2, SubdirsAre

LEMMA CalledFor ==
    ASSUME CallChain, NEW k \in 1..(Len(twStack) - 1)
    PROVE  /\ k \in 1..Len(twStack) /\ k + 1 \in 1..Len(twStack)
           /\ twStack[k].pc = "dirs" /\ twStack[k].i \in Real(twStack[k].dir)
           /\ TwDirs[twStack[k].dir][twStack[k].i].name = twStack[k + 1].dir
           /\ twStack[k + 1].dir \in Subdirs(twStack[k].dir)
<1>1. Len(twStack) \in Nat /\ k \in 1..Len(twStack) /\ k + 1 \in 1..Len(twStack)
    <2> HIDE DEF CountFrames
    <2>1. Len(twStack) \in Nat
        BY DEF CallChain
    <2> QED
        BY <2>1
<1>2. /\ twStack[k].pc = "dirs" /\ twStack[k].i \in Real(twStack[k].dir)
      /\ TwDirs[twStack[k].dir][twStack[k].i].name = twStack[k + 1].dir
    BY DEF CallChain, EntryAt
<1> QED
    BY <1>1, <1>2, FrameFields, SubdirsAre

\* With a list, no call is for the root.
LEMMA CalledBelow ==
    ASSUME CallChain, CalcList, twJob.list # <<>>, NEW k \in 1..Len(twStack)
    PROVE  \E p \in Dirs : twStack[k].dir \in Subdirs(p)
<1>0. Len(twStack) \in Nat
    <2> HIDE DEF CountFrames
    <2> QED
        BY DEF CallChain
<1>1. CASE k = 1
    <2>1. twStack # <<>>
        BY <1>0
    <2>2. twStack[1].dir = Head(twTop).name /\ Head(twTop) \in SelectedDirs
        BY <2>1 DEF CallChain, CalcList, Current
    <2> QED
        BY <1>1, <2>2, SelectedAre
<1>2. CASE k # 1
    <2>1. PICK e \in 1..(Len(twStack) - 1) : k = e + 1
        <3>1. k - 1 \in 1..(Len(twStack) - 1) /\ k = (k - 1) + 1
            BY <1>0, <1>2
        <3> QED
            BY <3>1
    <2> QED
        BY <2>1, CalledFor, FrameFields
<1> QED
    BY <1>1, <1>2

\* The innermost call goes on, or becomes another of the same directory.
LEMMA CountGoesOn ==
    ASSUME CallChain, CalcList, Apart, twStack # <<>>, jbRun = "running",
           NEW f \in CountFrames, f.dir = Call0.dir, f.pc # "dirs" => f.i = 1,
           Becomes(f), UNCHANGED <<twJob, twTop, twRet, jbRun>>
    PROVE  /\ CallChain' /\ CalcList' /\ Apart'
           /\ Len(twStack') = Len(twStack) /\ twStack' # <<>> /\ Call0' = f
           /\ twStack'[Len(twStack)] = f /\ \A k \in 1..(Len(twStack) - 1) : twStack'[k] = twStack[k]
           /\ \A k \in 1..Len(twStack) : twStack'[k].dir = twStack[k].dir
<1> DEFINE n == Len(twStack)
<1>1. twStack \in Seq(CountFrames) /\ n \in Nat \ {0} /\ DOMAIN twStack = 1..n /\ Call0 = twStack[n]
    BY CountTop DEF CallChain
<1> HIDE DEF CountFrames
<1>2. twStack' = [twStack EXCEPT ![n] = f]
    BY DEF Becomes
<1>3. twStack' \in Seq(CountFrames) /\ Len(twStack') = n /\ twStack'[n] = f /\ twStack' # <<>>
    BY <1>1, <1>2
<1>4. Call0' = f
    BY <1>3 DEF Call0, Last
<1>5. ASSUME NEW k \in 1..(n - 1) PROVE twStack'[k] = twStack[k] /\ k \in 1..n
    <2>1. k \in 1..n /\ k # n
        BY <1>1, Inner
    <2> QED
        BY <1>1, <1>2, <2>1
<1>6. ASSUME NEW k \in 1..n PROVE twStack'[k].dir = twStack[k].dir
    <2>1. k = n \/ k \in 1..(n - 1)
        BY <1>1, LastOrInner
    <2> QED
        BY <1>1, <1>3, <1>5, <2>1
<1>7. CallChain'
    <2>1. ASSUME NEW k \in 1..(n - 1)
          PROVE  /\ twStack'[k].pc = "dirs" /\ twStack'[k].i \in Real(twStack'[k].dir)
                 /\ TwDirs[twStack'[k].dir][twStack'[k].i].name = twStack'[k + 1].dir
        BY <1>5, <1>6, CalledFor
    <2>2. twStack'[1].dir = IF twJob.list = <<>> THEN TwRoot ELSE Head(twTop).name
        <3>1. 1 \in 1..n
            BY <1>1
        <3> QED
            BY <1>6, <3>1 DEF CallChain
    <2>3. twRet' = <<>>
        BY DEF CallChain
    <2> QED
        BY <1>3, <1>4, <2>1, <2>2, <2>3 DEF CallChain, EntryAt
<1>8. CalcList'
    <2>1. Current /\ Current'
        BY <1>3 DEF Current
    <2>2. SelectedDirs' = SelectedDirs
        BY DEF SelectedDirs
    <2> QED
        BY <2>1, <2>2 DEF CalcList
<1>9. Apart'
    BY <1>3, <1>6 DEF Apart
<1> QED
    BY <1>3, <1>4, <1>5, <1>6, <1>7, <1>8, <1>9

\* The innermost call becomes f.
TopBecomes(f) ==
    /\ twStack # <<>> /\ jbRun = "running"
    /\ f \in CountFrames /\ f.dir = Call0.dir /\ (f.pc # "dirs" => f.i = 1)
    /\ Becomes(f) /\ UNCHANGED <<twJob, twTop, twRet, jbRun>>

LEMMA TopIs ==
    ASSUME CallChain, CalcList, Apart, NEW f, TopBecomes(f)
    PROVE  /\ CallChain' /\ CalcList' /\ Apart'
           /\ Len(twStack) \in Nat \ {0} /\ Len(twStack') = Len(twStack) /\ twStack' # <<>> /\ Call0' = f
           /\ twStack[Len(twStack)] = Call0 /\ twStack'[Len(twStack)] = f
           /\ \A k \in 1..(Len(twStack) - 1) : twStack'[k] = twStack[k]
           /\ \A k \in 1..Len(twStack) : twStack'[k].dir = twStack[k].dir
<1>1. f \in CountFrames /\ f.dir = Call0.dir /\ (f.pc # "dirs" => f.i = 1) /\ twStack # <<>>
      /\ jbRun = "running" /\ Becomes(f) /\ UNCHANGED <<twJob, twTop, twRet, jbRun>>
    BY DEF TopBecomes
<1> HIDE DEF CountFrames
<1> QED
    BY <1>1, CountTop, CountGoesOn

LEMMA SumsGoOn ==
    ASSUME CallChain, CalcList, Apart, SumsRight, NEW f, TopBecomes(f),
           twBad \subseteq twBad', UNCHANGED twSizes,
           f.pc = "dirs" /\ Seen(f.dir, f.i) \cap twBad' = {} => f.sum = SumOver(SizeIn, Seen(f.dir, f.i))
    PROVE  SumsRight'
<1>1. UNCHANGED <<twJob, twTop, twRet>>
    BY DEF TopBecomes
<1>2. SelectedDirs' = SelectedDirs
    BY <1>1 DEF SelectedDirs
<1>3. ASSUME NEW k \in 1..Len(twStack'),
             twStack'[k].pc = "dirs", Seen(twStack'[k].dir, twStack'[k].i) \cap twBad' = {}
      PROVE  twStack'[k].sum = SumOver(SizeIn, Seen(twStack'[k].dir, twStack'[k].i))
    <2>1. Len(twStack) \in Nat \ {0} /\ Len(twStack') = Len(twStack) /\ k \in 1..Len(twStack)
        BY TopIs
    <2>2. CASE k = Len(twStack)
        <3>1. twStack'[k] = f
            BY <2>2, TopIs
        <3> QED
            BY <1>3, <3>1
    <2>3. CASE k \in 1..(Len(twStack) - 1)
        <3>1. twStack'[k] = twStack[k]
            BY <2>3, TopIs
        <3>2. Seen(twStack[k].dir, twStack[k].i) \cap twBad = {}
            BY <1>3, <3>1
        <3> QED
            BY <1>3, <2>1, <3>1, <3>2 DEF SumsRight
    <2> QED
        BY <2>1, <2>2, <2>3, LastOrInner
<1>4. twRet # <<>> /\ twJob.list # <<>> /\ Below(Head(twTop).name) \cap twBad' = {} =>
          twRet[1] = SumOver(SizeIn, Below(Head(twTop).name))
    BY DEF SumsRight
<1>5. ASSUME NEW e \in SelectedDirs \ Range(twTop), Below(e.name) \cap twBad' = {}
      PROVE  e.name \in DOMAIN twSizes /\ twSizes[e.name] = SumOver(SizeIn, Below(e.name))
    <2>1. Below(e.name) \cap twBad = {}
        BY <1>5
    <2> QED
        BY <2>1 DEF SumsRight
<1> QED
    BY <1>1, <1>2, <1>3, <1>4, <1>5 DEF SumsRight

LEMMA DoneGoesOn ==
    ASSUME CallChain, CalcList, Apart, NEW f, TopBecomes(f), UNCHANGED twBad,
           NEW done \in SUBSET Dirs, DoneReached(done), DoneClosed(done), NotYetDone(done),
           f.pc \in {"told", "dirs"} <=> Call0.pc \in {"told", "dirs"}, f.pc # "bad", Call0.pc # "bad",
           f.i >= Call0.i, \A j \in Real(Call0.dir) : j >= Call0.i => j >= f.i
    PROVE  DoneReached(done)' /\ DoneClosed(done)' /\ NotYetDone(done)'
<1> DEFINE n == Len(twStack)
<1>1. UNCHANGED <<twJob, twTop, twRet>> /\ f \in CountFrames
    BY DEF TopBecomes
<1>2. SelectedDirs' = SelectedDirs /\ StartDirs' = StartDirs
    BY <1>1 DEF SelectedDirs, StartDirs
<1>3. /\ n \in Nat \ {0} /\ Len(twStack') = n /\ twStack[n] = Call0 /\ twStack'[n] = f /\ Call0' = f
      /\ twStack # <<>> /\ twStack' # <<>>
      /\ f.dir = Call0.dir /\ Call0.i \in Nat /\ f.i \in Nat /\ Call0.dir \in Dirs
    BY TopIs, CountTop DEF TopBecomes, CountFrames
<1>4. \A k \in 1..(n - 1) : twStack'[k] = twStack[k]
    BY TopIs
<1> HIDE DEF n
<1>5. DoneReached(done)'
    BY <1>2 DEF DoneReached
<1>6. DoneClosed(done)'
    <2>1. ASSUME NEW p \in done \ twBad, NEW j \in Real(p), TwDirs[p][j].name \notin done
          PROVE  \E k \in 1..n : twStack'[k].dir = p /\ twStack'[k].i <= j
        <3>1. PICK k \in 1..n : twStack[k].dir = p /\ twStack[k].i <= j
            BY <2>1 DEF DoneClosed, n
        <3>2. CASE k = n
            <4>1. j \in Nat /\ j \in Real(Call0.dir)
                BY <1>3, <3>1, <3>2, SubdirsAre DEF Real
            <4> QED
                BY <1>3, <3>1, <3>2, <4>1
        <3>3. CASE k \in 1..(n - 1)
            BY <1>4, <3>1, <3>3
        <3> QED
            BY <1>3, <3>2, <3>3, LastOrInner
    <2>2. \A e \in SelectedDirs \ Range(twTop) : e.name \in done
        BY DEF DoneClosed
    <2>3. twRet # <<>> => (IF twJob.list = <<>> THEN TwRoot ELSE Head(twTop).name) \in done
        BY DEF DoneClosed
    <2> QED
        BY <1>1, <1>2, <1>3, <2>1, <2>2, <2>3 DEF DoneClosed
<1>7. NotYetDone(done)'
    <2>1. ASSUME NEW k \in 1..n
          PROVE  /\ twStack'[k].dir \in done <=> twStack'[k].pc \in {"told", "dirs"}
                 /\ twStack'[k].pc \in {"told", "dirs"} => twStack'[k].dir \notin twBad
                 /\ \A j \in Real(twStack'[k].dir) :
                        j >= twStack'[k].i /\ TwDirs[twStack'[k].dir][j].name \in done =>
                            k < n /\ j = twStack'[k].i
        <3>0. /\ twStack[k].dir \in done <=> twStack[k].pc \in {"told", "dirs"}
              /\ twStack[k].pc \in {"told", "dirs"} => twStack[k].dir \notin twBad
              /\ \A j \in Real(twStack[k].dir) :
                        j >= twStack[k].i /\ TwDirs[twStack[k].dir][j].name \in done =>
                            k < n /\ j = twStack[k].i
            BY DEF NotYetDone, n
        <3>1. CASE k = n
            <4>1. ASSUME NEW j \in Real(Call0.dir), j >= f.i, TwDirs[Call0.dir][j].name \in done
                  PROVE  FALSE
                <5>1. j \in Nat
                    BY <1>3, SubdirsAre DEF Real
                <5>2. j >= Call0.i
                    BY <1>3, <4>1, <5>1
                <5> QED
                    BY <1>3, <3>0, <3>1, <4>1, <5>2
            <4> QED
                BY <1>3, <3>0, <3>1, <4>1
        <3>2. CASE k \in 1..(n - 1)
            <4>1. twStack'[k] = twStack[k]
                BY <1>4, <3>2
            <4> QED
                BY <3>0, <4>1
        <3> QED
            BY <1>3, <3>1, <3>2, LastOrInner
    <2>2. ASSUME NEW e \in SelectedDirs \cap Range(twTop), e.name \in done
          PROVE  Current' /\ e = Head(twTop)
        BY <1>3, <2>2 DEF NotYetDone, Current
    <2>3. twBad \ done = {}
        BY DEF NotYetDone
    <2> QED
        BY <1>1, <1>2, <1>3, <2>1, <2>2, <2>3 DEF NotYetDone
<1> QED
    BY <1>5, <1>6, <1>7

LEMMA CountersStay ==
    ASSUME NEW done, CountersOf(done), UNCHANGED <<twBad, twTop, twJob>>, twData'.n = twData.n
    PROVE  CountersOf(done)'
<1>1. SelectedDirs' = SelectedDirs /\ Others' = Others /\ OtherSizes' = OtherSizes
    BY DEF SelectedDirs, Others, OtherSizes
<1>2. Range(twTop)' = Range(twTop)
    OBVIOUS
<1> QED
    BY <1>1, <1>2, Zenon DEF CountersOf

\* A step within the innermost call that counts nothing.
LEMMA CountMoves ==
    ASSUME Counting, NEW f, TopBecomes(f), UNCHANGED <<twBad, twSizes>>, twData'.n = twData.n,
           f.pc = "dirs" /\ Seen(f.dir, f.i) \cap twBad = {} => f.sum = SumOver(SizeIn, Seen(f.dir, f.i)),
           f.pc \in {"told", "dirs"} <=> Call0.pc \in {"told", "dirs"}, f.pc # "bad", Call0.pc # "bad",
           f.i >= Call0.i, \A j \in Real(Call0.dir) : j >= Call0.i => j >= f.i
    PROVE  Counting'
<1>1. CallChain /\ CalcList /\ SumsRight /\ Apart
    BY DEF Counting
<1>2. PICK done \in SUBSET Dirs : Counted(done)
    BY DEF Counting
<1>3. CallChain' /\ CalcList' /\ Apart'
    BY <1>1, TopIs
<1>4. SumsRight'
    BY <1>1, SumsGoOn
<1>5. UNCHANGED <<twTop, twJob>>
    BY DEF TopBecomes
<1>6. CountersOf(done)'
    BY <1>2, <1>5, CountersStay DEF Counted
<1>7. DoneReached(done)' /\ DoneClosed(done)' /\ NotYetDone(done)'
    BY <1>1, <1>2, DoneGoesOn DEF Counted
<1> QED
    BY <1>3, <1>4, <1>6, <1>7 DEF Counting, Counted

\* The innermost call with another pc.
LEMMA CountFields ==
    ASSUME CallChain, twStack # <<>>, NEW pc \in {"signal", "read", "add", "told", "bad", "dirs"}, NEW sum \in Int
    PROVE  LET f == [Call0 EXCEPT !.pc = pc]
               g == [Call0 EXCEPT !.pc = pc, !.sum = sum]
               h == [Call0 EXCEPT !.i = @ + 1]
           IN  /\ f \in CountFrames /\ f.pc = pc /\ f.i = Call0.i /\ f.dir = Call0.dir
               /\ g \in CountFrames /\ g.pc = pc /\ g.i = Call0.i /\ g.dir = Call0.dir /\ g.sum = sum
               /\ h \in CountFrames /\ h.pc = Call0.pc /\ h.i = Call0.i + 1 /\ h.dir = Call0.dir /\ h.sum = Call0.sum
<1>1. PICK c \in CountFrames : c = Call0
    BY CountTop
<1>2. c.i \in Nat \ {0} /\ c.i + 1 \in Nat \ {0}
    BY DEF CountFrames
<1>3. [c EXCEPT !.pc = pc] \in CountFrames
    BY DEF CountFrames
<1>4. [c EXCEPT !.pc = pc, !.sum = sum] \in CountFrames
    BY DEF CountFrames
<1>5. [c EXCEPT !.i = @ + 1] \in CountFrames
    BY <1>2 DEF CountFrames
<1> QED
    BY <1>1, <1>3, <1>4, <1>5 DEF CountFrames

LEMMA PcGoesOn ==
    ASSUME Counting, NEW pc \in {"signal", "read", "add"}, At("enter") \/ At("signal") \/ At("read"), GoesTo(pc),
           UNCHANGED <<twJob, twTop, twRet, twBad, twSizes, jbRun>>, twData'.n = twData.n
    PROVE  Counting'
<1> DEFINE f == [Call0 EXCEPT !.pc = pc]
<1>1. CallChain /\ twStack # <<>> /\ jbRun = "running" /\ Call0.pc \in {"enter", "signal", "read"} /\ Becomes(f)
    BY DEF Counting, At, GoesTo
<1>2. f \in CountFrames /\ f.pc = pc /\ f.i = Call0.i /\ f.dir = Call0.dir /\ Call0.i = 1
    <2>1. Call0.i = 1
        BY <1>1 DEF CallChain
    <2>2. PICK z \in Int : z = 0
        OBVIOUS
    <2>3. PICK p \in {"signal", "read", "add", "told", "bad", "dirs"} : p = pc
        OBVIOUS
    <2> QED
        BY <1>1, <2>1, <2>2, <2>3, CountFields
<1> HIDE DEF f
<1>3. TopBecomes(f)
    BY <1>1, <1>2 DEF TopBecomes
<1> QED
    BY <1>1, <1>2, <1>3, CountMoves

LEMMA CountEnters ==
    ASSUME twData \in Shared, Counting, ~jbStopped, EnterDir
    PROVE  Counting' /\ twData' \in Shared
<1>1. /\ At("enter") /\ GoesTo("signal") /\ twData' = [twData EXCEPT !.path = Call0.dir]
      /\ UNCHANGED <<twJob, twTop, twRet, twBad, twSizes, jbRun>>
    BY DEF EnterDir, WithData, Uses
<1>2. Call0.dir \in DOMAIN TwDirs
    BY <1>1, CountTop DEF Counting, At, Dirs
<1>3. twData' \in Shared /\ twData'.n = twData.n
    <2>1. twData.n \in Counters
        BY DEF Shared
    <2> QED
        BY <1>1, <1>2, <2>1, DataFields DEF Shared
<1> QED
    BY <1>1, <1>3, PcGoesOn

LEMMA CountSignals ==
    ASSUME twData \in Shared, Counting, SignalPath
    PROVE  Counting' /\ twData' \in Shared
<1>1. At("signal") /\ GoesTo("read") /\ UNCHANGED <<twData, twJob, twTop, twRet, twBad, twSizes, jbRun>>
    BY DEF SignalPath, SendSignal
<1> QED
    BY <1>1, PcGoesOn

LEMMA CountTells ==
    ASSUME twData \in Shared, Counting, TellCounts
    PROVE  Counting' /\ twData' \in Shared
<1> DEFINE f == [Call0 EXCEPT !.pc = "dirs", !.sum = SizeOf(Call0.dir)]
<1>1. /\ At("told") /\ Becomes(f) /\ UNCHANGED <<twData, twJob, twTop, twRet, twBad, twSizes, jbRun>>
      /\ CallChain /\ twStack # <<>> /\ jbRun = "running" /\ Call0.pc = "told"
    BY DEF TellCounts, SendSignal, At, Counting
<1>2. PICK d \in Dirs : d = Call0.dir
    BY <1>1, CountTop
<1>3. PICK sum \in Nat : sum = SizeOf(d)
    BY SizesAre
<1>4. f \in CountFrames /\ f.pc = "dirs" /\ f.i = Call0.i /\ f.dir = d /\ f.sum = sum /\ Call0.i = 1
    <2>1. f = [Call0 EXCEPT !.pc = "dirs", !.sum = sum] /\ sum \in Int
        BY <1>2, <1>3
    <2> HIDE DEF f
    <2> QED
        BY <1>1, <1>2, <2>1, CountFields DEF CallChain
<1> HIDE DEF f
<1>5. TopBecomes(f)
    BY <1>1, <1>2, <1>4 DEF TopBecomes
<1>6. f.sum = SumOver(SizeIn, Seen(f.dir, f.i))
    <2>1. Seen(d, 1) = {d}
        BY SeenFirst
    <2>2. SumOver(SizeIn, {d}) = SizeIn[d] + SumOver(SizeIn, {d} \ {d})
        <3>1. {d} \in SUBSET Dirs /\ d \in {d}
            OBVIOUS
        <3> QED
            BY <3>1, SizesAre, SumAdds
    <2>3. SumOver(SizeIn, {}) = 0
        BY SizesAre, SumRules
    <2>4. {d} \ {d} = {}
        OBVIOUS
    <2>5. SumOver(SizeIn, {d} \ {d}) = 0
        BY <2>3, <2>4, Zenon
    <2>6. SizeIn[d] = sum
        BY <1>3, SizesAre
    <2>7. SumOver(SizeIn, {d}) = sum
        BY <2>2, <2>5, <2>6
    <2> QED
        BY <1>4, <2>1, <2>7
<1> QED
    BY <1>1, <1>4, <1>5, <1>6, CountMoves

\* A step that finds the directory good, or bad.
LEMMA CountReads ==
    ASSUME twData \in Shared, Counting, ~Searching, ReadsDir
    PROVE  Counting' /\ twData' \in Shared
<1>1. /\ At("read") /\ UNCHANGED <<twData, twJob, twTop, twRet, twSizes, jbRun>>
      /\ \/ GoesTo("add") /\ UNCHANGED twBad
         \/ GoesTo("bad") /\ twBad' = twBad \cup {Call0.dir}
    BY DEF ReadsDir, jbVars
<1>2. CASE GoesTo("add") /\ UNCHANGED twBad
    BY <1>1, <1>2, PcGoesOn
<1>3. CASE GoesTo("bad") /\ twBad' = twBad \cup {Call0.dir}
    <2> DEFINE f == [Call0 EXCEPT !.pc = "bad"]
               n == Len(twStack)
    <2>1. CallChain /\ CalcList /\ SumsRight /\ Apart /\ twStack # <<>> /\ jbRun = "running" /\ Call0.pc = "read" /\ Becomes(f)
        BY <1>1, <1>3 DEF Counting, At, GoesTo
    <2>2. PICK c \in Dirs : c = Call0.dir
        BY <2>1, CountTop
    <2>3. f \in CountFrames /\ f.pc = "bad" /\ f.i = 1 /\ f.dir = c /\ Call0.i = 1
        <3>1. Call0.i = 1
            BY <2>1 DEF CallChain
        <3>2. PICK z \in Int : z = 0
            OBVIOUS
        <3> QED
            BY <2>1, <2>2, <3>1, <3>2, CountFields
    <2> HIDE DEF f
    <2>4. TopBecomes(f)
        BY <1>1, <2>1, <2>2, <2>3 DEF TopBecomes
    <2>5. CallChain' /\ CalcList' /\ Apart'
        BY <2>1, <2>4, TopIs
    <2>6. SumsRight'
        BY <1>1, <1>3, <2>1, <2>3, <2>4, SumsGoOn
    <2>7. PICK done \in SUBSET Dirs : Counted(done)
        BY DEF Counting
    <2>8. /\ n \in Nat \ {0} /\ Len(twStack') = n /\ twStack[n] = Call0 /\ twStack'[n] = f /\ Call0' = f /\ twStack' # <<>>
          /\ \A k \in 1..(n - 1) : twStack'[k] = twStack[k]
        BY <2>1, <2>4, TopIs
    <2> HIDE DEF n
    <2>9. n \in 1..n /\ (\A k \in 1..n : k = n \/ k \in 1..(n - 1))
        BY <2>8
    <2>10. c \notin done /\ twBad' = twBad \cup {c}
        BY <1>3, <2>1, <2>2, <2>7, <2>8, <2>9 DEF Counted, NotYetDone, n
    <2>11. done \cap twBad' = done \cap twBad /\ done \ twBad' = done \ twBad
        BY <2>10
    <2>12. SelectedDirs' = SelectedDirs /\ StartDirs' = StartDirs /\ Others' = Others /\ OtherSizes' = OtherSizes
           /\ Range(twTop)' = Range(twTop)
        BY <1>1 DEF SelectedDirs, StartDirs, Others, OtherSizes
    <2>13. CountersOf(done)'
        <3>1. CountersOf(done)
            BY <2>7 DEF Counted
        <3> QED
            BY <1>1, <2>11, <2>12, <3>1, Zenon DEF CountersOf
    <2>14. DoneReached(done)'
        BY <2>7, <2>11, <2>12 DEF Counted, DoneReached
    <2>15. DoneClosed(done)'
        <3>1. ASSUME NEW p \in done \ twBad, NEW j \in Real(p), TwDirs[p][j].name \notin done
              PROVE  \E k \in 1..n : twStack'[k].dir = p /\ twStack'[k].i <= j
            <4>1. PICK k \in 1..n : twStack[k].dir = p /\ twStack[k].i <= j
                BY <2>7, <3>1 DEF Counted, DoneClosed, n
            <4>2. k # n
                BY <2>2, <2>8, <2>10, <3>1, <4>1
            <4> QED
                BY <2>8, <2>9, <4>1, <4>2
        <3>2. \A e \in SelectedDirs \ Range(twTop) : e.name \in done
            BY <2>7 DEF Counted, DoneClosed
        <3>3. twRet # <<>> => (IF twJob.list = <<>> THEN TwRoot ELSE Head(twTop).name) \in done
            BY <2>7 DEF Counted, DoneClosed
        <3> QED
            BY <1>1, <2>8, <2>11, <2>12, <3>1, <3>2, <3>3 DEF DoneClosed
    <2>16. NotYetDone(done)'
        <3>1. ASSUME NEW k \in 1..n
              PROVE  /\ twStack'[k].dir \in done <=> twStack'[k].pc \in {"told", "dirs"}
                     /\ twStack'[k].pc \in {"told", "dirs"} => twStack'[k].dir \notin twBad'
                     /\ \A j \in Real(twStack'[k].dir) :
                            j >= twStack'[k].i /\ TwDirs[twStack'[k].dir][j].name \in done =>
                                k < n /\ j = twStack'[k].i
            <4>0. /\ twStack[k].dir \in done <=> twStack[k].pc \in {"told", "dirs"}
                  /\ twStack[k].pc \in {"told", "dirs"} => twStack[k].dir \notin twBad
                  /\ \A j \in Real(twStack[k].dir) :
                            j >= twStack[k].i /\ TwDirs[twStack[k].dir][j].name \in done =>
                                k < n /\ j = twStack[k].i
                BY <2>7 DEF Counted, NotYetDone, n
            <4>1. CASE k = n
                BY <2>1, <2>2, <2>3, <2>8, <4>0, <4>1
            <4>2. CASE k \in 1..(n - 1)
                <5>1. twStack'[k] = twStack[k]
                    BY <2>8, <4>2
                <5> QED
                    BY <2>10, <4>0, <5>1
            <4> QED
                BY <2>9, <4>1, <4>2
        <3>2. ASSUME NEW e \in SelectedDirs \cap Range(twTop), e.name \in done
              PROVE  Current' /\ e = Head(twTop)
            BY <2>7, <2>8, <3>2 DEF Counted, NotYetDone, Current
        <3>3. twBad' \ done = {Call0'.dir}
            <4>1. twBad \ done = {}
                BY <2>1, <2>7 DEF Counted, NotYetDone
            <4> QED
                BY <2>3, <2>8, <2>10, <4>1
        <3> QED
            BY <1>1, <2>3, <2>8, <2>12, <3>1, <3>2, <3>3 DEF NotYetDone
    <2>17. Counting'
        BY <2>5, <2>6, <2>13, <2>14, <2>15, <2>16 DEF Counting, Counted
    <2> QED
        BY <1>1, <2>17
<1> QED
    BY <1>1, <1>2, <1>3

\* A directory that has not been done: how it is reached, and what is not done yet.
LEMMA NewDone ==
    ASSUME CallChain, CalcList, Apart, twStack # <<>>, NEW done \in SUBSET Dirs, DoneReached(done), NotYetDone(done),
           NEW c, c = Call0.dir, Call0.pc \notin {"told", "dirs"}
    PROVE  /\ c \notin done
           /\ c \in StartDirs \/ \E p \in done \ twBad : c \in Subdirs(p)
           /\ \A k \in 1..(Len(twStack) - 1) :
                /\ twStack[k].dir \in done /\ twStack[k].dir \notin twBad /\ twStack[k].dir # c
                /\ \A j \in Real(twStack[k].dir) :
                    j >= twStack[k].i /\ TwDirs[twStack[k].dir][j].name \in done \cup {c} => j = twStack[k].i
           /\ \A j \in Real(c) : TwDirs[c][j].name \notin done \cup {c}
           /\ \A e \in SelectedDirs \cap Range(twTop) : e.name \in done \cup {c} => e = Head(twTop)
<1> DEFINE n == Len(twStack)
<1>1. n \in Nat \ {0} /\ n \in 1..n /\ twStack[n] = Call0 /\ c \in Dirs /\ Call0.i = 1
    BY CountTop DEF CallChain
<1>2. ASSUME NEW k \in 1..n
      PROVE  /\ twStack[k].dir \in done <=> twStack[k].pc \in {"told", "dirs"}
             /\ twStack[k].pc \in {"told", "dirs"} => twStack[k].dir \notin twBad
             /\ \A j \in Real(twStack[k].dir) :
                    j >= twStack[k].i /\ TwDirs[twStack[k].dir][j].name \in done =>
                        k < n /\ j = twStack[k].i
    BY DEF NotYetDone
<1>3. ASSUME NEW k \in 1..(n - 1)
      PROVE  /\ k \in 1..n /\ k + 1 \in 1..n /\ twStack[k].pc = "dirs" /\ twStack[k].i \in Real(twStack[k].dir)
             /\ TwDirs[twStack[k].dir][twStack[k].i].name = twStack[k + 1].dir
             /\ twStack[k + 1].dir \in Subdirs(twStack[k].dir) /\ twStack[k].dir \in Dirs
    <2>1. k \in 1..n /\ k + 1 \in 1..n /\ twStack[k].pc = "dirs" /\ twStack[k].i \in Real(twStack[k].dir)
          /\ TwDirs[twStack[k].dir][twStack[k].i].name = twStack[k + 1].dir
          /\ twStack[k + 1].dir \in Subdirs(twStack[k].dir)
        BY CalledFor
    <2> QED
        BY <2>1, FrameFields
<1> HIDE DEF n
<1>4. c \notin done
    BY <1>1, <1>2
<1>5. CASE n = 1
    <2>1. c = IF twJob.list = <<>> THEN TwRoot ELSE Head(twTop).name
        BY <1>1, <1>5 DEF CallChain
    <2>2. twJob.list # <<>> => Head(twTop) \in SelectedDirs
        BY DEF CalcList, Current
    <2>3. c \in StartDirs
        BY <2>1, <2>2 DEF StartDirs
    <2>4. ASSUME NEW e \in SelectedDirs, e.name = c PROVE e = Head(twTop)
        <3>1. twJob.list # <<>>
            BY <2>4, SelectedAre
        <3> QED
            BY <2>1, <2>2, <2>4, <3>1, SelectedAre
    <2> QED
        <3>1. \A k \in 1..(n - 1) : FALSE
            BY <1>5
        <3>2. ASSUME NEW j \in Real(c) PROVE TwDirs[c][j].name \notin done \cup {c}
            <4>1. TwDirs[c][j].name \notin done
                <5>1. j >= 1
                    BY <1>1, SubdirsAre DEF Real
                <5> QED
                    BY <1>1, <1>2, <5>1
            <4>2. TwDirs[c][j].name # c
                <5>1. TwDirs[c][j].name \in Subdirs(c)
                    BY <1>1, SubdirsAre
                <5> QED
                    BY <1>1, <5>1, NotBelowItself, BelowIs
            <4> QED
                BY <4>1, <4>2
        <3>3. \A e \in SelectedDirs \cap Range(twTop) : e.name \in done \cup {c} => e = Head(twTop)
            BY <2>4 DEF NotYetDone
        <3> QED
            BY <1>4, <2>3, <3>1, <3>2, <3>3 DEF n
<1>6. CASE n # 1
    <2>1. PICK l \in 1..(n - 1) : l + 1 = n
        <3>1. n - 1 \in 1..(n - 1) /\ (n - 1) + 1 = n
            BY <1>1, <1>6
        <3> QED
            BY <3>1
    <2>2. PICK p \in Dirs : p = twStack[l].dir
        BY <1>3
    <2>3. /\ c \in Subdirs(p) /\ p \in done /\ p \notin twBad /\ twStack[l].i \in Real(p)
          /\ TwDirs[p][twStack[l].i].name = c
        BY <1>1, <1>2, <1>3, <2>1, <2>2
    <2>4. ASSUME NEW k \in 1..(n - 1)
          PROVE  /\ twStack[k].dir \in done /\ twStack[k].dir \notin twBad /\ twStack[k].dir # c
                 /\ \A j \in Real(twStack[k].dir) :
                     j >= twStack[k].i /\ TwDirs[twStack[k].dir][j].name \in done \cup {c} => j = twStack[k].i
        <3>1. twStack[k].dir \in done /\ twStack[k].dir \notin twBad
            BY <1>2, <1>3
        <3>2. ASSUME NEW j \in Real(twStack[k].dir), TwDirs[twStack[k].dir][j].name = c PROVE j = twStack[k].i
            <4>1. PICK q \in Dirs : q = twStack[k].dir
                BY <1>3
            <4>2. c \in Subdirs(q)
                BY <3>2, <4>1, SubdirsAre
            <4>3. p = q
                BY <2>3, <4>2, OneParent
            <4>4. k = l
                <5>1. k \in 1..n /\ l \in 1..n
                    BY <1>3
                <5> QED
                    BY <2>2, <4>1, <4>3, <5>1 DEF Apart, n
            <4>5. j \in DOMAIN TwDirs[p]
                BY <3>2, <4>1, <4>3 DEF Real
            <4> QED
                BY <2>3, <3>2, <4>1, <4>3, <4>4, <4>5, OnePlace
        <3>3. \A j \in Real(twStack[k].dir) :
                 j >= twStack[k].i /\ TwDirs[twStack[k].dir][j].name \in done => j = twStack[k].i
            BY <1>2, <1>3
        <3> QED
            BY <1>4, <3>1, <3>2, <3>3
    <2>5. ASSUME NEW j \in Real(c) PROVE TwDirs[c][j].name \notin done \cup {c}
        <3>1. TwDirs[c][j].name \notin done
            <4>1. j >= 1
                BY <1>1, SubdirsAre DEF Real
            <4> QED
                BY <1>1, <1>2, <4>1
        <3>2. TwDirs[c][j].name # c
            <4>1. TwDirs[c][j].name \in Subdirs(c)
                BY <1>1, SubdirsAre
            <4> QED
                BY <1>1, <4>1, NotBelowItself, BelowIs
        <3> QED
            BY <3>1, <3>2
    <2>6. ASSUME NEW e \in SelectedDirs \cap Range(twTop), e.name \in done \cup {c} PROVE e = Head(twTop)
        <3>1. CASE e.name \in done
            BY <2>6, <3>1 DEF NotYetDone
        <3>2. CASE e.name = c
            <4>1. twJob.list # <<>> /\ c \in Subdirs(TwRoot) /\ TwRoot \in Dirs
                BY <2>6, <3>2, SelectedAre
            <4>2. p = TwRoot
                BY <2>3, <4>1, OneParent
            <4>3. \E q \in Dirs : TwRoot \in Subdirs(q)
                <5>1. l \in 1..Len(twStack)
                    BY <1>3 DEF n
                <5> QED
                    BY <2>2, <4>1, <4>2, <5>1, CalledBelow
            <4> QED
                BY <4>3, SelectedAre
        <3> QED
            BY <2>6, <3>1, <3>2
    <2> QED
        BY <1>4, <2>3, <2>4, <2>5, <2>6 DEF n
<1> QED
    BY <1>5, <1>6

LEMMA SumGrows ==
    ASSUME NEW S, IsFiniteSet(S), NEW f, \A x \in S : f[x] \in Nat, NEW set \in SUBSET S, NEW c \in S, c \notin set
    PROVE  SumOver(f, set \cup {c}) = SumOver(f, set) + f[c] /\ SumOver(f, set) \in Nat
<1>1. PICK all : all = set \cup {c}
    OBVIOUS
<1>2. all \in SUBSET S /\ c \in all /\ all \ {c} = set
    BY <1>1
<1>3. SumOver(f, all) = f[c] + SumOver(f, all \ {c})
    BY <1>2, SumAdds
<1>4. SumOver(f, set) \in Nat
    BY SumRules
<1>5. SumOver(f, all) = f[c] + SumOver(f, set)
    BY <1>2, <1>3, Zenon
<1> QED
    BY <1>1, <1>4, <1>5

\* Counting up the files, the folders and the size.
Adds(b, a, d, s, x, y, z) ==
    [Counts(b, a, d, s) EXCEPT !.files = @ + x, !.folders = @ + y, !.size = @ + z]
    = Counts(b, a + x, d + y, s + z)

LEMMA AddedUp ==
    ASSUME NEW b, NEW a \in Int, NEW d \in Int, NEW s \in Int, NEW x \in Int, NEW y \in Int, NEW z \in Int
    PROVE  Adds(b, a, d, s, x, y, z)
<1>1. PICK p, q, t : p = a + x /\ q = d + y /\ t = s + z
    OBVIOUS
<1>2. [Counts(b, a, d, s) EXCEPT !.files = p, !.folders = q, !.size = t]
      = [[[Counts(b, a, d, s) EXCEPT !.files = p] EXCEPT !.folders = q] EXCEPT !.size = t]
    OBVIOUS
<1>3. [Counts(b, a, d, s) EXCEPT !.files = p, !.folders = q, !.size = t] = Counts(b, p, q, t)
    <2>1. [Counts(b, a, d, s) EXCEPT !.files = p] = Counts(b, p, d, s)
        BY DEF Counts
    <2>2. [Counts(b, p, d, s) EXCEPT !.folders = q] = Counts(b, p, q, s)
        BY DEF Counts
    <2>3. [Counts(b, p, q, s) EXCEPT !.size = t] = Counts(b, p, q, t)
        BY DEF Counts
    <2> QED
        BY <1>2, <2>1, <2>2, <2>3, Zenon
<1>4. Counts(b, a, d, s).files = a /\ Counts(b, a, d, s).folders = d /\ Counts(b, a, d, s).size = s
    BY DEF Counts
<1> QED
    BY <1>1, <1>3, <1>4, Zenon DEF Adds

\* What the counters are made of are numbers.
LEMMA CountersAre ==
    ASSUME CalcList, NEW done \in SUBSET Dirs
    PROVE  /\ Cardinality(done \cap twBad) \in Nat
           /\ Cardinality(Others \ Range(twTop)) \in Nat /\ Cardinality(SelectedDirs \ Range(twTop)) \in Nat
           /\ SumOver(OtherSizes, Others \ Range(twTop)) \in Nat
           /\ SumOver(FilesIn, done \ twBad) \in Nat /\ SumOver(FoldersIn, done \ twBad) \in Nat
           /\ SumOver(SizeIn, done \ twBad) \in Nat
<1>1. done \cap twBad \in SUBSET Dirs /\ done \ twBad \in SUBSET Dirs /\ IsFiniteSet(Dirs)
    BY SizesAre
<1>2. Cardinality(done \cap twBad) \in Nat
    BY <1>1, FS_Subset, FS_CardinalityType
<1>3. IsFiniteSet(Others) /\ IsFiniteSet(SelectedDirs) /\ \A e \in Others : OtherSizes[e] \in Nat
    BY SelectedAre
<1>4. Others \ Range(twTop) \in SUBSET Others /\ SelectedDirs \ Range(twTop) \in SUBSET SelectedDirs
    OBVIOUS
<1>5. Cardinality(Others \ Range(twTop)) \in Nat
    BY <1>3, <1>4, FS_Subset, FS_CardinalityType
<1>6. Cardinality(SelectedDirs \ Range(twTop)) \in Nat
    BY <1>3, <1>4, FS_Subset, FS_CardinalityType
<1>7. SumOver(OtherSizes, Others \ Range(twTop)) \in Nat
    BY <1>3, <1>4, SumRules
<1>8. \A d \in Dirs : SizeIn[d] \in Nat /\ FilesIn[d] \in Nat /\ FoldersIn[d] \in Nat
    BY SizesAre
<1>9. SumOver(FilesIn, done \ twBad) \in Nat
    BY <1>1, <1>8, SumRules
<1>10. SumOver(FoldersIn, done \ twBad) \in Nat
    BY <1>1, <1>8, SumRules
<1>11. SumOver(SizeIn, done \ twBad) \in Nat
    BY <1>1, <1>8, SumRules
<1> QED
    BY <1>2, <1>5, <1>6, <1>7, <1>9, <1>10, <1>11

LEMMA DataPut ==
    ASSUME twData \in Shared, NEW n \in Counters
    PROVE  [twData EXCEPT !.n = n] \in Shared /\ [twData EXCEPT !.n = n].n = n
<1> HIDE DEF Counters, Items
<1> QED
    BY DEF Shared

LEMMA CountAdds ==
    ASSUME twData \in Shared, Counting, ~jbStopped, AddCounts
    PROVE  Counting' /\ twData' \in Shared
<1> DEFINE f == [Call0 EXCEPT !.pc = "told"]
           n == Len(twStack)
<1>1. PICK c : c = Call0.dir
    OBVIOUS
<1>2. /\ At("add") /\ Becomes(f) /\ UNCHANGED <<twJob, twTop, twRet, twBad, twSizes, jbRun>>
      /\ CallChain /\ CalcList /\ SumsRight /\ Apart /\ twStack # <<>> /\ jbRun = "running" /\ Call0.pc = "add"
      /\ twData' = [twData EXCEPT !.n = [twData.n EXCEPT !.files = @ + Cardinality(FilesOf(c)),
                                 !.folders = @ + Cardinality(DOMAIN TwDirs[c] \ FilesOf(c)),
                                 !.size = @ + SizeOf(c)]]
    BY <1>1 DEF AddCounts, WithData, Uses, At, Counting, GoesTo
<1>3. f \in CountFrames /\ f.pc = "told" /\ f.i = 1 /\ f.dir = c /\ Call0.i = 1 /\ c \in Dirs
    <2>1. Call0.i = 1
        BY <1>2 DEF CallChain
    <2>2. PICK z \in Int : z = 0
        OBVIOUS
    <2> QED
        BY <1>1, <1>2, <2>1, <2>2, CountFields, CountTop
<1> HIDE DEF f
<1>4. TopBecomes(f)
    BY <1>1, <1>2, <1>3 DEF TopBecomes
<1>5. CallChain' /\ CalcList' /\ Apart'
    BY <1>2, <1>4, TopIs
<1>6. SumsRight'
    BY <1>2, <1>3, <1>4, SumsGoOn
<1>7. PICK done \in SUBSET Dirs : Counted(done)
    BY DEF Counting
<1>8. /\ n \in Nat \ {0} /\ Len(twStack') = n /\ twStack[n] = Call0 /\ twStack'[n] = f /\ Call0' = f /\ twStack' # <<>>
      /\ \A k \in 1..(n - 1) : twStack'[k] = twStack[k]
    BY <1>2, <1>4, TopIs
<1>9. n \in 1..n /\ (\A k \in 1..n : k = n \/ k \in 1..(n - 1)) /\ (\A k \in 1..(n - 1) : k \in 1..n)
    BY <1>8
<1>10. /\ c \notin done
       /\ c \in StartDirs \/ \E p \in done \ twBad : c \in Subdirs(p)
       /\ \A k \in 1..(n - 1) :
            /\ twStack[k].dir \in done /\ twStack[k].dir \notin twBad /\ twStack[k].dir # c
            /\ \A j \in Real(twStack[k].dir) :
                j >= twStack[k].i /\ TwDirs[twStack[k].dir][j].name \in done \cup {c} => j = twStack[k].i
       /\ \A j \in Real(c) : TwDirs[c][j].name \notin done \cup {c}
       /\ \A e \in SelectedDirs \cap Range(twTop) : e.name \in done \cup {c} => e = Head(twTop)
    BY <1>1, <1>2, <1>7, NewDone DEF Counted
<1> HIDE DEF n
<1>11. twBad \ done = {}
    BY <1>2, <1>7 DEF Counted, NotYetDone
<1>12. PICK all \in SUBSET Dirs : all = done \cup {c}
    BY <1>3
<1>13. /\ all \cap twBad = done \cap twBad /\ all \ twBad = (done \ twBad) \cup {c} /\ c \notin done \ twBad /\ c \notin twBad
       /\ done \ twBad \in SUBSET Dirs /\ twBad \ all = {}
    BY <1>10, <1>11, <1>12
<1>14. SelectedDirs' = SelectedDirs /\ StartDirs' = StartDirs /\ Others' = Others /\ OtherSizes' = OtherSizes
       /\ Range(twTop)' = Range(twTop)
    BY <1>2 DEF SelectedDirs, StartDirs, Others, OtherSizes
<1>15. CountersOf(all)' /\ twData' \in Shared
    <2>1. /\ IsFiniteSet(Dirs) /\ \A d \in Dirs : SizeIn[d] \in Nat /\ FilesIn[d] \in Nat /\ FoldersIn[d] \in Nat
          /\ SizeIn[c] = SizeOf(c) /\ FilesIn[c] = Cardinality(FilesOf(c))
          /\ FoldersIn[c] = Cardinality(DOMAIN TwDirs[c] \ FilesOf(c))
        BY <1>3, SizesAre
    <2>0. PICK set \in SUBSET Dirs : set = done \ twBad
        BY <1>13
    <2>2. SumOver(FilesIn, all \ twBad) = SumOver(FilesIn, done \ twBad) + FilesIn[c]
        <3>1. \A d \in Dirs : FilesIn[d] \in Nat
            BY <2>1
        <3>2. SumOver(FilesIn, set \cup {c}) = SumOver(FilesIn, set) + FilesIn[c]
            BY <1>3, <1>13, <2>0, <2>1, <3>1, SumGrows
        <3> QED
            BY <1>13, <2>0, <3>2
    <2>3. SumOver(FoldersIn, all \ twBad) = SumOver(FoldersIn, done \ twBad) + FoldersIn[c]
        <3>1. \A d \in Dirs : FoldersIn[d] \in Nat
            BY <2>1
        <3>2. SumOver(FoldersIn, set \cup {c}) = SumOver(FoldersIn, set) + FoldersIn[c]
            BY <1>3, <1>13, <2>0, <2>1, <3>1, SumGrows
        <3> QED
            BY <1>13, <2>0, <3>2
    <2>4. SumOver(SizeIn, all \ twBad) = SumOver(SizeIn, done \ twBad) + SizeIn[c]
        <3>1. \A d \in Dirs : SizeIn[d] \in Nat
            BY <2>1
        <3>2. SumOver(SizeIn, set \cup {c}) = SumOver(SizeIn, set) + SizeIn[c]
            BY <1>3, <1>13, <2>0, <2>1, <3>1, SumGrows
        <3> QED
            BY <1>13, <2>0, <3>2
    <2>5. PICK b \in Nat, a1 \in Nat, a2 \in Nat, d1 \in Nat, d2 \in Nat, s1 \in Nat, s2 \in Nat :
             /\ b = Cardinality(done \cap twBad)
             /\ a1 = Cardinality(Others \ Range(twTop)) /\ a2 = SumOver(FilesIn, done \ twBad)
             /\ d1 = Cardinality(SelectedDirs \ Range(twTop)) /\ d2 = SumOver(FoldersIn, done \ twBad)
             /\ s1 = SumOver(OtherSizes, Others \ Range(twTop)) /\ s2 = SumOver(SizeIn, done \ twBad)
        BY <1>2, CountersAre
    <2>6. PICK x \in Nat, y \in Nat, z \in Nat : x = FilesIn[c] /\ y = FoldersIn[c] /\ z = SizeIn[c]
        BY <1>3, <2>1
    <2>7. twData.n = Counts(b, a1 + a2, d1 + d2, s1 + s2)
        BY <1>7, <2>5, Zenon DEF Counted, CountersOf
    <2>8. [twData.n EXCEPT !.files = @ + x, !.folders = @ + y, !.size = @ + z]
          = Counts(b, (a1 + a2) + x, (d1 + d2) + y, (s1 + s2) + z)
        <3>1. PICK a \in Int, d \in Int, s \in Int : a = a1 + a2 /\ d = d1 + d2 /\ s = s1 + s2
            OBVIOUS
        <3>2. PICK e \in Int, g \in Int, h \in Int : e = x /\ g = y /\ h = z
            OBVIOUS
        <3>3. [Counts(b, a, d, s) EXCEPT !.files = @ + e, !.folders = @ + g, !.size = @ + h]
              = Counts(b, a + e, d + g, s + h)
            <4>1. Adds(b, a, d, s, e, g, h)
                BY AddedUp
            <4> QED
                BY <4>1, Zenon DEF Adds
        <3> QED
            BY <2>7, <3>1, <3>2, <3>3
    <2>9. (a1 + a2) + x = a1 + (a2 + x) /\ (d1 + d2) + y = d1 + (d2 + y) /\ (s1 + s2) + z = s1 + (s2 + z)
          /\ a1 + (a2 + x) \in Nat /\ d1 + (d2 + y) \in Nat /\ s1 + (s2 + z) \in Nat
        OBVIOUS
    <2>10. PICK m : m = Counts(b, a1 + (a2 + x), d1 + (d2 + y), s1 + (s2 + z))
        OBVIOUS
    <2>11. m \in Counters
        BY <2>9, <2>10 DEF Counts, Counters
    <2>12. twData' = [twData EXCEPT !.n = m]
        BY <1>2, <2>1, <2>6, <2>8, <2>9, <2>10, Zenon
    <2>13. twData' \in Shared /\ twData'.n = m
        BY <2>11, <2>12, DataPut
    <2>14. CountersOf(all)'
        BY <1>2, <1>13, <1>14, <2>2, <2>3, <2>4, <2>5, <2>6, <2>10, <2>13, Zenon DEF CountersOf
    <2> QED
        BY <2>13, <2>14
<1>16. DoneReached(all)'
    <2>1. ASSUME NEW d \in all PROVE d \in StartDirs \/ \E p \in all \ twBad : d \in Subdirs(p)
        <3>1. d \in StartDirs \/ \E p \in done \ twBad : d \in Subdirs(p)
            BY <1>7, <1>10, <1>12 DEF Counted, DoneReached
        <3> QED
            BY <1>12, <3>1
    <2> QED
        BY <1>2, <1>14, <2>1 DEF DoneReached
<1>17. DoneClosed(all)'
    <2>1. ASSUME NEW p \in all \ twBad, NEW j \in Real(p), TwDirs[p][j].name \notin all
          PROVE  \E k \in 1..n : twStack'[k].dir = p /\ twStack'[k].i <= j
        <3>1. CASE p = c
            <4>1. 1 <= j
                BY <1>3, <3>1, SubdirsAre DEF Real
            <4> QED
                BY <1>3, <1>8, <1>9, <3>1, <4>1
        <3>2. CASE p # c
            <4>1. PICK k \in 1..n : twStack[k].dir = p /\ twStack[k].i <= j
                BY <1>7, <1>12, <2>1, <3>2 DEF Counted, DoneClosed, n
            <4>2. k # n
                BY <1>1, <1>8, <3>2, <4>1
            <4> QED
                BY <1>8, <1>9, <4>1, <4>2
        <3> QED
            BY <3>1, <3>2
    <2>2. \A e \in SelectedDirs \ Range(twTop) : e.name \in all
        BY <1>7, <1>12 DEF Counted, DoneClosed
    <2>3. twRet # <<>> => (IF twJob.list = <<>> THEN TwRoot ELSE Head(twTop).name) \in all
        BY <1>7, <1>12 DEF Counted, DoneClosed
    <2> QED
        BY <1>2, <1>8, <1>14, <2>1, <2>2, <2>3 DEF DoneClosed
<1>18. NotYetDone(all)'
    <2>1. ASSUME NEW k \in 1..n
          PROVE  /\ twStack'[k].dir \in all <=> twStack'[k].pc \in {"told", "dirs"}
                 /\ twStack'[k].pc \in {"told", "dirs"} => twStack'[k].dir \notin twBad
                 /\ \A j \in Real(twStack'[k].dir) :
                        j >= twStack'[k].i /\ TwDirs[twStack'[k].dir][j].name \in all =>
                            k < n /\ j = twStack'[k].i
        <3>1. CASE k = n
            BY <1>3, <1>8, <1>10, <1>12, <1>13, <3>1
        <3>2. CASE k \in 1..(n - 1)
            <4>1. twStack'[k] = twStack[k] /\ k < n
                BY <1>8, <3>2
            <4>2. twStack[k].pc = "dirs"
                BY <1>2, <3>2 DEF CallChain, n
            <4> QED
                BY <1>10, <1>12, <3>2, <4>1, <4>2
        <3> QED
            BY <1>9, <3>1, <3>2
    <2>2. ASSUME NEW e \in SelectedDirs \cap Range(twTop), e.name \in all
          PROVE  Current' /\ e = Head(twTop)
        BY <1>8, <1>10, <1>12, <2>2 DEF Current
    <2> QED
        BY <1>2, <1>3, <1>8, <1>13, <1>14, <2>1, <2>2 DEF NotYetDone
<1> QED
    BY <1>5, <1>6, <1>15, <1>16, <1>17, <1>18 DEF Counting, Counted

\* A call has returned ret to its caller, or to Calc.
Returned(ret) ==
    LET n == Len(twStack)
    IN  /\ n = 1 => twStack' = <<>> /\ twRet' = <<ret>>
        /\ n # 1 => /\ twRet' = <<>> /\ twStack' # <<>> /\ Len(twStack') = n - 1 /\ Call0' = twStack'[n - 1]
                    /\ \A k \in 1..(n - 2) : twStack'[k] = twStack[k]
                    /\ twStack'[n - 1].dir = twStack[n - 1].dir /\ twStack'[n - 1].pc = "dirs"
                    /\ twStack'[n - 1].i = twStack[n - 1].i + 1 /\ twStack'[n - 1].sum = twStack[n - 1].sum + ret
                    /\ twStack' \in Seq(CountFrames) /\ \A k \in 1..(n - 1) : twStack'[k].dir = twStack[k].dir

LEMMA ReturnIs ==
    ASSUME CallChain, twStack # <<>>, NEW ret \in Int, Returns(ret)
    PROVE  Returned(ret)
<1>1. twStack \in Seq(CountFrames) /\ Len(twStack) \in Nat \ {0} /\ DOMAIN twStack = 1..Len(twStack) /\ twRet = <<>>
    BY CountTop DEF CallChain
<1> DEFINE callers == Front(twStack)
           n == Len(callers)
<1>2. callers \in Seq(CountFrames) /\ n = Len(twStack) - 1 /\ \A k \in 1..n : callers[k] = twStack[k]
    <2> HIDE DEF CountFrames
    <2> QED
        BY <1>1 DEF Front
<1>3. CASE callers = <<>>
    <2>1. Len(twStack) = 1
        <3>1. n = 0
            BY <1>3
        <3>2. PICK l \in Nat \ {0} : l = Len(twStack)
            BY <1>1
        <3>3. n = l - 1
            BY <1>2, <3>2, Zenon
        <3> HIDE DEF n
        <3> QED
            BY <3>1, <3>2, <3>3
    <2>2. twStack' = <<>> /\ twRet' = <<ret>>
        BY <1>3 DEF Returns
    <2> QED
        BY <2>1, <2>2 DEF Returned
<1>4. CASE callers # <<>>
    <2> HIDE DEF callers
    <2>1. n \in 1..(Len(twStack) - 1) /\ callers[n] = twStack[n] /\ twStack[n] \in CountFrames /\ twStack[n].pc = "dirs"
          /\ Len(twStack) # 1
        <3>1. n \in 1..(Len(twStack) - 1) /\ callers[n] = twStack[n] /\ Len(twStack) # 1
            <4> HIDE DEF CountFrames
            <4> QED
                BY <1>1, <1>2, <1>4
        <3> QED
            BY <3>1, CalledFor, FrameFields
    <2> PICK c \in CountFrames : c = callers[n]
        BY <2>1
    <2> DEFINE g == [[c EXCEPT !.i = @ + 1] EXCEPT !.sum = @ + ret]
    <2>2. g \in CountFrames /\ g.pc = "dirs" /\ g.dir = c.dir /\ g.i = c.i + 1 /\ g.sum = c.sum + ret
        <3>1. c.i \in Nat \ {0} /\ c.sum \in Int /\ c.pc = "dirs"
            BY <2>1 DEF CountFrames
        <3>2. c.i + 1 \in Nat \ {0} /\ c.sum + ret \in Int
            BY <3>1
        <3> QED
            BY <3>1, <3>2 DEF CountFrames
    <2>3. twStack' = [callers EXCEPT ![n] = g] /\ twRet' = <<>>
        <3>1. n \in DOMAIN callers
            BY <1>2, <2>1
        <3>2. twStack' = [callers EXCEPT ![n].i = @ + 1, ![n].sum = @ + ret] /\ twRet' = twRet
            BY <1>4, Zenon DEF Returns, callers
        <3>3. twStack' = [callers EXCEPT ![n] = [c EXCEPT !.i = @ + 1, !.sum = @ + ret]]
            BY <3>1, <3>2, TwoFields
        <3>4. [c EXCEPT !.i = @ + 1, !.sum = @ + ret] = g
            OBVIOUS
        <3>5. twRet' = <<>>
            BY <1>1, <3>2
        <3> HIDE DEF g, n
        <3> QED
            BY <3>3, <3>4, <3>5, Zenon
    <2> HIDE DEF g, CountFrames
    <2>4. twStack' \in Seq(CountFrames) /\ Len(twStack') = n /\ twStack'[n] = g /\ twStack' # <<>>
        BY <1>2, <2>1, <2>2, <2>3
    <2>5. Call0' = g
        BY <2>4 DEF Call0, Last
    <2>6. PICK m \in Nat \ {0} : m = n
        BY <2>1
    <2>7. Len(twStack) = m + 1 /\ m = Len(twStack) - 1 /\ m - 1 = Len(twStack) - 2
        BY <1>1, <1>2, <2>6
    <2>8. ASSUME NEW k \in 1..m PROVE k # m => twStack'[k] = twStack[k]
        BY <1>2, <2>3, <2>6
    <2>9. ASSUME NEW k \in 1..m PROVE twStack'[k].dir = twStack[k].dir
        BY <1>2, <2>1, <2>2, <2>4, <2>6, <2>8
    <2>10. \A k \in 1..(m - 1) : k \in 1..m /\ k # m
        BY <2>6
    <2>11. twStack'[m] = g /\ Call0' = twStack'[m] /\ g.dir = twStack[m].dir /\ g.pc = "dirs"
           /\ g.i = twStack[m].i + 1 /\ g.sum = twStack[m].sum + ret
        BY <2>1, <2>2, <2>4, <2>5, <2>6
    <2> HIDE DEF n
    <2> QED
        BY <2>1, <2>3, <2>4, <2>6, <2>7, <2>8, <2>9, <2>10, <2>11 DEF Returned
<1> QED
    BY <1>3, <1>4

LEMMA SeenGrows ==
    ASSUME NEW d \in Dirs, NEW i \in Real(d), NEW bad, Seen(d, i + 1) \cap bad = {}
    PROVE  /\ Seen(d, i) \cap bad = {} /\ Below(TwDirs[d][i].name) \cap bad = {}
           /\ SumOver(SizeIn, Seen(d, i + 1)) = SumOver(SizeIn, Seen(d, i)) + SumOver(SizeIn, Below(TwDirs[d][i].name))
<1>1. i \in DOMAIN TwDirs[d]
    BY DEF Real
<1>2. PICK a, b : a = Seen(d, i) /\ b = Below(TwDirs[d][i].name)
    OBVIOUS
<1>3. Seen(d, i + 1) = a \cup b /\ a \cap b = {}
    BY <1>1, <1>2, SeenNext
<1>4. \A j \in Real(d) : TwDirs[d][j].name \in Dirs
    BY SubdirsAre
<1>5. a \in SUBSET Dirs /\ b \in SUBSET Dirs
    BY <1>2, <1>4, BelowIs DEF Seen
<1>6. IsFiniteSet(Dirs) /\ \A x \in Dirs : SizeIn[x] \in Nat
    BY SizesAre
<1>7. SumOver(SizeIn, a \cup b) = SumOver(SizeIn, a) + SumOver(SizeIn, b)
    BY <1>3, <1>5, <1>6, SumTwo
<1> QED
    BY <1>2, <1>3, <1>7

LEMMA CountReturns ==
    ASSUME CallChain, CalcList, SumsRight, Apart, twStack # <<>>, jbRun = "running",
           NEW ret \in Int, Returns(ret), UNCHANGED <<twJob, twTop, twBad, twSizes, jbRun>>,
           Below(Call0.dir) \cap twBad = {} => ret = SumOver(SizeIn, Below(Call0.dir))
    PROVE  CallChain' /\ CalcList' /\ SumsRight' /\ Apart'
<1> DEFINE n == Len(twStack)
<1>1. n \in Nat \ {0} /\ twStack[n] = Call0 /\ twStack \in Seq(CountFrames) /\ twRet = <<>> /\ Call0.dir \in Dirs
    BY CountTop DEF CallChain
<1>2. Returned(ret)
    BY ReturnIs
<1>3. ASSUME NEW k \in 1..(n - 1)
      PROVE  /\ k \in 1..n /\ k + 1 \in 1..n /\ twStack[k].pc = "dirs" /\ twStack[k].i \in Real(twStack[k].dir)
             /\ TwDirs[twStack[k].dir][twStack[k].i].name = twStack[k + 1].dir
             /\ twStack[k].dir \in Dirs /\ twStack[k].sum \in Int /\ twStack[k].i \in Nat
    BY CalledFor, FrameFields
<1>4. twStack[1].dir = IF twJob.list = <<>> THEN TwRoot ELSE Head(twTop).name
    BY DEF CallChain
<1> HIDE DEF n
<1>5. SelectedDirs' = SelectedDirs /\ Range(twTop)' = Range(twTop)
    BY DEF SelectedDirs
<1>6. \A e \in SelectedDirs \ Range(twTop) : Below(e.name) \cap twBad = {} =>
          e.name \in DOMAIN twSizes /\ twSizes[e.name] = SumOver(SizeIn, Below(e.name))
    BY DEF SumsRight
<1>7. CASE n = 1
    <2>1. twStack' = <<>> /\ twRet' = <<ret>>
        BY <1>2, <1>7 DEF Returned, n
    <2>2. Len(twStack') = 0 /\ 1..0 = {} /\ (\A k \in 1..(0 - 1) : FALSE)
        BY <2>1
    <2>3. twStack' \in Seq(CountFrames)
        BY <2>1
    <2>4. CallChain'
        BY <2>1, <2>2, <2>3 DEF CallChain
    <2>5. CalcList'
        <3>1. Current /\ Current'
            BY <2>1 DEF Current
        <3>2. \E r \in Int : twRet' = <<r>>
            BY <2>1
        <3> QED
            BY <1>5, <3>1, <3>2 DEF CalcList
    <2>6. SumsRight'
        <3>1. twRet'[1] = ret
            BY <2>1
        <3>2. twJob.list # <<>> /\ Below(Head(twTop).name) \cap twBad = {} =>
                twRet'[1] = SumOver(SizeIn, Below(Head(twTop).name))
            BY <1>1, <1>4, <1>7, <3>1
        <3> QED
            BY <1>5, <1>6, <2>2, <3>2 DEF SumsRight
    <2>7. Apart'
        BY <2>2 DEF Apart
    <2> QED
        BY <2>4, <2>5, <2>6, <2>7
<1>8. CASE n # 1
    <2>1. PICK m \in 1..(n - 1) : m = n - 1
        <3>1. n - 1 \in 1..(n - 1)
            BY <1>1, <1>8
        <3> QED
            BY <3>1
    <2>2. m \in Nat \ {0} /\ n = m + 1 /\ n - 2 = m - 1 /\ m \in 1..n /\ 1 \in 1..m
        BY <1>1, <2>1
    <2>3. /\ twRet' = <<>> /\ twStack' # <<>> /\ Len(twStack') = m /\ Call0' = twStack'[m]
          /\ \A k \in 1..(m - 1) : twStack'[k] = twStack[k]
          /\ twStack'[m].dir = twStack[m].dir /\ twStack'[m].pc = "dirs"
          /\ twStack'[m].i = twStack[m].i + 1 /\ twStack'[m].sum = twStack[m].sum + ret
          /\ twStack' \in Seq(CountFrames) /\ \A k \in 1..m : twStack'[k].dir = twStack[k].dir
        BY <1>2, <1>8, <2>1, <2>2 DEF Returned, n
    <2>4. \A k \in 1..(m - 1) : k \in 1..(n - 1) /\ k \in 1..m /\ k + 1 \in 1..m
        BY <2>1, <2>2
    <2>5. CallChain'
        <3>1. ASSUME NEW k \in 1..(m - 1)
              PROVE  /\ twStack'[k].pc = "dirs" /\ twStack'[k].i \in Real(twStack'[k].dir)
                     /\ TwDirs[twStack'[k].dir][twStack'[k].i].name = twStack'[k + 1].dir
            BY <1>3, <2>3, <2>4
        <3>2. twStack'[1].dir = IF twJob.list = <<>> THEN TwRoot ELSE Head(twTop).name
            BY <1>4, <2>2, <2>3
        <3> QED
            BY <2>3, <3>1, <3>2 DEF CallChain, EntryAt
    <2>6. CalcList'
        <3>1. Current /\ Current'
            BY <2>3 DEF Current
        <3> QED
            BY <1>5, <2>3, <3>1 DEF CalcList
    <2>7. SumsRight'
        <3>1. ASSUME NEW k \in 1..m, twStack'[k].pc = "dirs", Seen(twStack'[k].dir, twStack'[k].i) \cap twBad = {}
              PROVE  twStack'[k].sum = SumOver(SizeIn, Seen(twStack'[k].dir, twStack'[k].i))
            <4>1. CASE k = m
                <5>1. PICK d \in Dirs, i \in Nat : d = twStack[m].dir /\ i = twStack[m].i
                    BY <1>3, <2>1
                <5>2. i \in Real(d) /\ TwDirs[d][i].name = Call0.dir /\ twStack[m].pc = "dirs"
                    BY <1>1, <1>3, <2>1, <2>2, <5>1
                <5>3. Seen(d, i + 1) \cap twBad = {}
                    BY <2>3, <3>1, <4>1, <5>1
                <5>4. /\ Seen(d, i) \cap twBad = {} /\ Below(Call0.dir) \cap twBad = {}
                      /\ SumOver(SizeIn, Seen(d, i + 1)) = SumOver(SizeIn, Seen(d, i)) + SumOver(SizeIn, Below(Call0.dir))
                    BY <5>2, <5>3, SeenGrows
                <5>5. twStack[m].sum = SumOver(SizeIn, Seen(d, i))
                    BY <2>2, <5>1, <5>2, <5>4 DEF SumsRight, n
                <5>6. twStack'[m].sum = SumOver(SizeIn, Seen(d, i)) + SumOver(SizeIn, Below(Call0.dir))
                    BY <2>3, <5>4, <5>5
                <5>7. Seen(twStack'[k].dir, twStack'[k].i) = Seen(d, i + 1)
                    BY <2>3, <4>1, <5>1
                <5> QED
                    BY <4>1, <5>4, <5>6, <5>7
            <4>2. CASE k \in 1..(m - 1)
                <5>1. twStack'[k] = twStack[k] /\ k \in 1..n
                    BY <1>3, <2>3, <2>4, <4>2
                <5> QED
                    BY <3>1, <5>1 DEF SumsRight, n
            <4> QED
                BY <2>2, <4>1, <4>2, LastOrInner
        <3> QED
            BY <1>5, <1>6, <2>3, <3>1 DEF SumsRight
    <2>8. Apart'
        <3>1. \A k \in 1..m : k \in 1..n
            BY <2>2
        <3> QED
            BY <2>3, <3>1 DEF Apart, n
    <2> QED
        BY <2>5, <2>6, <2>7, <2>8
<1> QED
    BY <1>7, <1>8

\* What is done when a call returns and its directory is.
LEMMA ReturnCounts ==
    ASSUME CallChain, CalcList, Apart, twStack # <<>>, jbRun = "running",
           NEW ret \in Int, Returns(ret), UNCHANGED <<twJob, twTop, twBad>>,
           NEW done \in SUBSET Dirs, Call0.dir \in done, DoneReached(done), twBad \subseteq done,
           \A p \in done \ twBad : \A j \in Real(p) :
              \/ TwDirs[p][j].name \in done
              \/ \E k \in 1..(Len(twStack) - 1) : twStack[k].dir = p /\ twStack[k].i <= j,
           \A e \in SelectedDirs \ Range(twTop) : e.name \in done,
           \A k \in 1..(Len(twStack) - 1) :
              /\ twStack[k].dir \in done /\ twStack[k].dir \notin twBad
              /\ \A j \in Real(twStack[k].dir) :
                    j >= twStack[k].i /\ TwDirs[twStack[k].dir][j].name \in done => j = twStack[k].i,
           \A e \in SelectedDirs \cap Range(twTop) : e.name \in done => e = Head(twTop)
    PROVE  DoneReached(done)' /\ DoneClosed(done)' /\ NotYetDone(done)'
<1> DEFINE n == Len(twStack)
<1>1. n \in Nat \ {0} /\ twStack[n] = Call0
    BY CountTop
<1>2. Returned(ret)
    BY ReturnIs
<1>3. ASSUME NEW k \in 1..(n - 1)
      PROVE  /\ twStack[k].pc = "dirs" /\ twStack[k].i \in Real(twStack[k].dir)
             /\ TwDirs[twStack[k].dir][twStack[k].i].name = twStack[k + 1].dir
             /\ twStack[k].dir \in Dirs /\ twStack[k].i \in Nat
    BY CalledFor, FrameFields
<1>4. twStack[1].dir = IF twJob.list = <<>> THEN TwRoot ELSE Head(twTop).name
    BY DEF CallChain
<1>5. SelectedDirs' = SelectedDirs /\ StartDirs' = StartDirs /\ Range(twTop)' = Range(twTop)
    BY DEF SelectedDirs, StartDirs
<1>6. twBad \ done = {}
    OBVIOUS
<1>7. DoneReached(done)'
    BY <1>5 DEF DoneReached
<1>8. CASE n = 1
    <2>1. twStack' = <<>> /\ twRet' = <<ret>>
        BY <1>2, <1>8, Zenon DEF Returned
    <2>2. Len(twStack') = 0 /\ (\A k \in 1..0 : FALSE) /\ \A k \in 1..(n - 1) : FALSE
        BY <1>8, <2>1
    <2>3. twRet' # <<>>
        BY <2>1
    <2>4. DoneClosed(done)'
        <3>1. \A p \in done \ twBad : \A j \in Real(p) : TwDirs[p][j].name \in done
            BY <2>2
        <3>2. (IF twJob.list = <<>> THEN TwRoot ELSE Head(twTop).name) \in done
            BY <1>1, <1>4, <1>8
        <3> QED
            BY <1>5, <3>1, <3>2 DEF DoneClosed
    <2>5. NotYetDone(done)'
        BY <1>5, <1>6, <2>1, <2>2, <2>3 DEF NotYetDone, Current
    <2> QED
        BY <1>7, <2>4, <2>5
<1>9. CASE n # 1
    <2>1. PICK m \in 1..(n - 1) : m = n - 1
        <3>1. n - 1 \in 1..(n - 1)
            <4> HIDE DEF n
            <4> QED
                BY <1>1, <1>9
        <3> QED
            BY <3>1
    <2>2. m \in Nat \ {0} /\ n = m + 1 /\ n - 2 = m - 1
        BY <1>1, <2>1
    <2>3. /\ twRet' = <<>> /\ twStack' # <<>> /\ Len(twStack') = m /\ Call0' = twStack'[m]
          /\ \A k \in 1..(m - 1) : twStack'[k] = twStack[k]
          /\ twStack'[m].dir = twStack[m].dir /\ twStack'[m].pc = "dirs"
          /\ twStack'[m].i = twStack[m].i + 1
        BY <1>2, <1>9, <2>1, <2>2 DEF Returned
    <2>4. ASSUME NEW k \in 1..(n - 1)
          PROVE  /\ twStack[k].dir \in done /\ twStack[k].dir \notin twBad
                 /\ \A j \in Real(twStack[k].dir) :
                    j >= twStack[k].i /\ TwDirs[twStack[k].dir][j].name \in done => j = twStack[k].i
        OBVIOUS
    <2>5. ASSUME NEW k \in 1..m PROVE k = m \/ (k \in 1..(m - 1) /\ k < m /\ k \in 1..(n - 1))
        BY <2>2
    <2>6. PICK d \in Dirs, i \in Nat : d = twStack[m].dir /\ i = twStack[m].i
        BY <1>3, <2>1
    <2>7. i \in Real(d) /\ TwDirs[d][i].name \in done
        BY <1>1, <1>3, <2>1, <2>2, <2>6
    <2>8. DoneClosed(done)'
        <3>1. ASSUME NEW p \in done \ twBad, NEW j \in Real(p), TwDirs[p][j].name \notin done
              PROVE  \E k \in 1..m : twStack'[k].dir = p /\ twStack'[k].i <= j
            <4>1. PICK k \in 1..(n - 1) : twStack[k].dir = p /\ twStack[k].i <= j
                BY <3>1
            <4>2. k \in 1..m
                BY <2>1
            <4>3. CASE k = m
                <5>1. p = d /\ i <= j /\ j \in Nat
                    BY <2>6, <4>1, <4>3, SubdirsAre DEF Real
                <5>2. j # i
                    BY <2>7, <3>1, <5>1
                <5> QED
                    BY <2>3, <2>6, <4>2, <4>3, <5>1, <5>2
            <4>4. CASE k # m
                <5>1. twStack'[k] = twStack[k]
                    BY <2>3, <2>5, <4>2, <4>4
                <5> QED
                    BY <4>1, <4>2, <5>1
            <4> QED
                BY <4>3, <4>4
        <3> QED
            BY <1>5, <2>3, <3>1 DEF DoneClosed
    <2>9. NotYetDone(done)'
        <3>1. ASSUME NEW k \in 1..m
              PROVE  /\ twStack'[k].dir \in done <=> twStack'[k].pc \in {"told", "dirs"}
                     /\ twStack'[k].pc \in {"told", "dirs"} => twStack'[k].dir \notin twBad
                     /\ \A j \in Real(twStack'[k].dir) :
                            j >= twStack'[k].i /\ TwDirs[twStack'[k].dir][j].name \in done =>
                                k < m /\ j = twStack'[k].i
            <4>1. CASE k = m
                <5>1. d \in done /\ d \notin twBad /\ \A j \in Real(d) : j >= i /\ TwDirs[d][j].name \in done => j = i
                    BY <2>1, <2>4, <2>6
                <5>2. ASSUME NEW j \in Real(d), j >= i + 1, TwDirs[d][j].name \in done PROVE FALSE
                    <6>1. j \in Nat
                        BY SubdirsAre DEF Real
                    <6> QED
                        BY <5>1, <5>2, <6>1
                <5> QED
                    BY <2>3, <2>6, <4>1, <5>1, <5>2
            <4>2. CASE k # m
                <5>1. k \in 1..(m - 1) /\ k < m /\ k \in 1..(n - 1)
                    BY <2>5, <4>2
                <5>2. twStack'[k] = twStack[k] /\ twStack[k].pc = "dirs"
                    BY <1>3, <2>3, <5>1
                <5> QED
                    BY <2>4, <5>1, <5>2
            <4> QED
                BY <4>1, <4>2
        <3>2. Call0'.pc # "bad"
            BY <2>3
        <3> QED
            BY <1>5, <1>6, <2>3, <3>1, <3>2 DEF NotYetDone, Current
    <2> QED
        BY <1>7, <2>8, <2>9
<1> QED
    BY <1>8, <1>9

\* All the directories of Call0's have been seen.
LEMMA CountLeaves ==
    ASSUME Counting, NoMoreDirs
    PROVE  Counting'
<1> DEFINE n == Len(twStack)
<1>1. /\ At("dirs") /\ UNCHANGED <<twData, twJob, twTop, twBad, twSizes, jbRun>> /\ Returns(Call0.sum)
      /\ CallChain /\ CalcList /\ SumsRight /\ Apart /\ twStack # <<>> /\ jbRun = "running" /\ Call0.pc = "dirs"
      /\ Call0.i > Len(TwDirs[Call0.dir])
    BY DEF NoMoreDirs, At, Counting, Entries, jbVars
<1>2. PICK c \in Dirs, i \in Nat, ret \in Int : c = Call0.dir /\ i = Call0.i /\ ret = Call0.sum
    BY <1>1, CountTop
<1>3. n \in Nat \ {0} /\ n \in 1..n /\ twStack[n] = Call0 /\ \A k \in 1..(n - 1) : k \in 1..n
    <2>1. n \in Nat \ {0} /\ twStack[n] = Call0
        BY <1>1, CountTop
    <2> HIDE DEF n
    <2> QED
        BY <2>1
<1>4. Seen(c, i) = Below(c)
    BY <1>1, <1>2, SeenAll
<1>5. Below(Call0.dir) \cap twBad = {} => ret = SumOver(SizeIn, Below(Call0.dir))
    <2>1. twStack[n].pc = "dirs" /\ Seen(twStack[n].dir, twStack[n].i) \cap twBad = {} =>
            twStack[n].sum = SumOver(SizeIn, Seen(twStack[n].dir, twStack[n].i))
        BY <1>1, <1>3 DEF SumsRight
    <2> QED
        BY <1>1, <1>2, <1>3, <1>4, <2>1
<1>6. CallChain' /\ CalcList' /\ SumsRight' /\ Apart'
    BY <1>1, <1>2, <1>5, CountReturns
<1>7. PICK done \in SUBSET Dirs : Counted(done)
    BY DEF Counting
<1>8. CountersOf(done)'
    BY <1>1, <1>7, CountersStay DEF Counted
<1>9. ASSUME NEW k \in 1..n
      PROVE  /\ twStack[k].dir \in done <=> twStack[k].pc \in {"told", "dirs"}
             /\ twStack[k].pc \in {"told", "dirs"} => twStack[k].dir \notin twBad
             /\ \A j \in Real(twStack[k].dir) :
                    j >= twStack[k].i /\ TwDirs[twStack[k].dir][j].name \in done => k < n /\ j = twStack[k].i
    BY <1>7 DEF Counted, NotYetDone
<1>10. twBad \subseteq done /\ Call0.dir \in done
    <2>1. twBad \ done = {}
        BY <1>1, <1>7 DEF Counted, NotYetDone
    <2> QED
        BY <1>1, <1>3, <1>9, <2>1
<1>11. ASSUME NEW p \in done \ twBad, NEW j \in Real(p), TwDirs[p][j].name \notin done
       PROVE  \E k \in 1..(n - 1) : twStack[k].dir = p /\ twStack[k].i <= j
    <2>1. PICK k \in 1..n : twStack[k].dir = p /\ twStack[k].i <= j
        BY <1>7, <1>11 DEF Counted, DoneClosed
    <2>2. k # n
        <3>1. SUFFICES ASSUME k = n PROVE FALSE
            OBVIOUS
        <3>2. p = c /\ i <= j /\ j \in Nat /\ j <= Len(TwDirs[c]) /\ Len(TwDirs[c]) \in Nat
            BY <1>2, <1>3, <2>1, <3>1, SubdirsAre DEF Real
        <3> QED
            BY <1>1, <1>2, <3>2
    <2> HIDE DEF n
    <2> QED
        BY <1>3, <2>1, <2>2, LastOrInner
<1>12. \A e \in SelectedDirs \ Range(twTop) : e.name \in done
    BY <1>7 DEF Counted, DoneClosed
<1>13. ASSUME NEW k \in 1..(n - 1)
       PROVE  /\ twStack[k].dir \in done /\ twStack[k].dir \notin twBad
              /\ \A j \in Real(twStack[k].dir) :
                    j >= twStack[k].i /\ TwDirs[twStack[k].dir][j].name \in done => j = twStack[k].i
    <2>1. twStack[k].pc = "dirs" /\ k \in 1..n
        BY <1>1, <1>3, CalledFor
    <2> QED
        BY <1>9, <2>1
<1>14. \A e \in SelectedDirs \cap Range(twTop) : e.name \in done => e = Head(twTop)
    BY <1>7 DEF Counted, NotYetDone
<1>15. DoneReached(done)' /\ DoneClosed(done)' /\ NotYetDone(done)'
    <2>1. DoneReached(done) /\ Returns(ret)
        BY <1>1, <1>2, <1>7 DEF Counted
    <2> QED
        BY <1>1, <1>10, <1>11, <1>12, <1>13, <1>14, <2>1, ReturnCounts
<1> QED
    BY <1>6, <1>8, <1>15 DEF Counting, Counted

\* A directory that could not be read is counted as one.
LEMMA CountFails ==
    ASSUME twData \in Shared, Counting, ~jbStopped, BadDir
    PROVE  Counting' /\ twData' \in Shared
<1> DEFINE n == Len(twStack)
<1>1. /\ At("bad") /\ UNCHANGED <<twJob, twTop, twBad, twSizes, jbRun>> /\ Returns(-1)
      /\ CallChain /\ CalcList /\ SumsRight /\ Apart /\ twStack # <<>> /\ jbRun = "running" /\ Call0.pc = "bad"
      /\ twData' = [twData EXCEPT !.n.badDirs = @ + 1]
    BY DEF BadDir, At, Counting, Uses
<1>2. PICK c \in Dirs : c = Call0.dir
    BY <1>1, CountTop
<1>3. n \in Nat \ {0} /\ twStack[n] = Call0
    BY <1>1, CountTop
<1>4. PICK done \in SUBSET Dirs : Counted(done)
    BY DEF Counting
<1>5. /\ c \notin done
      /\ c \in StartDirs \/ \E p \in done \ twBad : c \in Subdirs(p)
      /\ \A k \in 1..(n - 1) :
           /\ twStack[k].dir \in done /\ twStack[k].dir \notin twBad /\ twStack[k].dir # c
           /\ \A j \in Real(twStack[k].dir) :
               j >= twStack[k].i /\ TwDirs[twStack[k].dir][j].name \in done \cup {c} => j = twStack[k].i
      /\ \A j \in Real(c) : TwDirs[c][j].name \notin done \cup {c}
      /\ \A e \in SelectedDirs \cap Range(twTop) : e.name \in done \cup {c} => e = Head(twTop)
    BY <1>1, <1>2, <1>4, NewDone DEF Counted
<1>6. twBad \ done = {c}
    BY <1>1, <1>2, <1>4 DEF Counted, NotYetDone
<1>7. PICK ret \in Int : ret = -1
    OBVIOUS
<1>8. Below(Call0.dir) \cap twBad # {}
    BY <1>2, <1>6, BelowIs
<1>9. CallChain' /\ CalcList' /\ SumsRight' /\ Apart'
    BY <1>1, <1>7, <1>8, CountReturns
<1>10. PICK all \in SUBSET Dirs : all = done \cup {c}
    OBVIOUS
<1>11. all \cap twBad = (done \cap twBad) \cup {c} /\ all \ twBad = done \ twBad /\ c \notin done \cap twBad /\ twBad \subseteq all
    BY <1>5, <1>6, <1>10
<1>12. CountersOf(all)' /\ twData' \in Shared
    <2>1. PICK bad \in SUBSET Dirs : bad = done \cap twBad
        OBVIOUS
    <2>2. IsFiniteSet(bad)
        BY SizesAre, FS_Subset
    <2>3. PICK b \in Nat : b = Cardinality(bad)
        BY <2>2, FS_CardinalityType
    <2>4. Cardinality(bad \cup {c}) = b + 1
        BY <1>11, <2>1, <2>2, <2>3, FS_AddElement
    <2>5. PICK a1 \in Nat, a2 \in Nat, d1 \in Nat, d2 \in Nat, s1 \in Nat, s2 \in Nat :
             /\ a1 = Cardinality(Others \ Range(twTop)) /\ a2 = SumOver(FilesIn, done \ twBad)
             /\ d1 = Cardinality(SelectedDirs \ Range(twTop)) /\ d2 = SumOver(FoldersIn, done \ twBad)
             /\ s1 = SumOver(OtherSizes, Others \ Range(twTop)) /\ s2 = SumOver(SizeIn, done \ twBad)
        BY <1>1, CountersAre
    <2>6. twData.n = Counts(b, a1 + a2, d1 + d2, s1 + s2)
        BY <1>4, <2>1, <2>3, <2>5, Zenon DEF Counted, CountersOf
    <2>7. PICK m : m = Counts(b + 1, a1 + a2, d1 + d2, s1 + s2)
        OBVIOUS
    <2>8. m \in Counters
        BY <2>7 DEF Counts, Counters
    <2>9. twData' = [twData EXCEPT !.n = m]
        <3>1. PICK t : t = twData.n
            OBVIOUS
        <3>2. twData.n.badDirs = b
            BY <2>6 DEF Counts
        <3>3. [twData.n EXCEPT !.badDirs = b + 1] = m
            BY <2>6, <2>7 DEF Counts
        <3>4. twData' = [twData EXCEPT !.n = [twData.n EXCEPT !.badDirs = twData.n.badDirs + 1]]
            BY <1>1 DEF Shared
        <3> QED
            BY <3>2, <3>3, <3>4
    <2>10. twData' \in Shared /\ twData'.n = m
        BY <2>8, <2>9, DataPut
    <2>11. SelectedDirs' = SelectedDirs /\ Others' = Others /\ OtherSizes' = OtherSizes /\ Range(twTop)' = Range(twTop)
        BY <1>1 DEF SelectedDirs, Others, OtherSizes
    <2>12. Cardinality(all \cap twBad) = b + 1
        BY <1>11, <2>1, <2>4
    <2>13. CountersOf(all)'
        BY <1>1, <1>11, <2>5, <2>7, <2>10, <2>11, <2>12, Zenon DEF CountersOf
    <2> QED
        BY <2>10, <2>13
<1>13. DoneReached(all)
    BY <1>4, <1>5, <1>10, <1>11 DEF Counted, DoneReached
<1>14. ASSUME NEW p \in all \ twBad, NEW j \in Real(p), TwDirs[p][j].name \notin all
       PROVE  \E k \in 1..(n - 1) : twStack[k].dir = p /\ twStack[k].i <= j
    <2>1. PICK k \in 1..n : twStack[k].dir = p /\ twStack[k].i <= j
        BY <1>4, <1>10, <1>11, <1>14 DEF Counted, DoneClosed
    <2>2. k # n
        BY <1>2, <1>3, <1>6, <1>14, <2>1
    <2> HIDE DEF n
    <2> QED
        BY <1>3, <2>1, <2>2, LastOrInner
<1>15. \A e \in SelectedDirs \ Range(twTop) : e.name \in all
    BY <1>4, <1>10 DEF Counted, DoneClosed
<1>16. ASSUME NEW k \in 1..(n - 1)
       PROVE  /\ twStack[k].dir \in all /\ twStack[k].dir \notin twBad
              /\ \A j \in Real(twStack[k].dir) :
                    j >= twStack[k].i /\ TwDirs[twStack[k].dir][j].name \in all => j = twStack[k].i
    BY <1>5, <1>10
<1>17. \A e \in SelectedDirs \cap Range(twTop) : e.name \in all => e = Head(twTop)
    BY <1>5, <1>10
<1>18. DoneReached(all)' /\ DoneClosed(all)' /\ NotYetDone(all)'
    <2>1. Returns(ret) /\ Call0.dir \in all
        BY <1>1, <1>2, <1>7, <1>10
    <2> QED
        BY <1>1, <1>11, <1>13, <1>14, <1>15, <1>16, <1>17, <2>1, ReturnCounts
<1> QED
    BY <1>9, <1>12, <1>18 DEF Counting, Counted

\* An entry that is no directory, or a link to one.
LEMMA CountSkips ==
    ASSUME Counting, At("dirs"), Call0.i <= Len(Entries), ~Entry.dir \/ Entry.link,
           Becomes([Call0 EXCEPT !.i = @ + 1]),
           UNCHANGED <<twData, twJob, twTop, twRet, twBad, twSizes, jbRun>>
    PROVE  Counting'
<1> DEFINE h == [Call0 EXCEPT !.i = @ + 1]
           n == Len(twStack)
<1>1. /\ CallChain /\ CalcList /\ SumsRight /\ Apart /\ twStack # <<>> /\ jbRun = "running" /\ Call0.pc = "dirs"
    BY DEF At, Counting
<1>2. PICK d \in Dirs, i \in Nat \ {0} : d = Call0.dir /\ i = Call0.i
    BY <1>1, CountTop
<1>3. h \in CountFrames /\ h.pc = "dirs" /\ h.i = i + 1 /\ h.dir = d /\ h.sum = Call0.sum
    <2>1. PICK z \in Int : z = 0
        OBVIOUS
    <2>2. PICK pc \in {"signal", "read", "add", "told", "bad", "dirs"} : pc = "dirs"
        OBVIOUS
    <2> QED
        BY <1>1, <1>2, <2>1, <2>2, CountFields
<1> HIDE DEF h
<1>4. TopBecomes(h)
    BY <1>1, <1>2, <1>3 DEF TopBecomes, h
<1>5. i \in DOMAIN TwDirs[d] /\ i \notin Real(d)
    BY <1>2, SubdirsAre DEF Entries, Entry, Real
<1>6. Seen(d, i + 1) = Seen(d, i)
    BY <1>5, SeenNext
<1>7. n \in Nat \ {0} /\ n \in 1..n /\ twStack[n] = Call0
    <2>1. n \in Nat \ {0} /\ twStack[n] = Call0
        BY <1>1, CountTop
    <2> HIDE DEF n
    <2> QED
        BY <2>1
<1>8. Seen(d, i) \cap twBad = {} => h.sum = SumOver(SizeIn, Seen(d, i + 1))
    <2>1. twStack[n].pc = "dirs" /\ Seen(twStack[n].dir, twStack[n].i) \cap twBad = {} =>
            twStack[n].sum = SumOver(SizeIn, Seen(twStack[n].dir, twStack[n].i))
        BY <1>1, <1>7 DEF SumsRight
    <2> QED
        BY <1>1, <1>2, <1>3, <1>6, <1>7, <2>1
<1>9. \A j \in Real(Call0.dir) : j >= Call0.i => j >= h.i
    <2>1. \A j \in Real(d) : j \in Nat /\ j # i
        BY <1>5, SubdirsAre DEF Real
    <2> QED
        BY <1>2, <1>3, <2>1
<1>10. h.i >= Call0.i
    BY <1>2, <1>3
<1> QED
    BY <1>1, <1>3, <1>4, <1>6, <1>8, <1>9, <1>10, CountMoves

\* What is in a directory that is not done is not done.
LEMMA InnerNotDone ==
    ASSUME CalcList, NEW done \in SUBSET Dirs, DoneReached(done), NEW c \in Dirs, c \notin done,
           NEW p \in Dirs, c \in Subdirs(p)
    PROVE  \A j \in Real(c) : TwDirs[c][j].name \notin done
<1> SUFFICES ASSUME NEW j \in Real(c), TwDirs[c][j].name \in done PROVE FALSE
    OBVIOUS
<1>1. PICK x \in done : x = TwDirs[c][j].name
    OBVIOUS
<1>2. x \in Subdirs(c)
    BY <1>1, SubdirsAre
<1>3. x \notin StartDirs
    <2>1. CASE twJob.list = <<>>
        BY <1>2, <2>1, SelectedAre DEF StartDirs
    <2>2. CASE twJob.list # <<>>
        <3> SUFFICES ASSUME x \in StartDirs PROVE FALSE
            OBVIOUS
        <3>1. x \in Subdirs(TwRoot) /\ TwRoot \in Dirs
            BY <2>2, SelectedAre DEF StartDirs
        <3>2. c = TwRoot
            BY <1>2, <3>1, OneParent
        <3> QED
            BY <3>2, SelectedAre
    <2> QED
        BY <2>1, <2>2
<1>4. PICK q \in done \ twBad : x \in Subdirs(q)
    BY <1>3 DEF DoneReached
<1>5. q = c
    BY <1>2, <1>4, OneParent
<1> QED
    BY <1>4, <1>5

\* A call for the directory at which the innermost one is.
LEMMA CountDescends ==
    ASSUME Counting, At("dirs"), Call0.i <= Len(Entries), Entry.dir, ~Entry.link,
           twStack' = Append(twStack, Call(Entry.name)),
           UNCHANGED <<twData, twJob, twTop, twRet, twBad, twSizes, jbRun>>
    PROVE  Counting'
<1> DEFINE n == Len(twStack)
<1>1. /\ CallChain /\ CalcList /\ SumsRight /\ Apart /\ twStack # <<>> /\ jbRun = "running" /\ Call0.pc = "dirs"
    BY DEF At, Counting
<1>2. PICK d \in Dirs, i \in Nat \ {0} : d = Call0.dir /\ i = Call0.i
    BY <1>1, CountTop
<1>3. i \in Real(d)
    BY <1>2, SubdirsAre DEF Entries, Entry, Real
<1>4. PICK c \in Dirs : c = TwDirs[d][i].name /\ c \in Subdirs(d)
    BY <1>3, SubdirsAre
<1>5. PICK f : f = Call(c)
    OBVIOUS
<1>6. f \in CountFrames /\ f.dir = c /\ f.pc = "enter" /\ f.i = 1
    BY <1>5 DEF Call, CountFrames
<1>7. twStack' = Append(twStack, f) /\ twStack \in Seq(CountFrames)
    BY <1>1, <1>2, <1>4, <1>5 DEF Entry, Entries, CallChain
<1>8. /\ n \in Nat \ {0} /\ twStack[n] = Call0 /\ twStack' \in Seq(CountFrames) /\ Len(twStack') = n + 1
      /\ twStack'[n + 1] = f /\ twStack' # <<>> /\ (\A k \in 1..n : twStack'[k] = twStack[k])
    <2>1. n \in Nat \ {0} /\ twStack[n] = Call0
        BY <1>1, CountTop
    <2> HIDE DEF CountFrames
    <2> QED
        BY <1>6, <1>7, <2>1
<1>9. Call0' = f
    BY <1>8 DEF Call0, Last
<1>10. PICK done \in SUBSET Dirs : Counted(done)
    BY DEF Counting
<1>11. twRet = <<>> /\ twStack[1].dir = IF twJob.list = <<>> THEN TwRoot ELSE Head(twTop).name
    BY <1>1 DEF CallChain
<1>12. ASSUME NEW k \in 1..n
       PROVE  /\ twStack[k].dir \in done <=> twStack[k].pc \in {"told", "dirs"}
              /\ twStack[k].pc \in {"told", "dirs"} => twStack[k].dir \notin twBad
              /\ \A j \in Real(twStack[k].dir) :
                    j >= twStack[k].i /\ TwDirs[twStack[k].dir][j].name \in done => k < n /\ j = twStack[k].i
    BY <1>10 DEF Counted, NotYetDone
<1>13. ASSUME NEW k \in 1..(n - 1)
       PROVE  /\ twStack[k].pc = "dirs" /\ twStack[k].i \in Real(twStack[k].dir)
              /\ TwDirs[twStack[k].dir][twStack[k].i].name = twStack[k + 1].dir
    BY <1>1, CalledFor
<1>14. ASSUME NEW k \in 1..n, NEW l \in 1..n, twStack[k].dir = twStack[l].dir PROVE k = l
    BY <1>1, <1>14 DEF Apart
<1>15. SelectedDirs' = SelectedDirs /\ StartDirs' = StartDirs /\ Range(twTop)' = Range(twTop)
    BY DEF SelectedDirs, StartDirs
<1>16. SumsRight
    BY <1>1
<1>17. ASSUME NEW k \in 1..n, twStack[k].pc = "dirs", Seen(twStack[k].dir, twStack[k].i) \cap twBad = {}
       PROVE  twStack[k].sum = SumOver(SizeIn, Seen(twStack[k].dir, twStack[k].i))
    BY <1>16, <1>17 DEF SumsRight
<1>18. ASSUME NEW p \in done \ twBad, NEW j \in Real(p), TwDirs[p][j].name \notin done
       PROVE  \E k \in 1..n : twStack[k].dir = p /\ twStack[k].i <= j
    BY <1>10, <1>18 DEF Counted, DoneClosed
<1> HIDE DEF n
<1>19. /\ \A k \in 1..(n + 1) : k = n + 1 \/ k \in 1..n
       /\ \A k \in 1..n : k \in 1..(n + 1) /\ k < n + 1 /\ (k = n \/ k \in 1..(n - 1))
       /\ n \in 1..n /\ 1 \in 1..n /\ \A k \in 1..(n - 1) : k + 1 \in 1..n /\ k \in 1..n
    BY <1>8
<1>20. c \notin done
    <2>1. i >= i
        OBVIOUS
    <2> QED
        BY <1>2, <1>3, <1>4, <1>8, <1>12, <1>19, <2>1
<1>21. \A k \in 1..n : twStack[k].dir # c
    <2>1. \A k \in 1..n : twStack[k].pc = "dirs"
        BY <1>1, <1>8, <1>13, <1>19
    <2> QED
        BY <1>12, <1>20, <2>1
<1>22. CallChain'
    <2>1. ASSUME NEW k \in 1..n
          PROVE  /\ twStack'[k].pc = "dirs" /\ twStack'[k].i \in Real(twStack'[k].dir)
                 /\ TwDirs[twStack'[k].dir][twStack'[k].i].name = twStack'[k + 1].dir
        <3>1. CASE k = n
            BY <1>1, <1>2, <1>3, <1>4, <1>6, <1>8, <3>1
        <3>2. CASE k \in 1..(n - 1)
            BY <1>8, <1>13, <1>19, <3>2
        <3> QED
            BY <1>19, <3>1, <3>2
    <2>2. twStack'[1].dir = IF twJob.list = <<>> THEN TwRoot ELSE Head(twTop).name
        BY <1>8, <1>11, <1>19
    <2>3. (n + 1) - 1 = n
        BY <1>8
    <2> QED
        BY <1>6, <1>8, <1>9, <1>11, <2>1, <2>2, <2>3 DEF CallChain, EntryAt
<1>23. CalcList'
    <2>1. Current /\ Current'
        BY <1>1, <1>8 DEF Current
    <2> QED
        BY <1>1, <1>15, <2>1 DEF CalcList
<1>24. SumsRight'
    <2>1. ASSUME NEW k \in 1..(n + 1), twStack'[k].pc = "dirs", Seen(twStack'[k].dir, twStack'[k].i) \cap twBad = {}
          PROVE  twStack'[k].sum = SumOver(SizeIn, Seen(twStack'[k].dir, twStack'[k].i))
        BY <1>6, <1>8, <1>17, <1>19, <2>1
    <2> QED
        BY <1>8, <1>11, <1>15, <1>16, <2>1 DEF SumsRight
<1>25. Apart'
    BY <1>6, <1>8, <1>14, <1>19, <1>21 DEF Apart
<1>26. CountersOf(done)'
    BY <1>10, CountersStay DEF Counted
<1>27. DoneReached(done)'
    BY <1>10, <1>15 DEF Counted, DoneReached
<1>28. DoneClosed(done)'
    <2>1. ASSUME NEW p \in done \ twBad, NEW j \in Real(p), TwDirs[p][j].name \notin done
          PROVE  \E k \in 1..(n + 1) : twStack'[k].dir = p /\ twStack'[k].i <= j
        BY <1>8, <1>18, <1>19, <2>1
    <2>2. \A e \in SelectedDirs \ Range(twTop) : e.name \in done
        BY <1>10 DEF Counted, DoneClosed
    <2> QED
        BY <1>8, <1>11, <1>15, <2>1, <2>2 DEF DoneClosed
<1>29. NotYetDone(done)'
    <2>1. ASSUME NEW k \in 1..(n + 1)
          PROVE  /\ twStack'[k].dir \in done <=> twStack'[k].pc \in {"told", "dirs"}
                 /\ twStack'[k].pc \in {"told", "dirs"} => twStack'[k].dir \notin twBad
                 /\ \A j \in Real(twStack'[k].dir) :
                        j >= twStack'[k].i /\ TwDirs[twStack'[k].dir][j].name \in done =>
                            k < n + 1 /\ j = twStack'[k].i
        <3>1. CASE k = n + 1
            <4>1. \A j \in Real(c) : TwDirs[c][j].name \notin done
                BY <1>1, <1>4, <1>10, <1>20, InnerNotDone DEF Counted
            <4> QED
                BY <1>6, <1>8, <1>20, <3>1, <4>1
        <3>2. CASE k \in 1..n
            BY <1>8, <1>12, <1>19, <3>2
        <3> QED
            BY <1>19, <3>1, <3>2
    <2>2. \A e \in SelectedDirs \cap Range(twTop) : e.name \in done => e = Head(twTop)
        BY <1>10 DEF Counted, NotYetDone
    <2>3. twBad \ done = {}
        BY <1>1, <1>10 DEF Counted, NotYetDone
    <2> QED
        BY <1>6, <1>8, <1>9, <1>15, <2>1, <2>2, <2>3 DEF NotYetDone, Current
<1> QED
    BY <1>22, <1>23, <1>24, <1>25, <1>26, <1>27, <1>28, <1>29 DEF Counting, Counted

\* Calc takes the first of the selected entries that are left.
LEMMA ListGoesOn ==
    ASSUME CalcList, twTop # <<>>
    PROVE  /\ Head(twTop) \in Range(twJob.list) /\ Head(twTop) \in Range(twTop) /\ twJob.list # <<>>
           /\ Tail(twTop) \in Seq(Range(twJob.list)) /\ Range(Tail(twTop)) = Range(twTop) \ {Head(twTop)}
           /\ \A i, j \in DOMAIN Tail(twTop) : Tail(twTop)[i] = Tail(twTop)[j] => i = j
<1> DEFINE n == Len(twTop)
           rest == Tail(twTop)
<1>1. /\ twTop \in Seq(Range(twJob.list)) /\ n \in Nat \ {0} /\ DOMAIN twTop = 1..n /\ Head(twTop) = twTop[1]
      /\ rest \in Seq(Range(twJob.list)) /\ Len(rest) = n - 1 /\ DOMAIN rest = 1..(n - 1)
      /\ \A i \in 1..(n - 1) : rest[i] = twTop[i + 1]
    BY DEF CalcList
<1>2. \A i, j \in DOMAIN twTop : twTop[i] = twTop[j] => i = j
    BY DEF CalcList
<1> HIDE DEF n, rest
<1>3. /\ \A i \in 1..(n - 1) : i + 1 \in 1..n /\ i + 1 # 1 /\ i \in Nat
      /\ \A i \in 1..n : i = 1 \/ (i - 1 \in 1..(n - 1) /\ (i - 1) + 1 = i)
      /\ 1 \in 1..n
    BY <1>1
<1>4. Head(twTop) \in Range(twJob.list) /\ Head(twTop) \in Range(twTop) /\ twJob.list # <<>>
    <2>1. twTop[1] \in Range(twJob.list) /\ twTop[1] \in Range(twTop)
        BY <1>1, <1>3 DEF Range
    <2>2. Range(<<>>) = {}
        BY DEF Range
    <2> QED
        BY <1>1, <2>1, <2>2
<1>5. ASSUME NEW i \in 1..(n - 1), NEW j \in 1..(n - 1), rest[i] = rest[j] PROVE i = j
    <2>1. i + 1 = j + 1
        BY <1>1, <1>2, <1>3, <1>5
    <2> QED
        BY <1>3, <2>1
<1>6. ASSUME NEW x \in Range(rest) PROVE x \in Range(twTop) \ {Head(twTop)}
    <2>1. PICK i \in 1..(n - 1) : x = twTop[i + 1]
        BY <1>1 DEF Range
    <2>2. i + 1 \in 1..n /\ i + 1 # 1
        BY <1>3
    <2> QED
        BY <1>1, <1>2, <1>3, <2>1, <2>2 DEF Range
<1>7. ASSUME NEW x \in Range(twTop), x # Head(twTop) PROVE x \in Range(rest)
    <2>1. PICK i \in 1..n : x = twTop[i]
        BY <1>1 DEF Range
    <2>2. PICK j \in 1..(n - 1) : j + 1 = i
        BY <1>1, <1>3, <1>7, <2>1
    <2>3. rest[j] = x
        BY <1>1, <2>1, <2>2
    <2> QED
        BY <1>1, <2>3 DEF Range
<1> QED
    BY <1>1, <1>4, <1>5, <1>6, <1>7 DEF rest

\* Calc calls for a directory.
LEMMA CountCalls ==
    ASSUME Counting, InCalc, twRet = <<>>, Head(twTop) \in SelectedDirs,
           twStack' = <<Call(Head(twTop).name)>>,
           UNCHANGED <<twData, twJob, twTop, twRet, twBad, twSizes, jbRun>>
    PROVE  Counting'
<1>1. /\ CallChain /\ CalcList /\ SumsRight /\ Apart /\ twStack = <<>> /\ twTop # <<>> /\ jbRun = "running"
    BY DEF InCalc, Counting
<1>2. twJob.list # <<>> /\ Head(twTop) \in Range(twTop)
    BY <1>1, ListGoesOn
<1>3. PICK c \in Dirs : c = Head(twTop).name /\ c \in Subdirs(TwRoot)
    BY <1>1, SelectedAre
<1>4. PICK f : f = Call(c)
    OBVIOUS
<1>5. f \in CountFrames /\ f.dir = c /\ f.pc = "enter" /\ f.i = 1
    BY <1>4 DEF Call, CountFrames
<1>6. /\ twStack' \in Seq(CountFrames) /\ Len(twStack') = 1 /\ twStack'[1] = f /\ twStack' # <<>>
    <2> HIDE DEF CountFrames
    <2> QED
        BY <1>3, <1>4, <1>5
<1>7. Call0' = f
    BY <1>6 DEF Call0, Last
<1>8. Len(twStack) = 0 /\ (\A k \in 1..0 : FALSE) /\ (\A k \in 1..(1 - 1) : FALSE) /\ \A k \in 1..1 : k = 1
    BY <1>1
<1>9. PICK done \in SUBSET Dirs : Counted(done)
    BY DEF Counting
<1>10. ASSUME NEW e \in SelectedDirs \cap Range(twTop) PROVE e.name \notin done
    <2>1. ~Current
        BY <1>1 DEF Current
    <2> QED
        BY <1>9, <2>1 DEF Counted, NotYetDone
<1>11. c \notin done
    BY <1>2, <1>3, <1>10
<1>12. SelectedDirs' = SelectedDirs /\ StartDirs' = StartDirs /\ Range(twTop)' = Range(twTop)
    BY DEF SelectedDirs, StartDirs
<1>13. CallChain'
    BY <1>2, <1>3, <1>5, <1>6, <1>7, <1>8 DEF CallChain
<1>14. CalcList'
    <2>1. Current'
        BY <1>6 DEF Current
    <2> QED
        BY <1>1, <1>2, <1>12, <2>1 DEF CalcList
<1>15. SumsRight'
    <2>1. \A k \in 1..1 : twStack'[k].pc # "dirs"
        BY <1>5, <1>6, <1>8
    <2> QED
        BY <1>1, <1>6, <1>12, <2>1 DEF SumsRight
<1>16. Apart'
    BY <1>6, <1>8 DEF Apart
<1>17. CountersOf(done)'
    BY <1>9, CountersStay DEF Counted
<1>18. DoneReached(done)'
    BY <1>9, <1>12 DEF Counted, DoneReached
<1>19. DoneClosed(done)'
    <2>1. \A p \in done \ twBad : \A j \in Real(p) : TwDirs[p][j].name \in done
        BY <1>8, <1>9 DEF Counted, DoneClosed
    <2>2. \A e \in SelectedDirs \ Range(twTop) : e.name \in done
        BY <1>9 DEF Counted, DoneClosed
    <2> QED
        BY <1>12, <2>1, <2>2 DEF DoneClosed
<1>20. NotYetDone(done)'
    <2>1. \A j \in Real(c) : TwDirs[c][j].name \notin done
        BY <1>1, <1>3, <1>9, <1>11, InnerNotDone, SelectedAre DEF Counted
    <2>2. twBad \ done = {}
        BY <1>1, <1>9 DEF Counted, NotYetDone
    <2>3. ASSUME NEW k \in 1..1
          PROVE  /\ twStack'[k].dir \in done <=> twStack'[k].pc \in {"told", "dirs"}
                 /\ twStack'[k].pc \in {"told", "dirs"} => twStack'[k].dir \notin twBad
                 /\ \A j \in Real(twStack'[k].dir) :
                        j >= twStack'[k].i /\ TwDirs[twStack'[k].dir][j].name \in done =>
                            k < 1 /\ j = twStack'[k].i
        BY <1>5, <1>6, <1>8, <1>11, <2>1
    <2> QED
        BY <1>5, <1>6, <1>7, <1>10, <1>12, <2>2, <2>3 DEF NotYetDone
<1> QED
    BY <1>13, <1>14, <1>15, <1>16, <1>17, <1>18, <1>19, <1>20 DEF Counting, Counted

\* One more in a set that has grown by one.
LEMMA OneMore ==
    ASSUME NEW S, IsFiniteSet(S), NEW a \in SUBSET S, NEW x \in S, x \notin a, NEW b, b = a \cup {x}
    PROVE  Cardinality(b) = Cardinality(a) + 1 /\ Cardinality(a) \in Nat
BY FS_Subset, FS_AddElement, FS_CardinalityType

\* Calc counts an entry that is no directory, or a link.
LEMMA CountEntry ==
    ASSUME twData \in Shared, Counting, InCalc, twRet = <<>>, Head(twTop) \notin SelectedDirs,
           twData' = [twData EXCEPT !.n.files = @ + 1, !.n.size = @ + Head(twTop).size],
           twTop' = Tail(twTop), UNCHANGED <<twStack, twJob, twRet, twBad, twSizes, jbRun>>
    PROVE  Counting' /\ twData' \in Shared
<1>1. /\ CallChain /\ CalcList /\ SumsRight /\ Apart /\ twStack = <<>> /\ twTop # <<>> /\ jbRun = "running"
    BY DEF InCalc, Counting
<1>2. PICK e : e = Head(twTop)
    OBVIOUS
<1>3. /\ e \in Range(twJob.list) /\ e \in Range(twTop) /\ twJob.list # <<>>
      /\ twTop' \in Seq(Range(twJob.list)) /\ Range(twTop') = Range(twTop) \ {e}
      /\ \A i, j \in DOMAIN twTop' : twTop'[i] = twTop'[j] => i = j
    BY <1>1, <1>2, ListGoesOn
<1>4. PICK taken : taken = Range(twTop')
    OBVIOUS
<1>5. /\ e \in Others /\ e \notin Others \ Range(twTop) /\ Others \ taken = (Others \ Range(twTop)) \cup {e}
      /\ SelectedDirs \ taken = SelectedDirs \ Range(twTop) /\ SelectedDirs \cap taken = SelectedDirs \cap Range(twTop)
    BY <1>2, <1>3, <1>4 DEF Others
<1>6. SelectedDirs' = SelectedDirs /\ StartDirs' = StartDirs /\ Others' = Others /\ OtherSizes' = OtherSizes
      /\ Range(twTop)' = taken
    BY <1>4 DEF SelectedDirs, StartDirs, Others, OtherSizes
<1>7. ~Current /\ ~Current' /\ Len(twStack) = 0 /\ \A k \in 1..0 : FALSE
    BY <1>1 DEF Current
<1>8. CallChain' /\ Apart'
    BY <1>1 DEF CallChain, Apart
<1>9. CalcList'
    BY <1>1, <1>3, <1>6, <1>7 DEF CalcList
<1>10. SumsRight'
    BY <1>1, <1>5, <1>6, <1>7 DEF SumsRight
<1>11. PICK done \in SUBSET Dirs : Counted(done)
    BY DEF Counting
<1>12. DoneReached(done)'
    BY <1>6, <1>11 DEF Counted, DoneReached
<1>13. DoneClosed(done)'
    <2>1. \A p \in done \ twBad : \A j \in Real(p) : TwDirs[p][j].name \in done
        BY <1>7, <1>11 DEF Counted, DoneClosed
    <2>2. \A x \in SelectedDirs \ Range(twTop) : x.name \in done
        BY <1>11 DEF Counted, DoneClosed
    <2> QED
        BY <1>5, <1>6, <2>1, <2>2 DEF DoneClosed
<1>14. NotYetDone(done)'
    <2>1. \A x \in SelectedDirs \cap Range(twTop) : x.name \notin done
        BY <1>7, <1>11 DEF Counted, NotYetDone
    <2>2. twBad \ done = {}
        BY <1>1, <1>11 DEF Counted, NotYetDone
    <2> QED
        BY <1>1, <1>5, <1>6, <1>7, <2>1, <2>2 DEF NotYetDone
<1>15. CountersOf(done)' /\ twData' \in Shared
    <2>1. IsFiniteSet(Others) /\ \A x \in Others : OtherSizes[x] \in Nat /\ OtherSizes[x] = x.size
        BY <1>1, SelectedAre
    <2>2. PICK before \in SUBSET Others : before = Others \ Range(twTop)
        OBVIOUS
    <2>3. Cardinality(Others \ taken) = Cardinality(before) + 1
        BY <1>5, <2>1, <2>2, OneMore
    <2>4. SumOver(OtherSizes, Others \ taken) = SumOver(OtherSizes, before) + e.size /\ e.size \in Nat
        <3>1. SumOver(OtherSizes, before \cup {e}) = SumOver(OtherSizes, before) + OtherSizes[e]
            <4>1. \A x \in Others : OtherSizes[x] \in Nat
                BY <2>1
            <4>2. e \in Others /\ e \notin before /\ IsFiniteSet(Others)
                BY <1>5, <2>1, <2>2
            <4> QED
                BY <4>1, <4>2, SumGrows
        <3> QED
            BY <1>5, <2>1, <2>2, <3>1
    <2>5. PICK b \in Nat, a1 \in Nat, a2 \in Nat, d1 \in Nat, d2 \in Nat, s1 \in Nat, s2 \in Nat :
             /\ b = Cardinality(done \cap twBad)
             /\ a1 = Cardinality(Others \ Range(twTop)) /\ a2 = SumOver(FilesIn, done \ twBad)
             /\ d1 = Cardinality(SelectedDirs \ Range(twTop)) /\ d2 = SumOver(FoldersIn, done \ twBad)
             /\ s1 = SumOver(OtherSizes, Others \ Range(twTop)) /\ s2 = SumOver(SizeIn, done \ twBad)
        BY <1>1, CountersAre
    <2>6. twData.n = Counts(b, a1 + a2, d1 + d2, s1 + s2)
        BY <1>11, <2>5, Zenon DEF Counted, CountersOf
    <2>7. PICK z \in Nat : z = e.size
        BY <2>4
    <2>8. PICK m : m = Counts(b, (a1 + 1) + a2, d1 + d2, (s1 + z) + s2)
        OBVIOUS
    <2>9. m \in Counters
        BY <2>8 DEF Counts, Counters
    <2>10. twData' = [twData EXCEPT !.n = m]
        <3>1. PICK p, q : p = (a1 + a2) + 1 /\ q = (s1 + s2) + z
            OBVIOUS
        <3>2. twData.n.files = a1 + a2 /\ twData.n.size = s1 + s2
            BY <2>6 DEF Counts
        <3>3. [[twData.n EXCEPT !.files = p] EXCEPT !.size = q] = m
            <4>1. p = (a1 + 1) + a2 /\ q = (s1 + z) + s2
                BY <3>1
            <4>2. PICK x, y : x = a1 + a2 /\ y = s1 + s2
                OBVIOUS
            <4>3. [[Counts(b, x, d1 + d2, y) EXCEPT !.files = p] EXCEPT !.size = q] = Counts(b, p, d1 + d2, q)
                <5>1. PICK d : d = d1 + d2
                    OBVIOUS
                <5>2. [Counts(b, x, d, y) EXCEPT !.files = p] = Counts(b, p, d, y)
                    BY DEF Counts
                <5>3. [Counts(b, p, d, y) EXCEPT !.size = q] = Counts(b, p, d, q)
                    BY DEF Counts
                <5> QED
                    BY <5>1, <5>2, <5>3, Zenon
            <4> QED
                BY <2>6, <2>8, <4>1, <4>2, <4>3, Zenon
        <3>4. twData' = [twData EXCEPT !.n = [[twData.n EXCEPT !.files = p] EXCEPT !.size = q]]
            <4>1. [twData EXCEPT !.n.files = @ + 1, !.n.size = @ + z]
                  = [twData EXCEPT !.n = [[twData.n EXCEPT !.files = twData.n.files + 1] EXCEPT !.size = twData.n.size + z]]
                BY DEF Shared, Counters
            <4>2. twData.n.files + 1 = p /\ twData.n.size + z = q
                BY <3>1, <3>2
            <4> QED
                BY <1>2, <2>7, <4>1, <4>2, Zenon
        <3> QED
            BY <3>3, <3>4, Zenon
    <2>11. twData' \in Shared /\ twData'.n = m
        BY <2>9, <2>10, DataPut
    <2>12. Cardinality(Others \ taken) = a1 + 1 /\ SumOver(OtherSizes, Others \ taken) = s1 + z
        BY <2>2, <2>3, <2>4, <2>5, <2>7
    <2>13. CountersOf(done)'
        BY <1>5, <1>6, <2>5, <2>8, <2>11, <2>12, Zenon DEF CountersOf
    <2> QED
        BY <2>11, <2>13
<1> QED
    BY <1>8, <1>9, <1>10, <1>12, <1>13, <1>14, <1>15 DEF Counting, Counted

\* The panel is given the size of a directory, which is counted itself.
LEMMA CountSets ==
    ASSUME twData \in Shared, Counting, CalcCounted
    PROVE  Counting' /\ twData' \in Shared
<1>1. /\ CallChain /\ CalcList /\ SumsRight /\ Apart /\ twStack = <<>> /\ twTop # <<>> /\ jbRun = "running"
      /\ twRet # <<>> /\ twTop' = Tail(twTop) /\ twRet' = <<>> /\ UNCHANGED <<twStack, twJob, twBad, jbRun>>
      /\ twData' = [twData EXCEPT !.n.folders = @ + 1]
    BY DEF CalcCounted, InCalc, Counting, Uses
<1>2. PICK e \in SelectedDirs : e = Head(twTop)
    BY <1>1, ListGoesOn DEF CalcList, Current
<1>3. PICK r \in Int : twRet = <<r>>
    BY <1>1 DEF CalcList
<1>4. /\ e \in Range(twJob.list) /\ e \in Range(twTop) /\ twJob.list # <<>>
      /\ twTop' \in Seq(Range(twJob.list)) /\ Range(twTop') = Range(twTop) \ {e}
      /\ \A i, j \in DOMAIN twTop' : twTop'[i] = twTop'[j] => i = j
    BY <1>1, <1>2, ListGoesOn
<1>5. PICK taken : taken = Range(twTop')
    OBVIOUS
<1>6. /\ e \notin SelectedDirs \ Range(twTop) /\ SelectedDirs \ taken = (SelectedDirs \ Range(twTop)) \cup {e}
      /\ Others \ taken = Others \ Range(twTop) /\ SelectedDirs \cap taken = (SelectedDirs \cap Range(twTop)) \ {e}
    BY <1>4, <1>5 DEF Others
<1>7. SelectedDirs' = SelectedDirs /\ StartDirs' = StartDirs /\ Others' = Others /\ OtherSizes' = OtherSizes
      /\ Range(twTop)' = taken
    BY <1>1, <1>5 DEF SelectedDirs, StartDirs, Others, OtherSizes
<1>8. Current /\ ~Current' /\ Len(twStack) = 0 /\ \A k \in 1..0 : FALSE
    BY <1>1 DEF Current
<1>9. CallChain' /\ Apart'
    BY <1>1 DEF CallChain, Apart
<1>10. CalcList'
    BY <1>1, <1>4, <1>7, <1>8 DEF CalcList
<1>11. SumsRight'
    <2>1. PICK c \in Dirs : c = e.name
        BY <1>1, SelectedAre
    <2>2. twSizes' = IF r >= 0 THEN [d \in DOMAIN twSizes \cup {c} |-> IF d = c THEN r ELSE twSizes[d]] ELSE twSizes
        BY <1>2, <1>3, <2>1 DEF CalcCounted
    <2>3. ASSUME Below(c) \cap twBad = {} PROVE c \in DOMAIN twSizes' /\ twSizes'[c] = SumOver(SizeIn, Below(c))
        <3>1. r = SumOver(SizeIn, Below(c))
            BY <1>1, <1>2, <1>3, <1>4, <2>1, <2>3 DEF SumsRight
        <3>2. Below(c) \in SUBSET Dirs
            BY BelowIs
        <3>3. IsFiniteSet(Dirs) /\ \A d \in Dirs : SizeIn[d] \in Nat
            BY SizesAre
        <3>4. SumOver(SizeIn, Below(c)) \in Nat
            BY <3>2, <3>3, SumRules
        <3>5. r >= 0
            BY <3>1, <3>4
        <3> QED
            BY <2>2, <3>1, <3>5
    <2>4. ASSUME NEW x \in SelectedDirs \ taken, Below(x.name) \cap twBad = {}
          PROVE  x.name \in DOMAIN twSizes' /\ twSizes'[x.name] = SumOver(SizeIn, Below(x.name))
        <3>1. CASE x = e
            BY <2>1, <2>3, <2>4, <3>1
        <3>2. CASE x # e
            <4>1. x \in SelectedDirs \ Range(twTop)
                BY <1>6, <3>2
            <4>2. x.name # c
                BY <1>1, <2>1, <3>2, SelectedAre
            <4>3. x.name \in DOMAIN twSizes /\ twSizes[x.name] = SumOver(SizeIn, Below(x.name))
                BY <1>1, <2>4, <4>1 DEF SumsRight
            <4> QED
                BY <2>2, <4>2, <4>3
        <3> QED
            BY <3>1, <3>2
    <2> QED
        BY <1>1, <1>7, <1>8, <2>4 DEF SumsRight
<1>12. PICK done \in SUBSET Dirs : Counted(done)
    BY DEF Counting
<1>13. DoneReached(done)'
    BY <1>1, <1>7, <1>12 DEF Counted, DoneReached
<1>14. DoneClosed(done)'
    <2>1. \A p \in done \ twBad : \A j \in Real(p) : TwDirs[p][j].name \in done
        BY <1>8, <1>12 DEF Counted, DoneClosed
    <2>2. \A x \in SelectedDirs \ Range(twTop) : x.name \in done
        BY <1>12 DEF Counted, DoneClosed
    <2>3. e.name \in done
        BY <1>1, <1>2, <1>4, <1>12 DEF Counted, DoneClosed
    <2> QED
        BY <1>1, <1>6, <1>7, <2>1, <2>2, <2>3 DEF DoneClosed
<1>15. NotYetDone(done)'
    <2>1. \A x \in SelectedDirs \cap Range(twTop) : x.name \in done => x = e
        BY <1>2, <1>12 DEF Counted, NotYetDone
    <2>2. twBad \ done = {}
        BY <1>1, <1>12 DEF Counted, NotYetDone
    <2>3. \A x \in SelectedDirs \cap taken : x.name \notin done
        BY <1>6, <2>1
    <2> QED
        BY <1>1, <1>7, <1>8, <2>2, <2>3 DEF NotYetDone
<1>16. CountersOf(done)' /\ twData' \in Shared
    <2>1. IsFiniteSet(SelectedDirs)
        BY <1>1, SelectedAre
    <2>2. PICK before \in SUBSET SelectedDirs : before = SelectedDirs \ Range(twTop)
        OBVIOUS
    <2>3. Cardinality(SelectedDirs \ taken) = Cardinality(before) + 1
        BY <1>6, <2>1, <2>2, OneMore
    <2>4. PICK b \in Nat, a1 \in Nat, a2 \in Nat, d1 \in Nat, d2 \in Nat, s1 \in Nat, s2 \in Nat :
             /\ b = Cardinality(done \cap twBad)
             /\ a1 = Cardinality(Others \ Range(twTop)) /\ a2 = SumOver(FilesIn, done \ twBad)
             /\ d1 = Cardinality(SelectedDirs \ Range(twTop)) /\ d2 = SumOver(FoldersIn, done \ twBad)
             /\ s1 = SumOver(OtherSizes, Others \ Range(twTop)) /\ s2 = SumOver(SizeIn, done \ twBad)
        BY <1>1, CountersAre
    <2>5. twData.n = Counts(b, a1 + a2, d1 + d2, s1 + s2)
        BY <1>12, <2>4, Zenon DEF Counted, CountersOf
    <2>6. PICK m : m = Counts(b, a1 + a2, (d1 + 1) + d2, s1 + s2)
        OBVIOUS
    <2>7. m \in Counters
        BY <2>6 DEF Counts, Counters
    <2>8. twData' = [twData EXCEPT !.n = m]
        <3>1. twData.n.folders = d1 + d2
            BY <2>5 DEF Counts
        <3>2. (d1 + d2) + 1 = (d1 + 1) + d2
            OBVIOUS
        <3>3. [twData.n EXCEPT !.folders = (d1 + 1) + d2] = m
            BY <2>5, <2>6 DEF Counts
        <3>4. twData' = [twData EXCEPT !.n = [twData.n EXCEPT !.folders = twData.n.folders + 1]]
            BY <1>1 DEF Shared
        <3>5. twData.n.folders + 1 = (d1 + 1) + d2
            BY <3>1, <3>2
        <3> QED
            BY <3>3, <3>4, <3>5, Zenon
    <2>9. twData' \in Shared /\ twData'.n = m
        BY <2>7, <2>8, DataPut
    <2>10. Cardinality(SelectedDirs \ taken) = d1 + 1
        BY <2>2, <2>3, <2>4
    <2>11. CountersOf(done)'
        BY <1>1, <1>6, <1>7, <2>4, <2>6, <2>9, <2>10, Zenon DEF CountersOf
    <2> QED
        BY <2>9, <2>11
<1> QED
    BY <1>9, <1>10, <1>11, <1>13, <1>14, <1>15, <1>16 DEF Counting, Counted

\* A step that leaves the count alone.
LEMMA CountAside ==
    ASSUME Counting, UNCHANGED <<twJob, twStack, twTop, twRet, twSizes, twBad>>, twData'.n = twData.n,
           jbRun' = jbRun \/ (twStack = <<>> /\ twTop = <<>>)
    PROVE  Counting'
<1>1. SelectedDirs' = SelectedDirs /\ StartDirs' = StartDirs /\ Range(twTop)' = Range(twTop)
      /\ (Call0' = Call0) /\ (Current <=> Current')
    BY DEF SelectedDirs, StartDirs, Call0, Current
<1>2. CallChain /\ CalcList /\ SumsRight /\ Apart
    BY DEF Counting
<1>3. CallChain' /\ Apart'
    <2> HIDE DEF CountFrames
    <2>1. CallChain'
        BY <1>1, <1>2 DEF CallChain, EntryAt
    <2> QED
        BY <1>2, <2>1 DEF Apart
<1>4. CalcList'
    BY <1>1, <1>2 DEF CalcList
<1>5. SumsRight'
    BY <1>1, <1>2 DEF SumsRight
<1>6. PICK done \in SUBSET Dirs : Counted(done)
    BY DEF Counting
<1>7. CountersOf(done)'
    BY <1>6, CountersStay DEF Counted
<1>8. DoneReached(done)' /\ DoneClosed(done)'
    BY <1>1, <1>6 DEF Counted, DoneReached, DoneClosed
<1>9. NotYetDone(done)'
    BY <1>1, <1>6 DEF Counted, NotYetDone
<1> QED
    BY <1>3, <1>4, <1>5, <1>7, <1>8, <1>9 DEF Counting, Counted

LEMMA CountThread ==
    ASSUME JbInv, ~Searching, twData \in Shared, Counting, ~jbStopped,
           \/ EnterDir \/ SignalPath \/ ReadsDir \/ BadDir
           \/ SearchEntry \/ BadFile \/ AddFound \/ TellFound \/ NoMoreFiles
           \/ AddCounts \/ TellCounts \/ NextDir \/ NoMoreDirs
           \/ CalcEntry \/ CalcCounted \/ WalkEnds
    PROVE  Counting' /\ twData' \in Shared
<1>1. ~(SearchEntry \/ BadFile \/ AddFound \/ TellFound \/ NoMoreFiles)
    <2>1. twStack # <<>> => Call0.pc \notin {"files", "badFile", "found", "tell"}
        <3> SUFFICES ASSUME twStack # <<>> PROVE Call0.pc \notin {"files", "badFile", "found", "tell"}
            OBVIOUS
        <3>1. Call0 \in CountFrames
            BY CountTop DEF Counting
        <3> QED
            BY <3>1 DEF CountFrames
    <2> QED
        BY <2>1 DEF SearchEntry, BadFile, AddFound, TellFound, NoMoreFiles, At
<1>2. CASE NextDir
    <2>1. /\ At("dirs") /\ Call0.i <= Len(Entries) /\ UNCHANGED <<twData, twJob, twTop, twBad, twSizes, jbRun>>
          /\ twRet' = twRet
        BY <1>2 DEF NextDir, jbVars
    <2>2. CASE ~Entry.dir \/ Entry.link
        BY <1>2, <2>1, <2>2, CountSkips DEF NextDir
    <2>3. CASE Entry.dir /\ ~Entry.link
        BY <1>2, <2>1, <2>3, CountDescends DEF NextDir
    <2> QED
        BY <2>1, <2>2, <2>3
<1>3. CASE NoMoreDirs
    BY <1>3, CountLeaves DEF NoMoreDirs
<1>4. CASE CalcEntry
    <2>1. /\ InCalc /\ twRet = <<>> /\ UNCHANGED <<twJob, twRet, twBad, twSizes, jbRun>>
        BY <1>4 DEF CalcEntry, Uses, jbVars
    <2>2. Head(twTop) \in Range(twJob.list)
        BY <2>1, ListGoesOn DEF InCalc, Counting
    <2>3. CASE Head(twTop).dir /\ ~Head(twTop).link
        <3>1. Head(twTop) \in SelectedDirs
            BY <2>2, <2>3 DEF SelectedDirs
        <3>2. twStack' = <<Call(Head(twTop).name)>> /\ UNCHANGED <<twTop, twData>>
            BY <1>4, <2>3 DEF CalcEntry
        <3> QED
            BY <2>1, <3>1, <3>2, CountCalls
    <2>4. CASE ~(Head(twTop).dir /\ ~Head(twTop).link)
        <3>1. Head(twTop) \notin SelectedDirs
            BY <2>4 DEF SelectedDirs
        <3>2. twData' = [twData EXCEPT !.n.files = @ + 1, !.n.size = @ + Head(twTop).size]
              /\ twTop' = Tail(twTop) /\ UNCHANGED twStack
            BY <1>4, <2>4 DEF CalcEntry
        <3> QED
            BY <2>1, <3>1, <3>2, CountEntry
    <2> QED
        BY <2>3, <2>4
<1>5. CASE CalcCounted
    BY <1>5, CountSets
<1>6. CASE WalkEnds
    BY <1>6, CountAside DEF WalkEnds, threadOnly
<1> QED
    BY <1>1, <1>2, <1>3, <1>4, <1>5, <1>6, CountEnters, CountSignals, CountReads, CountFails, CountAdds, CountTells

LEMMA CountKeeps ==
    ASSUME JbInv, CountInv, ~Searching, TwNext
    PROVE  CountInv'
<1>1. UNCHANGED twJob /\ ~Searching'
    <2>1. UNCHANGED twJob
        BY DEF TwNext, EnterDir, SignalPath, ReadsDir, BadDir, SearchEntry, BadFile, AddFound, TellFound,
            NoMoreFiles, AddCounts, TellCounts, NextDir, NoMoreDirs, CalcEntry, CalcCounted, WalkEnds,
            SignalCounters, SignalResults, WalkStopped, UserEnds, CallerGoesOn
    <2> QED
        BY <2>1 DEF Searching
<1>2. ASSUME \/ EnterDir \/ SignalPath \/ ReadsDir \/ BadDir
             \/ SearchEntry \/ BadFile \/ AddFound \/ TellFound \/ NoMoreFiles
             \/ AddCounts \/ TellCounts \/ NextDir \/ NoMoreDirs
             \/ CalcEntry \/ CalcCounted \/ WalkEnds
      PROVE  CountInv'
    <2>1. jbRun = "running" /\ UNCHANGED <<jbStopped, jbUi, jbTold>>
        <3>1. CASE EnterDir \/ AddCounts \/ SignalPath \/ TellFound \/ TellCounts
            BY <3>1 DEF EnterDir, AddCounts, WithData, At, SignalPath, TellFound, TellCounts, SendSignal, Uses, jbVars
        <3>2. CASE ReadsDir \/ SearchEntry \/ NoMoreFiles \/ NextDir \/ NoMoreDirs
            BY <3>2 DEF ReadsDir, SearchEntry, NoMoreFiles, NextDir, NoMoreDirs, At, jbVars
        <3>3. CASE BadDir \/ BadFile \/ AddFound
            BY <3>3 DEF BadDir, BadFile, AddFound, At, Uses, jbVars
        <3>4. CASE CalcEntry \/ CalcCounted \/ WalkEnds
            BY <3>4 DEF CalcEntry, CalcCounted, WalkEnds, InCalc, Uses, JobEnds, jbVars
        <3> QED
            BY <1>2, <3>1, <3>2, <3>3, <3>4
    <2>2. ~jbTold
        BY <2>1 DEF JbInv, JbShape
    <2>3. ASSUME ~jbStopped PROVE Counting' /\ twData' \in Shared
        <3>1. twData \in Shared /\ Counting
            BY <2>3 DEF CountInv
        <3> QED
            BY <1>2, <2>3, <3>1, CountThread
    <2> QED
        BY <2>1, <2>2, <2>3 DEF CountInv
<1>3. ASSUME SignalCounters \/ SignalResults \/ WalkStopped \/ UserEnds \/ CallerGoesOn
      PROVE  CountInv'
    <2>1. UNCHANGED <<twJob, twStack, twTop, twRet, twSizes, twBad, twData, jbRun>>
        BY <1>3 DEF SignalCounters, SignalResults, WalkStopped, UserEnds, CallerGoesOn, TakeSignal, HandlerReturns,
                    TakeEnd, EndModal, StopThread, Return, threadOnly
    <2>2. ASSUME ~jbStopped PROVE Counting' /\ twData' \in Shared
        BY <2>1, <2>2, CountAside DEF CountInv
    <2>3. CASE SignalCounters \/ SignalResults \/ WalkStopped
        <3>1. ~jbStopped /\ ~jbStopped'
            BY <2>3 DEF CountInv, SignalCounters, SignalResults, WalkStopped, TakeSignal, HandlerReturns, TakeEnd, InLoop
        <3>2. jbTold' => twShown' = twData'.n
            BY <1>1, <2>1, <2>3, <3>1 DEF CountInv, SignalCounters, SignalResults, WalkStopped, TakeSignal, HandlerReturns,
                TakeEnd, RefreshCounters
        <3> QED
            BY <2>2, <3>1, <3>2 DEF CountInv
    <2>4. CASE UserEnds \/ CallerGoesOn
        <3>1. twShown' = twShown /\ jbTold' = jbTold /\ (jbStopped => jbStopped')
            <4>1. twShown' = twShown /\ jbTold' = jbTold
                BY <2>4 DEF UserEnds, CallerGoesOn, EndModal, StopThread, Return, dialogOnly
            <4>2. jbStopped => jbStopped'
                BY <2>4, Zenon DEF UserEnds, CallerGoesOn, EndModal, StopThread, Return
            <4> QED
                BY <4>1, <4>2
        <3>2. jbStopped' => jbUi' = "stopped" /\ ~jbTold'
            BY <2>4 DEF CountInv, JbInv, JbShape, UserEnds, CallerGoesOn, EndModal, StopThread, Return
        <3> QED
            BY <2>1, <2>2, <3>1, <3>2 DEF CountInv
    <2> QED
        BY <1>3, <2>3, <2>4
<1> QED
    BY <1>2, <1>3 DEF TwNext

LEMMA CountInitial == TwInit => (~Searching => CountInv)
<1> SUFFICES ASSUME TwInit, ~Searching PROVE CountInv
    OBVIOUS
<1>1. twJob.list \in TwSelected
    <2>1. twJob \in [kind : {"count"}, text : {FALSE}, mask : {{}}, list : TwSelected, service : BOOLEAN]
        BY DEF TwInit, Searching
    <2> QED
        BY <2>1, Zenon
<1>2. /\ twTop = twJob.list /\ twStack = (IF twTop = <<>> THEN <<Call(TwRoot)>> ELSE <<>>) /\ twRet = <<>>
      /\ twData = [n |-> NoCounters, path |-> NoName, dirs |-> {}, items |-> <<>>] /\ twBad = {}
      /\ jbTold = FALSE /\ jbStopped = FALSE /\ jbRun = "running"
    BY DEF TwInit, JbInit
<1>3. twData \in Shared /\ twData.n = NoCounters
    <2>1. NoCounters \in Counters
        BY DEF NoCounters, Counters
    <2>2. <<>> \in Seq(Items) /\ {} \in SUBSET Nat
        <3> HIDE DEF Items
        <3> QED
            OBVIOUS
    <2> HIDE DEF Counters, Items
    <2> QED
        BY <1>2, <2>1, <2>2 DEF Shared
<1>4. /\ twJob.list \in Seq(Range(TwDirs[TwRoot])) /\ TwRoot \in Dirs
      /\ \A i, j \in DOMAIN twJob.list : twJob.list[i] = twJob.list[j] => i = j
    BY <1>1, TreeAssumption, OneTreeAssumption DEF Dirs
<1>5. PICK f : f = Call(TwRoot)
    OBVIOUS
<1>6. f \in CountFrames /\ f.dir = TwRoot /\ f.pc = "enter" /\ f.i = 1
    BY <1>4, <1>5 DEF Call, CountFrames
<1>7. /\ twStack \in Seq(CountFrames) /\ \A k \in 1..(Len(twStack) - 1) : FALSE
      /\ \A k, l \in 1..Len(twStack) : k = l /\ twStack[k] = f
      /\ twStack # <<>> => twJob.list = <<>> /\ twStack[1] = f /\ Call0 = f
      /\ twStack = <<>> => twJob.list # <<>>
    <2>1. CASE twJob.list = <<>>
        <3>1. twStack = <<f>>
            BY <1>2, <1>5, <2>1
        <3> HIDE DEF CountFrames
        <3>2. twStack \in Seq(CountFrames) /\ Len(twStack) = 1 /\ twStack[1] = f /\ twStack # <<>>
            BY <1>6, <3>1
        <3>3. Call0 = f
            BY <3>2 DEF Call0, Last
        <3> QED
            BY <2>1, <3>2, <3>3
    <2>2. CASE twJob.list # <<>>
        <3>1. twStack = <<>>
            BY <1>2, <2>2
        <3> HIDE DEF CountFrames
        <3> QED
            BY <2>2, <3>1
    <2> QED
        BY <2>1, <2>2
<1>8. CallChain
    BY <1>2, <1>6, <1>7 DEF CallChain
<1>9. CalcList
    <2>1. twJob.list \in Seq(Range(twJob.list))
        BY <1>4 DEF Range
    <2>2. Current <=> twJob.list = <<>>
        BY <1>2, <1>7 DEF Current
    <2> QED
        BY <1>1, <1>2, <1>4, <2>1, <2>2 DEF CalcList
<1>10. SumsRight /\ Apart
    <2>1. \A e \in SelectedDirs \ Range(twTop) : FALSE
        BY <1>2 DEF SelectedDirs
    <2> QED
        BY <1>2, <1>6, <1>7, <2>1 DEF SumsRight, Apart
<1>11. CountersOf({})
    <2>1. Others \ Range(twTop) = {} /\ SelectedDirs \ Range(twTop) = {} /\ {} \ twBad = {} /\ {} \cap twBad = {}
        BY <1>2 DEF SelectedDirs, Others
    <2>2. Cardinality({}) = 0
        BY FS_EmptySet
    <2>3. IsFiniteSet(Others) /\ (\A e \in Others : OtherSizes[e] \in Nat) /\ IsFiniteSet(Dirs)
          /\ (\A d \in Dirs : SizeIn[d] \in Nat) /\ (\A d \in Dirs : FilesIn[d] \in Nat) /\ (\A d \in Dirs : FoldersIn[d] \in Nat)
        BY <1>9, SelectedAre, SizesAre
    <2>4. SumOver(OtherSizes, {}) = 0
        BY <2>3, SumRules
    <2>5. SumOver(SizeIn, {}) = 0
        BY <2>3, SumRules
    <2>6. SumOver(FilesIn, {}) = 0
        BY <2>3, SumRules
    <2>7. SumOver(FoldersIn, {}) = 0
        BY <2>3, SumRules
    <2>8. NoCounters = Counts(0, 0, 0, 0) /\ 0 = 0 + 0
        BY DEF NoCounters, Counts
    <2> QED
        BY <1>3, <2>1, <2>2, <2>4, <2>5, <2>6, <2>7, <2>8, Zenon DEF CountersOf
<1>12. DoneReached({}) /\ DoneClosed({})
    BY <1>2 DEF DoneReached, DoneClosed, SelectedDirs
<1>13. NotYetDone({})
    <2>1. twStack # <<>> => Call0.pc # "bad"
        BY <1>6, <1>7
    <2>2. \A k \in 1..Len(twStack) : twStack[k].pc = "enter"
        BY <1>6, <1>7
    <2> QED
        BY <1>2, <2>1, <2>2 DEF NotYetDone
<1>14. Counting
    BY <1>8, <1>9, <1>10, <1>11, <1>12, <1>13 DEF Counting, Counted
<1> QED
    BY <1>2, <1>3, <1>14 DEF CountInv

CountedInv == TwInv /\ (~Searching => CountInv)

LEMMA CountInvariance == TwSpec => []CountedInv
<1>1. TwInit => CountedInv
    BY TwInitial, CountInitial DEF CountedInv
<1>2. ASSUME CountedInv, TwInv', TwNext PROVE CountedInv'
    <2>1. UNCHANGED twJob
        BY <1>2
        DEF TwNext, EnterDir, SignalPath, ReadsDir, BadDir, SearchEntry, BadFile, AddFound, TellFound,
            NoMoreFiles, AddCounts, TellCounts, NextDir, NoMoreDirs, CalcEntry, CalcCounted, WalkEnds,
            SignalCounters, SignalResults, WalkStopped, UserEnds, CallerGoesOn
    <2>2. ~Searching => CountInv'
        BY <1>2, CountKeeps DEF CountedInv, TwInv
    <2> QED
        BY <1>2, <2>1, <2>2 DEF CountedInv, Searching
<1>3. ASSUME CountedInv, TwInv', UNCHANGED twVars PROVE CountedInv'
    <2>1. /\ UNCHANGED <<twJob, twStack, twTop, twRet, twSizes, twBad, twData, twShown>>
          /\ UNCHANGED <<jbRun, jbStopped, jbUi, jbTold>>
        BY <1>3 DEF twVars, twOwn, jbVars
    <2>2. ASSUME ~Searching PROVE CountInv'
        <3>1. CountInv
            BY <1>3, <2>2 DEF CountedInv
        <3>2. ASSUME ~jbStopped PROVE Counting' /\ twData' \in Shared
            BY <2>1, <2>2, <3>1, <3>2, CountAside DEF CountInv
        <3> QED
            BY <2>1, <2>2, <3>1, <3>2 DEF CountInv
    <2> QED
        BY <1>3, <2>1, <2>2 DEF CountedInv, Searching
<1>4. CountedInv /\ TwInv' /\ [TwNext]_twVars => CountedInv'
    BY <1>2, <1>3
<1>5. TwSpec => []TwInv
    BY TwInvariance
<1> QED
    BY <1>1, <1>4, <1>5, PTL DEF TwSpec

\* When a count is over, done is what is reached.
LEMMA DoneIsReached ==
    ASSUME CalcList, NEW done \in SUBSET Dirs, DoneReached(done), StartDirs \subseteq done,
           \A p \in done \ twBad : Subdirs(p) \subseteq done
    PROVE  done = Reached(StartDirs, twBad)
<1> PICK start \in SUBSET Dirs : start = StartDirs
    OBVIOUS
<1> PICK bad : bad = twBad
    OBVIOUS
<1>1. /\ start \subseteq Reached(start, bad) /\ Reached(start, bad) \subseteq Dirs
      /\ \A p \in Reached(start, bad) \ bad : Subdirs(p) \subseteq Reached(start, bad)
    BY ReachedIs
<1>2. Reached(start, bad) \subseteq done
    <2>1. \A ds \in SUBSET Dirs :
             start \subseteq ds /\ (\A p \in ds \ bad : Subdirs(p) \subseteq ds) => Reached(start, bad) \subseteq ds
        BY ReachedIs
    <2> QED
        BY <2>1
<1> DEFINE left == done \ Reached(start, bad)
<1>3. left = {}
    <2> SUFFICES ASSUME left # {} PROVE FALSE
        OBVIOUS
    <2>1. left \in SUBSET DOMAIN TwDirs
        BY DEF Dirs
    <2> HIDE DEF left
    <2>2. PICK d \in left : \A p \in left : d \notin Subdirs(p)
        BY <2>1, OneTreeAssumption
    <2>3. d \in done /\ d \notin Reached(start, bad)
        BY DEF left
    <2>4. PICK p \in done \ bad : d \in Subdirs(p)
        BY <1>1, <2>3 DEF DoneReached
    <2>5. p \in Reached(start, bad) \ bad
        BY <2>2, <2>4 DEF left
    <2> QED
        BY <1>1, <2>3, <2>4, <2>5
<1> QED
    BY <1>2, <1>3

LEMMA ExactFromInv == CountedInv => CountsExact
<1> SUFFICES ASSUME CountedInv, ~Searching, jbTold PROVE CountsExact
    BY DEF CountsExact
<1>1. /\ jbRun = "ended" /\ ~jbStopped /\ CallChain /\ CalcList /\ SumsRight /\ twShown = twData.n
      /\ \E done \in SUBSET Dirs : Counted(done)
    BY DEF CountedInv, CountInv, TwInv, JbInv, JbShape, Counting
<1>2. PICK done \in SUBSET Dirs : Counted(done)
    BY <1>1
<1>3. twStack = <<>> /\ twTop = <<>> /\ Range(twTop) = {} /\ Len(twStack) = 0 /\ \A k \in 1..0 : FALSE
    <2>1. twStack = <<>> /\ twTop = <<>>
        BY <1>1 DEF CalcList
    <2> QED
        BY <2>1 DEF Range
<1>4. twBad \subseteq done
    BY <1>2, <1>3 DEF Counted, NotYetDone
<1>5. \A p \in done \ twBad : Subdirs(p) \subseteq done
    <2>1. \A p \in done \ twBad : \A j \in Real(p) : TwDirs[p][j].name \in done
        BY <1>2, <1>3 DEF Counted, DoneClosed
    <2> QED
        BY <2>1, SubdirsAre
<1>6. StartDirs \subseteq done
    <2>1. CASE twJob.list = <<>>
        <3>1. twRet # <<>>
            BY <1>1, <1>3, <2>1 DEF CalcList, Current
        <3> QED
            BY <1>2, <2>1, <3>1 DEF Counted, DoneClosed, StartDirs
    <2>2. CASE twJob.list # <<>>
        BY <1>2, <1>3, <2>2 DEF Counted, DoneClosed, StartDirs
    <2> QED
        BY <2>1, <2>2
<1>7. done = Reached(StartDirs, twBad)
    BY <1>1, <1>2, <1>5, <1>6, DoneIsReached DEF Counted
<1>8. done \cap twBad = twBad /\ Others \ Range(twTop) = Others /\ SelectedDirs \ Range(twTop) = SelectedDirs
    BY <1>3, <1>4
<1>9. twShown = Counts(Cardinality(twBad), Cardinality(Others) + SumOver(FilesIn, Reached(StartDirs, twBad) \ twBad),
                       Cardinality(SelectedDirs) + SumOver(FoldersIn, Reached(StartDirs, twBad) \ twBad),
                       SumOver(OtherSizes, Others) + SumOver(SizeIn, Reached(StartDirs, twBad) \ twBad))
    BY <1>1, <1>2, <1>7, <1>8, Zenon DEF Counted, CountersOf
<1>10. ASSUME NEW e \in SelectedDirs, Reached({e.name}, twBad) \cap twBad = {}
       PROVE  /\ e.name \in DOMAIN twSizes
              /\ twSizes[e.name] = SumOver(SizeIn, Reached({e.name}, twBad))
    <2>1. PICK c \in Dirs : c = e.name
        BY <1>1, SelectedAre
    <2>2. Reached({c}, twBad) = Below(c)
        BY <1>10, <2>1, ReachedClean
    <2>3. e \in SelectedDirs \ Range(twTop) /\ Below(e.name) \cap twBad = {}
        BY <1>3, <1>10, <2>1, <2>2
    <2>4. e.name \in DOMAIN twSizes /\ twSizes[e.name] = SumOver(SizeIn, Below(e.name))
        BY <1>1, <2>3 DEF SumsRight
    <2> QED
        BY <2>1, <2>2, <2>4
<1> QED
    BY <1>9, <1>10, Zenon
    DEF CountsExact, Counts, SelectedDirs, Others, OtherSizes, StartDirs, Dirs, FilesIn, FoldersIn, SizeIn

(***************************************************************************)
(* When a count has ended, its dialog shows what is in all the directories *)
(* that can be read, and the panel the size of each selected one in which  *)
(* all can be, whatever the tree and the selection, and whichever of the   *)
(* directories cannot be read (CalcDir and Calc, dircalc.cpp).             *)
(***************************************************************************)
THEOREM CountsTheTree == TwSpec => []CountsExact
<1>1. TwSpec => []CountedInv
    BY CountInvariance
<1>2. CountedInv => CountsExact
    BY ExactFromInv
<1> QED
    BY <1>1, <1>2, PTL

-----------------------------------------------------------------------------
(***************************************************************************)
(* TextSearch.  Sums and matches are recursive functions.                  *)
(***************************************************************************)
\* What begins with base and goes on with step is a function.
Follows(f, n, base, step) == f[0] = base /\ \A k \in 1..n : f[k] = step[<<f[k - 1], k>>]

LEMMA FollowsExists ==
    ASSUME NEW S, NEW n \in Nat, NEW base \in S, NEW step \in [S \X (1..n) -> S]
    PROVE  \E f \in [0..n -> S] : Follows(f, n, base, step)
<1> DEFINE wrong == {m \in 0..n : ~\E f \in [0..m -> S] : Follows(f, m, base, step)}
<1>1. wrong = {}
    <2> SUFFICES ASSUME wrong # {}
                 PROVE  FALSE
        OBVIOUS
    <2>1. wrong \subseteq Nat
        OBVIOUS
    <2>2. PICK m \in wrong : \A k \in wrong : m <= k
        BY <2>1, LeastOf
    <2>3. m \in 0..n /\ ~\E f \in [0..m -> S] : Follows(f, m, base, step)
        BY <2>2
    <2>4. CASE m = 0
        <3> DEFINE g == [k \in 0..0 |-> base]
        <3>1. g \in [0..m -> S] /\ g[0] = base /\ 1..m = {}
            BY <2>4
        <3> HIDE DEF g
        <3> QED
            BY <2>3, <3>1 DEF Follows
    <2>5. CASE m # 0
        <3>1. m - 1 \in 0..n /\ m \in 1..n /\ ~(m <= m - 1)
            BY <2>3, <2>5
        <3>2. m - 1 \notin wrong
            BY <2>2, <3>1
        <3>3. PICK f \in [0..m - 1 -> S] : Follows(f, m - 1, base, step)
            BY <3>1, <3>2
        <3> DEFINE g == [k \in 0..m |-> IF k = m THEN step[<<f[m - 1], m>>] ELSE f[k]]
        <3>4. f[m - 1] \in S /\ step[<<f[m - 1], m>>] \in S
            BY <3>1, <3>3
        <3>5. g \in [0..m -> S]
            <4>1. ASSUME NEW k \in 0..m, k # m
                  PROVE  f[k] \in S
                <5>1. k \in 0..m - 1
                    BY <2>3, <4>1
                <5> QED
                    BY <5>1
            <4> QED
                BY <3>4, <4>1
        <3>6. /\ g[m] = step[<<f[m - 1], m>>]
              /\ \A k \in 0..m - 1 : g[k] = f[k]
            BY <2>3
        <3> HIDE DEF g
        <3>7. Follows(g, m, base, step)
            <4>1. g[0] = base
                BY <3>1, <3>3, <3>6 DEF Follows
            <4>2. ASSUME NEW k \in 1..m
                  PROVE  g[k] = step[<<g[k - 1], k>>]
                <5>1. k - 1 \in 0..m - 1
                    BY <2>3, <4>2
                <5>2. CASE k = m
                    BY <3>6, <5>1, <5>2
                <5>3. CASE k # m
                    <6>1. k \in 1..m - 1 /\ k \in 0..m - 1
                        BY <2>3, <4>2, <5>3
                    <6> QED
                        BY <3>3, <3>6, <5>1, <6>1 DEF Follows
                <5> QED
                    BY <5>2, <5>3
            <4> QED
                BY <4>1, <4>2 DEF Follows
        <3> QED
            BY <2>3, <3>5, <3>7
    <2> QED
        BY <2>4, <2>5
<1> QED
    BY <1>1

\* h[k] is the sum of the first k of n widths.
Sums(h, w, n) ==
    /\ h \in [0..n -> Nat] /\ h[0] = 0
    /\ \A k \in 1..n : h[k] = h[k - 1] + w[k]

LEMMA TotalIs ==
    ASSUME NEW n \in Nat, NEW w \in [1..n -> Nat]
    PROVE  \E h : Sums(h, w, n) /\ Total(w) = h[n]
<1> DEFINE step == [x \in Nat \X (1..n) |-> x[1] + w[x[2]]]
           F(f) == [k \in 0..n |-> IF k = 0 THEN 0 ELSE f[k - 1] + w[k]]
           h == CHOOSE f : f = F(f)
<1>1. Len(w) = n
    BY LenProperties, SeqDef
<1>2. step \in [Nat \X (1..n) -> Nat] /\ \A x \in Nat, k \in 1..n : step[<<x, k>>] = x + w[k]
    OBVIOUS
<1> HIDE DEF step
<1>3. PICK f \in [0..n -> Nat] : Follows(f, n, 0, step)
    BY <1>2, FollowsExists
<1>4. f = F(f)
    <2>1. ASSUME NEW k \in 0..n
          PROVE  f[k] = IF k = 0 THEN 0 ELSE f[k - 1] + w[k]
        <3>1. CASE k # 0
            <4>1. k \in 1..n /\ k - 1 \in 0..n /\ f[k - 1] \in Nat
                BY <3>1
            <4> QED
                BY <1>2, <1>3, <3>1, <4>1 DEF Follows
        <3> QED
            BY <1>3, <3>1 DEF Follows
    <2> QED
        BY <2>1
<1>5. h = F(h)
    <2> HIDE DEF F
    <2> QED
        BY <1>4
<1>6. Total(w) = h[n]
    BY <1>1 DEF Total
<1> HIDE DEF h
<1>7. \A k \in 0..n : h[k] = IF k = 0 THEN 0 ELSE h[k - 1] + w[k]
    BY <1>5
<1>8. DOMAIN h = 0..n /\ h = [k \in 0..n |-> h[k]]
    BY <1>5
<1>9. h[0] = 0 /\ \A k \in 1..n : h[k] = h[k - 1] + w[k]
    <2>1. 0 \in 0..n /\ \A k \in 1..n : k \in 0..n /\ k # 0
        OBVIOUS
    <2> QED
        BY <1>7, <2>1
<1> DEFINE wrong == {k \in 0..n : h[k] \notin Nat}
<1>10. wrong = {}
    <2> SUFFICES ASSUME wrong # {}
                 PROVE  FALSE
        OBVIOUS
    <2>1. wrong \subseteq Nat
        OBVIOUS
    <2>2. PICK k \in wrong : \A j \in wrong : k <= j
        BY <2>1, LeastOf
    <2>3. k \in 0..n /\ h[k] \notin Nat /\ k # 0
        BY <1>9, <2>2
    <2>4. k - 1 \in 0..n /\ k \in 1..n /\ ~(k <= k - 1)
        BY <2>3
    <2>5. h[k - 1] \in Nat /\ w[k] \in Nat
        BY <2>2, <2>4
    <2> QED
        BY <1>9, <2>3, <2>4, <2>5
<1>11. h \in [0..n -> Nat]
    BY <1>8, <1>10
<1> QED
    BY <1>6, <1>9, <1>11 DEF Sums

\* Of two sums, that of the greater widths is greater.
LEMMA SumsCompare ==
    ASSUME NEW n \in Nat, NEW w \in [1..n -> Nat], NEW u \in [1..n -> Nat], NEW h, NEW g,
           Sums(h, w, n), Sums(g, u, n), \A k \in 1..n : w[k] <= u[k]
    PROVE  h[n] <= g[n]
<1> DEFINE wrong == {k \in 0..n : ~(h[k] <= g[k])}
<1>1. wrong = {}
    <2> SUFFICES ASSUME wrong # {}
                 PROVE  FALSE
        OBVIOUS
    <2>1. wrong \subseteq Nat
        OBVIOUS
    <2>2. PICK k \in wrong : \A j \in wrong : k <= j
        BY <2>1, LeastOf
    <2>3. k \in 0..n /\ ~(h[k] <= g[k]) /\ k # 0
        BY <2>2 DEF Sums
    <2>4. k - 1 \in 0..n /\ k \in 1..n /\ ~(k <= k - 1)
        BY <2>3
    <2>5. h[k - 1] <= g[k - 1] /\ w[k] <= u[k]
        BY <2>2, <2>4
    <2>6. h[k] = h[k - 1] + w[k] /\ g[k] = g[k - 1] + u[k] /\ h[k - 1] \in Nat /\ g[k - 1] \in Nat
          /\ w[k] \in Nat /\ u[k] \in Nat
        BY <2>4 DEF Sums
    <2> QED
        BY <2>3, <2>5, <2>6
<1> QED
    BY <1>1

\* A part of a sum is at most the sum.
LEMMA SumsGrow ==
    ASSUME NEW n \in Nat, NEW w \in [1..n -> Nat], NEW h, Sums(h, w, n), NEW k \in 0..n
    PROVE  h[k] <= h[n]
<1> DEFINE wrong == {j \in 0..n : ~(h[n - j] <= h[n])}
<1>1. wrong = {}
    <2> SUFFICES ASSUME wrong # {}
                 PROVE  FALSE
        OBVIOUS
    <2>1. wrong \subseteq Nat
        OBVIOUS
    <2>2. PICK j \in wrong : \A i \in wrong : j <= i
        BY <2>1, LeastOf
    <2>3. j \in 0..n /\ ~(h[n - j] <= h[n]) /\ n \in 0..n /\ h[n] \in Nat
        BY <2>2 DEF Sums
    <2>4. j # 0
        BY <2>3
    <2> DEFINE m == n - j
    <2>5. m \in 0..n /\ m + 1 \in 1..n /\ m + 1 \in 0..n /\ (m + 1) - 1 = m
          /\ j - 1 \in 0..n /\ ~(j <= j - 1) /\ n - (j - 1) = m + 1
        BY <2>3, <2>4
    <2>6. h[n - (j - 1)] <= h[n]
        BY <2>2, <2>5
    <2> HIDE DEF m
    <2>7. h[m + 1] = h[m] + w[m + 1] /\ h[m] \in Nat /\ w[m + 1] \in Nat
        BY <2>5 DEF Sums
    <2>8. h[m] <= h[n]
        BY <2>3, <2>5, <2>6, <2>7
    <2> QED
        BY <2>3, <2>8 DEF m
<1>2. n - k \in 0..n /\ n - (n - k) = k
    OBVIOUS
<1> QED
    BY <1>1, <1>2

-----------------------------------------------------------------------------
(* Nodes and searchers.                                                    *)

IsNode(node) ==
    /\ Form(node.a) /\ Form(node.b)
    /\ Len(node.a) \in Nat \ {0} /\ Len(node.b) \in Nat /\ (node.b # <<>> => Len(node.b) # 0)
IsSearcher(s) == Len(s) \in Nat \ {0} /\ \A k \in 1..Len(s) : IsNode(s[k])

LEMMA SearchersAre ==
    ASSUME NEW ss \in TsSearchers
    PROVE  /\ Len(ss) \in Nat \ {0} /\ DOMAIN ss = 1..Len(ss)
           /\ \A i \in DOMAIN ss : ss[i] \in Range(ss) /\ IsSearcher(ss[i])
<1>1. ss \in Seq(Range(ss)) /\ ss # <<>>
    BY TextAssumption
<1>2. Len(ss) \in Nat \ {0} /\ DOMAIN ss = 1..Len(ss)
    BY <1>1, LenProperties, EmptySeq
<1>3. ASSUME NEW s \in Range(ss)
      PROVE  IsSearcher(s)
    <2>1. s \in Seq(Range(s)) /\ s # <<>>
        BY <1>3, TextAssumption
    <2>2. Len(s) \in Nat \ {0} /\ DOMAIN s = 1..Len(s)
        BY <2>1, LenProperties, EmptySeq
    <2>3. ASSUME NEW k \in 1..Len(s)
          PROVE  IsNode(s[k])
        <3>1. s[k] \in Range(s)
            BY <2>2 DEF Range
        <3> DEFINE node == s[k]
        <3>2. Form(node.a) /\ node.a # <<>> /\ Form(node.b)
            BY <1>3, <3>1, TextAssumption
        <3> HIDE DEF node
        <3>3. node.a \in Seq(STRING) /\ node.b \in Seq(STRING)
            BY <3>2 DEF Form
        <3>4. Len(node.a) \in Nat /\ Len(node.b) \in Nat /\ (node.b # <<>> => Len(node.b) # 0)
            BY <3>3, LenProperties, EmptySeq
        <3>5. Len(node.a) # 0
            BY <3>2, <3>3, EmptySeq
        <3>6. IsNode(node)
            BY <3>2, <3>4, <3>5 DEF IsNode
        <3> QED
            BY <3>6 DEF node
    <2> QED
        BY <2>2, <2>3 DEF IsSearcher
<1>4. \A i \in DOMAIN ss : ss[i] \in Range(ss)
    BY DEF Range
<1> QED
    BY <1>2, <1>3, <1>4

LEMMA EqIs ==
    ASSUME NEW node, IsNode(node), NEW t, NEW x
    PROVE  /\ Eq(node, t, x) \in Nat
           /\ NodeMin(node) \in Nat \ {0} /\ NodeMax(node) \in Nat /\ NodeMin(node) <= NodeMax(node)
           /\ Len(node.a) <= NodeMax(node) /\ Len(node.b) <= NodeMax(node)
           /\ Eq(node, t, x) # 0 =>
                /\ Eq(node, t, x) >= NodeMin(node)
                /\ \E w \in {node.a, node.b} : Eq(node, t, x) = Len(w) /\ StartsWith(t, x, w)
<1> DEFINE a == Len(node.a)
           b == Len(node.b)
<1>1. a \in Nat \ {0} /\ b \in Nat /\ (node.b # <<>> => b # 0)
    BY DEF IsNode
<1>2. /\ NodeMin(node) = IF node.b = <<>> THEN a ELSE IF a < b THEN a ELSE b
      /\ NodeMax(node) = IF a < b THEN b ELSE a
    BY DEF NodeMin, NodeMax, Smaller, Larger
<1> DEFINE e == Eq(node, t, x)
<1>3. \/ e = a /\ StartsWith(t, x, node.a)
      \/ e = b /\ StartsWith(t, x, node.b) /\ node.b # <<>>
      \/ e = 0
    BY DEF Eq
<1> HIDE DEF a, b, e
<1>4. /\ NodeMin(node) \in Nat \ {0} /\ NodeMax(node) \in Nat /\ NodeMin(node) <= NodeMax(node)
      /\ a <= NodeMax(node) /\ b <= NodeMax(node) /\ NodeMin(node) <= a
      /\ node.b # <<>> => NodeMin(node) <= b
    BY <1>1, <1>2
<1>5. e \in Nat
    BY <1>1, <1>3
<1>6. e # 0 => e >= NodeMin(node)
    BY <1>1, <1>3, <1>4
<1>7. e # 0 => \E w \in {node.a, node.b} : e = Len(w) /\ StartsWith(t, x, w)
    BY <1>3 DEF a, b
<1> QED
    BY <1>4, <1>5, <1>6, <1>7 DEF a, b, e

\* h[k] is the number of bytes of the first k characters, or -1.
Matches(h, s, t, at) ==
    /\ h \in [0..Len(s) -> Int] /\ h[0] = 0
    /\ \A k \in 1..Len(s) :
        h[k] = IF h[k - 1] < 0 \/ Eq(s[k], t, at + h[k - 1]) = 0 THEN -1
               ELSE h[k - 1] + Eq(s[k], t, at + h[k - 1])

LEMMA MatchIs ==
    ASSUME NEW s, IsSearcher(s), NEW t, NEW at
    PROVE  \E h : Matches(h, s, t, at) /\ MatchLen(s, t, at) = h[Len(s)]
<1> DEFINE n == Len(s)
           Next1(x, k) == IF x < 0 \/ Eq(s[k], t, at + x) = 0 THEN -1 ELSE x + Eq(s[k], t, at + x)
           step == [y \in Int \X (1..n) |-> Next1(y[1], y[2])]
           F(f) == [k \in 0..n |-> IF k = 0 THEN 0
                                   ELSE IF f[k - 1] < 0 \/ Eq(s[k], t, at + f[k - 1]) = 0 THEN -1
                                   ELSE f[k - 1] + Eq(s[k], t, at + f[k - 1])]
           h == CHOOSE f : f = F(f)
<1>1. n \in Nat
    BY DEF IsSearcher
<1>2. ASSUME NEW x \in Int, NEW k \in 1..n
      PROVE  Next1(x, k) \in Int
    <2>1. Eq(s[k], t, at + x) \in Nat
        BY EqIs DEF IsSearcher
    <2> QED
        BY <2>1
<1> HIDE DEF Next1
<1>3. step \in [Int \X (1..n) -> Int] /\ \A x \in Int, k \in 1..n : step[<<x, k>>] = Next1(x, k)
    <2>1. ASSUME NEW y \in Int \X (1..n)
          PROVE  Next1(y[1], y[2]) \in Int
        BY <1>2
    <2> QED
        BY <2>1
<1> HIDE DEF step
<1>4. PICK f \in [0..n -> Int] : Follows(f, n, 0, step)
    <2> HIDE DEF F, h, n
    <2>1. 0 \in Int
        OBVIOUS
    <2> QED
        BY <1>1, <1>3, <2>1, FollowsExists
<1>5. f = F(f)
    <2>1. ASSUME NEW k \in 0..n
          PROVE  f[k] = IF k = 0 THEN 0 ELSE Next1(f[k - 1], k)
        <3>1. CASE k # 0
            <4>1. k \in 1..n /\ k - 1 \in 0..n /\ f[k - 1] \in Int
                BY <1>1, <3>1
            <4> QED
                BY <1>3, <1>4, <3>1, <4>1 DEF Follows
        <3> QED
            BY <1>4, <3>1 DEF Follows
    <2>2. f = [k \in 0..n |-> IF k = 0 THEN 0 ELSE Next1(f[k - 1], k)]
        BY <2>1
    <2> QED
        BY <2>2 DEF Next1
<1>6. h = F(h)
    <2> HIDE DEF F
    <2> QED
        BY <1>5
<1>7. MatchLen(s, t, at) = h[n]
    BY DEF MatchLen
<1> HIDE DEF h
<1>8. \A k \in 0..n : h[k] = IF k = 0 THEN 0 ELSE Next1(h[k - 1], k)
    BY <1>6 DEF Next1
<1>9. DOMAIN h = 0..n /\ h = [k \in 0..n |-> h[k]]
    BY <1>6
<1>10. h[0] = 0 /\ \A k \in 1..n : h[k] = Next1(h[k - 1], k)
    <2>1. 0 \in 0..n /\ \A k \in 1..n : k \in 0..n /\ k # 0
        BY <1>1
    <2> QED
        BY <1>8, <2>1
<1> DEFINE wrong == {k \in 0..n : h[k] \notin Int}
<1>11. wrong = {}
    <2> SUFFICES ASSUME wrong # {}
                 PROVE  FALSE
        OBVIOUS
    <2>1. wrong \subseteq Nat
        OBVIOUS
    <2>2. PICK k \in wrong : \A j \in wrong : k <= j
        BY <2>1, LeastOf
    <2>3. k \in 0..n /\ h[k] \notin Int /\ k # 0
        BY <1>10, <2>2
    <2>4. k - 1 \in 0..n /\ k \in 1..n /\ ~(k <= k - 1)
        BY <2>3
    <2>5. h[k - 1] \in Int
        BY <2>2, <2>4
    <2> QED
        BY <1>2, <1>10, <2>3, <2>4, <2>5
<1>12. h \in [0..n -> Int]
    BY <1>9, <1>11
<1>13. Matches(h, s, t, at)
    BY <1>10, <1>12 DEF Matches, Next1
<1> QED
    BY <1>7, <1>13

\* A text that is found is within the file and at least as long as it may be.
LEMMA MatchBounds ==
    ASSUME NEW s, IsSearcher(s), NEW t, Len(t) \in Nat, NEW at \in Nat, MatchLen(s, t, at) > 0
    PROVE  at + MatchLen(s, t, at) - 1 <= Len(t) /\ MatchLen(s, t, at) >= VMinLen(s)
<1> DEFINE n == Len(s)
           w == [k \in 1..n |-> NodeMin(s[k])]
<1>1. n \in Nat \ {0} /\ \A k \in 1..n : IsNode(s[k])
    BY DEF IsSearcher
<1>2. PICK h : Matches(h, s, t, at) /\ MatchLen(s, t, at) = h[n]
    BY MatchIs
<1>3. w \in [1..n -> Nat] /\ \A k \in 1..n : w[k] = NodeMin(s[k])
    BY <1>1, EqIs
<1>4. VMinLen(s) = Total(w)
    BY DEF VMinLen
<1> HIDE DEF w
<1>5. PICK v : Sums(v, w, n) /\ Total(w) = v[n]
    BY <1>1, <1>3, TotalIs
<1> DEFINE Good(k) == h[k] >= 0 => h[k] >= v[k] /\ (k # 0 => at + h[k] - 1 <= Len(t))
           wrong == {k \in 0..n : ~Good(k)}
<1>6. wrong = {}
    <2> SUFFICES ASSUME wrong # {}
                 PROVE  FALSE
        OBVIOUS
    <2>1. wrong \subseteq Nat
        OBVIOUS
    <2>2. PICK k \in wrong : \A j \in wrong : k <= j
        BY <2>1, LeastOf
    <2>3. k \in 0..n /\ ~Good(k)
        BY <2>2
    <2>4. k # 0
        BY <1>2, <1>5, <2>3 DEF Matches, Sums
    <2>5. k - 1 \in 0..n /\ k \in 1..n /\ ~(k <= k - 1)
        BY <2>3, <2>4
    <2>6. Good(k - 1)
        BY <2>2, <2>5
    <2> DEFINE x == h[k - 1]
               e == Eq(s[k], t, at + x)
    <2>7. /\ h[k] = IF x < 0 \/ e = 0 THEN -1 ELSE x + e
          /\ x \in Int /\ v[k] = v[k - 1] + w[k] /\ v[k - 1] \in Nat /\ w[k] \in Nat
        BY <1>2, <1>3, <1>5, <2>5 DEF Matches, Sums
    <2>8. e \in Nat /\ (e # 0 => e >= w[k] /\ \E f \in {s[k].a, s[k].b} : e = Len(f) /\ StartsWith(t, at + x, f))
        <3> HIDE DEF x
        <3>1. IsNode(s[k]) /\ w[k] = NodeMin(s[k])
            BY <1>1, <1>3, <2>5
        <3> HIDE DEF n
        <3> QED
            BY <3>1, EqIs
    <2>9. e # 0 => (at + x) + e - 1 <= Len(t)
        <3> SUFFICES ASSUME e # 0
                     PROVE  (at + x) + e - 1 <= Len(t)
            OBVIOUS
        <3>1. PICK f \in {s[k].a, s[k].b} : e = Len(f) /\ StartsWith(t, at + x, f)
            BY <2>8
        <3>2. e \in 1..Len(f)
            BY <2>8, <3>1
        <3> HIDE DEF e, x
        <3> QED
            BY <3>1, <3>2 DEF StartsWith
    <2>10. x >= 0 => x >= v[k - 1]
        BY <2>6
    <2> HIDE DEF e, x
    <2> QED
        BY <2>3, <2>4, <2>7, <2>8, <2>9, <2>10
<1>7. Good(n) /\ h[n] \in Int
    BY <1>1, <1>2, <1>6 DEF Matches
<1> QED
    BY <1>1, <1>2, <1>4, <1>5, <1>7

-----------------------------------------------------------------------------
(* The buffer and the file.                                                *)

\* The first count bytes of the buffer are those of the file behind off.
Holds(buf, file, off, count) ==
    /\ off \in Nat /\ count \in Nat /\ Len(buf) \in Nat /\ Len(file) \in Nat
    /\ count <= Len(buf) /\ off + count <= Len(file)
    /\ \A i \in 1..count : buf[i] = file[off + i]

\* In those bytes the same is found.
LEMMA PieceEq ==
    ASSUME NEW buf, NEW file, NEW off, NEW count, Holds(buf, file, off, count),
           NEW node, IsNode(node), NEW x \in Nat, x >= 1, x + NodeMax(node) - 1 <= count
    PROVE  Eq(node, buf, x) = Eq(node, file, off + x)
<1>1. ASSUME NEW w \in {node.a, node.b}
      PROVE  StartsWith(buf, x, w) <=> StartsWith(file, off + x, w)
    <2>1. Len(w) \in Nat /\ Len(w) <= NodeMax(node) /\ NodeMax(node) \in Nat
        BY EqIs DEF IsNode
    <2>2. ASSUME NEW i \in 1..Len(w)
          PROVE  (x + i - 1 <= Len(buf) /\ buf[x + i - 1] = w[i])
                    <=> ((off + x) + i - 1 <= Len(file) /\ file[(off + x) + i - 1] = w[i])
        <3> DEFINE j == x + i - 1
        <3>1. j \in 1..count
            BY <2>1 DEF Holds
        <3>2. (off + x) + i - 1 = off + j
            BY <2>1 DEF Holds
        <3>3. j <= Len(buf) /\ off + j <= Len(file) /\ buf[j] = file[off + j]
            BY <3>1 DEF Holds
        <3> HIDE DEF j
        <3>4. x + i - 1 = j
            BY DEF j
        <3> QED
            BY <3>2, <3>3, <3>4
    <2> QED
        BY <2>2 DEF StartsWith
<1> QED
    BY <1>1 DEF Eq

\* Behind the last byte of the file is a zero, beyond which nothing is found.
LEMMA RestEq ==
    ASSUME NEW buf, NEW file, NEW off, NEW count, Holds(buf, file, off, count),
           Len(file) = off + count, count + 1 <= Len(buf), buf[count + 1] = Zero,
           NEW node, IsNode(node), NEW x \in 1..count + 1
    PROVE  /\ Eq(node, buf, x) = Eq(node, file, off + x)
           /\ Eq(node, buf, x) # 0 => x + Eq(node, buf, x) \in 1..count + 1
<1>0. off \in Nat /\ count \in Nat
    BY DEF Holds
<1>1. ASSUME NEW w \in {node.a, node.b}
      PROVE  /\ Len(w) \in Nat
             /\ StartsWith(buf, x, w) => x + Len(w) - 1 <= count
             /\ StartsWith(buf, x, w) <=> StartsWith(file, off + x, w)
    <2>1. Form(w) /\ Len(w) \in Nat
        BY DEF IsNode
    <2>2. DOMAIN w = 1..Len(w)
        BY <2>1, LenProperties DEF Form
    <2>3. ASSUME StartsWith(buf, x, w)
          PROVE  x + Len(w) - 1 <= count
        <3> SUFFICES ASSUME ~(x + Len(w) - 1 <= count)
                     PROVE  FALSE
            OBVIOUS
        <3> DEFINE i == count + 2 - x
        <3>1. i \in 1..Len(w) /\ x + i - 1 = count + 1
            BY <1>0, <2>1
        <3> HIDE DEF i
        <3>2. buf[x + i - 1] = w[i]
            BY <2>3, <3>1 DEF StartsWith
        <3>3. w[i] \in Range(w)
            BY <2>2, <3>1 DEF Range
        <3> QED
            BY <2>1, <3>1, <3>2, <3>3 DEF Form
    <2>4. ASSUME NEW i \in 1..Len(w), x + i - 1 <= count
          PROVE  /\ x + i - 1 <= Len(buf) /\ (off + x) + i - 1 <= Len(file)
                 /\ buf[x + i - 1] = file[(off + x) + i - 1]
        <3> DEFINE j == x + i - 1
        <3>1. j \in 1..count /\ (off + x) + i - 1 = off + j
            BY <1>0, <2>1, <2>4
        <3>2. j <= Len(buf) /\ off + j <= Len(file) /\ buf[j] = file[off + j]
            BY <3>1 DEF Holds
        <3>3. x + i - 1 = j
            OBVIOUS
        <3> HIDE DEF j
        <3> QED
            BY <3>1, <3>2, <3>3
    <2>5. ASSUME StartsWith(buf, x, w)
          PROVE  StartsWith(file, off + x, w)
        <3>1. ASSUME NEW i \in 1..Len(w)
              PROVE  (off + x) + i - 1 <= Len(file) /\ file[(off + x) + i - 1] = w[i]
            <4>1. x + i - 1 <= count
                BY <1>0, <2>1, <2>3, <2>5
            <4> QED
                BY <2>4, <2>5, <4>1 DEF StartsWith
        <3> QED
            BY <3>1 DEF StartsWith
    <2>6. ASSUME StartsWith(file, off + x, w)
          PROVE  StartsWith(buf, x, w)
        <3>1. ASSUME NEW i \in 1..Len(w)
              PROVE  x + i - 1 <= Len(buf) /\ buf[x + i - 1] = w[i]
            <4>1. (off + x) + i - 1 <= Len(file) /\ file[(off + x) + i - 1] = w[i]
                BY <2>6 DEF StartsWith
            <4>2. x + i - 1 <= count
                BY <1>0, <2>1, <4>1
            <4> QED
                BY <2>4, <4>1, <4>2
        <3> QED
            BY <3>1 DEF StartsWith
    <2> QED
        BY <2>1, <2>3, <2>5, <2>6
<1>2. Eq(node, buf, x) = Eq(node, file, off + x)
    BY <1>1 DEF Eq
<1> DEFINE e == Eq(node, buf, x)
<1>3. ASSUME e # 0
      PROVE  x + e \in 1..count + 1
    <2>1. e \in Nat /\ \E w \in {node.a, node.b} : e = Len(w) /\ StartsWith(buf, x, w)
        BY <1>3, EqIs
    <2>2. x + e - 1 <= count
        BY <1>1, <2>1
    <2> HIDE DEF e
    <2> QED
        BY <1>0, <2>1, <2>2
<1> QED
    BY <1>2, <1>3

\* P[k] holds the places to which the first k characters may lead.
Paths(P, s, buf, file, off) ==
    /\ \A k \in 0..Len(s) : P[k] \subseteq Nat
    /\ \A k \in 1..Len(s) : \A x \in P[k - 1] :
        /\ Eq(s[k], buf, x) = Eq(s[k], file, off + x)
        /\ Eq(s[k], buf, x) # 0 => x + Eq(s[k], buf, x) \in P[k]

LEMMA MatchSame ==
    ASSUME NEW s, IsSearcher(s), NEW buf, NEW file, NEW off \in Nat, NEW P,
           Paths(P, s, buf, file, off), NEW at \in P[0]
    PROVE  MatchLen(s, buf, at) = MatchLen(s, file, off + at)
<1> DEFINE n == Len(s)
<1>1. n \in Nat \ {0} /\ \A k \in 1..n : IsNode(s[k])
    BY DEF IsSearcher
<1>2. PICK h : Matches(h, s, buf, at) /\ MatchLen(s, buf, at) = h[n]
    BY MatchIs
<1>3. PICK g : Matches(g, s, file, off + at) /\ MatchLen(s, file, off + at) = g[n]
    BY MatchIs
<1>4. at \in Nat
    BY <1>1 DEF Paths
<1> DEFINE Good(k) == h[k] = g[k] /\ (h[k] >= 0 => at + h[k] \in P[k])
           wrong == {k \in 0..n : ~Good(k)}
<1>5. wrong = {}
    <2> SUFFICES ASSUME wrong # {}
                 PROVE  FALSE
        OBVIOUS
    <2>1. wrong \subseteq Nat
        OBVIOUS
    <2>2. PICK k \in wrong : \A j \in wrong : k <= j
        BY <2>1, LeastOf
    <2>3. k \in 0..n /\ ~Good(k)
        BY <2>2
    <2>4. k # 0
        <3>1. h[0] = 0 /\ g[0] = 0 /\ at + 0 = at
            BY <1>2, <1>3, <1>4 DEF Matches
        <3>2. Good(0)
            BY <3>1
        <3> QED
            BY <2>3, <3>2
    <2>5. k - 1 \in 0..n /\ k \in 1..n /\ ~(k <= k - 1)
        BY <2>3, <2>4
    <2>6. Good(k - 1)
        BY <2>2, <2>5
    <2> DEFINE x == h[k - 1]
               e == Eq(s[k], buf, at + x)
    <2>7. x \in Int /\ (off + at) + x = off + (at + x)
        <3>1. h \in [0..n -> Int]
            BY <1>2 DEF Matches
        <3>2. h[k - 1] \in Int
            BY <2>5, <3>1
        <3> HIDE DEF x
        <3>3. x \in Int
            BY <3>2 DEF x
        <3> QED
            BY <1>4, <3>3
    <2>8. h[k] = IF x < 0 \/ e = 0 THEN -1 ELSE x + e
        BY <1>2, <2>5 DEF Matches
    <2>9. g[k] = IF g[k - 1] < 0 \/ Eq(s[k], file, (off + at) + g[k - 1]) = 0 THEN -1
                 ELSE g[k - 1] + Eq(s[k], file, (off + at) + g[k - 1])
        BY <1>3, <2>5 DEF Matches
    <2>10. g[k - 1] = x
        BY <2>6
    <2>11. x >= 0 => /\ e = Eq(s[k], file, off + (at + x))
                     /\ e # 0 => (at + x) + e \in P[k]
        <3> DEFINE y == at + x
        <3>1. x >= 0 => y \in P[k - 1]
            BY <2>6
        <3> HIDE DEF y
        <3>2. x >= 0 => /\ Eq(s[k], buf, y) = Eq(s[k], file, off + y)
                        /\ Eq(s[k], buf, y) # 0 => y + Eq(s[k], buf, y) \in P[k]
            BY <2>5, <3>1 DEF Paths
        <3> QED
            BY <3>2 DEF y
    <2>12. e \in Nat
        <3> HIDE DEF x
        <3>1. IsNode(s[k])
            BY <1>1, <2>5
        <3> QED
            BY <3>1, EqIs
    <2>13. x >= 0 => h[k] = g[k]
        <3> DEFINE d == Eq(s[k], file, (off + at) + x)
        <3>1. x >= 0 => d = e
            BY <2>7, <2>11
        <3>2. g[k] = IF x < 0 \/ d = 0 THEN -1 ELSE x + d
            BY <2>9, <2>10
        <3> HIDE DEF d, e, x
        <3> QED
            BY <2>8, <3>1, <3>2
    <2>14. x < 0 => h[k] = g[k] /\ h[k] = -1
        BY <2>8, <2>9, <2>10, Zenon
    <2>15. x >= 0 /\ h[k] >= 0 => e # 0 /\ h[k] = x + e /\ at + h[k] = (at + x) + e
        <3> HIDE DEF e, x
        <3> QED
            BY <1>4, <2>7, <2>8, <2>12
    <2>16. x >= 0 \/ x < 0
        BY <2>7
    <2>17. x >= 0 /\ h[k] >= 0 => at + h[k] \in P[k]
        BY <2>11, <2>15
    <2>18. ~(-1 >= 0)
        OBVIOUS
    <2> QED
        <3> HIDE DEF e, x
        <3>1. h[k] = g[k]
            BY <2>13, <2>14, <2>16
        <3>2. h[k] >= 0 => at + h[k] \in P[k]
            BY <2>14, <2>16, <2>17, <2>18
        <3> QED
            BY <2>3, <3>1, <3>2
<1>6. Good(n)
    BY <1>1, <1>5
<1> QED
    BY <1>2, <1>3, <1>6

\* The same is found in a piece, at the places where the longest text is whole.
LEMMA PieceSame ==
    ASSUME NEW buf, NEW file, NEW off, NEW count, Holds(buf, file, off, count),
           NEW s, IsSearcher(s), NEW at \in Nat, at >= 1, at + VMaxLen(s) - 1 <= count
    PROVE  MatchLen(s, buf, at) = MatchLen(s, file, off + at)
<1> DEFINE n == Len(s)
           w == [k \in 1..n |-> NodeMax(s[k])]
<1>1. n \in Nat \ {0} /\ \A k \in 1..n : IsNode(s[k])
    BY DEF IsSearcher
<1>2. w \in [1..n -> Nat] /\ \A k \in 1..n : w[k] = NodeMax(s[k])
    BY <1>1, EqIs
<1>3. VMaxLen(s) = Total(w)
    BY DEF VMaxLen
<1> HIDE DEF w
<1>4. PICK v : Sums(v, w, n) /\ Total(w) = v[n]
    BY <1>1, <1>2, TotalIs
<1> DEFINE P == [k \in 0..n |-> {x \in Nat : at <= x /\ x <= at + v[k]}]
<1>5. \A k \in 0..n : P[k] \subseteq Nat
    OBVIOUS
<1>6. ASSUME NEW k \in 1..n, NEW x \in P[k - 1]
      PROVE  /\ Eq(s[k], buf, x) = Eq(s[k], file, off + x)
             /\ Eq(s[k], buf, x) # 0 => x + Eq(s[k], buf, x) \in P[k]
    <2>1. k - 1 \in 0..n /\ k \in 0..n /\ n \in 0..n
        BY <1>1
    <2>2. x \in Nat /\ at <= x /\ x <= at + v[k - 1]
        BY <2>1
    <2>3. /\ v[k] = v[k - 1] + NodeMax(s[k]) /\ v[k - 1] \in Nat /\ v[k] \in Nat /\ v[n] \in Nat
          /\ NodeMax(s[k]) \in Nat /\ v[k] <= v[n]
        <3>1. v[k] <= v[n]
            BY <1>1, <1>2, <1>4, <2>1, SumsGrow
        <3>2. w[k] = NodeMax(s[k]) /\ w[k] \in Nat
            BY <1>2
        <3> QED
            BY <1>4, <2>1, <3>1, <3>2 DEF Sums
    <2>4. x >= 1 /\ x + NodeMax(s[k]) - 1 <= count
        <3>1. count \in Nat /\ VMaxLen(s) = v[n]
            BY <1>3, <1>4 DEF Holds
        <3> QED
            BY <2>2, <2>3, <3>1
    <2>5. IsNode(s[k])
        BY <1>1
    <2>6. Eq(s[k], buf, x) = Eq(s[k], file, off + x)
        BY <2>2, <2>4, <2>5, PieceEq
    <2> DEFINE e == Eq(s[k], buf, x)
    <2>7. e \in Nat /\ e <= NodeMax(s[k])
        <3> DEFINE node == s[k]
        <3>1. IsNode(node)
            BY <2>5
        <3> HIDE DEF node
        <3>2. /\ Eq(node, buf, x) \in Nat /\ NodeMax(node) \in Nat
              /\ Len(node.a) <= NodeMax(node) /\ Len(node.b) <= NodeMax(node)
              /\ Eq(node, buf, x) # 0 => Eq(node, buf, x) = Len(node.a) \/ Eq(node, buf, x) = Len(node.b)
            BY <3>1, EqIs
        <3>3. Eq(node, buf, x) \in Nat /\ Eq(node, buf, x) <= NodeMax(node)
            BY <3>2
        <3> QED
            BY <3>3 DEF node
    <2> HIDE DEF e
    <2>8. x + e \in P[k]
        <3>1. x + e \in Nat /\ at <= x + e /\ x + e <= at + v[k]
            BY <2>2, <2>3, <2>7
        <3> QED
            BY <2>1, <3>1
    <2> QED
        BY <2>6, <2>8 DEF e
<1>7. at \in P[0]
    <2>1. 0 \in 0..n /\ v[0] = 0
        BY <1>1, <1>4 DEF Sums
    <2> QED
        BY <2>1
<1> HIDE DEF P
<1>8. Paths(P, s, buf, file, off)
    BY <1>5, <1>6 DEF Paths
<1>9. off \in Nat
    BY DEF Holds
<1>10. ASSUME NEW Q, Paths(Q, s, buf, file, off), NEW x \in Q[0]
       PROVE  MatchLen(s, buf, x) = MatchLen(s, file, off + x)
    BY <1>9, <1>10, MatchSame
<1>11. PICK Q : Paths(Q, s, buf, file, off) /\ at \in Q[0]
    BY <1>7, <1>8
<1>12. MatchLen(s, buf, at) = MatchLen(s, file, off + at)
    BY <1>10, <1>11
<1> QED
    BY <1>12

\* And at the end of the file, with a zero behind it.
LEMMA RestSame ==
    ASSUME NEW buf, NEW file, NEW off, NEW count, Holds(buf, file, off, count),
           Len(file) = off + count, count + 1 <= Len(buf), buf[count + 1] = Zero,
           NEW s, IsSearcher(s), NEW at \in 1..count + 1
    PROVE  MatchLen(s, buf, at) = MatchLen(s, file, off + at)
<1> DEFINE n == Len(s)
           P == [k \in 0..n |-> 1..count + 1]
<1>1. n \in Nat \ {0} /\ (\A k \in 1..n : IsNode(s[k])) /\ count \in Nat /\ off \in Nat
    BY DEF IsSearcher, Holds
<1>2. \A k \in 0..n : P[k] \subseteq Nat
    BY <1>1
<1>3. ASSUME NEW k \in 1..n, NEW x \in P[k - 1]
      PROVE  /\ Eq(s[k], buf, x) = Eq(s[k], file, off + x)
             /\ Eq(s[k], buf, x) # 0 => x + Eq(s[k], buf, x) \in P[k]
    <2>1. k - 1 \in 0..n /\ k \in 0..n
        BY <1>1
    <2>2. x \in 1..count + 1 /\ P[k] = 1..count + 1 /\ IsNode(s[k])
        BY <1>1, <2>1
    <2> HIDE DEF P
    <2> QED
        BY <2>2, RestEq
<1>4. at \in P[0]
    BY <1>1
<1> HIDE DEF P
<1>5. Paths(P, s, buf, file, off)
    BY <1>2, <1>3 DEF Paths
<1>6. ASSUME NEW Q, Paths(Q, s, buf, file, off), NEW x \in Q[0]
      PROVE  MatchLen(s, buf, x) = MatchLen(s, file, off + x)
    BY <1>1, <1>6, MatchSame
<1>7. PICK Q : Paths(Q, s, buf, file, off) /\ at \in Q[0]
    BY <1>4, <1>5
<1> QED
    BY <1>6, <1>7

-----------------------------------------------------------------------------
(* The searchers.                                                          *)

LEMMA SearchIs ==
    ASSUME NEW s, NEW t, NEW end \in Int
    PROVE  \/ /\ VSearchStr(s, t, end) = 0
              /\ \A at \in 1..end - 1 : ~(MatchLen(s, t, at) > 0)
           \/ /\ VSearchStr(s, t, end) \in 1..end - 1
              /\ MatchLen(s, t, VSearchStr(s, t, end)) > 0
              /\ \A at \in 1..end - 1 : MatchLen(s, t, at) > 0 => VSearchStr(s, t, end) <= at
<1> DEFINE places == {at \in 1..end - 1 : MatchLen(s, t, at) > 0}
           least == CHOOSE at \in places : \A p \in places : at <= p
<1>1. VSearchStr(s, t, end) = IF places = {} THEN 0 ELSE least
    BY DEF VSearchStr
<1>2. CASE places = {}
    BY <1>1, <1>2
<1>3. CASE places # {}
    <2>1. places \subseteq Nat
        OBVIOUS
    <2>2. \E at \in places : \A p \in places : at <= p
        BY <1>3, <2>1, LeastOf
    <2>3. least \in places /\ \A p \in places : least <= p
        BY <2>2
    <2> HIDE DEF least
    <2> QED
        BY <1>1, <1>3, <2>3
<1> QED
    BY <1>2, <1>3

\* Some searcher finds its text at the place, which is the first one for it.
FindsAt(ss, t, end, found) ==
    \E i \in DOMAIN ss :
        /\ found.at \in 1..end - 1 /\ MatchLen(ss[i], t, found.at) > 0
        /\ found.len = MatchLen(ss[i], t, found.at)
        /\ \A at \in 1..end - 1 : MatchLen(ss[i], t, at) > 0 => found.at <= at

LEMMA MegaIs ==
    ASSUME NEW ss, NEW n \in Nat, DOMAIN ss = 1..n, NEW t, NEW end \in Int
    PROVE  \/ /\ MegaSearch(ss, t, end) = NotFound
              /\ \A i \in DOMAIN ss : \A at \in 1..end - 1 : ~(MatchLen(ss[i], t, at) > 0)
           \/ /\ MegaSearch(ss, t, end) # NotFound
              /\ MegaSearch(ss, t, end) = [at |-> MegaSearch(ss, t, end).at, len |-> MegaSearch(ss, t, end).len]
              /\ FindsAt(ss, t, end, MegaSearch(ss, t, end))
<1> DEFINE found == {i \in DOMAIN ss : VSearchStr(ss[i], t, end) > 0}
           j == CHOOSE k \in found : \A m \in found : k <= m
           at == VSearchStr(ss[j], t, end)
           m == MegaSearch(ss, t, end)
<1>1. m = IF found = {} THEN NotFound ELSE [at |-> at, len |-> MatchLen(ss[j], t, at)]
    BY DEF MegaSearch
<1>2. CASE found = {}
    <2>1. ASSUME NEW i \in DOMAIN ss, NEW p \in 1..end - 1
          PROVE  ~(MatchLen(ss[i], t, p) > 0)
        <3>1. ~(VSearchStr(ss[i], t, end) > 0)
            BY <1>2, <2>1
        <3>2. VSearchStr(ss[i], t, end) \notin 1..end - 1
            BY <3>1
        <3> QED
            BY <3>2, SearchIs
    <2> QED
        BY <1>1, <1>2, <2>1
<1>3. CASE found # {}
    <2>1. found \subseteq Nat
        OBVIOUS
    <2>2. \E k \in found : \A q \in found : k <= q
        BY <1>3, <2>1, LeastOf
    <2>3. j \in found
        BY <2>2
    <2> HIDE DEF j
    <2>4. j \in DOMAIN ss /\ at > 0
        BY <2>3
    <2>5. /\ at \in 1..end - 1 /\ MatchLen(ss[j], t, at) > 0
          /\ \A p \in 1..end - 1 : MatchLen(ss[j], t, p) > 0 => at <= p
        <3>1. at # 0
            BY <2>4
        <3> QED
            BY <3>1, SearchIs
    <2> HIDE DEF at, m
    <2>6. m.at = at /\ m.len = MatchLen(ss[j], t, at) /\ m = [at |-> m.at, len |-> m.len]
        BY <1>1, <1>3
    <2>7. FindsAt(ss, t, end, m)
        BY <2>4, <2>5, <2>6 DEF FindsAt
    <2>8. m # NotFound
        <3>1. NotFound.at = 0 /\ at # 0
            BY <2>4 DEF NotFound
        <3> QED
            BY <2>6, <3>1
    <2> QED
        BY <2>6, <2>7, <2>8 DEF m
<1> QED
    BY <1>2, <1>3

-----------------------------------------------------------------------------
(* The lengths of the texts.                                               *)

LEMMA LengthsOf ==
    ASSUME NEW s, IsSearcher(s)
    PROVE  VMinLen(s) \in Nat \ {0} /\ VMaxLen(s) \in Nat /\ VMinLen(s) <= VMaxLen(s)
<1> DEFINE n == Len(s)
           w == [k \in 1..n |-> NodeMin(s[k])]
           u == [k \in 1..n |-> NodeMax(s[k])]
<1>1. n \in Nat \ {0} /\ \A k \in 1..n : IsNode(s[k])
    BY DEF IsSearcher
<1>2. \A k \in 1..n : /\ NodeMin(s[k]) \in Nat \ {0} /\ NodeMax(s[k]) \in Nat
                      /\ NodeMin(s[k]) <= NodeMax(s[k])
    BY <1>1, EqIs
<1>3. /\ w \in [1..n -> Nat] /\ u \in [1..n -> Nat]
      /\ \A k \in 1..n : w[k] <= u[k] /\ w[k] # 0
    BY <1>2
<1>4. VMinLen(s) = Total(w) /\ VMaxLen(s) = Total(u)
    BY DEF VMinLen, VMaxLen
<1> HIDE DEF w, u
<1>5. PICK h : Sums(h, w, n) /\ Total(w) = h[n]
    BY <1>1, <1>3, TotalIs
<1>6. PICK g : Sums(g, u, n) /\ Total(u) = g[n]
    BY <1>1, <1>3, TotalIs
<1>7. h[n] <= g[n]
    BY <1>1, <1>3, <1>5, <1>6, SumsCompare
<1>8. h[1] <= h[n]
    <2>1. 1 \in 0..n
        BY <1>1
    <2> QED
        BY <1>1, <1>3, <1>5, <2>1, SumsGrow
<1>9. h[1] = w[1] /\ w[1] \in Nat \ {0}
    <2>1. 1 \in 1..n /\ 1 - 1 = 0
        BY <1>1
    <2>2. h[1] = h[1 - 1] + w[1] /\ h[0] = 0
        BY <1>5, <2>1 DEF Sums
    <2> QED
        BY <1>3, <2>1, <2>2
<1>10. h[n] \in Nat /\ g[n] \in Nat
    BY <1>1, <1>5, <1>6 DEF Sums
<1> QED
    BY <1>4, <1>5, <1>6, <1>7, <1>8, <1>9, <1>10

LEMMA GreatestOf ==
    ASSUME NEW set, set \subseteq Nat, set # {}, NEW b \in Nat, \A k \in set : k <= b
    PROVE  \E n \in set : \A k \in set : n >= k
<1> DEFINE above == {n \in Nat : \A k \in set : k <= n}
<1>1. above \subseteq Nat /\ above # {}
    OBVIOUS
<1>2. PICK n \in above : \A m \in above : n <= m
    BY <1>1, LeastOf
<1>3. n \in Nat /\ \A k \in set : k <= n
    BY <1>2
<1>4. n \in set
    <2> SUFFICES ASSUME n \notin set
                 PROVE  FALSE
        OBVIOUS
    <2>1. PICK j : j \in set
        OBVIOUS
    <2>2. n # 0
        BY <1>3, <2>1
    <2>3. \A k \in set : k \in Nat /\ k # n
        OBVIOUS
    <2>4. n - 1 \in Nat /\ \A k \in set : k <= n - 1
        BY <1>3, <2>2, <2>3
    <2>5. n - 1 \in above
        BY <2>4
    <2> QED
        BY <1>2, <1>3, <2>5
<1> QED
    BY <1>3, <1>4

JobOK ==
    /\ tsJob.who \in {"view", "files"} /\ tsJob.file \in TsFiles /\ tsJob.searchers \in TsSearchers
    /\ tsJob.from \in Nat /\ tsJob.from <= Len(tsJob.file)
    /\ tsJob.who = "view" => Len(tsJob.searchers) = 1
    /\ tsJob.who = "files" => tsJob.from = 0

LEMMA LengthsAre ==
    ASSUME JobOK
    PROVE  /\ Max0 \in Nat \ {0} /\ Min0 \in Nat \ {0} /\ Min0 <= Max0
           /\ TsBufSize \in Nat \ {0} /\ 2 * Max0 <= TsBufSize + 1
           /\ Len(tsJob.file) \in Nat /\ DOMAIN tsJob.file = 1..Len(tsJob.file)
           /\ tsJob.file \in Seq(STRING)
           /\ Len(tsJob.searchers) \in Nat \ {0} /\ DOMAIN tsJob.searchers = 1..Len(tsJob.searchers)
           /\ \A i \in DOMAIN tsJob.searchers :
                IsSearcher(tsJob.searchers[i]) /\ Min0 <= VMinLen(tsJob.searchers[i])
           /\ tsJob.who = "view" => DOMAIN tsJob.searchers = {1} /\ Max0 = VMaxLen(tsJob.searchers[1])
<1> DEFINE ss == tsJob.searchers
           all == {VMinLen(s) : s \in Range(ss)}
<1>1. ss \in TsSearchers /\ tsJob.file \in TsFiles
    BY DEF JobOK
<1>2. tsJob.file \in Seq(STRING) /\ TsBufSize \in Nat \ {0}
    BY <1>1, TextAssumption
<1>3. Len(tsJob.file) \in Nat /\ DOMAIN tsJob.file = 1..Len(tsJob.file)
    BY <1>2, LenProperties
<1>4. /\ Len(ss) \in Nat \ {0} /\ DOMAIN ss = 1..Len(ss)
      /\ \A i \in DOMAIN ss : ss[i] \in Range(ss) /\ IsSearcher(ss[i])
    BY <1>1, SearchersAre
<1>5. \A i \in DOMAIN ss : /\ VMinLen(ss[i]) \in Nat \ {0} /\ VMaxLen(ss[i]) \in Nat
                           /\ VMinLen(ss[i]) <= VMaxLen(ss[i]) /\ VMinLen(ss[i]) \in all
                           /\ 2 * VMaxLen(ss[i]) <= TsBufSize + 1
    BY <1>1, <1>4, LengthsOf, LengthAssumption
<1>6. 1 \in DOMAIN ss
    BY <1>4
<1>7. ASSUME NEW m \in all
      PROVE  \E i \in DOMAIN ss : m = VMinLen(ss[i])
    <2>1. PICK s \in Range(ss) : m = VMinLen(s)
        OBVIOUS
    <2>2. PICK i \in DOMAIN ss : s = ss[i]
        BY DEF Range
    <2> QED
        BY <2>1, <2>2
<1>8. Min0 = Min(all) /\ Max0 = IF tsJob.who = "view" THEN VMaxLen(ss[1]) ELSE Max(all)
    BY DEF Min0, MinLen, Max0, MaxLen
<1> HIDE DEF all
<1>9. all \subseteq Nat /\ all # {} /\ \A k \in all : k <= TsBufSize + 1
    <2>1. ASSUME NEW k \in all
          PROVE  k \in Nat /\ k <= TsBufSize + 1
        <3>1. PICK i \in DOMAIN ss : k = VMinLen(ss[i])
            BY <1>7
        <3>2. VMinLen(ss[i]) \in Nat /\ VMaxLen(ss[i]) \in Nat /\ VMinLen(ss[i]) <= VMaxLen(ss[i])
              /\ 2 * VMaxLen(ss[i]) <= TsBufSize + 1
            BY <1>5
        <3> QED
            BY <1>2, <3>1, <3>2
    <2> QED
        BY <1>5, <1>6, <2>1
<1>10. Min(all) \in all /\ \A k \in all : Min(all) <= k
    <2>1. \E n \in all : \A k \in all : n <= k
        BY <1>9, LeastOf
    <2> QED
        BY <2>1 DEF Min
<1>11. Max(all) \in all /\ \A k \in all : Max(all) >= k
    <2>1. \E n \in all : \A k \in all : n >= k
        <3>1. TsBufSize + 1 \in Nat
            BY <1>2
        <3> QED
            BY <1>9, <3>1, GreatestOf
    <2> QED
        BY <2>1 DEF Max
<1>12. PICK i \in DOMAIN ss : Min(all) = VMinLen(ss[i])
    BY <1>7, <1>10
<1>13. PICK j \in DOMAIN ss : Max(all) = VMinLen(ss[j])
    BY <1>7, <1>11
<1>14. Min0 \in Nat \ {0} /\ \A k \in DOMAIN ss : Min0 <= VMinLen(ss[k])
    BY <1>5, <1>8, <1>10, <1>12
<1>15. CASE tsJob.who = "view"
    <2>1. Max0 = VMaxLen(ss[1]) /\ Len(ss) = 1 /\ DOMAIN ss = {1}
        BY <1>4, <1>8, <1>15 DEF JobOK
    <2>2. /\ VMinLen(ss[1]) \in Nat \ {0} /\ VMaxLen(ss[1]) \in Nat /\ Min0 <= VMinLen(ss[1])
          /\ VMinLen(ss[1]) <= VMaxLen(ss[1]) /\ 2 * VMaxLen(ss[1]) <= TsBufSize + 1
        BY <1>5, <1>6, <1>14
    <2>3. Max0 \in Nat \ {0} /\ Min0 <= Max0 /\ 2 * Max0 <= TsBufSize + 1
        BY <1>14, <2>1, <2>2
    <2> QED
        BY <1>2, <1>3, <1>4, <1>14, <2>1, <2>3
<1>16. CASE tsJob.who # "view"
    <2>1. Max0 = VMinLen(ss[j])
        BY <1>8, <1>13, <1>16
    <2>2. /\ VMinLen(ss[j]) \in Nat \ {0} /\ VMaxLen(ss[j]) \in Nat /\ Min0 <= VMinLen(ss[j])
          /\ VMinLen(ss[j]) <= VMaxLen(ss[j]) /\ 2 * VMaxLen(ss[j]) <= TsBufSize + 1
        BY <1>5, <1>14
    <2>3. Max0 \in Nat \ {0} /\ Min0 <= Max0 /\ 2 * Max0 <= TsBufSize + 1
        BY <1>2, <1>14, <2>1, <2>2
    <2> QED
        BY <1>2, <1>3, <1>4, <1>14, <1>16, <2>3
<1> QED
    BY <1>15, <1>16

-----------------------------------------------------------------------------
(* The search.                                                             *)

LEMMA LenIs ==
    ASSUME NEW n \in Nat, NEW f, f = [i \in 1..n |-> f[i]]
    PROVE  Len(f) = n /\ DOMAIN f = 1..n
<1>1. f \in [1..n -> {f[i] : i \in 1..n}] /\ DOMAIN f = 1..n
    OBVIOUS
<1> DEFINE S == {f[i] : i \in 1..n}
<1>2. f \in Seq(S)
    <2>1. f \in [1..n -> S]
        BY <1>1
    <2> HIDE DEF S
    <2> QED
        BY <2>1, SeqDef
<1> HIDE DEF S
<1> QED
    BY <1>1, <1>2, LenProperties

\* The buffer is what the file has at the offset, up to where it is read.
Held ==
    /\ Holds(tsBuf, tsJob.file, tsOffset, tsCount)
    /\ tsOffset + tsCount = tsJob.from + tsRead /\ tsOffset >= tsJob.from

\* No text is before the buffer's first byte.
Passed == \A i \in DOMAIN tsJob.searchers : \A at \in Occurrences(tsJob.searchers[i]) : at > tsOffset

\* The searchers find the same in the first n bytes of b as in the file.
Agree(b, n) ==
    \A i \in DOMAIN tsJob.searchers : \A at \in 1..n :
        MatchLen(tsJob.searchers[i], b, at) = MatchLen(tsJob.searchers[i], tsJob.file, tsOffset + at)

\* A text is where it is said to be, and is the first one of its searcher.
Found(found) ==
    /\ found # NotFound
    /\ \E i \in DOMAIN tsJob.searchers :
        /\ found.at \in Occurrences(tsJob.searchers[i])
        /\ found.len = MatchLen(tsJob.searchers[i], tsJob.file, found.at)
        /\ \A at \in Occurrences(tsJob.searchers[i]) : found.at <= at

LEMMA OccurrencesIs ==
    ASSUME JobOK, NEW i \in DOMAIN tsJob.searchers
    PROVE  /\ \A at \in Occurrences(tsJob.searchers[i]) :
                /\ at \in Nat /\ MatchLen(tsJob.searchers[i], tsJob.file, at) > 0
                /\ at + Min0 - 1 <= Len(tsJob.file)
           /\ \A at \in Nat : /\ at > tsJob.from
                              /\ MatchLen(tsJob.searchers[i], tsJob.file, at) > 0
                              => at \in Occurrences(tsJob.searchers[i])
<1> DEFINE s == tsJob.searchers[i]
           file == tsJob.file
<1>1. /\ IsSearcher(s) /\ Min0 <= VMinLen(s) /\ Min0 \in Nat \ {0} /\ Len(file) \in Nat
      /\ tsJob.from \in Nat
    BY LengthsAre DEF JobOK
<1>2. VMinLen(s) \in Nat
    BY <1>1, LengthsOf
<1>3. Occurrences(s) = {at \in tsJob.from + 1..Len(file) : MatchLen(s, file, at) > 0}
    BY DEF Occurrences
<1> HIDE DEF s, file
<1>4. ASSUME NEW at \in Nat, MatchLen(s, file, at) > 0
      PROVE  at + Min0 - 1 <= Len(file)
    <2> DEFINE m == MatchLen(s, file, at)
    <2>1. at + m - 1 <= Len(file) /\ m >= VMinLen(s)
        BY <1>1, <1>4, MatchBounds
    <2>2. m \in Int
        <3>1. PICK h : Matches(h, s, file, at) /\ m = h[Len(s)]
            BY <1>1, MatchIs
        <3>2. Len(s) \in 0..Len(s)
            BY <1>1 DEF IsSearcher
        <3> QED
            BY <3>1, <3>2 DEF Matches
    <2> HIDE DEF m
    <2> QED
        BY <1>1, <1>2, <2>1, <2>2
<1>5. ASSUME NEW at \in Occurrences(s)
      PROVE  at \in Nat /\ MatchLen(s, file, at) > 0 /\ at + Min0 - 1 <= Len(file)
    <2>1. at \in tsJob.from + 1..Len(file) /\ MatchLen(s, file, at) > 0
        BY <1>3
    <2>2. at \in Nat
        BY <1>1, <2>1
    <2> QED
        BY <1>4, <2>1, <2>2
<1>6. ASSUME NEW at \in Nat, at > tsJob.from, MatchLen(s, file, at) > 0
      PROVE  at \in Occurrences(s)
    <2>1. at + Min0 - 1 <= Len(file)
        BY <1>4, <1>6
    <2>2. at \in tsJob.from + 1..Len(file)
        BY <1>1, <1>6, <2>1
    <2> QED
        BY <1>3, <1>6, <2>2
<1> QED
    BY <1>5, <1>6 DEF s, file

\* What is found in the buffer is found in the file.
LEMMA Hit ==
    ASSUME JobOK, Held, Passed, NEW b, NEW n \in Int, Agree(b, n),
           NEW found, found = [at |-> found.at, len |-> found.len],
           FindsAt(tsJob.searchers, b, n + 1, found)
    PROVE  Found([found EXCEPT !.at = @ + tsOffset])
<1> DEFINE f == [found EXCEPT !.at = @ + tsOffset]
           ss == tsJob.searchers
           file == tsJob.file
<1>1. PICK i \in DOMAIN ss :
        /\ found.at \in 1..n /\ MatchLen(ss[i], b, found.at) > 0
        /\ found.len = MatchLen(ss[i], b, found.at)
        /\ \A at \in 1..n : MatchLen(ss[i], b, at) > 0 => found.at <= at
    <2>1. (n + 1) - 1 = n
        OBVIOUS
    <2> QED
        BY <2>1 DEF FindsAt
<1>2. f.at = found.at + tsOffset /\ f.len = found.len
    <2>1. "at" \in DOMAIN found /\ "len" \in DOMAIN found
        <3>1. DOMAIN [at |-> found.at, len |-> found.len] = {"at", "len"}
            OBVIOUS
        <3> QED
            BY <3>1
    <2> QED
        BY <2>1
<1> HIDE DEF f
<1>3. tsOffset \in Nat /\ tsOffset >= tsJob.from /\ tsJob.from \in Nat
    BY DEF Held, Holds, JobOK
<1>4. f.at \in Nat /\ f.at > tsJob.from /\ f.at = tsOffset + found.at /\ f.at # 0
    BY <1>1, <1>2, <1>3
<1>5. MatchLen(ss[i], b, found.at) = MatchLen(ss[i], file, f.at)
    BY <1>1, <1>4 DEF Agree
<1>6. f.at \in Occurrences(ss[i])
    <2>1. MatchLen(ss[i], file, f.at) > 0
        BY <1>1, <1>5
    <2> QED
        BY <1>4, <2>1, OccurrencesIs
<1>7. ASSUME NEW at \in Occurrences(ss[i])
      PROVE  f.at <= at
    <2>1. at \in Nat /\ MatchLen(ss[i], file, at) > 0 /\ at > tsOffset
        BY <1>7, OccurrencesIs DEF Passed
    <2> DEFINE p == at - tsOffset
    <2>2. p \in Nat /\ p >= 1 /\ at = tsOffset + p
        BY <1>3, <2>1
    <2> HIDE DEF p
    <2>3. CASE p <= n
        <3>1. p \in 1..n
            BY <2>2, <2>3
        <3>2. MatchLen(ss[i], b, p) > 0
            BY <2>1, <2>2, <3>1 DEF Agree
        <3>3. found.at <= p
            BY <1>1, <3>1, <3>2
        <3> QED
            BY <1>1, <1>3, <1>4, <2>2, <3>3
    <2>4. CASE ~(p <= n)
        BY <1>1, <1>3, <1>4, <2>2, <2>4
    <2> QED
        BY <2>3, <2>4
<1>8. f # NotFound
    <2>1. NotFound.at = 0
        BY DEF NotFound
    <2> QED
        BY <1>4, <2>1
<1>9. f.len = MatchLen(ss[i], file, f.at)
    BY <1>1, <1>2, <1>5
<1>10. Found(f)
    BY <1>6, <1>7, <1>8, <1>9 DEF Found
<1> QED
    BY <1>10 DEF f

\* What is not in the last bytes is not there.
LEMMA Miss ==
    ASSUME JobOK, Held, Passed, tsRead \in Nat, NEW n \in Int, NEW i \in DOMAIN tsJob.searchers,
           \A at \in 1..n : ~(MatchLen(tsJob.searchers[i], tsJob.file, tsOffset + at) > 0)
    PROVE  /\ \A at \in Occurrences(tsJob.searchers[i]) : at > tsOffset + n
           /\ Left = 0 /\ n >= tsCount - Min0 + 1 => Occurrences(tsJob.searchers[i]) = {}
<1> DEFINE s == tsJob.searchers[i]
<1>1. /\ tsOffset \in Nat /\ tsCount \in Nat /\ tsJob.from \in Nat /\ Len(tsJob.file) \in Nat
      /\ tsOffset + tsCount = tsJob.from + tsRead
    BY DEF Held, Holds, JobOK
<1>2. Min0 \in Nat \ {0}
    BY LengthsAre
<1>3. ASSUME NEW at \in Occurrences(s)
      PROVE  at > tsOffset + n /\ at + Min0 - 1 <= Len(tsJob.file) /\ at \in Nat
    <2>1. /\ at \in Nat /\ MatchLen(s, tsJob.file, at) > 0 /\ at + Min0 - 1 <= Len(tsJob.file)
          /\ at > tsOffset
        BY <1>3, OccurrencesIs DEF Passed
    <2> DEFINE p == at - tsOffset
    <2>2. p \in Nat /\ p >= 1 /\ at = tsOffset + p
        BY <1>1, <2>1
    <2> HIDE DEF p
    <2>3. p \notin 1..n
        BY <2>1, <2>2
    <2> QED
        BY <1>1, <2>1, <2>2, <2>3
<1>4. ASSUME Left = 0, n >= tsCount - Min0 + 1, NEW at \in Occurrences(s)
      PROVE  FALSE
    <2>1. at > tsOffset + n /\ at + Min0 - 1 <= Len(tsJob.file) /\ at \in Nat
        BY <1>3, <1>4
    <2>2. Len(tsJob.file) - tsJob.from - tsRead = 0
        BY <1>4 DEF Left
    <2>4. Len(tsJob.file) = tsOffset + tsCount
        BY <1>1, <2>2
    <2> QED
        BY <1>1, <1>2, <1>4, <2>1, <2>4
<1> QED
    BY <1>3, <1>4

\* The search that TextFound is about: the viewer's, and a file search whose file
\* is read in one piece.
Whole == tsJob.who = "view" \/ tsPieces = 0 \/ (tsPieces = 1 /\ Left = 0)

\* Before the first piece the buffer is empty; a file search has a zero behind
\* the file.
Zeros ==
    /\ tsPieces = 0 => tsCount = 0 /\ tsRead = 0 /\ \A i \in 1..TsBufSize + Max0 : tsBuf[i] = Zero
    /\ tsPc = "search" =>
        /\ tsPieces # 0
        /\ tsJob.who = "files" => tsCount < TsBufSize + Max0 /\ tsBuf[tsCount + 1] = Zero

Good ==
    /\ Held /\ Zeros
    /\ tsPc \in {"read", "search", "rest"} => Passed /\ tsFound = NotFound
    /\ tsPc \in {"read", "rest"} => tsCount < Max0
    /\ tsPc = "rest" => Left = 0
    /\ tsPc = "done" => TextFound

\* The inductive invariant.
TsInv ==
    /\ JobOK /\ tsPieces \in Nat /\ tsRead \in Nat
    /\ tsBuf = [i \in 1..TsBufSize + Max0 |-> tsBuf[i]]
    /\ tsPc \in {"read", "search", "rest", "done", "failed"}
    /\ Whole => Good

LEMMA SearchBegins ==
    ASSUME TsInit
    PROVE  TsInv
<1>1. JobOK
    BY DEF TsInit, JobOK
<1>2. Max0 \in Nat \ {0} /\ TsBufSize \in Nat \ {0} /\ Len(tsJob.file) \in Nat
    BY <1>1, LengthsAre
<1>3. /\ tsBuf = [i \in 1..TsBufSize + Max0 |-> Zero]
      /\ tsCount = 0 /\ tsOffset = tsJob.from /\ tsRead = 0 /\ tsPieces = 0
      /\ tsFound = NotFound /\ tsPc = "read"
    BY DEF TsInit
<1> DEFINE size == TsBufSize + Max0
<1>4. /\ size \in Nat /\ tsBuf = [i \in 1..size |-> tsBuf[i]]
      /\ \A i \in 1..size : tsBuf[i] = Zero
    BY <1>2, <1>3
<1>5. Len(tsBuf) = size
    <2> HIDE DEF size
    <2> QED
        BY <1>4, LenIs
<1>6. Held
    <2>1. tsJob.from \in Nat /\ tsJob.from <= Len(tsJob.file)
        BY <1>1 DEF JobOK
    <2>2. \A i \in 1..tsCount : FALSE
        BY <1>3
    <2> QED
        BY <1>2, <1>3, <1>4, <1>5, <2>1, <2>2 DEF Held, Holds
<1>7. Passed
    <2>1. ASSUME NEW i \in DOMAIN tsJob.searchers, NEW at \in Occurrences(tsJob.searchers[i])
          PROVE  at > tsOffset
        <3>1. at \in tsJob.from + 1..Len(tsJob.file) /\ tsJob.from \in Nat
            BY <1>1 DEF Occurrences, JobOK
        <3> QED
            BY <1>2, <1>3, <3>1
    <2> QED
        BY <2>1 DEF Passed
<1>8. Zeros
    BY <1>3, <1>4 DEF Zeros
<1>9. Good
    BY <1>2, <1>3, <1>6, <1>7, <1>8 DEF Good
<1> QED
    BY <1>1, <1>3, <1>4, <1>9 DEF TsInv

\* What the lemmas say of the job holds after a step, which leaves it as it is.
LEMMA SameText ==
    ASSUME JobOK, tsJob' = tsJob
    PROVE  /\ JobOK' /\ Max0' = Max0 /\ Min0' = Min0
           /\ \A s : Occurrences(s)' = Occurrences(s)
<1>1. JobOK'
    BY DEF JobOK
<1>2. Max0' = Max0 /\ Min0' = Min0
    BY DEF Max0, Min0
<1>3. \A s : Occurrences(s)' = Occurrences(s)
    BY DEF Occurrences
<1> QED
    BY <1>1, <1>2, <1>3

LEMMA ReadKeeps ==
    ASSUME TsInv, Read
    PROVE  TsInv'
<1> DEFINE size == TsBufSize + Max0
           file == tsJob.file
<1>1. tsJob' = tsJob /\ tsOffset' = tsOffset /\ tsFound' = tsFound /\ tsPc = "read"
    BY DEF Read
<1>2. JobOK /\ tsPieces \in Nat /\ tsRead \in Nat /\ tsBuf = [i \in 1..size |-> tsBuf[i]] /\ (Whole => Good)
    BY DEF TsInv
<1>3. /\ JobOK' /\ Max0' = Max0 /\ Min0' = Min0 /\ \A s : Occurrences(s)' = Occurrences(s)
    BY <1>1, <1>2, SameText
<1>4. /\ Max0 \in Nat \ {0} /\ Min0 \in Nat \ {0} /\ TsBufSize \in Nat \ {0} /\ Len(file) \in Nat
      /\ size \in Nat /\ tsJob.from \in Nat
    BY <1>2, LengthsAre DEF JobOK
<1>5. Len(tsBuf) = size /\ DOMAIN tsBuf = 1..size
    <2> HIDE DEF size
    <2> QED
        BY <1>2, <1>4, LenIs
<1> DEFINE Ready == Held /\ Zeros /\ Passed /\ tsFound = NotFound /\ tsCount < Max0
<1>6. Whole => Ready
    BY <1>1, <1>2 DEF Good
<1>7. Passed => Passed'
    BY <1>1, <1>3 DEF Passed
<1>8. CASE Left = 0
    <2>1. /\ tsPc' = IF tsPieces = 0 THEN "done" ELSE "rest"
          /\ UNCHANGED <<tsBuf, tsCount, tsRead, tsPieces>>
        BY <1>8 DEF Read
    <2>2. Whole' <=> Whole
        BY <1>1, <2>1 DEF Whole, Left
    <2>3. ASSUME Whole
          PROVE  Good'
        <3>1. Ready
            BY <1>6, <2>3
        <3>2. Held'
            BY <1>1, <2>1, <3>1 DEF Held, Holds
        <3>3. Zeros'
            <4>1. tsPc' # "search"
                BY <2>1
            <4> QED
                BY <1>1, <1>3, <2>1, <3>1, <4>1 DEF Zeros
        <3>4. Left' = 0
            BY <1>1, <1>8, <2>1 DEF Left
        <3>5. CASE tsPieces = 0
            <4>1. tsCount = 0
                BY <3>1, <3>5 DEF Zeros
            <4>2. ASSUME tsJob.who = "view"
                  PROVE  Occurrences(tsJob.searchers[1]) = {}
                <5>1. 1 \in DOMAIN tsJob.searchers
                    BY <1>2, LengthsAre
                <5>2. 0 \in Int /\ 1..0 = {} /\ 0 >= tsCount - Min0 + 1
                    BY <1>4, <4>1
                <5> QED
                    BY <1>2, <1>8, <3>1, <5>1, <5>2, Miss
            <4>3. TextFound'
                <5>1. tsPieces' # 1
                    BY <2>1, <3>5
                <5> QED
                    BY <1>1, <1>3, <3>1, <4>2, <5>1 DEF TextFound
            <4> QED
                BY <2>1, <3>2, <3>3, <3>5, <4>3 DEF Good
        <3>6. CASE tsPieces # 0
            BY <1>1, <1>3, <1>7, <2>1, <3>1, <3>2, <3>3, <3>4, <3>6 DEF Good
        <3> QED
            BY <3>5, <3>6
    <2>4. tsPc' \in {"read", "search", "rest", "done", "failed"}
        BY <2>1
    <2>5. tsBuf' = [i \in 1..TsBufSize + Max0' |-> tsBuf'[i]]
        BY <1>2, <1>3, <2>1
    <2> QED
        BY <1>2, <1>3, <2>1, <2>2, <2>3, <2>4, <2>5 DEF TsInv
<1>9. CASE Left # 0
    <2>1. PICK n \in 1..Smaller(Left, Capacity - Behind) :
                /\ tsBuf' = WithBytes(Behind, n)
                /\ tsCount' = tsCount + n
                /\ tsRead' = tsRead + n
                /\ tsPieces' = tsPieces + 1
                /\ tsPc' = "search"
        BY <1>9 DEF Read
    <2>2. n \in Nat \ {0} /\ tsRead' \in Nat /\ tsPieces' \in Nat \ {0}
        BY <1>2, <2>1
    <2>3. /\ tsBuf' = [i \in 1..size |-> tsBuf'[i]]
          /\ \A i \in 1..size : tsBuf'[i] = IF i \in Behind + 1..Behind + n
                                            THEN file[tsJob.from + tsRead + i - Behind] ELSE tsBuf[i]
        BY <1>5, <2>1 DEF WithBytes
    <2>4. ASSUME Whole'
          PROVE  Good'
        <3>1. tsJob.who = "view" \/ tsPieces = 0
            BY <1>1, <1>2, <2>1, <2>4 DEF Whole
        <3>2. Whole /\ Ready
            BY <1>6, <3>1 DEF Whole
        <3>3. /\ tsOffset \in Nat /\ tsCount \in Nat /\ tsOffset + tsCount = tsJob.from + tsRead
              /\ tsOffset >= tsJob.from /\ \A i \in 1..tsCount : tsBuf[i] = file[tsOffset + i]
            BY <3>2 DEF Held, Holds
        <3>4. Behind = tsCount
            BY <1>2, <3>1, <3>2 DEF Behind, Zeros
        <3>5. /\ Capacity \in Nat /\ Capacity <= size
              /\ tsJob.who = "files" => Capacity < size
            BY <1>4 DEF Capacity
        <3>6. n <= Capacity - tsCount /\ n <= Len(file) - tsJob.from - tsRead
            <4>1. Left \in Int
                BY <1>2, <1>4 DEF Left
            <4>2. n <= Left /\ n <= Capacity - tsCount
                BY <2>1, <2>2, <3>3, <3>4, <3>5, <4>1 DEF Smaller
            <4> QED
                BY <4>2 DEF Left
        <3>7. tsCount' <= size /\ tsOffset + tsCount' <= Len(file) /\ tsCount' \in Nat
            <4> DEFINE len == Len(file)
                       from == tsJob.from
            <4>1. len \in Nat /\ from \in Nat /\ size \in Nat /\ tsRead \in Nat /\ tsCount \in Nat
                  /\ tsOffset \in Nat /\ Capacity \in Nat
                BY <1>2, <1>4, <3>3, <3>5
            <4>2. /\ tsOffset + tsCount = from + tsRead /\ n <= Capacity - tsCount /\ n <= len - from - tsRead
                  /\ Capacity <= size /\ tsCount' = tsCount + n
                BY <2>1, <3>3, <3>5, <3>6
            <4> HIDE DEF len, from, size
            <4>3. tsCount' <= size /\ tsOffset + tsCount' <= len /\ tsCount' \in Nat
                BY <2>2, <4>1, <4>2
            <4> QED
                BY <4>3 DEF len
        <3>8. Len(tsBuf') = size
            <4> HIDE DEF size
            <4> QED
                BY <1>4, <2>3, LenIs
        <3>9. ASSUME NEW i \in 1..tsCount'
              PROVE  tsBuf'[i] = file[tsOffset + i]
            <4>1. i \in 1..size
                BY <1>4, <3>7, <3>9
            <4>2. CASE i \in tsCount + 1..tsCount + n
                <5>1. tsJob.from + tsRead + i - tsCount = tsOffset + i
                    BY <1>2, <1>4, <3>3, <4>2
                <5>2. tsBuf'[i] = file[tsJob.from + tsRead + i - tsCount]
                    BY <2>3, <3>4, <4>1, <4>2
                <5> QED
                    BY <5>1, <5>2
            <4>3. CASE i \notin tsCount + 1..tsCount + n
                <5>1. i \in 1..tsCount
                    BY <2>1, <2>2, <3>3, <3>7, <3>9, <4>3
                <5>2. tsBuf'[i] = tsBuf[i]
                    BY <2>3, <3>4, <4>1, <4>3
                <5> QED
                    BY <3>3, <5>1, <5>2
            <4> QED
                BY <4>2, <4>3
        <3>10. Held'
            <4>1. tsOffset' + tsCount' = tsJob'.from + tsRead' /\ tsOffset' >= tsJob'.from
                <5> DEFINE from == tsJob.from
                <5>1. from \in Nat /\ tsRead \in Nat /\ tsCount \in Nat /\ tsOffset \in Nat
                      /\ tsOffset + tsCount = from + tsRead /\ tsOffset >= from
                    BY <1>2, <1>4, <3>3
                <5>2. tsJob'.from = from /\ tsCount' = tsCount + n /\ tsRead' = tsRead + n /\ tsOffset' = tsOffset
                    BY <1>1, <2>1
                <5> HIDE DEF from
                <5>3. tsOffset + (tsCount + n) = from + (tsRead + n)
                    BY <2>2, <5>1
                <5> QED
                    BY <5>1, <5>2, <5>3
            <4>2. Holds(tsBuf', file, tsOffset, tsCount')
                BY <1>4, <3>3, <3>7, <3>8, <3>9 DEF Holds
            <4>3. Holds(tsBuf, tsJob.file, tsOffset, tsCount)' = Holds(tsBuf', tsJob'.file, tsOffset', tsCount')
                BY DEF Holds
            <4> QED
                BY <1>1, <4>1, <4>2, <4>3 DEF Held
        <3>11. Zeros'
            <4>1. ASSUME tsJob.who = "files"
                  PROVE  tsCount' < size /\ tsBuf'[tsCount' + 1] = Zero
                <5>1. tsPieces = 0 /\ \A i \in 1..size : tsBuf[i] = Zero
                    BY <3>1, <3>2, <4>1 DEF Zeros
                <5>2. tsCount' < size /\ tsCount' + 1 \in 1..size /\ tsCount' + 1 \notin tsCount + 1..tsCount + n
                    BY <1>4, <2>1, <2>2, <3>3, <3>5, <3>6, <3>7, <4>1
                <5> QED
                    BY <2>3, <3>4, <5>1, <5>2
            <4> QED
                BY <1>1, <1>3, <2>2, <4>1 DEF Zeros
        <3> QED
            BY <1>1, <1>7, <2>1, <3>2, <3>10, <3>11 DEF Good
    <2>5. tsBuf' = [i \in 1..TsBufSize + Max0' |-> tsBuf'[i]]
        BY <1>3, <2>3
    <2> QED
        BY <1>3, <2>1, <2>2, <2>4, <2>5 DEF TsInv
<1> QED
    BY <1>8, <1>9

\* A search that ends with a text, or with none where there is none, ends well.
LEMMA SearchEnds ==
    ASSUME JobOK, tsJob' = tsJob,
           \/ Found(tsFound')
           \/ tsFound' = NotFound /\ \A i \in DOMAIN tsJob.searchers : Occurrences(tsJob.searchers[i]) = {}
    PROVE  TextFound'
<1> DEFINE ss == tsJob.searchers
<1>1. 1 \in DOMAIN ss /\ (tsJob.who = "view" => DOMAIN ss = {1}) /\ \A s : Occurrences(s)' = Occurrences(s)
    BY LengthsAre, SameText
<1>2. CASE Found(tsFound')
    <2>1. tsFound' # NotFound /\ \E i \in DOMAIN ss :
            /\ tsFound'.at \in Occurrences(ss[i])
            /\ tsFound'.len = MatchLen(ss[i], tsJob.file, tsFound'.at)
            /\ \A at \in Occurrences(ss[i]) : tsFound'.at <= at
        BY <1>2 DEF Found
    <2> QED
        BY <1>1, <2>1 DEF TextFound
<1>3. CASE tsFound' = NotFound /\ \A i \in DOMAIN ss : Occurrences(ss[i]) = {}
    BY <1>1, <1>3 DEF TextFound
<1> QED
    BY <1>2, <1>3

LEMMA SearchKeeps ==
    ASSUME TsInv, SearchPiece
    PROVE  TsInv'
<1> DEFINE size == TsBufSize + Max0
           file == tsJob.file
           ss == tsJob.searchers
           n == tsCount - Max0 + 1
           m == MegaSearch(ss, tsBuf, n + 1)
           t == tsCount - n
<1>1. /\ tsJob' = tsJob /\ tsRead' = tsRead /\ tsPieces' = tsPieces /\ tsPc = "search"
      /\ \/ n <= 0 /\ tsPc' = "read" /\ UNCHANGED <<tsBuf, tsCount, tsOffset, tsFound>>
         \/ /\ ~(n <= 0) /\ m # NotFound
            /\ tsFound' = [m EXCEPT !.at = @ + tsOffset]
            /\ tsPc' = "done" /\ UNCHANGED <<tsBuf, tsCount, tsOffset>>
         \/ /\ ~(n <= 0) /\ m = NotFound
            /\ tsBuf' = [i \in DOMAIN tsBuf |-> IF i <= t THEN tsBuf[n + i] ELSE tsBuf[i]]
            /\ tsCount' = t /\ tsOffset' = tsOffset + n
            /\ tsPc' = "read" /\ UNCHANGED tsFound
    BY DEF SearchPiece
<1>2. JobOK /\ tsPieces \in Nat /\ tsRead \in Nat /\ tsBuf = [i \in 1..size |-> tsBuf[i]] /\ (Whole => Good)
    BY DEF TsInv
<1>3. /\ JobOK' /\ Max0' = Max0 /\ Min0' = Min0 /\ \A s : Occurrences(s)' = Occurrences(s)
    BY <1>1, <1>2, SameText
<1>4. /\ Max0 \in Nat \ {0} /\ Min0 \in Nat \ {0} /\ TsBufSize \in Nat \ {0} /\ Len(file) \in Nat
      /\ size \in Nat /\ tsJob.from \in Nat /\ Len(ss) \in Nat /\ DOMAIN ss = 1..Len(ss)
      /\ \A i \in DOMAIN ss : IsSearcher(ss[i])
      /\ tsJob.who = "view" => DOMAIN ss = {1} /\ Max0 = VMaxLen(ss[1])
      /\ tsJob.who \in {"view", "files"}
    BY <1>2, LengthsAre DEF JobOK
<1>5. Len(tsBuf) = size /\ DOMAIN tsBuf = 1..size
    <2> HIDE DEF size
    <2> QED
        BY <1>2, <1>4, LenIs
<1> HIDE DEF m
<1>6. Whole' <=> Whole
    BY <1>1 DEF Whole, Left
<1>7. tsBuf' = [i \in 1..TsBufSize + Max0' |-> tsBuf'[i]]
    <2>1. tsBuf' = [i \in 1..size |-> tsBuf'[i]]
        <3>1. CASE tsBuf' = tsBuf
            BY <1>2, <3>1
        <3>2. CASE tsBuf' = [i \in DOMAIN tsBuf |-> IF i <= t THEN tsBuf[n + i] ELSE tsBuf[i]]
            BY <1>5, <3>2
        <3> QED
            BY <1>1, <3>1, <3>2
    <2> QED
        BY <1>3, <2>1
<1>8. ASSUME Whole
      PROVE  Good'
    <2>1. Held /\ Zeros /\ Passed /\ tsFound = NotFound
        BY <1>1, <1>2, <1>8 DEF Good
    <2>2. /\ tsOffset \in Nat /\ tsCount \in Nat /\ tsOffset + tsCount = tsJob.from + tsRead
          /\ tsOffset >= tsJob.from /\ \A i \in 1..tsCount : tsBuf[i] = file[tsOffset + i]
          /\ Holds(tsBuf, file, tsOffset, tsCount)
          /\ tsCount <= size /\ tsOffset + tsCount <= Len(file)
        BY <1>5, <2>1 DEF Held, Holds
    <2>3. n \in Int /\ n <= tsCount /\ t = Max0 - 1 /\ (n + 1) - 1 = n /\ n + 1 \in Int
        BY <1>4, <2>2
    <2>4. tsPieces # 0 /\ (tsJob.who = "files" => tsCount < size /\ tsBuf[tsCount + 1] = Zero)
        BY <1>1, <2>1 DEF Zeros
    <2>5. tsJob.who = "files" => Len(file) = tsOffset + tsCount
        <3>1. tsJob.who = "files" => Left = 0
            BY <1>8, <2>4 DEF Whole
        <3>2. ASSUME Left = 0
              PROVE  Len(file) = tsOffset + tsCount
            <4> DEFINE len == Len(file)
                       from == tsJob.from
            <4>1. len - from - tsRead = 0 /\ len \in Nat /\ from \in Nat /\ tsRead \in Nat
                  /\ tsOffset \in Nat /\ tsCount \in Nat /\ tsOffset + tsCount = from + tsRead
                BY <1>2, <1>4, <2>2, <3>2 DEF Left
            <4> HIDE DEF len, from
            <4>2. len = tsOffset + tsCount
                BY <4>1
            <4> QED
                BY <4>2 DEF len
        <3> QED
            BY <3>1, <3>2
    <2>6. ASSUME NEW i \in DOMAIN ss, NEW at \in 1..n
          PROVE  MatchLen(ss[i], tsBuf, at) = MatchLen(ss[i], file, tsOffset + at)
        <3>1. at \in Nat /\ at >= 1 /\ at <= n /\ IsSearcher(ss[i])
            BY <1>4, <2>3
        <3>2. CASE tsJob.who = "view"
            <4>1. i = 1 /\ VMaxLen(ss[i]) = Max0
                BY <1>4, <3>2
            <4>2. at + VMaxLen(ss[i]) - 1 <= tsCount
                BY <1>4, <2>2, <3>1, <4>1
            <4> HIDE DEF n, file
            <4> QED
                BY <2>2, <3>1, <4>2, PieceSame
        <3>3. CASE tsJob.who = "files"
            <4>1. at \in 1..tsCount + 1 /\ tsCount + 1 <= Len(tsBuf)
                BY <1>4, <1>5, <2>2, <2>3, <2>4, <3>1, <3>3
            <4> HIDE DEF n, file
            <4>2. Holds(tsBuf, file, tsOffset, tsCount) /\ Len(file) = tsOffset + tsCount
                  /\ tsBuf[tsCount + 1] = Zero /\ IsSearcher(ss[i])
                BY <2>2, <2>4, <2>5, <3>1, <3>3
            <4> HIDE DEF ss
            <4> QED
                BY <4>1, <4>2, RestSame
        <3> QED
            BY <1>4, <3>2, <3>3
    <2>7. Agree(tsBuf, n)
        BY <2>6 DEF Agree
    <2> HIDE DEF n
    <2>8. CASE n <= 0
        <3>1. tsPc' = "read" /\ UNCHANGED <<tsBuf, tsCount, tsOffset, tsFound>>
            BY <1>1, <2>8
        <3>2. tsCount < Max0
            BY <1>4, <2>2, <2>8 DEF n
        <3>3. Held' /\ Passed'
            BY <1>1, <1>3, <2>1, <3>1 DEF Held, Holds, Passed
        <3>4. Zeros'
            BY <1>1, <2>4, <3>1 DEF Zeros
        <3> QED
            BY <1>1, <1>3, <2>1, <3>1, <3>2, <3>3, <3>4 DEF Good
    <2>9. CASE ~(n <= 0) /\ m # NotFound
        <3>1. tsFound' = [m EXCEPT !.at = @ + tsOffset] /\ tsPc' = "done" /\ UNCHANGED <<tsBuf, tsCount, tsOffset>>
            BY <1>1, <2>9
        <3>2. m = [at |-> m.at, len |-> m.len] /\ FindsAt(ss, tsBuf, n + 1, m)
            BY <1>4, <2>3, <2>9, MegaIs DEF m
        <3>3. Found([m EXCEPT !.at = @ + tsOffset])
            BY <1>2, <2>1, <2>3, <2>7, <3>2, Hit
        <3>4. Found(tsFound')
            BY <3>1, <3>3
        <3>5. TextFound'
            BY <1>1, <1>2, <3>4, SearchEnds
        <3>6. Held'
            BY <1>1, <2>1, <3>1 DEF Held, Holds
        <3>7. Zeros'
            BY <1>1, <2>4, <3>1 DEF Zeros
        <3> QED
            BY <3>1, <3>5, <3>6, <3>7 DEF Good
    <2>10. CASE ~(n <= 0) /\ m = NotFound
        <3>1. /\ tsBuf' = [i \in DOMAIN tsBuf |-> IF i <= t THEN tsBuf[n + i] ELSE tsBuf[i]]
              /\ tsCount' = t /\ tsOffset' = tsOffset + n
              /\ tsPc' = "read" /\ UNCHANGED tsFound
            BY <1>1, <2>10
        <3> HIDE DEF t
        <3>2. t \in Nat /\ t < Max0 /\ n + t = tsCount /\ n \in Nat
            BY <1>4, <2>2, <2>3, <2>10 DEF t
        <3>3. ASSUME NEW i \in DOMAIN ss, NEW at \in 1..n
              PROVE  ~(MatchLen(ss[i], file, tsOffset + at) > 0)
            <4>1. ~(MatchLen(ss[i], tsBuf, at) > 0)
                BY <1>4, <2>3, <2>10, MegaIs DEF m
            <4> QED
                BY <2>6, <4>1
        <3>4. Passed'
            <4>1. ASSUME NEW i \in DOMAIN ss, NEW at \in Occurrences(ss[i])
                  PROVE  at > tsOffset + n
                BY <1>2, <2>1, <2>3, <3>3, Miss
            <4> QED
                BY <1>1, <1>3, <3>1, <4>1 DEF Passed
        <3>5. ASSUME NEW i \in 1..t
              PROVE  tsBuf'[i] = file[(tsOffset + n) + i]
            <4>1. i \in 1..size /\ n + i \in 1..tsCount /\ i <= t /\ tsOffset + (n + i) = (tsOffset + n) + i
                BY <1>4, <2>2, <3>2
            <4>2. tsBuf'[i] = tsBuf[n + i]
                BY <1>5, <3>1, <4>1
            <4> QED
                BY <2>2, <4>1, <4>2
        <3>6. Len(tsBuf') = size
            <4>1. tsBuf' = [i \in 1..size |-> tsBuf'[i]]
                BY <1>3, <1>7
            <4> HIDE DEF size
            <4> QED
                BY <1>4, <4>1, LenIs
        <3>7. Holds(tsBuf', file, tsOffset + n, t)
            BY <1>4, <2>2, <3>2, <3>5, <3>6 DEF Holds
        <3>8. Held'
            <4>1. Holds(tsBuf, tsJob.file, tsOffset, tsCount)' = Holds(tsBuf', tsJob'.file, tsOffset', tsCount')
                BY DEF Holds
            <4>2. (tsOffset + n) + t = tsJob.from + tsRead /\ tsOffset + n >= tsJob.from
                <5> DEFINE from == tsJob.from
                <5>1. from \in Nat /\ tsOffset + tsCount = from + tsRead /\ tsOffset >= from /\ tsOffset \in Nat
                    BY <1>4, <2>2
                <5> HIDE DEF from
                <5>2. (tsOffset + n) + t = tsOffset + tsCount /\ tsOffset + n >= from
                    BY <3>2, <5>1
                <5>3. (tsOffset + n) + t = from + tsRead
                    BY <5>1, <5>2
                <5> QED
                    BY <5>2, <5>3 DEF from
            <4> QED
                BY <1>1, <3>1, <3>7, <4>1, <4>2 DEF Held
        <3>9. Zeros'
            BY <1>1, <2>4, <3>1 DEF Zeros
        <3> QED
            BY <1>3, <2>1, <3>1, <3>2, <3>4, <3>8, <3>9 DEF Good
    <2> QED
        BY <2>8, <2>9, <2>10
<1>9. tsPc' \in {"read", "search", "rest", "done", "failed"}
    BY <1>1
<1> QED
    BY <1>1, <1>2, <1>3, <1>6, <1>7, <1>8, <1>9 DEF TsInv

LEMMA RestKeeps ==
    ASSUME TsInv, SearchRest
    PROVE  TsInv'
<1> DEFINE size == TsBufSize + Max0
           file == tsJob.file
           ss == tsJob.searchers
           zeros == Smaller(Max0 - Min0, Larger(Capacity - tsCount, 0))
           b == [i \in DOMAIN tsBuf |-> IF i \in tsCount + 1..tsCount + zeros THEN Zero ELSE tsBuf[i]]
           n == tsCount + zeros - Max0 + 1
           m == MegaSearch(ss, b, n + 1)
<1>1. /\ UNCHANGED <<tsJob, tsBuf, tsCount, tsOffset, tsRead, tsPieces>>
      /\ tsPc = "rest" /\ tsPc' = "done"
      /\ \/ Min0 < Max0 /\ n > 0 /\ m # NotFound /\ tsFound' = [m EXCEPT !.at = @ + tsOffset]
         \/ ~(Min0 < Max0 /\ n > 0 /\ m # NotFound) /\ tsFound' = tsFound
    BY DEF SearchRest
<1>2. JobOK /\ tsPieces \in Nat /\ tsRead \in Nat /\ tsBuf = [i \in 1..size |-> tsBuf[i]] /\ (Whole => Good)
    BY DEF TsInv
<1>3. /\ JobOK' /\ Max0' = Max0 /\ Min0' = Min0 /\ \A s : Occurrences(s)' = Occurrences(s)
    BY <1>1, <1>2, SameText
<1>4. /\ Max0 \in Nat \ {0} /\ Min0 \in Nat \ {0} /\ Min0 <= Max0 /\ TsBufSize \in Nat \ {0}
      /\ 2 * Max0 <= TsBufSize + 1 /\ Len(file) \in Nat /\ size \in Nat /\ tsJob.from \in Nat
      /\ Len(ss) \in Nat /\ DOMAIN ss = 1..Len(ss) /\ \A i \in DOMAIN ss : IsSearcher(ss[i])
    BY <1>2, LengthsAre DEF JobOK
<1>5. Len(tsBuf) = size /\ DOMAIN tsBuf = 1..size
    <2> HIDE DEF size
    <2> QED
        BY <1>2, <1>4, LenIs
<1> HIDE DEF m
<1>6. ASSUME Whole
      PROVE  Good'
    <2>1. Held /\ Zeros /\ Passed /\ tsFound = NotFound /\ tsCount < Max0 /\ Left = 0
        BY <1>1, <1>2, <1>6 DEF Good
    <2>2. /\ tsOffset \in Nat /\ tsCount \in Nat /\ tsOffset + tsCount = tsJob.from + tsRead
          /\ \A i \in 1..tsCount : tsBuf[i] = file[tsOffset + i]
          /\ tsCount <= size /\ tsOffset + tsCount <= Len(file)
        BY <1>5, <2>1 DEF Held, Holds
    <2>3. zeros = Max0 - Min0
        <3>1. Capacity \in Nat /\ Capacity >= TsBufSize
            BY <1>4 DEF Capacity
        <3>2. Capacity - tsCount \in Nat /\ Max0 - Min0 <= Capacity - tsCount
            BY <1>4, <2>1, <2>2, <3>1
        <3> QED
            BY <1>4, <3>2 DEF Smaller, Larger
    <2>4. b = [i \in 1..size |-> b[i]] /\ \A i \in 1..size :
                b[i] = IF i \in tsCount + 1..tsCount + zeros THEN Zero ELSE tsBuf[i]
        BY <1>5
    <2> HIDE DEF zeros, b
    <2>5. n = tsCount - Min0 + 1 /\ n \in Int /\ n <= tsCount /\ (n + 1) - 1 = n /\ n + 1 \in Int
        BY <1>4, <2>2, <2>3
    <2>6. Len(b) = size
        <3> HIDE DEF size
        <3> QED
            BY <1>4, <2>4, LenIs
    <2>7. Len(file) = tsOffset + tsCount
        <3> DEFINE len == Len(file)
                   from == tsJob.from
        <3>1. len - from - tsRead = 0 /\ len \in Nat /\ from \in Nat /\ tsRead \in Nat
              /\ tsOffset \in Nat /\ tsCount \in Nat /\ tsOffset + tsCount = from + tsRead
            BY <1>2, <1>4, <2>1, <2>2 DEF Left
        <3> HIDE DEF len, from
        <3>2. len = tsOffset + tsCount
            BY <3>1
        <3> QED
            BY <3>2 DEF len
    <2>8. Holds(b, file, tsOffset, tsCount)
        <3>1. ASSUME NEW i \in 1..tsCount
              PROVE  b[i] = file[tsOffset + i]
            <4>1. i \in 1..size /\ i \notin tsCount + 1..tsCount + zeros
                BY <1>4, <2>2
            <4> QED
                BY <2>2, <2>4, <4>1
        <3> QED
            BY <1>4, <2>2, <2>6, <3>1 DEF Holds
    <2> HIDE DEF n
    <2>9. ASSUME Min0 < Max0, NEW i \in DOMAIN ss, NEW at \in 1..n
          PROVE  MatchLen(ss[i], b, at) = MatchLen(ss[i], file, tsOffset + at)
        <3>1. /\ tsCount + 1 \in tsCount + 1..tsCount + zeros /\ tsCount + 1 \in 1..size
              /\ tsCount + 1 <= Len(b) /\ at \in 1..tsCount + 1
            BY <1>4, <2>1, <2>2, <2>3, <2>5, <2>6, <2>9
        <3>2. b[tsCount + 1] = Zero
            BY <2>4, <3>1
        <3>3. IsSearcher(ss[i])
            BY <1>4
        <3> HIDE DEF ss, file
        <3> QED
            BY <2>7, <2>8, <3>1, <3>2, <3>3, RestSame
    <2>10. TextFound' => Good'
        <3>1. Held'
            BY <1>1, <2>1 DEF Held, Holds
        <3>2. Zeros'
            BY <1>1, <1>3, <2>1 DEF Zeros
        <3> QED
            BY <1>1, <3>1, <3>2 DEF Good
    <2>11. CASE Min0 < Max0 /\ n > 0 /\ m # NotFound
        <3>1. tsFound' = [m EXCEPT !.at = @ + tsOffset]
            BY <1>1, <2>11 DEF n
        <3>2. m = [at |-> m.at, len |-> m.len] /\ FindsAt(ss, b, n + 1, m)
            <4>1. m = MegaSearch(ss, b, n + 1)
                BY DEF m, n
            <4> QED
                BY <1>4, <2>5, <2>11, <4>1, MegaIs
        <3>3. Agree(b, n)
            BY <2>9, <2>11 DEF Agree
        <3>4. Found([m EXCEPT !.at = @ + tsOffset])
            BY <1>2, <2>1, <2>5, <3>2, <3>3, Hit
        <3>5. Found(tsFound')
            BY <3>1, <3>4
        <3> QED
            BY <1>1, <1>2, <2>10, <3>5, SearchEnds
    <2>12. CASE ~(Min0 < Max0 /\ n > 0 /\ m # NotFound)
        <3>1. tsFound' = NotFound
            BY <1>1, <2>1, <2>12 DEF n
        <3>2. ASSUME NEW i \in DOMAIN ss
              PROVE  Occurrences(ss[i]) = {}
            <4>1. ASSUME NEW at \in 1..n
                  PROVE  ~(MatchLen(ss[i], file, tsOffset + at) > 0)
                <5>1. n > 0 /\ Min0 < Max0
                    BY <1>4, <2>1, <2>2, <2>5, <4>1
                <5>2. m = NotFound
                    BY <2>12, <5>1
                <5>3. m = MegaSearch(ss, b, n + 1)
                    BY DEF m, n
                <5>4. ~(MatchLen(ss[i], b, at) > 0)
                    BY <1>4, <2>5, <5>2, <5>3, MegaIs
                <5> QED
                    BY <2>9, <5>1, <5>4
            <4>2. n >= tsCount - Min0 + 1
                BY <1>4, <2>2, <2>5
            <4> QED
                BY <1>2, <2>1, <2>5, <4>1, <4>2, Miss
        <3> QED
            BY <1>1, <1>2, <2>10, <3>1, <3>2, SearchEnds
    <2> QED
        BY <2>11, <2>12
<1>7. Whole' <=> Whole
    BY <1>1 DEF Whole, Left
<1>8. tsBuf' = [i \in 1..TsBufSize + Max0' |-> tsBuf'[i]]
    BY <1>1, <1>2, <1>3
<1> QED
    BY <1>1, <1>2, <1>3, <1>6, <1>7, <1>8 DEF TsInv

\* A step that leaves all but the place in the code and the result as it is.
LEMMA EndKeeps ==
    ASSUME TsInv, UNCHANGED <<tsJob, tsBuf, tsCount, tsOffset, tsRead, tsPieces, tsFound>>,
           tsPc' = "failed" \/ tsPc' = tsPc
    PROVE  TsInv'
<1>1. JobOK /\ tsPieces \in Nat /\ tsRead \in Nat /\ tsBuf = [i \in 1..TsBufSize + Max0 |-> tsBuf[i]]
      /\ (Whole => Good) /\ tsPc \in {"read", "search", "rest", "done", "failed"}
    BY DEF TsInv
<1>2. /\ JobOK' /\ Max0' = Max0 /\ Min0' = Min0 /\ \A s : Occurrences(s)' = Occurrences(s)
    BY <1>1, SameText
<1>3. (Whole' <=> Whole) /\ Left' = Left
    BY DEF Whole, Left
<1>4. ASSUME Whole
      PROVE  Good'
    <2>1. Held' /\ (Passed => Passed')
        BY <1>1, <1>2, <1>4 DEF Good, Held, Holds, Passed
    <2>2. Zeros'
        BY <1>1, <1>2, <1>4 DEF Good, Zeros
    <2>3. tsPc' = "done" => TextFound'
        BY <1>1, <1>2, <1>3, <1>4 DEF Good, TextFound
    <2> QED
        BY <1>1, <1>2, <1>3, <1>4, <2>1, <2>2, <2>3 DEF Good
<1> QED
    BY <1>1, <1>2, <1>3, <1>4 DEF TsInv

\* Wherever the pieces that are read are divided, the viewer finds the first text
\* behind the place it starts from, and nothing only where there is nothing; and
\* the file search reports a file that it read at once if and only if one of its
\* texts is in it (VSThreadFunc, OperSearchThread::TextSearch, MegaSearcher).
THEOREM FindsTheText == TsSpec => []TextFound
<1>1. TsInit => TsInv
    BY SearchBegins
<1>2. TsInv /\ [TsNext]_tsVars => TsInv'
    <2> SUFFICES ASSUME TsInv, [TsNext]_tsVars
                 PROVE  TsInv'
        OBVIOUS
    <2>1. CASE Read
        BY <2>1, ReadKeeps
    <2>2. CASE SearchPiece
        BY <2>2, SearchKeeps
    <2>3. CASE SearchRest
        BY <2>3, RestKeeps
    <2>4. CASE ReadFails
        BY <2>4, EndKeeps DEF ReadFails
    <2>5. CASE UNCHANGED tsVars
        BY <2>5, EndKeeps DEF tsVars
    <2> QED
        BY <2>1, <2>2, <2>3, <2>4, <2>5 DEF TsNext
<1>3. TsInv => TextFound
    BY DEF TsInv, Good, Whole, TextFound
<1> QED
    BY <1>1, <1>2, <1>3, PTL DEF TsSpec
=============================================================================
