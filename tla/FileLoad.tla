------------------------------ MODULE FileLoad ------------------------------
(***************************************************************************)
(* The operations that move a whole file block by block behind a dialog:   *)
(* the editor's LoadFile and SaveFile (eloadsave.cpp), and LoadToTempFile  *)
(* (file-util.cpp), which copies a file of a file system without seeking   *)
(* for the viewer and for programs.                                        *)
(*                                                                         *)
(* A file is the number of its blocks, or FlPart when one was lost or cut. *)
(* EditSession sees a load or a save as one step; here the dialog may be   *)
(* closed, and every call may fail, at any point.                          *)
(***************************************************************************)
EXTENDS Integers, Sequences, OperJob

CONSTANT FlBlocks       \* the lengths of files, in blocks

ASSUME LoadAssumption == FlBlocks \subseteq Nat

\* no file, the file as it was, and one of which a part is missing
FlNone == -1
FlOld == -2
FlPart == -3

VARIABLES
    flJob,      \* what is asked for: [kind, blocks, exists, new]
    flPc,       \* where the thread is
    flDone,     \* the number of blocks that have been read or written
    flDisk,     \* the file that is written
    flOpened,   \* the files the thread has open
    flError,    \* the data's errorString or m_ErrorString is set
    flNotExist, \* the data's notExist
    flLeft,     \* what the thread leaves in the data, <<blocks>>, or <<>>: file,
                \* or that executed or m_Success is set
    flUnseen,   \* observed: Close has failed for a copy, and nobody has looked
    flFile,     \* LoadThreadWin::file
    flTempDir,  \* the temporary directory exists
    flResult    \* what the caller has been given: <<FlNone>> as long as it waits, then
                \* <<blocks>>, or <<>> for nothing

flThread == <<flPc, flDone, flDisk, flOpened, flError, flNotExist, flLeft, flUnseen>>
flOwn == <<flJob, flThread, flFile, flTempDir, flResult>>
flVars == <<flOwn, jbVars>>

Loading == flJob.kind = "load"
Saving == flJob.kind = "save"
ToTemp == flJob.kind = "temp"

\* new: a file that does not exist is loaded as an empty one (ignoreENOENT).
FlInit ==
    /\ JbInit
    /\ flJob \in [kind : {"load", "save", "temp"}, blocks : FlBlocks, exists : BOOLEAN, new : BOOLEAN]
    /\ ~Loading => flJob.exists /\ ~flJob.new
    /\ flPc = "start" /\ flDone = 0
    /\ flDisk \in IF Saving THEN {FlNone, FlOld} ELSE {FlNone}
    /\ flOpened = {} /\ flError = FALSE /\ flNotExist = FALSE /\ flLeft = <<>>
    /\ flFile = <<>> /\ flTempDir = ToTemp /\ flResult = <<FlNone>>
    /\ flUnseen = FALSE

-----------------------------------------------------------------------------
(* The thread.                                                             *)

FlAt(pc) == jbRun = "running" /\ flPc = pc

\* NBStopped is asked under the mutex before the file is opened.
Starts ==
    /\ FlAt("start")
    /\ flPc' = IF jbStopped THEN "end" ELSE IF Saving THEN "create" ELSE "open"
    /\ UNCHANGED <<flJob, flUnseen, flDone, flDisk, flOpened, flError, flNotExist, flLeft, flFile, flTempDir, flResult, jbVars>>

OpenRead ==
    /\ FlAt("open")
    /\ \/ /\ flJob.exists /\ flOpened' = {"in"}
          /\ flPc' = IF ToTemp THEN "create" ELSE "block"
       \/ /\ flPc' \in IF flJob.exists THEN {"throw"} ELSE {"absent", "throw"}
          /\ UNCHANGED flOpened
    /\ UNCHANGED <<flJob, flUnseen, flDone, flDisk, flError, flNotExist, flLeft, flFile, flTempDir, flResult, jbVars>>

\* That the file does not exist is noted before the failure is thrown.
NotesAbsent ==
    /\ FlAt("absent")
    /\ IF jbStopped THEN flPc' = "end" /\ UNCHANGED <<flNotExist, jbVars>>
       ELSE flNotExist' = TRUE /\ flPc' = "throw" /\ Uses("loader")
    /\ UNCHANGED <<flJob, flUnseen, flDone, flDisk, flOpened, flError, flLeft, flFile, flTempDir, flResult>>

\* OpenCreate empties the file.
OpenCreate ==
    /\ FlAt("create")
    /\ \/ flDisk' = 0 /\ flOpened' = flOpened \cup {"out"} /\ flPc' = "block"
       \/ flPc' = "throw" /\ flOpened' = {} /\ UNCHANGED flDisk
    /\ UNCHANGED <<flJob, flUnseen, flDone, flError, flNotExist, flLeft, flFile, flTempDir, flResult, jbVars>>

\* Mutant: the end of the file is taken for reached when the operation stops.
NextBlockDone ==
    /\ FlAt("block")
    /\ flPc' = IF jbStopped \/ flDone = flJob.blocks THEN "close" ELSE "transfer"
    /\ UNCHANGED <<flJob, flUnseen, flDone, flDisk, flOpened, flError, flNotExist, flLeft, flFile, flTempDir, flResult, jbVars>>

\* Before every block NBStopped is asked under the mutex.  Saving with nothing
\* left to write does not ask; the loader and the saver return with their file
\* left open, and the copy to a temporary file closes its files.
NextBlock ==
    /\ FlAt("block")
    /\ flPc' = IF Saving /\ flDone = flJob.blocks THEN "close"
               ELSE IF ~jbStopped THEN "transfer"
               ELSE IF ToTemp THEN "stopped" ELSE "end"
    /\ UNCHANGED <<flJob, flUnseen, flDone, flDisk, flOpened, flError, flNotExist, flLeft, flFile, flTempDir, flResult, jbVars>>

\* A block is read, and a block written, perhaps only a part of it.
Transfer ==
    /\ FlAt("transfer")
    /\ \/ /\ flDone < flJob.blocks /\ flDone' = flDone + 1
          /\ flDisk' = IF Loading THEN flDisk ELSE flDone + 1
          /\ flPc' = "block" /\ UNCHANGED flOpened
       \/ /\ flDone = flJob.blocks /\ flPc' = "close"
          /\ UNCHANGED <<flDone, flDisk, flOpened>>
       \/ /\ flPc' = "throw" /\ flOpened' = {}
          /\ flDisk' \in IF Loading THEN {flDisk} ELSE {flDisk, FlPart}
          /\ UNCHANGED flDone
    /\ UNCHANGED <<flJob, flUnseen, flError, flNotExist, flLeft, flFile, flTempDir, flResult, jbVars>>

\* Everything has been read or written.  Close may fail, and leave less on the disk.
\* The saver looks at what it says, and closes a second time when it fails;
\* LoadToTempFile has noted its success before it closes its files, and does not
\* look.
ClosesFiles ==
    /\ FlAt("close")
    /\ flOpened' = {}
    /\ \E fails \in IF Loading THEN {FALSE} ELSE BOOLEAN :
        /\ flDisk' \in IF fails THEN {flDisk, FlPart} ELSE {flDisk}
        /\ flPc' = IF ToTemp THEN "end" ELSE IF fails THEN "throw" ELSE "tail"
        /\ flUnseen' = (fails /\ ToTemp)
    /\ IF ToTemp THEN flLeft' = <<flDone>> /\ Uses("copier") ELSE UNCHANGED <<flLeft, jbVars>>
    /\ UNCHANGED <<flJob, flDone, flError, flNotExist, flFile, flTempDir, flResult>>

StoppedCloses ==
    /\ FlAt("stopped") /\ flOpened' = {} /\ flPc' = "end"
    /\ UNCHANGED <<flJob, flUnseen, flDone, flDisk, flError, flNotExist, flLeft, flFile, flTempDir, flResult, jbVars>>

\* The loader and the saver ask NBStopped once more, without the mutex ...
LooksUnlocked ==
    /\ FlAt("tail")
    /\ flPc' = IF jbStopped THEN "end" ELSE "leave"
    /\ UNCHANGED <<flJob, flUnseen, flDone, flDisk, flOpened, flError, flNotExist, flLeft, flFile, flTempDir, flResult, jbVars>>

\* ... and leave the file, or that it has been written.
Leaves ==
    /\ FlAt("leave")
    /\ flLeft' = <<flDone>>
    /\ Uses("tail") /\ flPc' = "end"
    /\ UNCHANGED <<flJob, flUnseen, flDone, flDisk, flOpened, flError, flNotExist, flFile, flTempDir, flResult>>

\* The handler of the thread's function, under the mutex.
Catches ==
    /\ FlAt("throw")
    /\ IF jbStopped THEN UNCHANGED <<flError, jbVars>> ELSE flError' = TRUE /\ Uses("catch")
    /\ flPc' = "end"
    /\ UNCHANGED <<flJob, flUnseen, flDone, flDisk, flOpened, flNotExist, flLeft, flFile, flTempDir, flResult>>

LoadEnds ==
    /\ FlAt("end") /\ JobEnds
    /\ UNCHANGED <<flJob, flThread, flFile, flTempDir, flResult>>

-----------------------------------------------------------------------------
(* The dialog and its caller.                                              *)

\* OperThreadStopped shows the error, or takes the file, which is an empty one
\* if there is none.
LoadStopped ==
    /\ LET failed == flError /\ ~(Loading /\ flJob.new /\ flNotExist)
       IN  /\ TakeEnd(IF failed THEN "cancel" ELSE "ok")
           /\ flFile' = IF ~Loading \/ failed THEN flFile
                        ELSE IF flLeft = <<>> THEN <<0>> ELSE flLeft
    /\ UNCHANGED <<flJob, flThread, flTempDir, flResult>>

\* Cancel closes the dialog; that of LoadToTempFile waits for the thread.
UserCancels ==
    /\ IF ToTemp THEN SetStopFlag ELSE EndModal("cancel")
    /\ UNCHANGED <<flJob, flThread, flFile, flTempDir, flResult>>

LoaderStopped == StopThread /\ UNCHANGED <<flJob, flThread, flFile, flTempDir, flResult>>

\* What the caller is given.  The temporary directory of a copy that has failed
\* is removed.
LoaderReturns ==
    /\ Return
    /\ flResult' = IF Loading THEN flFile ELSE flLeft
    /\ flTempDir' = (flTempDir /\ flLeft # <<>>)
    /\ UNCHANGED <<flJob, flThread, flFile>>

FlNext ==
    \/ Starts \/ OpenRead \/ NotesAbsent \/ OpenCreate
    \/ NextBlock \/ Transfer \/ ClosesFiles \/ StoppedCloses
    \/ LooksUnlocked \/ Leaves \/ Catches \/ LoadEnds
    \/ LoadStopped \/ UserCancels \/ LoaderStopped \/ LoaderReturns

FlSpec == FlInit /\ [][FlNext]_flVars
-----------------------------------------------------------------------------
(***************************************************************************)
(* What the caller is given is the whole file, or it knows that it is not: *)
(* a file that was loaded has all its blocks, or is a new one that does    *)
(* not exist; a file that was saved or copied is on the disk as a whole;   *)
(* a temporary directory is left only with a file in it; and who is given  *)
(* nothing has cancelled or has been shown an error.  Two things are       *)
(* excluded: a loader or a saver that was stopped leaves its file open,    *)
(* and a copy whose Close fails is given as if it were whole.              *)
(***************************************************************************)
WholeOrTold ==
    /\ jbRun = "ended" => flOpened = {} \/ (jbStopped /\ ~ToTemp)
    /\ flResult # <<FlNone>> =>
        /\ flResult = <<>> => flError \/ jbStopped \/ ~jbTold
        /\ flResult # <<>> /\ ~Loading => flDisk = flJob.blocks \/ flUnseen
        /\ flResult # <<>> /\ Loading =>
              IF flJob.exists THEN flResult[1] = flJob.blocks ELSE flJob.new /\ flResult[1] = 0
        /\ ToTemp => (flTempDir <=> flResult # <<>>)
=============================================================================
