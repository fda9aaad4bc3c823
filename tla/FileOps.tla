------------------------------- MODULE FileOps -------------------------------
(***************************************************************************)
(* Copying, moving and deleting files (fileopers.cpp): the thread that     *)
(* works on the disk while the dialog shows its progress, the questions it *)
(* asks when a call of the file system fails, and the user who answers     *)
(* them or stops the whole operation.                                      *)
(*                                                                         *)
(* A disk is a function from paths to objects.  A path is the sequence of  *)
(* its names, the first of which names a root.  What a file holds, or a    *)
(* link points to, is a value that is only compared: the disk that a job   *)
(* finds uses the path of each object as its data.                         *)
(*                                                                         *)
(* Every call of the file system may fail, whatever the state of the disk. *)
(* The code is recursive: its calls are the frames of stack.  A `false`    *)
(* that a callee returns makes every caller return false, so that it ends  *)
(* the operation at once (GiveUp), except in the loop of MoveDir.          *)
(***************************************************************************)
EXTENDS Integers, Sequences, FiniteSets

CONSTANTS
    Name,   \* names of files
    Job     \* what the user may ask for, and the disks it may be asked of

(***************************************************************************)
(* A job: what to do (op), the directory the listed names are in, their    *)
(* destination as the user typed it, the disk, and how the two file        *)
(* systems are related (fs): "same" is one file system object; "equal" two *)
(* objects of the same system; "mount" one object over two devices, where  *)
(* rename answers EXDEV; "other" two systems.  No file is half-written.    *)
(***************************************************************************)
Path == Seq(Name)
Partial == <<>>     \* the data of a file that is being written
Object == [kind : {"file", "link", "special", "dir"}, data : Path]

ASSUME JobAssumption ==
    \A j \in Job :
        /\ j.op \in {"copy", "move", "delete"}
        /\ j.fs \in {"same", "equal", "mount", "other"}
        /\ j.from \in Path /\ j.to \in Path
        /\ j.list \subseteq Name /\ j.list # {} /\ IsFiniteSet(j.list)
        /\ \A p \in DOMAIN j.disk :
                /\ p \in Path /\ j.disk[p] \in Object
                /\ j.disk[p].kind # "dir" => j.disk[p].data # Partial
        /\ \A n \in j.list : Append(j.from, n) \in DOMAIN j.disk
        /\ j.from[1] = j.to[1] => j.fs \in {"same", "equal"}

\* what an object is in is a directory, up to the root
ASSUME DiskAssumption ==
    \A j \in Job : \A p \in DOMAIN j.disk : \A i \in 1 .. Len(p) - 1 :
        SubSeq(p, 1, i) \in DOMAIN j.disk /\ j.disk[SubSeq(p, 1, i)].kind = "dir"

VARIABLES
    job,        \* the job; it never changes
    disk,       \* path |-> [kind, data]
    pc,         \* what the thread does next
    again,      \* flips when a loop is repeated, so that repeating is a step
    cur,        \* the object it works on: [src, dst, kind]
    stack,      \* the lists it works through: [kind, src, dst, todo, last]
    victim,     \* the path Unlink deletes
    after,      \* what follows Unlink
    commitAll, skipNonRegular,  \* fields of OperCFThread
    stopped,    \* the dialog has stopped the thread
    ok,         \* what Copy, Move or DeleteList has returned
    agreed,     \* paths the user has agreed to lose
    unseen,     \* targets that a failing Stat took for absent, or for another object
    refused,    \* some answer was neither Ok, All nor Retry
    refusal,    \* MoveFile or MoveDir has returned -1
    left        \* half-written files that could not be deleted

fileVars == <<job, disk, pc, again, cur, stack, victim, after, commitAll,
              skipNonRegular, stopped, ok, agreed, unseen, refused, refusal, left>>
flags == <<commitAll, skipNonRegular>>
ghosts == <<agreed, unseen, refused, refusal, left>>
-----------------------------------------------------------------------------
(***************************************************************************)
(* The disk.                                                               *)
(***************************************************************************)
IsBelow(p, q) == Len(p) >= Len(q) /\ SubSeq(p, 1, Len(q)) = q
Parent(p) == SubSeq(p, 1, Len(p) - 1)
Exists(p) == p \in DOMAIN disk
IsDirAt(p) == Exists(p) /\ disk[p].kind = "dir"
ChildrenOf(p) == {n \in Name : Exists(Append(p, n))}

\* open, symlink and mkdir need a directory to create the object in
HasPlace(p) == IsDirAt(Parent(p))
WithObject(p, o) == [q \in DOMAIN disk \cup {p} |-> IF q = p THEN o ELSE disk[q]]
WithoutObject(p) == [q \in DOMAIN disk \ {p} |-> disk[q]]

\* rename moves a directory with all that is in it.  It replaces a file by a file
\* and an empty directory by a directory; from a path to itself it does nothing.
CanRename(p, q) ==
    /\ Exists(p) /\ HasPlace(q)
    /\ \/ p = q
       \/ /\ ~IsBelow(q, p)
          /\ \A r \in DOMAIN disk : IsBelow(r, q) => r = q
          /\ Exists(q) => (IsDirAt(q) <=> IsDirAt(p))
WithRenamed(p, q) ==
    LET moved == {r \in DOMAIN disk : IsBelow(r, p)}
        To(r) == q \o SubSeq(r, Len(p) + 1, Len(r))
        From(r) == p \o SubSeq(r, Len(q) + 1, Len(r))
    IN  [r \in (DOMAIN disk \ moved) \cup {To(s) : s \in moved} |->
            IF IsBelow(r, q) THEN disk[From(r)] ELSE disk[r]]

\* Mutant: the files are not compared.
IsSameFileNever == FALSE

(***************************************************************************)
(* The identity of an object is its path, and for a link that of what it   *)
(* points to: Stat reports the device and the inode of the target.  There  *)
(* are no hard links, and no links at the destination.                     *)
(***************************************************************************)
IsSameFile == \/ cur.src = cur.dst
              \/ /\ cur.kind = "link"
                 /\ Exists(cur.dst)
                 /\ disk[cur.dst] = disk[cur.src]

\* What a Stat of the target tells: a call that fails says no.  IsSameFile asks
\* whether the target is the object itself; MoveFile and MoveDir, whether it is there.
Told(fact) == {fact, FALSE}
Overlooks(same, found) ==
    unseen' = IF same \/ (~IsSameFile /\ found = Exists(cur.dst)) THEN unseen
              ELSE unseen \cup {cur.dst}
OverlooksItself(same) == Overlooks(same, Exists(cur.dst))
-----------------------------------------------------------------------------
(***************************************************************************)
(* RedMessage: the message is shown by the dialog's thread, and its answer *)
(* comes back; -1 ("none" here) without a message when the run has been    *)
(* stopped.  Escape is Cancel.                                             *)
(***************************************************************************)
Answers(buttons) == IF stopped THEN {"none"} ELSE buttons \cup {"cancel"}
Asks(buttons, a) ==
    /\ a \in Answers(buttons)
    /\ refused' = (refused \/ a \notin {"ok", "all", "retry"})

Working == pc # "done"
Keep == UNCHANGED <<job, stopped>>

\* the operation ends with the result r
Ends(r) == pc' = "done" /\ ok' = r /\ again' = FALSE
GiveUp == Ends(FALSE)
Goto(l) == pc' = l /\ again' = (l = pc /\ ~again) /\ UNCHANGED ok

Top == Head(stack)
ListFrame(kind, src, dst, names) ==
    [kind |-> kind, src |-> src, dst |-> dst, todo |-> names, last |-> src]
-----------------------------------------------------------------------------
FileInit ==
    /\ job \in Job
    /\ disk = job.disk
    /\ pc = IF job.op = "delete" THEN "next" ELSE "begin"
    /\ stack = <<ListFrame("list", job.from, job.to, job.list)>>
    /\ cur = [src |-> job.from, dst |-> job.to, kind |-> "dir"]
    /\ victim = <<>> /\ after = "next" /\ again = FALSE
    /\ commitAll = FALSE /\ skipNonRegular = FALSE /\ stopped = FALSE
    /\ ok = TRUE
    /\ agreed = {} /\ unseen = {} /\ refused = FALSE /\ refusal = FALSE /\ left = {}

\* the user presses Cancel in the progress dialog, or closes it
StopOperation ==
    /\ Working /\ ~stopped
    /\ stopped' = TRUE
    /\ UNCHANGED <<job, disk, pc, again, cur, stack, victim, after, flags, ok, ghosts>>

(***************************************************************************)
(* Copy and Move look at the destination first.  More than one object goes *)
(* only into a directory; a single one takes the destination's name when   *)
(* that is not a directory.                                                *)
(***************************************************************************)
Begin ==
    /\ pc = "begin" /\ Keep
    /\ \/ IF Cardinality(job.list) > 1 /\ ~IsDirAt(job.to)
          THEN GiveUp ELSE Goto("next")
       \/ GiveUp          \* Stat fails
    /\ UNCHANGED <<disk, cur, stack, victim, after, flags, ghosts>>

\* the destination is a directory, which the objects go into
IntoDirectory == job.to \in DOMAIN job.disk /\ job.disk[job.to].kind = "dir"

Target(f, n) == IF f.kind = "list" /\ ~IntoDirectory THEN f.dst ELSE Append(f.dst, n)

\* the loops of Copy, CopyDir and MoveDir look at the stop flag for each object
LooksAtStop(f) == job.op = "copy" \/ (job.op = "move" /\ f.kind # "list")

\* CopyNode, MoveNode and the body of DeleteList choose by the kind
CopyRoutine(kind) ==
    IF kind = "link" THEN "link" ELSE IF kind = "dir" THEN "readdir" ELSE "file"

MoveRoutine(f, kind) ==
    IF f.kind = "dir" THEN CopyRoutine(kind)
    ELSE IF f.kind = "list" /\ kind = "dir" THEN "mvdir" ELSE "mvfile"

DeleteRoutine(kind) == IF kind = "dir" THEN "readdir" ELSE "delfile"

Routine(f, kind) ==
    IF job.op = "delete" THEN DeleteRoutine(kind)
    ELSE IF job.op = "move" THEN MoveRoutine(f, kind) ELSE CopyRoutine(kind)

NextObject ==
    /\ pc = "next" /\ Top.todo # {} /\ Keep
    /\ IF stopped /\ LooksAtStop(Top)
       THEN GiveUp /\ UNCHANGED <<cur, stack>>
       ELSE \E n \in Top.todo :
            LET s == Append(Top.src, n)
            IN  /\ cur' = [src |-> s, dst |-> Target(Top, n), kind |-> disk[s].kind]
                /\ stack' = <<[Top EXCEPT !.todo = @ \ {n}, !.last = s]>> \o Tail(stack)
                /\ Goto(Routine(Top, disk[s].kind))
    /\ UNCHANGED <<disk, victim, after, flags, ghosts>>

\* the end of a list: a moved or deleted directory goes itself
EndOfList ==
    /\ pc = "next" /\ Top.todo = {} /\ Keep
    /\ \/ Top.kind = "list" /\ Ends(TRUE) /\ UNCHANGED stack
       \/ Top.kind # "list" /\ job.op = "copy" /\ Goto("next") /\ stack' = Tail(stack)
       \/ Top.kind # "list" /\ job.op # "copy" /\ Goto("rmdir") /\ UNCHANGED stack
    /\ UNCHANGED <<disk, cur, victim, after, flags, ghosts>>
-----------------------------------------------------------------------------
(***************************************************************************)
(* Unlink and RmDir repeat until the object is gone or the user skips it.  *)
(***************************************************************************)
StartUnlink(p, then) == victim' = p /\ after' = then /\ Goto("unlink")

\* Mutant: the loop of Unlink has no default case.
AfterUnlinkAgain(r) ==
    IF after \in {"next", "rename"} /\ ~r /\ stopped THEN Goto("unlink")
    ELSE IF after \in {"next", "rename"} /\ r THEN Goto(after)
    ELSE IF after = "failed" /\ r THEN Goto("next")
    ELSE GiveUp

AfterUnlink(r) ==
    IF after \in {"next", "rename"} /\ r THEN Goto(after)
    ELSE IF after = "failed" THEN Goto("next")
    ELSE GiveUp

Unlink ==
    /\ pc = "unlink" /\ Keep
    /\ \/ /\ Exists(victim) /\ ~IsDirAt(victim)
          /\ disk' = WithoutObject(victim)
          /\ AfterUnlink(TRUE)
          /\ UNCHANGED <<refused, left>>
       \/ /\ \E a \in {"retry", "skip", "cancel", "none"} :
              /\ Asks({"retry", "skip"}, a)
              /\ IF a = "retry" THEN Goto("unlink") ELSE AfterUnlink(a = "skip")
              /\ left' = IF a # "retry" /\ after \in {"failed", "stopped"}
                         THEN left \cup {victim} ELSE left
          /\ UNCHANGED disk
    /\ UNCHANGED <<cur, stack, victim, after, flags, agreed, unseen, refusal>>

\* CopyDir and DeleteList remove the directory of the frame.  MoveDir calls
\* RmDir with srcPath, whose last name is by now that of the last object moved.
RemovedDir == IF Top.kind = "merge" THEN Top.last ELSE Top.src

RmDir ==
    /\ pc = "rmdir" /\ Keep
    /\ \/ /\ IsDirAt(RemovedDir) /\ ChildrenOf(RemovedDir) = {}
          /\ disk' = WithoutObject(RemovedDir)
          /\ Goto("next") /\ stack' = Tail(stack)
          /\ UNCHANGED refused
       \/ /\ \E a \in {"retry", "skip", "cancel", "none"} :
              /\ Asks({"retry", "skip"}, a)
              /\ \/ a = "retry" /\ Goto("rmdir") /\ UNCHANGED stack
                 \/ a = "skip" /\ Goto("next") /\ stack' = Tail(stack)
                 \/ a \in {"cancel", "none"} /\ GiveUp /\ UNCHANGED stack
          /\ UNCHANGED disk
    /\ UNCHANGED <<cur, victim, after, flags, agreed, unseen, refusal, left>>

\* the beginning of CopyDir and of DeleteDir
ReadDir ==
    /\ pc = "readdir" /\ Keep
    /\ \/ /\ ~stopped
          /\ IF job.op = "delete"
             THEN /\ Goto("next")
                  /\ stack' = <<ListFrame("dir", cur.src, cur.dst, ChildrenOf(cur.src))>> \o stack
             ELSE /\ Goto("mkdir") /\ UNCHANGED stack
          /\ UNCHANGED refused
       \/ /\ stopped /\ GiveUp /\ UNCHANGED <<stack, refused>>
       \/ /\ ~stopped
          /\ \E a \in {"retry", "skip", "cancel"} :
              /\ Asks({"retry", "skip"}, a)
              /\ \/ a = "retry" /\ Goto("readdir") /\ UNCHANGED stack
                 \/ /\ a = "skip" /\ Goto("next")    \* DeleteDir returns true: RmDir follows
                    /\ stack' = IF job.op = "delete"
                                THEN <<ListFrame("dir", cur.src, cur.dst, {})>> \o stack
                                ELSE stack
                 \/ a = "cancel" /\ GiveUp /\ UNCHANGED stack
    /\ UNCHANGED <<disk, cur, victim, after, flags, agreed, unseen, refusal, left>>

\* EEXIST counts as success, also when it is a file that exists.  The list was
\* read before the directory is made.  No answer but Skip and Cancel ends the loop.
MkDir ==
    /\ pc = "mkdir" /\ Keep
    /\ \/ /\ Exists(cur.dst) \/ HasPlace(cur.dst)
          /\ disk' = IF Exists(cur.dst) THEN disk
                     ELSE WithObject(cur.dst, [kind |-> "dir", data |-> <<>>])
          /\ stack' = <<ListFrame("dir", cur.src, cur.dst, ChildrenOf(cur.src))>> \o stack
          /\ Goto("next") /\ UNCHANGED refused
       \/ /\ \E a \in {"retry", "skip", "cancel", "none"} :
              /\ Asks({"retry", "skip"}, a)
              /\ \/ a = "cancel" /\ GiveUp
                 \/ a = "skip" /\ Goto("next")
                 \/ a \in {"retry", "none"} /\ Goto("mkdir")
          /\ UNCHANGED <<disk, stack>>
    /\ UNCHANGED <<cur, victim, after, flags, agreed, unseen, refusal, left>>
-----------------------------------------------------------------------------
(***************************************************************************)
(* Copying one object.                                                     *)
(***************************************************************************)
\* `return !move || Unlink(source)`
Copied == IF job.op = "move"
          THEN StartUnlink(cur.src, "next")
          ELSE Goto("next") /\ UNCHANGED <<victim, after>>

CopyLink ==
    /\ pc = "link" /\ Keep
    /\ \E same \in Told(IsSameFile) :
        /\ OverlooksItself(same)
        /\ IF same THEN GiveUp /\ refused' = TRUE
           ELSE Goto("symlink") /\ UNCHANGED refused
    /\ UNCHANGED <<disk, cur, stack, victim, after, flags, agreed, refusal, left>>

\* After "Skip all" a failing Symlink leaves the loop as a successful one does.
MakeLink ==
    /\ pc = "symlink" /\ Keep
    /\ \/ /\ ~Exists(cur.dst) /\ HasPlace(cur.dst)
          /\ disk' = WithObject(cur.dst, disk[cur.src])
          /\ Copied /\ UNCHANGED <<skipNonRegular, refused>>
       \/ /\ skipNonRegular
          /\ Copied /\ UNCHANGED <<disk, skipNonRegular, refused>>
       \/ /\ ~skipNonRegular
          /\ \E a \in {"skip", "skipall", "cancel", "none"} :
              /\ Asks({"skip", "skipall"}, a)
              /\ skipNonRegular' = (a = "skipall")
              /\ \/ a = "cancel" /\ GiveUp
                 \/ a = "none" /\ Goto("symlink")
                 \/ a \in {"skip", "skipall"} /\ Goto("next")
          /\ UNCHANGED <<disk, victim, after>>
    /\ UNCHANGED <<cur, stack, commitAll, agreed, unseen, refusal, left>>

\* "Skip all" for objects that are no regular files: the next one is copied.
CopyFile ==
    /\ pc = "file" /\ Keep
    /\ IF cur.kind # "file" /\ ~skipNonRegular
       THEN \E a \in {"skip", "skipall", "cancel", "none"} :
            /\ Asks({"skip", "skipall"}, a)
            /\ skipNonRegular' = (a = "skipall")
            /\ IF a \in {"skip", "skipall"} THEN Goto("next") ELSE GiveUp
            /\ UNCHANGED unseen
       ELSE \E same \in Told(IsSameFile) :
            /\ OverlooksItself(same)
            /\ IF same THEN GiveUp /\ refused' = TRUE
               ELSE Goto("open") /\ UNCHANGED refused
            /\ UNCHANGED skipNonRegular
    /\ UNCHANGED <<disk, cur, stack, victim, after, commitAll, agreed, refusal, left>>

\* the loop has no case for the answer -1
OpenSource ==
    /\ pc = "open" /\ Keep
    /\ \/ Goto("create") /\ UNCHANGED refused
       \/ stopped /\ GiveUp /\ UNCHANGED refused      \* OpenRead = -2
       \/ \E a \in {"retry", "skip", "cancel", "none"} :
            /\ Asks({"retry", "skip"}, a)
            /\ \/ a = "cancel" /\ GiveUp
               \/ a = "skip" /\ Goto("next")
               \/ a \in {"retry", "none"} /\ Goto("open")
    /\ UNCHANGED <<disk, cur, stack, victim, after, flags, agreed, unseen, refusal, left>>

\* open(O_CREAT | O_TRUNC) succeeds: what the file held is lost
CreatesFile ==
    /\ HasPlace(cur.dst) /\ ~IsDirAt(cur.dst)
    /\ disk' = WithObject(cur.dst, [kind |-> "file", data |-> Partial])
    /\ Goto("data")
\* Mutant: a file that cannot be created is passed over.
CantCreateSilent == Goto("next") /\ UNCHANGED refused

CantCreate ==
    \E a \in {"skip", "cancel", "none"} :
        /\ Asks({"skip"}, a)
        /\ IF a = "skip" THEN Goto("next") ELSE GiveUp

CreateCopy ==
    /\ pc = "create" /\ Keep
    /\ \/ /\ Exists(cur.dst) => commitAll
          /\ CreatesFile
          /\ agreed' = agreed \cup ({cur.dst} \cap DOMAIN disk)
          /\ UNCHANGED <<refused, commitAll>>
       \/ /\ Exists(cur.dst) /\ ~commitAll        \* EEXIST
          /\ \E a \in {"ok", "all", "no", "cancel", "none"} :
              /\ Asks({"ok", "all", "no"}, a)
              /\ commitAll' = (a = "all")
              /\ \/ a \in {"ok", "all"} /\ Goto("overwrite") /\ agreed' = agreed \cup {cur.dst}
                 \/ a = "no" /\ Goto("next") /\ UNCHANGED agreed
                 \/ a \in {"cancel", "none"} /\ GiveUp /\ UNCHANGED agreed
          /\ UNCHANGED disk
       \/ CantCreate /\ UNCHANGED <<disk, agreed, commitAll>>
    /\ UNCHANGED <<cur, stack, victim, after, skipNonRegular, unseen, refusal, left>>

Overwrite ==
    /\ pc = "overwrite" /\ Keep
    /\ \/ CreatesFile /\ UNCHANGED refused
       \/ CantCreate /\ UNCHANGED disk
    /\ UNCHANGED <<cur, stack, victim, after, flags, agreed, unseen, refusal, left>>

\* Mutant: a copy that has failed is left as it is.
CopyFailsKept ==
    /\ \E a \in {"skip", "cancel", "none"} :
        /\ Asks({"skip"}, a)
        /\ IF a = "skip" THEN Goto("next") ELSE GiveUp
    /\ UNCHANGED <<victim, after>>

\* Read, Write or Close has failed, or the file got shorter, or the operation has
\* been stopped: the copy is deleted, and the next object follows if the user skips
CopyFails ==
    \E a \in {"skip", "cancel", "none"} :
        /\ Asks({"skip"}, a)
        /\ StartUnlink(cur.dst, IF a = "skip" THEN "failed" ELSE "stopped")

CopyData ==
    /\ pc = "data" /\ Keep
    /\ \/ /\ ~stopped /\ Goto("close")
          /\ UNCHANGED <<refused, victim, after>>
       \/ CopyFails
    /\ UNCHANGED <<disk, cur, stack, flags, agreed, unseen, refusal, left>>

CloseCopy ==
    /\ pc = "close" /\ Keep
    /\ \/ /\ disk' = WithObject(cur.dst, [kind |-> "file", data |-> disk[cur.src].data])
          /\ Copied /\ UNCHANGED refused
       \/ CopyFails /\ UNCHANGED disk
    /\ UNCHANGED <<cur, stack, flags, agreed, unseen, refusal, left>>
-----------------------------------------------------------------------------
(***************************************************************************)
(* Moving one object: MoveFile and MoveDir return 0 (ok), 1 (need copy) or *)
(* -1 (stop).  The loop of MoveDir takes 0 for the end of the operation    *)
(* and goes on after 1 and after -1.                                       *)
(***************************************************************************)
Returns(r) ==
    /\ refusal' = (refusal \/ r = -1)
    /\ \/ r = 0 /\ IF Top.kind = "merge" THEN GiveUp ELSE Goto("next")
       \/ r = 1 /\ Goto(IF Top.kind = "merge" THEN "next" ELSE CopyRoutine(cur.kind))
       \/ r = -1 /\ IF Top.kind = "merge" THEN Goto("next") ELSE GiveUp

SkipOrStop ==
    \E a \in {"skip", "cancel", "none"} :
        Asks({"skip"}, a) /\ Returns(IF a = "skip" THEN 0 ELSE -1)

Replaces ==
    IF commitAll
    THEN /\ agreed' = agreed \cup {cur.dst} /\ Goto("mvdelete")
         /\ UNCHANGED <<refused, commitAll, refusal>>
    ELSE \E a \in {"ok", "all", "no", "cancel", "none"} :
            /\ Asks({"ok", "all", "no"}, a)
            /\ commitAll' = (a = "all")
            /\ IF a \in {"ok", "all"}
               THEN Goto("mvdelete") /\ agreed' = agreed \cup {cur.dst} /\ UNCHANGED refusal
               ELSE Returns(IF a = "no" THEN 0 ELSE -1) /\ UNCHANGED agreed

\* a target whose Stat fails is not asked about
MoveFile ==
    /\ pc = "mvfile" /\ Keep
    /\ \/ /\ job.fs = "other" /\ Returns(1)
          /\ UNCHANGED <<refused, agreed, unseen, commitAll>>
       \/ /\ job.fs # "other"
          /\ \E same \in Told(IsSameFile), found \in Told(Exists(cur.dst)) :
              /\ Overlooks(same, found)
              /\ \/ /\ same /\ Returns(-1) /\ refused' = TRUE
                    /\ UNCHANGED <<agreed, commitAll>>
                 \/ /\ ~same /\ ~found /\ Goto("rename")
                    /\ UNCHANGED <<refused, agreed, commitAll, refusal>>
                 \/ ~same /\ found /\ Replaces
    /\ UNCHANGED <<disk, cur, stack, victim, after, skipNonRegular, left>>

MoveDelete ==
    /\ pc = "mvdelete" /\ Keep
    /\ \/ /\ ~IsDirAt(cur.dst)
          /\ disk' = WithoutObject(cur.dst)
          /\ Goto("rename") /\ UNCHANGED <<refused, refusal>>
       \/ SkipOrStop /\ UNCHANGED disk
    /\ UNCHANGED <<cur, stack, victim, after, flags, agreed, unseen, left>>

Rename ==
    /\ pc = "rename" /\ Keep
    /\ \/ /\ job.fs # "mount" /\ CanRename(cur.src, cur.dst)
          /\ disk' = IF cur.src = cur.dst THEN disk ELSE WithRenamed(cur.src, cur.dst)
          /\ Returns(0) /\ UNCHANGED refused
       \/ /\ job.fs = "mount" /\ Returns(1) /\ UNCHANGED <<disk, refused>>
       \/ SkipOrStop /\ UNCHANGED disk
    /\ UNCHANGED <<cur, stack, victim, after, flags, agreed, unseen, left>>

(***************************************************************************)
(* A directory that is to take the place of a file: "Delete the file?".    *)
(* The answer -1 is no case of the switch, and deletes it.                 *)
(***************************************************************************)
ReplaceFile ==
    \E a \in {"ok", "skip", "cancel", "none"} :
        /\ Asks({"ok", "skip"}, a)
        /\ IF a \in {"ok", "none"}
           THEN StartUnlink(cur.dst, "rename") /\ UNCHANGED refusal
           ELSE Returns(IF a = "skip" THEN 0 ELSE -1) /\ UNCHANGED <<victim, after>>
        /\ agreed' = IF a = "ok" THEN agreed \cup {cur.dst} ELSE agreed

MoveDir ==
    /\ pc = "mvdir" /\ Keep
    /\ \/ /\ stopped /\ Returns(-1)
          /\ UNCHANGED <<victim, after, refused, agreed, unseen>>
       \/ /\ job.fs \notin {"same", "mount"} /\ Returns(1)
          /\ UNCHANGED <<victim, after, refused, agreed, unseen>>
       \/ /\ job.fs \in {"same", "mount"}
          /\ \E same \in Told(IsSameFile), found \in Told(Exists(cur.dst)) :
              /\ Overlooks(same, found)
              /\ \/ /\ same /\ Returns(-1) /\ refused' = TRUE
                    /\ UNCHANGED <<victim, after, agreed>>
                 \/ /\ ~same /\ found /\ ~IsDirAt(cur.dst)
                    /\ ReplaceFile
                 \/ /\ ~same /\ (found => IsDirAt(cur.dst))
                    /\ Goto(IF found THEN "merge" ELSE "rename")
                    /\ UNCHANGED <<victim, after, refused, refusal, agreed>>
    /\ UNCHANGED <<disk, cur, stack, flags, left>>

\* there is a directory of that name: what is in the one goes into the other
MergeDir ==
    /\ pc = "merge" /\ Keep
    /\ \/ /\ ~stopped /\ Goto("next")
          /\ stack' = <<ListFrame("merge", cur.src, cur.dst, ChildrenOf(cur.src))>> \o stack
          /\ UNCHANGED <<refused, refusal>>
       \/ /\ stopped /\ Returns(-1) /\ UNCHANGED <<stack, refused>>
       \/ /\ ~stopped
          /\ \E a \in {"retry", "skip", "cancel"} :
              /\ Asks({"retry", "skip"}, a)
              /\ IF a = "retry" THEN Goto("merge") /\ UNCHANGED refusal
                 ELSE Returns(IF a = "skip" THEN 0 ELSE -1)
          /\ UNCHANGED stack
    /\ UNCHANGED <<disk, cur, victim, after, flags, agreed, unseen, left>>

\* only files are asked about; `All` is asked once
DeleteFile ==
    /\ pc = "delfile" /\ Keep
    /\ \/ /\ stopped /\ GiveUp
          /\ UNCHANGED <<victim, after, refused, agreed, commitAll>>
       \/ /\ ~stopped /\ commitAll
          /\ agreed' = agreed \cup {cur.src} /\ StartUnlink(cur.src, "next")
          /\ UNCHANGED <<refused, commitAll>>
       \/ /\ ~stopped /\ ~commitAll
          /\ \E a \in {"ok", "all", "skip", "cancel"} :
              /\ Asks({"ok", "all", "skip"}, a)
              /\ commitAll' = (a = "all")
              /\ \/ /\ a \in {"ok", "all"}
                    /\ StartUnlink(cur.src, "next") /\ agreed' = agreed \cup {cur.src}
                 \/ a = "skip" /\ Goto("next") /\ UNCHANGED <<victim, after, agreed>>
                 \/ a = "cancel" /\ GiveUp /\ UNCHANGED <<victim, after, agreed>>
    /\ UNCHANGED <<disk, cur, stack, skipNonRegular, unseen, refusal, left>>
-----------------------------------------------------------------------------
FileStep ==
    \/ Begin \/ NextObject \/ EndOfList
    \/ Unlink \/ RmDir \/ ReadDir \/ MkDir
    \/ CopyLink \/ MakeLink \/ CopyFile \/ OpenSource \/ CreateCopy \/ Overwrite \/ CopyData \/ CloseCopy
    \/ MoveFile \/ MoveDelete \/ Rename \/ MoveDir \/ MergeDir \/ DeleteFile

FileDone == ~Working /\ UNCHANGED fileVars

FileNext == FileStep \/ StopOperation \/ FileDone

FileSpec == FileInit /\ [][FileNext]_fileVars

\* The thread runs: a step it can take is taken.  Nothing is assumed of the
\* answers, nor of the calls of the file system.
FairFileSpec == FileSpec /\ WF_fileVars(FileStep)
-----------------------------------------------------------------------------
(***************************************************************************)
(* Properties.                                                             *)
(***************************************************************************)
\* the objects the user has listed, and all that is in them
Listed(p) == /\ Len(p) > Len(job.from) /\ IsBelow(p, job.from)
             /\ p[Len(job.from) + 1] \in job.list

\* where the object at p, a listed one or below one, belongs
Destination(p) ==
    job.to \o SubSeq(p, Len(job.from) + (IF IntoDirectory THEN 1 ELSE 2), Len(p))

\* What the job was to remove or replace at p, and the user was not asked about:
\* a target that a failing Stat hid; a link or special file that is moved after
\* "Skip all"; and what gives way to a listed directory when the operation has been
\* stopped.
LostUnasked(p) ==
    \/ p \in unseen
    \/ job.op = "move" /\ skipNonRegular /\ job.disk[p].kind \in {"link", "special"}
    \/ /\ job.op = "move" /\ stopped
       /\ \E n \in job.list :
            LET s == Append(job.from, n)
            IN  job.disk[s].kind = "dir" /\ p = Destination(s)

(***************************************************************************)
(* Nothing is lost: whatever calls fail, whatever the user answers and     *)
(* whenever he stops the operation, each file and link the disk held is    *)
(* whole somewhere, or the user has agreed to lose it, but for the three   *)
(* cases above.  What is to be copied or moved is not lost even if he      *)
(* agrees to overwrite the object of that name.                            *)
(***************************************************************************)
NothingLost ==
    \A p \in DOMAIN job.disk :
        job.disk[p].kind # "dir" =>
            \/ \E q \in DOMAIN disk : disk[q] = job.disk[p]
            \/ p \in agreed /\ (job.op # "delete" => ~Listed(p))
            \/ LostUnasked(p)

\* each object is to be copied or moved to where it is
OntoItself ==
    /\ job.op # "delete"
    /\ \/ IntoDirectory /\ job.to = job.from
       \/ ~IntoDirectory /\ \E n \in job.list : job.list = {n} /\ job.to = Append(job.from, n)

(***************************************************************************)
(* A half-written copy is there only while it is being written or deleted, *)
(* and afterwards only where it could not be deleted, or where a failing   *)
(* Stat has let a file be copied onto itself.                              *)
(***************************************************************************)
NoHalfFile ==
    \A p \in DOMAIN disk :
        disk[p].kind = "file" /\ disk[p].data = Partial =>
            \/ p = cur.dst /\ pc \in {"data", "close", "unlink"}
            \/ p \in left
            \/ OntoItself /\ p \in unseen

\* MoveDir merges into the directory of that name at the destination
Merging ==
    /\ job.op = "move" /\ job.fs \in {"same", "mount"}
    /\ \E n \in job.list :
        /\ job.disk[Append(job.from, n)].kind = "dir"
        /\ \E q \in {job.to, Append(job.to, n)} :
                q \in DOMAIN job.disk /\ job.disk[q].kind = "dir"

(***************************************************************************)
(* An operation that returns true, and for which the user has answered     *)
(* nothing but Ok, All and Retry, has done all of its work: each object    *)
(* that was listed is gone, or is at its destination, or both, also when   *)
(* its target was overlooked.  A move that merges directories and objects  *)
(* that are to go where they are are left out.                             *)
(***************************************************************************)
AllDone ==
    pc = "done" /\ ok /\ ~refused /\ ~Merging /\ ~OntoItself =>
        \A p \in DOMAIN job.disk :
            /\ Listed(p)
            /\ job.disk[p].kind \in {"file", "link"}
            => /\ job.op # "copy" => ~Exists(p)
               /\ job.op # "delete" =>
                    /\ Exists(Destination(p))
                    /\ disk[Destination(p)] = job.disk[p]

(***************************************************************************)
(* Once it has been stopped the operation ends, though calls may go on     *)
(* failing for ever; only the loops of Symlink, OpenRead and MkDir take    *)
(* the answer -1 for Retry.                                                *)
(***************************************************************************)
StopEndsIt == stopped ~> pc \in {"done", "symlink", "open", "mkdir"}

(***************************************************************************)
(* "-1 - stop" (the comment above MoveFile and MoveDir): when one of them  *)
(* has returned -1 the disk no longer changes.                             *)
(***************************************************************************)
RefusalStops == [][refusal => disk' = disk]_fileVars
=============================================================================
