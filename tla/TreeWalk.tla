------------------------------ MODULE TreeWalk ------------------------------
(***************************************************************************)
(* The two operations that walk through a tree of directories and report   *)
(* to a dialog while they do: the search for files (filesearch.cpp) and    *)
(* the count of files and sizes (dircalc.cpp), which the user asks for or, *)
(* with `service', the copying of files.                                   *)
(*                                                                         *)
(* A frame of twStack is a call of SearchDir or CalcDir.  Every block that *)
(* the code executes under the mutexes of the node and of the results is   *)
(* one step.  The file systems do not notice that the operation has been   *)
(* stopped: they ask IsStopped, which OF_FSCInfo does not define.          *)
(***************************************************************************)
EXTENDS Integers, Sequences, FiniteSets, OperJob, FiniteSetsExt, SequencesExt

CONSTANTS
    TwDirs,     \* directory -> its entries, sorted: [name, dir, link, size]
    TwRoot,     \* the directory of the panel
    TwSelected  \* the lists of selected entries of TwRoot; <<>>: TwRoot itself

NoName == "none"    \* the name of what is no entry: the fsNode of a row for a directory

ASSUME TreeAssumption ==
    /\ TwRoot \in DOMAIN TwDirs
    /\ \A d \in DOMAIN TwDirs : TwDirs[d] \in Seq(Range(TwDirs[d]))
    /\ \A d \in DOMAIN TwDirs : \A i \in DOMAIN TwDirs[d] :
          LET e == TwDirs[d][i] IN e.name # NoName /\ (e.dir /\ ~e.link => e.name \in DOMAIN TwDirs)

\* The directories among the entries of a directory, without the links to others.
Subdirs(d) == {e.name : e \in {x \in Range(TwDirs[d]) : x.dir /\ ~x.link}}

\* The directories are a tree: a name stands for one directory in one other, none
\* is below itself; and an entry is selected once.
ASSUME OneTreeAssumption ==
    /\ IsFiniteSet(DOMAIN TwDirs)
    /\ \A d \in DOMAIN TwDirs : \A e \in Range(TwDirs[d]) : e.size \in Nat
    /\ \A d \in DOMAIN TwDirs : TwRoot \notin Subdirs(d)
    /\ \A c, d \in DOMAIN TwDirs : Subdirs(c) \cap Subdirs(d) # {} => c = d
    /\ \A d \in DOMAIN TwDirs : \A i, j \in DOMAIN TwDirs[d] :
          LET e == TwDirs[d][i] IN e.dir /\ ~e.link /\ e.name = TwDirs[d][j].name => i = j
    /\ \A ds \in SUBSET DOMAIN TwDirs : ds # {} => \E d \in ds : \A p \in ds : d \notin Subdirs(p)
    /\ \A list \in TwSelected :
          /\ list \in Seq(Range(TwDirs[TwRoot]))
          /\ \A i, j \in DOMAIN list : list[i] = list[j] => i = j

VARIABLES
    twJob,      \* what is asked for: [kind, text, mask, list, service]
    twStack,    \* the calls of SearchDir or CalcDir
    twTop,      \* Calc: the selected entries that are left
    twRet,      \* <<what the outermost call has returned>>, or <<>>
    twDirId,    \* lastDirId
    twData,     \* what the thread shares: the counters, currentPath, res
    twSizes,    \* the sizes set in the panel: directory -> size
    twBad,      \* the directories that could not be read
    twShown,    \* the counters that the dialog shows
    twList,     \* SearchListWin::m_ItemList
    twHash      \* the keys of SearchListWin::m_DirHash

twOwn == <<twJob, twStack, twTop, twRet, twDirId, twData, twSizes, twBad, twShown, twList, twHash>>
twVars == <<twOwn, jbVars>>

NoCounters == [found |-> 0, badDirs |-> 0, badFiles |-> 0, files |-> 0, folders |-> 0, size |-> 0]
Call(d) == [dir |-> d, pc |-> "enter", i |-> 1, id |-> 0, sum |-> 0]
Names == UNION {{e.name : e \in Range(TwDirs[d])} : d \in DOMAIN TwDirs}

TwInit ==
    /\ JbInit
    /\ twJob \in [kind : {"search"}, text : BOOLEAN, mask : {Names, Names \ DOMAIN TwDirs},
                  list : {<<>>}, service : {FALSE}]
                 \cup [kind : {"count"}, text : {FALSE}, mask : {{}}, list : TwSelected, service : BOOLEAN]
    /\ twTop = twJob.list
    /\ twStack = IF twTop = <<>> THEN <<Call(TwRoot)>> ELSE <<>>
    /\ twRet = <<>> /\ twDirId = 0
    /\ twData = [n |-> NoCounters, path |-> NoName, dirs |-> {}, items |-> <<>>]
    /\ twSizes = <<>> /\ twBad = {}
    /\ twShown = NoCounters /\ twList = <<>> /\ twHash = {}

-----------------------------------------------------------------------------
(* The thread.                                                             *)

threadOnly == <<twStack, twTop, twRet, twDirId, twData, twSizes, twBad>>
dialogOnly == <<twShown, twList, twHash>>

Searching == twJob.kind = "search"
Call0 == Last(twStack)
Entries == TwDirs[Call0.dir]
Entry == Entries[Call0.i]

At(pc) == jbRun = "running" /\ twStack # <<>> /\ Call0.pc = pc

Becomes(call) == twStack' = [twStack EXCEPT ![Len(twStack)] = call]
GoesTo(pc) == Becomes([Call0 EXCEPT !.pc = pc])

\* The call returns; CalcDir's results are added up by the callers.
Returns(ret) ==
    LET callers == Front(twStack)
    IN  IF callers = <<>> THEN twStack' = <<>> /\ twRet' = <<ret>>
        ELSE /\ twStack' = [callers EXCEPT ![Len(callers)].i = @ + 1, ![Len(callers)].sum = @ + ret]
             /\ UNCHANGED twRet

\* if ( !Node().Data() ) { return; } data->...
WithData(data, next) ==
    IF jbStopped THEN Returns(-1) /\ UNCHANGED <<twData, jbVars>>
    ELSE twData' = data /\ Uses("walk") /\ GoesTo(next) /\ UNCHANGED twRet

\* Mutant: the directory is noted without a look at Data().
EnterDirAnyway ==
    /\ At("enter")
    /\ twData' = [twData EXCEPT !.path = Call0.dir] /\ Uses("walk")
    /\ GoesTo("signal") /\ UNCHANGED <<twRet, twJob, twTop, twDirId, twSizes, twBad, dialogOnly>>

\* Stopped() is asked, and the directory is noted.
EnterDir ==
    /\ At("enter")
    /\ WithData([twData EXCEPT !.path = Call0.dir], "signal")
    /\ UNCHANGED <<twJob, twTop, twDirId, twSizes, twBad, dialogOnly>>

SignalPath ==
    /\ At("signal") /\ SendSignal /\ GoesTo("read")
    /\ UNCHANGED <<twJob, twTop, twRet, twDirId, twData, twSizes, twBad, dialogOnly>>

ReadsDir ==
    /\ At("read")
    /\ \/ GoesTo(IF Searching THEN "files" ELSE "add") /\ UNCHANGED twBad
       \/ GoesTo("bad") /\ twBad' = twBad \cup {Call0.dir}
    /\ UNCHANGED <<twJob, twTop, twRet, twDirId, twData, twSizes, dialogOnly, jbVars>>

\* badDirs++, of which no signal tells, and the call returns.
BadDir ==
    /\ At("bad")
    /\ Returns(-1)
    /\ IF jbStopped THEN UNCHANGED <<twData, jbVars>>
       ELSE twData' = [twData EXCEPT !.n.badDirs = @ + 1] /\ Uses("walk")
    /\ UNCHANGED <<twJob, twTop, twDirId, twSizes, twBad, dialogOnly>>

\* The next entry: by its mask, and by its text if there is one.  TextSearch
\* says that it could not read the file, or has found it, or not.
SearchEntry ==
    /\ At("files") /\ Call0.i <= Len(Entries)
    /\ \/ /\ Entry.name \in twJob.mask /\ (twJob.text => ~Entry.dir)
          /\ GoesTo("found")
       \/ /\ Entry.name \notin twJob.mask \/ twJob.text
          /\ Becomes([Call0 EXCEPT !.i = @ + 1])
       \/ /\ Entry.name \in twJob.mask /\ twJob.text /\ ~Entry.dir
          /\ GoesTo("badFile")
    /\ UNCHANGED <<twJob, twTop, twRet, twDirId, twData, twSizes, twBad, dialogOnly, jbVars>>

\* badFiles++, of which no signal tells.
BadFile ==
    /\ At("badFile")
    /\ IF jbStopped THEN Returns(-1) /\ UNCHANGED <<twData, jbVars>>
       ELSE /\ twData' = [twData EXCEPT !.n.badFiles = @ + 1] /\ Uses("walk")
            /\ Becomes([Call0 EXCEPT !.pc = "files", !.i = @ + 1]) /\ UNCHANGED twRet
    /\ UNCHANGED <<twJob, twTop, twDirId, twSizes, twBad, dialogOnly>>

Item(id, name) == [id |-> id, name |-> name, added |-> FALSE]

\* The entry is added to res, behind a row for its directory if it is the first.
AddFound ==
    LET new == Call0.id = 0
        id == IF new THEN twDirId + 1 ELSE Call0.id
        row == IF new THEN <<Item(id, NoName)>> ELSE <<>>
    IN  /\ At("found")
        /\ IF jbStopped THEN Returns(-1) /\ UNCHANGED <<twDirId, twData, jbVars>>
           ELSE /\ twDirId' = IF new THEN id ELSE twDirId
                /\ twData' = [twData EXCEPT !.n.found = @ + 1, !.dirs = @ \cup {id},
                                            !.items = @ \o row \o <<Item(id, Entry.name)>>]
                /\ Uses("walk")
                /\ Becomes([Call0 EXCEPT !.pc = "tell", !.id = id]) /\ UNCHANGED twRet
        /\ UNCHANGED <<twJob, twTop, twSizes, twBad, dialogOnly>>

TellFound ==
    /\ At("tell") /\ SendSignal
    /\ Becomes([Call0 EXCEPT !.pc = "files", !.i = @ + 1])
    /\ UNCHANGED <<twJob, twTop, twRet, twDirId, twData, twSizes, twBad, dialogOnly>>

NoMoreFiles ==
    /\ At("files") /\ Call0.i > Len(Entries)
    /\ Becomes([Call0 EXCEPT !.pc = "dirs", !.i = 1])
    /\ UNCHANGED <<twJob, twTop, twRet, twDirId, twData, twSizes, twBad, dialogOnly, jbVars>>

\* What f gives for the members of a set, summed up.
SumOver(f, set) == MapThenSumSet(LAMBDA x : f[x], set)

\* What a directory holds itself: files, directories and links to them, and the
\* sizes of the files that are no links.
FilesOf(d) == {i \in DOMAIN TwDirs[d] : ~TwDirs[d][i].dir}
SizeOf(d) == SumOver([i \in DOMAIN TwDirs[d] |-> TwDirs[d][i].size], {i \in FilesOf(d) : ~TwDirs[d][i].link})

AddCounts ==
    /\ At("add")
    /\ LET d == Call0.dir
           n == [twData.n EXCEPT !.files = @ + Cardinality(FilesOf(d)),
                                 !.folders = @ + Cardinality(DOMAIN TwDirs[d] \ FilesOf(d)),
                                 !.size = @ + SizeOf(d)]
       IN  WithData([twData EXCEPT !.n = n], "told")
    /\ UNCHANGED <<twJob, twTop, twDirId, twSizes, twBad, dialogOnly>>

TellCounts ==
    /\ At("told") /\ SendSignal
    /\ Becomes([Call0 EXCEPT !.pc = "dirs", !.sum = SizeOf(Call0.dir)])
    /\ UNCHANGED <<twJob, twTop, twRet, twDirId, twData, twSizes, twBad, dialogOnly>>

\* The next directory that is no link; Stopped() is asked before each.
NextDir ==
    /\ At("dirs") /\ Call0.i <= Len(Entries)
    /\ IF ~Entry.dir \/ Entry.link THEN Becomes([Call0 EXCEPT !.i = @ + 1]) /\ UNCHANGED twRet
       ELSE IF jbStopped THEN Returns(-1)
       ELSE twStack' = Append(twStack, Call(Entry.name)) /\ UNCHANGED twRet
    /\ UNCHANGED <<twJob, twTop, twDirId, twData, twSizes, twBad, dialogOnly, jbVars>>

NoMoreDirs ==
    /\ At("dirs") /\ Call0.i > Len(Entries)
    /\ Returns(Call0.sum)
    /\ UNCHANGED <<twJob, twTop, twDirId, twData, twSizes, twBad, dialogOnly, jbVars>>

(***************************************************************************)
(* Calc, with selected entries.  It goes through all of them whatever has  *)
(* become of the operation, and writes to the data without a lock and      *)
(* without a look at Data().                                               *)
(***************************************************************************)
InCalc == jbRun = "running" /\ twStack = <<>> /\ twTop # <<>>

CalcEntry ==
    /\ InCalc /\ twRet = <<>>
    /\ LET e == Head(twTop)
       IN  IF e.dir /\ ~e.link
           THEN twStack' = <<Call(e.name)>> /\ UNCHANGED <<twTop, twData, jbVars>>
           ELSE /\ twData' = [twData EXCEPT !.n.files = @ + 1, !.n.size = @ + e.size]
                /\ Uses("Calc")
                /\ twTop' = Tail(twTop) /\ UNCHANGED twStack
    /\ UNCHANGED <<twJob, twRet, twDirId, twSizes, twBad, dialogOnly>>

\* SetDirSize and folderCount++
CalcCounted ==
    /\ InCalc /\ twRet # <<>>
    /\ twSizes' = IF twRet[1] >= 0
                  THEN [d \in DOMAIN twSizes \cup {Head(twTop).name} |->
                            IF d = Head(twTop).name THEN twRet[1] ELSE twSizes[d]]
                  ELSE twSizes
    /\ twData' = [twData EXCEPT !.n.folders = @ + 1] /\ Uses("Calc")
    /\ twTop' = Tail(twTop) /\ twRet' = <<>>
    /\ UNCHANGED <<twJob, twStack, twDirId, twBad, dialogOnly>>

WalkEnds ==
    /\ jbRun = "running" /\ twStack = <<>> /\ twTop = <<>> /\ JobEnds
    /\ UNCHANGED <<twJob, threadOnly, dialogOnly>>

-----------------------------------------------------------------------------
(* The dialog.                                                             *)

\* Mutant: items are listed again with every signal.
ListedAgain == twList \o twData.items

\* SearchListWin::Add goes through the items and lists those that have not been
\* added before.
listedUpTo[n \in 0..Len(twData.items)] ==
    IF n = 0 THEN twList
    ELSE IF twData.items[n].added THEN listedUpTo[n - 1]
    ELSE Append(listedUpTo[n - 1], twData.items[n])
Listed == listedUpTo[Len(twData.items)]

AddResults ==
    /\ twHash' = twHash \cup twData.dirs
    /\ twList' = Listed
    /\ twData' = [twData EXCEPT !.items = [i \in DOMAIN @ |-> [@[i] EXCEPT !.added = TRUE]]]

RefreshCounters == twShown' = twData.n

\* OperThreadSignal: the counters, under a lock, and under the next the path
\* and what has been found.
SignalCounters ==
    /\ TakeSignal("results") /\ RefreshCounters
    /\ UNCHANGED <<twJob, threadOnly, twList, twHash>>

SignalResults ==
    /\ jbUi = "results" /\ HandlerReturns
    /\ IF Searching THEN AddResults ELSE UNCHANGED <<twList, twHash, twData>>
    /\ UNCHANGED <<twJob, twStack, twTop, twRet, twDirId, twSizes, twBad, twShown>>

\* Mutant: the count that has ended is not looked at again.
WalkStoppedStale ==
    /\ TakeEnd(IF twJob.service THEN "ok" ELSE "running")
    /\ IF Searching THEN AddResults ELSE UNCHANGED <<twList, twHash, twData>>
    /\ UNCHANGED <<twShown, twJob, twStack, twTop, twRet, twDirId, twSizes, twBad>>

\* OperThreadStopped: the search lists what is left, and does not refresh its
\* counters; the count does, and ends the dialog if the copying waits for it.
WalkStopped ==
    /\ TakeEnd(IF twJob.service THEN "ok" ELSE "running")
    /\ IF Searching THEN AddResults /\ UNCHANGED twShown
       ELSE RefreshCounters /\ UNCHANGED <<twList, twHash, twData>>
    /\ UNCHANGED <<twJob, twStack, twTop, twRet, twDirId, twSizes, twBad>>

\* Cancel, or a file is chosen, or the results are put into a panel
UserEnds == (\E modal \in {"ok", "cancel"} : EndModal(modal)) /\ UNCHANGED <<twJob, threadOnly, dialogOnly>>

CallerGoesOn == (StopThread \/ Return) /\ UNCHANGED <<twJob, threadOnly, dialogOnly>>

TwNext ==
    \/ EnterDir \/ SignalPath \/ ReadsDir \/ BadDir
    \/ SearchEntry \/ BadFile \/ AddFound \/ TellFound \/ NoMoreFiles
    \/ AddCounts \/ TellCounts \/ NextDir \/ NoMoreDirs
    \/ CalcEntry \/ CalcCounted \/ WalkEnds
    \/ SignalCounters \/ SignalResults \/ WalkStopped \/ UserEnds \/ CallerGoesOn

TwSpec == TwInit /\ [][TwNext]_twVars
-----------------------------------------------------------------------------
(* Properties.                                                             *)

(***************************************************************************)
(* The list shows what the thread has found, in that order, each once, and *)
(* knows the directory of every row; rows of a directory are together,     *)
(* behind its own row; and when the user is told that the search is done   *)
(* nothing is missing (the blocks of res with m_Added, filesearch.cpp,     *)
(* also when the last signal is lost behind the thread's end).             *)
(***************************************************************************)
ResultsListed ==
    LET Row(i) == [twList[i] EXCEPT !.added = FALSE]
        Found(i) == [twData.items[i] EXCEPT !.added = FALSE]
    IN  Searching =>
        /\ Len(twList) <= Len(twData.items)
        /\ \A i \in DOMAIN twList : Row(i) = Found(i) /\ twList[i].id \in twHash
        /\ \A i \in DOMAIN twList : twList[i].name # NoName =>
                i > 1 /\ twList[i - 1].id = twList[i].id
        /\ \A i, j \in DOMAIN twList : twList[i].name = NoName /\ twList[i].id = twList[j].id => i <= j
        /\ jbTold => Len(twList) = Len(twData.items)

\* The directories of start and all below them, but for those below bad ones.
Reached(start, bad) ==
    {d \in DOMAIN TwDirs : \A ds \in SUBSET DOMAIN TwDirs :
        start \subseteq ds /\ (\A p \in ds \ bad : Subdirs(p) \subseteq ds) => d \in ds}

(***************************************************************************)
(* When a count has ended, the dialog shows, and the copying of files is   *)
(* given, what is in the directories that can be read; and the panel shows *)
(* of each selected directory the size of the files in it, if all of them  *)
(* can be read.  (One that cannot is counted as -1 byte, and a count that  *)
(* was stopped leaves a part of the size: excluded.)                       *)
(***************************************************************************)
CountsExact ==
    LET listed == {e \in Range(twJob.list) : e.dir /\ ~e.link}
        start == IF twJob.list = <<>> THEN {TwRoot} ELSE {e.name : e \in listed}
        read == Reached(start, twBad) \ twBad
        others == Range(twJob.list) \ listed
    IN  ~Searching /\ jbTold =>
        /\ twShown = [found |-> 0, badFiles |-> 0, badDirs |-> Cardinality(twBad),
              files |-> Cardinality(others)
                        + SumOver([d \in DOMAIN TwDirs |-> Cardinality(FilesOf(d))], read),
              folders |-> Cardinality(listed)
                          + SumOver([d \in DOMAIN TwDirs |-> Len(TwDirs[d]) - Cardinality(FilesOf(d))], read),
              size |-> SumOver([e \in others |-> e.size], others)
                       + SumOver([d \in DOMAIN TwDirs |-> SizeOf(d)], read)]
        /\ \A e \in listed : Reached({e.name}, twBad) \cap twBad = {} =>
                /\ e.name \in DOMAIN twSizes
                /\ twSizes[e.name] = SumOver([d \in DOMAIN TwDirs |-> SizeOf(d)], Reached({e.name}, twBad))
=============================================================================
