# A verification project for WCM Commander

WCM Commander is a two-panel file manager in C++ with its own user-interface
toolkit (`src/src/swl`), base library (`src/src/wal`), virtual file systems
(`src/src/vfs`), viewer, editor and terminal.  One thread runs the user
interface.  Everything that may take long (reading a directory, copying, talking
to a server, searching, running a command) runs in a worker thread that belongs
to a window.  What makes the program hard is not any single algorithm but what
happens between these threads: dialogs are modal and nested, each runs an event
loop of its own inside a handler of the loop below it, workers outlive the
windows that started them, and both sides write into the same objects.

## Inventory

| part | state it keeps | operations | talks to | hard because | correct when |
|---|---|---|---|---|---|
| window threads (`swl_wincore.cpp` 612-922) | a `WTHNode` per thread in three lists: by thread, by window, and the command queue; an event (a pipe) | `wth_CreateThread`, `WinThreadSignal`, the end of a thread, `wth_DropWindow`, `wth_DoEvents` | workers, event loops, `Win` handlers | handlers run nested loops inside `wth_DoEvents`; nodes are freed and their addresses reused; windows die first | no lost wake-up, no use of a freed node or dead window, the end told once and last |
| event loops (`swl_wincoreUX.cpp`) | modal stack, timers | `AppRun`, `DoModal`, `EndModal`, `~Win` | window threads, X11 | re-entrancy, exceptions | a waiting loop has nothing to do |
| window tree (`swl_wincore.cpp`, `swl_wincoreUX.cpp`, `ncdialogs.cpp`) | per window its parent, its visibility, `blockedBy`, `lastFocusChild`; `focusWinId`, `activeWinId` | show, block and unblock, set the focus, activate, the X server's notes | event loops, every window | handlers of blocked windows run too and open dialogs; notes come late; exceptions leave a `DoModal` | just the innermost dialog can be used; the focus is in it |
| operation threads (`operwin.cpp`) | `OperThreadNode` per run, `operStopList`, and per window `tNode`, `threadId`, `cbExecuted` | `RunNewThread`, `StopThread`, `SetStopFlag`, `CallBack`, `SendSignal`, `ThreadSignal`, `ThreadStopped` | window threads, panels, dialogs | two locks, a condition variable, a worker that outlives its window | the window's data is used only while it exists; stopping never waits; every question is answered |
| file operations (`fileopers.cpp`, `operthread.cpp`) | the operation's data, the answers "for all" | copy, move, delete, make directory | operation threads, file systems | every call may fail, the user may retry, skip, or cancel at any point | nothing is deleted that was not copied; it ends when stopped |
| directory size, file loading, search (`dircalc.cpp`, `file-util.cpp`, `eloadsave.cpp`, `filesearch.cpp`) | counters and results shared with a dialog | a thread each | operation threads | the dialog is closed and calls fail at any time; results come in parts; texts lie across the pieces of a file | the data are used only while they exist; nothing found is lost or listed twice; sums are of what can be read; no part is taken for the whole |
| panel (`panel.cpp`, `panel_list.cpp`) | place stack, list, sort order, selection, cursor, `_inOperState` | load, reread, sort, select, move | operation threads | the list is exchanged under the cursor | shows Loading while, and only while, a run will answer; the cursor stays in the list |
| commander window (`ncwin.cpp`) | mode, panels, command line | commands and keys | everything | | |
| viewer (`ncview.cpp`) | requests and results shared with the viewer's thread, search data shared with the search thread | open, close, move, change mode, search, timer | window threads, file systems | a hand-shake of flags in which requests replace each other; the window forgets its thread; deletion by whoever is last | objects deleted once; nothing asked for is lost; what is shown is of this file, as it is on disk |
| editor (`ncedit.cpp`) | text, marks, undo list | edit, undo, redo | loading and saving | undo and redo of combined changes | undo restores the text |
| terminal and shell (`terminal.cpp`, `t-emulator.cpp`, `shell.cpp`, `file-exec.cpp`) | output queue, screen, process numbers | output, resize, execute, stop | window threads, processes | two threads, a pipe, process numbers that are reused | every byte written once, in order; only the user's process is signalled |
| file systems (`vfs`) | path, temporary tree | open, read, list, rename | operations | every call may fail | |
| FTP (`vfs-ftp.cpp`) | a pool of connections, open files, a cache of listings | log on, take a node, command and reply, transfer, close | operations, panels, loaders: several threads | the network breaks or the user stops any exchange half-way | no connection shared or lost; a call reads its own replies |
| base library (`wal`) | locks, strings, collections, character sets | | everything | differs between POSIX and Windows | |
| configuration, history, masks, dialogs, help, colouring | lists and tables | load, save, match | | | |

The hazards, each at its line, are in `PROJECT.json`.

## The modules

| module | models | against |
|---|---|---|
| `WinThreads` | the window threads, their queue, the nested loops | `swl_wincore.cpp`, `swl_wincoreUX.cpp` |
| `ThreadMail` | the promise of the window threads: a mail box per thread | (abstract) |
| `WinTree` | modal dialogs, blocked windows, the active window and the focus | `swl_wincore.cpp`, `swl_wincoreUX.cpp`, `ncdialogs.cpp` |
| `OperThread` | extends `WinThreads` with the operation threads, a panel and dialogs | `operwin.cpp`, `panel.cpp`, `fileopers.cpp` |
| `OperThreadProofs` | theorems on `WinThreads`, that it implements `ThreadMail`, and theorems on `OperThread` | |
| `Handoff` | a dialog and its thread that share an object, deleted by whoever is last | `ncview.cpp` (search), `shell-tools.cpp` |
| `DialogProofs` | theorems on `Handoff` and `WinTree` | |
| `Viewer` | the viewer's window, its threads and the timer | `ncview.cpp`, `ncwin.cpp` |
| `ViewerProofs` | theorems on `Viewer` and `ViewerText` | |
| `FileOps` | copy, move and delete on a disk whose calls fail, with the user's answers | `fileopers.cpp`, `operthread.cpp`, `vfs.cpp` |
| `FileProofs` | theorems on `FileOps` | |
| `FtpFs` | the pool of FTP connections and the protocol on each | `vfs-ftp.cpp`, `tcp_sock.cpp` |
| `FtpProofs` | theorems on `FtpFs` | |
| `EditText` | the editor's text, cursor, blocks, undo and redo | `ncedit.cpp`, `ncedit.h` |
| `EditSession` | extends `EditText`: the editor in the main window, saving, leaving, the background activity | `ncwin.cpp`, `eloadsave.cpp`, `file-exec.cpp` |
| `EditProofs` | theorems on `EditText` and `EditSession` | |
| `PanelList` | a panel's list, marks, cursor and places, and the reading of directories | `panel.cpp`, `panel_list.cpp`, `panel.h`, `vfs.cpp` |
| `Emulator` | the terminal's screens, and the window that shows one of them | `t-emulator.cpp`, `termwin.cpp` |
| `ShellExec` | the protocol with the shell, the command's thread, its process and its killing | `shell.cpp`, `termwin.cpp`, `file-exec.cpp` |
| `PartsProofs` | theorems on `PanelList`, `ShellExec`, `TermOut` and `Emulator` | |
| `TermOut` | what is typed: the queue, its thread, the coding | `terminal.cpp`, `terminal.h` |
| `ViewerText` | the places in a viewed file and the keys that lead to them | `ncview.cpp` |
| `OperJob` | one operation thread behind one modal dialog, as seen from the operation | `operwin.cpp`, `eloadsave.cpp` |
| `TreeWalk` | extends `OperJob`: the search for files and the count of files and sizes | `filesearch.cpp`, `dircalc.cpp` |
| `FileLoad` | extends `OperJob`: loading, saving and copying a file block by block | `eloadsave.cpp`, `file-util.cpp` |
| `JobProofs` | theorems on `TreeWalk`, `FileLoad` and `TextSearch` | |
| `TextSearch` | the search for a text in a file that is read in pieces | `ncview.cpp`, `filesearch.cpp`, `search-tools.cpp` |
| `Bounds` | two operators on numbers, and the repetition of a step | |
| `MCOperThread` | symmetry for TLC | |
| `MCViewer` | `Viewer`, `TreeWalk`, `FileLoad` and `TextSearch`, each from its own initial states, with their instances | |
| `MCWinThreads` | the toolkit: `WinThreads` and `WinTree`, from their own initial states | |
| `MCFileOps` | `FileOps` on small disks, and `FtpFs` | |
| `MCParts` | the composition of the components that keep their state to themselves, their instances, and assumptions that check the algorithms without a state | |

`OperThread` is built on `WinThreads`, step by step.  `Handoff` and `Viewer` are
built on `ThreadMail`, which `WinThreads` is shown to implement: what they need of
the window threads is that a thread has one message, which its end replaces, and
that a window's death takes its threads' windows away.

### WinThreads

One action per critical section of `wtHash.mutex`; no other lock is taken inside
one.  `alloc`, `thList`, `winList` are the nodes that are allocated, in the list
by thread and in the list by window (the hash tables are sets: a lookup compares
pointers); `cmdQueue` is `cmdFirst ... cmdLast`; `signaled` is the state of
`wthInternalEvent`.  A node is an *address*: `CreateThread` takes any address
that is free, so that the comparison `p == last`, made after `p` was deleted,
meets addresses that mean another thread now.  Window addresses are reused too.

`stack` is the call stack of the user-interface thread.  Its frames are `loop`
(AppRun or DoModal), `enter` (DoModal before its first `wth_DoEvents`), `events`
(`wth_DoEvents` with its `last`), and `signal` and `stopped` (the window's
handler).  A handler may construct a dialog and run it, whose loop is a new frame
above the handler's, and so on up to `MaxDepth`.  With `MayThrow` handlers may
throw: `StoppedThrow` is the double `delete p` of lines 889 and 892, `SignalThrow`
unwinds to the dialog's caller through `DoModal`.

### ThreadMail

The promise in three variables per thread: its life, the one message that waits,
and its window.  A message that waits is replaced by the next, the end is the
last message, a thread without a window is forgotten silently, and every message
is taken eventually.  `MailSpec` of `WinThreads` is `ThreadMail!Spec` under the
refinement mapping `lifeMap`, `boxMap`, `ownerMap`.

### WinTree

`sw.win` has a record for each window that exists (`winhash`): its parent, whether it
is a top window or a child, whether it is shown, `blockedBy`, `lastFocusChild`, and
the depth of the stack at which the handler that made it runs.  `swStack` are the
`DoModal`s that run, with what they have noted for their end, `swNotes` the windows
the X server has mapped or unmapped and not told of yet.  `SetFocus`, `Activate` and
`EventFocus` call each other in the code; in the model what they still have to do is a
list, of which `FocusStep` does the first entry and puts what it calls in its place, and
`Calling` goes on until nothing is left.  `Descend` is the way down the tree in
`UnblockTree` and `IsVisible`, `Remember` and `TopOf` the two ways up.  They are
iterations (`Iterate`), so that the prover can follow them.

`ShowDialog` is the constructor of a dialog and its `DoModal` up to the loop, in a
handler of any window that is shown, blocked or not: timers and threads call the
handlers of blocked windows.  `LeaveModal` is what follows the loop, `Destroy` the
destructor, `ShowAgain` a second `DoModal` of the same dialog, `ThrowModal` an
exception that leaves the loop and destroys the dialog.  `MoveFocus` is a click or a
handler's `SetFocus`, `FocusIn`, `FocusOut` and `Mapped` are the X server's events.
Both kinds of dialogs exist: children of their parent (`createDialogAsChild`) and top
windows (`--dlg`).

`swLost` notes how the focus may be lost in the code as it is: `DoModal` restores
nothing when an exception leaves it (`"thrown"`); a dialog shown over a window that is
blocked already finds in `lastFocusChild` no way back (`"astray"`); and `Activate`
does not look at `blockedBy`, so that a late MapNotify makes a blocked top window
active (`"blocked"`), until the user moves the focus.

### OperThread

Extends `WinThreads`: each worker is a window thread, and each step here that
touches the queue or the stack *is* the step of `WinThreads` with the operation
threads' variables added.  `node` holds the fields of the `OperThreadNode`s,
`opAlive` those that are allocated, `pc` where the workers are, `ui` what the
user-interface thread is in the middle of (inside `StopThread`, between it and
`ThreadCreate`, inside `SetStopFlag`, on its way to the destructor), and `calls`
what program code the handlers on the stack execute.  `operMutex` is held over
a step only by `StopThread` waiting for `node->mutex` (`OperLocked`);
`node->mutex` is held over a step by its worker (`NodeLocked`).

`MainWin` stands for a panel: it lives as long as the program, and starts one run
after the other, stopping the one before (`LoadPath`).  The other windows are
dialogs: constructed, started once (`RunNewThread` before `DoModal`), stopped and
destroyed.  A dialog without a run is a message box.

The constants choose what the code leaves to the platform and to its callers:

* `Sticky`: `wal::Cond` is a POSIX condition variable, or on Windows a pair of
  events (`wal_sys_api.cpp` 197-210) whose signal is kept until it is waited for.
* `Spurious`: POSIX allows `Wait` to return without a signal; `CallBack` has no
  loop around it.
* `Careful`: the prompts of the file systems (`OF_FSCInfo`) look, under the
  mutex, whether they are stopped before they call `CallBack`; `RedMessage`, with
  which file operations ask what to do, does not.
* `UseStopFlag`: one dialog (`file-util.cpp` 438) cancels with `SetStopFlag`.
* `CreateMayFail`: the system may refuse a thread.
* `Askers`: the windows whose operations ask.

### Handoff

A dialog shows that a thread works, and ends when the thread does or the user
cancels: the search in the viewer (`VSearchDialog`, `VSTData`) and the reading of
a directory for completion (`ShellLoadDirDialog`, `ShellLoadDirTD`) are written
alike and are one model.  Thread `t` stands for the thread and its object; `alloc`
are the objects that exist, `winClosed` and `threadStopped` the two flags, `pc`
where the threads are.  `modal` is the stack of the windows whose `DoModal` runs,
`dlg` has of each its `data` pointer and the `end` of its `ModalStruct`, and `ui`
is what the user-interface thread is in the middle of.  The mutex is held over a
step only between `LeaveData` and `UnlockData`, where the thread signals the
dialog, and `CloseData` waits for it.

The model keeps what makes this hard: the dialog can be left at any time, its
address is used again, a message box may be above it when its thread ends (then
`EndModal` does nothing, `swl_wincore.cpp:207`), the caller of `DoModal` reads the
results *without* the lock, and the one who deletes the object deletes the lock.
A window stands for a dialog whose thread, if any, is its only one.

### Viewer

Thread `t` stands for a viewer thread, its number, its `ViewerThreadData` and its
file.  `view` is the window's `threadData`, `shown` its `lastResult`; `inFlags`,
`inLook` and `inEvent` are the requests, `ret`, `loadStarted` (`loadStartTime`) and
`error` (`m_Error` is not empty) what the thread writes.  Mode and size are one value, the
*look*, since `FMODE` and `FSIZE` are asked for and worked off alike (`ViewerThread`,
964-970).  `job` are the thread's local variables, `disk` counts the changes of the
files, `seen` is the size and time a `VFile` has noticed, and `cache` the change from
which its cached blocks are.

One action per critical section of the object's mutex, one for each read of the
file, and one for each place where the thread writes without the mutex (`Fail`).
`ui` is `"size"` between `ThreadCreate` and `CalcSize` in `SetFile`, and `"resize"` in
`ThreadSignal` and `HexText`, which go on to `CalcSize` after they have unlocked the
mutex.  `wal::Cond` is the POSIX one; its spurious wake-ups (`WakeUp`) include those
that a kept signal causes on Windows.

What a key does is abstracted to a place where the thread goes; a window of no
size, for which `CalcSize` asks nothing, and a refused thread, which `SetFile`
treats like `ClearFile`, are left out.  `Timer = FALSE` is the program between two
ticks of the window's timer, which comes once a second.

### FileOps

`disk` maps paths to objects: files, links, special files and directories.  `job` is
what was asked for, `stack` the directories being worked through (`CopyDir`,
`DeleteDir`, `MoveDir` and the lists of `Copy` and `Move`), `cur` the object at hand
and `pc` the call that comes next.  Every action is one call of a file system with
all that the code does on its outcome; each call may fail at each time, as long as
it would have something to do, `Answers` are the buttons of the question that
follows (and -1 when the operation has been stopped, as `RedMessage` gives), and
`StopOperation` comes at any time.  `Relations` tells how the two file systems of an
operation are related: one object, equal ones, one with a mount in it (`EXDEV`), and
two.  `rename` takes a directory with all that is below it, to a path where nothing is,
not even below.  The state a file is in while it is copied (`kind = "file"`, no data yet) is on
the disk.

`Stat` fails as well, and the code takes that for "not there": `MoveFile` and `MoveDir`
then replace a target about which nobody was asked, and `IsSameFile` does not see that
source and target are one (`Told`).  `unseen` records the targets that a failing `Stat`
has hidden (`Overlooks`).

`NothingLost` has three exceptions, `LostUnasked`: those targets; the links and special
files that are moved after "Skip all"; and, once the operation has been stopped, what
gives way to a listed directory: `MoveDir` takes the answer -1 of its question "Delete
the file?" for Ok.

Kept as it is: `MoveDir`'s inverted test and the path it removes then (the `refusal`
flag marks it), the links after "Skip all", the three loops that take -1 for Retry.
Left out: attributes and times, progress windows, names that need a conversion, and
the copying of a directory into its own subdirectory, which never ends
(`CopyDir` lists what it has just made).

### FtpFs

`ftNode` is the pool: `busy` and the connection of each node.  A connection is three
queues: commands in the output buffer (`out`), commands sent and not answered (`net`),
replies received and not read (`in`), besides its data connection.  `ReadCode` flushes
only if it has to wait, as the code does, so that the order of writing, sending and
reading is kept; a reply is its first digit.  `Plan` is what each call of `FTPNode` does
step by step, `Work` which calls an operation of the file system makes (`Stat` before
`MkDir`), and `ftCall` where each thread is.  An open file keeps its node between the
calls.  A network error, a timeout and the user's stop throw the same way and may
come in every wait; `Catch` is what the callers do with the exception.

`cut` notes an exchange that was broken off.  From then on the code does not know how
many replies are to come, and `NOOP` (`TakeNode`) may take an old one for its own:
such a connection is used on, and `InStep` says nothing of it.  Two things end a
behaviour (`ftEnd`): the end of the input in `ReadCode`, which looks at a null
pointer, and a file number closed twice by the callers of a `Close` that failed, when
the node belongs to another call by then.  Names, sizes, listings and their cache are
left out.

### EditText and EditSession

`ed` is the editor: its lines with their ends, the cursor and the marker, the list of
undo blocks with the position in it, the mark of a change.  Each key builds the same
records in the same order as the code, and `Undone` and `Redone` apply them as `Undo`
and `Redo` do.  A block also carries the texts before and after it, which the code
does not have: `UndoExact` compares them with what the records do.  `WordDelete`
switches on Ctrl+Del, whose count (1111-1135) breaks `UndoExact`; the run has it off.
Search, replace and colouring are left out.

`EditSession` puts the editor into the main window: `mode` is `NCWin::_mode`,
`background` is `m_BackgroundActivity`, `running` counts commands, and `asked` says that
the question of `EditExit` is open.  Its dialog runs an event loop: keys go to the dialog,
but a command may end (`CommandEnds`) and set the mode PANEL, after which the answer Yes
saves nothing, since `EditSave` returns when the mode is not EDIT (`ExitAnswered`).  `Saves` has every
outcome of saving: written, failed before or after the truncation, or cancelled when
all was written.  `gaps` records what the code does not guard against, so that the
properties can say for what they hold: a save that failed, a history kept over a
save, a cancelled exit, an exit that a command's end overtook and whose Yes saved
nothing, the end of the program.

### PanelList

`pn` has the fields of a `PanelWin`, its `PanelList` and its `clPanelPlace`; `pnLoad`
is what `LoadPath` has noted for `OperThreadStopped` while a thread reads.  In between
the user goes on moving, marking and sorting the old list, as in the code.  The
places are a root, a subdirectory and an archive, which may be in either, with the
contents read anew each time.  The root has no line ".." (`panelShowDotsInRoot` is off),
an archive has one.  `DirUp` leaves an archive before the list of the place below is
read: until then, and for good if the reading fails, the old list is shown under the new
path, and in the root it is one line shorter (`Count` against `CountAsRead`), so that the
cursor may be one line behind its last.  `PanelExact` allows just that.  What part of
the list is visible is left out.

### Emulator

`em` are the emulator's two screens with the lines above the first one (`EmKept`), the
cursor, the region, the saved cursor and the set of flagged lines; `tw` is the window
with its copy of the lines.  The decoding of control sequences is abstracted to its
outcomes (`Outcomes`), each of which does what the code does; the input thread, the
signal that it sends, scrolling back and resizing are actions.  What the start of a
command and `cls` do is a sequence of calls (`emCalls`), each of which takes the
emulator's mutex for itself (`Call`): the input thread comes between any two of them.
`Emulator::Reset`, which they and ESC C call, changes lines and flags none; `emQuiet`
records the lines it has changed until they are flagged, and `DrawnOrFlagged` leaves out
these only.

### ShellExec and TermOut

`ShellExec` has the two pipes, the shell as a process that executes one request after
the other, the thread that runs a command (`RunProcessThreadFunc`), the signals it
sends to the window, and `FileExecutor`'s number of the process.  Processes end at
any time.  Their numbers are not used again: that the number of a process which has
been waited for may be another's when `StopExecute` kills it, before the signal of its
end is handled, is left out.  `OneByOne` excludes the several commands of
`ApplyCommand`, which share the one number that the window keeps.

`TermOut` has the blocks of `TerminalOutputQueue` with their positions, the keys of
the user, the thread that takes a block's bytes and writes as many as the terminal
takes, and the end of that thread at a timed wait.

### ViewerText

`vt` is the file that is viewed, the size, the mode, and the place: an offset, a
column and the longest line.  `ReadString`, `GetPrevLine` and `Align` are those of
`VFile`, on files of a few bytes with tabs and mixed line ends; the keys are the cases
of `ViewerThread`.  `free` is set when the place was an offset and not a line.
`OpenFile` is `SetFile`, `SetMode` is `WrapUnwrap` and `HexText`, `Resized` the part
of `CalcSize` that fills the screen again.  A loop of the source is `Iterate`: a step,
and the most often it can be run.  `ShortLines` says of a file that each of its lines,
with its tabs and the return before its newline, fits the buffer of the viewer; the
files of the run are such files (`ViewedShort`).

### OperJob, TreeWalk and FileLoad

`OperJob` is `OperThread` for one dialog that runs once and asks nothing, reduced to
what its operation notices: whether the thread runs, `stopped`, the one message
(`jbBox`), what the user-interface thread does (`jbModal`, `jbUi`), and whether the
caller has returned (`jbOpen`), after which the dialog and the data are gone.
`jbLate` records by what the data have been used after that.

In `TreeWalk` a frame of `twStack` is a call of `SearchDir` or `CalcDir`, and `pc` in it
the next block of statements under the two mutexes; `twTop` are the selected
entries that `Calc` has before it.  `twData` is what the thread shares: the counters,
the path and the results with their `m_Added`, of which `twList` is the copy in the
dialog and `twShown` that of the counters.  Reading a directory and reading a file may
fail; a mask is the set of names that match it, and whether a text is found is left
open.  Cancelling does not interrupt a call of a file system: they ask `IsStopped`.

In `FileLoad` a file is the number of its blocks.  `load` and `save` are closed by the
user at any time, `temp` only asks its thread to stop (`SetStopFlag`) and waits.  What
the caller gets (`flResult`) is compared with the disk and the file in `WholeOrTold`.
Any call may fail, `Close` included, which may leave a part on the disk.  The saver looks
at it; `LoadToTempFile` does not (`file-util.cpp:361`), and gives its caller a copy that
may be a part: `flUnseen` marks it, and `WholeOrTold` excludes this copy by name.
`EditSession` sees a save as one step with the same outcomes.

### TextSearch

A searcher is a sequence of nodes with the one or two forms of a character; one with
one byte per character or one form is the same, searched faster (modes 2 and 3 of
`VSearcher`).  `tsBuf`, `tsCount` and `tsOffset` are the buffer and what it holds,
with what was left in it of other pieces.  `VFile::ReadBlock` gives what is asked for,
and `Read` of a file system any part of it.

## The runs

Every bound is a constant in a `.cfg`.  `MaxDepth` bounds the stack; a nesting
step takes three frames (`events`, handler, `loop`), so 9 is a dialog opened in
a handler that runs in a dialog opened in a handler.

| run | instance | shows |
|---|---|---|
| `threads` | 2 nodes, 3 windows, depth 9, exceptions; 2 dialogs | `OwnersOpen`: what of the queue's consistency survives exceptions; `ModalExact`, `KeyboardAlive` |
| `threads_fair` | 2 nodes, 2 windows, 2 messages | `IdleLoopDrained`, `NodesSafe`; `WinThreads` implements `ThreadMail`, fairness included |
| `oper_dialog` | 3 runs, panel, dialog, message box | `StopListExact`, `CallbackCurrent`, `LoadingShown` |
| `oper_any` | 2 runs, everything permitted | `DataSafe`, `ToldAfterRun` need nothing of the platform or the callers |
| `oper_fair` | 2 runs, `Sticky`, `Careful` | `WaitsEnd`: `StopReturns`, `CallBackServed` and `EndTold` |
| `handoff` | 3 threads, 2 windows | `DataOwned` (`DataAlive`, `DeletedOnce`), `ResultReady`, and `Freed`: whoever must delete does |
| `viewer` | 2 files, errors, no timer; a tree of four directories; files of up to two blocks; texts of up to three characters in files of up to nine bytes, a buffer of five | `DataAlive`, `ShownOfView`, `PostponedIsShown`; `ResultsListed`, `CountsExact`, `UsedWhileOpen`, `WholeOrTold`, `TextFound` |
| `viewer_fair` | 1 file, 2 looks, timer, a change on disk, errors | `RequestsKept`, `StopEnds`, `FollowsDisk` |
| `files` | copy, move, delete; trees of up to three levels, lists of two, a directory under the name of an object beside it; four relations of the file systems; 2 threads on pools of 1 and 2 connections | `NothingLost`, `NoHalfFile`, `AllDone`, `StopEndsIt`; `PoolExact`, `InStep` |
| `parts` | the small instances of `MCParts` | `UndoExact`, `EditsKept` (`UnsavedKept`, `SavedExactly`), `PanelExact`, `CursorStays`, `DrawnOrFlagged`, `OwnProcess`, `TypedInOrder`, `BeginsWithLine`, and the module's assumptions |
| `oper_stop`, `file_refusal` | small | what comments say and the code does not do |

Why the bounds are enough.  Two nodes suffice for a node to be reused while an
interrupted `wth_DoEvents` still holds its address, three for one to be queued
behind it as well; the proofs take over for any number, and `oper_dialog` has three.
Two dialogs over a main window, opened, left and shown again in every order, by handlers
of either's windows, have each of the cases of blocking; a third makes the stack one
deeper and the run longer than TLC can finish (its first 23 steps, 4.7 million
states, violate nothing).  Three runs make the stop
list long enough for an inner element to leave it.  A panel, a dialog and a
message box give each of the three kinds of nesting the operation threads meet.

Three searches let one that was cancelled, one that is shown and one that is opened
over it run at once.  Two files are one that is shown and one that was forgotten,
whose thread still works.  The requests of one file are kept in flags, so that two
looks and one place (`viewer_fair`) give every order in which they can replace each
other; a key is enough to hold a result back (`viewer`).  One
change on disk falls before, between or after any two steps of a load.

A job of `files` has a directory with two objects, one of which may be a directory
with a file, and in the target nothing, an object of that name, or a directory with an
object of that name: a merge at two depths.  Two objects in a list are what it takes for
an answer to one ("for all", "skip all", a refusal) to bear on the next.

The tree of `viewer` has files, a link to a file, one to a directory, an empty
directory and two levels below the root, so that rows of several directories follow
each other; the lists of selected entries mix files, directories and links.  Files of
no, one and two blocks let a failure or a cancel fall before, between and after
blocks.  A buffer of five bytes and files of up to nine make three pieces of what the
viewer reads; texts are of one to three bytes, in one or two character sets, with
forms that differ in length by none, one or two bytes, as k and the Kelvin sign do in
UTF-8 (`LengthAssumption`: the buffer is longer than two texts, as 16000 bytes are; how
much the forms differ does not matter).

In FTP two threads on one connection compete for it, and on two use one each while
one gives its own back: more threads meet only in the pool, one at a time.

In `parts` a text of two lines with a blank and a carriage return has every case of
joining, splitting and indenting; three changes and a list of two blocks make the
oldest block go and a redo be cut off.  A panel of four files, one a directory and
one hidden, moves by pages of two.  A terminal of two or three lines keeps four, and
four steps (`EmSteps`, besides the calls of a handler) are enough to fill, scroll, switch
screens and resize in any order, and to write between the calls of a command's start.
Two commands, one after the other, meet what the first has left behind.  A queue whose blocks hold two bytes
(`ToSize`) is crossed by keys of one and two.  The viewed files have lines that are
shorter, as long as, and longer than the screen.

Symmetry: nodes, threads, looks and dialogs are compared and nothing else, and no temporal
property is checked with symmetry.

Deadlock is checked except where a fault ends the program (`Running`): a
dereferenced null or freed pointer is the end of the behaviour.  In `parts` the editor
and the terminal stop at their bounds.  In `viewer` an operation stops when its caller has
returned and its thread has ended, and nowhere else (`Over`).

### Fairness

The loops wait in `select` for the event's pipe, so that a signaled event, or a
`DoModal` that has just been entered, is followed by `wth_DoEvents`; a round of
`wth_DoEvents` waits for nothing but the end of a thread that has announced it;
a handler that shows no dialog returns.  That a dialog is closed, a thread ends or
an operation asks is never assumed.  For the operation threads: a worker that has
locked its mutex to copy data unlocks it, and a mutex that is free again and again
is got by the thread that waits for it (strong fairness of `FinishStop` and
of `SetStopFlag`): workers hold it for short copies between long operations.

In `Handoff` and `Viewer` a search or a load comes to its end, since files are
finite and no lock is waited for in it; a waiting thread is woken by a signal only
(`WakeUp` has no fairness).  The handlers of messages have strong fairness: the
event loop is busy with other handlers again and again, and `ThreadMail` promises
that the message is taken.  The timer ticks; no user does anything.  `FollowsDisk`
is about a window that is left open on one file, without errors.

In `FileOps` the operation's thread takes its next step; nothing is assumed of calls or
answers, so that a question may be answered with Retry for ever and a call fail for
ever: `StopEndsIt` says that the operation ends once it was stopped, all the same.

### What the violation runs show

* `oper_stop`: `ThreadSignal` finds `tNode` null and returns, "already stopped,
  and the callback has been sent the signal with a negative result".  But a worker
  whose window is stopped just before its `CallBack`, or between its signal to
  the window and its wait, was not waiting when that signal was sent: it sets
  `cbRet`, waits, and is never woken.  Its node stays in the stop list for ever.
  `oper_fair` shows that with a sticky signal and a look at `stopped` before every
  question this does not happen to a dialog.
* `file_refusal`: `MoveDir` leaves its loop over a directory's objects when `MoveFile`
  returns 0, which by the comments above both means that it went well, and goes on when
  it returns -1, which means stop.  In the end it removes the path of the last object
  instead of the directory.  The run finds an object removed after a refusal;
  `files` shows that this loses no file.

Some invariants hold only beside what the code gets wrong, and name it: `KeyboardAlive`
leaves out `swLost`, `InStep` and `PoolExact` what `cut` and `ftEnd` note (see `WinTree`
and `FtpFs`); `NothingLost` names three losses, `WholeOrTold` the `Close` that is not looked
at, `EditsKept` the gaps, `DrawnOrFlagged` the lines of a reset, `PanelExact` the cursor
after an archive in the root; `UsedWhileOpen` names the places that use the data without the lock, and
`TextFound` says of the file search only what it finds in one piece: it reads the next
piece over the end of the last one (`filesearch.cpp:158`), so that it misses texts.  What other places of the code say and do not do is kept in the models and excluded
from the properties by name: see the notes of the hazards.  `RunNewThread` swallows the
exception that its declaration and its caller announce, so that a panel whose thread
cannot be created shows "Loading" for good.  `ThreadSignal` of the viewer does not show a
result while there is a request, "let us wait for it to be executed"; if that is
the timer's and the file has not changed, the result is not shown until the user
does something else.  `viewer` and the theorem `ShowsPostponed` say that every other
request is followed by a signal.

The panel's case deserves a note: with a panel whose *readers* ask questions,
`CallbackCurrent` is false too: the signal of a stopped run's question, still in the
queue, is executed for the node of the next run.  And a panel rereads in the event
loop of its own callback's dialog when a command ends, so that the new run's
question finds a callback on the stack: `ASSERT( !cbExecuted )` (`operwin.cpp:203`)
fails.  That is why `oper_dialog` lets dialogs ask only; the panel's half is kept as
a hazard.  Two more places where the code and its comments part are hazards too:
a run stopped while its callback is executed gets the callback's answer, although
"ret < 0 if stopped" (`operwin.h:48`), and `SetStopFlag` ignores the rule written
over `operMutex`.

## What is proved

`OperThreadProofs` proves of the window threads, for any sets of nodes, windows and data and any
`MaxDepth`:

* `TypeCorrect`, `QueuesOnce`, `DeliversToOpen`: `[]TypeOK`, `[]QueuedOnce`,
  `[]OwnersOpen`, with or without exceptions;
* `NodesAreSafe`, `NoLostWakeUp`, `StaysCovered`: `[]NodesSafe`,
  `[]IdleLoopDrained`, `[]QueueCovered`, when no handler throws.

`QueuedOnce` and `QueueCovered` are what the argument rests on; the runs check what
they are for.

The argument.  None of the six is inductive.  The strengthening says that a node
is in the queue exactly when its command slot is not empty and is then allocated,
that a queued end is that of a thread no list has any more, that a node being
stopped is allocated, unlinked and in one `stopped` frame only, that the stack
alternates in the way the code nests (each `loop` is the bottom or stands on a
handler or another loop, each handler on an `events`), and that every window on it
is open.  The heart is `QueueCovered`: whenever the event is clear and the queue is
not empty, its last element is the `last` of an `events` frame above the topmost
loop.  Queueing sets the event; a new `wth_DoEvents` notes the last element when
it clears it; a round leaves only after the noted node, which by `QueuedOnce` and
the reuse argument can only be the last of the queue that it noted or a node
queued later, which set the event.  `IdleLoopDrained` follows: a loop on top of
the stack has no `events` frame above it.

It proves `ImplementsMail` as well, the safety part of the refinement: the initial
states of `WinThreads` map to those of `ThreadMail`, and each step to a step there or
to none.  Besides the invariant it needs `MailShape`: a node that
is allocated is in a list, in the queue, or being stopped, a `stopped` frame is that of
its node's window, and what is queued are data.  The fairness of `MailSpec` stays with `threads_fair`.

`DialogProofs` proves the invariants of `handoff`, for any sets of threads and
windows and any depth of nesting, with no assumption but that `None` is none of
them.  The strengthening (`Flags`) says what the two flags mean wherever the
thread is: an object exists exactly when its thread has not yet looked at
`winClosed`, or some dialog on the stack has it, or its dialog is just deleting it;
`winClosed` is set only when no dialog has it.  `Owned` says that no two dialogs have one
object, `Ended` that a dialog is ended only by a thread that is gone, which is why
reading without the lock is right, and `Mailed` ties the threads to `ThreadMail`.
`Distinct` is a fact about the stack: a window on top of it is there once, so that
removing it removes it from the set of the windows shown.

It proves `OneDialogIsOpen` (`ModalExact`) of `WinTree`, for any set of dialogs, nested as
deep as one likes, children of their parents or top windows, shown by the handlers of any windows.
`ModalExact` speaks of the innermost dialog only, but when that one is left the next must be
right at once.  So the invariant (`Good`) says it of every dialog whose `DoModal` runs:
the windows that were there when it began are unblocked, or blocked by a later
dialog only, just if they are below it (`Parted`); a window is blocked only by a dialog that began
when it was there (`Blocked`); and no window is older than its parent (`Parents`).  `BelowInHand` is why `UnblockTree` may stop where a window is not blocked by
`id`: below the dialog that begins all windows are as new as it, and none was
blocked before.  `DescendIs` says that the way down ends after as many rounds as there are windows,
and finds what the start leads to and nothing else; `WiderTree`, that constructing and destroying
a dialog leaves everything below the others alone.  What moves the focus, however its calls follow each
other, changes no parent, no `vis` and no `blockedBy` (`FocusLike`), and that is all that is proved
of it: where the focus comes to be (`KeyboardAlive`) is model-checked.

`ViewerProofs` proves `TypeOK`, `DataAlive`, `ShownOfView` and `RequestsKept` for
any sets of threads, looks and places and any number of changes, and
`PostponedIsShown` under the assumption `~Timer`.  `Alive` says that a thread has
its object exactly while it is in its loop or deletes it; `Viewed` that only a
thread that was told to stop leaves the loop, and that the window's is not told.
For `RequestsKept` the look asked for last must be followed through the thread:
`LookComing` says it is asked for, or in the job being done, or in the result, and
that a job with an older look is always followed by another request.
`ResultComing` says the same of the result: shown, or its signal in the mail, or
asked for, or being computed, which is true only while no request of the timer is
among the flags.

Of the operation threads `OperThreadProofs` first proves `RunsOnWinThreads`: every step of `OperThread` is a
step of `WinThreads` or leaves its variables alone, so that the
invariant of the window threads holds of the operation threads and is used in all that follows.
`OperInv` says where each worker may be while its node is allocated, stopped or
bound (`WorkerShape`), that a window's `tNode` and the node's `win` agree
(`BoundBothWays`), and that a window's number of a thread names its last run until it
is told of the end (`IdKept`).  From it follow `DataIsSafe` and `ToldAfter`, whatever
the constants are.  The other three need what the code does not provide everywhere, and
say so:

* `ShowsLoading` supposes that threads can be created (`~CreateMayFail`): `RunNewThread`
  swallows the exception.
* `ListsTheStopped` supposes `~UseStopFlag`: `SetStopFlag` stops a run without
  listing it.  `StopListInv` says that there are ranks of the stopped runs, by which
  the next and the previous one of each are told (`Ranks`): the list has no cycle and
  leaves none out.
* `CallsBackTheWaiting` supposes besides that panels do not ask and that `Wait` returns
  for a signal only (`MainWin \notin Askers`, `~Spurious`): see above what happens
  otherwise.  `CallInv` ties what the handlers execute to their frames (`CallsMatch`),
  and each callback, queued or on the stack, to a worker that is in `CallBack` and has
  no answer yet (`CallsShape`).

`FtpProofs` proves `PoolIsExact` and `StaysInStep` for any threads, any pools and any
subset of the operations.  `FtpInv` says of each call which of its commands are still
to come (what is left of its `Plan`), that a busy node has one user, a call or an open
file, and that between two steps a connection that was not broken off is quiet or owes
the last reply of a transfer, to the call that has it to come.  A free node is the first
one, by the order of numbers (`WFMin`).

`FileProofs` proves `KeepsEverything` (`NothingLost`), `LeavesNoHalf` (`NoHalfFile`)
and `DoesAllItSays` (`AllDone`)
for any disk, any listed names, any depth of directories, any failures, answers and
stops.  They suppose `Apart`: no listed object is copied or moved into itself, over a directory
that it lies in, or over or into another listed one.  The first two hold as well when each
object is to go where it is (`OntoItself`), which the code refuses as long as `Stat` does
not fail.  The code does not look for anything else of this kind: the user could
agree to overwrite what he has listed and what is still to be copied.  Under deletion, and where the operation refuses a list that
has no directory to go into, `Apart` says nothing.

`FileInv` has two halves (TLC finds it kept on all jobs of `files`, which are all apart).
`Control` says where the thread is: what each frame of the
stack still has to do is on the disk, and is neither the object at hand nor below it, nor
in or below what the frames above have worked on (`Under`, `StackOk`); that the
destination of what is at hand, or of a frame, is the one that follows from its path
(`Destination`); that nothing has changed before the first object (`Beginning`) and the
directory the objects go into stays (`IntoStays`), by which `Target` always agrees with
it; and that what `Unlink` deletes may go (`VictimOk`).  `Data` says what is on the disk:
a listed object is as it was, or gone; one that is gone is at its destination, unless it was to be
deleted; others are as they were unless the user agreed.  The lemmas about paths
(`DestinationOne`, `DestinationAway`) say that two listed objects have two destinations,
and that none lies at or below a listed object.  A target that was overlooked is no listed object (`Unlisted`).
Each step either touches nothing on the disk
(`QuietStep`), changes what is at the destination (`DstStep`), removes what has been
copied, or pops or pushes a directory (`PopStep`, `PushStep`).  `SelfInv` is the invariant
of jobs that are `OntoItself`: each object at hand has the path of its target, and nothing
is written, renamed or deleted but what a failing `Stat` has hidden; what is not hidden is as
it was.

`DoesAllItSays` needs besides what is still to be done.  `WorkInv` says that what has
been listed and is still there, a file or a link, is at hand, or in or below what some frame
of the stack still has to do (`Pending`), or is copied already; that a
directory in the list does not go before what is in it (`ListedTree`), and that what gives up returns false, and what
passes over an object has been told to (`Told`).  That nothing is at hand or to do when
the operation is done gives `AllDone`.  The disk is a tree (`DiskAssumption`).

`JobProofs` proves `LoadsTheWhole` and `LoadUsesItsData` for files of any length, and
`ListsTheResults` and `WalkUsesItsData` for any tree, any masks and any list of
selected entries.  `JbInv` is what `OperJob` says of the thread, its message and its
dialog; `FlInv` adds how much has been read, written and moved, and what the caller
will be given, the copy whose `Close` has failed excepted.  `SearchInv` says that the calls below the last one are
in their directories (`Calls`), that a directory which has a row is that of the last
result as long as its files are looked at (`LastItem`), that the results of a directory
are together, behind its own (`Rows`), and that the dialog's list is the first part of
the results, those marked as added (`ListedPart`).  `Listed` is a recursive function; that it gives the list
followed by the rest is shown by the least counterexample and not by induction.

It proves `CountsTheTree` (`CountsExact`) for any finite tree, any list of selected entries and
whichever directories cannot be read.  `CountInv` says that some set of directories, `done`, is
what the counters count (`CountersOf`): each that is done is reached from the start (`DoneReached`),
what follows one that could be read is done or a call will still come to it (`DoneClosed`), and nothing
to which a call will come is done (`NotYetDone`), so that none is counted twice.  Nothing but the
tree makes that true: in it a directory has one parent and is not below itself
(`OneTreeAssumption`), so the calls are a way down (`CallChain`), what is below two directories of one
is apart (`BelowApart`), and what a call has added up is the sum over what it has seen
(`SumsRight`).  It is claimed where no bad directory is below, since one counts as -1 byte.
When no call is left, `done` is what is reached: of what were done and not reached
one directory would have no parent among them (`DoneIsReached`).  The sums are folds; `SumIs` finds the
function that the fold computes by the smallest set for which there would be none, and
`SumTwo` adds those of two sets.

It proves `FindsTheText` (`TextFound`) for any files, any texts in any character sets whose
letters have one form or two of any lengths, and any buffer that two such texts fit into
(`LengthAssumption`).  `TsInv` says of the viewer, and of a file search whose file is read at
once (`Whole`), that the bytes in use are those of the file at the offset (`Held`), that no
text begins before them (`Passed`), that fewer are left than the longest text has when the next piece is
read, and that a zero is behind the last (`Zeros`).  That a searcher finds the same in the buffer as in
the file is `PieceSame` where the longest text is whole, and `RestSame` at the end, where the
zero stops it as the end of the file does; both rest on `MatchSame`, which follows
the characters of a text along the places to which they may lead (`Paths`).  What is left
when nothing is found is too short for any text (`MatchBounds`).

It proves `ShowsFromALine` (`BeginsWithLine`) of `ViewerText`, for windows of any size
and any files of which all lines are short (`ShortLines`), which is the hypothesis: a
line that fills the buffer is cut, and what is shown may begin in the middle of it.
One column must be left: when the user drags the scroll bar to behind a carriage return,
the way back counts it as a character, and only the way forward drops it.  `Placed`
is inductive as it is; what needs work is that `GetPrevLine` finds a line `ReadString`
finds.  The two count columns differently: forward a tab goes to the next stop,
backward each tab takes `VtTab` columns and up to `VtTab - 1` characters before it none.
`Widths` are the columns before each character going forward; `BackStays` keeps, at every
step of the way back, that the columns it has left are enough for those of the rest of the
line (`FitsPlain`, `FitsTab`, `FitsFree`), so that it can only stop at the start
(`BackToStart`).  The loops are recursive functions: `Repeated` says that
there is one (`UpTo` is the induction), and a set that each step stays in holds what is
made (`ReadRepeated` and those like it).  Then each key ends in `Places` (`PlainFacts`, `WrapFacts`, `HexFacts`), and
`FilledFacts` says that the filling of the screen keeps that.

`PartsProofs` proves `StopsItsOwn` for any commands that run one at a time
(`OneByOne`).  `ShInv` says that the pipes are empty but for the one request, or its
answer, of the thread that waits for it (`Pipes`), and that the number which is queued
for the window, or kept by it, is that of a process of the command that runs (`Mails`,
`Kept`), whose name is also the one in the dialog (`Named`).

It proves `OutputInOrder` (`TypedInOrder`) for buffers of any size, keys that
send any bytes, and writes that take any part of what they are given.  `ToInv` adds that a
buffer of the queue holds at least one unread byte and that the thread has bytes in its
hands only while it writes.  The lemmas say what the operations of the queue do to its contents: a byte that is put
comes after them (`PutByteIs`), the byte that is got is the first of them
(`AfterGetIs`), and what `PutAll` and `ReadOutput` make of many.  These
are recursive functions: that there is one is shown by `FollowsExists`, what it gives by the
least number for which it would give something else (`LeastNumber`).

It proves `MissesNoLine` (`DrawnOrFlagged`) for terminals of any size that keep any number
of lines, whatever counts the escape sequences carry and however long it runs.  `EmInv` adds
to the property only the shape of the emulator: that each of the two screens has the lines
and the columns the emulator speaks of (`IsEm`).  What remains is said of one operation
at a time: a line which is not flagged after it was not flagged before and is as it was
(`KeptElseFlagged`), or every line is flagged (`Flagged`).  Each operation of the emulator has
such a lemma, and a sequence of them keeps it (`KeptTrans`).  Since the invariant is kept by
each call of a handler by itself, nothing is supposed of what programs write in between.
`Reset` is the one that flags nothing, and what it changes joins `emQuiet`; it is a fact of its own
that the other lines are as they were, and that what leaves `emQuiet` is flagged.

It proves `ShowsItsFiles` (`PanelExact`) and `KeepsItsEntry` (`CursorStays`) for
directories of any files with any sizes, and a reading that ends at any time.  `PnInv` adds
to `PanelExact` the types of what is counted with and the places: an archive is on top of
"/" or "/d" and only there, and what a reading will do to the places fits those there are
(`PlacesOK`, `LoadOK`).  It is needed for the cursor, since the line of ".." counts: it is
within the list as that was read (`Within`), and the list as it is shown differs from that
only when an archive has been left for "/" and nothing has been read since.
`ArrangedIs` says that an order in which any two files can be compared puts each on a line of
its own, and `PrecedesOrders` that `CmpFunc` is one, by name and by size, in both
directions.  `CounterAdd` says that adding a file to the counter gives what counting them all
would; with it `ShiftToIs` follows the marks along the lines that Shift passes.
`CursorStays` needs the order as well: `OperThreadStopped` looks for an entry on line 0 as
if it were gone, and finds that nothing precedes it (`ClosestFirst`).

`EditProofs` proves `UndoesExactly` (`UndoExact`, and `ChangeMarked` with it) for any files
and clipboards, any capacity of the list of blocks and any number of keys.  The invariant
`Good` reads the list as a chain of texts: each block's records, played forward, lead from
the text before it to the text after it, and played backward, back (`Replays`); the
text after one block is the text before the next (`Chained`); the text in the editor is the
one at `pos`; and at each of these points, if the mark of a change is off, the text is the
one the file holds (`Exact`).  `UndoExact` alone is not inductive: it says nothing of
the blocks one undo further, nor of the mark a block will give back.  Each kind of record
has a lemma that it takes back what it makes (`InsertIs`, `DeleteIs` and those on lines),
each key one that its records do what it does to the text, and a paste is a recursive
function over its pieces (`pasted`), followed as in `PartsProofs`.
The one hypothesis is `WordDelete = FALSE`: the count of Ctrl+Del may be longer than the rest
of the line, and with it the property is false.

It proves `KeepsEdits` (`EditsKept`) of `SessionSpec`, the editor in the main window, with
no hypothesis; there the keys are typing, undo and redo.  `SessionInv` is `Good`
with the clause on the file switched off once a save has failed or has kept the history
(`Saved`), and which of the window's states go with an editor in the background, or with an open question (`Shown`).
It proves `SavesWhatItLoads`: `Save(Load(f)) = f` for every file, what `MCParts` evaluates
on the files of the run (`FilesRoundTrip`).  `Load` cuts a file at its line feeds, and a line keeps
whether a carriage return came before; the last line, which has no end, is the case that needs care.

Constants are supposed to be what the code makes of them: files and clipboards are sequences
of characters and line ends (`EditAssumption`), the entries of a directory
(`TreeAssumption`) and the sizes of files (`PanelAssumption`) are sequences, directories are a
finite tree without the links, whose entries have different names and are selected once (`OneTreeAssumption`), what an object lies in is a directory
(`DiskAssumption`), a viewed file is a sequence and a window has rows and columns (`ViewedAssumption`),
what a key sends is a sequence of numbers (`ToAssumption`), the window of a terminal starts with the
least of its sizes and prints sequences of characters (`EmAssumption`), the forms of a letter hold no zero
(`TextAssumption`), names are not the absence of a name, nodes are
positive numbers, `Told` is no node; a job lists a finite set of names that are on
its disk, none of whose files is half-written.

Only model-checked: what needs fairness (all liveness, and the fairness of the
refinement), since `ENABLED` is out of the prover's reach; `KeyboardAlive`, which needs the way the
focus takes through the calls that move it.  What `MCParts` assumes of algorithms is evaluated on bounded inputs.

## Plan

1. Done: `WinThreads`, `ThreadMail`, their runs and proofs; `OperThread` and its runs;
   `Handoff` and `Viewer` with their proofs; `FileOps` and `FtpFs`; `WinTree`; the
   components of `MCParts`; `TreeWalk`, `FileLoad`, `TextSearch`.
2. Done: `OperThreadProofs`, `DialogProofs`, `FtpProofs`, `JobProofs`, `PartsProofs`, `FileProofs`,
   `EditProofs`; the refinement `ImplementsMail`.
3. Open: `KeyboardAlive` as a theorem.
4. The cache of blocks of a `VFile` (its queue and its count), which the viewer and the
   search thread share; the cache of listings of FTP; masks and paths as pure
   algorithms.

## What is not modelled

Drawing, layout, fonts, input methods and the Windows counterpart of the event
loop; popup menus, mouse capture and disabled windows; SFTP and SMB; the libraries of SSH, SMB and archives; the meaning of configuration files and
colouring rules; vendored code.  `PROJECT.json` lists every part with its
status and reason.
