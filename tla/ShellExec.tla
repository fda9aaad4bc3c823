----------------------------- MODULE ShellExec -----------------------------
(***************************************************************************)
(* The execution of commands: the shell process of the commander and its   *)
(* pipes (shell.cpp), the thread of every command (RunProcessThreadFunc of *)
(* termwin.cpp), and the number of the process that the main window keeps  *)
(* in order to stop it (file-exec.cpp).                                    *)
(*                                                                         *)
(* A request or an answer is one message: its characters are written one   *)
(* by one, but only one thread uses the pipes when one command runs at a   *)
(* time (OneByOne).  The code does not see to that: see the README.        *)
(***************************************************************************)
EXTENDS Integers, Sequences, FiniteSets

CONSTANTS
    ShCommand,  \* the commands that are started; each has a thread of its own
    OneByOne,   \* whether a command is started only when no other one runs
    MaxRuns     \* bound: how often the shell is started

ASSUME ShellAssumption == OneByOne \in BOOLEAN /\ MaxRuns \in Nat \ {0}

Nobody == "nobody"

VARIABLES
    shell,      \* the shell process: alive, run, the request it waits for, its pipes
    thread,     \* for every command: where its thread is, its process, the answer it read
    procs,      \* the processes: each with its command, and whether it runs
    mail,       \* for every thread what is queued for the window: <<>> or one value
    exec,       \* m_ExecId, m_ExecSN
    dialog,     \* the command named in the dialog that asks, or Nobody
    killed      \* what StopExecute has killed: pairs of a process and the command named

shVars == <<shell, thread, procs, mail, exec, dialog, killed>>
-----------------------------------------------------------------------------
NewShell(n) == [alive |-> TRUE, run |-> n, waits |-> <<>>, in |-> <<>>, out |-> <<>>]
Stopped == -1
NextPid == Len(procs) + 1
Ends == 0       \* in the slot of a thread: it has ended; no process has this number

ShInit ==
    /\ shell = NewShell(1)
    /\ thread = [c \in ShCommand |-> [at |-> "none", pid |-> 0, read |-> Nobody]]
    /\ procs = <<>>
    /\ mail = [c \in ShCommand |-> <<>>]
    /\ exec = [id |-> Stopped, name |-> Nobody]
    /\ dialog = Nobody /\ killed = {}

At(c, place) == thread[c].at = place
GoTo(c, place) == thread' = [thread EXCEPT ![c].at = place]
Idle(c) == thread[c].at \in {"none", "gone"}

(***************************************************************************)
(* DoStartExecute and TerminalWin::Execute.                                *)
(***************************************************************************)
Execute(c) ==
    /\ At(c, "none") /\ dialog = Nobody
    /\ OneByOne => \A d \in ShCommand : Idle(d)
    /\ exec' = [exec EXCEPT !.name = c]
    /\ GoTo(c, "CD")
    /\ UNCHANGED <<shell, procs, mail, dialog, killed>>

(***************************************************************************)
(* A request: Shell::CD, Exec and Wait.  When the shell is gone, whether   *)
(* that is noticed by the writing or by the reading, Run starts another    *)
(* one and the request has failed.                                         *)
(***************************************************************************)
Requests == {"CD", "Exec", "Wait"}
Answering(request) ==
    [CD |-> "answer of CD", Exec |-> "answer of Exec", Wait |-> "answer of Wait"][request]
AfterFailure(request) == IF request = "Wait" THEN "waited" ELSE "end"

Write(c, request) ==
    /\ At(c, request) /\ shell.alive
    /\ shell' = [shell EXCEPT !.in = Append(@, [request |-> request, of |-> c, pid |-> thread[c].pid])]
    /\ GoTo(c, Answering(request))
    /\ UNCHANGED <<procs, mail, exec, dialog, killed>>

RequestFails(c, request) ==
    /\ thread[c].at \in {request, Answering(request)} /\ ~shell.alive
    /\ shell' = NewShell(shell.run + 1)
    /\ GoTo(c, AfterFailure(request))
    /\ UNCHANGED <<procs, mail, exec, dialog, killed>>

\* RunProcessThreadFunc: what the thread does with an answer.
AfterAnswer(request, value) ==
    IF request = "CD" THEN IF value = 0 THEN "Exec" ELSE "end"
    ELSE IF request = "Exec" THEN IF value > 0 THEN "started" ELSE "end"
    ELSE "waited"
Read(c, request) ==
    /\ At(c, Answering(request)) /\ shell.alive /\ shell.out # <<>>
    /\ LET a == Head(shell.out) IN
       /\ thread' = [thread EXCEPT ![c] =
                        [at |-> AfterAnswer(request, a.value), read |-> a.of,
                         pid |-> IF request = "Exec" THEN a.value ELSE @.pid]]
       /\ shell' = [shell EXCEPT !.out = Tail(@)]
    /\ UNCHANGED <<procs, mail, exec, dialog, killed>>

(***************************************************************************)
(* WinThreadSignal: one slot for every thread; a signal overwrites the one *)
(* before, and the end overwrites a signal.                                *)
(***************************************************************************)
SignalPid(c) ==
    /\ At(c, "started")
    /\ mail' = [mail EXCEPT ![c] = <<thread[c].pid>>]
    /\ GoTo(c, "Wait")
    /\ UNCHANGED <<shell, procs, exec, dialog, killed>>
SignalEnd(c) ==
    /\ At(c, "waited")
    /\ mail' = [mail EXCEPT ![c] = <<Stopped>>]
    /\ GoTo(c, "end")
    /\ UNCHANGED <<shell, procs, exec, dialog, killed>>
EndThread(c) ==
    /\ At(c, "end")
    /\ mail' = [mail EXCEPT ![c] = <<Ends>>]
    /\ GoTo(c, "ended")
    /\ UNCHANGED <<shell, procs, exec, dialog, killed>>

(***************************************************************************)
(* The shell process.  While it waits for a process it reads nothing.      *)
(***************************************************************************)
Answer(s, of, value) == [s EXCEPT !.out = Append(@, [of |-> of, value |-> value])]
Taken == [shell EXCEPT !.in = Tail(@)]
ShellProc ==
    /\ shell.alive /\ shell.waits = <<>> /\ shell.in # <<>>
    /\ LET r == Head(shell.in) IN
       \/ /\ r.request = "CD"
          /\ \E ret \in {0, -1} : shell' = Answer(Taken, r.of, ret)
          /\ UNCHANGED procs
       \/ /\ r.request = "Exec"
          /\ procs' = Append(procs, [of |-> r.of, at |-> "runs"])
          /\ shell' = Answer(Taken, r.of, NextPid)
       \/ /\ r.request = "Exec"
          /\ shell' = Answer(Taken, r.of, -1) /\ UNCHANGED procs
       \/ /\ r.request = "Wait"
          /\ shell' = [Taken EXCEPT !.waits = <<r>>] /\ UNCHANGED procs
    /\ UNCHANGED <<thread, mail, exec, dialog, killed>>
Reap ==
    /\ shell.alive /\ shell.waits # <<>>
    /\ LET r == shell.waits[1] IN
       /\ r.pid \in DOMAIN procs => procs[r.pid].at # "runs"
       /\ procs' = [p \in DOMAIN procs |-> IF p = r.pid THEN [procs[p] EXCEPT !.at = "reaped"] ELSE procs[p]]
       /\ shell' = Answer([shell EXCEPT !.waits = <<>>], r.of, r.pid)
    /\ UNCHANGED <<thread, mail, exec, dialog, killed>>
ProcessEnds ==
    /\ \E p \in DOMAIN procs :
        /\ procs[p].at = "runs"
        /\ procs' = [procs EXCEPT ![p].at = "ended"]
    /\ UNCHANGED <<shell, thread, mail, exec, dialog, killed>>
\* The shell process is killed, by whomever.
ShellDies ==
    /\ shell.alive /\ shell.run < MaxRuns
    /\ shell' = [shell EXCEPT !.alive = FALSE, !.in = <<>>, !.out = <<>>, !.waits = <<>>]
    /\ UNCHANGED <<thread, procs, mail, exec, dialog, killed>>

(***************************************************************************)
(* The main window.                                                        *)
(***************************************************************************)
\* FileExecutor::ThreadSignal
ThreadSignal(c) ==
    /\ mail[c] # <<>> /\ mail[c] # <<Ends>>
    /\ exec' = [exec EXCEPT !.id = mail[c][1]]
    /\ mail' = [mail EXCEPT ![c] = <<>>]
    /\ UNCHANGED <<shell, thread, procs, dialog, killed>>
\* Mutant: the number of the process is kept.
ThreadStoppedKept(c) ==
    /\ mail[c] = <<Ends>>
    /\ exec' = [exec EXCEPT !.name = Nobody]
    /\ mail' = [mail EXCEPT ![c] = <<>>]
    /\ GoTo(c, "gone")
    /\ UNCHANGED <<shell, procs, dialog, killed>>
\* FileExecutor::ThreadStopped
ThreadStopped(c) ==
    /\ mail[c] = <<Ends>>
    /\ exec' = [id |-> Stopped, name |-> Nobody]
    /\ mail' = [mail EXCEPT ![c] = <<>>]
    /\ GoTo(c, "gone")
    /\ UNCHANGED <<shell, procs, dialog, killed>>
\* StopExecute: the dialog, during which the window's events are handled ...
AskToStop ==
    /\ dialog = Nobody /\ exec.id > 0
    /\ dialog' = exec.name
    /\ UNCHANGED <<shell, thread, procs, mail, exec, killed>>
\* ... and what comes after it.
Stop ==
    /\ dialog # Nobody
    /\ dialog' = Nobody
    /\ \/ UNCHANGED <<procs, killed>>
       \/ /\ exec.id > 0
          /\ killed' = killed \union {<<exec.id, dialog>>}
          /\ procs' = IF procs[exec.id].at = "runs" THEN [procs EXCEPT ![exec.id].at = "ended"] ELSE procs
    /\ UNCHANGED <<shell, thread, mail, exec>>

ShNext ==
    \/ \E c \in ShCommand :
        \/ Execute(c)
        \/ \E request \in Requests : Write(c, request) \/ Read(c, request) \/ RequestFails(c, request)
        \/ SignalPid(c) \/ SignalEnd(c) \/ EndThread(c)
        \/ ThreadSignal(c) \/ ThreadStopped(c)
    \/ ShellProc \/ Reap \/ ProcessEnds \/ ShellDies
    \/ AskToStop \/ Stop

ShSpec == ShInit /\ [][ShNext]_shVars
-----------------------------------------------------------------------------
(***************************************************************************)
(* A thread takes for the answer to its request (shell.cpp) nothing but    *)
(* that answer, also after the shell has died and been started again.      *)
(* What StopExecute kills (file-exec.cpp) is a process of the command its  *)
(* dialog has named, although the window handles signals while it asks;    *)
(* and the number of a process does not outlive its command: when no       *)
(* thread is left there is nothing to stop, and nothing is in the pipes.   *)
(***************************************************************************)
OwnProcess ==
    /\ \A c \in ShCommand : thread[c].read \in {Nobody, c}
    /\ \A k \in killed : procs[k[1]].of = k[2]
    /\ (\A c \in ShCommand : Idle(c))
        => exec.id = Stopped /\ (shell.alive => shell.out = <<>> /\ shell.in = <<>>)
=============================================================================
