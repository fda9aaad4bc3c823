---------------------------- MODULE PartsProofs ----------------------------
(***************************************************************************)
(* Components that keep their state to themselves (MCParts).  What         *)
(* StopExecute kills, and what the thread of a command reads from the      *)
(* pipes, for any number of commands that run one at a time (ShellExec).   *)
(* That what is typed is written in its order, through buffers of any size *)
(* (TermOut).  That the window misses no line of a screen of any size      *)
(* (Emulator).  And that a panel shows its files, and keeps the cursor on  *)
(* its entry, in directories of any size (PanelList).                      *)
(***************************************************************************)
EXTENDS ShellExec, TermOut, Emulator, PanelList, SequenceTheorems, FiniteSetTheorems,
        WellFoundedInduction, NaturalsInduction, TLAPS

(***************************************************************************)
(* The inductive invariant.                                                *)
(***************************************************************************)
Places == {"none", "CD", "answer of CD", "Exec", "answer of Exec", "started", "Wait",
           "answer of Wait", "waited", "end", "ended", "gone"}
ShThread == [at : Places, pid : Int, read : ShCommand \union {Nobody}]
ShRequest == [request : Requests, of : ShCommand, pid : Int]
ShAnswer == [of : ShCommand, value : Int]
ShProcess == [of : ShCommand, at : {"runs", "ended", "reaped"}]
ShTypeOK ==
    /\ thread \in [ShCommand -> ShThread]
    /\ procs \in Seq(ShProcess)
    /\ shell \in [alive : BOOLEAN, run : Int, waits : Seq(ShRequest), in : Seq(ShRequest), out : Seq(ShAnswer)]
    /\ mail \in [ShCommand -> Seq(Int)]
    /\ exec \in [id : Int, name : ShCommand \union {Nobody}]
    /\ dialog \in ShCommand \union {Nobody}
    /\ killed \subseteq Int \X (ShCommand \union {Nobody})

ProcessOf(p, c) == p \in DOMAIN procs /\ procs[p].of = c

\* One command at a time: its name is the one the window keeps, and the one
\* of the dialog that asks.
OneActive == \A c, d \in ShCommand : ~Idle(c) /\ ~Idle(d) => c = d
Named == \A c \in ShCommand : ~Idle(c) => exec.name = c /\ dialog \in {Nobody, c}

\* The number a thread has been told is that of a process of its command.
OwnPids ==
    \A c \in ShCommand :
        /\ thread[c].pid > 0 => ProcessOf(thread[c].pid, c)
        /\ At(c, "started") => thread[c].pid > 0
        /\ thread[c].read \in {Nobody, c}

\* The pipes are empty but for the request, or the answer, of the one thread
\* that waits for it.
Empty == shell.in = <<>> /\ shell.out = <<>> /\ shell.waits = <<>>
Asked(c, request) ==
    \/ \E r \in ShRequest :
        /\ r.of = c /\ r.request = request /\ shell.out = <<>>
        /\ \/ shell.in = <<r>> /\ shell.waits = <<>>
           \/ shell.in = <<>> /\ shell.waits = <<r>> /\ request = "Wait"
    \/ \E a \in ShAnswer :
        /\ a.of = c /\ (request = "Exec" /\ a.value > 0 => ProcessOf(a.value, c))
        /\ shell.out = <<a>> /\ shell.in = <<>> /\ shell.waits = <<>>
Pipes ==
    /\ ~shell.alive => Empty
    /\ \/ Empty
       \/ \E c \in ShCommand, request \in Requests : At(c, Answering(request)) /\ Asked(c, request)

\* What is queued for the window, and the number it keeps, are those of the
\* command that runs.
Mails ==
    \A c \in ShCommand : mail[c] # <<>> =>
        /\ ~Idle(c)
        /\ \E v \in Int : mail[c] = <<v>> /\ (v \in {Stopped, Ends} \/ ProcessOf(v, c))
        /\ mail[c] = <<Ends>> => At(c, "ended")
Kept == exec.id # Stopped => \E c \in ShCommand : ~Idle(c) /\ ProcessOf(exec.id, c)
Killed == \A k \in killed : ProcessOf(k[1], k[2])

ShInv ==
    /\ ShTypeOK /\ OneActive /\ Named /\ OwnPids
    /\ Pipes /\ Mails /\ Kept /\ Killed
-----------------------------------------------------------------------------
(***************************************************************************)
(* The types.                                                              *)
(***************************************************************************)
LEMMA AnsweringIs ==
    /\ Answering("CD") = "answer of CD" /\ Answering("Exec") = "answer of Exec"
    /\ Answering("Wait") = "answer of Wait"
BY DEF Answering

LEMMA AfterAnswerIs ==
    ASSUME NEW request \in Requests, NEW value \in Int
    PROVE  AfterAnswer(request, value) \in {"Exec", "started", "waited", "end"}
BY DEF AfterAnswer, Requests

\* The thread of a command that has gone to another place.
LEMMA GoToType ==
    ASSUME ShTypeOK, NEW c \in ShCommand, NEW place \in Places, GoTo(c, place)
    PROVE  /\ thread' \in [ShCommand -> ShThread]
           /\ thread'[c].at = place /\ thread'[c].pid = thread[c].pid /\ thread'[c].read = thread[c].read
           /\ \A d \in ShCommand \ {c} : thread'[d] = thread[d]
<1>1. thread[c] \in ShThread
    BY DEF ShTypeOK
<1>2. [thread[c] EXCEPT !.at = place] \in ShThread
    BY <1>1 DEF ShThread
<1>3. thread' = [thread EXCEPT ![c] = [thread[c] EXCEPT !.at = place]]
    BY DEF GoTo
<1>. QED BY <1>1, <1>2, <1>3 DEF ShTypeOK, ShThread

LEMMA MailType ==
    ASSUME ShTypeOK, NEW c \in ShCommand, NEW letter \in Seq(Int), mail' = [mail EXCEPT ![c] = letter]
    PROVE  /\ mail' \in [ShCommand -> Seq(Int)] /\ mail'[c] = letter
           /\ \A d \in ShCommand \ {c} : mail'[d] = mail[d]
BY DEF ShTypeOK

\* What the shell process does with a process keeps the command of each.
LEMMA ProcsKept ==
    ASSUME ShTypeOK, procs' \in Seq(ShProcess), Len(procs') >= Len(procs),
           \A p \in DOMAIN procs : procs'[p].of = procs[p].of
    PROVE  \A p, c : ProcessOf(p, c) => ProcessOf(p, c)'
<1>1. \A p \in DOMAIN procs : p \in DOMAIN procs'
    BY DEF ShTypeOK
<1>. QED BY <1>1 DEF ProcessOf

LEMMA ExecuteType == ASSUME ShTypeOK, NEW c \in ShCommand, Execute(c) PROVE ShTypeOK'
<1>1. thread' \in [ShCommand -> ShThread]
    BY GoToType DEF Execute, Places
<1>. QED BY <1>1 DEF ShTypeOK, Execute

LEMMA WriteType ==
    ASSUME ShTypeOK, NEW c \in ShCommand, NEW request \in Requests, Write(c, request)
    PROVE  ShTypeOK'
<1>1. Answering(request) \in Places
    BY AnsweringIs DEF Requests, Places
<1>2. thread' \in [ShCommand -> ShThread]
    BY <1>1, GoToType DEF Write
<1>. DEFINE r == [request |-> request, of |-> c, pid |-> thread[c].pid]
<1>3. r \in ShRequest
    BY DEF ShTypeOK, ShThread, ShRequest
<1>4. Append(shell.in, r) \in Seq(ShRequest)
    BY <1>3 DEF ShTypeOK
<1>. HIDE DEF r
<1>5. shell' = [shell EXCEPT !.in = Append(shell.in, r)]
    BY DEF Write, r
<1>6. shell' \in [alive : BOOLEAN, run : Int, waits : Seq(ShRequest), in : Seq(ShRequest), out : Seq(ShAnswer)]
    BY <1>4, <1>5 DEF ShTypeOK
<1>. QED BY <1>2, <1>6 DEF ShTypeOK, Write

LEMMA FailsType ==
    ASSUME ShTypeOK, NEW c \in ShCommand, NEW request \in Requests, RequestFails(c, request)
    PROVE  ShTypeOK'
<1>1. AfterFailure(request) \in Places
    BY DEF AfterFailure, Places
<1>2. thread' \in [ShCommand -> ShThread]
    BY <1>1, GoToType DEF RequestFails
<1>3. shell' \in [alive : BOOLEAN, run : Int, waits : Seq(ShRequest), in : Seq(ShRequest), out : Seq(ShAnswer)]
    BY DEF RequestFails, NewShell, ShTypeOK
<1>. QED BY <1>2, <1>3 DEF ShTypeOK, RequestFails

\* The answer a thread has read, and what it makes of it.
LEMMA ReadThread ==
    ASSUME ShTypeOK, NEW c \in ShCommand, NEW request \in Requests, Read(c, request)
    PROVE  /\ Head(shell.out) \in ShAnswer
           /\ thread' \in [ShCommand -> ShThread]
           /\ thread'[c].at = AfterAnswer(request, Head(shell.out).value)
           /\ thread'[c].read = Head(shell.out).of
           /\ thread'[c].pid = IF request = "Exec" THEN Head(shell.out).value ELSE thread[c].pid
           /\ \A d \in ShCommand \ {c} : thread'[d] = thread[d]
<1>1. shell.out \in Seq(ShAnswer) /\ shell.out # <<>>
    BY DEF ShTypeOK, Read
<1>2. Head(shell.out) \in ShAnswer
    BY <1>1
<1>. DEFINE a == Head(shell.out)
            t == [at |-> AfterAnswer(request, a.value), read |-> a.of,
                  pid |-> IF request = "Exec" THEN a.value ELSE thread[c].pid]
<1>3. a.of \in ShCommand /\ a.value \in Int
    BY <1>2 DEF ShAnswer
<1>4. AfterAnswer(request, a.value) \in Places
    BY <1>3, AfterAnswerIs DEF Places
<1>5. thread[c].pid \in Int
    BY DEF ShTypeOK, ShThread
<1>6. t \in ShThread
    BY <1>3, <1>4, <1>5 DEF ShThread
<1>7. thread' = [thread EXCEPT ![c] = t]
    BY DEF Read
<1>. HIDE DEF t
<1>8. /\ thread' \in [ShCommand -> ShThread] /\ thread'[c] = t
      /\ \A d \in ShCommand \ {c} : thread'[d] = thread[d]
    BY <1>6, <1>7 DEF ShTypeOK
<1>. QED BY <1>2, <1>8 DEF t

LEMMA ReadType ==
    ASSUME ShTypeOK, NEW c \in ShCommand, NEW request \in Requests, Read(c, request)
    PROVE  ShTypeOK'
<1>1. shell.out \in Seq(ShAnswer) /\ shell.out # <<>>
    BY DEF ShTypeOK, Read
<1>2. Tail(shell.out) \in Seq(ShAnswer)
    BY <1>1
<1>3. shell' = [shell EXCEPT !.out = Tail(shell.out)]
    BY DEF Read
<1>4. shell' \in [alive : BOOLEAN, run : Int, waits : Seq(ShRequest), in : Seq(ShRequest), out : Seq(ShAnswer)]
    BY <1>2, <1>3 DEF ShTypeOK
<1>. QED BY <1>4, ReadThread DEF ShTypeOK, Read

LEMMA SignalsType ==
    ASSUME ShTypeOK, NEW c \in ShCommand, SignalPid(c) \/ SignalEnd(c) \/ EndThread(c)
    PROVE  ShTypeOK'
<1>1. thread' \in [ShCommand -> ShThread]
    BY GoToType DEF SignalPid, SignalEnd, EndThread, Places
<1>2. thread[c].pid \in Int /\ Stopped \in Int /\ Ends \in Int
    BY DEF ShTypeOK, ShThread, Stopped, Ends
<1>3. <<thread[c].pid>> \in Seq(Int) /\ <<Stopped>> \in Seq(Int) /\ <<Ends>> \in Seq(Int)
    BY <1>2
<1>4. mail' \in [ShCommand -> Seq(Int)]
    BY <1>3, MailType DEF SignalPid, SignalEnd, EndThread
<1>. QED BY <1>1, <1>4 DEF ShTypeOK, SignalPid, SignalEnd, EndThread

LEMMA WindowType ==
    ASSUME ShTypeOK, NEW c \in ShCommand, ThreadSignal(c) \/ ThreadStopped(c)
    PROVE  ShTypeOK'
<1>0. <<>> \in Seq(Int)
    OBVIOUS
<1>1. mail' \in [ShCommand -> Seq(Int)]
    BY <1>0, MailType DEF ThreadSignal, ThreadStopped
<1>2. thread' \in [ShCommand -> ShThread]
  <2>1. CASE ThreadSignal(c)
    BY <2>1 DEF ThreadSignal, ShTypeOK
  <2>2. CASE ThreadStopped(c)
    BY <2>2, GoToType DEF ThreadStopped, Places
  <2>. QED BY <2>1, <2>2
<1>3. exec' \in [id : Int, name : ShCommand \union {Nobody}]
  <2>1. CASE ThreadSignal(c)
    <3>1. mail[c] \in Seq(Int) /\ mail[c] # <<>>
        BY <2>1 DEF ThreadSignal, ShTypeOK
    <3>2. mail[c][1] \in Int
        BY <3>1
    <3>. QED BY <2>1, <3>2 DEF ThreadSignal, ShTypeOK
  <2>2. CASE ThreadStopped(c)
    BY <2>2 DEF ThreadStopped, Stopped
  <2>. QED BY <2>1, <2>2
<1>. QED BY <1>1, <1>2, <1>3 DEF ShTypeOK, ThreadSignal, ThreadStopped

LEMMA WindowStopsType == ASSUME ShTypeOK, Kept, AskToStop \/ Stop PROVE ShTypeOK'
<1>1. CASE AskToStop
    BY <1>1 DEF AskToStop, ShTypeOK
<1>2. CASE Stop
  <2>1. killed' \subseteq Int \X (ShCommand \union {Nobody})
    BY <1>2 DEF Stop, ShTypeOK
  <2>2. procs' \in Seq(ShProcess)
    <3>1. CASE UNCHANGED procs
        BY <3>1 DEF ShTypeOK
    <3>2. CASE exec.id > 0 /\ procs' = [procs EXCEPT ![exec.id].at = "ended"]
      <4>1. exec.id \in DOMAIN procs
        BY <3>2 DEF Kept, ProcessOf, Stopped
      <4>2. procs[exec.id] \in ShProcess
        BY <4>1 DEF ShTypeOK
      <4>3. [procs[exec.id] EXCEPT !.at = "ended"] \in ShProcess
        BY <4>2 DEF ShProcess
      <4>. QED BY <3>2, <4>1, <4>3 DEF ShTypeOK
    <3>. QED BY <1>2, <3>1, <3>2 DEF Stop
  <2>. QED BY <1>2, <2>1, <2>2 DEF Stop, ShTypeOK
<1>. QED BY <1>1, <1>2


(***************************************************************************)
(* The shell process, its processes, and its death.                        *)
(***************************************************************************)
ShShell == [alive : BOOLEAN, run : Int, waits : Seq(ShRequest), in : Seq(ShRequest), out : Seq(ShAnswer)]

LEMMA ShellProcShape ==
    ASSUME ShTypeOK, ShellProc
    PROVE  /\ shell' \in ShShell /\ procs' \in Seq(ShProcess)
           /\ shell.in # <<>> /\ Head(shell.in) \in ShRequest
           /\ shell'.in = Tail(shell.in) /\ shell'.alive = shell.alive
           /\ \A p, c : ProcessOf(p, c) => ProcessOf(p, c)'
           /\ \/ /\ Head(shell.in).request = "Wait"
                 /\ shell'.waits = <<Head(shell.in)>> /\ shell'.out = shell.out
              \/ /\ shell'.waits = shell.waits
                 /\ \E a \in ShAnswer :
                    /\ shell'.out = Append(shell.out, a) /\ a.of = Head(shell.in).of
                    /\ Head(shell.in).request = "Exec" /\ a.value > 0 => ProcessOf(a.value, a.of)'
<1>. DEFINE r == Head(shell.in)
<1>1. shell \in ShShell /\ shell.in \in Seq(ShRequest) /\ shell.in # <<>>
    BY DEF ShTypeOK, ShellProc, ShShell
<1>2. r \in ShRequest /\ Tail(shell.in) \in Seq(ShRequest)
    BY <1>1
<1>3. r.of \in ShCommand
    BY <1>2 DEF ShRequest
<1>. HIDE DEF r
<1>4. Taken \in ShShell /\ Taken = [shell EXCEPT !.in = Tail(shell.in)]
    BY <1>1, <1>2 DEF Taken, ShShell
<1>5. ASSUME NEW v \in Int, shell' = Answer(Taken, r.of, v),
             r.request = "Exec" /\ v > 0 => v \in DOMAIN procs' /\ procs'[v].of = r.of
      PROVE  /\ shell' \in ShShell /\ shell'.in = Tail(shell.in) /\ shell'.alive = shell.alive
             /\ shell'.waits = shell.waits
             /\ \E a \in ShAnswer :
                /\ shell'.out = Append(shell.out, a) /\ a.of = r.of
                /\ r.request = "Exec" /\ a.value > 0 => ProcessOf(a.value, a.of)'
  <2>1. PICK a \in ShAnswer : a = [of |-> r.of, value |-> v]
    BY <1>3 DEF ShAnswer
  <2>2. shell' = [Taken EXCEPT !.out = Append(Taken.out, a)]
    BY <1>5, <2>1 DEF Answer
  <2>3. Taken.out = shell.out /\ Taken.out \in Seq(ShAnswer)
    BY <1>1, <1>4 DEF ShShell
  <2>4. Append(Taken.out, a) \in Seq(ShAnswer)
    BY <2>1, <2>3
  <2>5. shell' \in ShShell /\ shell'.in = Tail(shell.in) /\ shell'.alive = shell.alive
        /\ shell'.waits = shell.waits /\ shell'.out = Append(shell.out, a)
    BY <1>1, <1>4, <2>2, <2>3, <2>4 DEF ShShell
  <2>6. a.of = r.of /\ a.value = v
    BY <2>1
  <2>7. r.request = "Exec" /\ a.value > 0 => ProcessOf(a.value, a.of)'
    BY <2>6, <1>5 DEF ProcessOf
  <2>. QED BY <2>1, <2>5, <2>6, <2>7
<1>10. UNCHANGED procs => procs' \in Seq(ShProcess) /\ \A p, c : ProcessOf(p, c) => ProcessOf(p, c)'
    BY DEF ProcessOf, ShTypeOK
<1>6. CASE r.request = "CD" /\ (\E ret \in {0, -1} : shell' = Answer(Taken, r.of, ret)) /\ UNCHANGED procs
  <2>1. PICK ret \in {0, -1} : shell' = Answer(Taken, r.of, ret)
    BY <1>6
  <2>2. r.request # "Exec" /\ ret \in Int
    BY <1>6
  <2>. QED BY <1>1, <1>2, <1>5, <1>6, <1>10, <2>1, <2>2 DEF r
<1>7. CASE r.request = "Exec" /\ shell' = Answer(Taken, r.of, -1) /\ UNCHANGED procs
  <2>1. -1 \in Int /\ ~(-1 > 0)
    OBVIOUS
  <2>. QED BY <1>1, <1>2, <1>5, <1>7, <1>10, <2>1 DEF r
<1>8. CASE r.request = "Exec" /\ procs' = Append(procs, [of |-> r.of, at |-> "runs"])
           /\ shell' = Answer(Taken, r.of, NextPid)
  <2>. DEFINE q == [of |-> r.of, at |-> "runs"]
  <2>1. q \in ShProcess /\ q.of = r.of
    BY <1>3 DEF ShProcess
  <2>. HIDE DEF q
  <2>2. procs' = Append(procs, q)
    BY <1>8 DEF q
  <2>3. /\ procs' \in Seq(ShProcess) /\ Len(procs') = Len(procs) + 1 /\ procs'[Len(procs) + 1] = q
        /\ \A p \in DOMAIN procs : procs'[p] = procs[p]
    BY <2>1, <2>2 DEF ShTypeOK
  <2>4. NextPid \in Int /\ NextPid = Len(procs) + 1
    BY DEF NextPid, ShTypeOK
  <2>5. \A p, c : ProcessOf(p, c) => ProcessOf(p, c)'
    BY <2>3, <2>4, ProcsKept DEF ShTypeOK
  <2>6. NextPid \in DOMAIN procs' /\ procs'[NextPid].of = r.of
    <3>1. DOMAIN procs' = 1..Len(procs) + 1
        BY <2>3, <2>4 DEF ShTypeOK
    <3>. QED BY <3>1, <2>1, <2>3, <2>4 DEF ShTypeOK
  <2>. QED BY <1>1, <1>2, <1>5, <1>8, <2>3, <2>4, <2>5, <2>6 DEF r
<1>9. CASE r.request = "Wait" /\ shell' = [Taken EXCEPT !.waits = <<r>>] /\ UNCHANGED procs
  <2>1. <<r>> \in Seq(ShRequest)
    BY <1>2
  <2>2. shell' \in ShShell /\ shell'.in = Tail(shell.in) /\ shell'.alive = shell.alive
        /\ shell'.waits = <<r>> /\ shell'.out = shell.out
    BY <1>1, <1>4, <1>9, <2>1 DEF ShShell
  <2>. QED BY <1>1, <1>2, <1>9, <2>2 DEF ProcessOf, ShTypeOK, r
<1>. QED BY <1>6, <1>7, <1>8, <1>9 DEF ShellProc, r


LEMMA ReapShape ==
    ASSUME ShTypeOK, Reap
    PROVE  /\ shell' \in ShShell /\ procs' \in Seq(ShProcess)
           /\ shell.waits # <<>> /\ shell.waits[1] \in ShRequest
           /\ shell'.in = shell.in /\ shell'.waits = <<>> /\ shell'.alive = shell.alive
           /\ \A p, c : ProcessOf(p, c) => ProcessOf(p, c)'
           /\ \E a \in ShAnswer : shell'.out = Append(shell.out, a) /\ a.of = shell.waits[1].of
<1>1. shell \in ShShell /\ shell.waits \in Seq(ShRequest) /\ shell.waits # <<>>
    BY DEF ShTypeOK, Reap, ShShell
<1>2. PICK r \in ShRequest : r = shell.waits[1]
    BY <1>1
<1>3. r.of \in ShCommand /\ r.pid \in Int
    BY DEF ShRequest
<1>4. PICK a \in ShAnswer : a = [of |-> r.of, value |-> r.pid]
    BY <1>3 DEF ShAnswer
<1>5. PICK s \in ShShell : s = [shell EXCEPT !.waits = <<>>]
  <2>1. <<>> \in Seq(ShRequest)
    OBVIOUS
  <2>2. [shell EXCEPT !.waits = <<>>] \in ShShell
    BY <1>1, <2>1 DEF ShShell
  <2>. QED BY <2>2
<1>6. shell' = [s EXCEPT !.out = Append(s.out, a)]
    BY <1>2, <1>4, <1>5 DEF Reap, Answer
<1>7. s.out = shell.out /\ s.in = shell.in /\ s.waits = <<>> /\ s.alive = shell.alive /\ s.out \in Seq(ShAnswer)
    BY <1>1, <1>5 DEF ShShell
<1>8. Append(s.out, a) \in Seq(ShAnswer)
    BY <1>7
<1>9. /\ shell' \in ShShell /\ shell'.in = shell.in /\ shell'.waits = <<>> /\ shell'.alive = shell.alive
      /\ shell'.out = Append(shell.out, a)
    BY <1>6, <1>7, <1>8 DEF ShShell
<1>10. procs' = [p \in DOMAIN procs |-> IF p = r.pid THEN [procs[p] EXCEPT !.at = "reaped"] ELSE procs[p]]
    BY <1>2 DEF Reap
<1>11. \A p \in DOMAIN procs : /\ procs[p] \in ShProcess /\ [procs[p] EXCEPT !.at = "reaped"] \in ShProcess
                               /\ [procs[p] EXCEPT !.at = "reaped"].of = procs[p].of
  <2>1. TAKE p \in DOMAIN procs
  <2>2. procs[p] \in ShProcess
    BY DEF ShTypeOK
  <2>. QED BY <2>2 DEF ShProcess
<1>12. /\ DOMAIN procs' = DOMAIN procs
       /\ \A p \in DOMAIN procs : procs'[p] \in ShProcess /\ procs'[p].of = procs[p].of
    BY <1>10, <1>11
<1>13. procs' \in Seq(ShProcess) /\ Len(procs') = Len(procs)
  <2>1. procs \in Seq(ShProcess) /\ DOMAIN procs = 1..Len(procs) /\ Len(procs) \in Nat
    BY DEF ShTypeOK
  <2>2. procs' = [p \in 1..Len(procs) |-> procs'[p]]
    BY <1>10, <2>1
  <2>3. \A p \in 1..Len(procs) : procs'[p] \in ShProcess
    BY <1>12, <2>1
  <2>. QED BY <2>1, <2>2, <2>3
<1>14. \A p, c : ProcessOf(p, c) => ProcessOf(p, c)'
    BY <1>12 DEF ProcessOf
<1>. QED BY <1>1, <1>2, <1>3, <1>4, <1>9, <1>13, <1>14

\* A process comes to its end by itself, or by StopExecute.
LEMMA EndsShape ==
    ASSUME ShTypeOK, NEW p \in DOMAIN procs, procs' = [procs EXCEPT ![p].at = "ended"]
    PROVE  procs' \in Seq(ShProcess) /\ \A q, c : ProcessOf(q, c) => ProcessOf(q, c)'
<1>1. procs[p] \in ShProcess
    BY DEF ShTypeOK
<1>2. PICK e \in ShProcess : e = [procs[p] EXCEPT !.at = "ended"] /\ e.of = procs[p].of
    BY <1>1 DEF ShProcess
<1>3. procs' = [procs EXCEPT ![p] = e]
    BY <1>2
<1>4. procs' \in Seq(ShProcess) /\ Len(procs') = Len(procs)
  <2>1. procs \in Seq(ShProcess)
    BY DEF ShTypeOK
  <2>. QED BY <2>1, <1>3
<1>5. \A q \in DOMAIN procs : procs'[q].of = procs[q].of
    BY <1>2, <1>3
<1>. QED BY <1>4, <1>5, ProcsKept DEF ShTypeOK


(***************************************************************************)
(* The thread of the command that runs.                                    *)
(***************************************************************************)
\* While the thread goes from one place to another nothing is said of which
\* command runs.
LEMMA SameRuns ==
    ASSUME ShInv, NEW c \in ShCommand, ~Idle(c), ~Idle(c)',
           \A d \in ShCommand \ {c} : thread'[d] = thread[d],
           UNCHANGED <<exec, dialog>>
    PROVE  /\ \A d \in ShCommand : Idle(d)' <=> Idle(d)
           /\ OneActive' /\ Named'
<1>1. \A d \in ShCommand : Idle(d)' <=> Idle(d)
    BY DEF Idle
<1>. QED BY <1>1 DEF ShInv, OneActive, Named

\* A thread that waits for no answer has empty pipes, when it is the one that runs.
LEMMA EmptyPipes ==
    ASSUME ShInv, NEW c \in ShCommand, ~Idle(c), \A request \in Requests : ~At(c, Answering(request))
    PROVE  Empty
<1>1. ASSUME NEW d \in ShCommand, NEW request \in Requests, At(d, Answering(request)) PROVE FALSE
  <2>1. ~Idle(d)
    BY <1>1, AnsweringIs DEF Idle, At, Requests
  <2>2. d = c
    BY <2>1 DEF ShInv, OneActive
  <2>. QED BY <1>1, <2>2
<1>. QED BY <1>1 DEF ShInv, Pipes

LEMMA ExecuteStep == ASSUME ShInv, OneByOne, NEW c \in ShCommand, Execute(c) PROVE ShInv'
<1>1. ShTypeOK'
    BY ExecuteType DEF ShInv
<1>2. \A d \in ShCommand : Idle(d)
    BY DEF Execute
<1>3. /\ thread' \in [ShCommand -> ShThread] /\ thread'[c].at = "CD" /\ thread'[c].pid = thread[c].pid
      /\ thread'[c].read = thread[c].read
      /\ \A d \in ShCommand \ {c} : thread'[d] = thread[d]
    BY GoToType DEF Execute, Places, ShInv
<1>4. \A d \in ShCommand : ~Idle(d)' => d = c
    BY <1>2, <1>3 DEF Idle
<1>5. OneActive'
    BY <1>4 DEF OneActive
<1>6. Named'
    BY <1>4 DEF Named, Execute, ShInv, ShTypeOK
<1>7. OwnPids'
    BY <1>3 DEF OwnPids, At, ProcessOf, Execute, ShInv
<1>8. Empty
    BY <1>2, AnsweringIs DEF ShInv, Pipes, Idle, At, Requests
<1>9. Pipes'
    BY <1>8 DEF Pipes, Empty, Execute
<1>10. \A d \in ShCommand : mail[d] = <<>>
    BY <1>2 DEF ShInv, Mails
<1>11. Mails'
    BY <1>10 DEF Mails, Execute
<1>12. Kept' /\ Killed'
    BY <1>2 DEF Kept, Killed, Execute, ShInv, ProcessOf
<1>. QED BY <1>1, <1>5, <1>6, <1>7, <1>9, <1>11, <1>12 DEF ShInv

LEMMA WriteStep ==
    ASSUME ShInv, NEW c \in ShCommand, NEW request \in Requests, Write(c, request)
    PROVE  ShInv'
<1>1. ShTypeOK'
    BY WriteType DEF ShInv
<1>2. ~Idle(c) /\ At(c, request)
    BY DEF Write, Idle, At, Requests
<1>3. /\ thread'[c].at = Answering(request) /\ thread'[c].pid = thread[c].pid
      /\ thread'[c].read = thread[c].read
      /\ \A d \in ShCommand \ {c} : thread'[d] = thread[d]
    BY GoToType, AnsweringIs DEF Write, Places, Requests, ShInv
<1>4. ~Idle(c)' /\ ~At(c, "started")'
    BY <1>3, AnsweringIs DEF Idle, At, Requests
<1>5. (\A d \in ShCommand : Idle(d)' <=> Idle(d)) /\ OneActive' /\ Named'
    BY <1>2, <1>3, <1>4, SameRuns DEF Write
<1>6. OwnPids'
    BY <1>3, <1>4 DEF OwnPids, At, ProcessOf, Write, ShInv
<1>7. Empty
    BY <1>2, EmptyPipes, AnsweringIs DEF At, Requests
<1>8. Pipes'
  <2>1. PICK r \in ShRequest : r = [request |-> request, of |-> c, pid |-> thread[c].pid]
    BY DEF ShInv, ShTypeOK, ShThread, ShRequest
  <2>2. shell' = [shell EXCEPT !.in = Append(shell.in, r)] /\ shell \in ShShell /\ shell.alive
    BY <2>1 DEF Write, ShInv, ShTypeOK, ShShell
  <2>3. shell'.in = <<r>> /\ shell'.out = <<>> /\ shell'.waits = <<>> /\ shell'.alive
    BY <1>7, <2>2 DEF Empty, ShShell
  <2>4. r.of = c /\ r.request = request
    BY <2>1
  <2>5. Asked(c, request)'
    BY <2>3, <2>4 DEF Asked
  <2>6. At(c, Answering(request))'
    BY <1>3 DEF At, Answering
  <2>. QED BY <2>3, <2>5, <2>6 DEF Pipes
<1>9. Mails'
  <2>1. mail[c] # <<Ends>>
    <3>1. ~At(c, "ended")
        BY <1>2 DEF At, Requests
    <3>2. <<Ends>> # <<>>
        OBVIOUS
    <3>. QED BY <3>1, <3>2 DEF ShInv, Mails
  <2>. QED BY <1>3, <1>5, <2>1 DEF Mails, Write, ShInv, ProcessOf, At
<1>10. Kept' /\ Killed'
    BY <1>5 DEF Kept, Killed, Write, ShInv, ProcessOf
<1>. QED BY <1>1, <1>5, <1>6, <1>8, <1>9, <1>10 DEF ShInv

LEMMA FailsStep ==
    ASSUME ShInv, NEW c \in ShCommand, NEW request \in Requests, RequestFails(c, request)
    PROVE  ShInv'
<1>1. ShTypeOK'
    BY FailsType DEF ShInv
<1>2. ~Idle(c) /\ ~At(c, "ended")
    BY AnsweringIs DEF RequestFails, Idle, At, Requests
<1>3. AfterFailure(request) \in {"waited", "end"}
    BY DEF AfterFailure
<1>4. /\ thread'[c].at = AfterFailure(request) /\ thread'[c].pid = thread[c].pid
      /\ thread'[c].read = thread[c].read
      /\ \A d \in ShCommand \ {c} : thread'[d] = thread[d]
    BY <1>3, GoToType DEF RequestFails, Places, ShInv
<1>5. ~Idle(c)' /\ ~At(c, "started")'
    BY <1>3, <1>4 DEF Idle, At
<1>6. (\A d \in ShCommand : Idle(d)' <=> Idle(d)) /\ OneActive' /\ Named'
    BY <1>2, <1>4, <1>5, SameRuns DEF RequestFails
<1>7. OwnPids'
    BY <1>4, <1>5 DEF OwnPids, At, ProcessOf, RequestFails, ShInv
<1>8. Pipes'
    BY DEF Pipes, Empty, RequestFails, NewShell
<1>9. Mails'
    BY <1>2, <1>4, <1>6 DEF Mails, RequestFails, ShInv, ProcessOf, At
<1>10. Kept' /\ Killed'
    BY <1>6 DEF Kept, Killed, RequestFails, ShInv, ProcessOf
<1>. QED BY <1>1, <1>6, <1>7, <1>8, <1>9, <1>10 DEF ShInv


\* What is in the pipes for the thread that reads an answer: the answer to
\* its own request, and nothing else.
LEMMA OwnAnswer ==
    ASSUME ShInv, NEW c \in ShCommand, NEW request \in Requests,
           At(c, Answering(request)), shell.out # <<>>
    PROVE  /\ shell.in = <<>> /\ shell.waits = <<>>
           /\ \E a \in ShAnswer :
                /\ shell.out = <<a>> /\ a.of = c
                /\ request = "Exec" /\ a.value > 0 => ProcessOf(a.value, c)
<1>1. ~Empty
    BY DEF Empty
<1>2. PICK d \in ShCommand, asked \in Requests : At(d, Answering(asked)) /\ Asked(d, asked)
    BY <1>1 DEF ShInv, Pipes
<1>3. ~Idle(c) /\ ~Idle(d)
    BY <1>2, AnsweringIs DEF Idle, At, Requests
<1>4. c = d
    BY <1>3 DEF ShInv, OneActive
<1>5. asked = request
    BY <1>2, <1>4, AnsweringIs DEF At, Requests
<1>. QED BY <1>2, <1>4, <1>5 DEF Asked

LEMMA ReadStep ==
    ASSUME ShInv, NEW c \in ShCommand, NEW request \in Requests, Read(c, request)
    PROVE  ShInv'
<1>1. ShTypeOK'
    BY ReadType DEF ShInv
<1>2. ~Idle(c) /\ ~At(c, "ended")
    BY AnsweringIs DEF Read, Idle, At, Requests
<1>3. shell.in = <<>> /\ shell.waits = <<>>
    BY OwnAnswer DEF Read
<1>4. PICK a \in ShAnswer : /\ shell.out = <<a>> /\ a.of = c
                            /\ request = "Exec" /\ a.value > 0 => ProcessOf(a.value, c)
    BY OwnAnswer DEF Read
<1>5. Head(shell.out) = a /\ Tail(shell.out) = <<>> /\ a.value \in Int
    BY <1>4 DEF ShAnswer
<1>6. /\ thread'[c].at = AfterAnswer(request, a.value) /\ thread'[c].read = c
      /\ thread'[c].pid = IF request = "Exec" THEN a.value ELSE thread[c].pid
      /\ \A d \in ShCommand \ {c} : thread'[d] = thread[d]
    BY <1>4, <1>5, ReadThread DEF ShInv
<1>7. ~Idle(c)'
    BY <1>5, <1>6, AfterAnswerIs DEF Idle
<1>8. (\A d \in ShCommand : Idle(d)' <=> Idle(d)) /\ OneActive' /\ Named'
    BY <1>2, <1>6, <1>7, SameRuns DEF Read
<1>9. At(c, "started")' => request = "Exec" /\ a.value > 0
    BY <1>6 DEF At, AfterAnswer, Requests
<1>10. OwnPids'
  <2>1. thread'[c].pid > 0 => ProcessOf(thread'[c].pid, c)
    BY <1>4, <1>6 DEF ShInv, OwnPids
  <2>2. procs' = procs
    BY DEF Read
  <2>. QED BY <1>6, <1>9, <2>1, <2>2 DEF OwnPids, At, ProcessOf, ShInv
<1>11. Pipes'
  <2>1. shell' = [shell EXCEPT !.out = <<>>] /\ shell \in ShShell
    BY <1>5 DEF Read, ShInv, ShTypeOK, ShShell
  <2>2. Empty'
    BY <2>1, <1>3 DEF Empty, ShShell
  <2>. QED BY <2>2 DEF Pipes
<1>12. Mails'
    BY <1>2, <1>6, <1>8 DEF Mails, Read, ShInv, ProcessOf, At
<1>13. Kept' /\ Killed'
    BY <1>8 DEF Kept, Killed, Read, ShInv, ProcessOf
<1>. QED BY <1>1, <1>8, <1>10, <1>11, <1>12, <1>13 DEF ShInv

LEMMA SignalsStep ==
    ASSUME ShInv, NEW c \in ShCommand, SignalPid(c) \/ SignalEnd(c) \/ EndThread(c)
    PROVE  ShInv'
<1>1. ShTypeOK'
    BY SignalsType DEF ShInv
<1>2. ~Idle(c) /\ \A request \in Requests : ~At(c, Answering(request))
    BY AnsweringIs DEF SignalPid, SignalEnd, EndThread, Idle, At, Requests
<1>3. /\ thread'[c].at \in {"Wait", "end", "ended"} /\ thread'[c].pid = thread[c].pid
      /\ thread'[c].read = thread[c].read
      /\ \A d \in ShCommand \ {c} : thread'[d] = thread[d]
      /\ EndThread(c) => thread'[c].at = "ended"
    BY GoToType DEF SignalPid, SignalEnd, EndThread, Places, ShInv
<1>4. ~Idle(c)' /\ ~At(c, "started")'
    BY <1>3 DEF Idle, At
<1>5. UNCHANGED <<shell, procs, exec, dialog, killed>>
    BY DEF SignalPid, SignalEnd, EndThread
<1>6. (\A d \in ShCommand : Idle(d)' <=> Idle(d)) /\ OneActive' /\ Named'
    BY <1>2, <1>3, <1>4, <1>5, SameRuns
<1>7. OwnPids'
    BY <1>3, <1>4, <1>5 DEF OwnPids, At, ProcessOf, ShInv
<1>8. Pipes'
  <2>1. Empty
    BY <1>2, EmptyPipes
  <2>. QED BY <2>1, <1>5 DEF Pipes, Empty
<1>9. PICK v \in Int : /\ mail' = [mail EXCEPT ![c] = <<v>>]
                       /\ v \in {Stopped, Ends} \/ ProcessOf(v, c)
                       /\ v = Ends => EndThread(c)
  <2>1. CASE SignalPid(c)
    <3>1. thread[c].pid \in Int /\ thread[c].pid > 0 /\ ProcessOf(thread[c].pid, c)
        BY <2>1 DEF SignalPid, ShInv, ShTypeOK, ShThread, OwnPids
    <3>2. thread[c].pid # Ends
        BY <3>1 DEF Ends
    <3>. QED BY <2>1, <3>1, <3>2 DEF SignalPid
  <2>2. Stopped \in Int /\ Ends \in Int /\ Stopped # Ends
    BY DEF Stopped, Ends
  <2>3. CASE SignalEnd(c)
    <3>1. mail' = [mail EXCEPT ![c] = <<Stopped>>]
        BY <2>3 DEF SignalEnd
    <3>. QED BY <2>2, <3>1
  <2>4. CASE EndThread(c)
    <3>1. mail' = [mail EXCEPT ![c] = <<Ends>>]
        BY <2>4 DEF EndThread
    <3>. QED BY <2>2, <2>4, <3>1
  <2>. QED BY <2>1, <2>3, <2>4
<1>10. Mails'
  <2>1. SUFFICES ASSUME NEW d \in ShCommand
                 PROVE  (mail[d] # <<>> =>
                            /\ ~Idle(d)
                            /\ \E w \in Int : mail[d] = <<w>> /\ (w \in {Stopped, Ends} \/ ProcessOf(w, d))
                            /\ mail[d] = <<Ends>> => At(d, "ended"))'
    BY DEF Mails
  <2>3. CASE d = c
    <3>1. mail'[c] = <<v>>
        BY <1>9 DEF ShInv, ShTypeOK
    <3>2. v \in {Stopped, Ends} \/ ProcessOf(v, c)'
        BY <1>5, <1>9 DEF ProcessOf
    <3>3. mail'[c] = <<Ends>> => v = Ends
        BY <3>1
    <3>. QED BY <2>3, <3>1, <3>2, <3>3, <1>3, <1>4, <1>9 DEF At
  <2>4. CASE d # c
    <3>1. mail'[d] = mail[d] /\ thread'[d] = thread[d]
        BY <1>3, <1>9, <2>4 DEF ShInv, ShTypeOK
    <3>. QED BY <1>5, <1>6, <3>1 DEF ShInv, Mails, ProcessOf, At
  <2>. QED BY <2>3, <2>4
<1>11. Kept' /\ Killed'
    BY <1>5, <1>6 DEF Kept, Killed, ShInv, ProcessOf
<1>. QED BY <1>1, <1>6, <1>7, <1>8, <1>10, <1>11 DEF ShInv


(***************************************************************************)
(* The shell process, the processes it has started, and its death.         *)
(***************************************************************************)
LEMMA ProcsStep ==
    ASSUME ShInv, UNCHANGED <<thread, mail, exec, dialog, killed>>,
           \A p, c : ProcessOf(p, c) => ProcessOf(p, c)'
    PROVE  OneActive' /\ Named' /\ OwnPids' /\ Mails' /\ Kept' /\ Killed'
<1>1. \A d \in ShCommand : Idle(d)' <=> Idle(d)
    BY DEF Idle
<1>2. OneActive' /\ Named'
    BY <1>1 DEF ShInv, OneActive, Named
<1>3. OwnPids'
    BY DEF ShInv, OwnPids, At
<1>4. Mails'
  <2>1. SUFFICES ASSUME NEW d \in ShCommand
                 PROVE  (mail[d] # <<>> =>
                            /\ ~Idle(d)
                            /\ \E w \in Int : mail[d] = <<w>> /\ (w \in {Stopped, Ends} \/ ProcessOf(w, d))
                            /\ mail[d] = <<Ends>> => At(d, "ended"))'
    BY DEF Mails
  <2>. QED BY <1>1 DEF ShInv, Mails, At
<1>5. Kept' /\ Killed'
    BY <1>1 DEF ShInv, Kept, Killed
<1>. QED BY <1>2, <1>3, <1>4, <1>5

LEMMA ShellProcStep == ASSUME ShInv, ShellProc PROVE ShInv'
<1>1. /\ shell \in ShShell /\ shell' \in ShShell /\ procs' \in Seq(ShProcess)
      /\ shell'.in = Tail(shell.in) /\ shell'.alive = shell.alive
      /\ \A p, c : ProcessOf(p, c) => ProcessOf(p, c)'
    BY ShellProcShape DEF ShInv, ShTypeOK, ShShell
<1>2. UNCHANGED <<thread, mail, exec, dialog, killed>> /\ shell.alive
    BY DEF ShellProc
<1>3. ShTypeOK'
    BY <1>1, <1>2 DEF ShInv, ShTypeOK, ShShell
<1>4. OneActive' /\ Named' /\ OwnPids' /\ Mails' /\ Kept' /\ Killed'
    BY <1>1, <1>2, ProcsStep
<1>5. shell.in # <<>>
    BY DEF ShellProc
<1>6. PICK c \in ShCommand, request \in Requests : At(c, Answering(request)) /\ Asked(c, request)
    BY <1>5 DEF ShInv, Pipes, Empty
<1>7. PICK r \in ShRequest : /\ r.of = c /\ r.request = request
                             /\ shell.in = <<r>> /\ shell.out = <<>> /\ shell.waits = <<>>
    BY <1>5, <1>6 DEF Asked
<1>8. Head(shell.in) = r /\ shell'.in = <<>>
    BY <1>1, <1>7
<1>9. Asked(c, request)'
  <2>1. CASE r.request = "Wait" /\ shell'.waits = <<r>> /\ shell'.out = shell.out
    BY <2>1, <1>7, <1>8 DEF Asked
  <2>2. CASE /\ shell'.waits = shell.waits
             /\ \E a \in ShAnswer :
                /\ shell'.out = Append(shell.out, a) /\ a.of = r.of
                /\ r.request = "Exec" /\ a.value > 0 => ProcessOf(a.value, a.of)'
    <3>1. PICK a \in ShAnswer : /\ shell'.out = Append(shell.out, a) /\ a.of = c
                                /\ request = "Exec" /\ a.value > 0 => ProcessOf(a.value, c)'
        BY <2>2, <1>7
    <3>2. shell'.out = <<a>>
        BY <3>1, <1>7
    <3>. QED BY <2>2, <3>1, <3>2, <1>7, <1>8 DEF Asked
  <2>. QED BY <2>1, <2>2, <1>8, ShellProcShape DEF ShInv
<1>10. At(c, Answering(request))'
    BY <1>2, <1>6 DEF At, Answering
<1>11. Pipes'
    BY <1>1, <1>2, <1>9, <1>10 DEF Pipes
<1>. QED BY <1>3, <1>4, <1>11 DEF ShInv

LEMMA ReapStep == ASSUME ShInv, Reap PROVE ShInv'
<1>1. /\ shell \in ShShell /\ shell' \in ShShell /\ procs' \in Seq(ShProcess)
      /\ shell'.in = shell.in /\ shell'.waits = <<>> /\ shell'.alive = shell.alive
      /\ \A p, c : ProcessOf(p, c) => ProcessOf(p, c)'
    BY ReapShape DEF ShInv, ShTypeOK, ShShell
<1>2. UNCHANGED <<thread, mail, exec, dialog, killed>> /\ shell.alive /\ shell.waits # <<>>
    BY DEF Reap
<1>3. ShTypeOK'
    BY <1>1, <1>2 DEF ShInv, ShTypeOK, ShShell
<1>4. OneActive' /\ Named' /\ OwnPids' /\ Mails' /\ Kept' /\ Killed'
    BY <1>1, <1>2, ProcsStep
<1>5. PICK c \in ShCommand, request \in Requests : At(c, Answering(request)) /\ Asked(c, request)
    BY <1>2 DEF ShInv, Pipes, Empty
<1>6. PICK r \in ShRequest : /\ r.of = c /\ r.request = request /\ request = "Wait"
                             /\ shell.in = <<>> /\ shell.out = <<>> /\ shell.waits = <<r>>
    BY <1>2, <1>5 DEF Asked
<1>7. shell.waits[1] = r
    BY <1>6
<1>8. PICK a \in ShAnswer : shell'.out = Append(shell.out, a) /\ a.of = c
    BY <1>6, <1>7, ReapShape DEF ShInv
<1>9. shell'.out = <<a>>
    BY <1>6, <1>8
<1>10. Asked(c, request)'
    BY <1>1, <1>6, <1>8, <1>9 DEF Asked
<1>11. At(c, Answering(request))'
    BY <1>2, <1>5 DEF At, Answering
<1>12. Pipes'
    BY <1>1, <1>2, <1>10, <1>11 DEF Pipes
<1>. QED BY <1>3, <1>4, <1>12 DEF ShInv

\* The pipes say the same when a process has come to its end.
LEMMA SamePipes ==
    ASSUME ShInv, UNCHANGED <<shell, thread>>, \A p, c : ProcessOf(p, c) => ProcessOf(p, c)'
    PROVE  Pipes'
<1>1. CASE Empty
    BY <1>1 DEF Pipes, Empty, ShInv
<1>2. CASE ~Empty
  <2>1. PICK c \in ShCommand, request \in Requests : At(c, Answering(request)) /\ Asked(c, request)
    BY <1>2 DEF ShInv, Pipes
  <2>2. At(c, Answering(request))'
    BY <2>1 DEF At, Answering
  <2>3. Asked(c, request)'
    BY <2>1 DEF Asked
  <2>4. shell'.alive
    BY <1>2 DEF ShInv, Pipes
  <2>. QED BY <2>2, <2>3, <2>4 DEF Pipes
<1>. QED BY <1>1, <1>2

LEMMA ProcessEndsStep == ASSUME ShInv, ProcessEnds PROVE ShInv'
<1>1. PICK p \in DOMAIN procs : procs' = [procs EXCEPT ![p].at = "ended"]
    BY DEF ProcessEnds
<1>2. procs' \in Seq(ShProcess) /\ \A q, c : ProcessOf(q, c) => ProcessOf(q, c)'
    BY <1>1, EndsShape DEF ShInv
<1>3. UNCHANGED <<shell, thread, mail, exec, dialog, killed>>
    BY DEF ProcessEnds
<1>4. ShTypeOK'
    BY <1>2, <1>3 DEF ShInv, ShTypeOK
<1>5. OneActive' /\ Named' /\ OwnPids' /\ Mails' /\ Kept' /\ Killed'
    BY <1>2, <1>3, ProcsStep
<1>6. Pipes'
    BY <1>2, <1>3, SamePipes
<1>. QED BY <1>4, <1>5, <1>6 DEF ShInv

LEMMA ShellDiesStep == ASSUME ShInv, ShellDies PROVE ShInv'
<1>1. shell \in ShShell /\ <<>> \in Seq(ShRequest) /\ <<>> \in Seq(ShAnswer)
    BY DEF ShInv, ShTypeOK, ShShell
<1>2. shell' \in ShShell /\ Empty'
    BY <1>1 DEF ShellDies, ShShell, Empty
<1>3. UNCHANGED <<thread, procs, mail, exec, dialog, killed>>
    BY DEF ShellDies
<1>4. ShTypeOK'
    BY <1>2, <1>3 DEF ShInv, ShTypeOK, ShShell
<1>5. OneActive' /\ Named' /\ OwnPids' /\ Mails' /\ Kept' /\ Killed'
    BY <1>3, ProcsStep DEF ProcessOf
<1>. QED BY <1>2, <1>4, <1>5 DEF ShInv, Pipes


(***************************************************************************)
(* The main window.                                                        *)
(***************************************************************************)
LEMMA ThreadSignalStep == ASSUME ShInv, NEW c \in ShCommand, ThreadSignal(c) PROVE ShInv'
<1>1. ShTypeOK'
    BY WindowType DEF ShInv
<1>2. UNCHANGED <<shell, thread, procs, dialog, killed>>
    BY DEF ThreadSignal
<1>3. ~Idle(c)
    BY DEF ThreadSignal, ShInv, Mails
<1>4. PICK v \in Int : mail[c] = <<v>> /\ (v \in {Stopped, Ends} \/ ProcessOf(v, c))
    BY DEF ThreadSignal, ShInv, Mails
<1>5. v # Ends /\ mail[c][1] = v
    BY <1>4 DEF ThreadSignal
<1>6. exec'.id = v /\ exec'.name = exec.name
    BY <1>5 DEF ThreadSignal, ShInv, ShTypeOK
<1>7. \A d \in ShCommand : Idle(d)' <=> Idle(d)
    BY <1>2 DEF Idle
<1>8. OneActive' /\ Named' /\ OwnPids'
    BY <1>2, <1>6, <1>7 DEF ShInv, OneActive, Named, OwnPids, At, ProcessOf
<1>9. Pipes'
    BY <1>2, SamePipes DEF ProcessOf
<1>10. Mails'
  <2>1. SUFFICES ASSUME NEW d \in ShCommand
                 PROVE  (mail[d] # <<>> =>
                            /\ ~Idle(d)
                            /\ \E w \in Int : mail[d] = <<w>> /\ (w \in {Stopped, Ends} \/ ProcessOf(w, d))
                            /\ mail[d] = <<Ends>> => At(d, "ended"))'
    BY DEF Mails
  <2>2. mail'[d] = <<>> \/ mail'[d] = mail[d]
    BY DEF ThreadSignal, ShInv, ShTypeOK
  <2>. QED BY <1>2, <1>7, <2>2 DEF ShInv, Mails, At, ProcessOf
<1>11. Kept'
    BY <1>2, <1>3, <1>4, <1>5, <1>6, <1>7 DEF Kept, ProcessOf
<1>12. Killed'
    BY <1>2 DEF ShInv, Killed, ProcessOf
<1>. QED BY <1>1, <1>8, <1>9, <1>10, <1>11, <1>12 DEF ShInv

LEMMA ThreadStoppedStep == ASSUME ShInv, NEW c \in ShCommand, ThreadStopped(c) PROVE ShInv'
<1>1. ShTypeOK'
    BY WindowType DEF ShInv
<1>2. ~Idle(c) /\ At(c, "ended")
  <2>1. <<Ends>> # <<>>
    OBVIOUS
  <2>. QED BY <2>1 DEF ThreadStopped, ShInv, Mails
<1>3. /\ thread'[c].at = "gone" /\ thread'[c].pid = thread[c].pid /\ thread'[c].read = thread[c].read
      /\ \A d \in ShCommand \ {c} : thread'[d] = thread[d]
    BY GoToType DEF ThreadStopped, Places, ShInv
<1>4. \A d \in ShCommand : d # c => Idle(d)
    BY <1>2 DEF ShInv, OneActive
<1>5. \A d \in ShCommand : Idle(d)'
    BY <1>3, <1>4 DEF Idle
<1>6. OneActive' /\ Named'
    BY <1>5 DEF OneActive, Named
<1>7. OwnPids'
    BY <1>3 DEF ShInv, OwnPids, At, ProcessOf, ThreadStopped
<1>8. Empty
    BY <1>2, EmptyPipes, AnsweringIs DEF At, Requests
<1>9. Pipes'
    BY <1>8 DEF Pipes, Empty, ThreadStopped
<1>10. \A d \in ShCommand : mail'[d] = <<>>
    BY <1>4 DEF ShInv, Mails, ThreadStopped, ShTypeOK
<1>11. Mails'
    BY <1>10 DEF Mails
<1>12. Kept' /\ Killed'
    BY DEF ThreadStopped, Kept, Killed, ShInv, ProcessOf
<1>. QED BY <1>1, <1>6, <1>7, <1>9, <1>11, <1>12 DEF ShInv

LEMMA AskToStopStep == ASSUME ShInv, AskToStop PROVE ShInv'
<1>1. ShTypeOK'
    BY WindowStopsType DEF ShInv
<1>2. UNCHANGED <<shell, thread, procs, mail, exec, killed>>
    BY DEF AskToStop
<1>3. OwnPids' /\ Kept' /\ Killed' /\ OneActive'
    BY <1>2 DEF ShInv, OwnPids, Kept, Killed, OneActive, Idle, At, ProcessOf
<1>4. Mails'
  <2>1. SUFFICES ASSUME NEW d \in ShCommand
                 PROVE  (mail[d] # <<>> =>
                            /\ ~Idle(d)
                            /\ \E w \in Int : mail[d] = <<w>> /\ (w \in {Stopped, Ends} \/ ProcessOf(w, d))
                            /\ mail[d] = <<Ends>> => At(d, "ended"))'
    BY DEF Mails
  <2>. QED BY <1>2 DEF ShInv, Mails, At, Idle, ProcessOf
<1>5. Named'
    BY DEF AskToStop, ShInv, Named, Idle
<1>6. Pipes'
    BY <1>2, SamePipes DEF ProcessOf
<1>. QED BY <1>1, <1>3, <1>4, <1>5, <1>6 DEF ShInv

LEMMA StopStep == ASSUME ShInv, Stop PROVE ShInv'
<1>1. ShTypeOK'
    BY WindowStopsType DEF ShInv
<1>2. UNCHANGED <<shell, thread, mail, exec>> /\ dialog' = Nobody /\ dialog # Nobody
    BY DEF Stop
<1>3. \A p, c : ProcessOf(p, c) => ProcessOf(p, c)'
  <2>1. CASE procs' = procs
    BY <2>1 DEF ProcessOf
  <2>2. CASE exec.id > 0 /\ procs' = [procs EXCEPT ![exec.id].at = "ended"]
    <3>1. exec.id \in DOMAIN procs
        BY <2>2 DEF ShInv, Kept, ProcessOf, Stopped
    <3>. QED BY <2>2, <3>1, EndsShape DEF ShInv
  <2>. QED BY <2>1, <2>2 DEF Stop
<1>4. OneActive' /\ Named' /\ OwnPids' /\ Kept'
  <2>1. \A d \in ShCommand : Idle(d)' <=> Idle(d)
    BY <1>2 DEF Idle
  <2>. QED BY <1>2, <1>3, <2>1 DEF ShInv, OneActive, Named, OwnPids, Kept, At
<1>5. Mails'
  <2>1. SUFFICES ASSUME NEW d \in ShCommand
                 PROVE  (mail[d] # <<>> =>
                            /\ ~Idle(d)
                            /\ \E w \in Int : mail[d] = <<w>> /\ (w \in {Stopped, Ends} \/ ProcessOf(w, d))
                            /\ mail[d] = <<Ends>> => At(d, "ended"))'
    BY DEF Mails
  <2>. QED BY <1>2, <1>3 DEF ShInv, Mails, At, Idle
<1>6. Pipes'
    BY <1>2, <1>3, SamePipes
<1>7. Killed'
  <2>1. CASE killed' = killed
    BY <2>1, <1>3 DEF ShInv, Killed
  <2>2. CASE exec.id > 0 /\ killed' = killed \union {<<exec.id, dialog>>}
    <3>1. PICK c \in ShCommand : ~Idle(c) /\ ProcessOf(exec.id, c)
        BY <2>2 DEF ShInv, Kept, Stopped
    <3>2. c = dialog
        BY <1>2, <3>1 DEF ShInv, Named
    <3>3. ProcessOf(exec.id, dialog)
        BY <3>1, <3>2
    <3>4. \A k \in killed' : ProcessOf(k[1], k[2])
        BY <2>2, <3>3 DEF ShInv, Killed
    <3>. QED BY <1>3, <3>4 DEF Killed
  <2>. QED BY <2>1, <2>2 DEF Stop
<1>. QED BY <1>1, <1>4, <1>5, <1>6, <1>7 DEF ShInv

(***************************************************************************)
(* The theorem.                                                            *)
(***************************************************************************)
LEMMA ShellStart == ShInit => ShInv
<1>. SUFFICES ASSUME ShInit PROVE ShInv
    OBVIOUS
<1>1. \A c \in ShCommand : Idle(c) /\ thread[c].pid = 0 /\ thread[c].read = Nobody /\ mail[c] = <<>>
    BY DEF ShInit, Idle
<1>2. ShTypeOK
  <2>1. \A c \in ShCommand : [at |-> "none", pid |-> 0, read |-> Nobody] \in ShThread
    BY DEF ShThread, Places
  <2>2. <<>> \in Seq(Int) /\ <<>> \in Seq(ShProcess) /\ <<>> \in Seq(ShRequest) /\ <<>> \in Seq(ShAnswer)
    OBVIOUS
  <2>3. thread \in [ShCommand -> ShThread] /\ mail \in [ShCommand -> Seq(Int)]
    BY <2>1, <2>2 DEF ShInit
  <2>4. shell \in ShShell
    BY <2>2 DEF ShInit, NewShell, ShShell
  <2>. QED BY <2>2, <2>3, <2>4 DEF ShInit, ShTypeOK, ShShell, Stopped
<1>3. OneActive /\ Named /\ Mails /\ Kept /\ Killed
    BY <1>1 DEF ShInit, OneActive, Named, Mails, Kept, Killed
<1>4. OwnPids
    BY <1>1 DEF ShInit, OwnPids, At, Idle
<1>5. Pipes
    BY DEF ShInit, NewShell, Pipes, Empty
<1>. QED BY <1>2, <1>3, <1>4, <1>5 DEF ShInv

LEMMA ShellStep == ASSUME ShInv, OneByOne, [ShNext]_shVars PROVE ShInv'
<1>1. ASSUME NEW c \in ShCommand, NEW request \in Requests,
             Write(c, request) \/ Read(c, request) \/ RequestFails(c, request)
      PROVE  ShInv'
    BY <1>1, WriteStep, ReadStep, FailsStep
<1>2. ASSUME NEW c \in ShCommand,
             \/ Execute(c) \/ SignalPid(c) \/ SignalEnd(c) \/ EndThread(c)
             \/ ThreadSignal(c) \/ ThreadStopped(c)
      PROVE  ShInv'
    BY <1>2, ExecuteStep, SignalsStep, ThreadSignalStep, ThreadStoppedStep
<1>3. CASE ShellProc \/ Reap \/ ProcessEnds \/ ShellDies
    BY <1>3, ShellProcStep, ReapStep, ProcessEndsStep, ShellDiesStep
<1>4. CASE AskToStop \/ Stop
    BY <1>4, AskToStopStep, StopStep
<1>5. CASE UNCHANGED shVars
  <2>1. UNCHANGED <<shell, thread, procs, mail, exec, dialog, killed>>
    BY <1>5 DEF shVars
  <2>2. ShTypeOK'
    BY <2>1 DEF ShInv, ShTypeOK
  <2>3. OneActive' /\ Named' /\ OwnPids' /\ Mails' /\ Kept' /\ Killed' /\ Pipes'
    BY <2>1, ProcsStep, SamePipes DEF ProcessOf
  <2>. QED BY <2>2, <2>3 DEF ShInv
<1>. QED BY <1>1, <1>2, <1>3, <1>4, <1>5 DEF ShNext

LEMMA OwnFromInv == ASSUME ShInv PROVE OwnProcess
<1>1. \A c \in ShCommand : thread[c].read \in {Nobody, c}
    BY DEF ShInv, OwnPids
<1>2. \A k \in killed : procs[k[1]].of = k[2]
    BY DEF ShInv, Killed, ProcessOf
<1>3. ASSUME \A c \in ShCommand : Idle(c) PROVE exec.id = Stopped /\ shell.out = <<>> /\ shell.in = <<>>
  <2>1. exec.id = Stopped
    BY <1>3 DEF ShInv, Kept
  <2>2. Empty
    BY <1>3, AnsweringIs DEF ShInv, Pipes, Idle, At, Requests
  <2>. QED BY <2>1, <2>2 DEF Empty
<1>. QED BY <1>1, <1>2, <1>3 DEF OwnProcess

\* A thread takes for the answer to its request nothing but that answer, what
\* StopExecute kills is a process of the command its dialog has named, and
\* nothing of a command outlives it (Shell::Exec and Wait, ThreadSignal,
\* ThreadStopped, StopExecute), however often the shell dies in between: for
\* any commands, as long as one runs at a time.
THEOREM StopsItsOwn == ASSUME OneByOne PROVE ShSpec => []OwnProcess
<1>1. ShInv /\ [ShNext]_shVars => ShInv'
    BY ShellStep
<1>. QED BY ShellStart, <1>1, OwnFromInv, PTL DEF ShSpec

-----------------------------------------------------------------------------
(* Recursion and induction over the numbers up to n.                       *)

LEMMA LeastNumber ==
    ASSUME NEW set, set \subseteq Nat, set # {}
    PROVE  \E n \in set : \A k \in set : n <= k
<1> DEFINE R == OpToRel(<, Nat)
<1>1. IsWellFoundedOn(R, Nat)
  BY NatLessThanWellFounded
<1>2. \A k, m \in Nat : k < m <=> <<k, m>> \in R
  BY DEF OpToRel
<1> HIDE DEF R
<1>3. PICK n \in set : \A k \in set : ~(<<k, n>> \in R)
  BY <1>1, WFMin
<1>4. ASSUME NEW k \in set
      PROVE  n <= k
  <2>1. k \in Nat /\ n \in Nat
    OBVIOUS
  <2>2. ~(k < n)
    BY <1>2, <1>3, <2>1, Zenon
  <2> QED  BY <2>1, <2>2
<1> QED
  BY <1>4

\* What begins with base and goes on with step is a function.
Follows(f, n, base, step) == f[0] = base /\ \A k \in 1..n : f[k] = step[<<f[k - 1], k>>]

LEMMA FollowsExists ==
    ASSUME NEW S, NEW n \in Nat, NEW base \in S, NEW step \in [S \X (1..n) -> S]
    PROVE  \E f \in [0..n -> S] : Follows(f, n, base, step)
<1> DEFINE wrong == {m \in 0..n : ~\E f \in [0..m -> S] : Follows(f, m, base, step)}
<1>1. wrong = {}
  <2> SUFFICES ASSUME wrong # {}
               PROVE  FALSE
    OBVIOUS
  <2>1. wrong \subseteq Nat
    OBVIOUS
  <2>2. PICK m \in wrong : \A k \in wrong : m <= k
    BY <2>1, LeastNumber
  <2>3. m \in 0..n /\ ~\E f \in [0..m -> S] : Follows(f, m, base, step)
    BY <2>2
  <2>4. CASE m = 0
    <3> DEFINE g == [k \in 0..0 |-> base]
    <3>1. g \in [0..m -> S] /\ g[0] = base /\ 1..m = {}
      BY <2>4
    <3> HIDE DEF g
    <3> QED  BY <2>3, <3>1 DEF Follows
  <2>5. CASE m # 0
    <3>1. m - 1 \in 0..n /\ m \in 1..n /\ ~(m <= m - 1)
      BY <2>3, <2>5
    <3>2. m - 1 \notin wrong
      BY <2>2, <3>1
    <3>3. PICK f \in [0..m - 1 -> S] : Follows(f, m - 1, base, step)
      BY <3>1, <3>2
    <3> DEFINE g == [k \in 0..m |-> IF k = m THEN step[<<f[m - 1], m>>] ELSE f[k]]
    <3>4. f[m - 1] \in S /\ step[<<f[m - 1], m>>] \in S
      BY <3>1, <3>3
    <3>5. g \in [0..m -> S]
      <4>1. ASSUME NEW k \in 0..m, k # m
            PROVE  f[k] \in S
        <5>1. k \in 0..m - 1
          BY <2>3, <4>1
        <5> QED  BY <5>1
      <4> QED  BY <3>4, <4>1
    <3>6. /\ g[m] = step[<<f[m - 1], m>>]
          /\ \A k \in 0..m - 1 : g[k] = f[k]
      BY <2>3
    <3> HIDE DEF g
    <3>7. Follows(g, m, base, step)
      <4>1. g[0] = base
        BY <3>1, <3>3, <3>6 DEF Follows
      <4>2. ASSUME NEW k \in 1..m
            PROVE  g[k] = step[<<g[k - 1], k>>]
        <5>1. k - 1 \in 0..m - 1
          BY <2>3, <4>2
        <5>2. CASE k = m
          BY <3>6, <5>1, <5>2
        <5>3. CASE k # m
          <6>1. k \in 1..m - 1 /\ k \in 0..m - 1
            BY <2>3, <4>2, <5>3
          <6> QED  BY <3>3, <3>6, <5>1, <6>1 DEF Follows
        <5> QED  BY <5>2, <5>3
      <4> QED  BY <4>1, <4>2 DEF Follows
    <3> QED  BY <2>3, <3>5, <3>7
  <2> QED  BY <2>4, <2>5
<1> QED
  BY <1>1

-----------------------------------------------------------------------------
(* What the buffers of the queue hold.                                     *)

LEMMA Together ==
    ASSUME NEW s \in Seq(Nat), NEW t \in Seq(Nat), NEW u \in Seq(Nat)
    PROVE  (s \o t) \o u = s \o (t \o u)
BY ConcatAssociative

Nodes == {m \in [pos : Nat \ {0}, buf : Seq(Nat)] : m.pos <= Len(m.buf)}
Queues == Seq(Nodes)

LEMMA NodeFacts ==
    ASSUME NEW m \in Nodes
    PROVE  /\ m.pos \in Nat \ {0} /\ m.buf \in Seq(Nat) /\ Len(m.buf) \in Nat
           /\ m.pos <= Len(m.buf) /\ m.pos \in 1..Len(m.buf)
           /\ Unread(m) \in Seq(Nat)
<1>1. m.pos \in Nat \ {0} /\ m.buf \in Seq(Nat) /\ m.pos <= Len(m.buf)
  BY DEF Nodes
<1>2. Len(m.buf) \in Nat
  BY <1>1, LenProperties
<1>3. \A i \in m.pos..Len(m.buf) : m.buf[i] \in Nat
  BY <1>1, <1>2, ElementOfSeq
<1>4. Unread(m) \in Seq(Nat)
  BY <1>1, <1>2, <1>3, SubSeqProperties DEF Unread
<1> QED
  BY <1>1, <1>2, <1>4

LEMMA QueueFacts ==
    ASSUME NEW q \in Queues
    PROVE  /\ Len(q) \in Nat /\ DOMAIN q = 1..Len(q) /\ \A k \in 1..Len(q) : q[k] \in Nodes
           /\ q # <<>> => Len(q) \in Nat \ {0}
BY LenProperties, ElementOfSeq, EmptySeq DEF Queues

\* f[k] is what the first k buffers hold.
Flow(f, q) ==
    /\ f \in [0..Len(q) -> Seq(Nat)] /\ f[0] = <<>>
    /\ \A k \in 1..Len(q) : f[k] = f[k - 1] \o Unread(q[k])

LEMMA FlowExists ==
    ASSUME NEW q \in Queues
    PROVE  \E f : Flow(f, q)
<1> DEFINE S == Seq(Nat)
           n == Len(q)
           step == [x \in S \X (1..n) |-> x[1] \o Unread(q[x[2]])]
<1>1. n \in Nat /\ <<>> \in S
  BY QueueFacts, EmptySeq
<1>2. step \in [S \X (1..n) -> S]
  <2>1. ASSUME NEW x \in S \X (1..n)
        PROVE  x[1] \o Unread(q[x[2]]) \in S
    <3>1. x[1] \in S /\ x[2] \in 1..n
      OBVIOUS
    <3>2. Unread(q[x[2]]) \in Seq(Nat)
      BY <3>1, QueueFacts, NodeFacts
    <3> QED  BY <3>1, <3>2, ConcatProperties
  <2> QED  BY <2>1
<1>3. \A x \in S, k \in 1..n : step[<<x, k>>] = x \o Unread(q[k])
  OBVIOUS
<1> HIDE DEF S, n, step
<1>4. PICK f \in [0..n -> S] : Follows(f, n, <<>>, step)
  BY <1>1, <1>2, FollowsExists
<1>5. ASSUME NEW k \in 1..n
      PROVE  f[k] = f[k - 1] \o Unread(q[k])
  <2>1. k - 1 \in 0..n
    BY <1>1, <1>5
  <2>2. f[k - 1] \in S
    BY <1>4, <2>1
  <2> QED  BY <1>3, <1>4, <1>5, <2>2 DEF Follows
<1>6. f \in [0..Len(q) -> Seq(Nat)] /\ f[0] = <<>>
  BY <1>4 DEF S, n, Follows
<1> QED
  BY <1>5, <1>6 DEF Flow, n

LEMMA FlowEnds ==
    ASSUME NEW q \in Queues, NEW f, Flow(f, q)
    PROVE  Contents(q) = f[Len(q)] /\ Contents(q) \in Seq(Nat)
<1> DEFINE n == Len(q)
           seqs == [k \in DOMAIN q |-> Unread(q[k])]
           F(x) == [i \in 1..Len(seqs) |-> IF i = 1 THEN seqs[i] ELSE x[i - 1] \o seqs[i]]
           h == CHOOSE g : g = F(g)
<1>1. n \in Nat /\ DOMAIN q = 1..n /\ f \in [0..n -> Seq(Nat)] /\ f[0] = <<>>
  BY QueueFacts DEF Flow
<1>2. \A k \in 1..n : f[k] = f[k - 1] \o Unread(q[k]) /\ Unread(q[k]) \in Seq(Nat)
  BY QueueFacts, NodeFacts DEF Flow
<1>3. seqs = [k \in 1..n |-> Unread(q[k])] /\ Len(seqs) = n
  BY <1>1, <1>2
<1>4. \A k \in 1..n : seqs[k] = Unread(q[k])
  BY <1>3
<1> HIDE DEF seqs
<1>5. CASE n = 0
  <2>1. seqs = <<>> /\ Len(seqs) = 0
    BY <1>3, <1>5
  <2>2. FlattenSeq(seqs) = <<>>
    BY <2>1 DEF FlattenSeq
  <2> QED  BY <1>1, <1>5, <2>2 DEF Contents, seqs
<1>6. CASE n # 0
  <2>1. FlattenSeq(seqs) = h[n]
    BY <1>1, <1>3, <1>6 DEF FlattenSeq
  <2> DEFINE g == [i \in 1..n |-> f[i]]
  <2>2. g = F(g)
    <3>1. ASSUME NEW i \in 1..n
          PROVE  f[i] = IF i = 1 THEN seqs[i] ELSE g[i - 1] \o seqs[i]
      <4>1. CASE i = 1
        <5>0. 1 \in 1..n /\ 1 - 1 = 0
          BY <1>1, <1>6
        <5>1. f[1] = f[0] \o seqs[1] /\ seqs[1] \in Seq(Nat) /\ f[0] = <<>>
          BY <1>1, <1>2, <1>4, <5>0
        <5>2. <<>> \o seqs[1] = seqs[1]
          BY <5>1, ConcatEmptySeq
        <5> QED  BY <4>1, <5>1, <5>2
      <4>2. CASE i # 1
        <5>1. i - 1 \in 1..n
          BY <1>1, <3>1, <4>2
        <5>2. g[i - 1] = f[i - 1]
          BY <5>1
        <5> QED  BY <1>2, <1>4, <4>2, <5>2
      <4> QED  BY <4>1, <4>2
    <3> QED  BY <1>3, <3>1
  <2> HIDE DEF g
  <2>3. h = F(h)
    <3> HIDE DEF F
    <3> QED  BY <2>2
  <2>4. \A i \in 1..n : h[i] = IF i = 1 THEN seqs[i] ELSE h[i - 1] \o seqs[i]
    BY <1>3, <2>3
  <2> HIDE DEF h
  <2> DEFINE wrong == {k \in 1..n : h[k] # f[k]}
  <2>5. wrong = {}
    <3> SUFFICES ASSUME wrong # {}
                 PROVE  FALSE
      OBVIOUS
    <3>1. wrong \subseteq Nat
      BY <1>1
    <3>2. PICK m \in wrong : \A k \in wrong : m <= k
      BY <3>1, LeastNumber
    <3>3. m \in 1..n /\ h[m] # f[m]
      BY <3>2
    <3>4. f[m] = f[m - 1] \o seqs[m]
      BY <1>2, <1>4, <3>3
    <3>5. CASE m = 1
      <4>1. seqs[1] \in Seq(Nat) /\ f[1 - 1] = <<>>
        BY <1>1, <1>2, <1>4, <3>3, <3>5
      <4>2. <<>> \o seqs[1] = seqs[1]
        BY <4>1, ConcatEmptySeq
      <4> QED  BY <2>4, <3>3, <3>4, <3>5, <4>1, <4>2
    <3>6. CASE m # 1
      <4>1. m - 1 \in 1..n /\ ~(m <= m - 1)
        BY <1>1, <3>3, <3>6
      <4>2. h[m - 1] = f[m - 1]
        BY <3>2, <4>1
      <4> QED  BY <2>4, <3>3, <3>4, <3>6, <4>2
    <3> QED  BY <3>5, <3>6
  <2>6. n \in 1..n
    BY <1>1, <1>6
  <2>7. h[n] = f[n] /\ f[n] \in Seq(Nat)
    BY <1>1, <2>5, <2>6
  <2> QED  BY <2>1, <2>7 DEF Contents, seqs
<1> QED
  BY <1>5, <1>6

LEMMA ContentsFacts ==
    ASSUME NEW q \in Queues
    PROVE  Contents(q) \in Seq(Nat)
BY FlowExists, FlowEnds

\* From the second on the buffers of q are those of r, d further on.
SameRest(q, r, d) == \A k \in 2..Len(q) : q[k] = r[k - d]

\* What is left of the first buffer after its first byte b.
FirstRest(q, r, d, b) ==
    IF d = 1 THEN Unread(q[1]) = <<b>>
    ELSE Len(r) # 0 /\ Unread(q[1]) = <<b>> \o Unread(r[1])

LEMMA Shifted ==
    ASSUME NEW q \in Queues, NEW r \in Queues, NEW b \in Nat, NEW d \in {0, 1},
           Len(q) = Len(r) + d, Len(q) # 0, FirstRest(q, r, d, b), SameRest(q, r, d)
    PROVE  Contents(q) = <<b>> \o Contents(r)
<1>0. PICK f, g : Flow(f, q) /\ Flow(g, r)
  BY FlowExists
<1> DEFINE n == Len(q)
           wrong == {k \in 1..n : f[k] # <<b>> \o g[k - d]}
<1>1. n \in Nat /\ Len(r) \in Nat /\ n = Len(r) + d /\ n # 0 /\ n - d = Len(r) /\ n \in 1..n
  BY QueueFacts
<1>2. <<b>> \in Seq(Nat)
  OBVIOUS
<1>4. f[1] = <<b>> \o g[1 - d]
  <2>1. f[1] = Unread(q[1])
    <3>1. 1 \in 1..n /\ 1 - 1 = 0
      BY <1>1
    <3>2. f[1] = f[0] \o Unread(q[1]) /\ f[0] = <<>>
      <4>1. f[0] = <<>> /\ \A k \in 1..n : f[k] = f[k - 1] \o Unread(q[k])
        BY <1>0 DEF Flow
      <4> QED  BY <3>1, <4>1
    <3>3. Unread(q[1]) \in Seq(Nat)
      BY <3>1, QueueFacts, NodeFacts
    <3> QED  BY <3>2, <3>3, ConcatEmptySeq
  <2>2. CASE d = 1
    <3>1. g[0] = <<>> /\ 1 - d = 0
      BY <1>0, <2>2 DEF Flow
    <3>2. Unread(q[1]) = <<b>> /\ <<b>> \o <<>> = <<b>>
      BY <1>2, <2>2, ConcatEmptySeq DEF FirstRest
    <3> QED  BY <2>1, <3>1, <3>2
  <2>3. CASE d # 1
    <3>1. 1 - d = 1 /\ 1 \in 1..Len(r) /\ 1 - 1 = 0 /\ Unread(q[1]) = <<b>> \o Unread(r[1])
      BY <1>1, <2>3 DEF FirstRest
    <3>2. g[1] = g[0] \o Unread(r[1]) /\ g[0] = <<>>
      <4>1. g[0] = <<>> /\ \A k \in 1..Len(r) : g[k] = g[k - 1] \o Unread(r[k])
        BY <1>0 DEF Flow
      <4> QED  BY <3>1, <4>1
    <3>3. Unread(r[1]) \in Seq(Nat)
      BY <3>1, QueueFacts, NodeFacts
    <3> QED  BY <2>1, <3>1, <3>2, <3>3, ConcatEmptySeq
  <2> QED  BY <2>2, <2>3
<1>3. wrong = {}
  <2> SUFFICES ASSUME wrong # {}
               PROVE  FALSE
    OBVIOUS
  <2>1. wrong \subseteq Nat
    BY <1>1
  <2>2. PICK m \in wrong : \A k \in wrong : m <= k
    BY <2>1, LeastNumber
  <2>3. m \in 1..n /\ f[m] # <<b>> \o g[m - d] /\ m # 1
    BY <1>4, <2>2
  <2>4. m - 1 \in 1..n /\ ~(m <= m - 1)
    BY <1>1, <2>3
  <2>5. f[m - 1] = <<b>> \o g[m - 1 - d]
    BY <2>2, <2>4
  <2>6. m - d \in 1..Len(r) /\ m - d - 1 \in 0..Len(r) /\ m - d - 1 = m - 1 - d /\ m \in 2..n
    BY <1>1, <2>3
  <2>7. /\ g[m - d - 1] \in Seq(Nat)
        /\ g[m - d] = g[m - d - 1] \o Unread(r[m - d])
        /\ r[m - d] \in Nodes
    BY <1>0, <2>6, QueueFacts DEF Flow
  <2>8. Unread(r[m - d]) \in Seq(Nat)
    BY <2>7, NodeFacts
  <2>9. f[m] = f[m - 1] \o Unread(q[m]) /\ q[m] = r[m - d]
    BY <1>0, <2>3, <2>6 DEF Flow, SameRest
  <2>10. f[m] = <<b>> \o (g[m - d - 1] \o Unread(r[m - d]))
    <3>1. (<<b>> \o g[m - d - 1]) \o Unread(r[m - d]) = <<b>> \o (g[m - d - 1] \o Unread(r[m - d]))
      BY <1>2, <2>7, <2>8, Together, Zenon
    <3> QED  BY <2>5, <2>6, <2>9, <3>1
  <2> QED  BY <2>3, <2>7, <2>10
<1>5. f[n] = <<b>> \o g[Len(r)]
  BY <1>1, <1>3
<1> QED
  BY <1>0, <1>5, FlowEnds

\* Taking a byte takes the first that the queue holds.
LEMMA AfterGetIs ==
    ASSUME NEW q \in Queues, q # <<>>
    PROVE  /\ AfterGet(q) \in Queues /\ Byte(q) \in Nat
           /\ Contents(q) = <<Byte(q)>> \o Contents(AfterGet(q))
<1> DEFINE n == Len(q)
           m == q[1]
           b == m.buf[m.pos]
           rest == SubSeq(m.buf, m.pos + 1, Len(m.buf))
<1>1. n \in Nat \ {0} /\ 1 \in 1..n /\ m \in Nodes /\ Head(q) = m
  BY QueueFacts DEF Queues
<1>2. /\ m.pos \in Nat \ {0} /\ m.buf \in Seq(Nat) /\ Len(m.buf) \in Nat
      /\ m.pos <= Len(m.buf) /\ m.pos \in 1..Len(m.buf)
      /\ Unread(m) \in Seq(Nat)
  BY <1>1, NodeFacts
<1>3. b \in Nat /\ Byte(q) = b /\ <<b>> \in Seq(Nat)
  BY <1>1, <1>2, ElementOfSeq DEF Byte
<1>4. Unread(m) = <<b>> \o rest
  <2>1. Len(m.buf) \in m.pos..Len(m.buf)
    BY <1>2
  <2> QED  BY <1>2, <2>1, SubSeqRecursiveFirst DEF Unread
<1>5. rest \in Seq(Nat)
  <2>1. ASSUME NEW i \in m.pos + 1..Len(m.buf)
        PROVE  m.buf[i] \in Nat
    <3>1. i \in 1..Len(m.buf)
      BY <1>2
    <3> QED  BY <1>2, <3>1, ElementOfSeq
  <2> QED  BY <1>2, <2>1, SubSeqProperties
<1> HIDE DEF b, rest
<1>9. ASSUME NEW r \in Queues, NEW d \in {0, 1}, n = Len(r) + d, AfterGet(q) = r,
             d = 0 => Len(r) # 0 /\ Unread(r[1]) = rest,
             d = 1 => rest = <<>>,
             \A k \in 2..n : q[k] = r[k - d]
      PROVE  /\ AfterGet(q) \in Queues
             /\ Contents(q) = <<Byte(q)>> \o Contents(AfterGet(q))
  <2>1. FirstRest(q, r, d, b)
    <3>1. CASE d = 1
      BY <1>3, <1>4, <1>9, <3>1, ConcatEmptySeq DEF FirstRest
    <3>2. CASE d # 1
      BY <1>4, <1>9, <3>2 DEF FirstRest
    <3> QED  BY <3>1, <3>2
  <2>2. SameRest(q, r, d) /\ Len(q) = Len(r) + d /\ Len(q) # 0
    BY <1>1, <1>9 DEF SameRest
  <2>3. Contents(q) = <<b>> \o Contents(r)
    BY <1>3, <2>1, <2>2, Shifted
  <2> QED  BY <1>3, <1>9, <2>3
<1>10. CASE m.pos >= Len(m.buf)
  <2>1. AfterGet(q) = Tail(q)
    BY <1>1, <1>10 DEF AfterGet
  <2>2. Tail(q) \in Queues /\ n = Len(Tail(q)) + 1 /\ \A k \in 1..Len(Tail(q)) : Tail(q)[k] = q[k + 1]
    BY <1>1, HeadTailProperties DEF Queues
  <2>3. rest = <<>>
    BY <1>2, <1>10, SubSeqEmpty DEF rest
  <2>4. ASSUME NEW k \in 2..n
        PROVE  q[k] = Tail(q)[k - 1]
    <3>1. k - 1 \in 1..Len(Tail(q)) /\ k - 1 + 1 = k
      BY <1>1, <2>2, QueueFacts
    <3> QED  BY <2>2, <3>1
  <2>5. 1 \in {0, 1} /\ 1 # 0
    OBVIOUS
  <2> HIDE DEF n, m
  <2> QED  BY <1>3, <1>9, <2>1, <2>2, <2>3, <2>4, <2>5
<1>11. CASE ~(m.pos >= Len(m.buf))
  <2> DEFINE m2 == [m EXCEPT !.pos = @ + 1]
             r == [q EXCEPT ![1] = m2]
  <2>1. AfterGet(q) = r
    BY <1>1, <1>11 DEF AfterGet
  <2>2. m2.pos = m.pos + 1 /\ m2.buf = m.buf /\ m2 \in Nodes
    <3>1. m \in [pos : Nat \ {0}, buf : Seq(Nat)]
      BY <1>1 DEF Nodes
    <3>2. m2.pos = m.pos + 1 /\ m2.buf = m.buf
      BY <3>1
    <3>3. m2 \in [pos : Nat \ {0}, buf : Seq(Nat)]
      BY <1>2, <3>1
    <3>4. m2.pos <= Len(m2.buf)
      BY <1>2, <1>11, <3>2
    <3> QED  BY <3>2, <3>3, <3>4 DEF Nodes
  <2> HIDE DEF m2
  <2>3. r \in Queues /\ Len(r) = n /\ \A k \in 1..n : r[k] = IF k = 1 THEN m2 ELSE q[k]
    BY <1>1, <2>2, ExceptSeq DEF Queues
  <2>4. Len(r) # 0 /\ Unread(r[1]) = rest
    BY <1>1, <2>2, <2>3 DEF Unread, rest
  <2> HIDE DEF r
  <2>5. ASSUME NEW k \in 2..n
        PROVE  q[k] = r[k - 0]
    <3>1. k \in 1..n /\ k # 1 /\ k - 0 = k
      BY <1>1
    <3> QED  BY <2>3, <3>1
  <2>6. n = Len(r) + 0
    BY <1>1, <2>3
  <2> QED  BY <1>3, <1>9, <2>1, <2>3, <2>4, <2>5, <2>6
<1> QED
  BY <1>10, <1>11

\* Putting a byte puts it after all that the queue holds.
LEMMA PutByteIs ==
    ASSUME NEW q \in Queues, NEW c \in Nat
    PROVE  PutByte(q, c) \in Queues /\ Contents(PutByte(q, c)) = Contents(q) \o <<c>>
<1> DEFINE n == Len(q)
<1>1. n \in Nat
  BY QueueFacts
<1>2. PICK f : Flow(f, q)
  BY FlowExists
<1>3. /\ f \in [0..n -> Seq(Nat)] /\ f[0] = <<>> /\ f[n] \in Seq(Nat)
      /\ \A k \in 1..n : f[k] = f[k - 1] \o Unread(q[k])
  <2>1. f \in [0..n -> Seq(Nat)] /\ f[0] = <<>>
    BY <1>2 DEF Flow
  <2>2. n \in 0..n
    BY <1>1
  <2>3. f[n] \in Seq(Nat)
    BY <2>1, <2>2
  <2>4. \A k \in 1..n : f[k] = f[k - 1] \o Unread(q[k])
    BY <1>2 DEF Flow
  <2> QED  BY <2>1, <2>3, <2>4
<1>4. Contents(q) = f[n] /\ <<c>> \in Seq(Nat)
  BY <1>2, FlowEnds
<1>5. CASE q = <<>> \/ Len(Last(q).buf) >= ToSize
  <2> DEFINE m == NewNode(c)
             r == Append(q, m)
             g == [k \in 0..n + 1 |-> IF k = n + 1 THEN f[n] \o <<c>> ELSE f[k]]
  <2>1. PutByte(q, c) = r
    BY <1>5 DEF PutByte
  <2>2. m.pos = 1 /\ m.buf = <<c>> /\ Len(m.buf) = 1
    BY DEF NewNode
  <2>3. m \in Nodes
    <3>1. m \in [pos : Nat \ {0}, buf : Seq(Nat)]
      BY <1>4 DEF NewNode
    <3>2. m.pos <= Len(m.buf)
      BY <2>2
    <3> HIDE DEF m
    <3> QED  BY <3>1, <3>2 DEF Nodes
  <2>4. Unread(m) = <<c>>
    BY <1>4, <2>2, SubSeqFull DEF Unread
  <2> HIDE DEF m
  <2>5. r \in Queues /\ Len(r) = n + 1 /\ r[n + 1] = m /\ \A k \in 1..n : r[k] = q[k]
    BY <2>3, AppendProperties DEF Queues
  <2> HIDE DEF r
  <2>6. f[n] \o <<c>> \in Seq(Nat)
    BY <1>3, <1>4, ConcatProperties
  <2>7. /\ g[n + 1] = f[n] \o <<c>> /\ \A k \in 0..n : g[k] = f[k]
        /\ g \in [0..n + 1 -> Seq(Nat)]
    <3>1. ASSUME NEW k \in 0..n + 1, k # n + 1
          PROVE  f[k] \in Seq(Nat)
      <4>1. k \in 0..n
        BY <1>1, <3>1
      <4> QED  BY <1>3, <4>1
    <3> QED  BY <1>1, <2>6, <3>1
  <2> HIDE DEF g
  <2>8. ASSUME NEW k \in 1..n + 1
        PROVE  g[k] = g[k - 1] \o Unread(r[k])
    <3>1. k - 1 \in 0..n
      BY <1>1
    <3>2. CASE k = n + 1
      <4>1. k - 1 = n
        BY <1>1, <3>2
      <4> QED  BY <2>4, <2>5, <2>7, <3>1, <3>2, <4>1
    <3>3. CASE k # n + 1
      <4>1. k \in 1..n /\ k \in 0..n
        BY <1>1, <3>3
      <4> QED  BY <1>3, <2>5, <2>7, <3>1, <4>1
    <3> QED  BY <3>2, <3>3
  <2>9. g[0] = <<>>
    BY <1>1, <1>3, <2>7
  <2>10. Flow(g, r)
    BY <2>5, <2>7, <2>8, <2>9 DEF Flow
  <2>11. Contents(r) = g[n + 1]
    BY <2>5, <2>10, FlowEnds
  <2> QED  BY <1>4, <2>1, <2>5, <2>7, <2>11
<1>6. CASE ~(q = <<>> \/ Len(Last(q).buf) >= ToSize)
  <2> DEFINE m == q[n]
             m2 == [m EXCEPT !.buf = Append(@, c)]
             r == [q EXCEPT ![n] = m2]
             g == [f EXCEPT ![n] = f[n] \o <<c>>]
  <2>1. PutByte(q, c) = r
    BY <1>6 DEF PutByte
  <2>2. n \in 1..n /\ m \in Nodes /\ n # 0
    BY <1>6, QueueFacts
  <2>3. /\ m.pos \in Nat \ {0} /\ m.buf \in Seq(Nat) /\ Len(m.buf) \in Nat
        /\ m.pos <= Len(m.buf) /\ m.pos \in 1..Len(m.buf) /\ Unread(m) \in Seq(Nat)
        /\ m \in [pos : Nat \ {0}, buf : Seq(Nat)]
    BY <2>2, NodeFacts DEF Nodes
  <2>4. m2.pos = m.pos /\ m2.buf = Append(m.buf, c)
    BY <2>3
  <2>5. /\ Append(m.buf, c) \in Seq(Nat) /\ Len(Append(m.buf, c)) = Len(m.buf) + 1
        /\ \A i \in 1..Len(m.buf) : Append(m.buf, c)[i] = m.buf[i]
        /\ Append(m.buf, c)[Len(m.buf) + 1] = c
    BY <2>3, AppendProperties
  <2>6. m2 \in Nodes
    <3>1. m2 \in [pos : Nat \ {0}, buf : Seq(Nat)]
      BY <2>3, <2>5
    <3>2. m2.pos <= Len(m2.buf)
      BY <2>3, <2>4, <2>5
    <3> QED  BY <3>1, <3>2 DEF Nodes
  <2>7. Unread(m2) = Unread(m) \o <<c>>
    <3> DEFINE t == Append(m.buf, c)
               l == Len(m.buf)
               p == m.pos
    <3>1. t \in Seq(Nat) /\ Len(t) = l + 1 /\ t[l + 1] = c /\ l \in Nat /\ p \in 1..l
          /\ m.buf \in Seq(Nat) /\ \A i \in 1..l : t[i] = m.buf[i]
      BY <2>3, <2>5
    <3>2. Unread(m2) = SubSeq(t, p, l + 1) /\ Unread(m) = SubSeq(m.buf, p, l)
      BY <2>4, <3>1 DEF Unread
    <3> HIDE DEF t, l, p
    <3>3. SubSeq(t, p, l + 1) = SubSeq(t, p, l) \o <<c>>
      <4>1. p \in 1..Len(t) /\ l + 1 \in p..Len(t) /\ (l + 1) - 1 = l
        BY <3>1
      <4> QED  BY <3>1, <4>1, SubSeqRecursiveSecond
    <3>4. SubSeq(t, p, l) = SubSeq(m.buf, p, l)
      <4>1. \A i \in p..l : t[i] = m.buf[i] /\ t[i] \in Nat /\ m.buf[i] \in Nat
        <5>1. ASSUME NEW i \in p..l
              PROVE  t[i] = m.buf[i] /\ t[i] \in Nat
          <6>1. i \in 1..l /\ i \in 1..Len(t)
            BY <3>1
          <6> QED  BY <3>1, <6>1, ElementOfSeq
        <5> QED  BY <5>1
      <4>2. p \in Int /\ l \in Int /\ p <= l
        BY <3>1
      <4>3. /\ SubSeq(t, p, l) \in Seq(Nat) /\ Len(SubSeq(t, p, l)) = l - p + 1
            /\ \A i \in 1..l - p + 1 : SubSeq(t, p, l)[i] = t[p + i - 1]
        BY <4>1, <4>2, SubSeqProperties
      <4>4. /\ SubSeq(m.buf, p, l) \in Seq(Nat) /\ Len(SubSeq(m.buf, p, l)) = l - p + 1
            /\ \A i \in 1..l - p + 1 : SubSeq(m.buf, p, l)[i] = m.buf[p + i - 1]
        BY <4>1, <4>2, SubSeqProperties
      <4>5. \A i \in 1..l - p + 1 : p + i - 1 \in p..l
        BY <4>2
      <4> QED  BY <4>1, <4>3, <4>4, <4>5, SeqEqual
    <3> QED  BY <3>2, <3>3, <3>4
  <2> HIDE DEF m2
  <2>8. r \in Queues /\ Len(r) = n /\ \A k \in 1..n : r[k] = IF k = n THEN m2 ELSE q[k]
    BY <2>2, <2>6, ExceptSeq DEF Queues
  <2> HIDE DEF r
  <2>9. f[n] \o <<c>> \in Seq(Nat)
    BY <1>3, <1>4, ConcatProperties
  <2>10. /\ g \in [0..n -> Seq(Nat)] /\ g[n] = f[n] \o <<c>>
         /\ \A k \in 0..n : k # n => g[k] = f[k]
    BY <1>1, <1>3, <2>9
  <2> HIDE DEF g
  <2>11. ASSUME NEW k \in 1..n
         PROVE  g[k] = g[k - 1] \o Unread(r[k])
    <3>1. k - 1 \in 0..n /\ k - 1 # n /\ k \in 0..n
      BY <1>1
    <3>2. g[k - 1] = f[k - 1] /\ f[k - 1] \in Seq(Nat) /\ f[k] = f[k - 1] \o Unread(q[k])
      BY <1>3, <2>10, <3>1
    <3>3. CASE k = n
      <4>1. (f[k - 1] \o Unread(m)) \o <<c>> = f[k - 1] \o (Unread(m) \o <<c>>)
        BY <1>4, <2>3, <3>2, Together, Zenon
      <4> QED  BY <2>7, <2>8, <2>10, <3>2, <3>3, <4>1
    <3>4. CASE k # n
      BY <2>8, <2>10, <3>1, <3>2, <3>4
    <3> QED  BY <3>3, <3>4
  <2>12. g[0] = <<>>
    BY <1>1, <1>3, <2>2, <2>10
  <2>13. Flow(g, r)
    BY <2>8, <2>10, <2>11, <2>12 DEF Flow
  <2>14. Contents(r) = g[n]
    BY <2>8, <2>13, FlowEnds
  <2> QED  BY <1>4, <2>1, <2>8, <2>10, <2>14
<1> QED
  BY <1>5, <1>6

LEMMA NumberByNumber ==
    ASSUME NEW n \in Nat, NEW good, 0 \in good,
           \A k \in 1..n : k - 1 \in good => k \in good
    PROVE  \A k \in 0..n : k \in good
<1> DEFINE wrong == {k \in 0..n : k \notin good}
<1>1. wrong = {}
  <2> SUFFICES ASSUME wrong # {}
               PROVE  FALSE
    OBVIOUS
  <2>1. wrong \subseteq Nat
    OBVIOUS
  <2>2. PICK m \in wrong : \A k \in wrong : m <= k
    BY <2>1, LeastNumber
  <2>3. m \in 0..n /\ m \notin good /\ m # 0
    BY <2>2
  <2>4. m \in 1..n /\ m - 1 \in 0..n /\ ~(m <= m - 1)
    BY <2>3
  <2>5. m - 1 \in good
    BY <2>2, <2>4
  <2> QED  BY <2>3, <2>4, <2>5
<1> QED
  BY <1>1

\* Bytes that are put one after the other come after what the queue holds.
LEMMA PutAllIs ==
    ASSUME NEW q \in Queues, NEW bytes \in Seq(Nat)
    PROVE  PutAll(q, bytes) \in Queues /\ Contents(PutAll(q, bytes)) = Contents(q) \o bytes
<1> DEFINE n == Len(bytes)
           F(x) == [k \in 0..Len(bytes) |->
                       IF k = 0 THEN q ELSE PutByte(x[k - 1], bytes[k])]
           h == CHOOSE p : p = F(p)
           step == [x \in Queues \X (1..n) |-> PutByte(x[1], bytes[x[2]])]
<1>1. n \in Nat /\ \A k \in 1..n : bytes[k] \in Nat
  BY LenProperties, ElementOfSeq
<1>2. PutAll(q, bytes) = h[n]
  BY DEF PutAll
<1>3. step \in [Queues \X (1..n) -> Queues]
  <2>1. ASSUME NEW x \in Queues \X (1..n)
        PROVE  PutByte(x[1], bytes[x[2]]) \in Queues
    <3>1. x[1] \in Queues /\ x[2] \in 1..n
      OBVIOUS
    <3> QED  BY <1>1, <3>1, PutByteIs
  <2> QED  BY <2>1
<1>4. \A x \in Queues, k \in 1..n : step[<<x, k>>] = PutByte(x, bytes[k])
  OBVIOUS
<1> HIDE DEF step
<1>5. PICK f \in [0..n -> Queues] : Follows(f, n, q, step)
  BY <1>1, <1>3, FollowsExists
<1>6. f = F(f)
  <2>1. ASSUME NEW k \in 0..n
        PROVE  f[k] = IF k = 0 THEN q ELSE PutByte(f[k - 1], bytes[k])
    <3>1. CASE k = 0
      BY <1>5, <3>1 DEF Follows
    <3>2. CASE k # 0
      <4>1. k \in 1..n /\ k - 1 \in 0..n
        BY <1>1, <3>2
      <4>2. f[k] = step[<<f[k - 1], k>>] /\ f[k - 1] \in Queues
        BY <1>5, <4>1 DEF Follows
      <4> QED  BY <1>4, <3>2, <4>1, <4>2
    <3> QED  BY <3>1, <3>2
  <2> QED  BY <1>5, <2>1
<1>7. h = F(h)
  <2> HIDE DEF F
  <2> QED  BY <1>6
<1>8. h[0] = q /\ \A k \in 1..n : h[k] = PutByte(h[k - 1], bytes[k])
  <2> HIDE DEF h
  <2>1. \A k \in 0..n : h[k] = IF k = 0 THEN q ELSE PutByte(h[k - 1], bytes[k])
    BY <1>7
  <2>2. 0 \in 0..n /\ \A k \in 1..n : k \in 0..n /\ k # 0
    BY <1>1
  <2> QED  BY <2>1, <2>2
<1> HIDE DEF h, F
<1> DEFINE good == {k \in 0..n : /\ h[k] \in Queues
                                 /\ Contents(h[k]) = Contents(q) \o SubSeq(bytes, 1, k)}
<1>9. 0 \in good
  <2>1. SubSeq(bytes, 1, 0) = <<>>
    BY SubSeqEmpty
  <2>2. Contents(q) \o <<>> = Contents(q)
    BY ContentsFacts, ConcatEmptySeq
  <2>3. h[0] \in Queues /\ Contents(h[0]) = Contents(q) \o SubSeq(bytes, 1, 0)
    BY <1>8, <2>1, <2>2
  <2>4. 0 \in 0..n
    BY <1>1
  <2> QED  BY <2>3, <2>4
<1>10. ASSUME NEW k \in 1..n, k - 1 \in good
       PROVE  k \in good
  <2> DEFINE s == SubSeq(bytes, 1, k - 1)
  <2>1. /\ h[k - 1] \in Queues /\ Contents(h[k - 1]) = Contents(q) \o s
        /\ k \in 0..n /\ bytes[k] \in Nat /\ h[k] = PutByte(h[k - 1], bytes[k])
    BY <1>1, <1>8, <1>10
  <2>2. SubSeq(bytes, 1, k) = s \o <<bytes[k]>>
    <3>1. 1 \in 1..Len(bytes) /\ k \in 1..Len(bytes)
      BY <1>1
    <3> QED  BY <3>1, SubSeqRecursiveSecond
  <2>3. s \in Seq(Nat) /\ <<bytes[k]>> \in Seq(Nat) /\ Contents(q) \in Seq(Nat)
    <3>1. s \in Seq(Nat)
      <4>1. \A i \in 1..k - 1 : bytes[i] \in Nat
        BY <1>1
      <4>2. 1 \in Int /\ k - 1 \in Int
        BY <1>1
      <4> QED  BY <4>1, <4>2, SubSeqProperties
    <3> QED  BY <2>1, <3>1, ContentsFacts
  <2> HIDE DEF s
  <2>4. h[k] \in Queues /\ Contents(h[k]) = Contents(h[k - 1]) \o <<bytes[k]>>
    BY <2>1, PutByteIs
  <2>5. (Contents(q) \o s) \o <<bytes[k]>> = Contents(q) \o (s \o <<bytes[k]>>)
    BY <2>3, Together, Zenon
  <2> QED  BY <2>1, <2>2, <2>4, <2>5
<1>11. n \in good
  <2> HIDE DEF good
  <2>1. \A k \in 0..n : k \in good
    BY <1>1, <1>9, <1>10, NumberByNumber
  <2> QED  BY <1>1, <2>1
<1>12. SubSeq(bytes, 1, n) = bytes
  BY SubSeqFull
<1> QED
  BY <1>2, <1>11, <1>12

\* What has been taken and what is left in the queue.
Reading == [q : Queues, bytes : Seq(Nat)]
Both(r) == r.bytes \o Contents(r.q)

LEMMA GetByteIs ==
    ASSUME NEW r \in Reading
    PROVE  GetByte(r) \in Reading /\ Both(GetByte(r)) = Both(r)
<1>1. r.q \in Queues /\ r.bytes \in Seq(Nat)
  BY DEF Reading
<1>2. CASE r.q = <<>>
  BY <1>2 DEF GetByte
<1>3. CASE r.q # <<>>
  <2>1. /\ AfterGet(r.q) \in Queues /\ Byte(r.q) \in Nat
        /\ Contents(r.q) = <<Byte(r.q)>> \o Contents(AfterGet(r.q))
    BY <1>1, <1>3, AfterGetIs
  <2>2. GetByte(r) = [q |-> AfterGet(r.q), bytes |-> Append(r.bytes, Byte(r.q))]
    BY <1>3 DEF GetByte
  <2>3. /\ Append(r.bytes, Byte(r.q)) \in Seq(Nat)
        /\ Append(r.bytes, Byte(r.q)) = r.bytes \o <<Byte(r.q)>>
    BY <1>1, <2>1, AppendProperties, AppendIsConcat
  <2>4. GetByte(r) \in Reading
    BY <2>1, <2>2, <2>3 DEF Reading
  <2>5. GetByte(r).q = AfterGet(r.q) /\ GetByte(r).bytes = r.bytes \o <<Byte(r.q)>>
    BY <2>2, <2>3
  <2>6. <<Byte(r.q)>> \in Seq(Nat) /\ Contents(AfterGet(r.q)) \in Seq(Nat)
    BY <2>1, ContentsFacts
  <2>7. /\ (r.bytes \o <<Byte(r.q)>>) \o Contents(AfterGet(r.q))
           = r.bytes \o (<<Byte(r.q)>> \o Contents(AfterGet(r.q)))
    BY <1>1, <2>6, Together, Zenon
  <2> QED  BY <2>1, <2>4, <2>5, <2>7 DEF Both
<1> QED
  BY <1>2, <1>3

LEMMA ReadOutputIs ==
    ASSUME NEW q \in Queues, NEW n \in Nat
    PROVE  ReadOutput(q, n) \in Reading /\ Both(ReadOutput(q, n)) = Contents(q)
<1> DEFINE base == [q |-> q, bytes |-> <<>>]
           F(x) == [k \in 0..n |-> IF k = 0 THEN [q |-> q, bytes |-> <<>>]
                                   ELSE GetByte(x[k - 1])]
           h == CHOOSE p : p = F(p)
           step == [x \in Reading \X (1..n) |-> GetByte(x[1])]
<1>1. base \in Reading /\ Both(base) = Contents(q)
  <2>1. <<>> \in Seq(Nat) /\ <<>> \o Contents(q) = Contents(q)
    BY EmptySeq, ContentsFacts, ConcatEmptySeq
  <2> QED  BY <2>1 DEF Reading, Both
<1>2. ReadOutput(q, n) = h[n]
  BY DEF ReadOutput
<1>3. step \in [Reading \X (1..n) -> Reading]
  <2>1. ASSUME NEW x \in Reading \X (1..n)
        PROVE  GetByte(x[1]) \in Reading
    <3>1. x[1] \in Reading
      OBVIOUS
    <3> QED  BY <3>1, GetByteIs
  <2> QED  BY <2>1
<1>4. \A x \in Reading, k \in 1..n : step[<<x, k>>] = GetByte(x)
  OBVIOUS
<1> HIDE DEF step
<1>5. PICK f \in [0..n -> Reading] : Follows(f, n, base, step)
  <2> HIDE DEF base
  <2> QED  BY <1>1, <1>3, FollowsExists
<1>6. f = F(f)
  <2>1. ASSUME NEW k \in 0..n
        PROVE  f[k] = IF k = 0 THEN [q |-> q, bytes |-> <<>>] ELSE GetByte(f[k - 1])
    <3>1. CASE k = 0
      BY <1>5, <3>1 DEF Follows
    <3>2. CASE k # 0
      <4>1. k \in 1..n /\ k - 1 \in 0..n
        BY <3>2
      <4>2. f[k] = step[<<f[k - 1], k>>] /\ f[k - 1] \in Reading
        BY <1>5, <4>1 DEF Follows
      <4> QED  BY <1>4, <3>2, <4>1, <4>2
    <3> QED  BY <3>1, <3>2
  <2> QED  BY <1>5, <2>1
<1>7. h = F(h)
  <2> HIDE DEF F
  <2> QED  BY <1>6
<1>8. h[0] = base /\ \A k \in 1..n : h[k] = GetByte(h[k - 1])
  <2> HIDE DEF h
  <2>1. \A k \in 0..n : h[k] = IF k = 0 THEN [q |-> q, bytes |-> <<>>] ELSE GetByte(h[k - 1])
    BY <1>7
  <2>2. 0 \in 0..n /\ \A k \in 1..n : k \in 0..n /\ k # 0
    OBVIOUS
  <2> QED  BY <2>1, <2>2
<1> HIDE DEF h, F, base
<1> DEFINE good == {k \in 0..n : h[k] \in Reading /\ Both(h[k]) = Contents(q)}
<1>9. 0 \in good
  BY <1>1, <1>8
<1>10. ASSUME NEW k \in 1..n, k - 1 \in good
       PROVE  k \in good
  <2>1. h[k - 1] \in Reading /\ Both(h[k - 1]) = Contents(q) /\ k \in 0..n
    BY <1>10
  <2> QED  BY <1>8, <2>1, GetByteIs
<1>11. n \in good
  <2> HIDE DEF good
  <2>1. \A k \in 0..n : k \in good
    BY <1>9, <1>10, NumberByNumber
  <2> QED  BY <2>1
<1> QED
  BY <1>2, <1>11

-----------------------------------------------------------------------------
\* The bytes in the output thread's hands are none unless it is writing.
ToInv ==
    /\ queue \in Queues /\ typed \in Seq(Nat) /\ written \in Seq(Nat)
    /\ writer \in [at : {"read", "wait", "gone", "write"}, bytes : Seq(Nat)]
    /\ writer.at # "write" => writer.bytes = <<>>
    /\ TypedInOrder

LEMMA ToInvInit == ToInit => ToInv
<1> SUFFICES ASSUME ToInit
             PROVE  ToInv
  OBVIOUS
<1>1. queue = <<>> /\ typed = <<>> /\ written = <<>>
      /\ writer = [at |-> "read", bytes |-> <<>>]
  BY DEF ToInit
<1>2. <<>> \in Seq(Nat) /\ <<>> \in Queues
  BY EmptySeq DEF Queues
<1>3. writer.bytes = <<>> /\ writer \in [at : {"read", "wait", "gone", "write"}, bytes : Seq(Nat)]
  BY <1>1, <1>2
<1>4. Contents(queue) = <<>>
  <2>1. PICK f : Flow(f, queue)
    BY <1>1, <1>2, FlowExists
  <2>2. Len(queue) = 0
    BY <1>1, EmptySeq
  <2> QED  BY <1>1, <1>2, <2>1, <2>2, FlowEnds DEF Flow
<1>5. <<>> \o <<>> = <<>>
  BY <1>2, ConcatEmptySeq
<1>6. TypedInOrder
  BY <1>1, <1>3, <1>4, <1>5 DEF TypedInOrder
<1> QED
  BY <1>1, <1>2, <1>3, <1>6 DEF ToInv

LEMMA OutputStep == ToInv /\ Output => ToInv'
<1> SUFFICES ASSUME ToInv, Output
             PROVE  ToInv'
  OBVIOUS
<1>1. PICK key \in ToKey : queue' = PutAll(queue, key) /\ typed' = typed \o key
  BY DEF Output
<1>2. key \in Seq(Nat)
  BY ToAssumption
<1>3. /\ queue \in Queues /\ typed \in Seq(Nat) /\ written \in Seq(Nat)
      /\ writer \in [at : {"read", "wait", "gone", "write"}, bytes : Seq(Nat)]
      /\ writer' = writer /\ written' = written /\ dropped' = dropped
  BY DEF ToInv, Output
<1>4. queue' \in Queues /\ Contents(queue)' = Contents(queue) \o key
  BY <1>1, <1>2, <1>3, PutAllIs
<1>5. typed' \in Seq(Nat)
  BY <1>1, <1>2, <1>3, ConcatProperties
<1>6. ASSUME ~dropped
      PROVE  (written \o writer.bytes \o Contents(queue))' = typed'
  <2>1. written \o writer.bytes \o Contents(queue) = typed
    BY <1>6 DEF ToInv, TypedInOrder
  <2>2. writer.bytes \in Seq(Nat) /\ Contents(queue) \in Seq(Nat)
    BY <1>3, ContentsFacts
  <2>3. written \o writer.bytes \in Seq(Nat)
    BY <1>3, <2>2, ConcatProperties
  <2>4. /\ ((written \o writer.bytes) \o Contents(queue)) \o key
           = (written \o writer.bytes) \o (Contents(queue) \o key)
    BY <1>2, <2>2, <2>3, Together, Zenon
  <2> QED  BY <1>1, <1>3, <1>4, <2>1, <2>4
<1>7. TypedInOrder'
  BY <1>3, <1>6 DEF TypedInOrder
<1>8. (writer.at # "write" => writer.bytes = <<>>)'
  BY <1>3 DEF ToInv
<1> QED
  BY <1>3, <1>4, <1>5, <1>7, <1>8 DEF ToInv

LEMMA TakeOutputStep == ToInv /\ TakeOutput => ToInv'
<1> SUFFICES ASSUME ToInv, TakeOutput
             PROVE  ToInv'
  OBVIOUS
<1> DEFINE r == ReadOutput(queue, ToTake)
<1>1. /\ queue \in Queues /\ typed \in Seq(Nat) /\ written \in Seq(Nat)
      /\ writer \in [at : {"read", "wait", "gone", "write"}, bytes : Seq(Nat)]
      /\ writer.at = "read" /\ writer.bytes = <<>>
      /\ typed' = typed /\ written' = written /\ dropped' = dropped
  BY DEF ToInv, TakeOutput
<1>2. r \in Reading /\ Both(r) = Contents(queue)
  BY <1>1, ReadOutputIs, ToAssumption
<1>3. r.q \in Queues /\ r.bytes \in Seq(Nat) /\ r.bytes \o Contents(r.q) = Contents(queue)
  BY <1>2 DEF Reading, Both
<1>4. /\ queue' = r.q
      /\ writer' = IF r.bytes = <<>> THEN [writer EXCEPT !.at = "wait"]
                   ELSE [at |-> "write", bytes |-> r.bytes]
  BY DEF TakeOutput
<1> HIDE DEF r
<1>5. /\ writer'.bytes = r.bytes
      /\ writer' \in [at : {"read", "wait", "gone", "write"}, bytes : Seq(Nat)]
      /\ writer'.at # "write" => writer'.bytes = <<>>
  <2>1. CASE r.bytes = <<>>
    <3>1. writer' = [writer EXCEPT !.at = "wait"]
      BY <1>4, <2>1
    <3>2. writer' \in [at : {"read", "wait", "gone", "write"}, bytes : Seq(Nat)]
      BY <1>1, <3>1
    <3>3. writer'.bytes = writer.bytes
      BY <1>1, <3>1
    <3> QED  BY <1>1, <2>1, <3>2, <3>3
  <2>2. CASE r.bytes # <<>>
    BY <1>3, <1>4, <2>2
  <2> QED  BY <2>1, <2>2
<1>6. Contents(queue)' = Contents(r.q)
  BY <1>4
<1>7. ASSUME ~dropped
      PROVE  (written \o writer.bytes \o Contents(queue))' = typed'
  <2>1. written \o writer.bytes \o Contents(queue) = typed
    BY <1>7 DEF ToInv, TypedInOrder
  <2>2. written \o <<>> = written
    BY <1>1, ConcatEmptySeq
  <2>3. written \o Contents(queue) = typed
    BY <1>1, <2>1, <2>2
  <2>4. (written \o r.bytes) \o Contents(r.q) = written \o (r.bytes \o Contents(r.q))
    <3>1. Contents(r.q) \in Seq(Nat)
      BY <1>3, ContentsFacts
    <3> QED  BY <1>1, <1>3, <3>1, Together, Zenon
  <2> QED  BY <1>1, <1>3, <1>5, <1>6, <2>3, <2>4
<1>8. TypedInOrder'
  BY <1>1, <1>7 DEF TypedInOrder
<1> QED
  BY <1>1, <1>3, <1>4, <1>5, <1>8 DEF ToInv

LEMMA WriteSomeStep == ToInv /\ WriteSome => ToInv'
<1> SUFFICES ASSUME ToInv, WriteSome
             PROVE  ToInv'
  OBVIOUS
<1>1. /\ queue \in Queues /\ typed \in Seq(Nat) /\ written \in Seq(Nat)
      /\ writer \in [at : {"read", "wait", "gone", "write"}, bytes : Seq(Nat)]
      /\ writer.at = "write" /\ queue' = queue /\ typed' = typed
  BY DEF ToInv, WriteSome
<1>2. writer.bytes \in Seq(Nat) /\ Len(writer.bytes) \in Nat /\ <<>> \in Seq(Nat)
  BY <1>1, LenProperties, EmptySeq
<1>3. ASSUME NEW n \in 1..Len(writer.bytes),
             written' = written \o SubSeq(writer.bytes, 1, n),
             writer' = IF n = Len(writer.bytes) THEN [at |-> "read", bytes |-> <<>>]
                       ELSE [writer EXCEPT !.bytes = SubSeq(@, n + 1, Len(@))],
             dropped' = dropped
      PROVE  ToInv'
  <2> DEFINE l == Len(writer.bytes)
             x == SubSeq(writer.bytes, 1, n)
             y == SubSeq(writer.bytes, n + 1, Len(writer.bytes))
  <2>1. x \in Seq(Nat) /\ y \in Seq(Nat)
    <3>1. \A i \in 1..n : writer.bytes[i] \in Nat
      <4>1. \A i \in 1..n : i \in 1..l
        BY <1>2
      <4> QED  BY <1>2, <4>1, ElementOfSeq
    <3>2. \A i \in n + 1..l : writer.bytes[i] \in Nat
      <4>1. \A i \in n + 1..l : i \in 1..l
        BY <1>2
      <4> QED  BY <1>2, <4>1, ElementOfSeq
    <3> QED  BY <1>2, <3>1, <3>2, SubSeqProperties
  <2>2. x \o y = writer.bytes
    <3>1. 1 \in 1..l + 1 /\ n \in 0..l /\ l \in n..l /\ 1 - 1 = 0
      BY <1>2
    <3>2. x \o y = SubSeq(writer.bytes, 1, l)
      BY <1>2, <3>1, ConcatAdjacentSubSeq
    <3> QED  BY <1>2, <3>2, SubSeqFull
  <2>3. /\ writer'.bytes = y
        /\ writer' \in [at : {"read", "wait", "gone", "write"}, bytes : Seq(Nat)]
        /\ writer'.at # "write" => writer'.bytes = <<>>
    <3>1. CASE n = l
      <4>1. y = <<>>
        BY <1>2, <3>1, SubSeqEmpty
      <4>2. writer' = [at |-> "read", bytes |-> <<>>]
        BY <1>3, <3>1
      <4> QED  BY <1>2, <4>1, <4>2
    <3>2. CASE n # l
      <4>1. writer' = [writer EXCEPT !.bytes = y]
        BY <1>3, <3>2
      <4> HIDE DEF y
      <4>2. writer'.bytes = y /\ writer'.at = "write"
        BY <1>1, <4>1
      <4>3. writer' \in [at : {"read", "wait", "gone", "write"}, bytes : Seq(Nat)]
        BY <1>1, <2>1, <4>1
      <4> QED  BY <4>2, <4>3
    <3> QED  BY <3>1, <3>2
  <2> HIDE DEF x, y
  <2>4. written' = written \o x
    BY <1>3 DEF x
  <2>5. written' \in Seq(Nat)
    BY <1>1, <2>1, <2>4, ConcatProperties
  <2>6. TypedInOrder'
    <3>1. (written \o x) \o y = written \o (x \o y)
      BY <1>1, <2>1, Together, Zenon
    <3>2. Contents(queue)' = Contents(queue)
      BY <1>1
    <3>3. (written \o writer.bytes)' = written \o writer.bytes
      BY <2>2, <2>3, <2>4, <3>1
    <3> QED  BY <1>1, <1>3, <3>2, <3>3 DEF ToInv, TypedInOrder
  <2> QED  BY <1>1, <2>3, <2>5, <2>6 DEF ToInv
<1>4. ASSUME dropped' = TRUE, written' = written, writer' = [at |-> "read", bytes |-> <<>>]
      PROVE  ToInv'
  BY <1>1, <1>2, <1>4 DEF ToInv, TypedInOrder
<1> QED
  BY <1>3, <1>4 DEF WriteSome

LEMMA ToInvStep == ToInv /\ [ToNext]_toVars => ToInv'
<1> SUFFICES ASSUME ToInv, [ToNext]_toVars
             PROVE  ToInv'
  OBVIOUS
<1>1. CASE EndWait
  <2>1. /\ writer \in [at : {"read", "wait", "gone", "write"}, bytes : Seq(Nat)]
        /\ writer.bytes = <<>> /\ writer' = [writer EXCEPT !.at = "gone"]
        /\ queue' = queue /\ typed' = typed /\ written' = written /\ dropped' = dropped
    BY <1>1 DEF ToInv, EndWait
  <2>2. writer'.bytes = writer.bytes
        /\ writer' \in [at : {"read", "wait", "gone", "write"}, bytes : Seq(Nat)]
    BY <2>1
  <2>3. Contents(queue)' = Contents(queue)
    BY <2>1
  <2>4. TypedInOrder'
    BY <2>1, <2>2, <2>3 DEF ToInv, TypedInOrder
  <2> QED  BY <2>1, <2>2, <2>4 DEF ToInv
<1>2. CASE UNCHANGED toVars
  <2>1. /\ queue' = queue /\ writer' = writer /\ typed' = typed
        /\ written' = written /\ dropped' = dropped
    BY <1>2 DEF toVars
  <2>2. Contents(queue)' = Contents(queue)
    BY <2>1
  <2> QED  BY <2>1, <2>2 DEF ToInv, TypedInOrder
<1> QED
  BY <1>1, <1>2, OutputStep, TakeOutputStep, WriteSomeStep DEF ToNext

(***************************************************************************)
(* What is typed reaches the shell in the order in which it was typed,     *)
(* none of it twice and none left out, as long as no write fails, for any  *)
(* size of the buffers and whatever the writes of the system take          *)
(* (TerminalOutputQueue of terminal.h and Terminal::Output, ReadOutput and *)
(* WriteOutput of terminal.cpp).                                           *)
(***************************************************************************)
THEOREM OutputInOrder == ToSpec => []TypedInOrder
<1>1. ToInv => TypedInOrder
  BY DEF ToInv
<1> QED
  BY <1>1, ToInvInit, ToInvStep, PTL DEF ToSpec

-----------------------------------------------------------------------------
(* The shape of a screen and of the emulator.                              *)

IsLines(l, n) == (\E S : l \in Seq(S)) /\ Len(l) >= n

IsScreen(s, n) ==
    /\ DOMAIN s = {"rows", "cols", "lines"}
    /\ s.rows \in Nat /\ s.rows >= n
    /\ IsLines(s.lines, s.rows)

EmFields == {"screens", "on", "rows", "cols", "top", "bottom", "row", "col", "saved", "wrap",
             "changed"}
IsEm(e) ==
    /\ DOMAIN e = EmFields
    /\ e.rows \in Nat /\ e.cols \in Nat /\ e.on \in {1, 2}
    /\ DOMAIN e.screens = {1, 2}
    /\ \A k \in {1, 2} : IsScreen(e.screens[k], e.rows) /\ e.screens[k].cols = e.cols

\* What is not flagged after a step was not before, and is as it was.
KeptElseFlagged(e, f) ==
    /\ IsEm(f) /\ f.rows = e.rows /\ f.cols = e.cols
    /\ \A r \in 0..e.rows - 1 :
        r \notin f.changed => r \notin e.changed /\ ShownLine(f, 0, r) = ShownLine(e, 0, r)

LEMMA LinesFacts ==
    ASSUME NEW l, NEW n \in Nat, IsLines(l, n)
    PROVE  /\ Len(l) \in Nat /\ DOMAIN l = 1..Len(l) /\ Len(l) >= n
           /\ \A r \in 1..n : r \in DOMAIN l
<1>1. PICK S : l \in Seq(S)
  BY DEF IsLines
<1>2. Len(l) \in Nat /\ DOMAIN l = 1..Len(l)
  BY <1>1, LenProperties
<1>3. Len(l) >= n
  BY DEF IsLines
<1> QED
  BY <1>2, <1>3

LEMMA SameLines ==
    ASSUME NEW l, NEW n \in Nat, IsLines(l, n), NEW m, m = [k \in DOMAIN l |-> m[k]]
    PROVE  IsLines(m, n)
<1> DEFINE S == {m[k] : k \in DOMAIN l}
<1>1. Len(l) \in Nat /\ DOMAIN l = 1..Len(l) /\ Len(l) >= n
  BY LinesFacts
<1>2. m \in [1..Len(l) -> S]
  BY <1>1
<1>3. m \in Seq(S)
  BY <1>1, <1>2, SeqDef
<1>4. Len(m) = Len(l)
  <2>1. Len(m) \in Nat /\ DOMAIN m = 1..Len(m) /\ DOMAIN m = 1..Len(l)
    BY <1>1, <1>2, <1>3, LenProperties
  <2> QED  BY <1>1, <2>1
<1> QED
  BY <1>1, <1>3, <1>4 DEF IsLines

LEMMA ScreenFacts ==
    ASSUME NEW s, NEW n \in Nat, IsScreen(s, n)
    PROVE  /\ s.rows \in Nat /\ s.rows >= n
           /\ \A r \in 0..n - 1 : r + 1 \in DOMAIN s.lines /\ r < s.rows
           /\ \A r \in 0..s.rows - 1 : r + 1 \in DOMAIN s.lines
<1>1. s.rows \in Nat /\ s.rows >= n /\ IsLines(s.lines, s.rows)
  BY DEF IsScreen
<1>2. \A r \in 1..s.rows : r \in DOMAIN s.lines
  BY <1>1, LinesFacts
<1>3. ASSUME NEW r \in 0..s.rows - 1
      PROVE  r + 1 \in DOMAIN s.lines
  <2>1. r + 1 \in 1..s.rows
    BY <1>1
  <2> QED  BY <1>2, <2>1
<1>4. ASSUME NEW r \in 0..n - 1
      PROVE  r \in 0..s.rows - 1 /\ r < s.rows
  BY <1>1
<1> QED
  BY <1>1, <1>3, <1>4

\* The lines of a screen are replaced.
LEMMA LinesPut ==
    ASSUME NEW s, NEW n \in Nat, IsScreen(s, n), NEW l, NEW t,
           l = [k \in DOMAIN s.lines |-> l[k]], t = [s EXCEPT !.lines = l]
    PROVE  IsScreen(t, n) /\ t.rows = s.rows /\ t.cols = s.cols /\ t.lines = l
<1>1. t.rows = s.rows /\ t.cols = s.cols /\ t.lines = l /\ DOMAIN t = {"rows", "cols", "lines"}
  BY DEF IsScreen
<1>2. IsLines(l, s.rows)
  <2>1. s.rows \in Nat /\ IsLines(s.lines, s.rows)
    BY DEF IsScreen
  <2> QED  BY <2>1, SameLines
<1> QED
  BY <1>1, <1>2 DEF IsScreen

LEMMA EmFacts ==
    ASSUME NEW e, IsEm(e)
    PROVE  /\ DOMAIN e = EmFields /\ e.rows \in Nat /\ e.cols \in Nat /\ e.on \in {1, 2}
           /\ DOMAIN e.screens = {1, 2} /\ \A k \in {1, 2} : IsScreen(e.screens[k], e.rows)
           /\ Screen(e) = e.screens[e.on] /\ IsScreen(Screen(e), e.rows)
           /\ Screen(e).cols = e.cols
           /\ \A r \in 0..e.rows - 1 : ShownLine(e, 0, r) = InUse(Screen(e), r)
<1>1. /\ DOMAIN e = EmFields /\ e.rows \in Nat /\ e.cols \in Nat /\ e.on \in {1, 2}
      /\ DOMAIN e.screens = {1, 2} /\ \A k \in {1, 2} : IsScreen(e.screens[k], e.rows)
  BY DEF IsEm
<1>2. Screen(e) = e.screens[e.on] /\ IsScreen(Screen(e), e.rows) /\ Screen(e).cols = e.cols
  BY <1>1 DEF IsEm, Screen
<1>3. ASSUME NEW r \in 0..e.rows - 1
      PROVE  ShownLine(e, 0, r) = InUse(Screen(e), r)
  <2>1. 0 + r = r /\ r < Screen(e).rows
    BY <1>1, <1>2, ScreenFacts
  <2> QED  BY <2>1 DEF ShownLine
<1> QED
  BY <1>1, <1>2, <1>3

LEMMA KeptTrans ==
    ASSUME NEW e, NEW f, NEW g, KeptElseFlagged(e, f), KeptElseFlagged(f, g)
    PROVE  KeptElseFlagged(e, g)
BY DEF KeptElseFlagged

LEMMA KeptSelf == ASSUME NEW e, IsEm(e) PROVE KeptElseFlagged(e, e)
BY DEF KeptElseFlagged

\* Nothing is drawn: the cursor, the region or the flags change.
Moved(e, f) ==
    /\ DOMAIN f = EmFields /\ f.screens = e.screens /\ f.on = e.on /\ f.rows = e.rows
    /\ f.cols = e.cols /\ \A r \in e.changed : r \in f.changed

LEMMA MovedKept ==
    ASSUME NEW e, IsEm(e), NEW f, Moved(e, f)
    PROVE  KeptElseFlagged(e, f)
<1>1. IsEm(f)
  BY DEF IsEm, Moved
<1>2. ASSUME NEW r \in 0..e.rows - 1
      PROVE  ShownLine(f, 0, r) = ShownLine(e, 0, r)
  <2>1. Screen(f) = Screen(e) /\ f.rows = e.rows
    BY DEF Screen, Moved
  <2> QED  BY <1>1, <2>1, EmFacts
<1> QED
  BY <1>1, <1>2 DEF KeptElseFlagged, Moved

\* All lines of the screen are flagged.
LEMMA FlaggedKept ==
    ASSUME NEW e, NEW f, IsEm(f), f.rows = e.rows, f.cols = e.cols, \A r \in 0..f.rows - 1 : r \in f.changed
    PROVE  KeptElseFlagged(e, f)
BY DEF KeptElseFlagged

LEMMA FlagSizes ==
    ASSUME NEW e, IsEm(e)
    PROVE  \A r \in 0..e.rows - 1 : r \in 0..FlagSize(e) - 1
<1>1. e.rows \in Nat /\ EmKept \in Nat
  BY EmFacts, EmAssumption
<1>2. FlagSize(e) \in Nat /\ FlagSize(e) >= e.rows
  BY <1>1 DEF FlagSize, AtLeast
<1> QED
  BY <1>1, <1>2

LEMMA FlagIs ==
    ASSUME NEW e, IsEm(e), NEW lines, NEW f, f = Flag(e, lines)
    PROVE  /\ DOMAIN f = EmFields /\ f.screens = e.screens /\ f.on = e.on /\ f.rows = e.rows
           /\ f.cols = e.cols /\ f.top = e.top /\ f.bottom = e.bottom /\ f.row = e.row
           /\ f.col = e.col /\ f.saved = e.saved /\ f.wrap = e.wrap
           /\ f.changed = e.changed \union (lines \intersect (0..FlagSize(e) - 1))
           /\ Moved(e, f)
<1>1. f = [e EXCEPT !.changed = e.changed \union (lines \intersect (0..FlagSize(e) - 1))]
  BY DEF Flag
<1>2. DOMAIN e = EmFields
  BY EmFacts
<1>3. /\ DOMAIN f = EmFields /\ f.screens = e.screens /\ f.on = e.on /\ f.rows = e.rows
      /\ f.cols = e.cols /\ f.top = e.top /\ f.bottom = e.bottom /\ f.row = e.row
      /\ f.col = e.col /\ f.saved = e.saved /\ f.wrap = e.wrap
  BY <1>1, <1>2 DEF EmFields
<1>4. f.changed = e.changed \union (lines \intersect (0..FlagSize(e) - 1))
  BY <1>1, <1>2 DEF EmFields
<1> QED
  BY <1>3, <1>4 DEF Moved

\* A screen is put that differs in lines that are flagged.
LEMMA SetScreenKept ==
    ASSUME NEW e, IsEm(e), NEW s, IsScreen(s, e.rows), NEW lines,
           s.cols = Screen(e).cols,
           \A r \in 0..e.rows - 1 : r \notin lines => s.lines[r + 1] = Screen(e).lines[r + 1]
    PROVE  KeptElseFlagged(e, SetScreen(e, s, lines))
<1> DEFINE g == [e EXCEPT !.screens[e.on] = s]
           f == SetScreen(e, s, lines)
<1>1. /\ DOMAIN e = EmFields /\ e.rows \in Nat /\ e.cols \in Nat /\ e.on \in {1, 2}
      /\ DOMAIN e.screens = {1, 2}
      /\ \A k \in {1, 2} : IsScreen(e.screens[k], e.rows) /\ e.screens[k].cols = e.cols
      /\ s.cols = e.cols
  BY EmFacts DEF IsEm
<1>2. /\ DOMAIN g = EmFields /\ g.rows = e.rows /\ g.cols = e.cols /\ g.on = e.on /\ g.changed = e.changed
      /\ g.screens = [e.screens EXCEPT ![e.on] = s]
  BY <1>1 DEF EmFields
<1>3. /\ DOMAIN g.screens = {1, 2} /\ g.screens[e.on] = s
      /\ \A k \in {1, 2} : IsScreen(g.screens[k], e.rows) /\ g.screens[k].cols = e.cols
  BY <1>1, <1>2
<1>4. IsEm(g)
  BY <1>1, <1>2, <1>3 DEF IsEm
<1>5. f = Flag(g, lines)
  BY DEF SetScreen
<1> HIDE DEF g, f
<1>6. /\ DOMAIN f = EmFields /\ f.screens = g.screens /\ f.on = g.on /\ f.rows = g.rows
      /\ f.cols = g.cols
      /\ f.changed = g.changed \union (lines \intersect (0..FlagSize(g) - 1))
  BY <1>4, <1>5, FlagIs
<1>7. IsEm(f)
  BY <1>4, <1>6 DEF IsEm
<1>8. ASSUME NEW r \in 0..e.rows - 1, r \notin f.changed
      PROVE  r \notin e.changed /\ ShownLine(f, 0, r) = ShownLine(e, 0, r)
  <2>1. r \in 0..FlagSize(g) - 1
    BY <1>2, <1>4, FlagSizes
  <2>2. r \notin e.changed /\ r \notin lines
    BY <1>2, <1>6, <1>8, <2>1
  <2>3. Screen(f) = s
    BY <1>2, <1>3, <1>6 DEF Screen
  <2>4. InUse(s, r) = InUse(Screen(e), r)
    BY <2>2 DEF InUse
  <2>5. r \in 0..f.rows - 1
    BY <1>2, <1>6
  <2> QED  BY <1>7, <2>2, <2>3, <2>4, <2>5, EmFacts
<1> QED
  BY <1>2, <1>6, <1>7, <1>8 DEF KeptElseFlagged, f

-----------------------------------------------------------------------------
(* Steps that leave the lines as they are.                                 *)

LEMMA FlagKept ==
    ASSUME NEW e, NEW f, KeptElseFlagged(e, f), NEW lines
    PROVE  KeptElseFlagged(e, Flag(f, lines))
<1>1. IsEm(f)
  BY DEF KeptElseFlagged
<1>2. Moved(f, Flag(f, lines))
  BY <1>1, FlagIs
<1>3. KeptElseFlagged(f, Flag(f, lines))
  BY <1>1, <1>2, MovedKept
<1> QED
  BY <1>3, KeptTrans

LEMMA ChangedKept ==
    ASSUME NEW e, NEW f, KeptElseFlagged(e, f)
    PROVE  KeptElseFlagged(e, Changed(f))
BY FlagKept DEF Changed

LEMMA CursorKept ==
    ASSUME NEW e, NEW f, KeptElseFlagged(e, f), NEW x, NEW y
    PROVE  /\ KeptElseFlagged(e, [f EXCEPT !.row = x])
           /\ KeptElseFlagged(e, [f EXCEPT !.col = x])
           /\ KeptElseFlagged(e, [f EXCEPT !.row = x, !.col = y])
<1>1. IsEm(f) /\ DOMAIN f = EmFields
  BY DEF KeptElseFlagged, IsEm
<1>2. ASSUME NEW g, Moved(f, g)
      PROVE  KeptElseFlagged(e, g)
  BY <1>1, <1>2, MovedKept, KeptTrans
<1>3. Moved(f, [f EXCEPT !.row = x])
  BY <1>1 DEF Moved, EmFields
<1>4. Moved(f, [f EXCEPT !.col = x])
  BY <1>1 DEF Moved, EmFields
<1>5. Moved(f, [f EXCEPT !.row = x, !.col = y])
  BY <1>1 DEF Moved, EmFields
<1> QED
  BY <1>2, <1>3, <1>4, <1>5

LEMMA ColKept ==
    ASSUME NEW e, NEW f, KeptElseFlagged(e, f), NEW x, NEW g, g = [f EXCEPT !.col = x]
    PROVE  KeptElseFlagged(e, g)
BY CursorKept

LEMMA ModeKept ==
    ASSUME NEW e, NEW f, KeptElseFlagged(e, f), NEW x, NEW y
    PROVE  /\ KeptElseFlagged(e, [f EXCEPT !.saved = x])
           /\ KeptElseFlagged(e, [f EXCEPT !.wrap = x])
           /\ KeptElseFlagged(e, [f EXCEPT !.top = x, !.bottom = y])
<1>1. IsEm(f) /\ DOMAIN f = EmFields
  BY DEF KeptElseFlagged, IsEm
<1>2. ASSUME NEW g, Moved(f, g)
      PROVE  KeptElseFlagged(e, g)
  BY <1>1, <1>2, MovedKept, KeptTrans
<1>3. Moved(f, [f EXCEPT !.saved = x])
  BY <1>1 DEF Moved, EmFields
<1>4. Moved(f, [f EXCEPT !.wrap = x])
  BY <1>1 DEF Moved, EmFields
<1>5. Moved(f, [f EXCEPT !.top = x, !.bottom = y])
  BY <1>1 DEF Moved, EmFields
<1> QED
  BY <1>2, <1>3, <1>4, <1>5

LEMMA CRKept == ASSUME NEW e, NEW f, KeptElseFlagged(e, f) PROVE KeptElseFlagged(e, CR(f))
<1>1. KeptElseFlagged(e, [f EXCEPT !.col = 0])
  BY CursorKept
<1> QED
  BY <1>1, ChangedKept DEF CR

LEMMA BSKept == ASSUME NEW e, NEW f, KeptElseFlagged(e, f) PROVE KeptElseFlagged(e, BS(f))
<1>1. KeptElseFlagged(e, [f EXCEPT !.col = f.col - 1])
  BY CursorKept
<1> QED
  BY <1>1, ChangedKept DEF BS

LEMMA SetCursorKept ==
    ASSUME NEW e, NEW f, KeptElseFlagged(e, f), NEW r, NEW c
    PROVE  KeptElseFlagged(e, SetCursor(f, r, c)) /\ KeptElseFlagged(e, IncCursor(f, r, c))
<1>1. ASSUME NEW x, NEW y
      PROVE  KeptElseFlagged(e, Changed([Changed(f) EXCEPT !.row = x, !.col = y]))
  <2>1. KeptElseFlagged(e, Changed(f))
    BY ChangedKept
  <2>2. KeptElseFlagged(e, [Changed(f) EXCEPT !.row = x, !.col = y])
    BY <2>1, CursorKept
  <2> QED  BY <2>2, ChangedKept
<1>2. ASSUME NEW x, NEW y
      PROVE  KeptElseFlagged(e, SetCursor(f, x, y))
  BY <1>1 DEF SetCursor
<1> QED
  BY <1>2 DEF IncCursor

LEMMA SavedCursorKept ==
    ASSUME NEW e, NEW f, KeptElseFlagged(e, f)
    PROVE  KeptElseFlagged(e, SaveCursor(f)) /\ KeptElseFlagged(e, RestoreCursor(f))
<1>1. KeptElseFlagged(e, SaveCursor(f))
  BY ModeKept DEF SaveCursor
<1>2. ASSUME NEW x, NEW y
      PROVE  KeptElseFlagged(e, Changed([Changed(f) EXCEPT !.row = x, !.col = y]))
  <2>1. KeptElseFlagged(e, Changed(f))
    BY ChangedKept
  <2>2. KeptElseFlagged(e, [Changed(f) EXCEPT !.row = x, !.col = y])
    BY <2>1, CursorKept
  <2> QED  BY <2>2, ChangedKept
<1>3. KeptElseFlagged(e, RestoreCursor(f))
  BY <1>2 DEF RestoreCursor
<1> QED
  BY <1>1, <1>3

LEMMA SetRegionKept ==
    ASSUME NEW e, NEW f, KeptElseFlagged(e, f), NEW t, NEW b
    PROVE  KeptElseFlagged(e, SetRegion(f, t, b))
BY ModeKept DEF SetRegion

-----------------------------------------------------------------------------
(* Steps that change lines and flag them.                                  *)

LEMMA DrawnKept ==
    ASSUME NEW e, NEW f, KeptElseFlagged(e, f), NEW s, IsScreen(s, f.rows), NEW lines,
           s.cols = Screen(f).cols,
           \A r \in 0..f.rows - 1 : r \notin lines => s.lines[r + 1] = Screen(f).lines[r + 1]
    PROVE  KeptElseFlagged(e, SetScreen(f, s, lines))
<1>1. IsEm(f)
  BY DEF KeptElseFlagged
<1>2. KeptElseFlagged(f, SetScreen(f, s, lines))
  BY <1>1, SetScreenKept
<1> QED
  BY <1>2, KeptTrans

\* The lines of the screen are replaced, those that are not flagged by themselves.
LEMMA LinesKept ==
    ASSUME NEW e, NEW f, KeptElseFlagged(e, f), NEW l, NEW lines, NEW t,
           l = [k \in DOMAIN Screen(f).lines |-> l[k]], t = [Screen(f) EXCEPT !.lines = l],
           \A r \in 0..f.rows - 1 : r \notin lines => l[r + 1] = Screen(f).lines[r + 1]
    PROVE  KeptElseFlagged(e, SetScreen(f, t, lines))
<1>1. f.rows \in Nat /\ IsScreen(Screen(f), f.rows)
  BY EmFacts DEF KeptElseFlagged
<1>2. IsScreen(t, f.rows) /\ t.cols = Screen(f).cols /\ t.lines = l
  BY <1>1, LinesPut
<1> QED
  BY <1>2, DrawnKept

LEMMA OneLineKept ==
    ASSUME NEW e, NEW f, KeptElseFlagged(e, f), NEW n \in 0..Screen(f).rows - 1, NEW x, NEW t,
           t = [Screen(f) EXCEPT !.lines[n + 1] = x]
    PROVE  KeptElseFlagged(e, SetScreen(f, t, {n}))
<1> DEFINE s == Screen(f)
           l == [s.lines EXCEPT ![n + 1] = x]
<1>1. f.rows \in Nat /\ IsScreen(s, f.rows)
  BY EmFacts DEF KeptElseFlagged
<1>2. \A r \in 0..f.rows - 1 : r + 1 \in DOMAIN s.lines
  BY <1>1, ScreenFacts
<1>3. s.rows \in Nat /\ DOMAIN s = {"rows", "cols", "lines"}
  BY <1>1 DEF IsScreen
<1>4. ASSUME NEW r \in 0..f.rows - 1, r \notin {n}
      PROVE  l[r + 1] = s.lines[r + 1]
  <2>1. r + 1 # n + 1
    BY <1>1, <1>3, <1>4
  <2> QED  BY <1>2, <2>1
<1>5. t = [s EXCEPT !.lines = l]
  BY <1>3
<1>6. l = [k \in DOMAIN s.lines |-> l[k]]
  OBVIOUS
<1> HIDE DEF l
<1> QED
  BY <1>4, <1>5, <1>6, LinesKept

LEMMA SelfKept ==
    ASSUME NEW e, NEW f, KeptElseFlagged(e, f), NEW lines
    PROVE  KeptElseFlagged(e, SetScreen(f, Screen(f), lines))
<1>1. f.rows \in Nat /\ IsScreen(Screen(f), f.rows)
  BY EmFacts DEF KeptElseFlagged
<1> QED
  BY <1>1, DrawnKept

LEMMA PutKept ==
    ASSUME NEW e, NEW f, KeptElseFlagged(e, f), NEW n, NEW c, NEW count, NEW ch
    PROVE  KeptElseFlagged(e, Put(f, n, c, count, ch))
<1> DEFINE s == Screen(f)
           x == FillLine(s.lines[n + 1], c, AtMost(c + count, s.cols), ch)
           t == [s EXCEPT !.lines[n + 1] = x]
<1>1. CASE HasCell(s, n, c)
  <2>1. n \in 0..s.rows - 1
    BY <1>1 DEF HasCell
  <2>2. Put(f, n, c, count, ch) = SetScreen(f, t, {n})
    BY <1>1 DEF Put, SetLineChar
  <2> HIDE DEF t, x
  <2>3. KeptElseFlagged(e, SetScreen(f, t, {n}))
    BY <2>1, OneLineKept DEF t
  <2> QED  BY <2>2, <2>3
<1>2. CASE ~HasCell(s, n, c)
  BY <1>2, SelfKept DEF Put, SetLineChar
<1> QED
  BY <1>1, <1>2

LEMMA DeleteCharsKept ==
    ASSUME NEW e, NEW f, KeptElseFlagged(e, f), NEW n
    PROVE  KeptElseFlagged(e, DeleteChars(f, n)) /\ KeptElseFlagged(e, EraseChars(f, n))
<1> DEFINE s == Screen(f)
           m == CursorLine(f)
           cut == AtMost(n, s.cols - f.col)
           x == [k \in DOMAIN s.lines[m + 1] |->
                    IF k <= f.col \/ k > s.cols THEN s.lines[m + 1][k]
                    ELSE IF k <= s.cols - cut THEN s.lines[m + 1][k + cut] ELSE Blank]
           t == [s EXCEPT !.lines[m + 1] = x]
<1>1. CASE HasCell(s, m, f.col)
  <2>1. m \in 0..s.rows - 1
    BY <1>1 DEF HasCell
  <2>2. DeleteChars(f, n) = SetScreen(f, t, {m})
    BY <1>1 DEF DeleteChars, DeleteLineChar
  <2> HIDE DEF t, x
  <2>3. KeptElseFlagged(e, SetScreen(f, t, {m}))
    BY <2>1, OneLineKept DEF t
  <2> QED  BY <2>2, <2>3, PutKept DEF EraseChars
<1>2. CASE ~HasCell(s, m, f.col)
  BY <1>2, SelfKept, PutKept DEF DeleteChars, DeleteLineChar, EraseChars
<1> QED
  BY <1>1, <1>2

LEMMA EraseLineKept ==
    ASSUME NEW e, NEW f, KeptElseFlagged(e, f), NEW mode
    PROVE  KeptElseFlagged(e, EraseLine(f, mode))
BY PutKept DEF EraseLine

LEMMA ScrollKept ==
    ASSUME NEW e, NEW f, KeptElseFlagged(e, f), NEW a, NEW b, NEW n, NEW up
    PROVE  KeptElseFlagged(e, ScrollLines(f, a, b, n, up))
<1> DEFINE s == Screen(f)
           lines == ScrolledLines(s, a, b)
           t == Scrolled(s, a, b, n, up)
           l == t.lines
<1>1. f.rows \in Nat /\ IsScreen(s, f.rows)
  BY EmFacts DEF KeptElseFlagged
<1>2. DOMAIN s = {"rows", "cols", "lines"}
  BY <1>1 DEF IsScreen
<1>3. \A r \in 0..f.rows - 1 : r + 1 \in DOMAIN s.lines
  BY <1>1, ScreenFacts
<1>4. t = [s EXCEPT !.lines = l] /\ l = [k \in DOMAIN s.lines |-> l[k]]
  BY <1>2 DEF Scrolled
<1>5. \A k \in DOMAIN s.lines : k - 1 \notin lines => l[k] = s.lines[k]
  BY <1>2 DEF Scrolled, ScrolledLines
<1>6. ASSUME NEW r \in 0..f.rows - 1, r \notin lines
      PROVE  l[r + 1] = s.lines[r + 1]
  <2>1. r + 1 \in DOMAIN s.lines /\ (r + 1) - 1 = r
    BY <1>1, <1>3
  <2> QED  BY <1>5, <1>6, <2>1
<1> HIDE DEF l, t, lines
<1>7. KeptElseFlagged(e, SetScreen(f, t, lines))
  BY <1>4, <1>6, LinesKept
<1> QED
  BY <1>7 DEF ScrollLines, t, lines

LEMMA BlankLinesKept ==
    ASSUME NEW e, NEW f, KeptElseFlagged(e, f), NEW from, NEW to
    PROVE  KeptElseFlagged(e, BlankLines(f, from, to))
<1> DEFINE s == Screen(f)
           lines == {n \in from..to : HasCell(s, n, 0)}
           l == [k \in DOMAIN s.lines |->
                    IF k - 1 \in from..to /\ HasCell(s, k - 1, 0)
                    THEN FillLine(s.lines[k], 0, s.cols, Blank) ELSE s.lines[k]]
           t == [s EXCEPT !.lines = l]
<1>1. f.rows \in Nat /\ IsScreen(s, f.rows)
  BY EmFacts DEF KeptElseFlagged
<1>2. DOMAIN s = {"rows", "cols", "lines"}
  BY <1>1 DEF IsScreen
<1>3. \A r \in 0..f.rows - 1 : r + 1 \in DOMAIN s.lines
  BY <1>1, ScreenFacts
<1>4. l = [k \in DOMAIN s.lines |-> l[k]]
  OBVIOUS
<1>5. ASSUME NEW r \in 0..f.rows - 1, r \notin lines
      PROVE  l[r + 1] = s.lines[r + 1]
  <2>1. r + 1 \in DOMAIN s.lines /\ (r + 1) - 1 = r
    BY <1>1, <1>3
  <2> QED  BY <1>5, <2>1
<1>6. BlankLines(f, from, to) = SetScreen(f, t, lines)
  BY DEF BlankLines
<1> HIDE DEF l, lines
<1>7. KeptElseFlagged(e, SetScreen(f, t, lines))
  BY <1>4, <1>5, LinesKept
<1> QED
  BY <1>6, <1>7

LEMMA EraseDispKept ==
    ASSUME NEW e, NEW f, KeptElseFlagged(e, f), NEW mode \in 0..2
    PROVE  KeptElseFlagged(e, EraseDisp(f, mode))
<1>1. mode = 0 \/ mode = 1 \/ mode = 2
  OBVIOUS
<1> QED
  BY <1>1, BlankLinesKept DEF EraseDisp

LEMMA LFKept ==
    ASSUME NEW e, NEW f, KeptElseFlagged(e, f)
    PROVE  KeptElseFlagged(e, LF(f)) /\ KeptElseFlagged(e, RI(f)) /\ KeptElseFlagged(e, LF(CR(f)))
<1>1. ASSUME NEW g, KeptElseFlagged(e, g), NEW x
      PROVE  KeptElseFlagged(e, Changed([Changed(g) EXCEPT !.row = x]))
  <2>1. KeptElseFlagged(e, Changed(g))
    BY <1>1, ChangedKept
  <2>2. KeptElseFlagged(e, [Changed(g) EXCEPT !.row = x])
    BY <2>1, CursorKept
  <2> QED  BY <2>2, ChangedKept
<1>2. ASSUME NEW g, KeptElseFlagged(e, g)
      PROVE  KeptElseFlagged(e, LF(g))
  <2>1. KeptElseFlagged(e, Scroll(g, 1, TRUE))
    BY <1>2, ScrollKept DEF Scroll
  <2> QED  BY <1>1, <1>2, <2>1 DEF LF
<1>3. KeptElseFlagged(e, RI(f))
  <2>1. KeptElseFlagged(e, Scroll(f, 1, FALSE))
    BY ScrollKept DEF Scroll
  <2> QED  BY <1>1, <2>1 DEF RI
<1> QED
  BY <1>2, <1>3, CRKept

LEMMA PrintCharKept ==
    ASSUME NEW e, NEW f, KeptElseFlagged(e, f), NEW ch
    PROVE  KeptElseFlagged(e, PrintChar(f, ch)) /\ KeptElseFlagged(e, AddUnicode(f, ch)) /\ KeptElseFlagged(e, Tab(f))
<1>1. KeptElseFlagged(e, AddUnicode(f, ch))
  <2> DEFINE g == IF f.col >= f.cols THEN LF(CR(f)) ELSE f
  <2>1. KeptElseFlagged(e, g)
    BY LFKept
  <2> DEFINE put == Put(g, CursorLine(g), g.col, 1, ch)
             col == AtMost(put.col + 1, AtLeast(put.col, g.cols))
  <2>2. AddUnicode(f, ch) = [put EXCEPT !.col = col]
    BY DEF AddUnicode
  <2> HIDE DEF g
  <2>3. KeptElseFlagged(e, put)
    BY <2>1, PutKept
  <2> HIDE DEF put, col
  <2> QED  BY <2>2, <2>3, ColKept
<1>2. KeptElseFlagged(e, Tab(f))
  <2> DEFINE pos == ((f.col + TabSize) \div TabSize) * TabSize
             put == Put(f, CursorLine(f), f.col, f.cols - f.col, Blank)
             wrapped == LF(put)
             col == IF f.col > 0 THEN pos % f.col ELSE 0
  <2>1. KeptElseFlagged(e, wrapped)
    BY PutKept, LFKept
  <2>2. KeptElseFlagged(e, Changed(f))
    BY ChangedKept
  <2> DEFINE here == Put(Changed(f), CursorLine(f), f.col, pos - f.col, Blank)
             there == Put(wrapped, CursorLine(wrapped), 0, col, Blank)
  <2>3. \/ Tab(f) = [here EXCEPT !.col = pos]
        \/ Tab(f) = [there EXCEPT !.col = col]
        \/ Tab(f) = f
    BY DEF Tab
  <2> HIDE DEF pos, put, wrapped, col
  <2>4. KeptElseFlagged(e, here)
    BY <2>2, PutKept
  <2>5. KeptElseFlagged(e, there)
    BY <2>1, PutKept
  <2> HIDE DEF here, there
  <2> QED  BY <2>1, <2>3, <2>4, <2>5, ColKept
<1> QED
  BY <1>1, <1>2, LFKept DEF PrintChar

\* h[k] is the emulator after the first k characters.
Prints(h, e, text) == h[0] = e /\ \A k \in 1..Len(text) : h[k] = PrintChar(h[k - 1], text[k])

LEMMA InternalPrintIs ==
    ASSUME NEW e, NEW text, Len(text) \in Nat
    PROVE  \E h : Prints(h, e, text) /\ InternalPrint(e, text) = h[Len(text)]
<1> DEFINE n == Len(text)
           F(x, m) == [k \in 0..m |-> IF k = 0 THEN e ELSE PrintChar(x[k - 1], text[k])]
           h == CHOOSE p : p = F(p, Len(text))
           wrong == {m \in 0..n : ~\E f : f = F(f, m)}
<1>1. InternalPrint(e, text) = h[n]
  BY DEF InternalPrint
<1>2. wrong = {}
  <2> SUFFICES ASSUME wrong # {}
               PROVE  FALSE
    OBVIOUS
  <2>1. wrong \subseteq Nat
    OBVIOUS
  <2> HIDE DEF F
  <2>2. PICK m \in wrong : \A k \in wrong : m <= k
    BY <2>1, LeastNumber
  <2>3. m \in 0..n /\ ~\E f : f = F(f, m)
    BY <2>2
  <2>4. CASE m = 0
    <3> DEFINE f == [k \in 0..0 |-> e]
    <3>1. f = F(f, 0)
      BY DEF F
    <3> QED  BY <2>3, <2>4, <3>1
  <2>5. CASE m # 0
    <3>1. m - 1 \in 0..n /\ ~(m <= m - 1)
      BY <2>3, <2>5
    <3>2. m - 1 \notin wrong
      BY <2>2, <3>1
    <3>3. PICK f : f = F(f, m - 1)
      BY <3>1, <3>2
    <3> DEFINE g == [k \in 0..m |-> IF k = m THEN PrintChar(f[m - 1], text[m]) ELSE f[k]]
    <3>4. \A k \in 0..m - 1 : f[k] = IF k = 0 THEN e ELSE PrintChar(f[k - 1], text[k])
      BY <3>3 DEF F
    <3>5. ASSUME NEW k \in 0..m
          PROVE  g[k] = IF k = 0 THEN e ELSE PrintChar(g[k - 1], text[k])
      <4>1. CASE k = m
        <5>1. k - 1 = m - 1 /\ k - 1 \in 0..m /\ k - 1 # m
          BY <2>3, <2>5, <4>1
        <5>2. g[k - 1] = f[m - 1] /\ g[k] = PrintChar(f[m - 1], text[m])
          BY <4>1, <5>1
        <5> QED  BY <2>5, <4>1, <5>2
      <4>2. CASE k # m /\ k # 0
        <5>1. k \in 0..m - 1 /\ k - 1 \in 0..m /\ k - 1 # m
          BY <2>3, <2>5, <4>2
        <5>2. g[k - 1] = f[k - 1] /\ g[k] = f[k]
          BY <4>2, <5>1
        <5> QED  BY <3>4, <4>2, <5>1, <5>2
      <4>3. CASE k = 0
        <5>1. 0 \in 0..m - 1 /\ 0 # m
          BY <2>3, <2>5
        <5>2. g[0] = f[0]
          BY <4>3, <5>1
        <5> QED  BY <3>4, <4>3, <5>1, <5>2
      <4> QED  BY <4>1, <4>2, <4>3
    <3>6. g = [k \in 0..m |-> g[k]]
      OBVIOUS
    <3> HIDE DEF g
    <3>7. g = F(g, m)
      BY <3>5, <3>6 DEF F
    <3> QED  BY <2>3, <3>7
  <2> QED  BY <2>4, <2>5
<1>3. h = F(h, n)
  <2>1. n \in 0..n
    OBVIOUS
  <2> HIDE DEF F
  <2>2. \E f : f = F(f, n)
    BY <1>2, <2>1
  <2> QED  BY <2>2
<1>4. Prints(h, e, text)
  <2> HIDE DEF h
  <2>1. \A k \in 0..n : h[k] = IF k = 0 THEN e ELSE PrintChar(h[k - 1], text[k])
    BY <1>3
  <2>2. 0 \in 0..n /\ \A k \in 1..n : k \in 0..n /\ k # 0
    OBVIOUS
  <2> QED  BY <2>1, <2>2 DEF Prints
<1> HIDE DEF h
<1> QED
  BY <1>1, <1>4

LEMMA PrintsKept ==
    ASSUME NEW e, NEW h, NEW x, NEW text, Len(text) \in Nat, Prints(h, x, text),
           NEW m \in 0..Len(text), KeptElseFlagged(e, h[m])
    PROVE  KeptElseFlagged(e, h[Len(text)])
<1> DEFINE n == Len(text)
           wrong == {k \in m..n : ~KeptElseFlagged(e, h[k])}
<1>1. wrong = {}
  <2> SUFFICES ASSUME wrong # {}
               PROVE  FALSE
    OBVIOUS
  <2>1. wrong \subseteq Nat
    OBVIOUS
  <2>2. PICK k \in wrong : \A j \in wrong : k <= j
    BY <2>1, LeastNumber
  <2>3. k \in m..n /\ ~KeptElseFlagged(e, h[k]) /\ k # m
    BY <2>2
  <2>4. k - 1 \in m..n /\ k \in 1..n /\ ~(k <= k - 1)
    BY <2>3
  <2>5. KeptElseFlagged(e, h[k - 1])
    BY <2>2, <2>4
  <2>6. h[k] = PrintChar(h[k - 1], text[k])
    BY <2>4 DEF Prints
  <2> QED  BY <2>3, <2>5, <2>6, PrintCharKept
<1>2. n \in m..n
  OBVIOUS
<1> QED
  BY <1>1, <1>2

-----------------------------------------------------------------------------
(* Steps after which all lines are flagged.                                *)

Flagged(f, rows, cols) ==
    /\ IsEm(f) /\ f.rows = rows /\ f.cols = cols /\ \A r \in 0..rows - 1 : r \in f.changed

LEMMA FlagAllIs ==
    ASSUME NEW e, IsEm(e)
    PROVE  Flagged(FlagAll(e), e.rows, e.cols)
<1> DEFINE f == FlagAll(e)
           all == 0..FlagSize(e) - 1
<1>1. f = Flag(e, all)
  BY DEF FlagAll
<1> HIDE DEF f
<1>2. Moved(e, f) /\ \A r \in all : r \in f.changed
  <2>1. f.changed = e.changed \union (all \intersect (0..FlagSize(e) - 1)) /\ Moved(e, f)
    <3> HIDE DEF all
    <3> QED  BY <1>1, FlagIs
  <2> QED  BY <2>1
<1>3. IsEm(f) /\ f.rows = e.rows /\ f.cols = e.cols
  BY <1>2, MovedKept DEF KeptElseFlagged
<1> QED
  BY <1>2, <1>3, FlagSizes DEF Flagged, f

LEMMA FlaggedFrom ==
    ASSUME NEW e, NEW f, Flagged(f, e.rows, e.cols)
    PROVE  KeptElseFlagged(e, f)
BY DEF Flagged, KeptElseFlagged

LEMMA SelectKept ==
    ASSUME NEW e, IsEm(e), NEW n \in {1, 2}
    PROVE  Flagged(Select(e, n), e.rows, e.cols)
<1> DEFINE f == [e EXCEPT !.on = n]
<1>1. DOMAIN e = EmFields
  BY EmFacts
<1>2. IsEm(f) /\ f.rows = e.rows /\ f.cols = e.cols
  BY <1>1 DEF IsEm, EmFields
<1>3. Select(e, n) = FlagAll(f)
  BY DEF Select
<1> HIDE DEF f
<1> QED
  BY <1>2, <1>3, FlagAllIs

LEMMA ClearScreenIs ==
    ASSUME NEW s, NEW n \in Nat, IsScreen(s, n)
    PROVE  IsScreen(ClearScreen(s), n) /\ ClearScreen(s).cols = s.cols
<1> DEFINE l == [k \in DOMAIN s.lines |->
                    IF k <= s.rows THEN BlankLine(Len(s.lines[k])) ELSE s.lines[k]]
           t == [s EXCEPT !.lines = l]
<1>1. ClearScreen(s) = t
  BY DEF ClearScreen
<1>2. l = [k \in DOMAIN s.lines |-> l[k]]
  OBVIOUS
<1> HIDE DEF l
<1>3. IsScreen(t, n) /\ t.cols = s.cols
  BY <1>2, LinesPut
<1> QED
  BY <1>1, <1>3

LEMMA ScreensKept ==
    ASSUME NEW e, NEW f, KeptElseFlagged(e, f), NEW save \in BOOLEAN
    PROVE  KeptElseFlagged(e, SecondScreen(f, save)) /\ KeptElseFlagged(e, FirstScreen(f, save))
<1>1. IsEm(f) /\ f.rows = e.rows /\ f.cols = e.cols
  BY DEF KeptElseFlagged
<1> DEFINE c == SaveCursor(f)
           g == [c EXCEPT !.screens[2] = ClearScreen(@)]
<1>2. KeptElseFlagged(e, c)
  BY SavedCursorKept
<1>3. IsEm(c) /\ c.rows = e.rows /\ c.cols = e.cols
  BY <1>2 DEF KeptElseFlagged
<1> HIDE DEF c
<1>4. IsEm(g) /\ g.rows = e.rows /\ g.cols = e.cols
  <2>1. /\ DOMAIN c = EmFields /\ c.rows \in Nat /\ DOMAIN c.screens = {1, 2}
        /\ IsScreen(c.screens[1], c.rows) /\ IsScreen(c.screens[2], c.rows)
        /\ c.screens[1].cols = c.cols /\ c.screens[2].cols = c.cols
    BY <1>3 DEF IsEm
  <2>2. IsScreen(ClearScreen(c.screens[2]), c.rows) /\ ClearScreen(c.screens[2]).cols = c.cols
    BY <2>1, ClearScreenIs
  <2>3. /\ DOMAIN g = EmFields /\ g.rows = c.rows /\ g.cols = c.cols /\ g.on = c.on
        /\ g.screens = [c.screens EXCEPT ![2] = ClearScreen(c.screens[2])]
    BY <2>1 DEF EmFields
  <2>4. DOMAIN g.screens = {1, 2} /\ g.screens[1] = c.screens[1]
        /\ g.screens[2] = ClearScreen(c.screens[2])
    BY <2>1, <2>3
  <2>5. \A k \in {1, 2} : IsScreen(g.screens[k], g.rows) /\ g.screens[k].cols = g.cols
    BY <2>1, <2>2, <2>3, <2>4
  <2> QED  BY <1>3, <2>3, <2>4, <2>5 DEF IsEm
<1>5. SecondScreen(f, save) = Select(IF save THEN g ELSE f, 2)
  BY DEF SecondScreen, c
<1> HIDE DEF g
<1>6. KeptElseFlagged(e, SecondScreen(f, save))
  <2>1. CASE save
    <3>1. Flagged(Select(g, 2), e.rows, e.cols)
      BY <1>4, SelectKept
    <3> QED  BY <1>5, <2>1, <3>1, FlaggedFrom
  <2>2. CASE ~save
    <3>1. Flagged(Select(f, 2), e.rows, e.cols)
      BY <1>1, SelectKept
    <3> QED  BY <1>5, <2>2, <3>1, FlaggedFrom
  <2> QED  BY <2>1, <2>2
<1>7. KeptElseFlagged(e, FirstScreen(f, save))
  <2> DEFINE r == IF save THEN RestoreCursor(f) ELSE f
  <2>1. KeptElseFlagged(e, r)
    BY SavedCursorKept
  <2>2. IsEm(r) /\ r.rows = e.rows /\ r.cols = e.cols
    BY <2>1 DEF KeptElseFlagged
  <2>3. FirstScreen(f, save) = Select(r, 1)
    BY DEF FirstScreen
  <2> HIDE DEF r
  <2>4. Flagged(Select(r, 1), e.rows, e.cols)
    BY <2>2, SelectKept
  <2> QED  BY <2>3, <2>4, FlaggedFrom
<1> QED
  BY <1>6, <1>7

LEMMA ResetStateIs ==
    ASSUME NEW e, IsEm(e), NEW g, g = ResetState(e)
    PROVE  /\ IsEm(g) /\ g.rows = e.rows /\ g.cols = e.cols /\ g.changed = e.changed
           /\ g.top = 0 /\ g.bottom = e.rows - 1 /\ g.wrap = TRUE /\ g.screens = e.screens
<1>1. DOMAIN e = EmFields
  BY EmFacts
<1>2. g = [e EXCEPT !.top = 0, !.bottom = e.rows - 1, !.on = 1, !.wrap = TRUE]
  BY DEF ResetState
<1>3. /\ DOMAIN g = EmFields /\ g.rows = e.rows /\ g.cols = e.cols /\ g.changed = e.changed
      /\ g.top = 0 /\ g.bottom = e.rows - 1 /\ g.wrap = TRUE /\ g.screens = e.screens
      /\ g.on = 1
  BY <1>1, <1>2 DEF EmFields
<1> QED
  BY <1>3 DEF IsEm

\* The lines that are put are flagged.
LEMMA SetScreenFlags ==
    ASSUME NEW e, IsEm(e), NEW s, NEW lines, NEW r \in 0..e.rows - 1, r \in lines
    PROVE  r \in SetScreen(e, s, lines).changed
<1> DEFINE g == [e EXCEPT !.screens[e.on] = s]
<1>1. DOMAIN e = EmFields
  BY EmFacts
<1>2. DOMAIN g = EmFields /\ g.rows = e.rows /\ g.changed = e.changed
  BY <1>1 DEF EmFields
<1>3. SetScreen(e, s, lines) = Flag(g, lines)
  BY DEF SetScreen
<1> HIDE DEF g
<1>4. Flag(g, lines).changed = g.changed \union (lines \intersect (0..FlagSize(g) - 1))
  BY <1>2 DEF Flag, EmFields
<1>5. r \in 0..FlagSize(g) - 1
  <2>1. r \in 0..FlagSize(e) - 1
    BY FlagSizes
  <2> QED  BY <1>2, <2>1 DEF FlagSize
<1> QED
  BY <1>3, <1>4, <1>5

LEMMA SoftResetKept ==
    ASSUME NEW e, IsEm(e)
    PROVE  KeptElseFlagged(e, SoftReset(e))
<1> DEFINE g == ResetState(e)
           d == SoftReset(e)
           lines == {n \in 0..g.rows - 1 : HasCell(Screen(g), n, 0)}
<1>1. IsEm(g) /\ g.rows = e.rows /\ g.cols = e.cols /\ g.changed = e.changed
  BY ResetStateIs
<1> HIDE DEF g
<1>2. d = BlankLines(g, 0, g.rows - 1)
  BY DEF SoftReset, EraseDisp, g
<1> HIDE DEF d
<1>3. KeptElseFlagged(g, d)
  BY <1>1, <1>2, KeptSelf, BlankLinesKept
<1>4. IsEm(d) /\ d.rows = e.rows /\ d.cols = e.cols /\ e.rows \in Nat /\ e.cols \in Nat
  BY <1>1, <1>3, EmFacts DEF KeptElseFlagged
<1>5. ASSUME NEW r \in 0..e.rows - 1, r \notin d.changed
      PROVE  r \notin e.changed /\ ShownLine(d, 0, r) = ShownLine(e, 0, r)
  <2>1. r \notin e.changed
    BY <1>1, <1>3, <1>5 DEF KeptElseFlagged
  <2>2. CASE e.cols = 0
    <3>1. ShownLine(d, 0, r) = InUse(Screen(d), r) /\ Screen(d).cols = 0
      BY <1>4, <2>2, EmFacts
    <3>2. ShownLine(e, 0, r) = InUse(Screen(e), r) /\ Screen(e).cols = 0
      BY <1>4, <2>2, EmFacts
    <3>3. \A l : SubSeq(l, 1, 0) = <<>>
      BY SubSeqEmpty
    <3>4. InUse(Screen(d), r) = <<>> /\ InUse(Screen(e), r) = <<>>
      BY <3>1, <3>2, <3>3 DEF InUse
    <3> QED  BY <2>1, <3>1, <3>2, <3>4
  <2>3. CASE e.cols # 0
    <3>1. HasCell(Screen(g), r, 0)
      <4>1. Screen(g).cols = e.cols /\ IsScreen(Screen(g), e.rows) /\ 0 \in 0..e.cols - 1
        BY <1>1, <1>4, <2>3, EmFacts
      <4>2. r \in 0..Screen(g).rows - 1
        <5>1. Screen(g).rows \in Nat /\ Screen(g).rows >= e.rows
          BY <1>4, <4>1, ScreenFacts
        <5> QED  BY <1>4, <5>1
      <4> QED  BY <4>1, <4>2 DEF HasCell
    <3>2. r \in lines
      BY <1>1, <3>1
    <3>3. \E s : d = SetScreen(g, s, lines)
      BY <1>2 DEF BlankLines
    <3> HIDE DEF lines
    <3>4. r \in 0..g.rows - 1
      BY <1>1
    <3>5. r \in d.changed
      BY <1>1, <3>2, <3>3, <3>4, SetScreenFlags
    <3> QED  BY <1>5, <3>5
  <2> QED  BY <2>2, <2>3
<1> QED
  BY <1>4, <1>5 DEF KeptElseFlagged, d

LEMMA ResizeScreenIs ==
    ASSUME NEW s, NEW n \in Nat, IsScreen(s, n), NEW q \in Nat, NEW r \in Nat, q >= r, NEW c
    PROVE  IsScreen(ResizeScreen(s, q, c), r) /\ ResizeScreen(s, q, c).cols = c
<1> DEFINE more == AtLeast(q - Len(s.lines), 0)
           size == Len(s.lines[1])
           new == [k \in 1..more |-> BlankLine(size)]
           all == new \o s.lines
           Wider(l) == IF c > size
                       THEN [k \in 1..c |-> IF k <= s.cols THEN l[k] ELSE Blank] ELSE l
           m == [k \in DOMAIN all |-> Wider(all[k])]
           t == [rows |-> q, cols |-> c, lines |-> m]
<1>1. ResizeScreen(s, q, c) = t
  BY DEF ResizeScreen
<1>2. s.rows \in Nat /\ IsLines(s.lines, s.rows)
  BY DEF IsScreen
<1>3. PICK S : s.lines \in Seq(S)
  BY <1>2 DEF IsLines
<1>4. Len(s.lines) \in Nat
  BY <1>2, LinesFacts
<1>5. more \in Nat /\ more + Len(s.lines) >= q
  <2>1. PICK len \in Nat : len = Len(s.lines)
    BY <1>4
  <2>2. more = AtLeast(q - len, 0)
    BY <2>1
  <2>3. more = q - len \/ more = 0
    BY <2>2 DEF AtLeast
  <2>4. more >= 0 /\ more >= q - len
    BY <2>2 DEF AtLeast
  <2> HIDE DEF more
  <2>5. more \in Nat /\ more + len >= q
    BY <2>1, <2>3, <2>4
  <2> QED  BY <2>1, <2>5
<1> HIDE DEF more, size
<1> DEFINE Q == S \union {BlankLine(size)}
<1>6. new \in Seq(Q) /\ Len(new) = more
  <2>1. new \in [1..more -> Q]
    OBVIOUS
  <2> HIDE DEF new
  <2>2. new \in Seq(Q)
    BY <1>5, <2>1, SeqDef
  <2>3. Len(new) \in Nat /\ DOMAIN new = 1..Len(new) /\ DOMAIN new = 1..more
    BY <2>1, <2>2, LenProperties
  <2>4. ASSUME NEW a \in Nat, NEW b \in Nat, 1..a = 1..b
        PROVE  a = b
    BY <2>4
  <2>5. Len(new) = more
    BY <1>5, <2>3, <2>4
  <2> QED  BY <2>2, <2>5
<1> HIDE DEF new
<1>7. s.lines \in Seq(Q)
  <2>1. \A k \in 1..Len(s.lines) : s.lines[k] \in Q
    BY <1>3, ElementOfSeq
  <2>2. s.lines = [k \in 1..Len(s.lines) |-> s.lines[k]]
    BY <1>3, LenProperties
  <2>3. s.lines \in [1..Len(s.lines) -> Q]
    BY <2>1, <2>2
  <2> QED  BY <1>4, <2>3, SeqDef
<1>8. all \in Seq(Q) /\ Len(all) = more + Len(s.lines)
  <2> HIDE DEF Q
  <2> QED  BY <1>6, <1>7, ConcatProperties
<1> HIDE DEF all, Q
<1>9. IsLines(all, q)
  BY <1>5, <1>8 DEF IsLines
<1>10. m = [k \in DOMAIN all |-> m[k]]
  OBVIOUS
<1> HIDE DEF m
<1>11. IsLines(m, q)
  BY <1>9, <1>10, SameLines
<1>12. DOMAIN t = {"rows", "cols", "lines"} /\ t.rows = q /\ t.cols = c /\ t.lines = m
  OBVIOUS
<1> QED
  BY <1>1, <1>11, <1>12 DEF IsScreen

LEMMA SetSizeIs ==
    ASSUME NEW e, IsEm(e), NEW r \in Nat, NEW c \in Nat
    PROVE  Flagged(SetSize(e, r, c), r, c)
<1> DEFINE screens == [k \in {1, 2} |->
                          ResizeScreen(e.screens[k], IF k = 1 THEN AtLeast(r, EmKept) ELSE r, c)]
           f == [e EXCEPT !.screens = screens,
                          !.rows = r, !.cols = c, !.top = 0, !.bottom = r - 1,
                          !.row = r - (e.rows - e.row),
                          !.changed = {}]
<1>1. SetSize(e, r, c) = FlagAll(f)
  BY DEF SetSize
<1>2. /\ DOMAIN e = EmFields /\ e.rows \in Nat /\ e.on \in {1, 2}
      /\ IsScreen(e.screens[1], e.rows) /\ IsScreen(e.screens[2], e.rows)
  BY DEF IsEm
<1>3. AtLeast(r, EmKept) \in Nat /\ AtLeast(r, EmKept) >= r
  BY EmAssumption DEF AtLeast
<1>4. /\ IsScreen(ResizeScreen(e.screens[1], AtLeast(r, EmKept), c), r)
      /\ ResizeScreen(e.screens[1], AtLeast(r, EmKept), c).cols = c
  BY <1>2, <1>3, ResizeScreenIs
<1>5. /\ IsScreen(ResizeScreen(e.screens[2], r, c), r)
      /\ ResizeScreen(e.screens[2], r, c).cols = c
  <2>1. r >= r
    OBVIOUS
  <2> QED  BY <1>2, <2>1, ResizeScreenIs
<1>6. /\ DOMAIN screens = {1, 2}
      /\ \A k \in {1, 2} : IsScreen(screens[k], r) /\ screens[k].cols = c
  BY <1>4, <1>5
<1> HIDE DEF screens
<1>7. DOMAIN f = EmFields /\ f.screens = screens /\ f.rows = r /\ f.cols = c /\ f.on = e.on
  BY <1>2 DEF EmFields
<1> HIDE DEF f
<1>8. IsEm(f)
  BY <1>2, <1>6, <1>7 DEF IsEm
<1> QED
  BY <1>1, <1>7, <1>8, FlagAllIs

LEMMA ResetIs ==
    ASSUME NEW e, IsEm(e), NEW clear \in BOOLEAN, NEW f, f = Reset(e, clear)
    PROVE  IsEm(f) /\ f.rows = e.rows /\ f.changed = e.changed
<1> DEFINE d == ResetState(e)
           screens == [k \in {1, 2} |-> ClearScreen(d.screens[k])]
           g == IF clear THEN [d EXCEPT !.screens = screens] ELSE d
<1>1. f = [g EXCEPT !.col = 0, !.row = e.rows - 1]
  BY DEF Reset
<1>2. IsEm(d) /\ d.rows = e.rows /\ d.changed = e.changed
  BY ResetStateIs
<1> HIDE DEF d
<1>3. /\ DOMAIN d = EmFields /\ d.rows \in Nat /\ d.on \in {1, 2}
      /\ \A k \in {1, 2} : IsScreen(d.screens[k], d.rows) /\ d.screens[k].cols = d.cols
  BY <1>2 DEF IsEm
<1>4. \A k \in {1, 2} : /\ IsScreen(ClearScreen(d.screens[k]), d.rows)
                        /\ ClearScreen(d.screens[k]).cols = d.cols
  BY <1>3, ClearScreenIs
<1>5. /\ DOMAIN screens = {1, 2}
      /\ \A k \in {1, 2} : IsScreen(screens[k], d.rows) /\ screens[k].cols = d.cols
  BY <1>4
<1> HIDE DEF screens
<1>6. IsEm(g) /\ g.rows = e.rows /\ g.changed = e.changed
  <2>1. CASE clear
    <3>1. g = [d EXCEPT !.screens = screens]
      BY <2>1
    <3>2. /\ DOMAIN g = EmFields /\ g.screens = screens /\ g.rows = d.rows /\ g.cols = d.cols
          /\ g.on = d.on /\ g.changed = d.changed
      BY <1>3, <3>1 DEF EmFields
    <3> QED  BY <1>2, <1>3, <1>5, <3>2 DEF IsEm
  <2>2. CASE ~clear
    BY <1>2, <2>2
  <2> QED  BY <2>1, <2>2
<1> HIDE DEF g
<1>7. /\ DOMAIN f = EmFields /\ f.screens = g.screens /\ f.on = g.on /\ f.rows = g.rows
      /\ f.cols = g.cols /\ f.changed = g.changed
  <2>1. DOMAIN g = EmFields
    BY <1>6, EmFacts
  <2> QED  BY <1>1, <2>1 DEF EmFields
<1> QED
  BY <1>6, <1>7 DEF IsEm

-----------------------------------------------------------------------------
(* The steps.                                                              *)

\* The window has its fields, the emulator its shape, and what is not flagged is drawn.
EmInv ==
    /\ IsEm(em)
    /\ DOMAIN tw = {"lines", "first", "total", "signal"}
    /\ DrawnOrFlagged

LEMMA DrawnByFlags ==
    ASSUME Flagged(em, em.rows, em.cols)
    PROVE  IsEm(em) /\ DrawnOrFlagged
BY DEF Flagged, DrawnOrFlagged

LEMMA EmInvInit == EmInit => EmInv
<1> SUFFICES ASSUME EmInit
             PROVE  EmInv
  OBVIOUS
<1> DEFINE e == NewEmulator
           r == InitSize[1]
           c == InitSize[2]
           all == 0..AtLeast(r, EmKept) - 1
           screens == [k \in {1, 2} |-> NoScreen(IF k = 1 THEN AtLeast(r, EmKept) ELSE r, c)]
<1>1. r \in Nat /\ c \in Nat
  <2>1. InitSize \in EmSizes
    BY EmAssumption DEF InitSize
  <2> QED  BY <2>1, EmAssumption
<1>2. AtLeast(r, EmKept) \in Nat /\ AtLeast(r, EmKept) >= r
  BY <1>1, EmAssumption DEF AtLeast
<1>3. e = [screens |-> screens,
           on |-> 1, rows |-> r, cols |-> c, top |-> 0, bottom |-> r - 1,
           row |-> r - 1, col |-> 0, saved |-> <<0, 0>>, wrap |-> TRUE,
           changed |-> all]
  BY DEF NewEmulator
<1> HIDE DEF r, c, e
<1>4. ASSUME NEW q \in Nat, q >= r
      PROVE  IsScreen(NoScreen(q, c), r) /\ NoScreen(q, c).cols = c
  <2> DEFINE l == [k \in 1..q |-> BlankLine(c)]
             S == {BlankLine(c)}
  <2>1. l \in [1..q -> S]
    OBVIOUS
  <2> HIDE DEF l
  <2>2. l \in Seq(S)
    BY <2>1, SeqDef
  <2>3. Len(l) \in Nat /\ DOMAIN l = 1..Len(l) /\ DOMAIN l = 1..q
    BY <2>1, <2>2, LenProperties
  <2>4. ASSUME NEW a \in Nat, NEW b \in Nat, 1..a = 1..b
        PROVE  a = b
    BY <2>4
  <2>5. Len(l) = q
    BY <2>3, <2>4
  <2>6. IsLines(l, q)
    BY <2>2, <2>5 DEF IsLines
  <2>7. NoScreen(q, c) = [rows |-> q, cols |-> c, lines |-> l]
    BY DEF NoScreen, l
  <2> QED  BY <1>4, <2>6, <2>7 DEF IsScreen
<1>5. /\ DOMAIN screens = {1, 2}
      /\ \A k \in {1, 2} : IsScreen(screens[k], r) /\ screens[k].cols = c
  <2>1. IsScreen(NoScreen(AtLeast(r, EmKept), c), r) /\ NoScreen(AtLeast(r, EmKept), c).cols = c
    BY <1>2, <1>4
  <2>2. IsScreen(NoScreen(r, c), r) /\ NoScreen(r, c).cols = c
    BY <1>1, <1>4
  <2> QED  BY <2>1, <2>2
<1> HIDE DEF screens, all
<1>6. /\ DOMAIN e = EmFields /\ e.screens = screens /\ e.on = 1 /\ e.rows = r /\ e.cols = c
      /\ e.changed = all
  BY <1>3 DEF EmFields
<1>7. IsEm(e)
  BY <1>1, <1>5, <1>6 DEF IsEm
<1>8. \A k \in 0..r - 1 : k \in e.changed
  <2>1. \A k \in 0..r - 1 : k \in 0..AtLeast(r, EmKept) - 1
    BY <1>1, <1>2
  <2> QED  BY <1>6, <2>1 DEF all
<1>9. Flagged(em, em.rows, em.cols)
  <2>1. em = InternalPrint(e, EmBoot) /\ Len(EmBoot) \in Nat
    BY EmAssumption, LenProperties DEF EmInit, e
  <2>2. PICK h : Prints(h, e, EmBoot) /\ em = h[Len(EmBoot)]
    BY <2>1, InternalPrintIs
  <2>3. KeptElseFlagged(e, h[0])
    BY <1>7, <2>2, KeptSelf DEF Prints
  <2>4. 0 \in 0..Len(EmBoot)
    BY <2>1
  <2>5. KeptElseFlagged(e, em)
    BY <2>1, <2>2, <2>3, <2>4, PrintsKept
  <2> QED  BY <1>6, <1>8, <2>5 DEF KeptElseFlagged, Flagged
<1>10. DOMAIN tw = {"lines", "first", "total", "signal"}
  BY DEF EmInit
<1> QED
  BY <1>9, <1>10, DrawnByFlags DEF EmInv

LEMMA OutcomeKept ==
    ASSUME NEW e, IsEm(e), NEW f \in Outcomes(e)
    PROVE  KeptElseFlagged(e, f)
<1>0. KeptElseFlagged(e, e)
  BY KeptSelf
<1> DEFINE Moves == {CR(e), LF(e), RI(e), Tab(e), BS(e), LF(CR(e)),
                     SaveCursor(e), RestoreCursor(e)}
                    \union {SetCursor(e, r, c) : r \in 0..e.rows, c \in {0, e.cols}}
                    \union {IncCursor(e, d[1] * n, d[2] * n) :
                            d \in {<<-1, 0>>, <<1, 0>>, <<0, -1>>, <<0, 1>>}, n \in EmCount}
           Texts == {AddUnicode(e, ch) : ch \in EmChar}
           Edits == {Scroll(e, n, up) : n \in EmCount, up \in BOOLEAN}
                    \union {MoveLines(e, n, up) : n \in EmCount, up \in BOOLEAN}
                    \union {EraseChars(e, n) : n \in EmCount}
                    \union {DeleteChars(e, n) : n \in EmCount}
                    \union {EraseDisp(e, mode) : mode \in 0..2}
                    \union {EraseLine(e, mode) : mode \in 0..2}
           Modes == {SetRegion(e, t, b) : t \in 0..e.rows - 1, b \in 0..e.rows}
                    \union {[e EXCEPT !.wrap = w] : w \in BOOLEAN}
                    \union {SecondScreen(e, s) : s \in BOOLEAN}
                    \union {FirstScreen(e, s) : s \in BOOLEAN}
                    \union {SoftReset(e)}
<1>1. f \in Moves \/ f \in Texts \/ f \in Edits \/ f \in Modes
  BY DEF Outcomes
<1>2. CASE f \in Moves
  <2>1. CASE f \in {CR(e), LF(e), RI(e), Tab(e), BS(e), LF(CR(e)), SaveCursor(e), RestoreCursor(e)}
    BY <1>0, <2>1, CRKept, LFKept, PrintCharKept, BSKept, SavedCursorKept
  <2>2. CASE f \in {SetCursor(e, r, c) : r \in 0..e.rows, c \in {0, e.cols}}
    BY <1>0, <2>2, SetCursorKept
  <2>3. CASE f \in {IncCursor(e, d[1] * n, d[2] * n) :
                        d \in {<<-1, 0>>, <<1, 0>>, <<0, -1>>, <<0, 1>>}, n \in EmCount}
    <3>1. PICK d \in {<<-1, 0>>, <<1, 0>>, <<0, -1>>, <<0, 1>>}, n \in EmCount :
            f = IncCursor(e, d[1] * n, d[2] * n)
      BY <2>3
    <3>2. PICK x, y : f = IncCursor(e, x, y)
      BY <3>1
    <3> QED  BY <1>0, <3>2, SetCursorKept
  <2> QED  BY <1>2, <2>1, <2>2, <2>3
<1>3. CASE f \in Texts
  BY <1>0, <1>3, PrintCharKept
<1>4. CASE f \in Edits
  <2>1. ASSUME NEW n, NEW up
        PROVE  KeptElseFlagged(e, Scroll(e, n, up)) /\ KeptElseFlagged(e, MoveLines(e, n, up))
    BY <1>0, ScrollKept DEF Scroll, MoveLines
  <2> QED  BY <1>0, <1>4, <2>1, DeleteCharsKept, EraseDispKept, EraseLineKept
<1>5. CASE f \in Modes
  <2>1. \A w : KeptElseFlagged(e, [e EXCEPT !.wrap = w])
    BY <1>0, ModeKept
  <2>2. CASE f \in {SetRegion(e, t, b) : t \in 0..e.rows - 1, b \in 0..e.rows}
    <3>1. PICK t, b : f = SetRegion(e, t, b)
      BY <2>2
    <3> QED  BY <1>0, <3>1, SetRegionKept
  <2>3. CASE f \in {[e EXCEPT !.wrap = w] : w \in BOOLEAN}
    <3>1. PICK w : f = [e EXCEPT !.wrap = w]
      BY <2>3
    <3> QED  BY <2>1, <3>1
  <2>4. CASE f \in {SecondScreen(e, s) : s \in BOOLEAN} \union {FirstScreen(e, s) : s \in BOOLEAN}
    <3>1. PICK s \in BOOLEAN : f = SecondScreen(e, s) \/ f = FirstScreen(e, s)
      BY <2>4
    <3> QED  BY <1>0, <3>1, ScreensKept
  <2>5. CASE f = SoftReset(e)
    BY <1>0, <2>5, SoftResetKept
  <2> QED  BY <1>5, <2>2, <2>3, <2>4, <2>5
<1> QED
  BY <1>1, <1>2, <1>3, <1>4, <1>5

\* A step that keeps the lines it does not flag, and the lines the window shows.
LEMMA BecomesStep ==
    ASSUME EmInv, NEW e, KeptElseFlagged(em, e), Becomes(e),
           DOMAIN tw' = {"lines", "first", "total", "signal"},
           tw'.lines = tw.lines, tw'.first = tw.first
    PROVE  EmInv'
<1>1. em' = e /\ emQuiet' = emQuiet \ e.changed
  BY DEF Becomes
<1>2. ASSUME NEW r \in 0..em'.rows - 1, r \notin em'.changed \union emQuiet'
      PROVE  tw'.first = 0 /\ tw'.lines[r] = ShownLine(em', 0, r)
  <2>1. /\ r \in 0..em.rows - 1 /\ r \notin em.changed \union emQuiet
        /\ ShownLine(em', 0, r) = ShownLine(em, 0, r)
    BY <1>1, <1>2 DEF KeptElseFlagged
  <2> QED  BY <2>1 DEF EmInv, DrawnOrFlagged
<1>3. DrawnOrFlagged'
  BY <1>2 DEF DrawnOrFlagged
<1> QED
  BY <1>1, <1>3 DEF EmInv, KeptElseFlagged

\* A reset, whose lines are told apart from those that are flagged.
LEMMA ResetsStep ==
    ASSUME EmInv, NEW clear \in BOOLEAN, Resets(clear),
           DOMAIN tw' = {"lines", "first", "total", "signal"},
           tw'.lines = tw.lines, tw'.first = tw.first
    PROVE  EmInv'
<1> DEFINE e == Reset(em, clear)
<1>1. em' = e /\ emQuiet' = (emQuiet \union Unlike(em, e)) \ e.changed
  BY DEF Resets
<1>2. IsEm(em)
  BY DEF EmInv
<1>3. IsEm(e) /\ e.rows = em.rows /\ e.changed = em.changed
  BY <1>2, ResetIs, Zenon
<1> HIDE DEF e
<1>4. ASSUME NEW r \in 0..em'.rows - 1, r \notin em'.changed \union emQuiet'
      PROVE  tw'.first = 0 /\ tw'.lines[r] = ShownLine(em', 0, r)
  <2>1. r \in 0..em.rows - 1 /\ r \notin em.changed \union emQuiet /\ r \notin Unlike(em, e)
    BY <1>1, <1>3, <1>4
  <2>2. ShownLine(em, 0, r) = ShownLine(e, 0, r)
    BY <2>1 DEF Unlike
  <2>3. tw.first = 0 /\ tw.lines[r] = ShownLine(em, 0, r)
    BY <2>1 DEF EmInv, DrawnOrFlagged
  <2> QED  BY <1>1, <2>2, <2>3
<1>5. DrawnOrFlagged'
  BY <1>4 DEF DrawnOrFlagged
<1> QED
  BY <1>1, <1>3, <1>5 DEF EmInv

LEMMA InputStep == ASSUME EmInv, Input PROVE EmInv'
<1>1. tw' = [tw EXCEPT !.signal = TRUE]
  BY DEF Input
<1>2. /\ DOMAIN tw' = {"lines", "first", "total", "signal"}
      /\ tw'.lines = tw.lines /\ tw'.first = tw.first
  BY <1>1 DEF EmInv
<1>3. CASE Resets(TRUE)
  BY <1>2, <1>3, ResetsStep
<1>4. ASSUME NEW e \in Outcomes(em), Becomes(e)
      PROVE  EmInv'
  <2>1. KeptElseFlagged(em, e)
    BY OutcomeKept DEF EmInv
  <2> QED  BY <1>2, <1>4, <2>1, BecomesStep
<1> QED
  BY <1>3, <1>4 DEF Input

LEMMA SignalStep == ASSUME EmInv, TerminalSignal PROVE EmInv'
<1>1. IsEm(em) /\ DOMAIN em = EmFields
  BY EmFacts DEF EmInv
<1>2. em' = [em EXCEPT !.changed = em.changed \ Copied] /\ emQuiet' = emQuiet \ em'.changed
  BY DEF TerminalSignal, Becomes
<1>3. /\ DOMAIN em' = EmFields /\ em'.changed = em.changed \ Copied
      /\ em'.screens = em.screens /\ em'.on = em.on /\ em'.rows = em.rows /\ em'.cols = em.cols
  BY <1>1, <1>2 DEF EmFields
<1>4. IsEm(em)'
  BY <1>1, <1>3 DEF IsEm
<1>5. /\ DOMAIN tw' = {"lines", "first", "total", "signal"} /\ tw'.first = 0
      /\ tw'.lines = [r \in 0..em.rows - 1 |->
                          IF r \in Copied THEN ShownLine(em, 0, r) ELSE tw.lines[r]]
  BY DEF TerminalSignal
<1>6. ASSUME NEW r \in 0..em.rows - 1, r \notin em'.changed \union emQuiet'
      PROVE  tw'.lines[r] = ShownLine(em', 0, r)
  <2>1. ShownLine(em', 0, r) = ShownLine(em, 0, r)
    <3>1. Screen(em') = Screen(em)
      BY <1>3 DEF Screen
    <3> QED  BY <1>1, <1>3, <1>4, <3>1, EmFacts
  <2>2. CASE r \in Copied
    BY <1>5, <2>1, <2>2
  <2>3. CASE r \notin Copied
    <3>1. r \notin em.changed \union emQuiet
      BY <1>2, <1>3, <1>6, <2>3
    <3>2. tw.lines[r] = ShownLine(em, 0, r)
      BY <3>1 DEF EmInv, DrawnOrFlagged
    <3> QED  BY <1>5, <2>1, <2>3, <3>2
  <2> QED  BY <2>2, <2>3
<1>7. DrawnOrFlagged'
  BY <1>3, <1>5, <1>6 DEF DrawnOrFlagged
<1> QED
  BY <1>4, <1>5, <1>7 DEF EmInv

\* The emulator is given a size, as it is whenever the window rereads its lines.
LEMMA SizedStep ==
    ASSUME NEW e, IsEm(e), NEW r \in Nat, NEW c \in Nat, em' = SetSize(e, r, c),
           DOMAIN tw' = {"lines", "first", "total", "signal"}
    PROVE  EmInv'
<1>1. Flagged(em', r, c)
  BY SetSizeIs
<1>2. Flagged(em', em'.rows, em'.cols)
  BY <1>1 DEF Flagged
<1>3. IsEm(em)' /\ DrawnOrFlagged'
  BY <1>2 DEF Flagged, DrawnOrFlagged
<1> QED
  BY <1>3 DEF EmInv

\* The calls of a handler of the window.
LEMMA CallStep == ASSUME EmInv, Call PROVE EmInv'
<1> DEFINE call == Head(emCalls)
<1>1. IsEm(em) /\ em.rows \in Nat /\ em.cols \in Nat
  BY EmFacts DEF EmInv
<1>2. ASSUME NEW clear \in BOOLEAN, Resets(clear), UNCHANGED tw
      PROVE  EmInv'
  BY <1>2, ResetsStep DEF EmInv
<1>3. CASE call \in DOMAIN PrintedText /\ Becomes(InternalPrint(em, PrintedText[call])) /\ UNCHANGED tw
  <2> DEFINE text == PrintedText[call]
             e == InternalPrint(em, text)
  <2>1. Len(text) \in Nat
    <3>1. Len(<<"\n">>) \in Nat /\ Len(EmPref) \in Nat /\ Len(EmCmd) \in Nat
      <4>1. EmPref \in Seq(STRING) /\ EmCmd \in Seq(STRING)
        BY EmAssumption
      <4>2. Len(<<"\n">>) = 1
        OBVIOUS
      <4> QED  BY <4>1, <4>2, LenProperties
    <3>2. text \in {<<"\n">>, EmPref, EmCmd}
      BY <1>3 DEF PrintedText
    <3> QED  BY <3>1, <3>2
  <2>2. Becomes(e)
    BY <1>3
  <2> HIDE DEF text
  <2>3. PICK h : Prints(h, em, text) /\ e = h[Len(text)]
    BY <2>1, InternalPrintIs
  <2>4. KeptElseFlagged(em, h[0]) /\ 0 \in 0..Len(text)
    BY <1>1, <2>1, <2>3, KeptSelf DEF Prints
  <2>5. KeptElseFlagged(em, e)
    BY <2>1, <2>3, <2>4, PrintsKept
  <2> HIDE DEF e
  <2> QED  BY <1>3, <2>2, <2>5, BecomesStep DEF EmInv
<1>4. CASE RereadLines(em.rows, em.cols, tw.first, 0)
  <2>1. em' = SetSize(em, em.rows, em.cols) /\ DOMAIN tw' = {"lines", "first", "total", "signal"}
    BY <1>4 DEF EmInv, RereadLines, Becomes
  <2> QED  BY <1>1, <2>1, SizedStep
<1> QED
  BY <1>2, <1>3, <1>4 DEF Call

LEMMA EmInvStep == ASSUME EmInv, [EmNext]_emVars PROVE EmInv'
<1>1. IsEm(em) /\ em.rows \in Nat /\ em.cols \in Nat
  BY EmFacts DEF EmInv
<1>2. CASE \E n \in {-1, 1} : ScrollBack(n)
  <2>1. em' = SetSize(em, em.rows, em.cols) /\ DOMAIN tw' = {"lines", "first", "total", "signal"}
    BY <1>2 DEF EmInv, ScrollBack, RereadLines, Becomes
  <2> QED  BY <1>1, <2>1, SizedStep
<1>3. ASSUME NEW z \in EmSizes, Resize(z)
      PROVE  EmInv'
  <2>1. z[1] \in Nat /\ z[2] \in Nat
    BY EmAssumption
  <2>2. em' = SetSize(em, z[1], z[2]) /\ DOMAIN tw' = {"lines", "first", "total", "signal"}
    BY <1>3 DEF EmInv, Resize, RereadLines, Becomes
  <2> QED  BY <1>1, <2>1, <2>2, SizedStep
<1>4. CASE UNCHANGED <<em, tw, emQuiet>>
  BY <1>4 DEF EmInv, DrawnOrFlagged
<1>5. CASE Handler
  BY <1>2, <1>3, <1>4, <1>5, SignalStep DEF Handler, DoStartExecute, ClearAll
<1> QED
  BY <1>4, <1>5, InputStep, CallStep DEF EmNext, emVars

(***************************************************************************)
(* A line that is not flagged is shown as it is, for a terminal of any     *)
(* size, whatever programs write between the calls of the window's         *)
(* handlers, but for what a reset changed and nothing has flagged since    *)
(* (Emulator of t-emulator.cpp, ThreadSignal and Reread of termwin.cpp,    *)
(* DoStartExecute of file-exec.cpp).                                       *)
(***************************************************************************)
THEOREM MissesNoLine == EmSpec => []DrawnOrFlagged
<1>1. EmInit => EmInv
  BY EmInvInit
<1>2. EmInv /\ [EmNext]_emVars => EmInv'
  BY EmInvStep
<1>3. EmInv => DrawnOrFlagged
  BY DEF EmInv
<1> QED
  BY <1>1, <1>2, <1>3, PTL DEF EmSpec

-----------------------------------------------------------------------------
(* PanelList: an order puts every file in one place.                       *)

\* A strict order in which any two can be compared.
Orders(before, S) ==
    /\ \A f \in S : <<f, f>> \notin before
    /\ \A f, g \in S : f # g => <<f, g>> \in before \/ <<g, f>> \in before
    /\ \A f, g, h \in S : <<f, g>> \in before /\ <<g, h>> \in before => <<f, h>> \in before

LEMMA SequenceIs ==
    ASSUME NEW S, NEW n \in Nat, NEW a \in [1..n -> S]
    PROVE  a \in Seq(S) /\ Len(a) = n /\ DOMAIN a = 1..n
<1>1. a \in Seq(S)
  BY SeqDef
<1> QED
  BY <1>1, LenProperties

\* Arranged gives every file once, and in order.
LEMMA ArrangedIs ==
    ASSUME NEW S, IsFiniteSet(S), NEW before, Orders(before, S)
    PROVE  /\ Arranged(S, before) \in Seq(S) /\ Len(Arranged(S, before)) = Cardinality(S)
           /\ Cardinality(S) \in Nat /\ DOMAIN Arranged(S, before) = 1..Cardinality(S)
           /\ ToSet(Arranged(S, before)) = S
           /\ \A i, j \in DOMAIN Arranged(S, before) :
                /\ Arranged(S, before)[i] = Arranged(S, before)[j] => i = j
                /\ i < j => <<Arranged(S, before)[i], Arranged(S, before)[j]>> \in before
<1> DEFINE n == Cardinality(S)
           pred(f) == {g \in S : <<g, f>> \in before}
           rank == [f \in S |-> Cardinality(pred(f))]
           a == Arranged(S, before)
<1>1. n \in Nat
  BY FS_CardinalityType
<1>2. ASSUME NEW f \in S
      PROVE  /\ IsFiniteSet(pred(f)) /\ rank[f] = Cardinality(pred(f))
             /\ rank[f] \in 0..n - 1
  <2>1. IsFiniteSet(S \ {f}) /\ Cardinality(S \ {f}) = n - 1
    BY FS_RemoveElement
  <2>2. pred(f) \in SUBSET (S \ {f})
    BY DEF Orders
  <2> HIDE DEF pred
  <2>3. IsFiniteSet(pred(f)) /\ Cardinality(pred(f)) <= n - 1
    BY <2>1, <2>2, FS_Subset
  <2>4. Cardinality(pred(f)) \in Nat
    BY <2>3, FS_CardinalityType
  <2> QED
    BY <1>1, <2>3, <2>4
<1>3. ASSUME NEW f \in S, NEW g \in S, <<f, g>> \in before
      PROVE  rank[f] < rank[g]
  <2>1. pred(f) \in SUBSET pred(g) /\ f \in pred(g) /\ f \notin pred(f)
    BY <1>3 DEF Orders
  <2> HIDE DEF pred
  <2>2. pred(f) # pred(g)
    BY <2>1
  <2>3. Cardinality(pred(f)) <= Cardinality(pred(g)) /\ Cardinality(pred(g)) # Cardinality(pred(f))
    BY <1>2, <2>1, <2>2, FS_Subset
  <2> HIDE DEF rank
  <2>4. rank[f] \in Int /\ rank[g] \in Int /\ rank[f] <= rank[g] /\ rank[f] # rank[g]
    BY <1>2, <2>3
  <2> QED
    BY <2>4
<1>4. rank \in [S -> 0..n - 1]
  BY <1>2
<1> HIDE DEF rank
<1>5. \A f, g \in S : rank[f] = rank[g] => f = g
  <2> SUFFICES ASSUME NEW f \in S, NEW g \in S, rank[f] = rank[g], f # g
               PROVE  FALSE
    OBVIOUS
  <2>1. rank[f] < rank[g] \/ rank[g] < rank[f]
    BY <1>3 DEF Orders
  <2> HIDE DEF n
  <2>2. rank[f] \in Int /\ rank[g] \in Int
    BY <1>1, <1>4
  <2> QED
    BY <2>1, <2>2
<1>6. \A k \in 0..n - 1 : \E f \in S : rank[f] = k
  <2>1. rank \in Injection(S, 0..n - 1)
    <3> HIDE DEF n
    <3> QED
      BY <1>4, <1>5 DEF Injection, IsInjective
  <2>2. IsFiniteSet(0..n - 1) /\ Cardinality(0..n - 1) = n
    <3>1. 0 \in Int /\ n - 1 \in Int
      BY <1>1
    <3>2. IsFiniteSet(0..n - 1) /\ Cardinality(0..n - 1) = IF 0 > n - 1 THEN 0 ELSE (n - 1) - 0 + 1
      BY <3>1, FS_Interval
    <3> QED
      BY <1>1, <3>2
  <2>3. rank \in Surjection(S, 0..n - 1)
    BY <2>1, <2>2, FS_Injection
  <2> QED
    BY <2>3 DEF Surjection
<1>7. /\ DOMAIN a = 1..n
      /\ \A i \in 1..n : a[i] = CHOOSE f \in S : Cardinality(pred(f)) = i - 1
  <2>1. DOMAIN a = 1..n /\ \A i \in 1..n : a[i] = Nth(S, before, i)
    BY DEF Arranged
  <2> QED
    BY <2>1 DEF Nth
<1>8. ASSUME NEW i \in 1..n
      PROVE  a[i] \in S /\ rank[a[i]] = i - 1
  <2>1. i - 1 \in 0..n - 1
    BY <1>1
  <2>2. \E f \in S : Cardinality(pred(f)) = i - 1
    BY <1>2, <1>6, <2>1
  <2>3. a[i] \in S /\ Cardinality(pred(a[i])) = i - 1
    <3> HIDE DEF pred, a
    <3> QED
      BY <1>7, <2>2
  <2> QED
    BY <1>2, <2>3
<1>10. a \in [1..n -> S]
  <2>1. \A i \in 1..n : Nth(S, before, i) \in S
    BY <1>7, <1>8 DEF Arranged
  <2> QED
    BY <2>1 DEF Arranged
<1> HIDE DEF a, n
<1>11. a \in Seq(S) /\ Len(a) = n /\ DOMAIN a = 1..n
  BY <1>1, <1>10, SequenceIs
<1>12. ToSet(a) = S
  <2>1. ASSUME NEW f \in S
        PROVE  \E i \in 1..n : a[i] = f
    <3>1. rank[f] \in 0..n - 1
      BY <1>4, <2>1
    <3>4. rank[f] + 1 \in 1..n /\ (rank[f] + 1) - 1 = rank[f]
      BY <1>1, <3>1
    <3>2. a[rank[f] + 1] = f
      BY <1>5, <1>8, <2>1, <3>4
    <3> QED
      BY <3>2, <3>4
  <2> QED
    BY <1>8, <1>11, <2>1 DEF ToSet
<1>13. ASSUME NEW i \in 1..n, NEW j \in 1..n, a[i] = a[j]
       PROVE  i = j
  <2>1. i - 1 = j - 1
    BY <1>8, <1>13
  <2> QED
    BY <2>1
<1>14. ASSUME NEW i \in 1..n, NEW j \in 1..n, i < j
       PROVE  <<a[i], a[j]>> \in before
  <2>1. a[i] # a[j] /\ a[i] \in S /\ a[j] \in S
    BY <1>8, <1>13, <1>14
  <2>2. ~(rank[a[j]] < rank[a[i]])
    BY <1>8, <1>14
  <2>3. <<a[j], a[i]>> \notin before
    BY <1>3, <2>1, <2>2
  <2> QED
    BY <2>1, <2>3 DEF Orders
<1> QED
  BY <1>1, <1>11, <1>12, <1>13, <1>14 DEF a, n

-----------------------------------------------------------------------------
(* The counter of the files marked, added to or computed.                  *)

\* h[k] is the size of the files of S among the first k names.
SizesOf(h, S) ==
    /\ h \in [0..Len(PnSize) -> Nat] /\ h[0] = 0
    /\ \A k \in 1..Len(PnSize) : h[k] = h[k - 1] + (IF k \in S THEN PnSize[k] ELSE 0)

LEMMA NamesAre ==
    /\ Len(PnSize) \in Nat /\ DOMAIN PnSize = 1..Len(PnSize) /\ IsFiniteSet(DOMAIN PnSize)
    /\ \A k \in DOMAIN PnSize : PnSize[k] \in Nat
<1>1. PnSize \in Seq(Nat)
  BY PanelAssumption
<1>2. Len(PnSize) \in Nat /\ DOMAIN PnSize = 1..Len(PnSize) /\ \A k \in DOMAIN PnSize : PnSize[k] \in Nat
  BY <1>1, LenProperties, ElementOfSeq
<1>3. IsFiniteSet(1..Len(PnSize))
  BY <1>2, FS_Interval
<1> QED
  BY <1>2, <1>3

LEMMA CounterIs ==
    ASSUME NEW S
    PROVE  \E h : SizesOf(h, S) /\ Counter(S) = [count |-> Cardinality(S), size |-> h[Len(PnSize)]]
<1> DEFINE n == Len(PnSize)
           w == [k \in 1..n |-> IF k \in S THEN PnSize[k] ELSE 0]
           step == [x \in Nat \X (1..n) |-> x[1] + w[x[2]]]
           F(f) == [k \in 0..n |-> IF k = 0 THEN 0 ELSE f[k - 1] + (IF k \in S THEN PnSize[k] ELSE 0)]
           h == CHOOSE f : f = F(f)
<1>1. n \in Nat /\ w \in [1..n -> Nat] /\ \A k \in 1..n : w[k] = IF k \in S THEN PnSize[k] ELSE 0
  BY NamesAre
<1> HIDE DEF w
<1>2. step \in [Nat \X (1..n) -> Nat] /\ \A x \in Nat, k \in 1..n : step[<<x, k>>] = x + w[k]
  BY <1>1
<1> HIDE DEF step
<1>3. PICK f \in [0..n -> Nat] : Follows(f, n, 0, step)
  BY <1>1, <1>2, FollowsExists
<1>4. f = F(f)
  <2>1. ASSUME NEW k \in 0..n
        PROVE  f[k] = IF k = 0 THEN 0 ELSE f[k - 1] + w[k]
    <3>1. CASE k # 0
      <4>1. k \in 1..n /\ k - 1 \in 0..n /\ f[k - 1] \in Nat
        BY <1>1, <3>1
      <4> QED
        BY <1>2, <1>3, <3>1, <4>1 DEF Follows
    <3> QED
      BY <1>3, <3>1 DEF Follows
  <2>2. ASSUME NEW k \in 0..n
        PROVE  f[k] = IF k = 0 THEN 0 ELSE f[k - 1] + (IF k \in S THEN PnSize[k] ELSE 0)
    <3>1. k # 0 => k \in 1..n
      BY <1>1
    <3> QED
      BY <1>1, <2>1, <3>1
  <2> HIDE DEF n
  <2> QED
    BY <2>2
<1>5. h = F(h)
  <2> HIDE DEF F
  <2> QED
    BY <1>4
<1>6. Counter(S) = [count |-> Cardinality(S), size |-> h[n]]
  BY DEF Counter
<1> HIDE DEF h, n
<1>7. \A k \in 0..n : h[k] = IF k = 0 THEN 0 ELSE h[k - 1] + (IF k \in S THEN PnSize[k] ELSE 0)
  BY <1>5
<1>8. DOMAIN h = 0..n /\ h = [k \in 0..n |-> h[k]]
  BY <1>5
<1>9. h[0] = 0 /\ \A k \in 1..n : h[k] = h[k - 1] + w[k]
  <2>1. 0 \in 0..n /\ \A k \in 1..n : k \in 0..n /\ k # 0
    BY <1>1
  <2> QED
    BY <1>1, <1>7, <2>1
<1> DEFINE wrong == {k \in 0..n : h[k] \notin Nat}
<1>10. wrong = {}
  <2> SUFFICES ASSUME wrong # {}
               PROVE  FALSE
    OBVIOUS
  <2>1. wrong \subseteq Nat
    BY <1>1
  <2>2. PICK k \in wrong : \A j \in wrong : k <= j
    BY <2>1, LeastNumber
  <2>3. k \in 0..n /\ h[k] \notin Nat /\ k # 0
    BY <1>9, <2>2
  <2>4. k - 1 \in 0..n /\ k \in 1..n /\ ~(k <= k - 1)
    BY <1>1, <2>3
  <2>5. h[k - 1] \in Nat /\ w[k] \in Nat
    BY <1>1, <2>2, <2>4
  <2> QED
    BY <1>9, <2>3, <2>4, <2>5
<1>11. h \in [0..n -> Nat]
  BY <1>8, <1>10
<1> QED
  BY <1>1, <1>6, <1>9, <1>11 DEF SizesOf, n

LEMMA CounterAdd ==
    ASSUME NEW S \in SUBSET DOMAIN PnSize, NEW f \in DOMAIN PnSize, f \notin S
    PROVE  /\ AddOne(Counter(S), f) = Counter(S \cup {f})
           /\ SubOne(Counter(S \cup {f}), f) = Counter(S)
<1> DEFINE n == Len(PnSize)
           more == PnSize[f]
<1>1. n \in Nat /\ f \in 1..n /\ more \in Nat /\ IsFiniteSet(S)
      /\ \A k \in 1..n : PnSize[k] \in Nat
  BY NamesAre, FS_Subset
<1>2. Cardinality(S \cup {f}) = Cardinality(S) + 1 /\ Cardinality(S) \in Nat
  BY <1>1, FS_AddElement, FS_CardinalityType
<1>3. PICK h : SizesOf(h, S) /\ Counter(S) = [count |-> Cardinality(S), size |-> h[n]]
  BY CounterIs
<1>4. PICK g : SizesOf(g, S \cup {f})
               /\ Counter(S \cup {f}) = [count |-> Cardinality(S \cup {f}), size |-> g[n]]
  BY CounterIs
<1>5. /\ \A k \in 0..n : h[k] \in Nat /\ g[k] \in Nat
      /\ h[0] = 0 /\ g[0] = 0
      /\ \A k \in 1..n : h[k] = h[k - 1] + (IF k \in S THEN PnSize[k] ELSE 0)
      /\ \A k \in 1..n : g[k] = g[k - 1] + (IF k \in S \cup {f} THEN PnSize[k] ELSE 0)
  BY <1>3, <1>4 DEF SizesOf
<1> HIDE DEF n
<1> DEFINE wrong == {k \in 0..n : g[k] # h[k] + (IF f <= k THEN more ELSE 0)}
<1>6. wrong = {}
  <2> SUFFICES ASSUME wrong # {}
               PROVE  FALSE
    OBVIOUS
  <2>1. wrong \subseteq Nat
    BY <1>1
  <2>2. PICK k \in wrong : \A j \in wrong : k <= j
    BY <2>1, LeastNumber
  <2>3. k \in 0..n /\ k # 0
    BY <1>1, <1>5, <2>2
  <2>4. k - 1 \in 0..n /\ k \in 1..n /\ ~(k <= k - 1)
    BY <1>1, <2>3
  <2>5. g[k - 1] = h[k - 1] + (IF f <= k - 1 THEN more ELSE 0) /\ h[k - 1] \in Nat
    BY <1>5, <2>2, <2>4
  <2>6. CASE k = f
    <3>1. g[k] = g[k - 1] + more /\ h[k] = h[k - 1] + 0
      BY <1>5, <2>4, <2>6
    <3> HIDE DEF more
    <3> QED
      BY <1>1, <2>2, <2>4, <2>5, <2>6, <3>1
  <2>7. CASE k # f
    <3> DEFINE d == IF k \in S THEN PnSize[k] ELSE 0
    <3>1. g[k] = g[k - 1] + d /\ h[k] = h[k - 1] + d /\ d \in Nat
      BY <1>1, <1>5, <2>4, <2>7
    <3>2. f <= k - 1 <=> f <= k
      BY <1>1, <2>4, <2>7
    <3> HIDE DEF d, more
    <3> QED
      BY <1>1, <2>2, <2>5, <3>1, <3>2
  <2> QED
    BY <2>6, <2>7
<1>7. g[n] = h[n] + more /\ g[n] - more = h[n] /\ (Cardinality(S) + 1) - 1 = Cardinality(S)
  <2>1. n \in 0..n /\ f <= n
    BY <1>1
  <2>2. g[n] = h[n] + more /\ h[n] \in Nat
    BY <1>5, <1>6, <2>1
  <2> HIDE DEF more
  <2> QED
    BY <1>1, <1>2, <2>2
<1> HIDE DEF more
<1>8. [count |-> Cardinality(S) + 1, size |-> h[n] + more] = Counter(S \cup {f})
  BY <1>2, <1>4, <1>7
<1>9. [count |-> Cardinality(S \cup {f}) - 1, size |-> g[n] - more] = Counter(S)
  BY <1>2, <1>3, <1>7
<1>10. AddOne(Counter(S), f) = [count |-> Cardinality(S) + 1, size |-> h[n] + more]
  BY <1>3 DEF AddOne, more
<1>11. SubOne(Counter(S \cup {f}), f) = [count |-> Cardinality(S \cup {f}) - 1, size |-> g[n] - more]
  BY <1>4 DEF SubOne, more
<1> QED
  BY <1>8, <1>9, <1>10, <1>11

-----------------------------------------------------------------------------
(* A panel: its fields, and what is to hold of them.                       *)

Names == DOMAIN PnSize
PnFields == {"places", "of", "files", "list", "selected", "counter", "current", "mode", "asc",
             "hidden", "shift", "loc"}
Shape(p) ==
    /\ DOMAIN p = PnFields
    /\ p.files \in SUBSET Names /\ p.mode \in {"none", "name", "size"}
    /\ p.current \in Int /\ p.loc \in Int
    /\ p.of \in {Last(p.places).path, "archive"}  \* an archive that has been left is still shown

\* The list has the files shown, each once; in order; those marked are among them.
Listed(p) ==
    /\ p.list \in Seq(Names) /\ Len(p.list) = Cardinality(Shown(p))
    /\ ToSet(p.list) = Shown(p) /\ IsInjective(p.list)
Ordered(p) ==
    p.mode # "none" =>
        \A i, j \in DOMAIN p.list : i < j => Precedes(p, p.list[i], p.list[j])
Marks(p) == p.selected \subseteq Shown(p) /\ p.counter = Counter(p.selected)
Within(p) == p.current \in 0..Max({0, CountAsRead(p) - 1})

LEMMA ShownAre ==
    ASSUME NEW p, Shape(p)
    PROVE  Shown(p) \in SUBSET Names /\ IsFiniteSet(Shown(p))
<1>1. Shown(p) \in SUBSET Names
  BY DEF Shown, Shape
<1> QED
  BY <1>1, NamesAre, FS_Subset DEF Names

LEMMA NamesOrdered ==
    ASSUME NEW S \in SUBSET Names
    PROVE  Orders({x \in S \X S : x[1] > x[2]}, S)
<1>1. \A f \in S : f \in Int
  BY NamesAre DEF Names
<1> QED
  BY <1>1 DEF Orders

LEMMA PrecedesOrders ==
    ASSUME NEW p, p.mode \in {"name", "size"}, NEW S \in SUBSET Names
    PROVE  Orders({x \in S \X S : Precedes(p, x[1], x[2])}, S)
<1> DEFINE byName(a, b) == IF p.asc THEN a < b ELSE b < a
           bySize(a, b) == (IF p.asc THEN PnSize[a] < PnSize[b] ELSE PnSize[a] > PnSize[b])
                           \/ (PnSize[a] = PnSize[b] /\ a < b)
           less(a, b) == (p.mode = "name" /\ byName(a, b)) \/ (p.mode = "size" /\ bySize(a, b))
           first(a) == a \in PnDirs
<1>1. \A f \in S : f \in Int /\ PnSize[f] \in Int
  BY NamesAre DEF Names
<1>2. \A a, b \in S : Precedes(p, a, b) <=> (first(a) /\ ~first(b)) \/ ((first(a) <=> first(b)) /\ less(a, b))
  <2>1. CASE p.mode = "name"
    BY <2>1 DEF Precedes
  <2>2. CASE p.mode = "size"
    BY <2>2 DEF Precedes
  <2> QED
    BY <2>1, <2>2
<1>3. /\ \A f \in S : ~byName(f, f)
      /\ \A f, g \in S : f # g => byName(f, g) \/ byName(g, f)
      /\ \A f, g, h \in S : byName(f, g) /\ byName(g, h) => byName(f, h)
  BY <1>1
<1>4. \A f \in S : ~bySize(f, f)
  BY <1>1
<1>5. \A f, g \in S : f # g => bySize(f, g) \/ bySize(g, f)
  BY <1>1
<1>6. \A f, g, h \in S : bySize(f, g) /\ bySize(g, h) => bySize(f, h)
  <2>1. CASE p.asc
    BY <1>1, <2>1
  <2>2. CASE ~p.asc
    BY <1>1, <2>2
  <2> QED
    BY <2>1, <2>2
<1> HIDE DEF byName, bySize
<1>7. /\ \A f \in S : ~less(f, f)
      /\ \A f, g \in S : f # g => less(f, g) \/ less(g, f)
      /\ \A f, g, h \in S : less(f, g) /\ less(g, h) => less(f, h)
  BY <1>3, <1>4, <1>5, <1>6
<1> HIDE DEF less, first
<1>8. \A f \in S : ~Precedes(p, f, f)
  BY <1>2, <1>7
<1>9. \A f, g \in S : f # g => Precedes(p, f, g) \/ Precedes(p, g, f)
  BY <1>2, <1>7
<1>10. \A f, g, h \in S : Precedes(p, f, g) /\ Precedes(p, g, h) => Precedes(p, f, h)
  BY <1>2, <1>7
<1> QED
  BY <1>8, <1>9, <1>10 DEF Orders

\* The fields that decide what is listed.
SameSettings(q, p) ==
    /\ q.places = p.places /\ q.files = p.files /\ q.mode = p.mode /\ q.asc = p.asc
    /\ q.hidden = p.hidden /\ q.current = p.current /\ q.loc = p.loc /\ q.of = p.of

LEMMA ArrangedList ==
    ASSUME NEW S \in SUBSET Names, NEW before, Orders(before, S), NEW list,
           list = Arranged(S, before)
    PROVE  /\ list \in Seq(Names) /\ Len(list) = Cardinality(S)
           /\ ToSet(list) = S /\ IsInjective(list)
           /\ \A i, j \in DOMAIN list : i < j => <<list[i], list[j]>> \in before
<1>1. IsFiniteSet(S)
  BY NamesAre, FS_Subset DEF Names
<1>2. list \in Seq(S) /\ Len(list) = Cardinality(S) /\ ToSet(list) = S
      /\ \A i, j \in DOMAIN list :
           /\ list[i] = list[j] => i = j
           /\ i < j => <<list[i], list[j]>> \in before
  BY <1>1, ArrangedIs
<1>3. list \in Seq(Names)
  BY <1>2, SeqMonotonic
<1> QED
  BY <1>2, <1>3 DEF IsInjective

LEMMA MakeListIs ==
    ASSUME NEW p, Shape(p), NEW q, q = MakeList(p)
    PROVE  Shape(q) /\ Listed(q) /\ Marks(q) /\ SameSettings(q, p) /\ q.shift = p.shift
<1> DEFINE S == Shown(p)
           before == {x \in S \X S : x[1] > x[2]}
<1>1. /\ DOMAIN q = PnFields /\ SameSettings(q, p) /\ q.shift = p.shift
      /\ q.list = Arranged(S, before)
      /\ q.selected = p.selected \cap S /\ q.counter = Counter(p.selected \cap S)
  BY DEF MakeList, Shape, PnFields, SameSettings
<1>2. Shown(q) = S /\ Shape(q)
  BY <1>1 DEF Shown, SameSettings, Shape
<1>3. S \in SUBSET Names
  BY ShownAre
<1>4. Orders(before, S)
  BY <1>3, NamesOrdered
<1> HIDE DEF before
<1>5. /\ q.list \in Seq(Names) /\ Len(q.list) = Cardinality(S)
      /\ ToSet(q.list) = S /\ IsInjective(q.list)
  BY <1>1, <1>3, <1>4, ArrangedList
<1> QED
  BY <1>1, <1>2, <1>5 DEF Listed, Marks

LEMMA SortedIs ==
    ASSUME NEW p, Shape(p), Listed(p), NEW q, q = Sorted(p)
    PROVE  /\ Shape(q) /\ Listed(q) /\ Ordered(q) /\ SameSettings(q, p)
           /\ q.shift = p.shift /\ q.selected = p.selected /\ q.counter = p.counter
<1>1. CASE p.mode = "none"
  BY <1>1 DEF Sorted, Ordered, SameSettings
<1>2. CASE p.mode # "none"
  <2> DEFINE S == ToSet(p.list)
             before == {x \in S \X S : Precedes(p, x[1], x[2])}
  <2>1. /\ DOMAIN q = PnFields /\ SameSettings(q, p)
        /\ q.shift = p.shift /\ q.selected = p.selected /\ q.counter = p.counter
        /\ q.list = Arranged(S, before)
    BY <1>2 DEF Sorted, Shape, PnFields, SameSettings
  <2>2. Shown(q) = S /\ Shape(q) /\ S = Shown(p)
    BY <2>1 DEF Shown, SameSettings, Shape, Listed
  <2>3. S \in SUBSET Names /\ p.mode \in {"name", "size"}
    BY <1>2, <2>2, ShownAre DEF Shape
  <2>4. Orders(before, S)
    BY <2>3, PrecedesOrders
  <2>5. \A f, g : <<f, g>> \in before => Precedes(p, f, g)
    OBVIOUS
  <2>6. \A f, g : Precedes(q, f, g) = Precedes(p, f, g)
    BY <2>1 DEF Precedes, SameSettings
  <2> HIDE DEF before, S
  <2>7. /\ q.list \in Seq(Names) /\ Len(q.list) = Cardinality(S)
        /\ ToSet(q.list) = S /\ IsInjective(q.list)
        /\ \A i, j \in DOMAIN q.list : i < j => <<q.list[i], q.list[j]>> \in before
    BY <2>1, <2>3, <2>4, ArrangedList
  <2>8. Ordered(q)
    BY <2>5, <2>6, <2>7 DEF Ordered
  <2> QED
    BY <2>1, <2>2, <2>7, <2>8 DEF Listed
<1> QED
  BY <1>1, <1>2

-----------------------------------------------------------------------------
(* The cursor and the marks: SetCurrent and ShiftSelection.                *)

LEMMA CursorBounds ==
    ASSUME NEW n \in Int, NEW c \in Int
    PROVE  /\ Max({0, c}) = IF c > 0 THEN c ELSE 0
           /\ Min({n, c}) = IF n <= c THEN n ELSE c
<1>1. Max({0, c}) = IF c > 0 THEN c ELSE 0
  <2>1. PICK m : m = IF c > 0 THEN c ELSE 0
    OBVIOUS
  <2>2. m \in {0, c} /\ \A y \in {0, c} : m >= y
    BY <2>1
  <2>3. \A x \in {0, c} : (\A y \in {0, c} : x >= y) => x = m
    BY <2>1
  <2>4. Max({0, c}) = m
    BY <2>2, <2>3 DEF Max
  <2> QED
    BY <2>1, <2>4
<1>2. Min({n, c}) = IF n <= c THEN n ELSE c
  <2>1. PICK m : m = IF n <= c THEN n ELSE c
    OBVIOUS
  <2>2. m \in {n, c} /\ \A y \in {n, c} : m <= y
    BY <2>1
  <2>3. \A x \in {n, c} : (\A y \in {n, c} : x <= y) => x = m
    BY <2>1
  <2>4. Min({n, c}) = m
    BY <2>2, <2>3 DEF Min
  <2> QED
    BY <2>1, <2>4
<1> QED
  BY <1>1, <1>2

LEMMA CountIs ==
    ASSUME NEW p, Shape(p), Listed(p)
    PROVE  /\ Offset(p) \in {0, 1} /\ Count(p) = Len(p.list) + Offset(p)
           /\ Len(p.list) \in Nat /\ DOMAIN p.list = 1..Len(p.list) /\ Count(p) \in Nat
           /\ CountAsRead(p) \in Nat /\ Count(p) <= CountAsRead(p)
           /\ CountAsRead(p) # Count(p) => Top(p) = "/" /\ p.of = "archive"
<1>1. p.list \in Seq(Names)
  BY DEF Listed
<1>2. Len(p.list) \in Nat /\ DOMAIN p.list = 1..Len(p.list)
  BY <1>1, LenProperties
<1>3. Offset(p) = IF Top(p) = "/" THEN 0 ELSE 1
  BY DEF Offset, ShowsDots
<1>4. CountAsRead(p) = Len(p.list) + (IF p.of # "/" THEN 1 ELSE 0)
  BY DEF CountAsRead
<1>5. p.of = Top(p) \/ p.of = "archive"
  BY DEF Shape, Top
<1>6. CASE p.of = Top(p)
  <2>1. CountAsRead(p) = Count(p)
    BY <1>3, <1>4, <1>6 DEF Count
  <2>2. Offset(p) \in {0, 1} /\ Count(p) = Len(p.list) + Offset(p)
    BY <1>3 DEF Count
  <2> QED
    BY <1>2, <2>1, <2>2
<1>7. CASE p.of = "archive" /\ Top(p) # "archive"
  <2>1. CountAsRead(p) = Len(p.list) + 1
    BY <1>4, <1>7
  <2>2. CASE Top(p) = "/"
    <3>1. Offset(p) = 0 /\ Count(p) = Len(p.list) + 0
      BY <1>3, <2>2 DEF Count
    <3> QED
      BY <1>2, <1>7, <2>1, <2>2, <3>1
  <2>3. CASE Top(p) # "/"
    <3>1. Offset(p) = 1 /\ Count(p) = Len(p.list) + 1
      BY <1>3, <2>3 DEF Count
    <3> QED
      BY <1>2, <2>1, <3>1
  <2> QED
    BY <2>2, <2>3
<1> QED
  BY <1>5, <1>6, <1>7

\* The entry of a line is a file shown, or none.
LEMMA GetIs ==
    ASSUME NEW p, Listed(p), NEW n
    PROVE  /\ Get(p, n) = NoFile \/ Get(p, n) \in Shown(p)
           /\ 0 \notin Names
<1>1. \A i \in DOMAIN p.list : p.list[i] \in ToSet(p.list)
  BY DEF ToSet
<1> QED
  BY <1>1, NamesAre DEF Get, Listed, Names

LEMMA FindNameIs ==
    ASSUME NEW p, Shape(p), Listed(p), NEW name
    PROVE  /\ FindName(p, name) \in Int
           /\ FindName(p, name) >= 0 <=> name \in ToSet(p.list)
           /\ name \in ToSet(p.list) =>
                /\ FindName(p, name) \in 0..Count(p) - 1
                /\ FindName(p, name) - Offset(p) + 1 \in DOMAIN p.list
                /\ p.list[FindName(p, name) - Offset(p) + 1] = name
<1>1. /\ Offset(p) \in {0, 1} /\ Count(p) = Len(p.list) + Offset(p)
      /\ Len(p.list) \in Nat /\ DOMAIN p.list = 1..Len(p.list)
  BY CountIs
<1>2. name \in ToSet(p.list) <=> Contains(p.list, name)
  BY <1>1 DEF ToSet, Contains
<1>3. CASE Contains(p.list, name)
  <2> DEFINE i == CHOOSE k \in DOMAIN p.list : p.list[k] = name
  <2>1. i \in DOMAIN p.list /\ p.list[i] = name
    BY <1>1, <1>3 DEF Contains
  <2>2. FindName(p, name) = i - 1 + Offset(p)
    BY <1>3 DEF FindName
  <2> HIDE DEF i
  <2>3. i \in 1..Len(p.list) /\ i \in Int
    BY <1>1, <2>1
  <2>4. FindName(p, name) \in 0..Count(p) - 1 /\ FindName(p, name) - Offset(p) + 1 = i
    BY <1>1, <2>2, <2>3
  <2> QED
    BY <1>2, <1>3, <2>1, <2>4
<1>4. CASE ~Contains(p.list, name)
  BY <1>2, <1>4 DEF FindName
<1> QED
  BY <1>3, <1>4

\* p with other files marked.
Remarked(q, p) == SameSettings(q, p) /\ q.list = p.list /\ Shape(q) /\ Marks(q)

\* What becomes of p when x is marked and the keys hold z.
With(p, x, z) == [p EXCEPT !.selected = x, !.counter = Counter(x), !.shift = z]
Markings(p) == {p} \cup {With(p, x, z) : x \in SUBSET Shown(p), z \in {p.shift, "on", "off"}}

LEMMA MarkingIs ==
    ASSUME NEW p, Shape(p), Marks(p), NEW q \in Markings(p)
    PROVE  /\ Remarked(q, p) /\ Shown(q) = Shown(p)
           /\ q.shift \in {p.shift, "on", "off"}
<1>1. CASE q = p
  BY <1>1 DEF Remarked, SameSettings
<1>2. ASSUME NEW x \in SUBSET Shown(p), NEW z \in {p.shift, "on", "off"}, q = With(p, x, z)
      PROVE  Remarked(q, p) /\ Shown(q) = Shown(p) /\ q.shift \in {p.shift, "on", "off"}
  <2>1. DOMAIN q = PnFields /\ SameSettings(q, p) /\ q.list = p.list
        /\ q.selected = x /\ q.counter = Counter(x) /\ q.shift = z
    BY <1>2 DEF With, Shape, PnFields, SameSettings
  <2>2. Shown(q) = Shown(p)
    BY <2>1 DEF Shown, SameSettings
  <2> QED
    BY <2>1, <2>2 DEF Remarked, Marks, Shape, SameSettings
<1> QED
  BY <1>1, <1>2 DEF Markings

LEMMA MarkingAgain ==
    ASSUME NEW p, Shape(p), Marks(p), NEW q \in Markings(p),
           NEW z \in {p.shift, "on", "off"}, NEW x \in SUBSET Shown(p)
    PROVE  /\ [q EXCEPT !.shift = z] \in Markings(p)
           /\ With(q, x, z) \in Markings(p)
<1>1. ASSUME NEW y \in SUBSET Shown(p), NEW w \in {p.shift, "on", "off"}, q = With(p, y, w)
      PROVE  [q EXCEPT !.shift = z] = With(p, y, z) /\ With(q, x, z) = With(p, x, z)
  BY <1>1 DEF With, Shape, PnFields
<1>2. CASE q = p
  <2>1. [p EXCEPT !.shift = z] = With(p, p.selected, z)
    BY DEF With, Shape, PnFields, Marks
  <2>2. p.selected \in SUBSET Shown(p)
    BY DEF Marks
  <2> QED
    BY <1>2, <2>1, <2>2 DEF Markings
<1> QED
  BY <1>1, <1>2 DEF Markings

LEMMA ShiftSelectionIs ==
    ASSUME NEW p, Shape(p), Listed(p), Marks(p), NEW q \in Markings(p), NEW n, NEW last
    PROVE  ShiftSelection(q, n, last) \in Markings(p)
<1> DEFINE f == Get(q, n)
           type == IF last THEN "off"
                   ELSE IF q.shift # "undefined" THEN q.shift
                   ELSE IF f \in q.selected THEN "off" ELSE "on"
           r == IF last THEN q ELSE [q EXCEPT !.shift = type]
           on == With(r, r.selected \cup {f}, r.shift)
           off == With(r, r.selected \ {f}, r.shift)
<1>1. Remarked(q, p) /\ Shown(q) = Shown(p) /\ q.shift \in {p.shift, "on", "off"} /\ Listed(q)
  BY MarkingIs DEF Remarked, Listed
<1>2. f = NoFile \/ f \in Shown(p)
  BY <1>1, GetIs
<1>3. type \in {p.shift, "on", "off"}
  BY <1>1
<1> HIDE DEF f, type
<1>4. q.selected \in SUBSET Shown(p)
  BY <1>1 DEF Remarked, Marks
<1>5. r \in Markings(p)
  BY <1>3, <1>4, MarkingAgain
<1> HIDE DEF r
<1>6. Remarked(r, p) /\ Shown(r) = Shown(p) /\ r.shift \in {p.shift, "on", "off"}
  BY <1>5, MarkingIs
<1>7. r.selected \in SUBSET Shown(p) /\ r.counter = Counter(r.selected) /\ DOMAIN r = PnFields
  BY <1>6 DEF Remarked, Marks, Shape
<1>8. r.selected = q.selected
  BY <1>1 DEF r, Remarked, Shape, PnFields
<1>9. Shown(p) \in SUBSET Names
  BY ShownAre
<1>10. ASSUME f \in Shown(p), f \notin q.selected
       PROVE  [r EXCEPT !.selected = @ \cup {f}, !.counter = AddOne(@, f)] \in Markings(p)
  <2>1. r.selected \cup {f} \in SUBSET Shown(p)
    BY <1>7, <1>10
  <2>2. AddOne(r.counter, f) = Counter(r.selected \cup {f})
    BY <1>7, <1>8, <1>9, <1>10, CounterAdd DEF Names
  <2>3. [r EXCEPT !.selected = @ \cup {f}, !.counter = AddOne(@, f)] = on
    BY <1>7, <2>2 DEF With, PnFields
  <2>4. on \in Markings(p)
    BY <1>5, <1>6, <2>1, MarkingAgain
  <2> QED
    BY <2>3, <2>4
<1>11. ASSUME f \in Shown(p), f \in q.selected
       PROVE  [r EXCEPT !.selected = @ \ {f}, !.counter = SubOne(@, f)] \in Markings(p)
  <2>1. r.selected \ {f} \in SUBSET Shown(p)
    BY <1>7
  <2>2. SubOne(r.counter, f) = Counter(r.selected \ {f})
    <3> DEFINE rest == r.selected \ {f}
    <3>1. rest \in SUBSET DOMAIN PnSize /\ f \in DOMAIN PnSize /\ f \notin rest
          /\ rest \cup {f} = r.selected
      BY <1>7, <1>8, <1>9, <1>11 DEF Names
    <3> HIDE DEF rest
    <3>2. SubOne(Counter(rest \cup {f}), f) = Counter(rest)
      BY <3>1, CounterAdd
    <3> QED
      BY <1>7, <3>1, <3>2 DEF rest
  <2>3. [r EXCEPT !.selected = @ \ {f}, !.counter = SubOne(@, f)] = off
    BY <1>7, <2>2 DEF With, PnFields
  <2>4. off \in Markings(p)
    BY <1>5, <1>6, <2>1, MarkingAgain
  <2> QED
    BY <2>3, <2>4
<1>12. ShiftSelection(q, n, last) =
         IF f = NoFile THEN q
         ELSE IF (type = "on") = (f \in q.selected) THEN r
         ELSE IF type = "on" THEN [r EXCEPT !.selected = @ \cup {f}, !.counter = AddOne(@, f)]
         ELSE [r EXCEPT !.selected = @ \ {f}, !.counter = SubOne(@, f)]
  BY DEF ShiftSelection, f, type, r
<1> HIDE DEF on, off
<1> QED
  BY <1>2, <1>5, <1>10, <1>11, <1>12

LEMMA ShiftToIs ==
    ASSUME NEW p, Shape(p), Listed(p), Marks(p), NEW n \in Int, NEW selectLast
    PROVE  ShiftTo(p, n, selectLast) \in Markings(p)
<1> DEFINE move == IF p.current < n THEN 1 ELSE -1
           far == IF p.current < n THEN n - p.current ELSE p.current - n
           OneShift(q, i) == ShiftSelection(q, p.current + i * move, i = far /\ i > 0 /\ ~selectLast)
           S == Markings(p)
           step == [x \in S \X (1..far) |-> OneShift(x[1], x[2])]
           F(f) == [i \in 0..far |->
                      ShiftSelection(IF i = 0 THEN p ELSE f[i - 1], p.current + i * move,
                                     i = far /\ i > 0 /\ ~selectLast)]
           h == CHOOSE f : f = F(f)
<1>1. far \in Nat
  BY DEF Shape
<1>2. ShiftTo(p, n, selectLast) = h[far]
  BY DEF ShiftTo
<1> HIDE DEF far, move
<1>3. p \in S /\ \A q \in S : \A i : OneShift(q, i) \in S
  BY ShiftSelectionIs DEF Markings
<1>4. \A f : F(f) = [i \in 0..far |-> OneShift(IF i = 0 THEN p ELSE f[i - 1], i)]
  OBVIOUS
<1> HIDE DEF S, OneShift, F
<1>5. step \in [S \X (1..far) -> S] /\ \A q \in S, i \in 1..far : step[<<q, i>>] = OneShift(q, i)
  BY <1>3
<1> HIDE DEF step
<1>6. OneShift(p, 0) \in S
  BY <1>3
<1>7. PICK f \in [0..far -> S] : Follows(f, far, OneShift(p, 0), step)
  BY <1>1, <1>5, <1>6, FollowsExists
<1>8. f = F(f)
  <2>1. ASSUME NEW i \in 0..far
        PROVE  f[i] = OneShift(IF i = 0 THEN p ELSE f[i - 1], i)
    <3>1. CASE i # 0
      <4>1. i \in 1..far /\ i - 1 \in 0..far /\ f[i - 1] \in S
        BY <1>1, <3>1
      <4> QED
        BY <1>5, <1>7, <3>1, <4>1 DEF Follows
    <3> QED
      BY <1>7, <3>1 DEF Follows
  <2> QED
    BY <1>4, <2>1
<1>9. h = F(h)
  BY <1>8
<1> HIDE DEF h
<1>10. h = [i \in 0..far |-> OneShift(IF i = 0 THEN p ELSE h[i - 1], i)]
  BY <1>4, <1>9
<1>11. \A i \in 0..far : h[i] = OneShift(IF i = 0 THEN p ELSE h[i - 1], i)
  BY <1>10
<1> DEFINE wrong == {i \in 0..far : h[i] \notin S}
<1>12. wrong = {}
  <2> SUFFICES ASSUME wrong # {}
               PROVE  FALSE
    OBVIOUS
  <2>1. wrong \subseteq Nat
    BY <1>1
  <2>2. PICK i \in wrong : \A j \in wrong : i <= j
    BY <2>1, LeastNumber
  <2>3. CASE i = 0
    BY <1>3, <1>11, <2>2, <2>3
  <2>4. CASE i # 0
    <3>1. i - 1 \in 0..far /\ ~(i <= i - 1)
      BY <1>1, <2>2, <2>4
    <3>2. h[i - 1] \in S
      BY <2>2, <3>1
    <3>3. h[i] = OneShift(h[i - 1], i)
      BY <1>11, <2>2, <2>4
    <3> QED
      BY <1>3, <2>2, <3>2, <3>3
  <2> QED
    BY <2>3, <2>4
<1>13. far \in 0..far
  BY <1>1
<1> QED
  BY <1>2, <1>12, <1>13 DEF S

\* q is p with the cursor at n, or as near to it as the list allows.
CursorPut(q, p, n) ==
    /\ Shape(q) /\ Listed(q) /\ Marks(q) /\ Within(q)
    /\ Ordered(p) => Ordered(q)
    /\ q.list = p.list /\ q.places = p.places /\ q.mode = p.mode
    /\ q.current = IF n <= Count(p) - 1 THEN (IF n > 0 THEN n ELSE 0)
                   ELSE (IF Count(p) > 0 THEN Count(p) - 1 ELSE 0)

\* SetCurrent puts the cursor into the list, and marks no file that is not in it.
LEMMA SetCurrentIs ==
    ASSUME NEW p, Shape(p), Listed(p), Marks(p), NEW n \in Int, NEW shift, NEW selectLast,
           NEW q, q = SetCurrent(p, n, shift, selectLast)
    PROVE  CursorPut(q, p, n)
<1> DEFINE k == Max({0, Min({n, Count(p) - 1})})
           r == IF shift THEN ShiftTo(p, k, selectLast \/ k # n) ELSE p
<1>1. Count(p) \in Nat /\ CountAsRead(p) \in Nat /\ Count(p) <= CountAsRead(p)
  BY CountIs
<1>2. k = IF n <= Count(p) - 1 THEN (IF n > 0 THEN n ELSE 0)
          ELSE (IF Count(p) > 0 THEN Count(p) - 1 ELSE 0)
  <2> DEFINE c == Count(p) - 1
             m == Min({n, c})
  <2>1. c \in Int /\ (c > 0 => c = Count(p) - 1) /\ (c > 0 \/ c = 0 <=> Count(p) > 0)
    BY <1>1
  <2> HIDE DEF c
  <2>2. m = IF n <= c THEN n ELSE c
    BY <2>1, CursorBounds
  <2>3. m \in Int
    BY <2>1, <2>2
  <2>4. k = Max({0, m})
    BY DEF c
  <2> HIDE DEF m, k
  <2>5. k = IF m > 0 THEN m ELSE 0
    BY <2>3, <2>4, CursorBounds
  <2> QED
    BY <1>1, <2>2, <2>5 DEF c
<1>3. q = [r EXCEPT !.current = k]
  BY DEF SetCurrent
<1> HIDE DEF k
<1>4. k \in Int
  BY <1>1, <1>2
<1>5. r \in Markings(p)
  <2>1. p \in Markings(p)
    BY DEF Markings
  <2>2. ShiftTo(p, k, selectLast \/ k # n) \in Markings(p)
    BY <1>4, ShiftToIs
  <2> QED
    BY <2>1, <2>2
<1> HIDE DEF r
<1>6. Remarked(r, p) /\ Shown(r) = Shown(p)
  BY <1>5, MarkingIs
<1>7. /\ DOMAIN q = PnFields /\ q.current = k
      /\ q.list = p.list /\ q.places = p.places /\ q.files = p.files /\ q.mode = p.mode
      /\ q.asc = p.asc /\ q.hidden = p.hidden /\ q.loc = p.loc /\ q.of = p.of
      /\ q.selected = r.selected /\ q.counter = r.counter
  BY <1>3, <1>6 DEF Remarked, Shape, PnFields, SameSettings
<1>8. /\ Shown(q) = Shown(p) /\ CountAsRead(q) = CountAsRead(p)
      /\ \A f, g : Precedes(q, f, g) = Precedes(p, f, g)
  BY <1>7 DEF Shown, CountAsRead, Precedes
<1>9. Shape(q) /\ Listed(q) /\ Marks(q)
  BY <1>4, <1>6, <1>7, <1>8 DEF Shape, Listed, Marks, Remarked
<1>10. Ordered(p) => Ordered(q)
  BY <1>7, <1>8 DEF Ordered
<1>11. Within(q)
  <2> DEFINE c == CountAsRead(p) - 1
  <2>1. c \in Int
    BY <1>1
  <2>2. Max({0, c}) = IF c > 0 THEN c ELSE 0
    BY <2>1, CursorBounds
  <2>3. k \in 0..Max({0, c})
    BY <1>1, <1>2, <2>2
  <2> QED
    BY <1>7, <1>8, <2>3 DEF Within
<1> QED
  BY <1>2, <1>7, <1>9, <1>10, <1>11 DEF CursorPut

LEMMA SetCurrentPlain ==
    ASSUME NEW p, Shape(p), Listed(p), Marks(p), NEW n \in Int,
           NEW q, q = SetCurrent(p, n, FALSE, FALSE)
    PROVE  CursorPut(q, p, n)
<1>1. PICK no : no = FALSE
  OBVIOUS
<1>2. q = SetCurrent(p, n, no, no)
  BY <1>1
<1> QED
  BY <1>2, SetCurrentIs

-----------------------------------------------------------------------------
(***************************************************************************)
(* The inductive invariant: the panel with what is read for it.            *)
(***************************************************************************)
Fine(p) == Shape(p) /\ Listed(p) /\ Ordered(p) /\ Marks(p) /\ Within(p)

\* One goes from "/" to "/d" in one place; only the archive is put on top of one of them.
PnPlaces == [path : {"/", "/d", "archive"}, current : Int]
PlacesOK(ps) ==
    /\ ps \in Seq(PnPlaces)
    /\ \/ Len(ps) = 1 /\ ps[1].path \in {"/", "/d"}
       \/ Len(ps) = 2 /\ ps[1].path \in {"/", "/d"} /\ ps[2].path = "archive"
LoadOK(l, ps) ==
    l.state = "reads" =>
        \/ l.type = "push" /\ l.path = "archive" /\ Len(ps) = 1
        \/ l.type = "reset" /\ Len(ps) = 2 /\ l.path = "archive"
        \/ l.type = "reset" /\ Len(ps) = 1 /\ l.path \in {"/", "/d"}

PnInv == Fine(pn) /\ PlacesOK(pn.places) /\ LoadOK(pnLoad, pn.places)

LEMMA ExactFromInv == PnInv => PanelExact
<1> SUFFICES ASSUME PnInv
             PROVE  PanelExact
  OBVIOUS
<1>1. /\ ToSet(pn.list) = Shown(pn) /\ IsInjective(pn.list)
      /\ pn.selected \subseteq ToSet(pn.list) /\ pn.counter = Counter(pn.selected)
      /\ pn.current \in 0..Max({0, CountAsRead(pn) - 1})
  BY DEF PnInv, Fine, Listed, Marks, Within
<1>2. CountAsRead(pn) # Count(pn) => Top(pn) = "/" /\ pn.of = "archive"
  BY CountIs DEF PnInv, Fine
<1>3. pn.current > Max({0, Count(pn) - 1}) => CountAsRead(pn) # Count(pn)
  <2>1. CASE CountAsRead(pn) = Count(pn)
    <3> DEFINE c == Count(pn) - 1
    <3>1. c \in Int
      BY CountIs DEF PnInv, Fine
    <3>2. Max({0, c}) = IF c > 0 THEN c ELSE 0
      BY <3>1, CursorBounds
    <3>3. pn.current \in 0..Max({0, c})
      BY <1>1, <2>1
    <3> HIDE DEF c
    <3>4. ~(pn.current > Max({0, c}))
      BY <3>1, <3>2, <3>3
    <3> QED
      BY <3>4 DEF c
  <2> QED
    BY <2>1
<1> QED
  BY <1>1, <1>2, <1>3 DEF PnInv, Fine, PanelExact, Ordered

LEMMA EmptyList == << >> \in Seq(Names) /\ Len(<< >>) = 0 /\ DOMAIN << >> = {} /\ ToSet(<< >>) = {}
<1>1. << >> \in Seq(Names) /\ Len(<< >>) = 0
  BY EmptySeq
<1>2. DOMAIN << >> = {}
  BY <1>1, LenProperties
<1> QED
  BY <1>1, <1>2 DEF ToSet

LEMMA PnInitial == PanelInit => PnInv
<1> SUFFICES ASSUME PanelInit
             PROVE  PnInv
  OBVIOUS
<1> DEFINE root == Place("/", NoFile)
<1>1. /\ DOMAIN pn = PnFields /\ pn.places = <<root>> /\ pn.files = {} /\ pn.list = << >>
      /\ pn.selected = {} /\ pn.counter = Counter({}) /\ pn.current = 0
      /\ pn.mode = "name" /\ pn.loc = 0 /\ pn.of = "/"
  BY DEF PanelInit, PnFields
<1>2. Shown(pn) = {} /\ Cardinality({}) = 0
  BY <1>1, FS_EmptySet DEF Shown
<1>3. Shape(pn)
  <2>1. Last(pn.places) = root /\ root.path = "/"
    BY <1>1 DEF Last, Place
  <2> HIDE DEF root
  <2> QED
    BY <1>1, <2>1 DEF Shape
<1>4. Listed(pn) /\ Ordered(pn) /\ Marks(pn)
  BY <1>1, <1>2, EmptyList DEF Listed, Ordered, Marks, IsInjective
<1>5. CountAsRead(pn) \in Nat
  BY <1>3, <1>4, CountIs
<1>6. Within(pn)
  <2> DEFINE c == CountAsRead(pn) - 1
  <2>1. c \in Int
    BY <1>5
  <2>2. Max({0, c}) = IF c > 0 THEN c ELSE 0
    BY <2>1, CursorBounds
  <2> HIDE DEF c
  <2>3. 0 \in 0..Max({0, c})
    BY <2>1, <2>2
  <2> QED
    BY <1>1, <2>3 DEF Within, c
<1>7. PlacesOK(pn.places)
  <2>1. root \in PnPlaces /\ root.path = "/"
    BY DEF Place, PnPlaces, NoFile
  <2> HIDE DEF root
  <2> QED
    BY <1>1, <2>1 DEF PlacesOK
<1>8. LoadOK(pnLoad, pn.places)
  BY DEF PanelInit, LoadOK
<1> QED
  BY <1>3, <1>4, <1>6, <1>7, <1>8 DEF PnInv, Fine

LEMMA KeptFine ==
    ASSUME NEW p, Shape(p), Listed(p), NEW q, DOMAIN q = PnFields, SameSettings(q, p), q.list = p.list
    PROVE  /\ Shape(q) /\ Listed(q) /\ Shown(q) = Shown(p) /\ Count(q) = Count(p)
           /\ Ordered(p) => Ordered(q)
           /\ Within(p) => Within(q)
<1>1. /\ Shown(q) = Shown(p) /\ Count(q) = Count(p) /\ CountAsRead(q) = CountAsRead(p)
      /\ \A f, g : Precedes(q, f, g) = Precedes(p, f, g)
  BY DEF SameSettings, Shown, Count, CountAsRead, Offset, ShowsDots, Top, Precedes
<1>2. Shape(q) /\ Listed(q)
  BY <1>1 DEF Shape, Listed, SameSettings
<1>3. (Ordered(p) => Ordered(q)) /\ (Within(p) => Within(q))
  BY <1>1 DEF Ordered, Within, SameSettings
<1> QED
  BY <1>1, <1>2, <1>3

LEMMA MarkedIs ==
    ASSUME NEW p, Shape(p), Listed(p), NEW S \in SUBSET Shown(p), NEW q, q = Marked(p, S)
    PROVE  /\ Shape(q) /\ Listed(q) /\ Marks(q) /\ q.places = p.places /\ q.list = p.list
           /\ Ordered(p) => Ordered(q)
           /\ Within(p) => Within(q)
           /\ q.mode = p.mode /\ q.loc = p.loc /\ Shown(q) = Shown(p) /\ Count(q) = Count(p)
           /\ SameSettings(q, p)
<1>1. /\ DOMAIN q = PnFields /\ SameSettings(q, p) /\ q.list = p.list
      /\ q.selected = S /\ q.counter = Counter(S)
  BY DEF Marked, Shape, PnFields, SameSettings
<1> QED
  BY <1>1, KeptFine DEF Marks, SameSettings

LEMMA KeyedIs ==
    ASSUME Fine(pn), NEW shift, NEW q, q = Keyed(shift)
    PROVE  Fine(q) /\ q.places = pn.places /\ q.list = pn.list
<1>1. CASE q = pn
  BY <1>1
<1>2. CASE q = [pn EXCEPT !.shift = "undefined"]
  <2>1. /\ DOMAIN q = PnFields /\ SameSettings(q, pn) /\ q.list = pn.list
        /\ q.selected = pn.selected /\ q.counter = pn.counter
    BY <1>2 DEF Fine, Shape, PnFields, SameSettings
  <2>2. Shape(q) /\ Listed(q) /\ Shown(q) = Shown(pn) /\ Count(q) = Count(pn) /\ Ordered(q) /\ Within(q)
    BY <2>1, KeptFine DEF Fine
  <2> QED
    BY <2>1, <2>2 DEF Fine, Marks, SameSettings
<1> QED
  BY <1>1, <1>2 DEF Keyed

LEMMA InvertedIs ==
    ASSUME NEW p, Fine(p), NEW f, f = NoFile \/ f \in Shown(p), NEW q, q = Inverted(p, f)
    PROVE  Fine(q) /\ q.places = p.places /\ q.list = p.list
<1>1. CASE q = p
  BY <1>1
<1>2. Shown(p) \in SUBSET Names
  BY ShownAre DEF Fine
<1>3. ASSUME f \in Shown(p), f \in p.selected,
             q = [p EXCEPT !.selected = @ \ {f}, !.counter = SubOne(@, f)]
      PROVE  Fine(q) /\ q.places = p.places /\ q.list = p.list
  <2> DEFINE rest == p.selected \ {f}
  <2>1. rest \in SUBSET DOMAIN PnSize /\ f \in DOMAIN PnSize /\ f \notin rest
        /\ rest \cup {f} = p.selected /\ rest \in SUBSET Shown(p)
    BY <1>2, <1>3 DEF Names, Fine, Marks
  <2> HIDE DEF rest
  <2>2. SubOne(p.counter, f) = Counter(rest)
    BY <2>1, CounterAdd DEF Fine, Marks
  <2>3. q = Marked(p, rest)
    BY <1>3, <2>2 DEF Marked, Fine, Shape, PnFields, rest
  <2> QED
    BY <2>1, <2>3, MarkedIs DEF Fine
<1>4. ASSUME f \in Shown(p), f \notin p.selected,
             q = [p EXCEPT !.selected = @ \cup {f}, !.counter = AddOne(@, f)]
      PROVE  Fine(q) /\ q.places = p.places /\ q.list = p.list
  <2> DEFINE more == p.selected \cup {f}
  <2>1. p.selected \in SUBSET DOMAIN PnSize /\ f \in DOMAIN PnSize /\ more \in SUBSET Shown(p)
    BY <1>2, <1>4 DEF Names, Fine, Marks
  <2>2. AddOne(p.counter, f) = Counter(more)
    BY <1>4, <2>1, CounterAdd DEF Fine, Marks
  <2>3. q = Marked(p, more)
    BY <1>4, <2>2 DEF Marked, Fine, Shape, PnFields
  <2> HIDE DEF more
  <2> QED
    BY <2>1, <2>3, MarkedIs DEF Fine
<1> QED
  BY <1>1, <1>3, <1>4 DEF Inverted

\* An action on the panel that leaves it fine, and its places alone.
LEMMA ChangesStep ==
    ASSUME PnInv, NEW p, Fine(p), p.places = pn.places, Changes(p)
    PROVE  PnInv'
<1>1. pn' = p /\ pnLoad' = pnLoad
  BY DEF Changes
<1>2. Fine(pn')
  BY <1>1
<1>3. PlacesOK(pn'.places) /\ LoadOK(pnLoad', pn'.places)
  BY <1>1 DEF PnInv
<1> QED
  BY <1>2, <1>3 DEF PnInv

LEMMA KeyMoveStep == ASSUME PnInv, KeyMove PROVE PnInv'
<1>1. Fine(pn)
  BY DEF PnInv
<1>2. Count(pn) \in Nat /\ pn.current \in Int /\ PnPage \in Int
  BY <1>1, CountIs, PanelAssumption DEF Fine, Shape
<1>3. ASSUME NEW shift, NEW n \in Int, NEW selectLast,
             Changes(SetCurrent(Keyed(shift), n, shift, selectLast))
      PROVE  PnInv'
  <2> DEFINE p == Keyed(shift)
             q == SetCurrent(p, n, shift, selectLast)
  <2>1. Fine(p) /\ p.places = pn.places
    BY <1>1, KeyedIs
  <2> HIDE DEF p
  <2>2. Fine(q) /\ q.places = p.places
    BY <2>1, SetCurrentIs DEF Fine, CursorPut
  <2>3. Changes(q)
    BY <1>3 DEF p
  <2> HIDE DEF q
  <2> QED
    BY <2>1, <2>2, <2>3, ChangesStep
<1>4. PICK shift \in BOOLEAN :
        \/ \E n \in {-1, 1, PnPage - 1, 1 - PnPage} :
            Changes(SetCurrent(Keyed(shift), pn.current + n, shift, FALSE))
        \/ \E n \in {0, Count(pn) - 1, pn.current - PnPage, pn.current + PnPage} :
            Changes(SetCurrent(Keyed(shift), n, shift, TRUE))
  BY DEF KeyMove
<1>5. ASSUME NEW n \in {-1, 1, PnPage - 1, 1 - PnPage},
             Changes(SetCurrent(Keyed(shift), pn.current + n, shift, FALSE))
      PROVE  PnInv'
  <2>1. pn.current + n \in Int
    BY <1>2
  <2> QED
    BY <1>3, <1>5, <2>1
<1>6. ASSUME NEW n \in {0, Count(pn) - 1, pn.current - PnPage, pn.current + PnPage},
             Changes(SetCurrent(Keyed(shift), n, shift, TRUE))
      PROVE  PnInv'
  <2>1. n \in Int
    BY <1>2
  <2> QED
    BY <1>3, <1>6, <2>1
<1> QED
  BY <1>4, <1>5, <1>6

LEMMA KeyInsStep == ASSUME PnInv, KeyIns PROVE PnInv'
<1> DEFINE f == GetCurrent(pn)
           k == Keyed(FALSE)
           p == Inverted(k, f)
           n == pn.current + 1
           q == SetCurrent(p, n, FALSE, FALSE)
<1>1. Fine(pn) /\ n \in Int
  BY DEF PnInv, Fine, Shape
<1>2. Fine(k) /\ k.places = pn.places /\ Shown(k) = Shown(pn)
  <2>1. Fine(k) /\ k.places = pn.places
    BY <1>1, KeyedIs
  <2>2. Shown(k) = Shown(pn)
    BY <1>1 DEF Fine, Shape, PnFields, Keyed, Shown
  <2> QED
    BY <2>1, <2>2
<1>3. f = NoFile \/ f \in Shown(k)
  BY <1>1, <1>2, GetIs DEF GetCurrent, Fine
<1> HIDE DEF f, k
<1>4. Fine(p) /\ p.places = k.places
  BY <1>2, <1>3, InvertedIs
<1> HIDE DEF p, n
<1>5. Fine(q) /\ q.places = p.places
  BY <1>1, <1>4, SetCurrentPlain DEF Fine, CursorPut
<1>6. Changes(q)
  BY DEF KeyIns, q, n, p, k, f
<1> HIDE DEF q
<1> QED
  BY <1>2, <1>4, <1>5, <1>6, ChangesStep

LEMMA MarkStep ==
    ASSUME PnInv, NEW S \in SUBSET Shown(pn), Changes(Marked(pn, S))
    PROVE  PnInv'
<1> DEFINE q == Marked(pn, S)
<1>1. Fine(pn)
  BY DEF PnInv
<1>2. Fine(q) /\ q.places = pn.places
  BY <1>1, MarkedIs DEF Fine
<1> HIDE DEF q
<1> QED
  BY <1>2, ChangesStep DEF q

LEMMA MarkingStep == ASSUME PnInv, InvertSelection \/ Mark \/ ClearSelection PROVE PnInv'
<1>1. ToSet(pn.list) = Shown(pn) /\ pn.selected \in SUBSET Shown(pn)
  BY DEF PnInv, Fine, Listed, Marks
<1>2. CASE InvertSelection
  <2> DEFINE S == {f \in ToSet(pn.list) : f \notin pn.selected /\ f \notin PnDirs}
  <2>1. S \in SUBSET Shown(pn) /\ Changes(Marked(pn, S))
    BY <1>1, <1>2 DEF InvertSelection
  <2> HIDE DEF S
  <2> QED
    BY <2>1, MarkStep
<1>3. CASE Mark
  <2>1. PICK mask \in {PnDirs, DOMAIN PnSize}, enable \in BOOLEAN :
          Changes(Marked(pn, IF enable THEN pn.selected \cup (mask \cap ToSet(pn.list))
                             ELSE pn.selected \ mask))
    BY <1>3 DEF Mark
  <2> DEFINE S == IF enable THEN pn.selected \cup (mask \cap ToSet(pn.list)) ELSE pn.selected \ mask
  <2>2. S \in SUBSET Shown(pn)
    BY <1>1
  <2> HIDE DEF S
  <2> QED
    BY <2>1, <2>2, MarkStep DEF S
<1>4. CASE ClearSelection
  <2>1. PICK f \in pn.selected : Changes(Marked(pn, pn.selected \ {f}))
    BY <1>4 DEF ClearSelection
  <2>2. pn.selected \ {f} \in SUBSET Shown(pn)
    BY <1>1
  <2> QED
    BY <2>1, <2>2, MarkStep
<1> QED
  BY <1>2, <1>3, <1>4

\* The list in another order: the cursor stays within it.
LEMMA Reordered ==
    ASSUME NEW p, Fine(p), NEW q, Shape(q), Listed(q), Ordered(q), Marks(q), q.places = p.places,
           q.files = p.files, q.hidden = p.hidden, q.current = p.current, q.of = p.of
    PROVE  Fine(q)
<1>1. Shown(q) = Shown(p) /\ Offset(q) = Offset(p)
  BY DEF Shown, Offset, ShowsDots, Top
<1>2. Len(q.list) = Len(p.list)
  BY <1>1 DEF Fine, Listed
<1>3. CountAsRead(q) = CountAsRead(p)
  BY <1>2 DEF CountAsRead
<1>4. Within(q)
  BY <1>3 DEF Fine, Within
<1> QED
  BY <1>4 DEF Fine

LEMMA SetCurrentNameIs ==
    ASSUME NEW p, Fine(p), NEW name, NEW q, q = SetCurrentName(p, name)
    PROVE  Fine(q) /\ q.places = p.places
<1>1. CASE q = p
  BY <1>1
<1>2. CASE q = SetCurrent(p, FindName(p, name), FALSE, FALSE)
  <2> DEFINE n == FindName(p, name)
  <2>1. n \in Int
    BY FindNameIs DEF Fine
  <2> HIDE DEF n
  <2>2. q = SetCurrent(p, n, FALSE, FALSE)
    BY <1>2 DEF n
  <2> QED
    BY <2>1, <2>2, SetCurrentPlain DEF Fine, CursorPut
<1> QED
  BY <1>1, <1>2 DEF SetCurrentName

\* What is sorted anew, before the cursor is put on its entry.
Resorted(q) == Fine(q) /\ q.places = pn.places /\ Changes(SetCurrentName(q, GetCurrent(pn)))

LEMMA SortByIs == ASSUME Fine(pn), SortBy PROVE \E q : Resorted(q)
<1>1. PICK mode \in PnModes :
        Changes(SetCurrentName(Sorted([pn EXCEPT !.mode = mode,
                                                 !.asc = IF pn.mode = mode THEN ~pn.asc ELSE mode = "name"]),
                               GetCurrent(pn)))
  BY DEF SortBy
<1> DEFINE p == [pn EXCEPT !.mode = mode, !.asc = IF pn.mode = mode THEN ~pn.asc ELSE mode = "name"]
           q == Sorted(p)
<1>2. mode \in {"name", "size"}
  BY PanelAssumption
<1>3. /\ DOMAIN p = PnFields /\ p.places = pn.places /\ p.files = pn.files /\ p.list = pn.list
      /\ p.selected = pn.selected /\ p.counter = pn.counter /\ p.current = pn.current
      /\ p.mode = mode /\ p.hidden = pn.hidden /\ p.loc = pn.loc /\ p.of = pn.of
  BY <1>2 DEF Fine, Shape, PnFields
<1> HIDE DEF p
<1>4. Shown(p) = Shown(pn)
  BY <1>3 DEF Shown
<1>5. Shape(p) /\ Listed(p) /\ Marks(p)
  BY <1>2, <1>3, <1>4 DEF Fine, Shape, Listed, Marks
<1>6. /\ Shape(q) /\ Listed(q) /\ Ordered(q) /\ SameSettings(q, p)
      /\ q.selected = p.selected /\ q.counter = p.counter
  BY <1>5, SortedIs
<1> HIDE DEF q
<1>7. Marks(q)
  BY <1>5, <1>6 DEF Marks, SameSettings, Shown
<1>8. Fine(q) /\ q.places = pn.places
  BY <1>2, <1>3, <1>6, <1>7, Reordered DEF SameSettings
<1>9. Changes(SetCurrentName(q, GetCurrent(pn)))
  BY <1>1 DEF q, p
<1> QED
  BY <1>8, <1>9 DEF Resorted

LEMMA DisableSortIs == ASSUME Fine(pn), DisableSort PROVE \E q : Resorted(q)
<1> DEFINE p == [pn EXCEPT !.mode = "none"]
           q == MakeList(p)
<1>2. /\ DOMAIN p = PnFields /\ p.places = pn.places /\ p.files = pn.files
      /\ p.current = pn.current /\ p.mode = "none" /\ p.hidden = pn.hidden /\ p.loc = pn.loc
      /\ p.of = pn.of
  BY DEF Fine, Shape, PnFields
<1> HIDE DEF p
<1>3. Shape(p)
  BY <1>2 DEF Fine, Shape
<1>4. Shape(q) /\ Listed(q) /\ Marks(q) /\ SameSettings(q, p)
  BY <1>3, MakeListIs
<1> HIDE DEF q
<1>5. Ordered(q)
  BY <1>2, <1>4 DEF Ordered, SameSettings
<1>6. Fine(q) /\ q.places = pn.places
  BY <1>2, <1>4, <1>5, Reordered DEF SameSettings
<1>7. Changes(SetCurrentName(q, GetCurrent(pn)))
  BY DEF DisableSort, q, p
<1> QED
  BY <1>6, <1>7 DEF Resorted

LEMMA SortStep == ASSUME PnInv, SortBy \/ DisableSort PROVE PnInv'
<1>1. PICK q : Resorted(q)
  BY SortByIs, DisableSortIs DEF PnInv
<1> DEFINE r == SetCurrentName(q, GetCurrent(pn))
<1>2. Fine(q) /\ q.places = pn.places /\ Changes(r)
  BY <1>1 DEF Resorted
<1>3. Fine(r) /\ r.places = q.places
  BY <1>2, SetCurrentNameIs
<1> HIDE DEF r
<1> QED
  BY <1>2, <1>3, ChangesStep

\* What is filtered anew, before the cursor is put on its entry.
Refiltered(q) ==
    /\ Shape(q) /\ Listed(q) /\ Ordered(q) /\ Marks(q) /\ q.places = pn.places
    /\ Changes(SetCurrent(q, FindName(q, GetCurrent(pn)), FALSE, FALSE))

LEMMA ShowHiddenIs == ASSUME Fine(pn), ShowHidden PROVE \E q : Refiltered(q)
<1> DEFINE p == [pn EXCEPT !.hidden = ~@]
           m == MakeList(p)
           q == Sorted(m)
<1>2. /\ DOMAIN p = PnFields /\ p.places = pn.places /\ p.files = pn.files
      /\ p.current = pn.current /\ p.mode = pn.mode /\ p.loc = pn.loc /\ p.of = pn.of
  BY DEF Fine, Shape, PnFields
<1> HIDE DEF p
<1>3. Shape(p)
  BY <1>2 DEF Fine, Shape
<1>4. Shape(m) /\ Listed(m) /\ Marks(m) /\ SameSettings(m, p)
  BY <1>3, MakeListIs
<1> HIDE DEF m
<1>5. /\ Shape(q) /\ Listed(q) /\ Ordered(q) /\ SameSettings(q, m)
      /\ q.selected = m.selected /\ q.counter = m.counter
  BY <1>4, SortedIs
<1> HIDE DEF q
<1>6. Marks(q) /\ q.places = pn.places
  BY <1>2, <1>4, <1>5 DEF Marks, SameSettings, Shown
<1>7. Changes(SetCurrent(q, FindName(q, GetCurrent(pn)), FALSE, FALSE))
  BY DEF ShowHidden, q, m, p
<1> QED
  BY <1>5, <1>6, <1>7 DEF Refiltered

LEMMA ShowHiddenStep == ASSUME PnInv, ShowHidden PROVE PnInv'
<1>1. PICK q : Refiltered(q)
  BY ShowHiddenIs DEF PnInv
<1> DEFINE n == FindName(q, GetCurrent(pn))
           r == SetCurrent(q, n, FALSE, FALSE)
<1>2. Shape(q) /\ Listed(q) /\ Ordered(q) /\ Marks(q) /\ q.places = pn.places /\ Changes(r)
  BY <1>1 DEF Refiltered
<1>3. n \in Int
  BY <1>2, FindNameIs
<1> HIDE DEF n
<1>4. Fine(r) /\ r.places = q.places
  BY <1>2, <1>3, SetCurrentPlain DEF Fine, CursorPut
<1> HIDE DEF r
<1> QED
  BY <1>2, <1>4, ChangesStep

-----------------------------------------------------------------------------
(* Reading: what is noted, and what becomes of it.                         *)

LEMMA PlacesAre ==
    ASSUME NEW ps, PlacesOK(ps)
    PROVE  /\ Len(ps) \in {1, 2} /\ DOMAIN ps = 1..Len(ps)
           /\ \A i \in 1..Len(ps) : ps[i] \in PnPlaces
           /\ Len(ps) = 1 => Last(ps) = ps[1] /\ ps[1].path \in {"/", "/d"}
           /\ Len(ps) = 2 => Last(ps).path = "archive" /\ ps[1].path \in {"/", "/d"}
<1>1. ps \in Seq(PnPlaces) /\ Len(ps) \in {1, 2}
  BY DEF PlacesOK
<1>2. DOMAIN ps = 1..Len(ps) /\ \A i \in 1..Len(ps) : ps[i] \in PnPlaces
  BY <1>1, LenProperties, ElementOfSeq
<1>3. Len(ps) = 1 => Last(ps) = ps[1] /\ ps[1].path \in {"/", "/d"}
  BY DEF PlacesOK, Last
<1>4. Len(ps) = 2 => Last(ps).path = "archive" /\ ps[1].path \in {"/", "/d"}
  BY DEF PlacesOK, Last
<1> QED
  BY <1>1, <1>2, <1>3, <1>4

\* What is noted for the thread that reads.
LEMMA LoadStep ==
    ASSUME NEW p, Fine(p), PlacesOK(p.places), NEW path, NEW name, NEW selected, NEW type,
           LoadPath(p, path, name, selected, type),
           \/ type = "push" /\ path = "archive" /\ Len(p.places) = 1
           \/ type = "reset" /\ Len(p.places) = 2 /\ path = "archive"
           \/ type = "reset" /\ Len(p.places) = 1 /\ path \in {"/", "/d"}
    PROVE  PnInv'
<1>1. Fine(pn') /\ pn'.places = p.places
  <2>1. CASE pn' = p
    BY <2>1
  <2>2. CASE pn' = [p EXCEPT !.loc = FindName(p, name)]
    <3> DEFINE n == FindName(p, name)
    <3>1. n \in Int
      BY FindNameIs DEF Fine
    <3> HIDE DEF n
    <3> DEFINE q == [p EXCEPT !.loc = n]
    <3>2. /\ DOMAIN q = PnFields /\ q.loc = n
          /\ q.places = p.places /\ q.files = p.files /\ q.list = p.list
          /\ q.selected = p.selected /\ q.counter = p.counter /\ q.current = p.current
          /\ q.mode = p.mode /\ q.asc = p.asc /\ q.hidden = p.hidden /\ q.of = p.of
      BY DEF Fine, Shape, PnFields
    <3> HIDE DEF q
    <3>3. /\ Shown(q) = Shown(p) /\ CountAsRead(q) = CountAsRead(p)
          /\ \A f, g : Precedes(q, f, g) = Precedes(p, f, g)
      BY <3>2 DEF Shown, CountAsRead, Precedes
    <3>4. Shape(q) /\ Listed(q) /\ Marks(q)
      BY <3>1, <3>2, <3>3 DEF Fine, Shape, Listed, Marks
    <3>5. Ordered(q) /\ Within(q)
      BY <3>2, <3>3 DEF Fine, Ordered, Within
    <3>6. pn' = q
      BY <2>2 DEF q, n
    <3> QED
      BY <3>2, <3>4, <3>5, <3>6 DEF Fine
  <2> QED
    BY <2>1, <2>2 DEF LoadPath
<1>2. pnLoad'.path = path /\ pnLoad'.type = type
  BY DEF LoadPath
<1>3. LoadOK(pnLoad', pn'.places)
  BY <1>1, <1>2 DEF LoadOK
<1> QED
  BY <1>1, <1>3 DEF PnInv

LEMMA ReadingStep == ASSUME PnInv, Reread \/ DirEnter \/ DirRoot PROVE PnInv'
<1> DEFINE ps == pn.places
<1>1. Fine(pn) /\ PlacesOK(ps)
  BY DEF PnInv
<1>2. /\ Len(ps) \in {1, 2}
      /\ Len(ps) = 1 => Top(pn) = ps[1].path /\ ps[1].path \in {"/", "/d"}
      /\ Len(ps) = 2 => Top(pn) = "archive"
  <2> HIDE DEF ps
  <2>1. /\ Len(ps) \in {1, 2}
        /\ Len(ps) = 1 => Last(ps) = ps[1] /\ ps[1].path \in {"/", "/d"}
        /\ Len(ps) = 2 => Last(ps).path = "archive"
    BY <1>1, PlacesAre
  <2> QED
    BY <2>1 DEF Top, ps
<1> HIDE DEF ps
<1>3. CASE Reread
  <2>1. LoadPath(pn, Top(pn), GetCurrent(pn), pn.selected, "reset")
    BY <1>3 DEF Reread
  <2> QED
    BY <1>1, <1>2, <2>1, LoadStep DEF ps
<1>4. CASE DirEnter
  <2>1. CASE Top(pn) = "/" /\ LoadPath(pn, "/d", NoFile, {}, "reset")
    <3>1. Len(ps) = 1
      BY <1>2, <2>1
    <3> QED
      BY <1>1, <2>1, <3>1, LoadStep DEF ps
  <2>2. CASE Top(pn) \in {"/", "/d"} /\ LoadPath(pn, "archive", NoFile, {}, "push")
    <3>1. Len(ps) = 1
      BY <1>2, <2>2
    <3> QED
      BY <1>1, <2>2, <3>1, LoadStep DEF ps
  <2> QED
    BY <1>4, <2>1, <2>2 DEF DirEnter
<1>5. CASE DirRoot
  <2>1. LoadPath(pn, IF Top(pn) = "archive" THEN "archive" ELSE "/", NoFile, {}, "reset")
    BY <1>5 DEF DirRoot
  <2>2. CASE Len(ps) = 1
    <3>1. LoadPath(pn, "/", NoFile, {}, "reset")
      BY <1>2, <2>1, <2>2
    <3> QED
      BY <1>1, <2>2, <3>1, LoadStep DEF ps
  <2>3. CASE Len(ps) = 2
    <3>1. LoadPath(pn, "archive", NoFile, {}, "reset")
      BY <1>2, <2>1, <2>3
    <3> QED
      BY <1>1, <2>3, <3>1, LoadStep DEF ps
  <2> QED
    BY <1>2, <2>2, <2>3
<1> QED
  BY <1>3, <1>4, <1>5

LEMMA DirUpStep == ASSUME PnInv, DirUp PROVE PnInv'
<1> DEFINE ps == pn.places
           front == SubSeq(ps, 1, Len(ps) - 1)
           p == [pn EXCEPT !.places = Front(@)]
<1>1. Fine(pn) /\ PlacesOK(ps)
  BY DEF PnInv
<1> HIDE DEF ps
<1>2. /\ Len(ps) \in {1, 2}
      /\ Len(ps) = 1 => Last(ps) = ps[1] /\ ps[1].path \in {"/", "/d"}
      /\ Len(ps) = 2 => Last(ps).path = "archive" /\ ps[1].path \in {"/", "/d"}
      /\ \A i \in 1..Len(ps) : ps[i] \in PnPlaces
  BY <1>1, PlacesAre
<1>3. CASE Top(pn) = "/d" /\ LoadPath(pn, "/", SubDir, {}, "reset")
  <2>1. Len(ps) = 1
    BY <1>2, <1>3 DEF Top, ps
  <2> QED
    BY <1>1, <1>3, <2>1, LoadStep DEF ps
<1>4. CASE Len(ps) > 1 /\ LoadPath(p, Top(p), Last(p.places).current, p.selected, "reset")
  <2>1. Len(ps) = 2 /\ ps[1].path \in {"/", "/d"} /\ Last(ps).path = "archive" /\ ps[1] \in PnPlaces
    BY <1>2, <1>4
  <2>2. front \in Seq(PnPlaces) /\ Len(front) = 1 /\ front[1] = ps[1]
    <3>1. \A i \in 1..1 : ps[i] \in PnPlaces
      BY <2>1
    <3>2. front = SubSeq(ps, 1, 1)
      BY <2>1
    <3> HIDE DEF front
    <3>3. /\ SubSeq(ps, 1, 1) \in Seq(PnPlaces) /\ Len(SubSeq(ps, 1, 1)) = 1
          /\ SubSeq(ps, 1, 1)[1] = ps[1 + 1 - 1]
      BY <3>1, SubSeqProperties
    <3> QED
      BY <3>2, <3>3
  <2>3. /\ DOMAIN p = PnFields /\ p.places = front /\ p.files = pn.files /\ p.list = pn.list
        /\ p.selected = pn.selected /\ p.counter = pn.counter /\ p.current = pn.current
        /\ p.mode = pn.mode /\ p.asc = pn.asc /\ p.hidden = pn.hidden /\ p.loc = pn.loc
        /\ p.of = pn.of
    BY <1>1 DEF Fine, Shape, PnFields, Front, ps
  <2> HIDE DEF p, front
  <2>4. Last(p.places) = ps[1] /\ Top(p) = ps[1].path /\ Last(pn.places).path = "archive"
    BY <2>1, <2>2, <2>3 DEF Last, Top, ps
  <2>5. /\ Shown(p) = Shown(pn) /\ CountAsRead(p) = CountAsRead(pn)
        /\ \A f, g : Precedes(p, f, g) = Precedes(pn, f, g)
    BY <2>3 DEF Shown, CountAsRead, Precedes
  <2>6. Shape(p)
    BY <1>1, <2>3, <2>4 DEF Fine, Shape
  <2>7. Fine(p)
    BY <1>1, <2>3, <2>5, <2>6 DEF Fine, Listed, Marks, Ordered, Within
  <2>8. PlacesOK(p.places)
    BY <2>1, <2>2, <2>3 DEF PlacesOK
  <2> QED
    BY <1>4, <2>1, <2>2, <2>3, <2>4, <2>7, <2>8, LoadStep
<1> QED
  BY <1>3, <1>4 DEF DirUp, ps, p

LEMMA ClosestIs ==
    ASSUME NEW p, Shape(p), Listed(p), NEW name
    PROVE  Closest(p, name) \in Int
<1> DEFINE before == {i \in DOMAIN p.list : Precedes(p, p.list[i], name)}
           i == Cardinality(before)
<1>1. Offset(p) \in {0, 1} /\ Len(p.list) \in Nat /\ DOMAIN p.list = 1..Len(p.list)
  BY CountIs
<1>2. IsFiniteSet(1..Len(p.list))
  BY <1>1, FS_Interval
<1>3. before \in SUBSET (1..Len(p.list))
  BY <1>1
<1>4. Closest(p, name) = IF p.list = << >> THEN Offset(p) - 1
                         ELSE (IF i > 0 /\ i >= Len(p.list) THEN i - 1 ELSE i) + Offset(p)
  BY DEF Closest
<1> HIDE DEF before
<1>5. i \in Nat
  BY <1>2, <1>3, FS_Subset, FS_CardinalityType
<1> HIDE DEF i
<1> QED
  BY <1>1, <1>4, <1>5

LEMMA RestoredIs ==
    ASSUME NEW p, Shape(p), Listed(p), Ordered(p), Marks(p), NEW name, NEW known,
           NEW q, q = Restored(p, name, known)
    PROVE  Fine(q) /\ q.places = p.places /\ q.list = p.list
<1>1. FindName(p, name) \in Int /\ p.loc \in Int /\ Closest(p, name) \in Int
  BY FindNameIs, ClosestIs DEF Shape
<1>2. \E n \in Int : q = SetCurrent(p, n, FALSE, FALSE)
  <2> DEFINE near == IF known THEN Closest(p, name) ELSE 0
  <2>1. near \in Int /\ 0 \in Int
    BY <1>1
  <2>2. \/ q = SetCurrent(p, FindName(p, name), FALSE, FALSE)
        \/ q = SetCurrent(p, p.loc, FALSE, FALSE)
        \/ q = SetCurrent(p, near, FALSE, FALSE)
        \/ q = SetCurrent(p, 0, FALSE, FALSE)
    BY DEF Restored
  <2> HIDE DEF near
  <2> QED
    BY <1>1, <2>1, <2>2
<1>3. PICK n \in Int : q = SetCurrent(p, n, FALSE, FALSE)
  BY <1>2
<1> QED
  BY <1>3, SetCurrentPlain DEF Fine, CursorPut

LEMMA LoadIs ==
    ASSUME NEW ps, NEW l, LoadOK(l, ps), l.state = "reads"
    PROVE  l.type \in {"push", "reset"} /\ l.path \in DOMAIN PnContents
<1>1. l.type \in {"push", "reset"} /\ l.path \in {"/", "/d", "archive"}
  BY DEF LoadOK
<1> QED
  BY <1>1, PanelAssumption

\* The places when path has been read.
PlacedAt(ps, path) == PlacesOK(ps) /\ Last(ps).path = path

LEMMA PlacedPlaces ==
    ASSUME NEW ps, PlacesOK(ps), NEW l, LoadOK(l, ps), l.state = "reads",
           NEW name, name \in Int
    PROVE  /\ l.type = "push" => PlacedAt(Append(LeftAt(ps, name), Place(l.path, NoFile)), l.path)
           /\ l.type = "reset" => PlacedAt([ps EXCEPT ![Len(ps)].path = l.path], l.path)
<1>1. /\ Len(ps) \in {1, 2} /\ DOMAIN ps = 1..Len(ps)
      /\ Len(ps) = 1 => Last(ps) = ps[1] /\ ps[1].path \in {"/", "/d"}
      /\ Len(ps) = 2 => Last(ps).path = "archive" /\ ps[1].path \in {"/", "/d"}
      /\ \A i \in 1..Len(ps) : ps[i] \in PnPlaces
  BY PlacesAre
<1>2. l.path \in {"/", "/d", "archive"}
  BY DEF LoadOK
<1>3. ASSUME l.type = "push"
      PROVE  PlacedAt(Append(LeftAt(ps, name), Place(l.path, NoFile)), l.path)
  <2> DEFINE x == [Last(ps) EXCEPT !.current = IF name = NoFile THEN @ ELSE name]
             y == Place(l.path, NoFile)
             left == LeftAt(ps, name)
  <2>1. l.path = "archive" /\ Len(ps) = 1
    BY <1>3 DEF LoadOK
  <2>2. x \in PnPlaces /\ x.path \in {"/", "/d"}
    <3>1. Last(ps) \in PnPlaces /\ Last(ps).path \in {"/", "/d"}
      BY <1>1, <2>1
    <3> QED
      BY <3>1 DEF PnPlaces
  <2>3. y \in PnPlaces /\ y.path = "archive"
    BY <2>1 DEF Place, PnPlaces, NoFile
  <2>4. Front(ps) = << >>
    <3>1. SubSeq(ps, 1, 0) = << >>
      BY SubSeqEmpty
    <3> QED
      BY <2>1, <3>1 DEF Front
  <2>5. left = Front(ps) \o <<x>>
    BY DEF LeftAt
  <2> HIDE DEF x, y, left
  <2>6. left = <<x>>
    <3>1. <<x>> \in Seq(PnPlaces)
      BY <2>2
    <3>2. << >> \o <<x>> = <<x>>
      BY <3>1, ConcatEmptySeq
    <3> QED
      BY <2>4, <2>5, <3>2
  <2>7. left \in Seq(PnPlaces) /\ Len(left) = 1 /\ left[1] = x
    BY <2>2, <2>6
  <2> DEFINE qs == Append(left, y)
  <2>8. qs \in Seq(PnPlaces) /\ Len(qs) = 2 /\ qs[1] = x /\ qs[2] = y
    <3> HIDE DEF qs
    <3>1. left \in Seq(PnPlaces) /\ y \in PnPlaces
      BY <2>3, <2>7
    <3>2. qs = Append(left, y)
      BY DEF qs
    <3>3. qs \in Seq(PnPlaces) /\ Len(qs) = Len(left) + 1
      BY <3>1, <3>2, AppendProperties
    <3>4. \A i \in 1..Len(left) : qs[i] = left[i]
      BY <3>1, <3>2, AppendProperties
    <3>5. qs[Len(left) + 1] = y
      BY <3>1, <3>2, AppendProperties
    <3> QED
      BY <2>7, <3>3, <3>4, <3>5
  <2> HIDE DEF qs
  <2>9. PlacedAt(qs, l.path)
    BY <2>1, <2>2, <2>3, <2>8 DEF PlacedAt, PlacesOK, Last
  <2> QED
    BY <2>9 DEF qs, left, y
<1>4. ASSUME l.type = "reset"
      PROVE  PlacedAt([ps EXCEPT ![Len(ps)].path = l.path], l.path)
  <2> DEFINE n == Len(ps)
             x == [ps[n] EXCEPT !.path = l.path]
             qs == [ps EXCEPT ![n] = x]
  <2>1. n \in 1..n /\ ps \in Seq(PnPlaces)
    BY <1>1 DEF PlacesOK
  <2>2. x \in PnPlaces /\ x.path = l.path
    BY <1>1, <1>2, <2>1 DEF PnPlaces
  <2> HIDE DEF x
  <2>3. qs \in Seq(PnPlaces) /\ Len(qs) = n /\ \A j \in 1..n : qs[j] = IF j = n THEN x ELSE ps[j]
    BY <2>1, <2>2, ExceptSeq
  <2> HIDE DEF qs
  <2>4. CASE n = 1
    <3>1. l.path \in {"/", "/d"}
      BY <1>4, <2>4 DEF LoadOK
    <3> QED
      BY <2>2, <2>3, <2>4, <3>1 DEF PlacedAt, PlacesOK, Last, qs, x
  <2>5. CASE n = 2
    <3>1. l.path = "archive"
      BY <1>4, <2>5 DEF LoadOK
    <3>2. qs[1] = ps[1] /\ qs[2] = x
      BY <2>3, <2>5
    <3> QED
      BY <1>1, <2>2, <2>3, <2>5, <3>1, <3>2 DEF PlacedAt, PlacesOK, Last, qs, x
  <2> QED
    BY <1>1, <2>4, <2>5
<1> QED
  BY <1>3, <1>4

\* What has been read, before the cursor is put into it.
ReadIn(r) ==
    /\ Shape(r) /\ Listed(r) /\ Ordered(r) /\ Marks(r) /\ PlacesOK(r.places) /\ r.mode = pn.mode
    /\ pn' = Restored(r, pnLoad.name, pnLoad.known)

LEMMA StoppedIs == ASSUME PnInv, OperThreadStopped PROVE pn' = pn \/ \E r : ReadIn(r)
<1> DEFINE l == pnLoad
           ps == pn.places
<1>1. Fine(pn) /\ PlacesOK(ps) /\ LoadOK(l, ps) /\ l.state = "reads"
  BY DEF PnInv, OperThreadStopped
<1>2. CASE UNCHANGED pn
  BY <1>2
<1>3. ASSUME NEW files \in PnContents[pnLoad.path],
             LET p == [Placed(pn, pnLoad) EXCEPT !.files = files, !.selected = {}, !.of = pnLoad.path]
                 q == Sorted(MakeList(p))
             IN  pn' = Restored(Marked(q, pnLoad.selected \cap ToSet(q.list)), pnLoad.name, pnLoad.known)
      PROVE  \E r : ReadIn(r)
  <2> DEFINE placed == Placed(pn, l)
             p == [placed EXCEPT !.files = files, !.selected = {}, !.of = l.path]
             m == MakeList(p)
             q == Sorted(m)
             r == Marked(q, l.selected \cap ToSet(q.list))
  <2>1. pn' = Restored(r, l.name, l.known)
    BY <1>3
  <2>2. /\ DOMAIN placed = PnFields /\ PlacedAt(placed.places, l.path)
        /\ placed.mode = pn.mode /\ placed.current = pn.current /\ placed.loc = pn.loc
    <3> DEFINE c == GetCurrent(pn)
    <3>1. c \in Int
      <4>1. c = NoFile \/ c \in Shown(pn)
        BY <1>1, GetIs DEF GetCurrent, Fine
      <4> QED
        BY <1>1, <4>1, ShownAre, NamesAre DEF Names, Fine, NoFile
    <3>2. /\ l.type = "push" => PlacedAt(Append(LeftAt(ps, c), Place(l.path, NoFile)), l.path)
          /\ l.type = "reset" => PlacedAt([ps EXCEPT ![Len(ps)].path = l.path], l.path)
      <4> HIDE DEF c, l, ps
      <4> QED
        BY <1>1, <3>1, PlacedPlaces
    <3>5. l.type \in {"push", "reset"}
      BY <1>1, LoadIs
    <3>3. CASE l.type = "push"
      <4> DEFINE new == Append(LeftAt(ps, c), Place(l.path, NoFile))
      <4>1. placed = [pn EXCEPT !.places = new]
        BY <3>3 DEF Placed
      <4>2. PlacedAt(new, l.path)
        BY <3>2, <3>3
      <4> HIDE DEF new, placed
      <4> QED
        BY <1>1, <4>1, <4>2 DEF Fine, Shape, PnFields
    <3>4. CASE l.type = "reset"
      <4> DEFINE new == [ps EXCEPT ![Len(ps)].path = l.path]
      <4>1. placed = [pn EXCEPT !.places = new]
        BY <3>4 DEF Placed
      <4>2. PlacedAt(new, l.path)
        BY <3>2, <3>4
      <4> HIDE DEF new, placed
      <4> QED
        BY <1>1, <4>1, <4>2 DEF Fine, Shape, PnFields
    <3> QED
      BY <3>3, <3>4, <3>5
  <2> HIDE DEF placed
  <2>3. files \in SUBSET Names
    <3>1. l.path \in DOMAIN PnContents
      BY <1>1, LoadIs
    <3> QED
      BY <3>1, PanelAssumption DEF Names
  <2>4. /\ DOMAIN p = PnFields /\ p.files = files /\ p.places = placed.places
        /\ p.mode = pn.mode /\ p.current = pn.current /\ p.loc = pn.loc /\ p.of = l.path
    BY <2>2 DEF PnFields
  <2>5. Shape(p)
    BY <1>1, <2>2, <2>3, <2>4 DEF Fine, Shape, PlacedAt
  <2> HIDE DEF p
  <2>6. Shape(m) /\ Listed(m) /\ SameSettings(m, p)
    BY <2>5, MakeListIs
  <2> HIDE DEF m
  <2>7. Shape(q) /\ Listed(q) /\ Ordered(q) /\ SameSettings(q, m)
    BY <2>6, SortedIs
  <2> HIDE DEF q
  <2>8. l.selected \cap ToSet(q.list) \in SUBSET Shown(q)
    BY <2>7 DEF Listed
  <2>9. Shape(r) /\ Listed(r) /\ Ordered(r) /\ Marks(r) /\ r.places = q.places /\ r.mode = q.mode
    BY <2>7, <2>8, MarkedIs
  <2> HIDE DEF r
  <2>10. r.places = placed.places /\ r.mode = pn.mode
    BY <2>4, <2>6, <2>7, <2>9 DEF SameSettings
  <2>11. PlacesOK(r.places)
    BY <2>2, <2>10 DEF PlacedAt
  <2> QED
    BY <2>1, <2>9, <2>10, <2>11 DEF ReadIn
<1> QED
  BY <1>2, <1>3 DEF OperThreadStopped

LEMMA StoppedStep == ASSUME PnInv, OperThreadStopped PROVE PnInv'
<1>1. LoadOK(pnLoad', pn'.places)
  BY DEF OperThreadStopped, LoadOK
<1>2. CASE pn' = pn
  BY <1>1, <1>2 DEF PnInv
<1>3. ASSUME NEW r, ReadIn(r)
      PROVE  PnInv'
  <2>1. Fine(pn') /\ pn'.places = r.places
    BY <1>3, RestoredIs DEF ReadIn
  <2>2. PlacesOK(pn'.places)
    BY <1>3, <2>1 DEF ReadIn
  <2> QED
    BY <1>1, <2>1, <2>2 DEF PnInv
<1> QED
  BY <1>2, <1>3, StoppedIs

LEMMA PnPreserves == PnInv /\ [PanelNext]_panelVars => PnInv'
<1> SUFFICES ASSUME PnInv, [PanelNext]_panelVars
             PROVE  PnInv'
  OBVIOUS
<1>1. CASE UNCHANGED panelVars
  BY <1>1 DEF panelVars, PnInv
<1>2. CASE KeyMove
  BY <1>2, KeyMoveStep
<1>3. CASE KeyIns
  BY <1>3, KeyInsStep
<1>4. CASE InvertSelection \/ Mark \/ ClearSelection
  BY <1>4, MarkingStep
<1>5. CASE SortBy \/ DisableSort
  BY <1>5, SortStep
<1>7. CASE ShowHidden
  BY <1>7, ShowHiddenStep
<1>8. CASE Reread \/ DirEnter \/ DirRoot
  BY <1>8, ReadingStep
<1>9. CASE DirUp
  BY <1>9, DirUpStep
<1>10. CASE OperThreadStopped
  BY <1>10, StoppedStep
<1> QED
  BY <1>1, <1>2, <1>3, <1>4, <1>5, <1>7, <1>8, <1>9, <1>10 DEF PanelNext

LEMMA PnInvariance == PnSpec => []PnInv
  BY PnInitial, PnPreserves, PTL DEF PnSpec

(***************************************************************************)
(* Whatever is pressed, marked, sorted, hidden or read again, in whatever  *)
(* order and whenever the thread that reads ends: the list holds the files *)
(* to be shown, each once and in order, the marked ones are among them     *)
(* with the counter that is theirs, and the cursor is on a line the list   *)
(* had when it was read, one behind the last at most, and that only after  *)
(* an archive has been left for "/" (PanelList, PanelWin).                 *)
(***************************************************************************)
THEOREM ShowsItsFiles == PnSpec => []PanelExact
  BY PnInvariance, ExactFromInv, PTL

-----------------------------------------------------------------------------
(* Where the cursor is put.                                                *)

LEMMA CursorOn ==
    ASSUME NEW p, Shape(p), Listed(p), Marks(p), NEW name \in ToSet(p.list),
           NEW q, q = SetCurrent(p, FindName(p, name), FALSE, FALSE)
    PROVE  GetCurrent(q) = name
<1> DEFINE n == FindName(p, name)
           i == n - Offset(p) + 1
<1>1. n \in 0..Count(p) - 1 /\ i \in DOMAIN p.list /\ p.list[i] = name
  BY FindNameIs
<1>2. Count(p) \in Nat
  BY CountIs
<1> HIDE DEF n
<1>3. q = SetCurrent(p, n, FALSE, FALSE) /\ n \in Int
  BY <1>1, <1>2 DEF n
<1>4. CursorPut(q, p, n)
  BY <1>3, SetCurrentPlain
<1>5. q.list = p.list /\ q.places = p.places
  BY <1>4 DEF CursorPut
<1>6. Offset(q) = Offset(p)
  BY <1>5 DEF Offset, ShowsDots, Top
<1>7. q.current = n
  <2> DEFINE c == Count(p)
  <2>1. q.current = IF n <= c - 1 THEN (IF n > 0 THEN n ELSE 0) ELSE (IF c > 0 THEN c - 1 ELSE 0)
    BY <1>4 DEF CursorPut
  <2>2. c \in Nat /\ n \in 0..c - 1
    BY <1>1, <1>2
  <2> HIDE DEF c, i
  <2>3. n <= c - 1 /\ (n > 0 \/ n = 0)
    BY <2>2
  <2> QED
    BY <2>1, <2>3
<1> QED
  BY <1>1, <1>5, <1>6, <1>7 DEF GetCurrent, Get

\* The first entry of a list is looked for in vain, and found all the same.
LEMMA ClosestFirst ==
    ASSUME NEW p, Shape(p), Listed(p), Ordered(p), p.mode # "none", NEW name \in ToSet(p.list),
           FindName(p, name) = 0
    PROVE  Closest(p, name) = 0
<1> DEFINE before == {i \in DOMAIN p.list : Precedes(p, p.list[i], name)}
<1>1. /\ Offset(p) \in {0, 1} /\ Len(p.list) \in Nat /\ DOMAIN p.list = 1..Len(p.list)
      /\ p.list \in Seq(Names)
  BY CountIs DEF Listed
<1>2. Offset(p) = 0 /\ 1 \in DOMAIN p.list /\ p.list[1] = name
  <2>1. FindName(p, name) - Offset(p) + 1 \in DOMAIN p.list
        /\ p.list[FindName(p, name) - Offset(p) + 1] = name
    BY FindNameIs
  <2>2. 0 - Offset(p) + 1 \in 1..Len(p.list) /\ p.list[0 - Offset(p) + 1] = name
    BY <1>1, <2>1
  <2>3. CASE Offset(p) = 0
    BY <1>1, <2>2, <2>3
  <2>4. CASE Offset(p) = 1
    BY <2>2, <2>4
  <2> QED
    BY <1>1, <2>3, <2>4
<1>3. ASSUME NEW i \in DOMAIN p.list
      PROVE  ~Precedes(p, p.list[i], name)
  <2> DEFINE S == Names
             order == {x \in S \X S : Precedes(p, x[1], x[2])}
             f == p.list[i]
  <2>1. f \in S /\ name \in S
    BY <1>1, <1>2, <1>3, ElementOfSeq
  <2>2. Orders(order, S)
    BY PrecedesOrders DEF Shape
  <2>3. <<f, name>> \in order <=> Precedes(p, f, name)
    BY <2>1
  <2>4. <<name, f>> \in order <=> Precedes(p, name, f)
    BY <2>1
  <2> HIDE DEF order, S
  <2>5. CASE i = 1
    BY <1>2, <2>1, <2>2, <2>3, <2>5 DEF Orders
  <2>6. CASE i # 1
    <3>1. 1 < i
      BY <1>1, <1>3, <2>6
    <3>2. Precedes(p, name, f)
      BY <1>2, <3>1 DEF Ordered
    <3> QED
      BY <2>1, <2>2, <2>3, <2>4, <3>2 DEF Orders
  <2> QED
    BY <2>5, <2>6
<1>4. before = {} /\ Cardinality(before) = 0
  <2>1. before = {}
    BY <1>3
  <2> QED
    BY <2>1, FS_EmptySet
<1>5. Closest(p, name) = IF p.list = << >> THEN Offset(p) - 1
                         ELSE (IF Cardinality(before) > 0 /\ Cardinality(before) >= Len(p.list)
                               THEN Cardinality(before) - 1 ELSE Cardinality(before)) + Offset(p)
  BY DEF Closest
<1>6. p.list # << >>
  BY <1>2, EmptyList
<1> HIDE DEF before
<1> QED
  BY <1>2, <1>4, <1>5, <1>6

LEMMA RestoredOn ==
    ASSUME NEW p, Shape(p), Listed(p), Ordered(p), Marks(p), p.mode # "none",
           NEW name \in ToSet(p.list), NEW known, NEW q, q = Restored(p, name, known)
    PROVE  GetCurrent(q) = name
<1> DEFINE n == FindName(p, name)
           near == IF known THEN Closest(p, name) ELSE 0
<1>1. n \in Int /\ n >= 0 /\ name # NoFile
  <2>1. n \in Int /\ n >= 0
    BY FindNameIs
  <2>2. name \in Shown(p) /\ 0 \notin Names /\ Shown(p) \in SUBSET Names
    BY GetIs, ShownAre DEF Listed
  <2> QED
    BY <2>1, <2>2 DEF NoFile
<1>2. q = IF name # NoFile /\ n > 0 THEN SetCurrent(p, n, FALSE, FALSE)
          ELSE IF p.mode = "none" THEN SetCurrent(p, p.loc, FALSE, FALSE)
          ELSE IF near > 0 THEN SetCurrent(p, near, FALSE, FALSE)
          ELSE SetCurrent(p, 0, FALSE, FALSE)
  BY DEF Restored
<1>3. n = 0 => near = 0
  BY ClosestFirst
<1> HIDE DEF n, near
<1>4. q = SetCurrent(p, n, FALSE, FALSE)
  <2>1. CASE n > 0
    BY <1>1, <1>2, <2>1
  <2>2. CASE n = 0
    <3>1. near = 0 /\ ~(n > 0) /\ ~(near > 0)
      BY <1>3, <2>2
    <3>2. q = SetCurrent(p, 0, FALSE, FALSE)
      BY <1>2, <3>1
    <3> QED
      BY <2>2, <3>2
  <2>3. n > 0 \/ n = 0
    BY <1>1
  <2> QED
    BY <2>1, <2>2, <2>3
<1> QED
  BY <1>4, CursorOn DEF n

-----------------------------------------------------------------------------
(* What a step may not do: CursorStays.                                    *)

Stays ==
    pn'.list # pn.list =>
        LET entry == IF pnLoad' = pnLoad THEN GetCurrent(pn) ELSE pnLoad.name
        IN  entry \in ToSet(pn'.list) /\ (pnLoad' = pnLoad \/ pn.mode # "none")
                => GetCurrent(pn') = entry

LEMMA SortStays == ASSUME PnInv, SortBy \/ DisableSort PROVE Stays
<1> DEFINE name == GetCurrent(pn)
<1>1. PICK q : Resorted(q)
  BY SortByIs, DisableSortIs DEF PnInv
<1>2. Fine(q) /\ pn' = SetCurrentName(q, name) /\ pnLoad' = pnLoad
  BY <1>1 DEF Resorted, Changes
<1> HIDE DEF name
<1>3. ASSUME name \in ToSet(pn'.list)
      PROVE  GetCurrent(pn') = name
  <2>1. name \in ToSet(q.list)
    <3>1. CASE pn' = q
      BY <1>3, <3>1
    <3>2. CASE pn' = SetCurrent(q, FindName(q, name), FALSE, FALSE)
      <4> DEFINE n == FindName(q, name)
      <4>1. n \in Int
        BY <1>2, FindNameIs DEF Fine
      <4> HIDE DEF n
      <4>2. pn' = SetCurrent(q, n, FALSE, FALSE)
        BY <3>2 DEF n
      <4>3. pn'.list = q.list
        BY <1>2, <4>1, <4>2, SetCurrentPlain DEF Fine, CursorPut
      <4> QED
        BY <1>3, <4>3
    <3> QED
      BY <1>2, <3>1, <3>2 DEF SetCurrentName
  <2>2. FindName(q, name) \in Int /\ FindName(q, name) >= 0
    BY <1>2, <2>1, FindNameIs DEF Fine
  <2>3. pn' = SetCurrent(q, FindName(q, name), FALSE, FALSE)
    <3>1. ~(FindName(q, name) < 0)
      BY <2>2
    <3>2. pn' = IF FindName(q, name) < 0 THEN q ELSE SetCurrent(q, FindName(q, name), FALSE, FALSE)
      BY <1>2 DEF SetCurrentName
    <3> QED
      BY <3>1, <3>2
  <2> QED
    BY <1>2, <2>1, <2>3, CursorOn DEF Fine
<1> QED
  BY <1>2, <1>3 DEF Stays, name

LEMMA ShowHiddenStays == ASSUME PnInv, ShowHidden PROVE Stays
<1> DEFINE name == GetCurrent(pn)
<1>1. PICK q : Refiltered(q)
  BY ShowHiddenIs DEF PnInv
<1>2. /\ Shape(q) /\ Listed(q) /\ Marks(q) /\ pnLoad' = pnLoad
      /\ pn' = SetCurrent(q, FindName(q, name), FALSE, FALSE)
  BY <1>1 DEF Refiltered, Changes
<1> HIDE DEF name
<1>3. pn'.list = q.list
  <2> DEFINE n == FindName(q, name)
  <2>1. n \in Int /\ pn' = SetCurrent(q, n, FALSE, FALSE)
    BY <1>2, FindNameIs
  <2> HIDE DEF n
  <2> QED
    BY <1>2, <2>1, SetCurrentPlain DEF CursorPut
<1>4. name \in ToSet(q.list) => GetCurrent(pn') = name
  BY <1>2, CursorOn
<1> QED
  BY <1>2, <1>3, <1>4 DEF Stays, name

LEMMA StoppedStays == ASSUME PnInv, OperThreadStopped PROVE Stays
<1>1. pnLoad' # pnLoad
  <2>1. pnLoad.state = "reads" /\ pnLoad'.state = "idle"
    BY DEF OperThreadStopped
  <2> QED
    BY <2>1
<1>2. CASE pn' = pn
  BY <1>2 DEF Stays
<1>3. ASSUME NEW r, ReadIn(r)
      PROVE  Stays
  <2> DEFINE name == pnLoad.name
  <2>1. pn' = Restored(r, name, pnLoad.known) /\ Shape(r) /\ Listed(r) /\ Ordered(r) /\ Marks(r)
        /\ r.mode = pn.mode
    BY <1>3 DEF ReadIn
  <2> HIDE DEF name
  <2>2. ToSet(pn'.list) = ToSet(r.list)
    BY <2>1, RestoredIs
  <2>3. pn.mode # "none" /\ name \in ToSet(r.list) => GetCurrent(pn') = name
    BY <2>1, RestoredOn
  <2> QED
    BY <1>1, <2>2, <2>3 DEF Stays, name
<1> QED
  BY <1>2, <1>3, StoppedIs

\* The other actions leave the list alone.
LEMMA CursorKeepsList ==
    ASSUME NEW p, Fine(p), NEW n \in Int, NEW shift, NEW selectLast
    PROVE  SetCurrent(p, n, shift, selectLast).list = p.list
  BY SetCurrentIs DEF Fine, CursorPut

LEMMA OthersStay ==
    ASSUME PnInv,
           \/ KeyMove \/ KeyIns \/ InvertSelection \/ Mark \/ ClearSelection
           \/ Reread \/ DirEnter \/ DirRoot \/ DirUp
    PROVE  pn'.list = pn.list
<1>1. Fine(pn) /\ Count(pn) \in Nat /\ pn.current \in Int /\ PnPage \in Int
  BY CountIs, PanelAssumption DEF Fine, Shape, PnInv
<1>2. CASE KeyMove
  <2>1. PICK shift \in BOOLEAN :
          \/ \E n \in {-1, 1, PnPage - 1, 1 - PnPage} :
              Changes(SetCurrent(Keyed(shift), pn.current + n, shift, FALSE))
          \/ \E n \in {0, Count(pn) - 1, pn.current - PnPage, pn.current + PnPage} :
              Changes(SetCurrent(Keyed(shift), n, shift, TRUE))
    BY <1>2 DEF KeyMove
  <2>2. \E n \in Int : \E selectLast : pn' = SetCurrent(Keyed(shift), n, shift, selectLast)
    <3>1. ASSUME NEW n \in {-1, 1, PnPage - 1, 1 - PnPage},
                 Changes(SetCurrent(Keyed(shift), pn.current + n, shift, FALSE))
          PROVE  \E k \in Int : \E selectLast : pn' = SetCurrent(Keyed(shift), k, shift, selectLast)
      <4>1. pn.current + n \in Int
        BY <1>1
      <4> QED
        BY <3>1, <4>1 DEF Changes
    <3>2. ASSUME NEW n \in {0, Count(pn) - 1, pn.current - PnPage, pn.current + PnPage},
                 Changes(SetCurrent(Keyed(shift), n, shift, TRUE))
          PROVE  \E k \in Int : \E selectLast : pn' = SetCurrent(Keyed(shift), k, shift, selectLast)
      <4>1. n \in Int
        BY <1>1
      <4> QED
        BY <3>2, <4>1 DEF Changes
    <3> QED
      BY <2>1, <3>1, <3>2
  <2>3. PICK n \in Int : \E selectLast : pn' = SetCurrent(Keyed(shift), n, shift, selectLast)
    BY <2>2
  <2>4. Fine(Keyed(shift)) /\ Keyed(shift).list = pn.list
    BY <1>1, KeyedIs
  <2>5. PICK selectLast : pn' = SetCurrent(Keyed(shift), n, shift, selectLast)
    BY <2>3
  <2> DEFINE k == Keyed(shift)
  <2> HIDE DEF k
  <2>6. SetCurrent(k, n, shift, selectLast).list = k.list
    BY <2>4, CursorKeepsList DEF k
  <2> QED
    BY <2>4, <2>5, <2>6 DEF k
<1>3. CASE KeyIns
  <2> DEFINE k == Keyed(FALSE)
             f == GetCurrent(pn)
             p == Inverted(k, f)
             n == pn.current + 1
  <2>1. pn' = SetCurrent(p, n, FALSE, FALSE) /\ n \in Int
    BY <1>1, <1>3 DEF KeyIns, Changes
  <2>2. Fine(k) /\ k.list = pn.list /\ Shown(k) = Shown(pn)
    <3>1. Fine(k) /\ k.list = pn.list
      BY <1>1, KeyedIs
    <3> QED
      BY <3>1, <1>1 DEF Fine, Listed
  <2>3. f = NoFile \/ f \in Shown(k)
    BY <1>1, <2>2, GetIs DEF GetCurrent, Fine
  <2> HIDE DEF k, f
  <2>4. Fine(p) /\ p.list = k.list
    BY <2>2, <2>3, InvertedIs
  <2> HIDE DEF p, n
  <2>5. pn'.list = p.list
    BY <2>1, <2>4, SetCurrentPlain DEF Fine, CursorPut
  <2> QED
    BY <2>2, <2>4, <2>5
<1>4. CASE InvertSelection \/ Mark \/ ClearSelection
  <2>1. \E S : pn' = Marked(pn, S)
    BY <1>4 DEF InvertSelection, Mark, ClearSelection, Changes
  <2>2. \A S : Marked(pn, S).list = pn.list
    BY <1>1 DEF Marked, Fine, Shape, PnFields
  <2> QED
    BY <2>1, <2>2
<1>5. ASSUME NEW p, DOMAIN p = PnFields, NEW path, NEW name, NEW selected, NEW type,
             LoadPath(p, path, name, selected, type)
      PROVE  pn'.list = p.list
  BY <1>5 DEF LoadPath, PnFields
<1>6. CASE Reread \/ DirEnter \/ DirRoot
  BY <1>1, <1>5, <1>6 DEF Reread, DirEnter, DirRoot, Fine, Shape
<1>7. CASE DirUp
  <2> DEFINE p == [pn EXCEPT !.places = Front(@)]
  <2>1. DOMAIN p = PnFields /\ p.list = pn.list /\ DOMAIN pn = PnFields
    BY <1>1 DEF Fine, Shape, PnFields
  <2>2. \/ LoadPath(pn, "/", SubDir, {}, "reset")
        \/ LoadPath(p, Top(p), Last(p.places).current, p.selected, "reset")
    BY <1>7 DEF DirUp
  <2> HIDE DEF p
  <2> QED
    BY <1>5, <2>1, <2>2
<1> QED
  BY <1>2, <1>3, <1>4, <1>6, <1>7

LEMMA EntryStays == PnInv /\ [PanelNext]_panelVars => Stays \/ UNCHANGED panelVars
<1> SUFFICES ASSUME PnInv, PanelNext
             PROVE  Stays
  OBVIOUS
<1>1. CASE SortBy \/ DisableSort
  BY <1>1, SortStays
<1>2. CASE ShowHidden
  BY <1>2, ShowHiddenStays
<1>3. CASE OperThreadStopped
  BY <1>3, StoppedStays
<1>4. CASE ~(SortBy \/ DisableSort \/ ShowHidden \/ OperThreadStopped)
  BY <1>4, OthersStay DEF PanelNext, Stays
<1> QED
  BY <1>1, <1>2, <1>3, <1>4

(***************************************************************************)
(* What sorts, filters or rereads the list leaves the cursor on its entry, *)
(* if that is still shown (PanelWin::SortByName and its likes, Broadcast,  *)
(* OperThreadStopped with FindExactOrClosestSucceeding).                   *)
(***************************************************************************)
THEOREM KeepsItsEntry == PnSpec => CursorStays
<1>1. PnInv /\ [PanelNext]_panelVars => [Stays]_panelVars
  BY EntryStays
<1> QED
  BY <1>1, PnInvariance, PTL DEF PnSpec, CursorStays, Stays
=============================================================================
