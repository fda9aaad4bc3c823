------------------------------- MODULE FtpFs -------------------------------
(***************************************************************************)
(* The file system FTP (vfs-ftp.cpp): a pool of connections that several   *)
(* threads use, each for one call or for one open file, and the protocol   *)
(* on a connection, where every command has its replies and any wait may   *)
(* be broken off: by the network, a timeout, or the user.                  *)
(*                                                                         *)
(* Threads meet in the pool; a connection is used without a lock by the    *)
(* thread that has it.  What a call tells its caller of names, sizes and   *)
(* times is left out, and with it what the cache of listings answers: a    *)
(* call of Stat lists the directory, or does not.                          *)
(***************************************************************************)
EXTENDS Integers, FiniteSets, Sequences, SequencesExt

CONSTANTS
    FtpUser,    \* the threads
    FtpNodes,   \* the sizes of the pool (NODES_COUNT is 32)
    FtpOps      \* what they call

ASSUME FtpAssumption ==
    /\ FtpNodes \subseteq Nat \ {0}
    /\ FtpOps \subseteq {"list", "read", "write", "mkdir", "rename", "delete", "rmdir"}

VARIABLES
    ftNode,     \* nodes[]: [busy, conn]
    ftCall,     \* thread |-> its call: what is left to do, and where it is
    ftFile,     \* thread |-> the file it has open: [state, node, kind]
    ftSet,      \* _param.isSet
    ftEnd       \* how the program ended: see ReadCode and CloseFile

ftVars == <<ftNode, ftCall, ftFile, ftSet, ftEnd>>

\* A connection: commands not sent yet (outBuf), commands not answered yet,
\* replies that have arrived (inBuf), and the data connection with what has been
\* written to it and not sent.  `cut' notes that an exchange was broken off: from
\* then on a reply may be that to any command, and the queues are not kept.
NewConn == [up |-> TRUE, out |-> <<>>, net |-> <<>>, in |-> <<>>, data |-> "none", cut |-> FALSE]
NoConn == [NewConn EXCEPT !.up = FALSE]
Idle == [todo |-> <<>>, at |-> "", node |-> 0, rest |-> <<>>]
NoFile == [state |-> "none", node |-> 0, kind |-> ""]

\* What a call does on its connection, step by step (FTPNode).
OpenData(cmd) == <<"close", "PASV", cmd>>

\* Mutant: Ls does not read the reply at the end.
PlanHasty ==
    [list |-> <<"CWD">> \o OpenData("LIST") \o <<"lines", "close">>,
     read |-> OpenData("RETR"), write |-> OpenData("STOR"), close |-> <<"close", "END">>,
     rename |-> <<"CWD", "RNFR", "RNTO">>, mkdir |-> <<"MKD">>,
     delete |-> <<"DELE">>, rmdir |-> <<"CWD", "RMD">>]

Plan ==
    [list |-> <<"CWD">> \o OpenData("LIST") \o <<"lines", "close", "END">>,
     read |-> OpenData("RETR"), write |-> OpenData("STOR"), close |-> <<"close", "END">>,
     rename |-> <<"CWD", "RNFR", "RNTO">>, mkdir |-> <<"MKD">>,
     delete |-> <<"DELE">>, rmdir |-> <<"CWD", "RMD">>]
Transfers == {"LIST", "RETR", "STOR"}

\* The calls an operation makes: MkDir, and OpenCreate if it may not overwrite,
\* ask Stat, which knows, or lists the directory, and go on if nothing was found.
Work(op) ==
    CASE op = "mkdir" -> {<<"mkdir">>, <<"list", "mkdir">>, <<"list">>}
      [] op = "write" -> {<<"write">>, <<"list", "write">>, <<"list">>}
      [] OTHER -> {<<op>>}

FtpInit ==
    /\ \E k \in FtpNodes : ftNode = [n \in 1..k |-> [busy |-> FALSE, conn |-> NoConn]]
    /\ ftCall = [t \in FtpUser |-> Idle]
    /\ ftFile = [t \in FtpUser |-> NoFile]
    /\ ftSet \in BOOLEAN
    /\ ftEnd = ""
-----------------------------------------------------------------------------
(***************************************************************************)
(* Commands and replies.                                                   *)
(***************************************************************************)
\* A reply is kept by its first digit: 1 and 2, 3, or more.
AnswersTo(cmd) ==
    CASE cmd \in Transfers -> {<<"ok", "ok">>, <<"ok", "error">>, <<"error">>}
      [] cmd = "RNFR" -> {<<"more">>, <<"error">>}
      [] OTHER -> {<<"ok">>, <<"error">>}
Expected(name) == IF name = "RNFR" THEN "more" ELSE "ok"

\* what the server may answer to each of a sequence of commands
Replies(cmds) ==
    {f \in [DOMAIN cmds -> UNION {AnswersTo(cmds[i]) : i \in DOMAIN cmds}] :
        \A i \in DOMAIN cmds : f[i] \in AnswersTo(cmds[i])}

\* What one read of the socket may bring: the replies to the first k commands, or
\* the first of the two replies to a transfer.
Arrived(c, a, k) == [c EXCEPT !.in = FlattenSeq(SubSeq(a, 1, k)), !.net = SubSeq(@, k + 1, Len(@))]
FirstArrived(c) == [c EXCEPT !.in = <<"ok">>, !.net[1] = "END"]
Received(c) ==
    (UNION {{Arrived(c, a, k) : a \in Replies(c.net)} : k \in DOMAIN c.net})
    \cup {FirstArrived(c) : j \in {i \in DOMAIN c.net : i = 1 /\ c.net[i] \in Transfers}}

Taken(c) == [conn |-> [c EXCEPT !.in = Tail(@)], code |-> Head(c.in)]

\* TCPSyncBufProto::WriteStr and WriteBuf
WriteStr(c, name) == IF c.cut THEN c ELSE [c EXCEPT !.out = Append(@, name)]
Sent(c) == [c EXCEPT !.net = @ \o c.out, !.out = <<>>]

\* ReadCode: a reply that is there is taken, and what was written stays unsent;
\* otherwise all is sent, and waited for.  If the server has closed the
\* connection there is no line, and `last' is null when it is looked at (Passive
\* reads the line itself).
ReadCode(c) ==
    IF c.cut THEN {[conn |-> c, code |-> x] : x \in {"ok", "more", "error", "cut", "closed"}}
    ELSE IF c.in # <<>> THEN {Taken(c)}
    ELSE {[conn |-> Sent(c), code |-> x] : x \in {"cut", "closed"}}
         \cup {Taken(r) : r \in Received(Sent(c))}
-----------------------------------------------------------------------------
Running == ftEnd = ""

\* Where a call goes on after one of its parts: Stat's error is taken for "not
\* there", but if it was stopped the call is.
Following(call, result) ==
    IF result = "stopped" \/ Len(call.todo) = 1 THEN Idle
    ELSE [Idle EXCEPT !.todo = Tail(call.todo), !.at = "take"]

\* The node is free again, and the part of the call at its end.
Release(t, c, result) ==
    /\ ftNode' = [ftNode EXCEPT ![ftCall[t].node] = [busy |-> FALSE, conn |-> c]]
    /\ ftCall' = [ftCall EXCEPT ![t] = Following(@, result)]

\* An int is thrown.  The caller of Close keeps the number of a file that it
\* has written and could not close (fileopers.cpp, eloadsave.cpp).
Catch(t, c) ==
    /\ \E result \in {"failed", "stopped"} : Release(t, c, result)
    /\ ftFile' = IF Head(ftCall[t].todo) # "close" THEN ftFile
                 ELSE [ftFile EXCEPT ![t] = IF @.kind = "write" THEN [@ EXCEPT !.state = "closed"] ELSE NoFile]

\* An exchange is broken off.
Cut(t, c) == Catch(t, [c EXCEPT !.cut = TRUE, !.out = <<>>, !.net = <<>>, !.in = <<>>])

\* The step at hand has gone well; after the last one a call gives its node back,
\* but OpenRead and OpenCreate, whose node is the file's.
Advance(t, c) ==
    LET call == ftCall[t]
        job == Head(call.todo)
    IN  IF Len(call.rest) > 1
        THEN /\ ftCall' = [ftCall EXCEPT ![t].rest = Tail(@)]
             /\ ftNode' = [ftNode EXCEPT ![call.node].conn = c]
             /\ UNCHANGED ftFile
        ELSE IF job \in {"read", "write"}
        THEN /\ ftFile' = [ftFile EXCEPT ![t] = [state |-> "open", node |-> call.node, kind |-> job]]
             /\ ftNode' = [ftNode EXCEPT ![call.node].conn = c]
             /\ ftCall' = [ftCall EXCEPT ![t] = Following(@, "done")]
        ELSE /\ Release(t, c, "done")
             /\ ftFile' = IF job = "close" THEN [ftFile EXCEPT ![t] = NoFile] ELSE ftFile

\* What follows a reply: CheckFtpRet throws if it is an error.
Answered(t, name, r) ==
    CASE r.code = "cut" \/ (r.code = "closed" /\ name = "PASV") -> Cut(t, r.conn) /\ UNCHANGED ftEnd
      [] r.code = "closed" /\ name # "PASV" -> ftEnd' = "null" /\ UNCHANGED <<ftNode, ftCall, ftFile>>
      [] r.code = Expected(name) -> Advance(t, r.conn) /\ UNCHANGED ftEnd
      [] OTHER -> Catch(t, r.conn) /\ UNCHANGED ftEnd
-----------------------------------------------------------------------------
(***************************************************************************)
(* The steps of a call.                                                    *)
(***************************************************************************)
\* Without a user's name and password GetFreeNode asks for them first.
BeginCall(t, op) ==
    /\ Running /\ ftCall[t] = Idle /\ ftFile[t] = NoFile
    /\ \E w \in Work(op) :
        ftCall' = [ftCall EXCEPT ![t] = [Idle EXCEPT !.todo = w, !.at = IF ftSet THEN "take" ELSE "logon"]]
    /\ UNCHANGED <<ftNode, ftFile, ftSet, ftEnd>>

\* It asks with the mutex unlocked: several threads may be asking.
Logon(t) ==
    /\ Running /\ ftCall[t].at = "logon"
    /\ \/ ftSet' = TRUE /\ ftCall' = [ftCall EXCEPT ![t].at = "take"]
       \/ ftCall' = [ftCall EXCEPT ![t] = Idle] /\ UNCHANGED ftSet
    /\ UNCHANGED <<ftNode, ftFile, ftEnd>>

\* The first node that is free is taken, under the mutex; its connection is
\* tried, or made.
TakeNode(t) ==
    LET free == {n \in DOMAIN ftNode : ~ftNode[n].busy}
        n == CHOOSE m \in free : \A k \in free : m <= k
        first == IF ftNode[n].conn.up THEN "NOOP" ELSE "connect"
        call == ftCall[t]
    IN  /\ Running /\ call.at = "take"
        /\ IF free = {}
           THEN ftCall' = [ftCall EXCEPT ![t] = Following(@, "failed")] /\ UNCHANGED ftNode
           ELSE /\ ftNode' = [ftNode EXCEPT ![n].busy = TRUE]
                /\ ftCall' = [ftCall EXCEPT ![t] =
                    [@ EXCEPT !.at = "run", !.node = n, !.rest = <<first>> \o Plan[Head(call.todo)]]]
        /\ UNCHANGED <<ftFile, ftSet, ftEnd>>

\* thread t's call is about to do step s on connection c
At(t, s) == Running /\ ftCall[t].at = "run" /\ Head(ftCall[t].rest) = s
Conn(t) == ftNode[ftCall[t].node].conn

\* FTPNode::Connect, with the user's name and password
Connect(t) ==
    /\ At(t, "connect")
    /\ \/ Advance(t, NewConn)
       \/ Catch(t, NoConn)
    /\ UNCHANGED <<ftSet, ftEnd>>

\* Whatever NOOP throws, the connection is made anew.
Noop(t) ==
    /\ At(t, "NOOP")
    /\ \E r \in ReadCode(WriteStr(Conn(t), "NOOP")) :
        IF r.code \in {"ok", "closed"} THEN Answered(t, "NOOP", r)
        ELSE /\ ftNode' = [ftNode EXCEPT ![ftCall[t].node].conn = NoConn]
             /\ ftCall' = [ftCall EXCEPT ![t].rest = <<"connect">> \o Tail(@)]
             /\ UNCHANGED <<ftFile, ftEnd>>
    /\ UNCHANGED ftSet

Command(t, name) ==
    /\ At(t, name)
    /\ \E r \in ReadCode(WriteStr(Conn(t), name)) : Answered(t, name, r)
    /\ UNCHANGED ftSet

\* OpenData sends the command before it makes the data connection.
Transfer(t, name) ==
    LET c == WriteStr(Conn(t), name)
    IN  /\ At(t, name)
        /\ \/ Cut(t, c) /\ UNCHANGED ftEnd      \* Flush has failed, or there is no data connection
           \/ \E r \in ReadCode([Sent(c) EXCEPT !.data = "open"]) : Answered(t, name, r)
        /\ UNCHANGED ftSet

\* Ls reads the lines to their end.
Lines(t) ==
    /\ At(t, "lines")
    /\ \/ Advance(t, Conn(t))
       \/ Cut(t, Conn(t))
    /\ UNCHANGED <<ftSet, ftEnd>>

\* data.Close sends what is left to send.
CloseData(t) ==
    /\ At(t, "close")
    /\ \/ Advance(t, [Conn(t) EXCEPT !.data = "none"])
       \/ Conn(t).data # "none" /\ Cut(t, Conn(t))
    /\ UNCHANGED <<ftSet, ftEnd>>

\* the reply at the end of a transfer
ReadEnd(t) ==
    /\ At(t, "END")
    /\ \E r \in ReadCode(Conn(t)) : Answered(t, "END", r)
    /\ UNCHANGED ftSet
-----------------------------------------------------------------------------
(***************************************************************************)
(* Open files.                                                             *)
(***************************************************************************)
\* Mutant: a file that cannot be read gives its node back.
ReadWriteFrees(t) ==
    /\ Running /\ ftFile[t].state = "open" /\ ftCall[t] = Idle
    /\ \E busy \in BOOLEAN : ftNode' = [ftNode EXCEPT ![ftFile[t].node].busy = busy]
    /\ UNCHANGED <<ftCall, ftFile, ftSet, ftEnd>>

\* FSFtp::Read and Write; if they fail the file keeps its node.
ReadWrite(t) ==
    /\ Running /\ ftFile[t].state = "open" /\ ftCall[t] = Idle
    /\ ftNode' = [ftNode EXCEPT ![ftFile[t].node].conn.data =
                    IF ftFile[t].kind = "write" THEN "unsent" ELSE @]
    /\ UNCHANGED <<ftCall, ftFile, ftSet, ftEnd>>

\* A number that is closed twice may be another call's by then: two threads use
\* one connection, and what they do is not defined.
CloseFile(t) ==
    LET n == ftFile[t].node
    IN  /\ Running /\ ftFile[t] # NoFile /\ ftCall[t] = Idle
        /\ CASE ~ftNode[n].busy -> ftFile' = [ftFile EXCEPT ![t] = NoFile] /\ UNCHANGED <<ftCall, ftEnd>>
             [] ftNode[n].busy /\ ftFile[t].state = "open" ->
                    /\ ftCall' = [ftCall EXCEPT ![t] =
                        [todo |-> <<"close">>, at |-> "run", node |-> n, rest |-> Plan.close]]
                    /\ UNCHANGED <<ftFile, ftEnd>>
             [] OTHER -> ftEnd' = "shared" /\ UNCHANGED <<ftCall, ftFile>>
        /\ UNCHANGED <<ftNode, ftSet>>
-----------------------------------------------------------------------------
FtpStep(t) ==
    \/ \E op \in FtpOps : BeginCall(t, op)
    \/ Logon(t) \/ TakeNode(t) \/ Connect(t) \/ Noop(t)
    \/ \E name \in {"CWD", "PASV", "RNFR", "RNTO", "MKD", "DELE", "RMD"} : Command(t, name)
    \/ \E name \in Transfers : Transfer(t, name)
    \/ Lines(t) \/ CloseData(t) \/ ReadEnd(t)
    \/ ReadWrite(t) \/ CloseFile(t)

FtpEnded == ~Running /\ UNCHANGED ftVars

FtpNext == (\E t \in FtpUser : FtpStep(t)) \/ FtpEnded

FtpSpec == FtpInit /\ [][FtpNext]_ftVars
-----------------------------------------------------------------------------
(***************************************************************************)
(* Properties.                                                             *)
(***************************************************************************)
\* the threads that use node n, for a call or for a file
UsersOf(n) ==
    {t \in FtpUser : \/ ftCall[t].at = "run" /\ ftCall[t].node = n
                     \/ ftFile[t].state = "open" /\ ftFile[t].node = n}

(***************************************************************************)
(* A node is busy exactly when a call or an open file has it, and then     *)
(* just one: no connection is shared, and none is lost from the pool,      *)
(* whatever fails; the numbers that are closed twice excepted.             *)
(***************************************************************************)
PoolExact ==
    \A n \in DOMAIN ftNode : Cardinality(UsersOf(n)) = IF ftNode[n].busy THEN 1 ELSE 0

\* n's connection is between the replies at the beginning and at the end of a transfer
InTransfer(n) ==
    \E t \in UsersOf(n) :
        LET rest == ToSet(ftCall[t].rest)
        IN  IF ftCall[t] = Idle THEN TRUE ELSE "END" \in rest /\ "LIST" \notin rest

(***************************************************************************)
(* A connection on which no exchange was broken off is in step: a call     *)
(* finds no reply on it that is not its own, and leaves none, also when    *)
(* the server refuses one of its commands; only an open transfer has its   *)
(* last reply to come.  (After a broken exchange it is out of step for as  *)
(* long as NOOP takes an old reply for its own.)                           *)
(***************************************************************************)
InStep ==
    \A n \in DOMAIN ftNode :
        LET c == ftNode[n].conn
            pending == c.out \o c.net \o c.in
        IN  ~c.cut => /\ Len(pending) = IF InTransfer(n) THEN 1 ELSE 0
                      /\ c.data = "unsent" => InTransfer(n)
=============================================================================
