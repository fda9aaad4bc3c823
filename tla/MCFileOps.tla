------------------------------ MODULE MCFileOps ------------------------------
(***************************************************************************)
(* FileOps on small disks.  The panel shows the directory S; the other     *)
(* panel shows D.  Names sort nothing here: a list is worked through in    *)
(* every order.  And FtpFs, a file system that operations call: `part'     *)
(* chooses which of the two is looked at.                                  *)
(***************************************************************************)
EXTENDS FileOps, FtpFs, TLC

CONSTANTS Ops, Relations

VARIABLE part

S == <<"S">>
D == <<"D">>
a == "a"
b == "b"

Obj(p, kind) == [kind |-> kind, data |-> IF kind = "dir" THEN <<>> ELSE p]
Disk(kinds) == [p \in {q \in DOMAIN kinds : kinds[q] # "none"} |-> Obj(p, kinds[p])]
Kinds(x, y, xa, xb) == x :> y @@ Append(x, a) :> xa @@ Append(x, b) :> xb
Roots == S :> "dir" @@ D :> "dir"

\* one directory with up to two objects, moved alone
Trees ==
    { Roots @@ Kinds(Append(S, a), "dir", k, l) @@ e :
        k \in {"none", "file", "link", "special"},
        l \in {"none", "file", "dir"},
        e \in {<<>>, Append(D, a) :> "file", Append(D, a) :> "dir",
               Append(D, a) :> "dir" @@ <<"D", "a", "a">> :> "file"} }
    \* and a file one level below
    \cup { Roots @@ Kinds(Append(S, a), "dir", k, "dir") @@ <<"S", "a", "b", "a">> :> "file" @@ e :
            k \in {"none", "file"}, e \in {<<>>, Append(D, a) :> "dir"} }

\* two objects that are no directories
Flat ==
    { Roots @@ Append(S, a) :> k @@ Append(S, b) :> l @@ e :
        k \in {"file", "link", "special"}, l \in {"file", "link"},
        e \in {<<>>, Append(D, a) :> "file", Append(D, a) :> "dir",
               Append(D, a) :> "file" @@ Append(D, b) :> "file"} }

JobOf(op, fs, list, to, kinds) ==
    [op |-> op, fs |-> fs, from |-> S, list |-> list, to |-> to, disk |-> Disk(kinds)]

\* into the other panel's directory
Jobs ==
    { JobOf(op, fs, {a}, D, t) : op \in Ops, fs \in Relations, t \in Trees }
    \cup { JobOf(op, fs, {a, b}, D, t) : op \in Ops, fs \in Relations, t \in Flat }
    \* within the panel's own directory: the same names, and new ones
    \cup { JobOf(op, fs, l, to, t) :
            op \in Ops \ {"delete"}, fs \in Relations \ {"mount", "other"}, l \in {{a}, {a, b}},
            to \in {S, <<"S", "b">>, <<"S", "c">>}, t \in Flat }
    \* a directory under the name of an object beside it
    \cup { JobOf(op, fs, {a}, <<"S", "b">>,
                Roots @@ Kinds(Append(S, a), "dir", k, "none") @@ Append(S, b) :> l) :
            op \in Ops \ {"delete"}, fs \in {"same", "equal"},
            k \in {"none", "file"}, l \in {"file", "link", "special"} }
-----------------------------------------------------------------------------
MCInit ==
    /\ part \in {"operation", "ftp"}
    /\ FileInit /\ (part = "ftp" => job = CHOOSE j \in Job : TRUE)
    /\ FtpInit /\ (part = "operation" => ftSet /\ Len(ftNode) = 1)

MCNext ==
    \/ part = "operation" /\ FileNext /\ UNCHANGED <<part, ftVars>>
    \/ part = "ftp" /\ FtpNext /\ UNCHANGED <<part, fileVars>>

MCStep == part = "operation" /\ FileStep /\ UNCHANGED <<part, ftVars>>

MCSpec == MCInit /\ [][MCNext]_<<part, fileVars, ftVars>> /\ WF_<<part, fileVars, ftVars>>(MCStep)
=============================================================================
