------------------------------ MODULE FtpProofs ------------------------------
(***************************************************************************)
(* Theorems on FtpFs, for any threads, sizes of the pool and operations.   *)
(***************************************************************************)
EXTENDS FtpFs, FiniteSetTheorems, SequenceTheorems, WellFoundedInduction, TLAPS

Jobs == {"list", "read", "write", "mkdir", "rename", "delete", "rmdir"}

\* What may be left to do of a call: all parts but the last list a directory.
Todos == {<<j>> : j \in Jobs \cup {"close"}} \cup {<<"list", "mkdir">>, <<"list", "write">>}

Names == {"NOOP", "connect", "CWD", "close", "PASV", "LIST", "RETR", "STOR", "lines", "END",
          "RNFR", "RNTO", "MKD", "DELE", "RMD"}

\* What may be left of a part, once its connection has been tried or made.
Lefts ==
    [list |-> {<<"CWD", "close", "PASV", "LIST", "lines", "close", "END">>,
               <<"close", "PASV", "LIST", "lines", "close", "END">>,
               <<"PASV", "LIST", "lines", "close", "END">>,
               <<"LIST", "lines", "close", "END">>,
               <<"lines", "close", "END">>, <<"close", "END">>, <<"END">>},
     read |-> {<<"close", "PASV", "RETR">>, <<"PASV", "RETR">>, <<"RETR">>},
     write |-> {<<"close", "PASV", "STOR">>, <<"PASV", "STOR">>, <<"STOR">>},
     close |-> {<<"close", "END">>, <<"END">>},
     rename |-> {<<"CWD", "RNFR", "RNTO">>, <<"RNFR", "RNTO">>, <<"RNTO">>},
     mkdir |-> {<<"MKD">>},
     delete |-> {<<"DELE">>},
     rmdir |-> {<<"CWD", "RMD">>, <<"RMD">>}]

\* Close begins with a connection that is in use.
Begun(job) == IF job = "close" THEN {} ELSE {<<first>> \o Plan[job] : first \in {"NOOP", "connect"}}
Rests(job) == Begun(job) \cup Lefts[job]

Codes == {"ok", "more", "error"}

\* Between the steps of a call at most the last reply of a transfer is owed.
Conns == [up : BOOLEAN, out : {<<>>}, net : {<<>>, <<"END">>},
          in : {<<>>, <<"ok">>, <<"error">>},
          data : {"none", "open", "unsent"}, cut : BOOLEAN]

Nodes == [busy : BOOLEAN, conn : Conns]
Calls == [todo : Todos \cup {<<>>}, at : {"", "logon", "take", "run"}, node : Nat,
          rest : {<<>>} \cup UNION {Rests(j) : j \in Jobs \cup {"close"}}]
Files == [state : {"none", "open", "closed"}, node : Nat, kind : {"", "read", "write"}]

FtpTypeOK ==
    /\ DOMAIN ftNode \subseteq Nat /\ ftNode \in [DOMAIN ftNode -> Nodes]
    /\ ftCall \in [FtpUser -> Calls]
    /\ ftFile \in [FtpUser -> Files]

-----------------------------------------------------------------------------
(* The pool.                                                               *)

\* A thread with this call and this file uses node n.
Has(call, file, n) == (call.at = "run" /\ call.node = n) \/ (file.state = "open" /\ file.node = n)
Uses(t, n) == Has(ftCall[t], ftFile[t], n)

\* A call that closes a file uses the file's node; the others have no file.
Fits(call, file) ==
    \/ call = Idle
    \/ /\ call.todo \in Todos
       /\ call.at \in {"logon", "take"} /\ call.rest = <<>>
       /\ Head(call.todo) # "close" /\ file = NoFile
    \/ /\ call.todo \in Todos
       /\ call.at = "run" /\ call.rest \in Rests(Head(call.todo))
       /\ IF Head(call.todo) = "close" THEN file.state = "open" /\ file.node = call.node
          ELSE file = NoFile

CallShape == \A t \in FtpUser : Fits(ftCall[t], ftFile[t])

\* What is used is busy, what is busy is used, and by one thread.
PoolShape ==
    /\ \A t \in FtpUser : \A n \in Nat : Uses(t, n) => n \in DOMAIN ftNode /\ ftNode[n].busy
    /\ \A n \in DOMAIN ftNode : ftNode[n].busy => \E t \in FtpUser : Uses(t, n)
    /\ \A t, u \in FtpUser : \A n \in Nat : Uses(t, n) /\ Uses(u, n) => t = u

-----------------------------------------------------------------------------
(* The connections.                                                        *)

Quiet(c) == c.out = <<>> /\ c.net = <<>> /\ c.in = <<>>

\* The last reply of a transfer is to come, or has come.
Owing(c) ==
    /\ c.out = <<>>
    /\ \/ c.net = <<"END">> /\ c.in = <<>>
       \/ c.net = <<>> /\ c.in \in {<<"ok">>, <<"error">>}

\* The part of a call that is left is that behind the beginning of a transfer.
Behind(rest) == "END" \in ToSet(rest) /\ "LIST" \notin ToSet(rest)
Transferring(call) == call = Idle \/ Behind(call.rest)

\* The connection of a node, and what a thread keeps to with the one it uses.
Rested(node) ==
    LET c == node.conn
    IN  /\ c.cut => Quiet(c)
        /\ ~c.cut /\ ~node.busy => Quiet(c) /\ c.data # "unsent"
Kept(call, c) ==
    ~c.cut => /\ IF Transferring(call) THEN Owing(c) ELSE Quiet(c) /\ c.data # "unsent"
              /\ call.rest = <<"END">> => c.data # "unsent"

ConnShape ==
    /\ \A n \in DOMAIN ftNode : Rested(ftNode[n])
    /\ \A t \in FtpUser : \A n \in DOMAIN ftNode : Uses(t, n) => Kept(ftCall[t], ftNode[n].conn)

FtpInv == FtpTypeOK /\ CallShape /\ PoolShape /\ ConnShape

-----------------------------------------------------------------------------
(* Plans.                                                                  *)

LEMMA Joined ==
    ASSUME NEW p \in Seq(Names), NEW q \in Seq(Names), NEW c, c = p \o q
    PROVE  /\ c \in Seq(Names) /\ Len(c) = Len(p) + Len(q)
           /\ \A k \in 1..Len(p) : c[k] = p[k]
           /\ \A k \in 1..Len(q) : c[Len(p) + k] = q[k]
BY ConcatProperties

LEMMA ListPlan ==
    Plan.list = <<"CWD", "close", "PASV", "LIST", "lines", "close", "END">>
<1> DEFINE p == <<"CWD">>
           q == <<"close", "PASV", "LIST">>
           r == <<"lines", "close", "END">>
           s == <<"CWD", "close", "PASV", "LIST", "lines", "close", "END">>
<1>1. /\ p \in Seq(Names) /\ Len(p) = 1 /\ p[1] = "CWD"
      /\ q \in Seq(Names) /\ Len(q) = 3 /\ q[1] = "close" /\ q[2] = "PASV" /\ q[3] = "LIST"
      /\ r \in Seq(Names) /\ Len(r) = 3 /\ r[1] = "lines" /\ r[2] = "close" /\ r[3] = "END"
  BY DEF Names
<1>2. /\ s \in Seq(Names) /\ Len(s) = 7
      /\ s[1] = "CWD" /\ s[2] = "close" /\ s[3] = "PASV" /\ s[4] = "LIST" /\ s[5] = "lines"
      /\ s[6] = "close" /\ s[7] = "END"
  BY DEF Names
<1>3. Plan.list = (p \o q) \o r
  BY DEF Plan, OpenData
<1> DEFINE t == p \o q
           u == t \o r
<1>4. t = p \o q /\ u = t \o r
  OBVIOUS
<1> HIDE DEF t, u
<1>5. /\ t \in Seq(Names) /\ Len(t) = Len(p) + Len(q)
      /\ \A k \in 1..Len(p) : t[k] = p[k]
      /\ \A k \in 1..Len(q) : t[Len(p) + k] = q[k]
  BY <1>1, <1>4, Joined
<1>6. /\ Len(t) = 4 /\ t[1] = "CWD"
      /\ t[1 + 1] = "close" /\ t[1 + 2] = "PASV" /\ t[1 + 3] = "LIST"
  BY <1>1, <1>5
<1>7. /\ u \in Seq(Names) /\ Len(u) = Len(t) + Len(r)
      /\ \A k \in 1..Len(t) : u[k] = t[k]
      /\ \A k \in 1..Len(r) : u[Len(t) + k] = r[k]
  BY <1>1, <1>4, <1>5, Joined
<1>8. /\ Len(u) = 7 /\ u[1] = t[1] /\ u[2] = t[2] /\ u[3] = t[3] /\ u[4] = t[4]
      /\ u[4 + 1] = r[1] /\ u[4 + 2] = r[2] /\ u[4 + 3] = r[3]
  BY <1>1, <1>6, <1>7
<1>9. u = s
  <2>1. \A k \in 1..7 : u[k] = s[k]
    <3>1. /\ u[1] = s[1] /\ u[2] = s[2] /\ u[3] = s[3] /\ u[4] = s[4]
          /\ u[5] = s[5] /\ u[6] = s[6] /\ u[7] = s[7]
      BY <1>1, <1>2, <1>6, <1>8
    <3>2. \A k \in 1..7 : k = 1 \/ k = 2 \/ k = 3 \/ k = 4 \/ k = 5 \/ k = 6 \/ k = 7
      OBVIOUS
    <3> QED
      BY <3>1, <3>2
  <2> QED
    BY <1>2, <1>7, <1>8, <2>1, SeqEqual
<1> QED
  BY <1>3, <1>4, <1>9 DEF s

LEMMA PlanLeft == \A job \in Jobs \cup {"close"} : Plan[job] \in Lefts[job]
BY ListPlan DEF Plan, OpenData, Lefts, Jobs

\* What is left behind the beginning of a transfer.
Owed == {<<"lines", "close", "END">>, <<"close", "END">>, <<"END">>}

LEMMA LeftFacts ==
    ASSUME NEW job \in Jobs \cup {"close"}, NEW rest \in Lefts[job]
    PROVE  /\ DOMAIN rest = 1..Len(rest) /\ Len(rest) \in Nat \ {0} /\ rest # <<>>
           /\ Len(rest) > 1 => Tail(rest) \in Lefts[job]
           /\ Head(rest) \in Names \ {"NOOP", "connect"}
           /\ Head(rest) = "END" => rest = <<"END">>
           /\ Head(rest) \in {"RETR", "STOR"} <=> job \in {"read", "write"} /\ Len(rest) = 1
           /\ rest \in Owed => Head(rest) \in {"lines", "close", "END"}
           /\ Head(rest) \in {"lines", "END"} => rest \in Owed
           /\ Head(rest) = "LIST" => rest \notin Owed /\ Len(rest) > 1 /\ Tail(rest) \in Owed
           /\ Len(rest) > 1 /\ Head(rest) # "LIST" => (Tail(rest) \in Owed <=> rest \in Owed)
           /\ Len(rest) > 1 /\ Tail(rest) = <<"END">> => Head(rest) = "close"
           /\ IF job = "close" THEN rest \in Owed ELSE job # "list" => rest \notin Owed
<1>1. CASE job = "list"
  <2>1. CASE rest = <<"CWD", "close", "PASV", "LIST", "lines", "close", "END">>
    BY <1>1, <2>1 DEF Lefts, Names, Owed
  <2>2. CASE rest = <<"close", "PASV", "LIST", "lines", "close", "END">>
    BY <1>1, <2>2 DEF Lefts, Names, Owed
  <2>3. CASE rest = <<"PASV", "LIST", "lines", "close", "END">>
    BY <1>1, <2>3 DEF Lefts, Names, Owed
  <2>4. CASE rest = <<"LIST", "lines", "close", "END">>
    BY <1>1, <2>4 DEF Lefts, Names, Owed
  <2>5. CASE rest = <<"lines", "close", "END">>
    BY <1>1, <2>5 DEF Lefts, Names, Owed
  <2>6. CASE rest = <<"close", "END">>
    BY <1>1, <2>6 DEF Lefts, Names, Owed
  <2>7. CASE rest = <<"END">>
    BY <1>1, <2>7 DEF Lefts, Names, Owed
  <2> QED
    BY <1>1, <2>1, <2>2, <2>3, <2>4, <2>5, <2>6, <2>7 DEF Lefts
<1>2. CASE job = "read"
  <2>1. CASE rest = <<"close", "PASV", "RETR">>
    BY <1>2, <2>1 DEF Lefts, Names, Owed
  <2>2. CASE rest = <<"PASV", "RETR">>
    BY <1>2, <2>2 DEF Lefts, Names, Owed
  <2>3. CASE rest = <<"RETR">>
    BY <1>2, <2>3 DEF Lefts, Names, Owed
  <2> QED
    BY <1>2, <2>1, <2>2, <2>3 DEF Lefts
<1>3. CASE job = "write"
  <2>1. CASE rest = <<"close", "PASV", "STOR">>
    BY <1>3, <2>1 DEF Lefts, Names, Owed
  <2>2. CASE rest = <<"PASV", "STOR">>
    BY <1>3, <2>2 DEF Lefts, Names, Owed
  <2>3. CASE rest = <<"STOR">>
    BY <1>3, <2>3 DEF Lefts, Names, Owed
  <2> QED
    BY <1>3, <2>1, <2>2, <2>3 DEF Lefts
<1>4. CASE job = "close"
  <2>1. CASE rest = <<"close", "END">>
    BY <1>4, <2>1 DEF Lefts, Names, Owed
  <2>2. CASE rest = <<"END">>
    BY <1>4, <2>2 DEF Lefts, Names, Owed
  <2> QED
    BY <1>4, <2>1, <2>2 DEF Lefts
<1>5. CASE job = "rename"
  <2>1. CASE rest = <<"CWD", "RNFR", "RNTO">>
    BY <1>5, <2>1 DEF Lefts, Names, Owed
  <2>2. CASE rest = <<"RNFR", "RNTO">>
    BY <1>5, <2>2 DEF Lefts, Names, Owed
  <2>3. CASE rest = <<"RNTO">>
    BY <1>5, <2>3 DEF Lefts, Names, Owed
  <2> QED
    BY <1>5, <2>1, <2>2, <2>3 DEF Lefts
<1>6. CASE job = "mkdir"
  <2>1. CASE rest = <<"MKD">>
    BY <1>6, <2>1 DEF Lefts, Names, Owed
  <2> QED
    BY <1>6, <2>1 DEF Lefts
<1>7. CASE job = "delete"
  <2>1. CASE rest = <<"DELE">>
    BY <1>7, <2>1 DEF Lefts, Names, Owed
  <2> QED
    BY <1>7, <2>1 DEF Lefts
<1>8. CASE job = "rmdir"
  <2>1. CASE rest = <<"CWD", "RMD">>
    BY <1>8, <2>1 DEF Lefts, Names, Owed
  <2>2. CASE rest = <<"RMD">>
    BY <1>8, <2>2 DEF Lefts, Names, Owed
  <2> QED
    BY <1>8, <2>1, <2>2 DEF Lefts
<1> QED
  BY <1>1, <1>2, <1>3, <1>4, <1>5, <1>6, <1>7, <1>8 DEF Jobs

LEMMA BehindLeft ==
    ASSUME NEW job \in Jobs \cup {"close"}, NEW rest \in Lefts[job]
    PROVE  Behind(rest) <=> rest \in Owed
<1>1. CASE job = "list"
  <2>1. CASE rest = <<"CWD", "close", "PASV", "LIST", "lines", "close", "END">>
    <3>1. 4 \in DOMAIN rest /\ rest[4] = "LIST" /\ rest \notin Owed
      BY <2>1 DEF Owed
    <3> QED
      BY <3>1 DEF Behind, ToSet
  <2>2. CASE rest = <<"close", "PASV", "LIST", "lines", "close", "END">>
    <3>1. 3 \in DOMAIN rest /\ rest[3] = "LIST" /\ rest \notin Owed
      BY <2>2 DEF Owed
    <3> QED
      BY <3>1 DEF Behind, ToSet
  <2>3. CASE rest = <<"PASV", "LIST", "lines", "close", "END">>
    <3>1. 2 \in DOMAIN rest /\ rest[2] = "LIST" /\ rest \notin Owed
      BY <2>3 DEF Owed
    <3> QED
      BY <3>1 DEF Behind, ToSet
  <2>4. CASE rest = <<"LIST", "lines", "close", "END">>
    <3>1. 1 \in DOMAIN rest /\ rest[1] = "LIST" /\ rest \notin Owed
      BY <2>4 DEF Owed
    <3> QED
      BY <3>1 DEF Behind, ToSet
  <2>5. CASE rest = <<"lines", "close", "END">>
    <3>1. 3 \in DOMAIN rest /\ rest[3] = "END" /\ rest \in Owed
      BY <2>5 DEF Owed
    <3>2. \A j \in DOMAIN rest : rest[j] # "LIST"
      BY <2>5
    <3> QED
      BY <3>1, <3>2 DEF Behind, ToSet
  <2>6. CASE rest = <<"close", "END">>
    <3>1. 2 \in DOMAIN rest /\ rest[2] = "END" /\ rest \in Owed
      BY <2>6 DEF Owed
    <3>2. \A j \in DOMAIN rest : rest[j] # "LIST"
      BY <2>6
    <3> QED
      BY <3>1, <3>2 DEF Behind, ToSet
  <2>7. CASE rest = <<"END">>
    <3>1. 1 \in DOMAIN rest /\ rest[1] = "END" /\ rest \in Owed
      BY <2>7 DEF Owed
    <3>2. \A j \in DOMAIN rest : rest[j] # "LIST"
      BY <2>7
    <3> QED
      BY <3>1, <3>2 DEF Behind, ToSet
  <2> QED
    BY <1>1, <2>1, <2>2, <2>3, <2>4, <2>5, <2>6, <2>7 DEF Lefts
<1>2. CASE job = "read"
  <2>1. CASE rest = <<"close", "PASV", "RETR">>
    <3>1. rest \notin Owed /\ \A j \in DOMAIN rest : rest[j] # "END"
      BY <2>1 DEF Owed
    <3> QED
      BY <3>1 DEF Behind, ToSet
  <2>2. CASE rest = <<"PASV", "RETR">>
    <3>1. rest \notin Owed /\ \A j \in DOMAIN rest : rest[j] # "END"
      BY <2>2 DEF Owed
    <3> QED
      BY <3>1 DEF Behind, ToSet
  <2>3. CASE rest = <<"RETR">>
    <3>1. rest \notin Owed /\ \A j \in DOMAIN rest : rest[j] # "END"
      BY <2>3 DEF Owed
    <3> QED
      BY <3>1 DEF Behind, ToSet
  <2> QED
    BY <1>2, <2>1, <2>2, <2>3 DEF Lefts
<1>3. CASE job = "write"
  <2>1. CASE rest = <<"close", "PASV", "STOR">>
    <3>1. rest \notin Owed /\ \A j \in DOMAIN rest : rest[j] # "END"
      BY <2>1 DEF Owed
    <3> QED
      BY <3>1 DEF Behind, ToSet
  <2>2. CASE rest = <<"PASV", "STOR">>
    <3>1. rest \notin Owed /\ \A j \in DOMAIN rest : rest[j] # "END"
      BY <2>2 DEF Owed
    <3> QED
      BY <3>1 DEF Behind, ToSet
  <2>3. CASE rest = <<"STOR">>
    <3>1. rest \notin Owed /\ \A j \in DOMAIN rest : rest[j] # "END"
      BY <2>3 DEF Owed
    <3> QED
      BY <3>1 DEF Behind, ToSet
  <2> QED
    BY <1>3, <2>1, <2>2, <2>3 DEF Lefts
<1>4. CASE job = "close"
  <2>1. CASE rest = <<"close", "END">>
    <3>1. 2 \in DOMAIN rest /\ rest[2] = "END" /\ rest \in Owed
      BY <2>1 DEF Owed
    <3>2. \A j \in DOMAIN rest : rest[j] # "LIST"
      BY <2>1
    <3> QED
      BY <3>1, <3>2 DEF Behind, ToSet
  <2>2. CASE rest = <<"END">>
    <3>1. 1 \in DOMAIN rest /\ rest[1] = "END" /\ rest \in Owed
      BY <2>2 DEF Owed
    <3>2. \A j \in DOMAIN rest : rest[j] # "LIST"
      BY <2>2
    <3> QED
      BY <3>1, <3>2 DEF Behind, ToSet
  <2> QED
    BY <1>4, <2>1, <2>2 DEF Lefts
<1>5. CASE job = "rename"
  <2>1. CASE rest = <<"CWD", "RNFR", "RNTO">>
    <3>1. rest \notin Owed /\ \A j \in DOMAIN rest : rest[j] # "END"
      BY <2>1 DEF Owed
    <3> QED
      BY <3>1 DEF Behind, ToSet
  <2>2. CASE rest = <<"RNFR", "RNTO">>
    <3>1. rest \notin Owed /\ \A j \in DOMAIN rest : rest[j] # "END"
      BY <2>2 DEF Owed
    <3> QED
      BY <3>1 DEF Behind, ToSet
  <2>3. CASE rest = <<"RNTO">>
    <3>1. rest \notin Owed /\ \A j \in DOMAIN rest : rest[j] # "END"
      BY <2>3 DEF Owed
    <3> QED
      BY <3>1 DEF Behind, ToSet
  <2> QED
    BY <1>5, <2>1, <2>2, <2>3 DEF Lefts
<1>6. CASE job = "mkdir"
  <2>1. CASE rest = <<"MKD">>
    <3>1. rest \notin Owed /\ \A j \in DOMAIN rest : rest[j] # "END"
      BY <2>1 DEF Owed
    <3> QED
      BY <3>1 DEF Behind, ToSet
  <2> QED
    BY <1>6, <2>1 DEF Lefts
<1>7. CASE job = "delete"
  <2>1. CASE rest = <<"DELE">>
    <3>1. rest \notin Owed /\ \A j \in DOMAIN rest : rest[j] # "END"
      BY <2>1 DEF Owed
    <3> QED
      BY <3>1 DEF Behind, ToSet
  <2> QED
    BY <1>7, <2>1 DEF Lefts
<1>8. CASE job = "rmdir"
  <2>1. CASE rest = <<"CWD", "RMD">>
    <3>1. rest \notin Owed /\ \A j \in DOMAIN rest : rest[j] # "END"
      BY <2>1 DEF Owed
    <3> QED
      BY <3>1 DEF Behind, ToSet
  <2>2. CASE rest = <<"RMD">>
    <3>1. rest \notin Owed /\ \A j \in DOMAIN rest : rest[j] # "END"
      BY <2>2 DEF Owed
    <3> QED
      BY <3>1 DEF Behind, ToSet
  <2> QED
    BY <1>8, <2>1, <2>2 DEF Lefts
<1> QED
  BY <1>1, <1>2, <1>3, <1>4, <1>5, <1>6, <1>7, <1>8 DEF Jobs

\* A part at its beginning.
LEMMA BeginFacts ==
    ASSUME NEW job \in Jobs, NEW first \in {"NOOP", "connect"},
           NEW rest, rest = <<first>> \o Plan[job]
    PROVE  /\ Len(rest) \in Nat \ {0, 1} /\ rest # <<>> /\ rest # <<"END">>
           /\ Head(rest) = first /\ Tail(rest) = Plan[job]
           /\ ~Behind(rest) /\ ~Behind(Plan[job]) /\ Plan[job] # <<"END">>
<1> DEFINE p == Plan[job]
           f == <<first>>
<1>1. p \in Lefts[job] /\ Len(p) \in Nat \ {0}
  BY PlanLeft, LeftFacts
<1>2. p \in Seq(Names)
  <2>1. OpenData("RETR") \in Seq(Names) /\ OpenData("STOR") \in Seq(Names)
    BY DEF OpenData, Names
  <2>2. Plan.list \in Seq(Names)
    BY ListPlan DEF Names
  <2>3. /\ Plan.rename \in Seq(Names) /\ Plan.mkdir \in Seq(Names)
        /\ Plan.delete \in Seq(Names) /\ Plan.rmdir \in Seq(Names)
    BY DEF Plan, Names
  <2>4. Plan.read = OpenData("RETR") /\ Plan.write = OpenData("STOR")
    BY DEF Plan
  <2> QED
    BY <2>1, <2>2, <2>3, <2>4 DEF Jobs
<1>3. f \in Seq(Names) /\ Len(f) = 1 /\ f[1] = first
  BY DEF Names
<1>4. p \notin Owed
  BY ListPlan DEF Plan, OpenData, Jobs, Owed
<1>5. ~Behind(p) /\ p # <<"END">>
  BY <1>1, <1>4, BehindLeft DEF Owed
<1>6. rest = f \o p
  OBVIOUS
<1> HIDE DEF p, f
<1>7. /\ rest \in Seq(Names) /\ Len(rest) = Len(f) + Len(p)
      /\ \A k \in 1..Len(f) : rest[k] = f[k]
      /\ \A k \in 1..Len(p) : rest[Len(f) + k] = p[k]
  BY <1>2, <1>3, <1>6, Joined
<1>8. /\ Len(rest) = 1 + Len(p) /\ rest[1] = first
      /\ \A k \in 1..Len(p) : rest[1 + k] = p[k]
  BY <1>3, <1>7
<1>9. Len(rest) \in Nat \ {0, 1} /\ rest # <<>> /\ Head(rest) = first
  BY <1>1, <1>7, <1>8
<1>10. Tail(rest) = p
  <2>1. Tail(rest) \in Seq(Names) /\ Len(Tail(rest)) = Len(p)
        /\ \A k \in 1..Len(p) : Tail(rest)[k] = rest[k + 1]
    BY <1>1, <1>7, <1>8, <1>9
  <2>2. \A k \in 1..Len(p) : Tail(rest)[k] = p[k]
    BY <1>8, <2>1
  <2> QED
    BY <1>2, <2>1, <2>2, SeqEqual
<1>11. ~Behind(rest) /\ rest # <<"END">>
  <2>1. DOMAIN rest = 1..1 + Len(p) /\ DOMAIN p = 1..Len(p)
    BY <1>2, <1>7, <1>8
  <2>2. \A k \in 1..Len(p) : 1 + k \in DOMAIN rest /\ rest[1 + k] = p[k]
    BY <1>1, <1>8, <2>1
  <2>3. \A k \in 1..1 + Len(p) : k = 1 \/ (k - 1 \in DOMAIN p /\ rest[k] = p[k - 1])
    <3>1. ASSUME NEW k \in 1..1 + Len(p), k # 1 PROVE k - 1 \in 1..Len(p) /\ 1 + (k - 1) = k
      BY <1>1, <3>1
    <3>2. ASSUME NEW k \in 1..1 + Len(p), k # 1 PROVE rest[1 + (k - 1)] = p[k - 1]
      BY <1>8, <3>1, <3>2
    <3> QED
      BY <2>1, <3>1, <3>2
  <2>4. rest[1] # "END"
    BY <1>8
  <2>5. ToSet(p) \subseteq ToSet(rest)
    BY <2>1, <2>2 DEF ToSet
  <2>6. "END" \in ToSet(rest) => "END" \in ToSet(p)
    BY <2>1, <2>3, <2>4 DEF ToSet
  <2>7. rest # <<"END">>
    BY <1>9
  <2> QED
    BY <1>5, <2>5, <2>6, <2>7 DEF Behind
<1> QED
  BY <1>5, <1>9, <1>10, <1>11 DEF p

-----------------------------------------------------------------------------
(* Commands and replies on a connection.                                   *)

\* A connection within a step.
Wires == [up : BOOLEAN, out : Seq(Names), net : Seq(Names), in : Seq(Codes),
          data : {"none", "open", "unsent"}, cut : BOOLEAN]

LEMMA ConnIsWire == Conns \subseteq Wires
<1>1. /\ <<>> \in Seq(Names) /\ <<"END">> \in Seq(Names)
      /\ <<>> \in Seq(Codes) /\ <<"ok">> \in Seq(Codes) /\ <<"error">> \in Seq(Codes)
  BY DEF Names, Codes
<1> DEFINE N == Seq(Names)
           C == Seq(Codes)
<1>2. Conns \subseteq [up : BOOLEAN, out : N, net : N, in : C,
                     data : {"none", "open", "unsent"}, cut : BOOLEAN]
  <2>1. {<<>>} \subseteq N /\ {<<>>, <<"END">>} \subseteq N /\ {<<>>, <<"ok">>, <<"error">>} \subseteq C
    BY <1>1
  <2> HIDE DEF N, C
  <2> QED
    BY <2>1 DEF Conns
<1> QED
  BY <1>2 DEF Wires

LEMMA Answers ==
    /\ \A cmd \in Transfers : AnswersTo(cmd) = {<<"ok", "ok">>, <<"ok", "error">>, <<"error">>}
    /\ \A cmd \in Names \ Transfers : cmd # "RNFR" => AnswersTo(cmd) = {<<"ok">>, <<"error">>}
    /\ AnswersTo("RNFR") = {<<"more">>, <<"error">>}
<1>1. ASSUME NEW cmd \in Transfers
      PROVE  AnswersTo(cmd) = {<<"ok", "ok">>, <<"ok", "error">>, <<"error">>}
  <2>1. cmd # "RNFR"
    BY DEF Transfers
  <2> QED
    BY <1>1, <2>1, Zenon DEF AnswersTo
<1>2. ASSUME NEW cmd \in Names \ Transfers, cmd # "RNFR"
      PROVE  AnswersTo(cmd) = {<<"ok">>, <<"error">>}
  BY <1>2, Zenon DEF AnswersTo
<1>3. AnswersTo("RNFR") = {<<"more">>, <<"error">>}
  <2>1. "RNFR" \notin Transfers
    BY DEF Transfers
  <2> QED
    BY <2>1, Zenon DEF AnswersTo
<1> QED
  BY <1>1, <1>2, <1>3

LEMMA FlattenOne == ASSUME NEW s, NEW S, s \in Seq(S) PROVE FlattenSeq(<<s>>) = s
<1> DEFINE seqs == <<s>>
           g == [i \in 1..1 |-> seqs[i]]
           F(f) == [i \in 1..Len(seqs) |-> IF i = 1 THEN seqs[i] ELSE f[i - 1] \o seqs[i]]
<1>1. Len(seqs) = 1 /\ seqs[1] = s
  OBVIOUS
<1>2. \A f : F(f) = g
  BY <1>1
<1>3. (CHOOSE f : f = F(f)) = g
  BY <1>2
<1>4. FlattenSeq(seqs) = (CHOOSE f : f = F(f))[1]
  BY <1>1 DEF FlattenSeq
<1> QED
  BY <1>1, <1>3, <1>4

LEMMA ReceivedOne ==
    ASSUME NEW name \in Names, NEW c \in Wires, c.net = <<name>>,
           NEW r, r \in Received(c)
    PROVE  \/ \E a \in AnswersTo(name) : r = [c EXCEPT !.in = a, !.net = <<>>]
           \/ name \in Transfers /\ r = [c EXCEPT !.in = <<"ok">>, !.net = <<"END">>]
<1>1. DOMAIN c.net = {1} /\ c.net[1] = name
  OBVIOUS
<1>2. \/ \E k \in DOMAIN c.net : \E a \in Replies(c.net) : r = Arrived(c, a, k)
      \/ r = FirstArrived(c) /\ c.net[1] \in Transfers
  BY DEF Received
<1>3. ASSUME NEW k \in DOMAIN c.net, NEW a \in Replies(c.net), r = Arrived(c, a, k)
      PROVE  \E b \in AnswersTo(name) : r = [c EXCEPT !.in = b, !.net = <<>>]
  <2>1. a[1] \in AnswersTo(name) /\ DOMAIN a = {1} /\ k = 1
    BY <1>1 DEF Replies
  <2>2. a = <<a[1]>>
    <3>1. a = [i \in {1} |-> a[i]]
      BY <1>1 DEF Replies
    <3>2. a = [i \in {1} |-> a[1]]
      BY <3>1
    <3>3. \A x : <<x>> = [i \in {1} |-> x]
      OBVIOUS
    <3> QED
      BY <3>2, <3>3
  <2>3. SubSeq(a, 1, k) = <<a[1]>>
    <3>1. ASSUME NEW x PROVE SubSeq(<<x>>, 1, 1) = <<x>>
      <4> DEFINE u == SubSeq(<<x>>, 1, 1)
      <4>1. u \in Seq({x}) /\ Len(u) = 1 /\ u[1] = <<x>>[1]
        BY SubSeqProperties
      <4>2. <<x>> \in Seq({x}) /\ Len(<<x>>) = 1
        OBVIOUS
      <4> HIDE DEF u
      <4>3. u = <<x>>
        BY <4>1, <4>2, SeqEqual
      <4> QED
        BY <4>3 DEF u
    <3> QED
      BY <2>1, <2>2, <3>1
  <2>4. \E S : a[1] \in Seq(S)
    <3>1. /\ <<"ok">> \in Seq(Codes) /\ <<"error">> \in Seq(Codes) /\ <<"more">> \in Seq(Codes)
          /\ <<"ok", "ok">> \in Seq(Codes) /\ <<"ok", "error">> \in Seq(Codes)
      BY DEF Codes
    <3>2. a[1] \in {<<"ok", "ok">>, <<"ok", "error">>, <<"error">>, <<"ok">>, <<"more">>}
      BY <2>1, Answers
    <3> QED
      BY <3>1, <3>2
  <2>5. FlattenSeq(SubSeq(a, 1, k)) = a[1]
    BY <2>3, <2>4, FlattenOne
  <2>6. SubSeq(c.net, k + 1, Len(c.net)) = <<>>
    BY <2>1
  <2>7. r = [c EXCEPT !.in = a[1], !.net = <<>>]
    BY <1>3, <2>5, <2>6 DEF Arrived
  <2> QED
    BY <2>1, <2>7
<1>4. [c.net EXCEPT ![1] = "END"] = <<"END">>
  BY <1>1
<1>5. ASSUME r = FirstArrived(c) PROVE r = [c EXCEPT !.in = <<"ok">>, !.net = <<"END">>]
  BY <1>4, <1>5 DEF FirstArrived, Wires
<1> QED
  BY <1>1, <1>2, <1>3, <1>5

-----------------------------------------------------------------------------
(* Steps of one thread.                                                    *)

\* Thread t, and no other, has node n, before the step or after it.
LEMMA NodeStep ==
    ASSUME FtpInv, NEW t \in FtpUser, NEW n \in DOMAIN ftNode,
           NEW node \in Nodes, NEW call \in Calls, NEW file \in Files,
           ftNode' = [ftNode EXCEPT ![n] = node],
           ftCall' = [ftCall EXCEPT ![t] = call],
           ftFile' = [ftFile EXCEPT ![t] = file],
           \A u \in FtpUser : Uses(u, n) => u = t,
           \A m \in Nat : Uses(t, m) => m = n,
           \A m \in Nat : Has(call, file, m) => m = n,
           Has(call, file, n) <=> node.busy,
           Fits(call, file), Rested(node), node.busy => Kept(call, node.conn)
    PROVE  FtpInv'
<1>1. n \in Nat /\ DOMAIN ftNode \subseteq Nat /\ ftNode \in [DOMAIN ftNode -> Nodes]
  BY DEF FtpInv, FtpTypeOK
<1>2. /\ DOMAIN ftNode' = DOMAIN ftNode /\ ftNode'[n] = node
      /\ \A m \in DOMAIN ftNode : m # n => ftNode'[m] = ftNode[m]
  OBVIOUS
<1>3. /\ ftCall \in [FtpUser -> Calls] /\ ftFile \in [FtpUser -> Files]
      /\ ftCall' \in [FtpUser -> Calls] /\ ftFile' \in [FtpUser -> Files]
  BY DEF FtpInv, FtpTypeOK
<1>4. /\ ftCall'[t] = call /\ ftFile'[t] = file
      /\ \A u \in FtpUser : u # t => ftCall'[u] = ftCall[u] /\ ftFile'[u] = ftFile[u]
  BY <1>3
<1>5. FtpTypeOK'
  <2>1. ftNode' \in [DOMAIN ftNode -> Nodes]
    BY <1>1
  <2> QED
    BY <1>1, <1>2, <1>3, <2>1 DEF FtpTypeOK
<1>6. CallShape'
  BY <1>4 DEF FtpInv, CallShape
<1>7. /\ \A m \in Nat : Uses(t, m)' <=> Has(call, file, m)
      /\ \A u \in FtpUser : u # t => \A m \in Nat : Uses(u, m)' <=> Uses(u, m)
  BY <1>4 DEF Uses
<1>8. /\ \A u \in FtpUser : \A m \in Nat : Uses(u, m) => m \in DOMAIN ftNode /\ ftNode[m].busy
      /\ \A m \in DOMAIN ftNode : ftNode[m].busy => \E u \in FtpUser : Uses(u, m)
      /\ \A u, v \in FtpUser : \A m \in Nat : Uses(u, m) /\ Uses(v, m) => u = v
  BY DEF FtpInv, PoolShape
<1>9. PoolShape'
  <2>1. \A u \in FtpUser : \A m \in Nat : Uses(u, m)' => m \in DOMAIN ftNode' /\ ftNode'[m].busy
    BY <1>1, <1>2, <1>7, <1>8
  <2>2. \A m \in DOMAIN ftNode' : ftNode'[m].busy => \E u \in FtpUser : Uses(u, m)'
    BY <1>1, <1>2, <1>7, <1>8
  <2>3. \A u, v \in FtpUser : \A m \in Nat : Uses(u, m)' /\ Uses(v, m)' => u = v
    BY <1>1, <1>2, <1>7, <1>8
  <2> QED
    BY <2>1, <2>2, <2>3 DEF PoolShape
<1>10. ConnShape'
  <2>1. \A m \in DOMAIN ftNode : Rested(ftNode[m])
    BY DEF FtpInv, ConnShape
  <2>2. \A m \in DOMAIN ftNode' : Rested(ftNode[m]')
    BY <1>2, <2>1
  <2>3. \A u \in FtpUser : \A m \in DOMAIN ftNode : Uses(u, m) => Kept(ftCall[u], ftNode[m].conn)
    BY DEF FtpInv, ConnShape
  <2>4. ASSUME NEW u \in FtpUser, NEW m \in DOMAIN ftNode', Uses(u, m)'
        PROVE  Kept(ftCall'[u], ftNode'[m].conn)
    <3>1. m \in Nat /\ m \in DOMAIN ftNode
      BY <1>1, <1>2
    <3>2. CASE u = t
      BY <1>2, <1>4, <1>7, <2>4, <3>1, <3>2
    <3>3. CASE u # t
      BY <1>2, <1>4, <1>7, <2>3, <2>4, <3>1, <3>3
    <3> QED
      BY <3>2, <3>3
  <2> QED
    BY <2>2, <2>4 DEF ConnShape
<1> QED
  BY <1>5, <1>6, <1>9, <1>10 DEF FtpInv

\* The nodes stay as they are, and are used as before.
LEMMA AsideStep ==
    ASSUME FtpInv, NEW t \in FtpUser, NEW call \in Calls, NEW file \in Files,
           ftNode' = ftNode,
           ftCall' = [ftCall EXCEPT ![t] = call],
           ftFile' = [ftFile EXCEPT ![t] = file],
           \A m \in Nat : Has(call, file, m) <=> Uses(t, m),
           Fits(call, file),
           \A m \in DOMAIN ftNode : Uses(t, m) => Kept(call, ftNode[m].conn)
    PROVE  FtpInv'
<1>1. DOMAIN ftNode \subseteq Nat /\ ftNode \in [DOMAIN ftNode -> Nodes]
  BY DEF FtpInv, FtpTypeOK
<1>3. /\ ftCall \in [FtpUser -> Calls] /\ ftFile \in [FtpUser -> Files]
      /\ ftCall' \in [FtpUser -> Calls] /\ ftFile' \in [FtpUser -> Files]
  BY DEF FtpInv, FtpTypeOK
<1>4. /\ ftCall'[t] = call /\ ftFile'[t] = file
      /\ \A u \in FtpUser : u # t => ftCall'[u] = ftCall[u] /\ ftFile'[u] = ftFile[u]
  BY <1>3
<1>5. FtpTypeOK'
  BY <1>1, <1>3 DEF FtpTypeOK
<1>6. CallShape'
  BY <1>4 DEF FtpInv, CallShape
<1>7. \A u \in FtpUser : \A m \in Nat : Uses(u, m)' <=> Uses(u, m)
  BY <1>4 DEF Uses
<1>8. PoolShape'
  BY <1>1, <1>7 DEF FtpInv, PoolShape
<1>9. ConnShape'
  <2>1. \A m \in DOMAIN ftNode' : Rested(ftNode[m]')
    BY DEF FtpInv, ConnShape
  <2>2. \A u \in FtpUser : \A m \in DOMAIN ftNode : Uses(u, m) => Kept(ftCall[u], ftNode[m].conn)
    BY DEF FtpInv, ConnShape
  <2>3. ASSUME NEW u \in FtpUser, NEW m \in DOMAIN ftNode', Uses(u, m)'
        PROVE  Kept(ftCall'[u], ftNode'[m].conn)
    <3>1. m \in Nat /\ m \in DOMAIN ftNode /\ Uses(u, m)
      BY <1>1, <1>7, <2>3
    <3> QED
      BY <1>4, <2>2, <3>1
  <2> QED
    BY <2>1, <2>3 DEF ConnShape
<1> QED
  BY <1>5, <1>6, <1>8, <1>9 DEF FtpInv

-----------------------------------------------------------------------------
(* Exchanges.                                                              *)

\* How a command and its reply end.
Ended(c, name, r) ==
    \/ r.code \in {"cut", "closed"} /\ r.conn \in Wires
    \/ /\ r.code \in Codes /\ r.conn \in Conns /\ r.conn.data = c.data /\ ~r.conn.cut
       /\ IF name \in Transfers /\ r.code = "ok" THEN Owing(r.conn) ELSE Quiet(r.conn)
       /\ r.code = "more" => name = "RNFR"

LEMMA InChanged ==
    ASSUME NEW d \in Wires, NEW t \in Seq(Codes)
    PROVE  [d EXCEPT !.in = t] =
             [up |-> d.up, out |-> d.out, net |-> d.net, in |-> t, data |-> d.data, cut |-> d.cut]
<1> DEFINE g == [d EXCEPT !.in = t]
<1>1. g \in Wires
  BY DEF Wires
<1>2. /\ g.up = d.up /\ g.out = d.out /\ g.net = d.net /\ g.in = t
      /\ g.data = d.data /\ g.cut = d.cut
  BY DEF Wires
<1> HIDE DEF g
<1>3. g = [up |-> d.up, out |-> d.out, net |-> d.net, in |-> t, data |-> d.data, cut |-> d.cut]
  BY <1>1, <1>2 DEF Wires
<1> QED
  BY <1>3 DEF g

LEMMA TakenFacts ==
    ASSUME NEW c \in Wires, NEW a \in Seq(Codes), NEW b \in Seq(Names), a # <<>>, c.out = <<>>,
           NEW d, d = [c EXCEPT !.in = a, !.net = b]
    PROVE  /\ Taken(d).code = Head(a)
           /\ Taken(d).conn.out = <<>> /\ Taken(d).conn.net = b /\ Taken(d).conn.in = Tail(a)
           /\ Taken(d).conn.data = c.data /\ Taken(d).conn.cut = c.cut
           /\ Tail(a) \in {<<>>, <<"ok">>, <<"error">>} /\ b \in {<<>>, <<"END">>}
                => Taken(d).conn \in Conns
<1>1. /\ DOMAIN c = {"up", "out", "net", "in", "data", "cut"}
      /\ c.up \in BOOLEAN /\ c.data \in {"none", "open", "unsent"} /\ c.cut \in BOOLEAN
  BY DEF Wires
<1>2. d = [up |-> c.up, out |-> <<>>, net |-> b, in |-> a, data |-> c.data, cut |-> c.cut]
  BY <1>1 DEF Wires
<1> DEFINE t == Tail(a)
           e == [up |-> c.up, out |-> <<>>, net |-> b, in |-> t, data |-> c.data, cut |-> c.cut]
<1>3. Taken(d) = [conn |-> e, code |-> Head(a)]
  <2>0. t \in Seq(Codes)
    BY HeadTailProperties
  <2>1. d.in = a
    BY <1>2
  <2>2. Taken(d) = [conn |-> [d EXCEPT !.in = t], code |-> Head(a)]
    BY <2>1 DEF Taken
  <2> HIDE DEF t
  <2>3. [d EXCEPT !.in = t] = e
    <3>1. d \in Wires
      <4>1. <<>> \in Seq(Names)
        OBVIOUS
      <4> QED
        BY <1>1, <1>2, <4>1 DEF Wires
    <3>2. d.up = c.up /\ d.out = <<>> /\ d.net = b /\ d.data = c.data /\ d.cut = c.cut
      BY <1>2
    <3> QED
      BY <2>0, <3>1, <3>2, InChanged
  <2> QED
    BY <2>2, <2>3
<1>4. /\ Taken(d).code = Head(a) /\ Taken(d).conn = e
  <2> HIDE DEF e
  <2> QED
    BY <1>3
<1> HIDE DEF t
<1>5. e.out = <<>> /\ e.net = b /\ e.in = t /\ e.data = c.data /\ e.cut = c.cut
  OBVIOUS
<1>6. t \in {<<>>, <<"ok">>, <<"error">>} /\ b \in {<<>>, <<"END">>} => e \in Conns
  <2> DEFINE I == {<<>>, <<"ok">>, <<"error">>}
             N == {<<>>, <<"END">>}
             O == {<<>>}
  <2>1. <<>> \in O
    OBVIOUS
  <2>2. Conns = [up : BOOLEAN, out : O, net : N, in : I, data : {"none", "open", "unsent"}, cut : BOOLEAN]
    BY DEF Conns
  <2> HIDE DEF I, N, O
  <2>3. t \in I /\ b \in N => e \in Conns
    BY <1>1, <2>1, <2>2
  <2> QED
    BY <2>3 DEF I, N
<1> HIDE DEF e
<1> QED
  BY <1>4, <1>5, <1>6 DEF t

\* One reply is awaited.
LEMMA Awaited ==
    ASSUME NEW name \in Names, NEW c \in Wires, ~c.cut, c.in = <<>>,
           c.net \o c.out = <<name>>, NEW r, r \in ReadCode(c)
    PROVE  Ended(c, name, r)
<1> DEFINE s == Sent(c)
<1>1. s \in Wires /\ s.net = <<name>> /\ s.out = <<>> /\ s.in = <<>> /\ s.data = c.data /\ ~s.cut
  <2>1. <<name>> \in Seq(Names) /\ <<>> \in Seq(Names)
    OBVIOUS
  <2>2. s = [c EXCEPT !.net = <<name>>, !.out = <<>>]
    BY DEF Sent
  <2> QED
    BY <2>1, <2>2 DEF Wires
<1>2. \/ r \in {[conn |-> s, code |-> x] : x \in {"cut", "closed"}}
      \/ r \in {Taken(q) : q \in Received(s)}
  BY DEF ReadCode
<1> HIDE DEF s
<1>3. CASE r \in {[conn |-> s, code |-> x] : x \in {"cut", "closed"}}
  BY <1>1, <1>3 DEF Ended
<1>4. CASE r \in {Taken(q) : q \in Received(s)}
  <2>1. PICK q : q \in Received(s) /\ r = Taken(q)
    BY <1>4
  <2>2. \/ \E a \in AnswersTo(name) : q = [s EXCEPT !.in = a, !.net = <<>>]
        \/ name \in Transfers /\ q = [s EXCEPT !.in = <<"ok">>, !.net = <<"END">>]
    BY <1>1, <2>1, ReceivedOne
  <2>3. /\ <<"ok">> \in Seq(Codes) /\ <<"error">> \in Seq(Codes) /\ <<"more">> \in Seq(Codes)
        /\ <<"ok", "ok">> \in Seq(Codes) /\ <<"ok", "error">> \in Seq(Codes)
        /\ <<>> \in Seq(Names) /\ <<"END">> \in Seq(Names)
    BY DEF Codes, Names
  <2>4. ASSUME NEW a \in Seq(Codes), NEW b \in {<<>>, <<"END">>}, a # <<>>,
               q = [s EXCEPT !.in = a, !.net = b], Tail(a) \in {<<>>, <<"ok">>, <<"error">>}
        PROVE  /\ r.code = Head(a) /\ r.conn \in Conns
               /\ r.conn.out = <<>> /\ r.conn.net = b /\ r.conn.in = Tail(a)
               /\ r.conn.data = c.data /\ ~r.conn.cut
    <3>1. b \in Seq(Names)
      BY <2>3
    <3>2. /\ Taken(q).code = Head(a)
          /\ Taken(q).conn.out = <<>> /\ Taken(q).conn.net = b /\ Taken(q).conn.in = Tail(a)
          /\ Taken(q).conn.data = s.data /\ Taken(q).conn.cut = s.cut
          /\ Tail(a) \in {<<>>, <<"ok">>, <<"error">>} /\ b \in {<<>>, <<"END">>}
               => Taken(q).conn \in Conns
      <4>1. \A d : d = [s EXCEPT !.in = a, !.net = b] =>
               /\ Taken(d).code = Head(a)
               /\ Taken(d).conn.out = <<>> /\ Taken(d).conn.net = b /\ Taken(d).conn.in = Tail(a)
               /\ Taken(d).conn.data = s.data /\ Taken(d).conn.cut = s.cut
               /\ Tail(a) \in {<<>>, <<"ok">>, <<"error">>} /\ b \in {<<>>, <<"END">>}
                    => Taken(d).conn \in Conns
        BY <1>1, <2>4, <3>1, TakenFacts
      <4> QED
        BY <2>4, <4>1
    <3>3. Taken(q).conn \in Conns
      BY <2>4, <3>2
    <3> QED
      BY <1>1, <2>1, <3>2, <3>3
  <2>5. /\ Head(<<"ok">>) = "ok" /\ Tail(<<"ok">>) = <<>>
        /\ Head(<<"error">>) = "error" /\ Tail(<<"error">>) = <<>>
        /\ Head(<<"more">>) = "more" /\ Tail(<<"more">>) = <<>>
        /\ Head(<<"ok", "ok">>) = "ok" /\ Tail(<<"ok", "ok">>) = <<"ok">>
        /\ Head(<<"ok", "error">>) = "ok" /\ Tail(<<"ok", "error">>) = <<"error">>
    OBVIOUS
  <2>6. CASE name \in Transfers /\ q = [s EXCEPT !.in = <<"ok">>, !.net = <<"END">>]
    <3>1. /\ r.code = "ok" /\ r.conn \in Conns
          /\ r.conn.out = <<>> /\ r.conn.net = <<"END">> /\ r.conn.in = <<>>
          /\ r.conn.data = c.data /\ ~r.conn.cut
      BY <2>3, <2>4, <2>5, <2>6
    <3> QED
      BY <2>6, <3>1 DEF Ended, Owing, Codes
  <2>7. ASSUME NEW a \in AnswersTo(name), q = [s EXCEPT !.in = a, !.net = <<>>]
        PROVE  Ended(c, name, r)
    <3>1. CASE a = <<"ok">> /\ name \notin Transfers
      <4>1. /\ r.code = "ok" /\ r.conn \in Conns
            /\ r.conn.out = <<>> /\ r.conn.net = <<>> /\ r.conn.in = <<>>
            /\ r.conn.data = c.data /\ ~r.conn.cut
        BY <2>3, <2>4, <2>5, <2>7, <3>1
      <4> QED
        BY <3>1, <4>1 DEF Ended, Quiet, Codes
    <3>2. CASE a = <<"error">>
      <4>1. /\ r.code = "error" /\ r.conn \in Conns
            /\ r.conn.out = <<>> /\ r.conn.net = <<>> /\ r.conn.in = <<>>
            /\ r.conn.data = c.data /\ ~r.conn.cut
        BY <2>3, <2>4, <2>5, <2>7, <3>2
      <4> QED
        BY <3>2, <4>1 DEF Ended, Quiet, Codes
    <3>3. CASE a = <<"more">> /\ name = "RNFR"
      <4>1. /\ r.code = "more" /\ r.conn \in Conns
            /\ r.conn.out = <<>> /\ r.conn.net = <<>> /\ r.conn.in = <<>>
            /\ r.conn.data = c.data /\ ~r.conn.cut
        BY <2>3, <2>4, <2>5, <2>7, <3>3
      <4> QED
        BY <3>3, <4>1 DEF Ended, Quiet, Codes
    <3>4. CASE a = <<"ok", "ok">> /\ name \in Transfers
      <4>1. /\ r.code = "ok" /\ r.conn \in Conns
            /\ r.conn.out = <<>> /\ r.conn.net = <<>> /\ r.conn.in = <<"ok">>
            /\ r.conn.data = c.data /\ ~r.conn.cut
        BY <2>3, <2>4, <2>5, <2>7, <3>4
      <4> QED
        BY <3>4, <4>1 DEF Ended, Owing, Codes
    <3>5. CASE a = <<"ok", "error">> /\ name \in Transfers
      <4>1. /\ r.code = "ok" /\ r.conn \in Conns
            /\ r.conn.out = <<>> /\ r.conn.net = <<>> /\ r.conn.in = <<"error">>
            /\ r.conn.data = c.data /\ ~r.conn.cut
        BY <2>3, <2>4, <2>5, <2>7, <3>5
      <4> QED
        BY <3>5, <4>1 DEF Ended, Owing, Codes
    <3>6. \/ name \in Transfers /\ AnswersTo(name) = {<<"ok", "ok">>, <<"ok", "error">>, <<"error">>}
          \/ name \in Names \ Transfers /\ name # "RNFR" /\ AnswersTo(name) = {<<"ok">>, <<"error">>}
          \/ name = "RNFR" /\ AnswersTo(name) = {<<"more">>, <<"error">>}
      BY Answers
    <3> QED
      BY <3>1, <3>2, <3>3, <3>4, <3>5, <3>6
  <2> QED
    BY <2>2, <2>6, <2>7
<1> QED
  BY <1>2, <1>3, <1>4

\* The last reply of a transfer has come, or is awaited.
LEMMA LastReply ==
    ASSUME NEW c \in Conns, ~c.cut, Owing(c), NEW r, r \in ReadCode(c)
    PROVE  Ended(c, "END", r)
<1>1. c \in Wires
  BY ConnIsWire
<1>2. "END" \in Names /\ "END" \notin Transfers
  BY DEF Names, Transfers
<1>3. CASE c.net = <<"END">> /\ c.in = <<>>
  <2>1. <<"END">> \o <<>> = <<"END">>
    <3>1. <<"END">> \in Seq(Names)
      BY DEF Names
    <3> QED
      BY <3>1, ConcatEmptySeq
  <2>2. c.net \o c.out = <<"END">>
    BY <1>3, <2>1 DEF Owing
  <2> QED
    BY <1>1, <1>2, <1>3, <2>2, Awaited
<1>4. CASE c.net = <<>> /\ c.in \in {<<"ok">>, <<"error">>}
  <2>1. r = Taken(c) /\ c.in # <<>>
    <3>1. c.in # <<>>
      <4>1. <<"ok">> # <<>> /\ <<"error">> # <<>>
        OBVIOUS
      <4> QED
        BY <1>4, <4>1
    <3> QED
      BY <3>1 DEF ReadCode
  <2>2. c = [c EXCEPT !.in = c.in, !.net = <<>>]
    BY <1>4 DEF Conns
  <2>3. c.in \in Seq(Codes) /\ <<>> \in Seq(Names) /\ Tail(c.in) = <<>> /\ Head(c.in) \in Codes \ {"more"}
    <3>1. CASE c.in = <<"ok">>
      BY <3>1 DEF Codes
    <3>2. CASE c.in = <<"error">>
      BY <3>2 DEF Codes
    <3> QED
      BY <1>4, <3>1, <3>2
  <2>4. /\ r.code = Head(c.in) /\ r.conn.out = <<>> /\ r.conn.net = <<>> /\ r.conn.in = Tail(c.in)
        /\ r.conn.data = c.data /\ r.conn.cut = c.cut /\ r.conn \in Conns
    <3>1. c.out = <<>>
      BY DEF Owing
    <3>2. /\ Taken(c).code = Head(c.in)
          /\ Taken(c).conn.out = <<>> /\ Taken(c).conn.net = <<>> /\ Taken(c).conn.in = Tail(c.in)
          /\ Taken(c).conn.data = c.data /\ Taken(c).conn.cut = c.cut
          /\ Tail(c.in) \in {<<>>, <<"ok">>, <<"error">>} /\ <<>> \in {<<>>, <<"END">>}
               => Taken(c).conn \in Conns
      BY <1>1, <2>1, <2>2, <2>3, <3>1, TakenFacts
    <3>3. Tail(c.in) \in {<<>>, <<"ok">>, <<"error">>} /\ <<>> \in {<<>>, <<"END">>}
      BY <2>3
    <3> QED
      BY <2>1, <3>2, <3>3
  <2> QED
    BY <1>2, <2>3, <2>4 DEF Ended, Quiet
<1> QED
  BY <1>3, <1>4 DEF Owing

-----------------------------------------------------------------------------
(* A call at work.                                                         *)

LEMMA OneOrMore == \A k \in Nat \ {0} : (k > 1 \/ k = 1) /\ ~(k > 1 /\ k = 1)
OBVIOUS

LEMMA RestFacts ==
    ASSUME NEW job \in Jobs \cup {"close"}, NEW rest, rest \in Rests(job)
    PROVE  /\ Len(rest) \in Nat \ {0} /\ Head(rest) \in Names
           /\ Behind(rest) <=> rest \in Owed
           /\ rest \in Owed => Head(rest) \in {"lines", "close", "END"}
           /\ Head(rest) \in {"lines", "END"} => rest \in Owed
           /\ Head(rest) = "END" => rest = <<"END">>
           /\ Len(rest) > 1 => /\ Tail(rest) \in Rests(job) /\ Head(rest) \notin {"END", "RETR", "STOR"}
                               /\ Behind(Tail(rest)) <=> Head(rest) = "LIST" \/ rest \in Owed
                               /\ Tail(rest) = <<"END">> => Head(rest) = "close"
           /\ ~(Len(rest) > 1) /\ job \in {"read", "write"} => Head(rest) \in Transfers
           /\ ~(Len(rest) > 1) /\ job \notin {"read", "write"} =>
                Head(rest) \notin Transfers /\ (rest \in Owed => Head(rest) = "END")
           /\ Head(rest) = "NOOP" => /\ Len(rest) > 1 /\ <<"connect">> \o Tail(rest) \in Rests(job)
                                     /\ ~Behind(<<"connect">> \o Tail(rest))
                                     /\ <<"connect">> \o Tail(rest) # <<"END">>
<1>1. CASE rest \in Begun(job)
  <2>1. job \in Jobs /\ job # "close"
    BY <1>1 DEF Begun
  <2>2. PICK first \in {"NOOP", "connect"} : rest = <<first>> \o Plan[job]
    BY <1>1, <2>1 DEF Begun
  <2>3. /\ Len(rest) \in Nat \ {0, 1} /\ rest # <<"END">>
        /\ Head(rest) = first /\ Tail(rest) = Plan[job]
        /\ ~Behind(rest) /\ ~Behind(Plan[job]) /\ Plan[job] # <<"END">>
    BY <2>1, <2>2, BeginFacts
  <2>4. <<"connect">> \o Plan[job] \in Begun(job) /\ Plan[job] \in Lefts[job]
    BY <2>1, PlanLeft DEF Begun
  <2>5. ~Behind(<<"connect">> \o Plan[job]) /\ <<"connect">> \o Plan[job] # <<"END">>
    BY <2>1, BeginFacts
  <2>6. rest \notin Owed
    <3>1. \A o \in Owed : Head(o) \in {"lines", "close", "END"}
      <4>1. /\ Head(<<"lines", "close", "END">>) = "lines"
            /\ Head(<<"close", "END">>) = "close" /\ Head(<<"END">>) = "END"
        OBVIOUS
      <4> QED
        BY <4>1 DEF Owed
    <3> QED
      BY <2>3, <3>1
  <2>7. first \in Names
    BY DEF Names
  <2>8. Len(rest) \in Nat \ {0} /\ Len(rest) > 1
    <3>1. \A k \in Nat \ {0, 1} : k \in Nat \ {0} /\ k > 1
      OBVIOUS
    <3> QED
      BY <2>3, <3>1, Zenon
  <2>9. Tail(rest) \in Rests(job) /\ <<"connect">> \o Tail(rest) \in Rests(job)
    BY <2>3, <2>4 DEF Rests
  <2>10. first \notin {"END", "RETR", "STOR", "lines", "LIST"}
    OBVIOUS
  <2> QED
    BY <2>3, <2>5, <2>6, <2>7, <2>8, <2>9, <2>10
<1>2. CASE rest \in Lefts[job]
  <2>1. /\ Len(rest) \in Nat \ {0}
        /\ Len(rest) > 1 => Tail(rest) \in Lefts[job]
        /\ Head(rest) \in Names \ {"NOOP", "connect"}
        /\ Head(rest) = "END" => rest = <<"END">>
        /\ Head(rest) \in {"RETR", "STOR"} <=> job \in {"read", "write"} /\ Len(rest) = 1
        /\ rest \in Owed => Head(rest) \in {"lines", "close", "END"}
        /\ Head(rest) \in {"lines", "END"} => rest \in Owed
        /\ Head(rest) = "LIST" => rest \notin Owed /\ Len(rest) > 1 /\ Tail(rest) \in Owed
        /\ Len(rest) > 1 /\ Head(rest) # "LIST" => (Tail(rest) \in Owed <=> rest \in Owed)
        /\ Len(rest) > 1 /\ Tail(rest) = <<"END">> => Head(rest) = "close"
    BY <1>2, LeftFacts
  <2>2. Behind(rest) <=> rest \in Owed
    BY <1>2, BehindLeft
  <2>3. Len(rest) > 1 => (Behind(Tail(rest)) <=> Tail(rest) \in Owed)
    BY <2>1, BehindLeft
  <2>4. rest = <<"END">> => Len(rest) = 1
    OBVIOUS
  <2>5. Len(rest) > 1 => Head(rest) # "END"
    <3>1. Head(rest) = "END" => Len(rest) = 1
      BY <2>1, <2>4
    <3> QED
      BY <2>1, <3>1, OneOrMore, Zenon
  <2>6. ~(Len(rest) > 1) => Len(rest) = 1
    <3>1. Len(rest) \in Nat \ {0}
      BY <2>1
    <3> QED
      BY <3>1, OneOrMore, Zenon
  <2>7. ~(Len(rest) > 1) /\ rest \in Owed => Head(rest) = "END"
    <3>1. /\ Len(<<"lines", "close", "END">>) = 3 /\ Len(<<"close", "END">>) = 2
          /\ Head(<<"END">>) = "END"
      OBVIOUS
    <3> QED
      BY <2>6, <3>1 DEF Owed
  <2>8. Len(rest) > 1 => (Behind(Tail(rest)) <=> Head(rest) = "LIST" \/ rest \in Owed)
    BY <2>1, <2>3
  <2>9. Len(rest) > 1 => Head(rest) \notin {"RETR", "STOR"}
    <3>1. Len(rest) > 1 => Len(rest) # 1
      BY <2>1, OneOrMore, Zenon
    <3> QED
      BY <2>1, <3>1
  <2>10. ~(Len(rest) > 1) => Head(rest) # "LIST"
    BY <2>1
  <2>11. ~(Len(rest) > 1) /\ job \in {"read", "write"} => Head(rest) \in Transfers
    BY <2>1, <2>6 DEF Transfers
  <2>12. ~(Len(rest) > 1) /\ job \notin {"read", "write"} => Head(rest) \notin Transfers
    BY <2>1, <2>10 DEF Transfers
  <2> QED
    BY <2>1, <2>2, <2>5, <2>7, <2>8, <2>9, <2>11, <2>12 DEF Rests
<1> QED
  BY <1>1, <1>2 DEF Rests

LEMMA TodoFacts ==
    ASSUME NEW todo, todo \in Todos
    PROVE  /\ Head(todo) \in Jobs \cup {"close"} /\ todo # <<>>
           /\ Head(todo) \in {"read", "write", "close"} => Len(todo) = 1
           /\ Len(todo) # 1 => Tail(todo) \in Todos /\ Head(Tail(todo)) # "close"
<1>1. CASE todo = <<"list", "mkdir">>
  <2>1. /\ Head(todo) = "list" /\ Len(todo) = 2 /\ Tail(todo) = <<"mkdir">>
        /\ Head(<<"mkdir">>) = "mkdir"
    BY <1>1
  <2>2. <<"mkdir">> \in Todos
    BY DEF Todos, Jobs
  <2> QED
    BY <1>1, <2>1, <2>2 DEF Jobs
<1>2. CASE todo = <<"list", "write">>
  <2>1. /\ Head(todo) = "list" /\ Len(todo) = 2 /\ Tail(todo) = <<"write">>
        /\ Head(<<"write">>) = "write"
    BY <1>2
  <2>2. <<"write">> \in Todos
    BY DEF Todos, Jobs
  <2> QED
    BY <1>2, <2>1, <2>2 DEF Jobs
<1>3. ASSUME NEW j \in Jobs \cup {"close"}, todo = <<j>>
      PROVE  Head(todo) = j /\ Len(todo) = 1 /\ todo # <<>>
  BY <1>3
<1> QED
  BY <1>1, <1>2, <1>3 DEF Todos

\* A call has come to the end of one of its parts.
LEMMA FollowFacts ==
    ASSUME NEW call \in Calls, call.todo \in Todos, NEW result
    PROVE  /\ Following(call, result) \in Calls /\ Following(call, result).at # "run"
           /\ Fits(Following(call, result), NoFile)
           /\ Head(call.todo) \in {"read", "write", "close"} => Following(call, result) = Idle
<1> DEFINE todo == call.todo
           next == [Idle EXCEPT !.todo = Tail(todo), !.at = "take"]
<1>1. /\ Head(todo) \in {"read", "write", "close"} => Len(todo) = 1
      /\ Len(todo) # 1 => Tail(todo) \in Todos /\ Head(Tail(todo)) # "close"
  BY TodoFacts
<1>2. Idle \in Calls /\ Idle.at # "run" /\ Fits(Idle, NoFile)
  BY DEF Idle, Calls, Fits
<1>3. ASSUME Len(todo) # 1
      PROVE  next \in Calls /\ next.at # "run" /\ Fits(next, NoFile)
  <2>2. next.todo = Tail(todo) /\ next.at = "take" /\ next.rest = <<>>
    BY DEF Idle
  <2>3. next \in Calls
    <3> DEFINE t == Tail(todo)
               R == {<<>>} \cup UNION {Rests(j) : j \in Jobs \cup {"close"}}
               T == Todos \cup {<<>>}
    <3>1. t \in T /\ <<>> \in R
      BY <1>1, <1>3
    <3>2. Calls = [todo : T, at : {"", "logon", "take", "run"}, node : Nat, rest : R]
      BY DEF Calls
    <3>3. Idle \in Calls
      BY <1>2
    <3> HIDE DEF t, T, R
    <3>4. [Idle EXCEPT !.todo = t, !.at = "take"] \in Calls
      BY <3>1, <3>2, <3>3
    <3> QED
      BY <3>4 DEF t
  <2>4. Fits(next, NoFile)
    <3> HIDE DEF next
    <3> QED
      BY <1>1, <1>3, <2>2 DEF Fits
  <2> QED
    BY <2>2, <2>3, <2>4
<1>4. Following(call, result) = Idle \/ (Len(todo) # 1 /\ Following(call, result) = next)
  BY DEF Following
<1>5. Len(todo) = 1 => Following(call, result) = Idle
  BY DEF Following
<1> HIDE DEF next
<1> QED
  BY <1>1, <1>2, <1>3, <1>4, <1>5

LEMMA RunFacts ==
    ASSUME FtpInv, NEW t \in FtpUser, ftCall[t].at = "run",
           NEW n, n = ftCall[t].node, NEW job, job = Head(ftCall[t].todo),
           NEW rest, rest = ftCall[t].rest, NEW c, c = ftNode[n].conn
    PROVE  /\ n \in DOMAIN ftNode /\ n \in Nat /\ ftNode[n] \in Nodes /\ ftNode[n].busy
           /\ \A u \in FtpUser : Uses(u, n) => u = t
           /\ \A m \in Nat : Uses(t, m) <=> m = n
           /\ ftCall[t] \in Calls /\ ftFile[t] \in Files /\ ftCall[t].todo \in Todos
           /\ job \in Jobs \cup {"close"} /\ rest \in Rests(job)
           /\ IF job = "close" THEN ftFile[t].state = "open" /\ ftFile[t].node = n
              ELSE ftFile[t] = NoFile
           /\ c \in Conns /\ (c.cut => Quiet(c))
           /\ ~c.cut => IF rest \in Owed THEN Owing(c) ELSE Quiet(c) /\ c.data # "unsent"
<1>1. ftCall[t] \in Calls /\ ftFile[t] \in Files
  BY DEF FtpInv, FtpTypeOK
<1>2. n \in Nat
  BY <1>1 DEF Calls
<1>3. Uses(t, n)
  BY DEF Uses, Has
<1>4. /\ n \in DOMAIN ftNode /\ ftNode[n].busy
      /\ \A u \in FtpUser : Uses(u, n) => u = t
  BY <1>2, <1>3 DEF FtpInv, PoolShape
<1>5. ftNode[n] \in Nodes /\ c \in Conns
  <2>1. ftNode[n] \in Nodes
    BY <1>4 DEF FtpInv, FtpTypeOK
  <2>2. \A x \in Nodes : x.conn \in Conns
    BY DEF Nodes
  <2>3. ftNode[n].conn \in Conns
    BY <2>1, <2>2
  <2> QED
    BY <2>1, <2>3
<1>6. ftCall[t] # Idle
  <2>1. Idle.at = ""
    BY DEF Idle
  <2> QED
    BY <2>1
<1>7. /\ ftCall[t].todo \in Todos /\ rest \in Rests(job)
      /\ IF job = "close" THEN ftFile[t].state = "open" /\ ftFile[t].node = n
         ELSE ftFile[t] = NoFile
  BY <1>6 DEF FtpInv, CallShape, Fits
<1>8. \A m \in Nat : Uses(t, m) <=> m = n
  <2>1. NoFile.state # "open"
    BY DEF NoFile
  <2> QED
    BY <1>7, <2>1 DEF Uses, Has
<1>9. job \in Jobs \cup {"close"}
  BY <1>7, TodoFacts
<1>10. Kept(ftCall[t], c) /\ Rested(ftNode[n])
  BY <1>3, <1>4 DEF FtpInv, ConnShape
<1>11. Transferring(ftCall[t]) <=> rest \in Owed
  BY <1>6, <1>7, <1>9, RestFacts DEF Transferring
<1>12. c.cut => Quiet(c)
  BY <1>10 DEF Rested
<1>13. ~c.cut => IF rest \in Owed THEN Owing(c) ELSE Quiet(c) /\ c.data # "unsent"
  BY <1>10, <1>11 DEF Kept
<1> QED
  BY <1>1, <1>2, <1>4, <1>5, <1>7, <1>8, <1>9, <1>12, <1>13

\* A step of a call has gone well, and left connection c.
Done(rest, c) ==
    /\ c \in Conns /\ (c.cut => Quiet(c))
    /\ ~c.cut => /\ IF Head(rest) \in Transfers \/ (rest \in Owed /\ Head(rest) # "END")
                    THEN Owing(c) ELSE Quiet(c) /\ c.data # "unsent"
                 /\ Head(rest) = "close" => c.data # "unsent"

LEMMA NodeFreed ==
    ASSUME FtpInv, NEW t \in FtpUser, ftCall[t].at = "run",
           NEW c \in Conns, Quiet(c), ~c.cut => c.data # "unsent", NEW result,
           Release(t, c, result), NEW file \in Files, file.state # "open",
           ftFile' = [ftFile EXCEPT ![t] = file],
           Head(ftCall[t].todo) # "close" => file = NoFile
    PROVE  FtpInv'
<1> DEFINE n == ftCall[t].node
           node == [busy |-> FALSE, conn |-> c]
           call == Following(ftCall[t], result)
<1>1. /\ n \in DOMAIN ftNode /\ n \in Nat
      /\ \A u \in FtpUser : Uses(u, n) => u = t
      /\ \A m \in Nat : Uses(t, m) <=> m = n
      /\ ftCall[t] \in Calls /\ ftCall[t].todo \in Todos
  BY RunFacts
<1>2. /\ call \in Calls /\ call.at # "run" /\ Fits(call, NoFile)
      /\ Head(ftCall[t].todo) = "close" => call = Idle
  BY <1>1, FollowFacts
<1>3. node \in Nodes /\ ~node.busy /\ node.conn = c
  BY DEF Nodes
<1>4. ftNode' = [ftNode EXCEPT ![n] = node] /\ ftCall' = [ftCall EXCEPT ![t] = call]
  BY DEF Release
<1>5. Fits(call, file)
  BY <1>2 DEF Fits
<1> HIDE DEF n, node, call
<1>6. Rested(node)
  BY <1>3 DEF Rested
<1>7. \A m \in Nat : ~Has(call, file, m)
  BY <1>2 DEF Has
<1> QED
  BY <1>1, <1>2, <1>3, <1>4, <1>5, <1>6, <1>7, NodeStep

LEMMA AdvanceStep ==
    ASSUME FtpInv, NEW t \in FtpUser, ftCall[t].at = "run",
           NEW c, Done(ftCall[t].rest, c), Advance(t, c)
    PROVE  FtpInv'
<1> DEFINE call == ftCall[t]
           n == call.node
           job == Head(call.todo)
           rest == call.rest
<1>1. /\ n \in DOMAIN ftNode /\ n \in Nat /\ ftNode[n] \in Nodes /\ ftNode[n].busy
      /\ \A u \in FtpUser : Uses(u, n) => u = t
      /\ \A m \in Nat : Uses(t, m) <=> m = n
      /\ call \in Calls /\ ftFile[t] \in Files /\ call.todo \in Todos
      /\ job \in Jobs \cup {"close"} /\ rest \in Rests(job)
      /\ IF job = "close" THEN ftFile[t].state = "open" /\ ftFile[t].node = n
         ELSE ftFile[t] = NoFile
  BY RunFacts
<1>2. /\ Behind(rest) <=> rest \in Owed
      /\ Len(rest) > 1 => /\ Tail(rest) \in Rests(job) /\ Head(rest) \notin {"END", "RETR", "STOR"}
                          /\ Behind(Tail(rest)) <=> Head(rest) = "LIST" \/ rest \in Owed
                          /\ Tail(rest) = <<"END">> => Head(rest) = "close"
      /\ ~(Len(rest) > 1) /\ job \in {"read", "write"} => Head(rest) \in Transfers
      /\ ~(Len(rest) > 1) /\ job \notin {"read", "write"} =>
           Head(rest) \notin Transfers /\ (rest \in Owed => Head(rest) = "END")
  BY <1>1, RestFacts
<1>3. /\ c \in Conns /\ (c.cut => Quiet(c))
      /\ ~c.cut => /\ IF Head(rest) \in Transfers \/ (rest \in Owed /\ Head(rest) # "END")
                      THEN Owing(c) ELSE Quiet(c) /\ c.data # "unsent"
                   /\ Head(rest) = "close" => c.data # "unsent"
  BY DEF Done
<1>4. \/ /\ Len(rest) > 1
         /\ ftCall' = [ftCall EXCEPT ![t].rest = Tail(@)]
         /\ ftNode' = [ftNode EXCEPT ![n].conn = c]
         /\ UNCHANGED ftFile
      \/ /\ ~(Len(rest) > 1) /\ job \in {"read", "write"}
         /\ ftFile' = [ftFile EXCEPT ![t] = [state |-> "open", node |-> n, kind |-> job]]
         /\ ftNode' = [ftNode EXCEPT ![n].conn = c]
         /\ ftCall' = [ftCall EXCEPT ![t] = Following(@, "done")]
      \/ /\ ~(Len(rest) > 1) /\ job \notin {"read", "write"}
         /\ Release(t, c, "done")
         /\ ftFile' = IF job = "close" THEN [ftFile EXCEPT ![t] = NoFile] ELSE ftFile
  BY Zenon DEF Advance
<1>5. ftFile \in [FtpUser -> Files] /\ ftCall \in [FtpUser -> Calls]
      /\ ftNode \in [DOMAIN ftNode -> Nodes]
  BY DEF FtpInv, FtpTypeOK
<1> DEFINE node == [ftNode[n] EXCEPT !.conn = c]
<1>6. node \in Nodes /\ node.busy /\ node.conn = c
  BY <1>1, <1>3 DEF Nodes
<1>7. [ftNode EXCEPT ![n].conn = c] = [ftNode EXCEPT ![n] = node]
  BY <1>1, <1>5
<1>8. Rested(node)
  <2> HIDE DEF node
  <2> QED
    BY <1>3, <1>6 DEF Rested
<1>9. CASE /\ Len(rest) > 1
           /\ ftCall' = [ftCall EXCEPT ![t].rest = Tail(@)]
           /\ ftNode' = [ftNode EXCEPT ![n].conn = c]
           /\ UNCHANGED ftFile
  <2> DEFINE next == [call EXCEPT !.rest = Tail(rest)]
             file == ftFile[t]
  <2>1. ftCall' = [ftCall EXCEPT ![t] = next] /\ ftFile' = [ftFile EXCEPT ![t] = file]
    BY <1>5, <1>9
  <2>2. /\ next.todo = call.todo /\ next.at = "run" /\ next.node = n /\ next.rest = Tail(rest)
        /\ next \in Calls
    <3> DEFINE R == {<<>>} \cup UNION {Rests(j) : j \in Jobs \cup {"close"}}
               q == Tail(rest)
    <3>1. q \in R
      BY <1>1, <1>2, <1>9
    <3>2. Calls = [todo : Todos \cup {<<>>}, at : {"", "logon", "take", "run"}, node : Nat, rest : R]
      BY DEF Calls
    <3>3. call \in Calls
      BY <1>1
    <3> HIDE DEF R, q
    <3>4. [call EXCEPT !.rest = q] \in Calls
      BY <3>1, <3>2, <3>3
    <3>5. LET k == [call EXCEPT !.rest = q]
          IN  k.todo = call.todo /\ k.at = "run" /\ k.node = n /\ k.rest = q
      BY <3>2, <3>3
    <3> QED
      BY <3>4, <3>5 DEF q
  <2> HIDE DEF next, file, node, n, job, rest, call
  <2>3. Fits(next, file)
    BY <1>1, <1>2, <1>9, <2>2 DEF Fits, job, rest, call, n, file
  <2>4. \A m \in Nat : Has(next, file, m) <=> m = n
    <3>1. NoFile.state # "open"
      BY DEF NoFile
    <3>2. file.state = "open" => file.node = n
      BY <1>1, <3>1 DEF file
    <3> QED
      BY <2>2, <3>2 DEF Has
  <2>5. next # Idle
    <3>1. Idle.at # "run"
      BY DEF Idle
    <3> QED
      BY <2>2, <3>1
  <2>6. Kept(next, c)
    <3>1. Transferring(next) <=> Head(rest) = "LIST" \/ rest \in Owed
      BY <1>2, <1>9, <2>2, <2>5 DEF Transferring
    <3>2. Head(rest) \in Transfers <=> Head(rest) = "LIST"
      BY <1>2, <1>9 DEF Transfers
    <3>3. Head(rest) # "END"
      BY <1>2, <1>9
    <3> QED
      BY <1>2, <1>3, <1>9, <2>2, <3>1, <3>2, <3>3 DEF Kept
  <2>7. file \in Files
    BY <1>1 DEF file
  <2> QED
    BY <1>1, <1>6, <1>7, <1>8, <1>9, <2>1, <2>2, <2>3, <2>4, <2>6, <2>7, NodeStep
<1>10. CASE /\ ~(Len(rest) > 1) /\ job \in {"read", "write"}
            /\ ftFile' = [ftFile EXCEPT ![t] = [state |-> "open", node |-> n, kind |-> job]]
            /\ ftNode' = [ftNode EXCEPT ![n].conn = c]
            /\ ftCall' = [ftCall EXCEPT ![t] = Following(@, "done")]
  <2> DEFINE file == [state |-> "open", node |-> n, kind |-> job]
  <2>1. Following(call, "done") = Idle
    BY <1>1, <1>10, FollowFacts
  <2>2. ftCall' = [ftCall EXCEPT ![t] = Idle] /\ ftFile' = [ftFile EXCEPT ![t] = file]
    BY <1>10, <2>1
  <2>3. file \in Files /\ file.state = "open" /\ file.node = n
    BY <1>1, <1>10 DEF Files
  <2>4. Idle \in Calls /\ Idle.at # "run" /\ Idle.rest = <<>>
    BY DEF Idle, Calls
  <2> HIDE DEF file, node, n, job, rest, call
  <2>5. Fits(Idle, file)
    BY DEF Fits
  <2>6. \A m \in Nat : Has(Idle, file, m) <=> m = n
    BY <2>3, <2>4 DEF Has
  <2>7. Kept(Idle, c)
    <3>1. <<>> # <<"END">>
      OBVIOUS
    <3> QED
      BY <1>2, <1>3, <1>10, <2>4, <3>1 DEF Kept, Transferring
  <2> QED
    BY <1>1, <1>6, <1>7, <1>8, <1>10, <2>2, <2>3, <2>4, <2>5, <2>6, <2>7, NodeStep
<1>11. CASE /\ ~(Len(rest) > 1) /\ job \notin {"read", "write"}
            /\ Release(t, c, "done")
            /\ ftFile' = IF job = "close" THEN [ftFile EXCEPT ![t] = NoFile] ELSE ftFile
  <2>1. Quiet(c) /\ (~c.cut => c.data # "unsent")
    BY <1>2, <1>3, <1>11
  <2>2. ftFile' = [ftFile EXCEPT ![t] = NoFile]
    BY <1>1, <1>5, <1>11
  <2>3. NoFile \in Files /\ NoFile.state # "open"
    BY DEF NoFile, Files
  <2> QED
    BY <1>3, <1>11, <2>1, <2>2, <2>3, NodeFreed
<1> QED
  BY <1>4, <1>9, <1>10, <1>11

LEMMA CatchStep ==
    ASSUME FtpInv, NEW t \in FtpUser, ftCall[t].at = "run",
           NEW c \in Conns, Quiet(c), ~c.cut => c.data # "unsent", Catch(t, c)
    PROVE  FtpInv'
<1> DEFINE job == Head(ftCall[t].todo)
           shut == IF ftFile[t].kind = "write" THEN [ftFile[t] EXCEPT !.state = "closed"] ELSE NoFile
           file == IF job = "close" THEN shut ELSE NoFile
<1>1. /\ ftFile[t] \in Files
      /\ job # "close" => ftFile[t] = NoFile
  BY RunFacts
<1>2. NoFile \in Files /\ NoFile.state # "open"
  BY DEF NoFile, Files
<1>3. shut \in Files /\ shut.state # "open"
  <2>1. /\ [ftFile[t] EXCEPT !.state = "closed"] \in Files
        /\ [ftFile[t] EXCEPT !.state = "closed"].state # "open"
    BY <1>1 DEF Files
  <2> QED
    BY <1>2, <2>1
<1>4. ftFile \in [FtpUser -> Files]
  BY DEF FtpInv, FtpTypeOK
<1>5. ftFile' = [ftFile EXCEPT ![t] = file]
  <2>1. ftFile' = IF job # "close" THEN ftFile ELSE [ftFile EXCEPT ![t] = shut]
    BY DEF Catch
  <2> QED
    BY <1>1, <1>4, <2>1
<1>6. PICK result \in {"failed", "stopped"} : Release(t, c, result)
  BY DEF Catch
<1> HIDE DEF shut
<1>7. file \in Files /\ file.state # "open" /\ (job # "close" => file = NoFile)
  BY <1>2, <1>3
<1> HIDE DEF file, job
<1>8. Head(ftCall[t].todo) # "close" => file = NoFile
  BY <1>7 DEF job
<1> QED
  BY <1>5, <1>6, <1>7, <1>8, NodeFreed

LEMMA CutStep ==
    ASSUME FtpInv, NEW t \in FtpUser, ftCall[t].at = "run", NEW c \in Wires, Cut(t, c)
    PROVE  FtpInv'
<1> DEFINE d == [c EXCEPT !.cut = TRUE, !.out = <<>>, !.net = <<>>, !.in = <<>>]
<1>1. d.cut /\ d.out = <<>> /\ d.net = <<>> /\ d.in = <<>>
  BY DEF Wires
<1>2. d \in Conns
  BY DEF Wires, Conns
<1>3. Catch(t, d)
  BY DEF Cut
<1> HIDE DEF d
<1>4. Quiet(d)
  BY <1>1 DEF Quiet
<1> QED
  BY <1>1, <1>2, <1>3, <1>4, CatchStep

-----------------------------------------------------------------------------
(* What may come of a reply.                                               *)

LEMMA Stays ==
    ASSUME FtpInv, UNCHANGED <<ftNode, ftCall, ftFile>>
    PROVE  FtpInv'
<1>1. ftNode' = ftNode /\ ftCall' = ftCall /\ ftFile' = ftFile
  OBVIOUS
<1>2. FtpTypeOK' /\ CallShape'
  BY <1>1 DEF FtpInv, FtpTypeOK, CallShape
<1>3. \A t \in FtpUser : \A n : Uses(t, n)' <=> Uses(t, n)
  BY <1>1 DEF Uses
<1>4. PoolShape' /\ ConnShape'
  BY <1>1, <1>3 DEF FtpInv, PoolShape, ConnShape
<1> QED
  BY <1>2, <1>4 DEF FtpInv

LEMMA AnsweredStep ==
    ASSUME FtpInv, NEW t \in FtpUser, ftCall[t].at = "run", NEW name, NEW r,
           r.conn \in Wires,
           r.code = Expected(name) => Done(ftCall[t].rest, r.conn),
           r.code \notin {"cut", "closed", Expected(name)} =>
             r.conn \in Conns /\ Quiet(r.conn) /\ (~r.conn.cut => r.conn.data # "unsent"),
           Answered(t, name, r)
    PROVE  FtpInv'
<1>1. Expected(name) \notin {"cut", "closed"}
  BY DEF Expected
<1>2. CASE r.code = "cut" \/ (r.code = "closed" /\ name = "PASV")
  <2>1. Cut(t, r.conn)
    BY <1>1, <1>2, Zenon DEF Answered
  <2> QED
    BY <2>1, CutStep
<1>3. CASE r.code = "closed" /\ name # "PASV"
  <2>1. UNCHANGED <<ftNode, ftCall, ftFile>>
    BY <1>1, <1>3, Zenon DEF Answered
  <2> QED
    BY <2>1, Stays
<1>4. CASE r.code = Expected(name)
  <2>1. Advance(t, r.conn)
    BY <1>1, <1>4, Zenon DEF Answered
  <2> QED
    BY <1>4, <2>1, AdvanceStep
<1>5. CASE r.code \notin {"cut", "closed", Expected(name)}
  <2>1. r.code # "cut" /\ r.code # "closed" /\ r.code # Expected(name)
    BY <1>5
  <2>2. Catch(t, r.conn)
    BY <2>1, Zenon DEF Answered
  <2> QED
    BY <1>5, <2>2, CatchStep
<1> QED
  BY <1>2, <1>3, <1>4, <1>5

LEMMA CutRead ==
    ASSUME NEW c, c.cut, NEW r, r \in ReadCode(c)
    PROVE  r.conn = c
BY DEF ReadCode

\* A command is written to a connection with nothing on it.
LEMMA Asked ==
    ASSUME NEW c \in Conns, Quiet(c), ~c.cut, NEW name \in Names,
           NEW d, d = WriteStr(c, name)
    PROVE  /\ d \in Wires /\ d.out = <<name>> /\ d.net = <<>> /\ d.in = <<>>
           /\ d.data = c.data /\ ~d.cut
<1>1. Append(<<>>, name) = <<name>>
  OBVIOUS
<1>2. <<name>> \in Seq(Names)
  OBVIOUS
<1>3. c \in Wires
  BY ConnIsWire
<1>4. d = [c EXCEPT !.out = <<name>>]
  BY <1>1 DEF WriteStr, Quiet
<1> QED
  BY <1>2, <1>3, <1>4 DEF Wires, Quiet

LEMMA EmptyFirst == \A name \in Names : <<>> \o <<name>> = <<name>> /\ <<name>> \o <<>> = <<name>>
<1> SUFFICES ASSUME NEW name \in Names
             PROVE  <<>> \o <<name>> = <<name>> /\ <<name>> \o <<>> = <<name>>
  OBVIOUS
<1>1. <<name>> \in Seq(Names)
  OBVIOUS
<1> QED
  BY <1>1, ConcatEmptySeq

\* A command that is no transfer leaves nothing on the connection.
LEMMA Commanded ==
    ASSUME NEW c \in Conns, Quiet(c), ~c.cut => c.data # "unsent",
           NEW name \in Names \ Transfers, NEW r, r \in ReadCode(WriteStr(c, name))
    PROVE  /\ r.conn \in Wires
           /\ r.code \notin {"cut", "closed"} =>
                r.conn \in Conns /\ Quiet(r.conn) /\ (~r.conn.cut => r.conn.data # "unsent")
<1>1. CASE c.cut
  <2>1. WriteStr(c, name) = c
    BY <1>1 DEF WriteStr
  <2>2. r.conn = c
    BY <1>1, <2>1, CutRead
  <2> QED
    BY <2>2, ConnIsWire
<1>2. CASE ~c.cut
  <2> DEFINE d == WriteStr(c, name)
  <2>1. /\ d \in Wires /\ d.out = <<name>> /\ d.net = <<>> /\ d.in = <<>>
        /\ d.data = c.data /\ ~d.cut
    BY <1>2, Asked
  <2>2. r \in ReadCode(d)
    OBVIOUS
  <2> HIDE DEF d
  <2>3. d.net \o d.out = <<name>>
    BY <2>1, EmptyFirst
  <2>4. Ended(d, name, r)
    BY <2>1, <2>2, <2>3, Awaited
  <2> QED
    BY <1>2, <2>1, <2>4, ConnIsWire DEF Ended, Codes
<1> QED
  BY <1>1, <1>2

\* A transfer that has begun owes its last reply.
LEMMA Transferred ==
    ASSUME NEW c \in Conns, Quiet(c), NEW name \in Transfers, NEW r,
           r \in ReadCode([Sent(WriteStr(c, name)) EXCEPT !.data = "open"])
    PROVE  /\ r.conn \in Wires
           /\ r.code \notin {"cut", "closed"} =>
                /\ r.conn \in Conns /\ (r.conn.cut => Quiet(r.conn))
                /\ ~r.conn.cut => /\ r.conn.data # "unsent"
                                  /\ IF r.code = "ok" THEN Owing(r.conn) ELSE Quiet(r.conn)
<1>1. CASE c.cut
  <2>1. WriteStr(c, name) = c
    BY <1>1 DEF WriteStr
  <2>2. <<>> \o <<>> = <<>>
    <3>1. <<>> \in Seq(Names)
      OBVIOUS
    <3> QED
      BY <3>1, ConcatEmptySeq
  <2>3. Sent(c) = [c EXCEPT !.net = <<>>, !.out = <<>>]
    BY <2>2 DEF Sent, Quiet
  <2> DEFINE d == [Sent(c) EXCEPT !.data = "open"]
  <2>4. d \in Conns /\ d.cut /\ d.out = <<>> /\ d.net = <<>> /\ d.in = <<>>
    <3>1. d = [[c EXCEPT !.net = <<>>, !.out = <<>>] EXCEPT !.data = "open"]
      BY <2>3
    <3>2. c \in Conns /\ c.in = <<>> /\ c.cut
      BY <1>1 DEF Quiet
    <3> HIDE DEF d
    <3> QED
      BY <3>1, <3>2 DEF Conns
  <2>5. r \in ReadCode(d)
    BY <2>1
  <2> HIDE DEF d
  <2>6. r.conn = d
    BY <2>4, <2>5, CutRead
  <2> QED
    BY <2>4, <2>6, ConnIsWire DEF Quiet
<1>2. CASE ~c.cut
  <2>0. name \in Names
    BY DEF Names, Transfers
  <2> DEFINE b == WriteStr(c, name)
             d == [Sent(b) EXCEPT !.data = "open"]
  <2>1. /\ b \in Wires /\ b.out = <<name>> /\ b.net = <<>> /\ b.in = <<>>
        /\ b.data = c.data /\ ~b.cut
    BY <1>2, <2>0, Asked
  <2>2. r \in ReadCode(d)
    OBVIOUS
  <2> HIDE DEF b
  <2>3. d \in Wires /\ d.out = <<>> /\ d.net = <<name>> /\ d.in = <<>> /\ d.data = "open" /\ ~d.cut
    <3>1. b.net \o b.out = <<name>>
      BY <2>0, <2>1, EmptyFirst
    <3>2. d = [[b EXCEPT !.net = <<name>>, !.out = <<>>] EXCEPT !.data = "open"]
      BY <3>1 DEF Sent
    <3>3. <<name>> \in Seq(Names) /\ <<>> \in Seq(Names)
      BY <2>0
    <3> HIDE DEF d
    <3> QED
      BY <2>1, <3>2, <3>3 DEF Wires
  <2> HIDE DEF d
  <2>4. d.net \o d.out = <<name>>
    BY <2>0, <2>3, EmptyFirst
  <2>5. Ended(d, name, r)
    BY <2>0, <2>2, <2>3, <2>4, Awaited
  <2>6. CASE r.code \in {"cut", "closed"} /\ r.conn \in Wires
    BY <2>6
  <2>7. CASE r.code \in Codes /\ r.conn \in Conns /\ r.conn.data = d.data /\ ~r.conn.cut
    BY <2>3, <2>5, <2>7, ConnIsWire DEF Ended, Codes
  <2> QED
    BY <2>5, <2>6, <2>7 DEF Ended
<1> QED
  BY <1>1, <1>2

-----------------------------------------------------------------------------
(* The actions.                                                            *)

LEMMA BeginCallStep ==
    ASSUME FtpInv, NEW t \in FtpUser, NEW op \in FtpOps, BeginCall(t, op)
    PROVE  FtpInv'
<1>1. PICK w \in Work(op) :
        ftCall' = [ftCall EXCEPT ![t] = [Idle EXCEPT !.todo = w, !.at = IF ftSet THEN "take" ELSE "logon"]]
  BY DEF BeginCall
<1>2. w \in Todos /\ Head(w) # "close"
  <2>1. op \in Jobs
    BY FtpAssumption DEF Jobs
  <2>2. /\ op = "mkdir" => w \in {<<"mkdir">>, <<"list", "mkdir">>, <<"list">>}
        /\ op = "write" => w \in {<<"write">>, <<"list", "write">>, <<"list">>}
        /\ op # "mkdir" /\ op # "write" => w \in {<<op>>}
    <3>1. /\ op = "mkdir" => Work(op) = {<<"mkdir">>, <<"list", "mkdir">>, <<"list">>}
          /\ op = "write" => Work(op) = {<<"write">>, <<"list", "write">>, <<"list">>}
          /\ op # "mkdir" /\ op # "write" => Work(op) = {<<op>>}
      <4>1. "mkdir" # "write"
        OBVIOUS
      <4>2. op = "mkdir" => Work(op) = {<<"mkdir">>, <<"list", "mkdir">>, <<"list">>}
        BY <4>1, Zenon DEF Work
      <4>3. op = "write" => Work(op) = {<<"write">>, <<"list", "write">>, <<"list">>}
        BY <4>1, Zenon DEF Work
      <4>4. op # "mkdir" /\ op # "write" => Work(op) = {<<op>>}
        BY Zenon DEF Work
      <4> QED
        BY <4>2, <4>3, <4>4
    <3> QED
      BY <1>1, <3>1
  <2>3. \A j \in Jobs : <<j>> \in Todos /\ Head(<<j>>) # "close"
    <3>1. "close" \notin Jobs
      BY DEF Jobs
    <3> QED
      BY <3>1 DEF Todos
  <2>4. /\ <<"list", "mkdir">> \in Todos /\ Head(<<"list", "mkdir">>) # "close"
        /\ <<"list", "write">> \in Todos /\ Head(<<"list", "write">>) # "close"
    BY DEF Todos
  <2>5. "mkdir" \in Jobs /\ "write" \in Jobs /\ "list" \in Jobs
    BY DEF Jobs
  <2>6. CASE op = "mkdir"
    BY <2>2, <2>3, <2>4, <2>5, <2>6
  <2>7. CASE op = "write"
    BY <2>2, <2>3, <2>4, <2>5, <2>7
  <2>8. CASE op # "mkdir" /\ op # "write"
    BY <2>1, <2>2, <2>3, <2>8
  <2> QED
    BY <2>6, <2>7, <2>8
<1> DEFINE a == IF ftSet THEN "take" ELSE "logon"
           call == [Idle EXCEPT !.todo = w, !.at = a]
<1>3. call.todo = w /\ call.at \in {"logon", "take"} /\ call.rest = <<>>
  BY DEF Idle
<1>4. call \in Calls
  <2>1. Idle \in Calls /\ w \in Todos /\ a \in {"", "logon", "take", "run"}
    BY <1>2 DEF Idle, Calls
  <2> HIDE DEF a
  <2> QED
    BY <2>1 DEF Calls
<1>5. ftCall[t] = Idle /\ ftFile[t] = NoFile /\ ftNode' = ftNode /\ ftFile' = ftFile
  BY DEF BeginCall
<1>6. ftCall' = [ftCall EXCEPT ![t] = call]
  BY <1>1
<1> HIDE DEF call
<1>7. Fits(call, NoFile)
  BY <1>2, <1>3 DEF Fits
<1>8. \A m \in Nat : ~Has(call, NoFile, m) /\ ~Uses(t, m)
  <2>1. NoFile.state # "open" /\ Idle.at # "run"
    BY DEF NoFile, Idle
  <2> QED
    BY <1>3, <1>5, <2>1 DEF Has, Uses
<1>9. ftFile' = [ftFile EXCEPT ![t] = NoFile] /\ NoFile \in Files
  BY <1>5 DEF FtpInv, FtpTypeOK, NoFile, Files
<1>10. DOMAIN ftNode \subseteq Nat
  BY DEF FtpInv, FtpTypeOK
<1> QED
  BY <1>4, <1>5, <1>6, <1>7, <1>8, <1>9, <1>10, AsideStep

\* A thread whose call has not got a node.
LEMMA WaitFacts ==
    ASSUME FtpInv, NEW t \in FtpUser, ftCall[t].at \in {"logon", "take"}
    PROVE  /\ ftFile[t] = NoFile /\ ftCall[t] \in Calls /\ ftCall[t].todo \in Todos
           /\ Head(ftCall[t].todo) # "close" /\ ftCall[t].rest = <<>>
           /\ \A m \in Nat : ~Uses(t, m)
           /\ ftFile = [ftFile EXCEPT ![t] = NoFile] /\ NoFile \in Files
<1>1. Idle.at = "" /\ NoFile.state # "open"
  BY DEF Idle, NoFile
<1>2. /\ ftFile[t] = NoFile /\ ftCall[t].todo \in Todos
      /\ Head(ftCall[t].todo) # "close" /\ ftCall[t].rest = <<>>
  BY <1>1 DEF FtpInv, CallShape, Fits
<1>3. ftCall[t] \in Calls /\ ftFile \in [FtpUser -> Files]
  BY DEF FtpInv, FtpTypeOK
<1>4. \A m \in Nat : ~Uses(t, m)
  BY <1>1, <1>2 DEF Uses, Has
<1>5. ftFile = [ftFile EXCEPT ![t] = NoFile] /\ NoFile \in Files
  BY <1>2, <1>3
<1> QED
  BY <1>2, <1>3, <1>4, <1>5

\* Such a call goes on, or ends, without one.
LEMMA WaitStep ==
    ASSUME FtpInv, NEW t \in FtpUser, ftCall[t].at \in {"logon", "take"},
           NEW call \in Calls, Fits(call, NoFile), call.at # "run",
           ftCall' = [ftCall EXCEPT ![t] = call], ftNode' = ftNode, ftFile' = ftFile
    PROVE  FtpInv'
<1>1. /\ \A m \in Nat : ~Uses(t, m)
      /\ ftFile' = [ftFile EXCEPT ![t] = NoFile] /\ NoFile \in Files
  BY WaitFacts
<1>2. NoFile.state # "open"
  BY DEF NoFile
<1>3. \A m \in Nat : ~Has(call, NoFile, m)
  BY <1>2 DEF Has
<1>4. DOMAIN ftNode \subseteq Nat
  BY DEF FtpInv, FtpTypeOK
<1> QED
  BY <1>1, <1>3, <1>4, AsideStep

LEMMA LogonStep ==
    ASSUME FtpInv, NEW t \in FtpUser, Logon(t)
    PROVE  FtpInv'
<1>1. /\ ftCall[t].at = "logon" /\ ftNode' = ftNode /\ ftFile' = ftFile
      /\ \/ ftCall' = [ftCall EXCEPT ![t].at = "take"]
         \/ ftCall' = [ftCall EXCEPT ![t] = Idle]
  BY DEF Logon
<1>2. /\ ftFile[t] = NoFile /\ ftCall[t] \in Calls /\ ftCall[t].todo \in Todos
      /\ Head(ftCall[t].todo) # "close" /\ ftCall[t].rest = <<>>
  BY <1>1, WaitFacts
<1>3. CASE ftCall' = [ftCall EXCEPT ![t].at = "take"]
  <2> DEFINE call == [ftCall[t] EXCEPT !.at = "take"]
  <2>1. call \in Calls /\ call.at = "take" /\ call.todo = ftCall[t].todo /\ call.rest = <<>>
    BY <1>2 DEF Calls
  <2>2. ftCall' = [ftCall EXCEPT ![t] = call]
    BY <1>3
  <2> HIDE DEF call
  <2>3. Fits(call, NoFile)
    BY <1>2, <2>1 DEF Fits
  <2> QED
    BY <1>1, <2>1, <2>2, <2>3, WaitStep
<1>4. CASE ftCall' = [ftCall EXCEPT ![t] = Idle]
  <2>1. Idle \in Calls /\ Idle.at # "run" /\ Fits(Idle, NoFile)
    BY DEF Idle, Calls, Fits
  <2> QED
    BY <1>1, <1>4, <2>1, WaitStep
<1> QED
  BY <1>1, <1>3, <1>4

LEMMA TakeNodeStep ==
    ASSUME FtpInv, NEW t \in FtpUser, TakeNode(t)
    PROVE  FtpInv'
<1> DEFINE free == {n \in DOMAIN ftNode : ~ftNode[n].busy}
           n == CHOOSE m \in free : \A k \in free : m <= k
           first == IF ftNode[n].conn.up THEN "NOOP" ELSE "connect"
           call == ftCall[t]
           job == Head(call.todo)
<1>1. call.at = "take" /\ ftFile' = ftFile
  BY DEF TakeNode
<1>2. \/ free = {} /\ ftCall' = [ftCall EXCEPT ![t] = Following(@, "failed")] /\ ftNode' = ftNode
      \/ /\ free # {}
         /\ ftNode' = [ftNode EXCEPT ![n].busy = TRUE]
         /\ ftCall' = [ftCall EXCEPT ![t] =
              [@ EXCEPT !.at = "run", !.node = n, !.rest = <<first>> \o Plan[job]]]
  BY DEF TakeNode
<1>3. /\ ftFile[t] = NoFile /\ call \in Calls /\ call.todo \in Todos /\ job # "close"
      /\ \A m \in Nat : ~Uses(t, m)
      /\ ftFile = [ftFile EXCEPT ![t] = NoFile] /\ NoFile \in Files
  BY <1>1, WaitFacts
<1>4. CASE free = {} /\ ftCall' = [ftCall EXCEPT ![t] = Following(@, "failed")] /\ ftNode' = ftNode
  <2> DEFINE next == Following(call, "failed")
  <2>1. next \in Calls /\ next.at # "run" /\ Fits(next, NoFile)
    BY <1>3, FollowFacts
  <2>2. ftCall' = [ftCall EXCEPT ![t] = next]
    BY <1>4
  <2> HIDE DEF next
  <2> QED
    BY <1>1, <1>4, <2>1, <2>2, WaitStep
<1>5. CASE /\ free # {}
           /\ ftNode' = [ftNode EXCEPT ![n].busy = TRUE]
           /\ ftCall' = [ftCall EXCEPT ![t] =
                [@ EXCEPT !.at = "run", !.node = n, !.rest = <<first>> \o Plan[job]]]
  <2>1. n \in free
    <3>1. free \subseteq Nat
      BY DEF FtpInv, FtpTypeOK
    <3> HIDE DEF free
    <3>2. \E m \in free : \A k \in free : m <= k
      <4> DEFINE R == OpToRel(<, Nat)
      <4>1. IsWellFoundedOn(R, Nat)
        BY NatLessThanWellFounded
      <4>2. \A k, m \in Nat : k < m => <<k, m>> \in R
        BY DEF OpToRel
      <4>3. free # {}
        BY <1>5
      <4> HIDE DEF R
      <4>4. PICK m \in free : \A k \in free : ~ (<<k, m>> \in R)
        BY <3>1, <4>1, <4>3, WFMin
      <4>5. ASSUME NEW k \in free PROVE m <= k
        <5>1. k \in Nat /\ m \in Nat
          BY <3>1
        <5>2. ~(k < m)
          BY <4>2, <4>4, <5>1, Zenon
        <5> QED
          BY <5>1, <5>2
      <4> QED
        BY <4>5
    <3> QED
      BY <3>2
  <2>2. n \in DOMAIN ftNode /\ ~ftNode[n].busy /\ n \in Nat /\ ftNode[n] \in Nodes
    BY <2>1 DEF FtpInv, FtpTypeOK
  <2> DEFINE rest == <<first>> \o Plan[job]
             next == [call EXCEPT !.at = "run", !.node = n, !.rest = rest]
             node == [ftNode[n] EXCEPT !.busy = TRUE]
  <2>3. ftCall' = [ftCall EXCEPT ![t] = next] /\ ftNode' = [ftNode EXCEPT ![n] = node]
    BY <1>5
  <2>4. job \in Jobs /\ first \in {"NOOP", "connect"}
    <3>1. job \in Jobs \cup {"close"}
      BY <1>3, TodoFacts
    <3>2. first \in {"NOOP", "connect"}
      <4> HIDE DEF n
      <4> QED
        OBVIOUS
    <3> QED
      BY <1>3, <3>1, <3>2
  <2>5. rest \in Rests(job) /\ ~Behind(rest) /\ rest # <<"END">>
    <3> HIDE DEF n, first, job
    <3>1. rest \in Begun(job)
      BY <1>3, <2>4 DEF Begun
    <3>2. ~Behind(rest) /\ rest # <<"END">>
      BY <2>4, BeginFacts
    <3> QED
      BY <3>1, <3>2 DEF Rests
  <2>6. node \in Nodes /\ node.busy /\ node.conn = ftNode[n].conn
    BY <2>2 DEF Nodes
  <2>7. Rested(ftNode[n])
    BY <2>2 DEF FtpInv, ConnShape
  <2> HIDE DEF n, free, first, rest
  <2>8. next \in Calls /\ next.at = "run" /\ next.node = n /\ next.rest = rest /\ next.todo = call.todo
    <3> DEFINE R == {<<>>} \cup UNION {Rests(j) : j \in Jobs \cup {"close"}}
    <3>1. rest \in R
      BY <2>4, <2>5
    <3>2. Calls = [todo : Todos \cup {<<>>}, at : {"", "logon", "take", "run"}, node : Nat, rest : R]
      BY DEF Calls
    <3> HIDE DEF R
    <3> QED
      BY <1>3, <2>2, <3>1, <3>2
  <2> HIDE DEF next, node
  <2>9. Fits(next, NoFile)
    BY <1>3, <2>5, <2>8 DEF Fits
  <2>10. Rested(node)
    BY <2>6, <2>7 DEF Rested
  <2>11. NoFile.state # "open" /\ Idle.at # "run"
    BY DEF NoFile, Idle
  <2>12. \A m \in Nat : Has(next, NoFile, m) <=> m = n
    BY <2>8, <2>11 DEF Has
  <2>13. Kept(next, node.conn)
    <3>1. next # Idle
      BY <2>8, <2>11
    <3> QED
      BY <2>2, <2>5, <2>6, <2>7, <2>8, <3>1 DEF Kept, Transferring, Rested
  <2>14. \A u \in FtpUser : ~Uses(u, n)
    BY <2>2 DEF FtpInv, PoolShape
  <2> QED
    BY <1>1, <1>3, <2>2, <2>3, <2>6, <2>8, <2>9, <2>10, <2>12, <2>13, <2>14, NodeStep
<1> QED
  BY <1>2, <1>4, <1>5

\* The last step of what is left, if a transfer owes its last reply.
LastLeft == <<"END">>

\* What a thread finds that is about to do the first step of rest.
LEMMA AtFacts ==
    ASSUME FtpInv, NEW t \in FtpUser, NEW name, At(t, name), NEW rest, rest = ftCall[t].rest
    PROVE  /\ ftCall[t].at = "run" /\ Head(rest) = name
           /\ Conn(t) \in Conns /\ (Conn(t).cut => Quiet(Conn(t)))
           /\ ~Conn(t).cut => /\ IF rest \in Owed THEN Owing(Conn(t))
                                 ELSE Quiet(Conn(t)) /\ Conn(t).data # "unsent"
                              /\ rest = LastLeft => Conn(t).data # "unsent"
           /\ rest \in Owed => name \in {"lines", "close", "END"}
           /\ name \in {"lines", "END"} => rest \in Owed
           /\ name = "END" => rest = LastLeft
<1>1. ftCall[t].at = "run" /\ Head(rest) = name
  BY DEF At
<1>2. Conn(t) = ftNode[ftCall[t].node].conn
  BY DEF Conn
<1> DEFINE job == Head(ftCall[t].todo)
<1>3. /\ job \in Jobs \cup {"close"} /\ rest \in Rests(job)
      /\ Conn(t) \in Conns /\ (Conn(t).cut => Quiet(Conn(t)))
      /\ ~Conn(t).cut => /\ IF rest \in Owed THEN Owing(Conn(t))
                            ELSE Quiet(Conn(t)) /\ Conn(t).data # "unsent"
                         /\ rest = LastLeft => Conn(t).data # "unsent"
  <2> DEFINE c == Conn(t)
             n == ftCall[t].node
  <2>1. c = ftNode[n].conn
    BY <1>2
  <2> HIDE DEF c, n, job
  <2>2. /\ job \in Jobs \cup {"close"} /\ rest \in Rests(job)
        /\ c \in Conns /\ (c.cut => Quiet(c))
        /\ ~c.cut => /\ IF rest \in Owed THEN Owing(c) ELSE Quiet(c) /\ c.data # "unsent"
                     /\ rest = LastLeft => c.data # "unsent"
    <3>1. job \in Jobs \cup {"close"} /\ rest \in Rests(job)
      BY <1>1, <2>1, RunFacts DEF n, job
    <3>2. c \in Conns /\ (c.cut => Quiet(c))
      BY <1>1, <2>1, RunFacts DEF n, job
    <3>3. ~c.cut => IF rest \in Owed THEN Owing(c) ELSE Quiet(c) /\ c.data # "unsent"
      BY <1>1, <2>1, RunFacts DEF n, job
    <3>4. ~c.cut => (rest = LastLeft => c.data # "unsent")
      <4>1. n \in DOMAIN ftNode /\ Uses(t, n)
        BY <1>1, RunFacts DEF n
      <4>2. Kept(ftCall[t], c)
        BY <2>1, <4>1 DEF FtpInv, ConnShape
      <4> QED
        BY <4>2 DEF Kept, LastLeft
    <3> QED
      BY <3>1, <3>2, <3>3, <3>4
  <2> QED
    BY <2>2 DEF c
<1>4. /\ rest \in Owed => Head(rest) \in {"lines", "close", "END"}
      /\ Head(rest) \in {"lines", "END"} => rest \in Owed
      /\ Head(rest) = "END" => rest = LastLeft
  BY <1>3, RestFacts DEF LastLeft
<1> HIDE DEF job
<1> QED
  BY <1>1, <1>3, <1>4

LEMMA ConnectStep ==
    ASSUME FtpInv, NEW t \in FtpUser, Connect(t)
    PROVE  FtpInv'
<1> DEFINE rest == ftCall[t].rest
<1>1. At(t, "connect") /\ (Advance(t, NewConn) \/ Catch(t, NoConn))
  BY DEF Connect
<1>2. ftCall[t].at = "run" /\ Head(rest) = "connect" /\ rest \notin Owed
  BY <1>1, AtFacts
<1>3. /\ NewConn \in Conns /\ Quiet(NewConn) /\ ~NewConn.cut /\ NewConn.data = "none"
      /\ NoConn \in Conns /\ Quiet(NoConn) /\ ~NoConn.cut /\ NoConn.data = "none"
  BY DEF NewConn, NoConn, Conns, Quiet
<1>4. Done(rest, NewConn)
  BY <1>2, <1>3 DEF Done, Transfers
<1> QED
  BY <1>1, <1>2, <1>3, <1>4, AdvanceStep, CatchStep

\* A command that is no transfer.
LEMMA PlainStep ==
    ASSUME FtpInv, NEW t \in FtpUser, NEW name \in Names \ Transfers,
           name \notin {"lines", "close", "END"}, At(t, name),
           NEW r, r \in ReadCode(WriteStr(Conn(t), name)), Answered(t, name, r)
    PROVE  FtpInv'
<1> DEFINE rest == ftCall[t].rest
<1>1. /\ ftCall[t].at = "run" /\ Head(rest) = name /\ rest \notin Owed
      /\ Conn(t) \in Conns /\ Quiet(Conn(t)) /\ (~Conn(t).cut => Conn(t).data # "unsent")
  BY AtFacts
<1>2. /\ r.conn \in Wires
      /\ r.code \notin {"cut", "closed"} =>
           r.conn \in Conns /\ Quiet(r.conn) /\ (~r.conn.cut => r.conn.data # "unsent")
  BY <1>1, Commanded
<1>3. Expected(name) \notin {"cut", "closed"}
  BY DEF Expected
<1>4. r.code = Expected(name) => Done(rest, r.conn)
  BY <1>1, <1>2, <1>3 DEF Done
<1> QED
  BY <1>1, <1>2, <1>4, AnsweredStep

LEMMA CommandStep ==
    ASSUME FtpInv, NEW t \in FtpUser,
           NEW name \in {"CWD", "PASV", "RNFR", "RNTO", "MKD", "DELE", "RMD"}, Command(t, name)
    PROVE  FtpInv'
<1>1. name \in Names \ Transfers /\ name \notin {"lines", "close", "END"}
  BY DEF Names, Transfers
<1>2. At(t, name) /\ \E r \in ReadCode(WriteStr(Conn(t), name)) : Answered(t, name, r)
  BY DEF Command
<1> QED
  BY <1>1, <1>2, PlainStep

LEMMA NoopStep ==
    ASSUME FtpInv, NEW t \in FtpUser, Noop(t)
    PROVE  FtpInv'
<1>1. At(t, "NOOP")
  BY DEF Noop
<1>2. PICK r \in ReadCode(WriteStr(Conn(t), "NOOP")) :
        IF r.code \in {"ok", "closed"} THEN Answered(t, "NOOP", r)
        ELSE /\ ftNode' = [ftNode EXCEPT ![ftCall[t].node].conn = NoConn]
             /\ ftCall' = [ftCall EXCEPT ![t].rest = <<"connect">> \o Tail(@)]
             /\ UNCHANGED <<ftFile, ftEnd>>
  BY DEF Noop
<1>3. CASE r.code \in {"ok", "closed"}
  <2>1. "NOOP" \in Names \ Transfers /\ "NOOP" \notin {"lines", "close", "END"}
    BY DEF Names, Transfers
  <2> QED
    BY <1>1, <1>2, <1>3, <2>1, PlainStep
<1>4. CASE r.code \notin {"ok", "closed"}
  <2> DEFINE call == ftCall[t]
             n == call.node
             job == Head(call.todo)
             rest == call.rest
             new == <<"connect">> \o Tail(rest)
             next == [call EXCEPT !.rest = new]
             node == [ftNode[n] EXCEPT !.conn = NoConn]
             file == ftFile[t]
  <2>1. call.at = "run" /\ Head(rest) = "NOOP"
    BY <1>1, AtFacts
  <2>2. /\ n \in DOMAIN ftNode /\ n \in Nat /\ ftNode[n] \in Nodes /\ ftNode[n].busy
        /\ \A u \in FtpUser : Uses(u, n) => u = t
        /\ \A m \in Nat : Uses(t, m) <=> m = n
        /\ call \in Calls /\ file \in Files /\ call.todo \in Todos
        /\ job \in Jobs \cup {"close"} /\ rest \in Rests(job)
        /\ IF job = "close" THEN file.state = "open" /\ file.node = n ELSE file = NoFile
    BY <2>1, RunFacts
  <2>3. new \in Rests(job) /\ ~Behind(new) /\ new # <<"END">>
    BY <2>1, <2>2, RestFacts
  <2>4. NoConn \in Conns /\ Quiet(NoConn) /\ ~NoConn.cut /\ NoConn.data = "none"
    BY DEF NewConn, NoConn, Conns, Quiet
  <2>5. node \in Nodes /\ node.busy /\ node.conn = NoConn
    BY <2>2, <2>4 DEF Nodes
  <2>6. ftCall \in [FtpUser -> Calls] /\ ftNode \in [DOMAIN ftNode -> Nodes]
        /\ ftFile \in [FtpUser -> Files]
    BY DEF FtpInv, FtpTypeOK
  <2>7. /\ ftNode' = [ftNode EXCEPT ![n] = node]
        /\ ftCall' = [ftCall EXCEPT ![t] = next]
        /\ ftFile' = [ftFile EXCEPT ![t] = file]
    BY <1>2, <1>4, <2>2, <2>6
  <2> HIDE DEF new, node, file
  <2>8. next \in Calls /\ next.at = "run" /\ next.node = n /\ next.rest = new /\ next.todo = call.todo
    <3> DEFINE R == {<<>>} \cup UNION {Rests(j) : j \in Jobs \cup {"close"}}
    <3>1. new \in R
      BY <2>2, <2>3
    <3>2. Calls = [todo : Todos \cup {<<>>}, at : {"", "logon", "take", "run"}, node : Nat, rest : R]
      BY DEF Calls
    <3> HIDE DEF R
    <3> QED
      BY <2>1, <2>2, <3>1, <3>2
  <2> HIDE DEF next, n, rest, job, call
  <2>9. Fits(next, file)
    BY <2>2, <2>3, <2>8 DEF Fits, job
  <2>10. NoFile.state # "open" /\ Idle.at # "run"
    BY DEF NoFile, Idle
  <2>11. \A m \in Nat : Has(next, file, m) <=> m = n
    BY <2>2, <2>8, <2>10 DEF Has
  <2>12. Rested(node) /\ Kept(next, node.conn)
    <3>1. next # Idle
      BY <2>8, <2>10
    <3> QED
      BY <2>3, <2>4, <2>5, <2>8, <3>1 DEF Rested, Kept, Transferring
  <2> QED
    BY <2>2, <2>5, <2>7, <2>8, <2>9, <2>11, <2>12, NodeStep
<1> QED
  BY <1>3, <1>4

LEMMA TransferStep ==
    ASSUME FtpInv, NEW t \in FtpUser, NEW name \in Transfers, Transfer(t, name)
    PROVE  FtpInv'
<1> DEFINE rest == ftCall[t].rest
<1>1. /\ At(t, name)
      /\ \/ Cut(t, WriteStr(Conn(t), name))
         \/ \E r \in ReadCode([Sent(WriteStr(Conn(t), name)) EXCEPT !.data = "open"]) :
              Answered(t, name, r)
  BY DEF Transfer
<1>2. name \in Names /\ name \notin {"lines", "close", "END", "RNFR"}
  BY DEF Names, Transfers
<1>3. /\ ftCall[t].at = "run" /\ Head(rest) = name /\ rest \notin Owed
      /\ Conn(t) \in Conns /\ Quiet(Conn(t))
  BY <1>1, <1>2, AtFacts
<1>4. CASE Cut(t, WriteStr(Conn(t), name))
  <2>1. WriteStr(Conn(t), name) \in Wires
    <3>1. CASE Conn(t).cut
      BY <1>3, <3>1, ConnIsWire DEF WriteStr
    <3>2. CASE ~Conn(t).cut
      BY <1>2, <1>3, <3>2, Asked
    <3> QED
      BY <3>1, <3>2
  <2> QED
    BY <1>3, <1>4, <2>1, CutStep
<1>5. ASSUME NEW r \in ReadCode([Sent(WriteStr(Conn(t), name)) EXCEPT !.data = "open"]),
             Answered(t, name, r)
      PROVE  FtpInv'
  <2>1. /\ r.conn \in Wires
        /\ r.code \notin {"cut", "closed"} =>
             /\ r.conn \in Conns /\ (r.conn.cut => Quiet(r.conn))
             /\ ~r.conn.cut => /\ r.conn.data # "unsent"
                               /\ IF r.code = "ok" THEN Owing(r.conn) ELSE Quiet(r.conn)
    BY <1>3, <1>5, Transferred
  <2>2. Expected(name) = "ok"
    BY <1>2 DEF Expected
  <2>3. r.code = Expected(name) => Done(rest, r.conn)
    BY <1>3, <2>1, <2>2 DEF Done
  <2>4. r.code \notin {"cut", "closed", Expected(name)} =>
          r.conn \in Conns /\ Quiet(r.conn) /\ (~r.conn.cut => r.conn.data # "unsent")
    BY <2>1, <2>2
  <2> QED
    BY <1>3, <1>5, <2>1, <2>3, <2>4, AnsweredStep
<1> QED
  BY <1>1, <1>4, <1>5

LEMMA LinesStep ==
    ASSUME FtpInv, NEW t \in FtpUser, Lines(t)
    PROVE  FtpInv'
<1> DEFINE rest == ftCall[t].rest
<1>1. At(t, "lines") /\ (Advance(t, Conn(t)) \/ Cut(t, Conn(t)))
  BY DEF Lines
<1>2. /\ ftCall[t].at = "run" /\ Head(rest) = "lines" /\ rest \in Owed
      /\ Conn(t) \in Conns /\ (Conn(t).cut => Quiet(Conn(t)))
      /\ ~Conn(t).cut => Owing(Conn(t))
  BY <1>1, AtFacts
<1>3. Done(rest, Conn(t))
  BY <1>2 DEF Done
<1> QED
  BY <1>1, <1>2, <1>3, ConnIsWire, AdvanceStep, CutStep

LEMMA CloseDataStep ==
    ASSUME FtpInv, NEW t \in FtpUser, CloseData(t)
    PROVE  FtpInv'
<1> DEFINE rest == ftCall[t].rest
           c == Conn(t)
           d == [c EXCEPT !.data = "none"]
<1>1. At(t, "close") /\ (Advance(t, d) \/ Cut(t, c))
  BY DEF CloseData
<1>2. /\ ftCall[t].at = "run" /\ Head(rest) = "close"
      /\ c \in Conns /\ (c.cut => Quiet(c))
      /\ ~c.cut => IF rest \in Owed THEN Owing(c) ELSE Quiet(c)
  BY <1>1, AtFacts
<1>3. /\ d \in Conns /\ d.data = "none" /\ d.cut = c.cut
      /\ d.out = c.out /\ d.net = c.net /\ d.in = c.in
  BY <1>2 DEF Conns
<1> HIDE DEF d, c
<1>4. (Quiet(c) => Quiet(d)) /\ (Owing(c) => Owing(d))
  BY <1>3 DEF Quiet, Owing
<1>5. "close" \notin Transfers
  BY DEF Transfers
<1>6. Done(rest, d)
  BY <1>2, <1>3, <1>4, <1>5 DEF Done
<1> QED
  BY <1>1, <1>2, <1>6, ConnIsWire, AdvanceStep, CutStep

LEMMA ReadEndStep ==
    ASSUME FtpInv, NEW t \in FtpUser, ReadEnd(t)
    PROVE  FtpInv'
<1> DEFINE rest == ftCall[t].rest
           c == Conn(t)
<1>1. At(t, "END") /\ \E r \in ReadCode(c) : Answered(t, "END", r)
  BY DEF ReadEnd
<1>2. /\ ftCall[t].at = "run" /\ Head(rest) = "END"
      /\ c \in Conns /\ (c.cut => Quiet(c))
      /\ ~c.cut => Owing(c) /\ c.data # "unsent"
  BY <1>1, AtFacts
<1>3. PICK r \in ReadCode(c) : Answered(t, "END", r)
  BY <1>1
<1> HIDE DEF c
<1>4. "END" \notin Transfers /\ Expected("END") = "ok"
  BY DEF Transfers, Expected
<1>5. /\ r.conn \in Wires
      /\ r.code \notin {"cut", "closed"} =>
           r.conn \in Conns /\ Quiet(r.conn) /\ (~r.conn.cut => r.conn.data # "unsent")
  <2>1. CASE c.cut
    BY <1>2, <2>1, CutRead, ConnIsWire
  <2>2. CASE ~c.cut
    <3>1. Ended(c, "END", r)
      BY <1>2, <2>2, LastReply
    <3> QED
      BY <1>2, <1>4, <2>2, <3>1, ConnIsWire DEF Ended, Codes
  <2> QED
    BY <2>1, <2>2
<1>6. r.code = Expected("END") => Done(rest, r.conn)
  BY <1>2, <1>4, <1>5 DEF Done
<1> QED
  BY <1>2, <1>3, <1>5, <1>6, AnsweredStep

\* A thread with an open file and no call.
LEMMA OpenFacts ==
    ASSUME FtpInv, NEW t \in FtpUser, ftCall[t] = Idle, ftFile[t].state = "open",
           NEW n, n = ftFile[t].node, NEW c, c = ftNode[n].conn
    PROVE  /\ n \in DOMAIN ftNode /\ n \in Nat /\ ftNode[n] \in Nodes /\ ftNode[n].busy
           /\ \A u \in FtpUser : Uses(u, n) => u = t
           /\ \A m \in Nat : Uses(t, m) <=> m = n
           /\ ftFile[t] \in Files
           /\ c \in Conns /\ (c.cut => Quiet(c)) /\ (~c.cut => Owing(c))
<1>1. ftFile[t] \in Files
  BY DEF FtpInv, FtpTypeOK
<1>2. n \in Nat
  BY <1>1 DEF Files
<1>3. Uses(t, n)
  BY DEF Uses, Has
<1>4. /\ n \in DOMAIN ftNode /\ ftNode[n].busy
      /\ \A u \in FtpUser : Uses(u, n) => u = t
  BY <1>2, <1>3 DEF FtpInv, PoolShape
<1>5. ftNode[n] \in Nodes /\ c \in Conns
  <2>1. ftNode[n] \in Nodes
    BY <1>4 DEF FtpInv, FtpTypeOK
  <2>2. \A x \in Nodes : x.conn \in Conns
    BY DEF Nodes
  <2>3. ftNode[n].conn \in Conns
    BY <2>1, <2>2
  <2> QED
    BY <2>1, <2>3
<1>6. \A m \in Nat : Uses(t, m) <=> m = n
  <2>1. Idle.at # "run"
    BY DEF Idle
  <2> QED
    BY <2>1 DEF Uses, Has
<1>7. Kept(ftCall[t], c) /\ Rested(ftNode[n])
  BY <1>3, <1>4 DEF FtpInv, ConnShape
<1>8. (c.cut => Quiet(c)) /\ (~c.cut => Owing(c))
  BY <1>7 DEF Kept, Rested, Transferring
<1> QED
  BY <1>1, <1>2, <1>4, <1>5, <1>6, <1>8

LEMMA ReadWriteStep ==
    ASSUME FtpInv, NEW t \in FtpUser, ReadWrite(t)
    PROVE  FtpInv'
<1> DEFINE n == ftFile[t].node
           c == ftNode[n].conn
           file == ftFile[t]
           x == IF file.kind = "write" THEN "unsent" ELSE c.data
           d == [c EXCEPT !.data = x]
           node == [ftNode[n] EXCEPT !.conn = d]
<1>1. /\ file.state = "open" /\ ftCall[t] = Idle
      /\ ftNode' = [ftNode EXCEPT ![n].conn.data = IF file.kind = "write" THEN "unsent" ELSE @]
      /\ ftCall' = ftCall /\ ftFile' = ftFile
  BY DEF ReadWrite
<1>2. /\ n \in DOMAIN ftNode /\ n \in Nat /\ ftNode[n] \in Nodes /\ ftNode[n].busy
      /\ \A u \in FtpUser : Uses(u, n) => u = t
      /\ \A m \in Nat : Uses(t, m) <=> m = n
      /\ file \in Files
      /\ c \in Conns /\ (c.cut => Quiet(c)) /\ (~c.cut => Owing(c))
  BY <1>1, OpenFacts
<1>3. ftNode' = [ftNode EXCEPT ![n] = node]
  BY <1>1
<1>4. x \in {"none", "open", "unsent"}
  BY <1>2 DEF Conns
<1>5. ftCall \in [FtpUser -> Calls] /\ ftFile \in [FtpUser -> Files]
  BY DEF FtpInv, FtpTypeOK
<1>6. ftCall' = [ftCall EXCEPT ![t] = Idle] /\ ftFile' = [ftFile EXCEPT ![t] = file]
  BY <1>1, <1>5
<1> HIDE DEF n, x, file
<1>7. d \in Conns /\ d.cut = c.cut /\ d.out = c.out /\ d.net = c.net /\ d.in = c.in
  BY <1>2, <1>4 DEF Conns
<1> HIDE DEF d
<1>8. node \in Nodes /\ node.busy /\ node.conn = d
  BY <1>2, <1>7 DEF Nodes
<1>9. Idle \in Calls /\ Idle.at # "run" /\ Idle.rest = <<>>
  BY DEF Idle, Calls
<1> HIDE DEF node, c
<1>10. (d.cut => Quiet(d)) /\ (~d.cut => Owing(d))
  BY <1>2, <1>7 DEF Quiet, Owing
<1>11. Rested(node) /\ Kept(Idle, node.conn)
  <2>1. <<>> # <<"END">>
    OBVIOUS
  <2> QED
    BY <1>8, <1>9, <1>10, <2>1 DEF Rested, Kept, Transferring
<1>12. \A m \in Nat : Has(Idle, file, m) <=> m = n
  BY <1>1, <1>9 DEF Has, file, n
<1>13. Fits(Idle, file)
  BY DEF Fits
<1> QED
  BY <1>2, <1>3, <1>6, <1>8, <1>9, <1>11, <1>12, <1>13, NodeStep

LEMMA CloseFileStep ==
    ASSUME FtpInv, NEW t \in FtpUser, CloseFile(t)
    PROVE  FtpInv'
<1> DEFINE n == ftFile[t].node
           file == ftFile[t]
           left == <<"close", "END">>
           call == [todo |-> <<"close">>, at |-> "run", node |-> n, rest |-> left]
<1>1. ftCall[t] = Idle /\ ftNode' = ftNode
  BY DEF CloseFile
<1>2. ftCall \in [FtpUser -> Calls] /\ ftFile \in [FtpUser -> Files] /\ DOMAIN ftNode \subseteq Nat
  BY DEF FtpInv, FtpTypeOK
<1>3. Idle \in Calls /\ Idle.at # "run" /\ Idle.rest = <<>> /\ Fits(Idle, NoFile)
      /\ NoFile \in Files /\ NoFile.state # "open"
  BY DEF Idle, NoFile, Calls, Files, Fits
<1>4. CASE ~ftNode[n].busy
  <2>1. ftFile' = [ftFile EXCEPT ![t] = NoFile] /\ ftCall' = ftCall
    BY <1>4, Zenon DEF CloseFile
  <2>2. file.state # "open"
    <3>1. file.state = "open" => ftNode[n].busy
      BY <1>1, OpenFacts
    <3> QED
      BY <1>4, <3>1
  <2>3. ftCall' = [ftCall EXCEPT ![t] = Idle]
    BY <1>1, <1>2, <2>1
  <2>4. \A m \in Nat : ~Uses(t, m) /\ ~Has(Idle, NoFile, m)
    BY <1>1, <1>3, <2>2 DEF Uses, Has
  <2> QED
    BY <1>1, <1>2, <1>3, <2>1, <2>3, <2>4, AsideStep
<1>5. CASE ftNode[n].busy /\ file.state = "open"
  <2>1. ftFile' = ftFile
    BY <1>5, Zenon DEF CloseFile
  <2>2. ftCall' = [ftCall EXCEPT ![t] = [todo |-> <<"close">>, at |-> "run", node |-> n, rest |-> Plan.close]]
    BY <1>5, Zenon DEF CloseFile
  <2>3. Plan.close = left
    BY DEF Plan
  <2>4. ftCall' = [ftCall EXCEPT ![t] = call]
    BY <2>2, <2>3
  <2>5. /\ n \in DOMAIN ftNode /\ n \in Nat
        /\ \A m \in Nat : Uses(t, m) <=> m = n
        /\ (~ftNode[n].conn.cut => Owing(ftNode[n].conn))
    BY <1>1, <1>5, OpenFacts
  <2>6. left \in Rests("close") /\ Behind(left) /\ left # <<"END">>
    <3>1. left \in Lefts["close"] /\ left \in Owed /\ left # <<"END">>
      BY DEF Lefts, Owed
    <3> HIDE DEF left
    <3> QED
      BY <3>1, BehindLeft DEF Rests
  <2>7. <<"close">> \in Todos /\ Head(<<"close">>) = "close"
    BY DEF Todos
  <2>8. ftFile' = [ftFile EXCEPT ![t] = file] /\ file \in Files
    BY <1>2, <2>1
  <2> HIDE DEF left
  <2>9. call.todo = <<"close">> /\ call.at = "run" /\ call.node = n /\ call.rest = left
    OBVIOUS
  <2>10. call \in Calls
    <3> DEFINE R == {<<>>} \cup UNION {Rests(j) : j \in Jobs \cup {"close"}}
               T == Todos \cup {<<>>}
               todo == <<"close">>
    <3>1. left \in R /\ todo \in T
      BY <2>6, <2>7
    <3>2. Calls = [todo : T, at : {"", "logon", "take", "run"}, node : Nat, rest : R]
      BY DEF Calls
    <3> HIDE DEF R, T, todo
    <3>3. [todo |-> todo, at |-> "run", node |-> n, rest |-> left] \in Calls
      BY <2>5, <3>1, <3>2
    <3> QED
      BY <3>3 DEF todo
  <2> HIDE DEF call, file, n
  <2>11. Fits(call, file)
    BY <1>5, <2>6, <2>7, <2>9 DEF Fits, file, n
  <2>12. \A m \in Nat : Has(call, file, m) <=> Uses(t, m)
    BY <1>5, <2>5, <2>9 DEF Has, file, n
  <2>13. \A m \in DOMAIN ftNode : Uses(t, m) => Kept(call, ftNode[m].conn)
    <3>1. Kept(call, ftNode[n].conn)
      BY <2>5, <2>6, <2>9 DEF Kept, Transferring
    <3> QED
      BY <1>2, <2>5, <3>1
  <2> QED
    BY <1>1, <2>4, <2>8, <2>10, <2>11, <2>12, <2>13, AsideStep
<1>6. CASE ftNode[n].busy /\ file.state # "open"
  <2>1. UNCHANGED <<ftCall, ftFile>>
    BY <1>6, Zenon DEF CloseFile
  <2> QED
    BY <1>1, <2>1, Stays
<1> QED
  BY <1>4, <1>5, <1>6

-----------------------------------------------------------------------------
(* The invariant.                                                          *)

LEMMA FtpInitial == FtpInit => FtpInv
<1> SUFFICES ASSUME FtpInit PROVE FtpInv
  OBVIOUS
<1>1. PICK k \in FtpNodes : ftNode = [n \in 1..k |-> [busy |-> FALSE, conn |-> NoConn]]
  BY DEF FtpInit
<1>2. k \in Nat
  BY FtpAssumption
<1>3. ftCall = [t \in FtpUser |-> Idle] /\ ftFile = [t \in FtpUser |-> NoFile]
  BY DEF FtpInit
<1>4. NoConn \in Conns /\ Quiet(NoConn) /\ ~NoConn.cut /\ NoConn.data = "none"
  BY DEF NewConn, NoConn, Conns, Quiet
<1>5. Idle \in Calls /\ Idle.at # "run" /\ NoFile \in Files /\ NoFile.state # "open"
  BY DEF Idle, NoFile, Calls, Files
<1>6. [busy |-> FALSE, conn |-> NoConn] \in Nodes
  BY <1>4 DEF Nodes
<1>7. FtpTypeOK
  BY <1>1, <1>2, <1>3, <1>5, <1>6 DEF FtpTypeOK
<1>8. CallShape
  BY <1>3 DEF CallShape, Fits
<1>9. \A t \in FtpUser : \A n : ~Uses(t, n)
  BY <1>3, <1>5 DEF Uses, Has
<1>10. \A n \in DOMAIN ftNode : ~ftNode[n].busy /\ ftNode[n].conn = NoConn
  BY <1>1
<1>11. PoolShape
  BY <1>9, <1>10 DEF PoolShape
<1>12. ConnShape
  BY <1>4, <1>9, <1>10 DEF ConnShape, Rested
<1> QED
  BY <1>7, <1>8, <1>11, <1>12 DEF FtpInv

LEMMA FtpStepKeeps == FtpInv /\ [FtpNext]_ftVars => FtpInv'
<1> SUFFICES ASSUME FtpInv, [FtpNext]_ftVars PROVE FtpInv'
  OBVIOUS
<1>1. ASSUME NEW t \in FtpUser, FtpStep(t) PROVE FtpInv'
  <2>1. CASE \E op \in FtpOps : BeginCall(t, op)
    BY <2>1, BeginCallStep
  <2>2. CASE Logon(t)
    BY <2>2, LogonStep
  <2>3. CASE TakeNode(t)
    BY <2>3, TakeNodeStep
  <2>4. CASE Connect(t)
    BY <2>4, ConnectStep
  <2>5. CASE Noop(t)
    BY <2>5, NoopStep
  <2>6. CASE \E name \in {"CWD", "PASV", "RNFR", "RNTO", "MKD", "DELE", "RMD"} : Command(t, name)
    BY <2>6, CommandStep
  <2>7. CASE \E name \in Transfers : Transfer(t, name)
    BY <2>7, TransferStep
  <2>8. CASE Lines(t)
    BY <2>8, LinesStep
  <2>9. CASE CloseData(t)
    BY <2>9, CloseDataStep
  <2>10. CASE ReadEnd(t)
    BY <2>10, ReadEndStep
  <2>11. CASE ReadWrite(t)
    BY <2>11, ReadWriteStep
  <2>12. CASE CloseFile(t)
    BY <2>12, CloseFileStep
  <2> QED
    BY <1>1, <2>1, <2>2, <2>3, <2>4, <2>5, <2>6, <2>7, <2>8, <2>9, <2>10, <2>11, <2>12 DEF FtpStep
<1>2. CASE FtpEnded \/ UNCHANGED ftVars
  <2>1. UNCHANGED <<ftNode, ftCall, ftFile>>
    BY <1>2 DEF FtpEnded, ftVars
  <2> QED
    BY <2>1, Stays
<1> QED
  BY <1>1, <1>2 DEF FtpNext

(***************************************************************************)
(* The pool and the connections are always in the shape the calls leave    *)
(* them in: between two steps a connection carries nothing but the last    *)
(* reply of a transfer, and has one user or none.                          *)
(***************************************************************************)
THEOREM FtpInvariance == FtpSpec => []FtpInv
BY FtpInitial, FtpStepKeeps, PTL DEF FtpSpec

-----------------------------------------------------------------------------
(* What follows from it.                                                   *)

LEMMA UsersAreThose ==
    ASSUME NEW n, FtpInv
    PROVE  UsersOf(n) = {t \in FtpUser : Uses(t, n)}
BY DEF UsersOf, Uses, Has

LEMMA PoolExactFromInv == FtpInv => PoolExact
<1> SUFFICES ASSUME FtpInv, NEW n \in DOMAIN ftNode
             PROVE  Cardinality(UsersOf(n)) = IF ftNode[n].busy THEN 1 ELSE 0
  BY DEF PoolExact
<1>1. UsersOf(n) = {t \in FtpUser : Uses(t, n)}
  BY UsersAreThose
<1>2. n \in Nat
  BY DEF FtpInv, FtpTypeOK
<1>3. CASE ftNode[n].busy
  <2>1. PICK t \in FtpUser : Uses(t, n)
    BY <1>3 DEF FtpInv, PoolShape
  <2>2. \A u \in FtpUser : Uses(u, n) => u = t
    BY <1>2, <2>1 DEF FtpInv, PoolShape
  <2>3. UsersOf(n) = {t}
    BY <1>1, <2>1, <2>2
  <2> QED
    BY <1>3, <2>3, FS_Singleton
<1>4. CASE ~ftNode[n].busy
  <2>1. \A u \in FtpUser : ~Uses(u, n)
    BY <1>2, <1>4 DEF FtpInv, PoolShape
  <2>2. UsersOf(n) = {}
    BY <1>1, <2>1
  <2> QED
    BY <1>4, <2>2, FS_EmptySet
<1> QED
  BY <1>3, <1>4

(***************************************************************************)
(* A node is busy exactly when a call or an open file has it, and then     *)
(* just one, for any number of threads and nodes: every way out of a call  *)
(* in vfs-ftp.cpp gives its node back, and none gives back another's.      *)
(***************************************************************************)
THEOREM PoolIsExact == FtpSpec => []PoolExact
BY FtpInvariance, PoolExactFromInv, PTL

\* The number of replies that are due on a connection.
LEMMA PendingOf ==
    ASSUME NEW c
    PROVE  /\ Quiet(c) => Len(c.out \o c.net \o c.in) = 0
           /\ Owing(c) => Len(c.out \o c.net \o c.in) = 1
<1> DEFINE S == {"END", "ok", "error"}
<1>1. /\ <<>> \in Seq(S) /\ <<"END">> \in Seq(S) /\ <<"ok">> \in Seq(S) /\ <<"error">> \in Seq(S)
      /\ Len(<<>>) = 0 /\ Len(<<"END">>) = 1 /\ Len(<<"ok">>) = 1 /\ Len(<<"error">>) = 1
  OBVIOUS
<1>2. \A p, q \in Seq(S) : Len(p \o q) = Len(p) + Len(q) /\ p \o q \in Seq(S)
  BY ConcatProperties
<1> HIDE DEF S
<1>3. ASSUME NEW p \in Seq(S), NEW q \in Seq(S), NEW r \in Seq(S)
      PROVE  Len(p \o q \o r) = Len(p) + Len(q) + Len(r)
  BY <1>2
<1>4. ASSUME Quiet(c) PROVE Len(c.out \o c.net \o c.in) = 0
  <2>1. Len(<<>> \o <<>> \o <<>>) = 0
    BY <1>1, <1>3
  <2> QED
    BY <1>4, <2>1 DEF Quiet
<1>5. ASSUME Owing(c) PROVE Len(c.out \o c.net \o c.in) = 1
  <2>1. Len(<<>> \o <<"END">> \o <<>>) = 1
    BY <1>1, <1>3
  <2>2. Len(<<>> \o <<>> \o <<"ok">>) = 1
    BY <1>1, <1>3
  <2>3. Len(<<>> \o <<>> \o <<"error">>) = 1
    BY <1>1, <1>3
  <2> QED
    BY <1>5, <2>1, <2>2, <2>3 DEF Owing
<1> QED
  BY <1>4, <1>5

LEMMA InStepFromInv == FtpInv => InStep
<1> SUFFICES ASSUME FtpInv, NEW n \in DOMAIN ftNode, ~ftNode[n].conn.cut
             PROVE  LET c == ftNode[n].conn
                    IN  /\ Len(c.out \o c.net \o c.in) = IF InTransfer(n) THEN 1 ELSE 0
                        /\ c.data = "unsent" => InTransfer(n)
  BY DEF InStep
<1> DEFINE c == ftNode[n].conn
<1>1. UsersOf(n) = {t \in FtpUser : Uses(t, n)}
  BY UsersAreThose
<1>2. InTransfer(n) <=> \E t \in FtpUser : Uses(t, n) /\ Transferring(ftCall[t])
  BY <1>1 DEF InTransfer, Transferring, Behind
<1>3. \A t \in FtpUser : Uses(t, n) => Kept(ftCall[t], c)
  BY DEF FtpInv, ConnShape
<1>4. CASE InTransfer(n)
  <2>1. PICK t \in FtpUser : Uses(t, n) /\ Transferring(ftCall[t])
    BY <1>2, <1>4
  <2>2. Owing(c)
    BY <1>3, <2>1 DEF Kept
  <2> HIDE DEF c
  <2>3. Len(c.out \o c.net \o c.in) = 1
    BY <2>2, PendingOf
  <2> QED
    BY <1>4, <2>3 DEF c
<1>5. CASE ~InTransfer(n)
  <2>1. Quiet(c) /\ c.data # "unsent"
    <3>1. CASE ftNode[n].busy
      <4>1. PICK t \in FtpUser : Uses(t, n)
        BY <3>1 DEF FtpInv, PoolShape
      <4> QED
        BY <1>2, <1>3, <1>5, <4>1 DEF Kept
    <3>2. CASE ~ftNode[n].busy
      BY <3>2 DEF FtpInv, ConnShape, Rested
    <3> QED
      BY <3>1, <3>2
  <2> HIDE DEF c
  <2>2. Len(c.out \o c.net \o c.in) = 0
    BY <2>1, PendingOf
  <2> QED
    BY <1>5, <2>1, <2>2 DEF c
<1> QED
  BY <1>4, <1>5

(***************************************************************************)
(* A call of vfs-ftp.cpp reads every reply to what it has sent, also if    *)
(* one of its commands is refused: on a connection on which nothing was    *)
(* broken off, no reply is ever left for the call that comes next.         *)
(***************************************************************************)
THEOREM StaysInStep == FtpSpec => []InStep
BY FtpInvariance, InStepFromInv, PTL

=============================================================================
