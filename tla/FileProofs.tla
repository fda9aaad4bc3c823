----------------------------- MODULE FileProofs -----------------------------
(***************************************************************************)
(* Proofs about FileOps: no step of an operation loses an object (the      *)
(* theorem KeepsEverything), half-written files are only where they are    *)
(* known to be (LeavesNoHalf), and what ends well has been done completely *)
(* (DoesAllItSays), for any disk, any job, any depth of directories and    *)
(* any number of failures.                                                 *)
(***************************************************************************)
EXTENDS FileOps, SequenceTheorems, FiniteSetTheorems, TLAPS

(***************************************************************************)
(* What the user must not ask for: to copy or move an object into itself,  *)
(* over a directory that it is in, or over or into another object he has   *)
(* listed.  For a delete, and for a list that Begin refuses, nothing is    *)
(* asked.  When each object is its own destination (OntoItself) the disk   *)
(* stays as it is but for what a failing Stat gives away; SelfInv is the   *)
(* invariant of these jobs.                                                *)
(***************************************************************************)
Doable == IntoDirectory \/ \E n \in job.list : job.list = {n}

SourceOf(n) == Append(job.from, n)
Apart ==
    job.op # "delete" /\ Doable =>
        \A m, n \in job.list :
            /\ ~IsBelow(Destination(SourceOf(n)), SourceOf(m))
            /\ ~IsBelow(SourceOf(m), Destination(SourceOf(n)))
-----------------------------------------------------------------------------
(***************************************************************************)
(* The inductive invariant.                                                *)
(***************************************************************************)
AtObject == pc \notin {"begin", "next", "rmdir", "done"}
Writing == pc \in {"open", "create", "overwrite", "data", "close"}
HalfFile == pc \in {"data", "close"} \/ (pc = "unlink" /\ after \in {"failed", "stopped"})

Pcs == {"begin", "next", "unlink", "rmdir", "readdir", "mkdir", "link", "symlink", "file",
        "open", "create", "overwrite", "data", "close", "mvfile", "mvdelete", "rename",
        "mvdir", "merge", "delfile", "done"}
Frames == [kind : {"list", "dir", "merge"}, src : Path, dst : Path,
           todo : SUBSET Name, last : Path]

PlainTypes ==
    /\ pc \in Pcs
    /\ after \in {"next", "rename", "failed", "stopped"}
    /\ skipNonRegular \in BOOLEAN /\ commitAll \in BOOLEAN /\ stopped \in BOOLEAN

FileTypes ==
    /\ PlainTypes
    /\ job \in Job
    /\ \A p \in DOMAIN disk : p \in Path
    /\ cur.src \in Path /\ cur.dst \in Path
    /\ stack \in Seq(Frames) /\ stack # <<>>

\* each routine belongs to an operation, and to a kind of objects
Routines ==
    /\ pc \in {"begin", "mkdir", "link", "symlink", "file"} \/ Writing => job.op # "delete"
    /\ pc \in {"mvfile", "mvdelete", "rename", "mvdir", "merge"} => job.op = "move"
    /\ pc = "delfile" => job.op = "delete"
    /\ pc \in {"link", "symlink"} => cur.kind = "link"
    /\ pc = "file" \/ Writing => cur.kind \in {"file", "special"}
    /\ Writing => cur.kind = "file" \/ skipNonRegular
    /\ pc \notin {"begin", "done"} /\ job.op # "delete" => Doable

\* what a frame still has to do is there, and what is below p is none of it
Under(p, f) == /\ Len(p) > Len(f.src) /\ IsBelow(p, f.src)
               /\ p[Len(f.src) + 1] \notin f.todo

FrameOk(f) ==
    /\ \A n \in f.todo : Listed(Append(f.src, n)) /\ Append(f.src, n) \in DOMAIN disk
    /\ f.kind # "list" =>
        /\ Listed(f.src) /\ Listed(f.last)
        /\ job.op # "delete" => f.dst = Destination(f.src)
    /\ f.kind = "list" => f.src = job.from /\ f.dst = job.to
    /\ f.kind = "merge" => job.op = "move"

StackOk ==
    /\ \A i \in 1..Len(stack) : FrameOk(stack[i]) /\ (stack[i].kind = "list" <=> i = Len(stack))
    /\ \A i, j \in 1..Len(stack) : i < j =>
            Under(stack[i].src, stack[j]) /\ Under(stack[i].last, stack[j])
    /\ pc = "rmdir" => Top.kind # "list" /\ Top.todo = {}

\* nothing has been touched at first
Beginning == pc = "begin" => disk = job.disk

\* the object that is worked on is there
CurOk ==
    AtObject =>
        /\ Listed(cur.src) /\ cur.src \in DOMAIN disk /\ cur.kind = disk[cur.src].kind
        /\ \A i \in 1..Len(stack) : Under(cur.src, stack[i])
        /\ job.op # "delete" => cur.dst = Destination(cur.src)

\* what is at its destination may be replaced
DstOk ==
    /\ pc \in {"overwrite", "mvdelete"} => cur.dst \in agreed
    /\ pc = "rename" /\ cur.dst \in DOMAIN disk => cur.dst \in agreed \cup unseen
    /\ HalfFile => /\ cur.dst \in DOMAIN disk
                   /\ disk[cur.dst] = [kind |-> "file", data |-> Partial]

\* a listed directory, that is to take the place of what is at its destination
DirMoved == cur.kind = "dir" /\ \E n \in job.list : cur.src = SourceOf(n)

\* what Unlink may delete
VictimOk ==
    /\ pc = "mvdir" => DirMoved
    /\ pc = "unlink" =>
        /\ after = "next" =>
            /\ victim = cur.src
            /\ job.op = "delete" => victim \in agreed
            /\ job.op # "delete" =>
                /\ job.op = "move"
                /\ \/ cur.dst \in DOMAIN disk /\ disk[cur.dst] = disk[cur.src]
                   \/ skipNonRegular /\ cur.kind \in {"link", "special"}
        /\ after = "rename" =>
            victim = cur.dst /\ job.op = "move" /\ DirMoved /\ (victim \in agreed \/ stopped)
        /\ after \in {"failed", "stopped"} => victim = cur.dst /\ job.op # "delete"

(***************************************************************************)
(* The objects.  Those listed are as they were, or are at their            *)
(* destination; the others are as they were; none is half-written.         *)
(***************************************************************************)
SourcesKept ==
    \A p \in DOMAIN disk : Listed(p) => p \in DOMAIN job.disk /\ disk[p] = job.disk[p]

OthersKept ==
    \A p \in DOMAIN job.disk : ~Listed(p) /\ job.disk[p].kind # "dir" =>
        \/ p \in DOMAIN disk /\ disk[p] = job.disk[p]
        \/ p \in agreed
        \/ LostUnasked(p)

AtDestination(p) ==
    /\ job.op # "delete" /\ Doable
    /\ Destination(p) \in DOMAIN disk /\ disk[Destination(p)] = job.disk[p]

ListedKept ==
    \A p \in DOMAIN job.disk : Listed(p) /\ job.disk[p].kind # "dir" =>
        \/ p \in DOMAIN disk
        \/ AtDestination(p)
        \/ job.op = "delete" /\ p \in agreed
        \/ LostUnasked(p)

HalfKept ==
    \A p \in DOMAIN disk : disk[p].kind = "file" /\ disk[p].data = Partial =>
        (p = cur.dst /\ HalfFile) \/ p \in left

Control == FileTypes /\ Routines /\ StackOk /\ Beginning /\ CurOk /\ DstOk /\ VictimOk
Data == SourcesKept /\ OthersKept /\ ListedKept /\ HalfKept
FileInv == Apart /\ Control /\ Data
-----------------------------------------------------------------------------
(* Paths.                                                                  *)

LEMMA PathFacts ==
    ASSUME NEW p \in Path
    PROVE  Len(p) \in Nat /\ \A i \in 1..Len(p) : p[i] \in Name
BY LenProperties, ElementOfSeq DEF Path

LEMMA BelowIs ==
    ASSUME NEW p \in Path, NEW q \in Path
    PROVE  IsBelow(p, q) <=> Len(q) <= Len(p) /\ \A i \in 1..Len(q) : p[i] = q[i]
<1>1. Len(p) \in Nat /\ Len(q) \in Nat /\ \A i \in 1..Len(p) : p[i] \in Name
  BY PathFacts
<1>2. SUFFICES ASSUME Len(q) <= Len(p)
               PROVE  SubSeq(p, 1, Len(q)) = q <=> \A i \in 1..Len(q) : p[i] = q[i]
  BY <1>1 DEF IsBelow
<1>3. \A i \in 1..Len(q) : p[i] \in Name
  BY <1>1, <1>2
<1>4. /\ SubSeq(p, 1, Len(q)) \in Seq(Name) /\ Len(SubSeq(p, 1, Len(q))) = Len(q)
      /\ \A i \in 1..Len(q) : SubSeq(p, 1, Len(q))[i] = p[i]
  <2>1. /\ SubSeq(p, 1, Len(q)) \in Seq(Name)
        /\ Len(SubSeq(p, 1, Len(q))) = IF 1 <= Len(q) THEN Len(q) - 1 + 1 ELSE 0
        /\ \A i \in 1 .. Len(q) - 1 + 1 : SubSeq(p, 1, Len(q))[i] = p[1 + i - 1]
    BY <1>1, <1>3, SubSeqProperties
  <2> QED  BY <1>1, <2>1
<1>5. (\A i \in 1..Len(q) : p[i] = q[i]) => SubSeq(p, 1, Len(q)) = q
  BY <1>1, <1>4, SeqEqual DEF Path
<1> QED
  BY <1>4, <1>5

LEMMA BelowSelf ==
    ASSUME NEW p \in Path
    PROVE  IsBelow(p, p)
BY PathFacts, BelowIs

LEMMA BelowTransitive ==
    ASSUME NEW p \in Path, NEW q \in Path, NEW r \in Path, IsBelow(p, q), IsBelow(q, r)
    PROVE  IsBelow(p, r)
<1>1. Len(p) \in Nat /\ Len(q) \in Nat /\ Len(r) \in Nat
  BY PathFacts
<1>2. /\ Len(q) <= Len(p) /\ \A i \in 1..Len(q) : p[i] = q[i]
      /\ Len(r) <= Len(q) /\ \A i \in 1..Len(r) : q[i] = r[i]
  BY BelowIs
<1>3. Len(r) <= Len(p) /\ \A i \in 1..Len(r) : p[i] = r[i]
  BY <1>1, <1>2
<1> QED
  BY <1>3, BelowIs

\* Two directories above one path are above one another.
LEMMA BelowTwo ==
    ASSUME NEW p \in Path, NEW q \in Path, NEW r \in Path, IsBelow(r, p), IsBelow(r, q)
    PROVE  IsBelow(p, q) \/ IsBelow(q, p)
<1>1. Len(p) \in Nat /\ Len(q) \in Nat /\ Len(r) \in Nat
  BY PathFacts
<1>2. /\ Len(p) <= Len(r) /\ \A i \in 1..Len(p) : r[i] = p[i]
      /\ Len(q) <= Len(r) /\ \A i \in 1..Len(q) : r[i] = q[i]
  BY BelowIs
<1>3. CASE Len(p) <= Len(q)
  <2>1. \A i \in 1..Len(p) : q[i] = p[i]
    BY <1>1, <1>2, <1>3
  <2> QED  BY <1>3, <2>1, BelowIs
<1>4. CASE Len(q) <= Len(p)
  <2>1. \A i \in 1..Len(q) : p[i] = q[i]
    BY <1>1, <1>2, <1>4
  <2> QED  BY <1>4, <2>1, BelowIs
<1> QED
  BY <1>1, <1>3, <1>4

LEMMA BelowEqual ==
    ASSUME NEW p \in Path, NEW q \in Path, IsBelow(p, q), Len(p) <= Len(q)
    PROVE  p = q
<1>1. Len(p) \in Nat /\ Len(q) \in Nat
  BY PathFacts
<1>2. Len(p) = Len(q) /\ \A i \in 1..Len(p) : p[i] = q[i]
  BY <1>1, BelowIs
<1> QED
  BY <1>2, SeqEqual DEF Path

LEMMA AppendBelow ==
    ASSUME NEW p \in Path, NEW n \in Name
    PROVE  /\ Append(p, n) \in Path /\ Len(Append(p, n)) = Len(p) + 1
           /\ Append(p, n)[Len(p) + 1] = n
           /\ \A i \in 1..Len(p) : Append(p, n)[i] = p[i]
           /\ IsBelow(Append(p, n), p)
<1>1. /\ Append(p, n) \in Path /\ Len(Append(p, n)) = Len(p) + 1
      /\ Append(p, n)[Len(p) + 1] = n
      /\ \A i \in 1..Len(p) : Append(p, n)[i] = p[i]
  BY AppendProperties DEF Path
<1>2. Len(p) <= Len(Append(p, n))
  BY <1>1, PathFacts
<1> QED
  BY <1>1, <1>2, BelowIs

\* What follows p in r, put behind q.
Rebased(r, p, q) == q \o SubSeq(r, Len(p) + 1, Len(r))

LEMMA RebasedIs ==
    ASSUME NEW r \in Path, NEW q \in Path, NEW m \in Nat, m <= Len(r)
    PROVE  LET t == q \o SubSeq(r, m + 1, Len(r))
           IN  /\ t \in Path /\ Len(t) = Len(q) + Len(r) - m
               /\ \A i \in 1..Len(q) : t[i] = q[i]
               /\ \A i \in 1 .. Len(r) - m : t[Len(q) + i] = r[m + i]
<1>1. Len(r) \in Nat /\ Len(q) \in Nat /\ \A i \in 1..Len(r) : r[i] \in Name
  BY PathFacts
<1> DEFINE u == SubSeq(r, m + 1, Len(r))
<1>2. u \in Seq(Name) /\ Len(u) = Len(r) - m /\ \A i \in 1 .. Len(r) - m : u[i] = r[m + i]
  <2>1. m + 1 \in Int /\ Len(r) \in Int /\ \A i \in m + 1 .. Len(r) : r[i] \in Name
    BY <1>1
  <2>2. /\ u \in Seq(Name)
        /\ Len(u) = IF m + 1 <= Len(r) THEN Len(r) - (m + 1) + 1 ELSE 0
        /\ \A i \in 1 .. Len(r) - (m + 1) + 1 : u[i] = r[m + 1 + i - 1]
    BY <2>1, SubSeqProperties
  <2> QED  BY <1>1, <2>2
<1> HIDE DEF u
<1>3. /\ q \o u \in Seq(Name) /\ Len(q \o u) = Len(q) + Len(u)
      /\ \A i \in 1 .. Len(q) + Len(u) :
            (q \o u)[i] = IF i <= Len(q) THEN q[i] ELSE u[i - Len(q)]
  BY <1>2, ConcatProperties DEF Path
<1>4. /\ q \o u \in Path /\ Len(q \o u) = Len(q) + Len(r) - m
      /\ \A i \in 1..Len(q) : (q \o u)[i] = q[i]
  BY <1>1, <1>2, <1>3 DEF Path
<1>5. ASSUME NEW i \in 1 .. Len(r) - m
      PROVE  (q \o u)[Len(q) + i] = r[m + i]
  <2>1. Len(q) + i \in 1 .. Len(q) + Len(u) /\ ~(Len(q) + i <= Len(q)) /\ Len(q) + i - Len(q) = i
    BY <1>1, <1>2
  <2>2. (q \o u)[Len(q) + i] = u[i]
    BY <1>3, <2>1
  <2> QED  BY <1>2, <2>2
<1> QED
  BY <1>4, <1>5 DEF u

LEMMA RebasedFacts ==
    ASSUME NEW r \in Path, NEW p \in Path, NEW q \in Path, IsBelow(r, p)
    PROVE  /\ Rebased(r, p, q) \in Path /\ IsBelow(Rebased(r, p, q), q)
           /\ Len(Rebased(r, p, q)) = Len(q) + Len(r) - Len(p)
           /\ Rebased(Rebased(r, p, q), q, p) = r
<1>1. Len(r) \in Nat /\ Len(q) \in Nat /\ Len(p) \in Nat
  BY PathFacts
<1>2. Len(p) <= Len(r) /\ \A i \in 1..Len(p) : r[i] = p[i]
  BY BelowIs
<1> DEFINE t == Rebased(r, p, q)
<1>3. /\ t \in Path /\ Len(t) = Len(q) + Len(r) - Len(p)
      /\ \A i \in 1..Len(q) : t[i] = q[i]
      /\ \A i \in 1 .. Len(r) - Len(p) : t[Len(q) + i] = r[Len(p) + i]
  BY <1>1, <1>2, RebasedIs DEF Rebased
<1> HIDE DEF t
<1>4. Len(q) <= Len(t)
  BY <1>1, <1>2, <1>3
<1> DEFINE v == Rebased(t, q, p)
<1>5. /\ v \in Path /\ Len(v) = Len(p) + Len(t) - Len(q)
      /\ \A i \in 1..Len(p) : v[i] = p[i]
      /\ \A i \in 1 .. Len(t) - Len(q) : v[Len(p) + i] = t[Len(q) + i]
  BY <1>1, <1>3, <1>4, RebasedIs DEF Rebased
<1> HIDE DEF v
<1>6. v = r
  <2>1. Len(v) = Len(r)
    BY <1>1, <1>3, <1>5
  <2>2. ASSUME NEW i \in 1..Len(r)
        PROVE  v[i] = r[i]
    <3>1. CASE i <= Len(p)
      BY <1>1, <1>2, <1>5, <3>1
    <3>2. CASE i > Len(p)
      <4>1. i - Len(p) \in 1 .. Len(r) - Len(p) /\ Len(t) - Len(q) = Len(r) - Len(p)
        BY <1>1, <1>3, <3>2
      <4>2. v[Len(p) + (i - Len(p))] = r[Len(p) + (i - Len(p))]
        BY <1>3, <1>5, <4>1
      <4>3. Len(p) + (i - Len(p)) = i
        BY <1>1
      <4> QED  BY <4>2, <4>3
    <3> QED  BY <1>1, <3>1, <3>2
  <2> QED  BY <1>5, <2>1, <2>2, SeqEqual DEF Path
<1> QED
  BY <1>3, <1>4, <1>6, BelowIs DEF t, v

-----------------------------------------------------------------------------
(* The listed objects and their destinations.                              *)

LEMMA JobFacts ==
    ASSUME job \in Job
    PROVE  /\ job.op \in {"copy", "move", "delete"}
           /\ job.from \in Path /\ job.to \in Path /\ Len(job.from) \in Nat
           /\ job.list \subseteq Name /\ job.list # {} /\ IsFiniteSet(job.list)
           /\ \A p \in DOMAIN job.disk :
                /\ p \in Path /\ job.disk[p] \in Object
                /\ job.disk[p].kind # "dir" => job.disk[p].data # Partial
           /\ \A n \in job.list : SourceOf(n) \in DOMAIN job.disk
BY JobAssumption, PathFacts DEF SourceOf

LEMMA SourceListed ==
    ASSUME job \in Job, NEW n \in job.list
    PROVE  /\ SourceOf(n) \in Path /\ Listed(SourceOf(n))
           /\ Len(SourceOf(n)) = Len(job.from) + 1 /\ SourceOf(n)[Len(job.from) + 1] = n
BY JobFacts, AppendBelow DEF SourceOf, Listed

LEMMA ListedFacts ==
    ASSUME job \in Job, NEW p \in Path, Listed(p)
    PROVE  /\ Len(p) >= Len(job.from) + 1
           /\ p[Len(job.from) + 1] \in job.list
           /\ IsBelow(p, SourceOf(p[Len(job.from) + 1]))
<1> DEFINE n == p[Len(job.from) + 1]
<1>1. n \in job.list /\ Len(p) > Len(job.from) /\ IsBelow(p, job.from)
  BY DEF Listed
<1>2. /\ SourceOf(n) \in Path /\ Len(SourceOf(n)) = Len(job.from) + 1
      /\ SourceOf(n)[Len(job.from) + 1] = n
      /\ \A i \in 1..Len(job.from) : SourceOf(n)[i] = job.from[i]
  BY <1>1, JobFacts, AppendBelow DEF SourceOf
<1>3. Len(p) \in Nat /\ Len(job.from) \in Nat /\ \A i \in 1..Len(job.from) : p[i] = job.from[i]
  BY <1>1, JobFacts, PathFacts, BelowIs
<1>4. Len(SourceOf(n)) <= Len(p) /\ \A i \in 1..Len(SourceOf(n)) : p[i] = SourceOf(n)[i]
  BY <1>1, <1>2, <1>3
<1> QED
  BY <1>1, <1>2, <1>3, <1>4, BelowIs

LEMMA ListedBelow ==
    ASSUME job \in Job, NEW p \in Path, NEW r \in Path, Listed(p), IsBelow(r, p)
    PROVE  Listed(r) /\ r[Len(job.from) + 1] = p[Len(job.from) + 1]
<1>1. /\ Len(p) \in Nat /\ Len(r) \in Nat /\ Len(job.from) \in Nat
      /\ Len(p) > Len(job.from) /\ IsBelow(p, job.from)
      /\ p[Len(job.from) + 1] \in job.list
  BY JobFacts, PathFacts DEF Listed
<1>2. Len(p) <= Len(r) /\ \A i \in 1..Len(p) : r[i] = p[i]
  BY BelowIs
<1>3. IsBelow(r, job.from)
  BY <1>1, JobFacts, BelowTransitive
<1> QED
  BY <1>1, <1>2, <1>3 DEF Listed

\* so many names of a listed path are replaced by those of job.to
Cut == Len(job.from) + (IF IntoDirectory THEN 0 ELSE 1)

LEMMA DestinationIs ==
    ASSUME job \in Job, NEW p \in Path, Listed(p)
    PROVE  /\ Cut \in Nat /\ Cut <= Len(p)
           /\ Destination(p) = job.to \o SubSeq(p, Cut + 1, Len(p))
           /\ Destination(p) \in Path /\ Len(Destination(p)) = Len(job.to) + Len(p) - Cut
           /\ \A i \in 1..Len(job.to) : Destination(p)[i] = job.to[i]
           /\ \A i \in 1 .. Len(p) - Cut : Destination(p)[Len(job.to) + i] = p[Cut + i]
<1>0. Len(job.from) \in Nat /\ Len(p) \in Nat /\ Len(p) >= Len(job.from) + 1
  BY JobFacts, PathFacts, ListedFacts
<1>a. Cut = Len(job.from) \/ Cut = Len(job.from) + 1
  <2>1. CASE IntoDirectory  BY <1>0, <2>1 DEF Cut
  <2>2. CASE ~IntoDirectory  BY <1>0, <2>2 DEF Cut
  <2> QED  BY <2>1, <2>2
<1>1. Cut \in Nat /\ Cut <= Len(p)
  BY <1>0, <1>a
<1>2. Cut + 1 = Len(job.from) + (IF IntoDirectory THEN 1 ELSE 2)
  <2>1. CASE IntoDirectory  BY <1>0, <2>1 DEF Cut
  <2>2. CASE ~IntoDirectory  BY <1>0, <2>2 DEF Cut
  <2> QED  BY <2>1, <2>2
<1>3. Destination(p) = job.to \o SubSeq(p, Cut + 1, Len(p))
  BY <1>2 DEF Destination
<1>4. job.to \in Path
  BY JobFacts
<1> DEFINE t == job.to \o SubSeq(p, Cut + 1, Len(p))
<1>5. /\ t \in Path /\ Len(t) = Len(job.to) + Len(p) - Cut
      /\ \A i \in 1..Len(job.to) : t[i] = job.to[i]
      /\ \A i \in 1 .. Len(p) - Cut : t[Len(job.to) + i] = p[Cut + i]
  BY <1>1, <1>4, RebasedIs
<1>6. Destination(p) = t
  BY <1>3
<1> HIDE DEF t
<1> QED
  BY <1>1, <1>3, <1>5, <1>6

LEMMA DestinationBelow ==
    ASSUME job \in Job, NEW p \in Path, NEW r \in Path, Listed(p), IsBelow(r, p)
    PROVE  /\ Listed(r) /\ Destination(r) = Rebased(r, p, Destination(p))
           /\ IsBelow(Destination(r), Destination(p))
<1>1. Listed(r)
  BY ListedBelow
<1>2. /\ Len(p) \in Nat /\ Len(r) \in Nat /\ Len(job.to) \in Nat
      /\ Len(p) <= Len(r) /\ \A i \in 1..Len(p) : r[i] = p[i]
  BY JobFacts, PathFacts, BelowIs
<1> DEFINE d == Destination(p) e == Destination(r)
<1>3. /\ Cut \in Nat /\ Cut <= Len(p) /\ d \in Path /\ Len(d) = Len(job.to) + Len(p) - Cut
      /\ \A i \in 1..Len(job.to) : d[i] = job.to[i]
      /\ \A i \in 1 .. Len(p) - Cut : d[Len(job.to) + i] = p[Cut + i]
  BY DestinationIs
<1>4. /\ e \in Path /\ Len(e) = Len(job.to) + Len(r) - Cut
      /\ \A i \in 1..Len(job.to) : e[i] = job.to[i]
      /\ \A i \in 1 .. Len(r) - Cut : e[Len(job.to) + i] = r[Cut + i]
  BY <1>1, DestinationIs
<1> HIDE DEF d, e
<1> DEFINE t == Rebased(r, p, d)
<1>5. /\ t \in Path /\ Len(t) = Len(d) + Len(r) - Len(p)
      /\ \A i \in 1..Len(d) : t[i] = d[i]
      /\ \A i \in 1 .. Len(r) - Len(p) : t[Len(d) + i] = r[Len(p) + i]
  BY <1>2, <1>3, RebasedIs DEF Rebased
<1>6. IsBelow(t, d)
  BY <1>3, RebasedFacts
<1> HIDE DEF t
<1>7. Len(e) = Len(t)
  BY <1>2, <1>3, <1>4, <1>5
<1>8. ASSUME NEW i \in 1..Len(e)
      PROVE  e[i] = t[i]
  <2>1. CASE i <= Len(job.to)
    <3>1. i \in 1..Len(d) /\ i \in 1..Len(job.to)
      BY <1>2, <1>3, <2>1
    <3> QED  BY <1>3, <1>4, <1>5, <3>1
  <2>2. CASE i > Len(job.to) /\ i <= Len(d)
    <3> DEFINE j == i - Len(job.to)
    <3>1. j \in 1 .. Len(p) - Cut /\ j \in 1 .. Len(r) - Cut /\ Len(job.to) + j = i
      BY <1>2, <1>3, <2>2
    <3>2. Cut + j \in 1..Len(p) /\ i \in 1..Len(d)
      BY <1>2, <1>3, <2>2
    <3> HIDE DEF j
    <3>3. d[i] = p[Cut + j] /\ e[i] = r[Cut + j]
      BY <1>3, <1>4, <3>1
    <3> QED  BY <1>2, <1>5, <3>2, <3>3
  <2>3. CASE i > Len(d)
    <3> DEFINE j == i - Len(d)
    <3>a. /\ Len(d) \in Int /\ i \in Int /\ Len(e) - Len(d) = Len(r) - Len(p)
          /\ Len(e) \in Int /\ i <= Len(e) /\ i > Len(d)
      BY <1>2, <1>3, <1>4, <2>3
    <3>1. j \in 1 .. Len(r) - Len(p) /\ Len(d) + j = i
      BY <1>2, <3>a
    <3> HIDE DEF j
    <3>b. j \in Int /\ 1 <= j /\ j <= Len(r) - Len(p) /\ Len(p) - Cut >= 0 /\ Len(p) - Cut \in Int
      BY <1>2, <1>3, <3>1
    <3>2. /\ Len(p) - Cut + j \in 1 .. Len(r) - Cut
          /\ Len(job.to) + (Len(p) - Cut + j) = i /\ Cut + (Len(p) - Cut + j) = Len(p) + j
      <4>1. /\ Len(d) \in Int /\ Len(job.to) \in Int /\ Len(p) \in Int /\ Len(r) \in Int
            /\ Cut \in Int /\ Len(d) = Len(job.to) + Len(p) - Cut
        BY <1>2, <1>3
      <4>2. Len(p) - Cut + j >= 1 /\ Len(p) - Cut + j <= Len(r) - Cut
        BY <3>b, <4>1
      <4>3. Len(job.to) + (Len(p) - Cut + j) = i /\ Cut + (Len(p) - Cut + j) = Len(p) + j
        <5>1. i \in Int /\ j \in Int /\ Len(d) + j = i
          BY <3>1, <3>b, <4>1
        <5> DEFINE x == Len(d) y == Len(job.to) z == Len(p)
        <5>2. x \in Int /\ y \in Int /\ z \in Int /\ x = y + z - Cut /\ x + j = i
          BY <4>1, <5>1
        <5> HIDE DEF x, y, z
        <5>3. y + (z - Cut + j) = i /\ Cut + (z - Cut + j) = z + j
          BY <4>1, <5>1, <5>2
        <5> QED  BY <5>3 DEF y, z
      <4>4. Len(p) - Cut + j \in Int
        BY <3>b, <4>1
      <4> QED  BY <4>1, <4>2, <4>3, <4>4
    <3>3. e[Len(job.to) + (Len(p) - Cut + j)] = r[Cut + (Len(p) - Cut + j)]
      BY <1>4, <3>2
    <3>4. t[Len(d) + j] = r[Len(p) + j]
      BY <1>5, <3>1
    <3> QED  BY <3>1, <3>2, <3>3, <3>4
  <2> QED  BY <1>2, <1>3, <1>4, <2>1, <2>2, <2>3
<1>9. e = t
  BY <1>4, <1>5, <1>7, <1>8, SeqEqual DEF Path
<1> QED
  BY <1>1, <1>6, <1>9 DEF d, e, t

LEMMA DestinationAppend ==
    ASSUME job \in Job, NEW p \in Path, NEW n \in Name, Listed(p)
    PROVE  /\ Append(p, n) \in Path /\ Listed(Append(p, n))
           /\ Destination(Append(p, n)) = Append(Destination(p), n)
<1> DEFINE r == Append(p, n) d == Destination(p) t == Rebased(r, p, d) u == Append(d, n)
<1>1. /\ r \in Path /\ IsBelow(r, p) /\ Len(r) = Len(p) + 1 /\ r[Len(p) + 1] = n
  BY AppendBelow
<1>2. Listed(r) /\ Destination(r) = t
  BY <1>1, DestinationBelow
<1>3. d \in Path /\ Len(d) \in Nat /\ Len(p) \in Nat /\ Len(p) <= Len(r)
  BY <1>1, DestinationIs, PathFacts
<1> HIDE DEF r, d
<1>4. /\ u \in Path /\ Len(u) = Len(d) + 1 /\ u[Len(d) + 1] = n
      /\ \A i \in 1..Len(d) : u[i] = d[i]
  BY <1>3, AppendBelow
<1>5. /\ t \in Path /\ Len(t) = Len(d) + Len(r) - Len(p)
      /\ \A i \in 1..Len(d) : t[i] = d[i]
      /\ \A i \in 1 .. Len(r) - Len(p) : t[Len(d) + i] = r[Len(p) + i]
  BY <1>1, <1>3, RebasedIs DEF Rebased
<1> HIDE DEF t, u
<1>6. Len(t) = Len(u) /\ t[Len(d) + 1] = n
  BY <1>1, <1>3, <1>4, <1>5
<1>7. \A i \in 1..Len(t) : t[i] = u[i]
  BY <1>3, <1>4, <1>5, <1>6
<1>8. t = u
  BY <1>4, <1>5, <1>6, <1>7, SeqEqual DEF Path
<1> QED
  BY <1>1, <1>2, <1>8 DEF r, d, u

LEMMA DestinationTop ==
    ASSUME job \in Job, NEW n \in job.list
    PROVE  Destination(SourceOf(n)) = IF IntoDirectory THEN Append(job.to, n) ELSE job.to
<1> DEFINE s == SourceOf(n) d == Destination(s) u == Append(job.to, n)
<1>1. s \in Path /\ Listed(s) /\ Len(s) = Len(job.from) + 1 /\ s[Len(job.from) + 1] = n
  BY SourceListed
<1>2. /\ d \in Path /\ Len(d) = Len(job.to) + Len(s) - Cut
      /\ \A i \in 1..Len(job.to) : d[i] = job.to[i]
      /\ \A i \in 1 .. Len(s) - Cut : d[Len(job.to) + i] = s[Cut + i]
  BY <1>1, DestinationIs
<1> HIDE DEF s, d
<1>3. Len(job.to) \in Nat /\ Len(job.from) \in Nat /\ job.to \in Path /\ n \in Name
  BY JobFacts, PathFacts
<1>4. CASE IntoDirectory
  <2>1. Cut = Len(job.from)
    BY <1>3, <1>4 DEF Cut
  <2>2. /\ u \in Path /\ Len(u) = Len(job.to) + 1 /\ u[Len(job.to) + 1] = n
        /\ \A i \in 1..Len(job.to) : u[i] = job.to[i]
    BY <1>3, AppendBelow
  <2> HIDE DEF u
  <2>3. Len(d) = Len(u) /\ d[Len(job.to) + 1] = n
    BY <1>1, <1>2, <1>3, <2>1, <2>2
  <2>4. \A i \in 1..Len(d) : d[i] = u[i]
    BY <1>2, <1>3, <2>2, <2>3
  <2>5. d = u
    BY <1>2, <2>2, <2>3, <2>4, SeqEqual DEF Path
  <2> QED  BY <1>4, <2>5 DEF d, s, u
<1>5. CASE ~IntoDirectory
  <2>1. Cut = Len(job.from) + 1
    BY <1>3, <1>5 DEF Cut
  <2>2. Len(d) = Len(job.to)
    BY <1>1, <1>2, <1>3, <2>1
  <2>3. d = job.to
    BY <1>2, <1>3, <2>2, SeqEqual DEF Path
  <2> QED  BY <1>5, <2>3 DEF d, s
<1> QED
  BY <1>4, <1>5

\* No two objects have the same destination.
LEMMA DestinationOne ==
    ASSUME job \in Job, Doable, NEW p \in Path, NEW r \in Path, Listed(p), Listed(r),
           Destination(p) = Destination(r)
    PROVE  p = r
<1> DEFINE k == Len(job.from) d == Destination(p)
<1>1. /\ Cut \in Nat /\ Cut <= Len(p) /\ Len(d) = Len(job.to) + Len(p) - Cut
      /\ \A i \in 1 .. Len(p) - Cut : d[Len(job.to) + i] = p[Cut + i]
  BY DestinationIs
<1>2. /\ Cut <= Len(r) /\ Len(d) = Len(job.to) + Len(r) - Cut
      /\ \A i \in 1 .. Len(r) - Cut : d[Len(job.to) + i] = r[Cut + i]
  BY DestinationIs
<1> HIDE DEF d
<1>3. Len(p) \in Nat /\ Len(r) \in Nat /\ Len(job.to) \in Nat /\ k \in Nat
  BY JobFacts, PathFacts
<1>4. Len(p) = Len(r)
  BY <1>1, <1>2, <1>3
<1>5. /\ \A i \in 1..k : p[i] = job.from[i] /\ r[i] = job.from[i]
      /\ p[k + 1] \in job.list /\ r[k + 1] \in job.list
  BY JobFacts, BelowIs DEF Listed
<1>6. ASSUME NEW i \in 1..Len(p)
      PROVE  p[i] = r[i]
  <2>1. CASE i <= k
    BY <1>3, <1>5, <2>1
  <2>2. CASE i > Cut
    <3>1. i - Cut \in 1 .. Len(p) - Cut /\ Cut + (i - Cut) = i
      BY <1>1, <1>3, <2>2
    <3>2. d[Len(job.to) + (i - Cut)] = p[Cut + (i - Cut)]
      BY <1>1, <3>1
    <3>3. d[Len(job.to) + (i - Cut)] = r[Cut + (i - Cut)]
      BY <1>2, <1>4, <3>1
    <3> QED  BY <3>1, <3>2, <3>3
  <2>3. CASE i = k + 1 /\ ~IntoDirectory
    BY <1>5, <2>3 DEF Doable
  <2>4. i <= k \/ i > Cut \/ (i = k + 1 /\ ~IntoDirectory)
    <3>1. CASE IntoDirectory  BY <1>3, <3>1 DEF Cut
    <3>2. CASE ~IntoDirectory
      <4>1. Cut = k + 1  BY <1>3, <3>2 DEF Cut
      <4> QED  BY <1>3, <3>2, <4>1
    <3> QED  BY <3>1, <3>2
  <2> QED  BY <2>1, <2>2, <2>3, <2>4
<1> QED
  BY <1>4, <1>6, SeqEqual DEF Path

\* Nothing at or below a destination is listed.
LEMMA DestinationAway ==
    ASSUME job \in Job, Apart, Doable, job.op # "delete",
           NEW p \in Path, Listed(p),
           NEW r \in Path, IsBelow(r, Destination(p))
    PROVE  ~Listed(r)
<1> DEFINE n == p[Len(job.from) + 1] m == r[Len(job.from) + 1]
<1>1. n \in job.list /\ IsBelow(p, SourceOf(n)) /\ Listed(SourceOf(n)) /\ SourceOf(n) \in Path
  BY ListedFacts, SourceListed
<1>2. /\ Destination(p) = Rebased(p, SourceOf(n), Destination(SourceOf(n)))
      /\ IsBelow(Destination(p), Destination(SourceOf(n)))
      /\ Destination(p) \in Path /\ Destination(SourceOf(n)) \in Path
  BY <1>1, DestinationBelow, DestinationIs
<1>4. SUFFICES ASSUME Listed(r)  PROVE FALSE
  OBVIOUS
<1>5. m \in job.list /\ IsBelow(r, SourceOf(m)) /\ SourceOf(m) \in Path
  BY <1>4, ListedFacts, SourceListed
<1>6. IsBelow(r, Destination(SourceOf(n)))
  BY <1>2, BelowTransitive
<1> HIDE DEF n, m
<1>7. \/ IsBelow(Destination(SourceOf(n)), SourceOf(m))
      \/ IsBelow(SourceOf(m), Destination(SourceOf(n)))
  BY <1>2, <1>5, <1>6, BelowTwo
<1> QED
  BY <1>1, <1>5, <1>7 DEF Apart

-----------------------------------------------------------------------------
(* What every step leaves.                                                 *)

\* Where the thread asks for the state of the target.
Looks == {"link", "file", "mvfile", "mvdir"}

\* The job stays, the user's answers are kept, and so are the flags.
Lasts == /\ job' = job /\ agreed \subseteq agreed' /\ left \subseteq left'
         /\ skipNonRegular => skipNonRegular'
         /\ stopped => stopped'
         /\ unseen \subseteq unseen'
         /\ \A p \in unseen' : p \in unseen \/ (p = cur.dst /\ pc \in Looks)

LEMMA JobStays ==
    ASSUME job' = job
    PROVE  /\ Apart' = Apart /\ Doable' = Doable /\ IntoDirectory' = IntoDirectory
           /\ \A p : Listed(p)' = Listed(p)
           /\ \A p : Destination(p)' = Destination(p)
           /\ \A n : SourceOf(n)' = SourceOf(n)
<1>1. IntoDirectory' = IntoDirectory
  BY DEF IntoDirectory
<1>2. Doable' = Doable
  BY <1>1 DEF Doable, IntoDirectory
<1>3. \A n : SourceOf(n)' = SourceOf(n)
  BY DEF SourceOf
<1>4. \A p : Listed(p)' = Listed(p)
  BY DEF Listed, IsBelow
<1>5. \A p : Destination(p)' = Destination(p)
  BY DEF Destination, IntoDirectory
<1>6. Apart' = Apart
  BY DEF Apart, Destination, IntoDirectory, Doable, SourceOf, IsBelow
<1> QED
  BY <1>1, <1>2, <1>3, <1>4, <1>5, <1>6

LEMMA LostLasts ==
    ASSUME Lasts, NEW p, LostUnasked(p)
    PROVE  LostUnasked(p)'
BY DEF Lasts, LostUnasked, Destination, IntoDirectory

\* The objects that are not listed: what happens to one of them.
LEMMA OthersLast ==
    ASSUME Lasts, OthersKept,
           \A p \in DOMAIN job.disk :
                /\ ~Listed(p) /\ job.disk[p].kind # "dir"
                /\ p \in DOMAIN disk /\ disk[p] = job.disk[p]
                => \/ p \in DOMAIN disk' /\ disk'[p] = disk[p]
                   \/ p \in agreed'
                   \/ LostUnasked(p)'
    PROVE  OthersKept'
<1>1. job' = job /\ \A p : Listed(p)' = Listed(p)
  BY JobStays DEF Lasts
<1>2. SUFFICES ASSUME NEW p \in DOMAIN job.disk, ~Listed(p), job.disk[p].kind # "dir"
               PROVE  \/ p \in DOMAIN disk' /\ disk'[p] = job.disk[p]
                      \/ p \in agreed'
                      \/ LostUnasked(p)'
  BY <1>1 DEF OthersKept
<1>3. CASE p \in DOMAIN disk /\ disk[p] = job.disk[p]
  BY <1>2, <1>3
<1>4. CASE p \in agreed
  BY <1>4 DEF Lasts
<1>5. CASE LostUnasked(p)
  BY <1>5, LostLasts
<1> QED
  BY <1>2, <1>3, <1>4, <1>5 DEF OthersKept

\* And those that are.
LEMMA ListedLast ==
    ASSUME Lasts, ListedKept,
           \A p \in DOMAIN job.disk :
                Listed(p) /\ job.disk[p].kind # "dir" /\ (p \in DOMAIN disk \/ AtDestination(p))
                => \/ p \in DOMAIN disk'
                   \/ AtDestination(p)'
                   \/ job.op = "delete" /\ p \in agreed'
                   \/ LostUnasked(p)'
    PROVE  ListedKept'
<1>1. job' = job /\ \A p : Listed(p)' = Listed(p)
  BY JobStays DEF Lasts
<1>2. SUFFICES ASSUME NEW p \in DOMAIN job.disk, Listed(p), job.disk[p].kind # "dir"
               PROVE  \/ p \in DOMAIN disk'
                      \/ AtDestination(p)'
                      \/ job.op = "delete" /\ p \in agreed'
                      \/ LostUnasked(p)'
  BY <1>1 DEF ListedKept
<1>3. CASE p \in DOMAIN disk \/ AtDestination(p)
  BY <1>2, <1>3
<1>4. CASE job.op = "delete" /\ p \in agreed
  BY <1>4 DEF Lasts
<1>5. CASE LostUnasked(p)
  BY <1>5, LostLasts
<1> QED
  BY <1>2, <1>3, <1>4, <1>5 DEF ListedKept


LEMMA StepLasts ==
    ASSUME [FileNext]_fileVars, skipNonRegular \in BOOLEAN
    PROVE  Lasts
<1> USE DEF Lasts, Looks, flags, ghosts, Keep
<1>1. CASE Begin
  BY <1>1 DEF Begin
<1>15. CASE EndOfList
  BY <1>15 DEF EndOfList
<1>14. CASE NextObject
  BY <1>14 DEF NextObject
<1>2. CASE Unlink
  BY <1>2 DEF Unlink
<1>3. CASE RmDir \/ ReadDir \/ MkDir
  BY <1>3 DEF RmDir, ReadDir, MkDir
<1>4. CASE CopyLink
  BY <1>4 DEF CopyLink, OverlooksItself, Overlooks
<1>16. CASE MakeLink
  BY <1>16 DEF MakeLink
<1>5. CASE CopyFile
  BY <1>5 DEF CopyFile, OverlooksItself, Overlooks
<1>6. CASE OpenSource \/ Overwrite \/ CopyData \/ CloseCopy
  BY <1>6 DEF OpenSource, Overwrite, CopyData, CloseCopy
<1>7. CASE CreateCopy
  BY <1>7 DEF CreateCopy
<1>8. CASE MoveFile
  BY <1>8 DEF MoveFile, Overlooks, Replaces
<1>9. CASE MoveDelete \/ Rename
  BY <1>9 DEF MoveDelete, Rename
<1>10. CASE MoveDir
  BY <1>10 DEF MoveDir, ReplaceFile, Overlooks
<1>17. CASE MergeDir
  BY <1>17 DEF MergeDir
<1>11. CASE DeleteFile
  BY <1>11 DEF DeleteFile
<1>12. CASE StopOperation
  BY <1>12 DEF StopOperation
<1>13. CASE UNCHANGED fileVars
  BY <1>13 DEF fileVars
<1> QED
  BY <1>1, <1>2, <1>3, <1>4, <1>5, <1>6, <1>7, <1>8, <1>9, <1>10, <1>11, <1>12, <1>13, <1>14, <1>15,
     <1>16, <1>17
  DEF FileNext, FileStep, FileDone
-----------------------------------------------------------------------------
(* The stack.                                                              *)

LEMMA StackFacts ==
    ASSUME stack \in Seq(Frames), stack # <<>>
    PROVE  /\ Len(stack) \in Nat /\ Len(stack) >= 1 /\ Top = stack[1] /\ Top \in Frames
           /\ \A i \in 1..Len(stack) : stack[i] \in Frames
           /\ Tail(stack) \in Seq(Frames) /\ Len(Tail(stack)) = Len(stack) - 1
           /\ \A i \in 1 .. Len(stack) - 1 : Tail(stack)[i] = stack[i + 1]
<1>1. Len(stack) \in Nat /\ \A i \in 1..Len(stack) : stack[i] \in Frames
  BY LenProperties, ElementOfSeq
<1>2. Len(stack) \in Nat \ {0}
  BY EmptySeq
<1>3. /\ Tail(stack) \in Seq(Frames) /\ Len(Tail(stack)) = Len(stack) - 1
      /\ \A i \in 1..Len(Tail(stack)) : Tail(stack)[i] = stack[i + 1]
  BY HeadTailProperties
<1>4. Top = stack[1]
  BY DEF Top
<1>5. 1 \in 1..Len(stack)
  BY <1>2
<1> QED
  BY <1>1, <1>2, <1>3, <1>4, <1>5

LEMMA FramesFacts ==
    ASSUME NEW f \in Frames
    PROVE  /\ f.kind \in {"list", "dir", "merge"} /\ f.src \in Path /\ f.dst \in Path
           /\ f.last \in Path /\ f.todo \subseteq Name
BY DEF Frames

LEMMA PushedFacts ==
    ASSUME NEW s \in Seq(Frames), NEW f \in Frames
    PROVE  /\ <<f>> \o s \in Seq(Frames) /\ <<f>> \o s # <<>>
           /\ Len(<<f>> \o s) = Len(s) + 1 /\ (<<f>> \o s)[1] = f
           /\ \A i \in 1..Len(s) : (<<f>> \o s)[i + 1] = s[i]
<1> DEFINE o == <<f>>
<1>1. o \in Seq(Frames) /\ Len(o) = 1 /\ o[1] = f
  OBVIOUS
<1>2. Len(s) \in Nat
  BY LenProperties
<1> HIDE DEF o
<1>3. /\ o \o s \in Seq(Frames) /\ Len(o \o s) = Len(o) + Len(s)
      /\ \A i \in 1 .. Len(o) + Len(s) : (o \o s)[i] = IF i <= Len(o) THEN o[i] ELSE s[i - Len(o)]
  BY <1>1, ConcatProperties
<1>4. Len(o \o s) = Len(s) + 1 /\ (o \o s)[1] = f
  BY <1>1, <1>2, <1>3
<1>5. o \o s # <<>>
  BY <1>2, <1>4, EmptySeq
<1>6. ASSUME NEW i \in 1..Len(s)
      PROVE  (o \o s)[i + 1] = s[i]
  <2>1. i + 1 \in 1 .. Len(o) + Len(s) /\ ~(i + 1 <= Len(o)) /\ i + 1 - Len(o) = i
    BY <1>1, <1>2
  <2> QED  BY <1>3, <2>1
<1> QED
  BY <1>3, <1>4, <1>5, <1>6 DEF o

\* The frame on top of the stack, once its object n at s has been begun.
LEMMA BegunFrame ==
    ASSUME stack \in Seq(Frames), stack # <<>>, NEW n \in Top.todo, NEW s \in Path,
           stack' = <<[Top EXCEPT !.todo = @ \ {n}, !.last = s]>> \o Tail(stack)
    PROVE  /\ stack' \in Seq(Frames) /\ stack' # <<>>
           /\ Len(stack') = Len(stack) /\ 1 \in 1..Len(stack)
           /\ stack'[1].kind = stack[1].kind /\ stack'[1].src = stack[1].src
           /\ stack'[1].dst = stack[1].dst
           /\ stack'[1].todo = stack[1].todo \ {n} /\ Top = stack[1]
           /\ \A i \in 1..Len(stack) : i > 1 => stack'[i] = stack[i]
<1>1. PICK f : f = Top
  OBVIOUS
<1>2. PICK g : g = [f EXCEPT !.todo = @ \ {n}, !.last = s]
  OBVIOUS
<1>3. /\ Len(stack) \in Nat /\ Len(stack) >= 1 /\ f = stack[1] /\ f \in Frames
      /\ Tail(stack) \in Seq(Frames) /\ Len(Tail(stack)) = Len(stack) - 1
      /\ \A i \in 1 .. Len(stack) - 1 : Tail(stack)[i] = stack[i + 1]
  BY <1>1, StackFacts
<1>4. g \in Frames /\ g.kind = f.kind /\ g.src = f.src /\ g.dst = f.dst /\ g.todo = f.todo \ {n}
  BY <1>2, <1>3 DEF Frames
<1>5. stack' = <<g>> \o Tail(stack)
  BY <1>1, <1>2
<1>6. /\ stack' \in Seq(Frames) /\ stack' # <<>>
      /\ Len(stack') = Len(Tail(stack)) + 1 /\ stack'[1] = g
      /\ \A i \in 1..Len(Tail(stack)) : stack'[i + 1] = Tail(stack)[i]
  BY <1>3, <1>4, <1>5, PushedFacts
<1>7. ASSUME NEW i \in 1..Len(stack), i > 1
      PROVE  stack'[i] = stack[i]
  <2>1. i - 1 \in 1..Len(Tail(stack)) /\ i - 1 + 1 = i /\ i - 1 \in 1 .. Len(stack) - 1
    BY <1>3, <1>7
  <2>2. stack'[i - 1 + 1] = Tail(stack)[i - 1] /\ Tail(stack)[i - 1] = stack[i - 1 + 1]
    BY <1>3, <1>6, <2>1
  <2> QED  BY <2>1, <2>2
<1> QED
  BY <1>1, <1>3, <1>4, <1>6, <1>7

\* What is under the frame f is not, and has not below it, what f still has to do.
LEMMA PendingAway ==
    ASSUME NEW f \in Frames, NEW x \in Path, Under(x, f), NEW n \in f.todo
    PROVE  ~IsBelow(Append(f.src, n), x)
<1>1. /\ f.src \in Path /\ n \in Name /\ Len(f.src) \in Nat /\ Len(x) \in Nat
      /\ Append(f.src, n) \in Path /\ Len(Append(f.src, n)) = Len(f.src) + 1
      /\ Append(f.src, n)[Len(f.src) + 1] = n
  BY FramesFacts, PathFacts, AppendBelow
<1>2. SUFFICES ASSUME IsBelow(Append(f.src, n), x)  PROVE FALSE
  OBVIOUS
<1>3. Len(x) <= Len(f.src) + 1 /\ \A i \in 1..Len(x) : Append(f.src, n)[i] = x[i]
  BY <1>1, <1>2, BelowIs
<1>4. Len(x) > Len(f.src) /\ x[Len(f.src) + 1] \notin f.todo
  BY DEF Under
<1>5. Len(f.src) + 1 \in 1..Len(x)
  BY <1>1, <1>4
<1> QED
  BY <1>1, <1>3, <1>4, <1>5

LEMMA UnderBelow ==
    ASSUME NEW f \in Frames, NEW x \in Path, NEW y \in Path, Under(x, f), IsBelow(y, x)
    PROVE  Under(y, f)
<1>1. f.src \in Path /\ Len(f.src) \in Nat /\ Len(x) \in Nat /\ Len(y) \in Nat
  BY FramesFacts, PathFacts
<1>2. Len(x) > Len(f.src) /\ IsBelow(x, f.src) /\ x[Len(f.src) + 1] \notin f.todo
  BY DEF Under
<1>3. Len(x) <= Len(y) /\ \A i \in 1..Len(x) : y[i] = x[i]
  BY BelowIs
<1>4. IsBelow(y, f.src)
  BY <1>1, <1>2, BelowTransitive
<1>5. Len(y) > Len(f.src) /\ y[Len(f.src) + 1] = x[Len(f.src) + 1]
  BY <1>1, <1>2, <1>3
<1> QED
  BY <1>2, <1>4, <1>5 DEF Under


\* The listed objects that are on the disk stay there, but for x and what is below it.
Survive(x) == \A s \in DOMAIN disk : Listed(s) /\ ~IsBelow(s, x) =>
                    s \in DOMAIN disk' /\ disk'[s] = disk[s]
AllSurvive == \A s \in DOMAIN disk : Listed(s) => s \in DOMAIN disk' /\ disk'[s] = disk[s]

LEMMA FrameLasts ==
    ASSUME job' = job, NEW f \in Frames, FrameOk(f),
           AllSurvive \/ \E x \in Path : Under(x, f) /\ Survive(x)
    PROVE  FrameOk(f)'
<1>1. ASSUME NEW n \in f.todo
      PROVE  Append(f.src, n) \in DOMAIN disk'
  <2>1. Append(f.src, n) \in DOMAIN disk /\ Listed(Append(f.src, n))
    BY DEF FrameOk
  <2>2. CASE AllSurvive
    BY <2>1, <2>2 DEF AllSurvive
  <2>3. ASSUME NEW x \in Path, Under(x, f), Survive(x)
        PROVE  Append(f.src, n) \in DOMAIN disk'
    BY <2>1, <2>3, PendingAway DEF Survive
  <2> QED  BY <2>2, <2>3
<1>2. /\ \A p : Listed(p)' = Listed(p)
      /\ \A p : Destination(p)' = Destination(p)
  BY JobStays
<1> QED
  BY <1>1, <1>2 DEF FrameOk

LEMMA StackSame ==
    ASSUME FileTypes, StackOk, job' = job, stack' = stack,
           pc' = "rmdir" => Top.kind # "list" /\ Top.todo = {},
           \/ AllSurvive
           \/ \E x \in Path : Survive(x) /\ \A i \in 1..Len(stack) : Under(x, stack[i])
    PROVE  StackOk'
<1>1. ASSUME NEW f \in Frames, FrameOk(f), \E i \in 1..Len(stack) : f = stack[i]
      PROVE  FrameOk(f)'
  BY <1>1, FrameLasts
<1>2. \A i \in 1..Len(stack) : stack[i] \in Frames /\ FrameOk(stack[i])
  BY StackFacts DEF FileTypes, StackOk
<1>3. ASSUME NEW i \in 1..Len(stack')
      PROVE  FrameOk(stack[i])'
  <2>1. PICK f \in Frames : f = stack[i]
    BY <1>2
  <2>2. FrameOk(f)'
    BY <1>1, <1>2, <2>1
  <2>3. f = stack'[i]
    BY <2>1
  <2> QED  BY <2>2, <2>3 DEF FrameOk
<1>4. Top' = Top
  BY DEF Top
<1> QED
  BY <1>3, <1>4 DEF StackOk

LEMMA StackPopped ==
    ASSUME FileTypes, StackOk, job' = job, stack' = Tail(stack), Top.kind # "list",
           pc' # "rmdir",
           \/ AllSurvive
           \/ \E x \in Path : Survive(x) /\ \A i \in 1..Len(stack) : i > 1 => Under(x, stack[i])
    PROVE  StackOk' /\ stack' \in Seq(Frames) /\ stack' # <<>>
<1>1. /\ Len(stack) \in Nat /\ Len(stack) >= 1 /\ Top = stack[1]
      /\ \A i \in 1..Len(stack) : stack[i] \in Frames /\ FrameOk(stack[i])
      /\ stack' \in Seq(Frames) /\ Len(stack') = Len(stack) - 1
      /\ \A i \in 1 .. Len(stack') : stack'[i] = stack[i + 1]
  BY StackFacts DEF FileTypes, StackOk
<1>2. Len(stack) > 1
  <2>1. 1 \in 1..Len(stack) /\ stack[1].kind # "list"
    BY <1>1
  <2>2. 1 # Len(stack)
    BY <2>1 DEF StackOk
  <2> QED  BY <1>1, <2>2
<1>3. stack' # <<>>
  <2>1. Len(<<>>) = 0
    OBVIOUS
  <2>2. Len(stack') # 0
    BY <1>1, <1>2
  <2> QED  BY <2>1, <2>2
<1>4. ASSUME NEW i \in 1..Len(stack')
      PROVE  FrameOk(stack[i])' /\ (stack'[i].kind = "list" <=> i = Len(stack'))
  <2>1. i + 1 \in 1..Len(stack) /\ i + 1 > 1 /\ (i + 1 = Len(stack) <=> i = Len(stack'))
    BY <1>1
  <2>2. PICK f \in Frames : f = stack[i + 1]
    BY <1>1, <2>1
  <2>3. FrameOk(f) /\ f = stack'[i]
    BY <1>1, <2>1, <2>2
  <2>4. AllSurvive \/ \E x \in Path : Under(x, f) /\ Survive(x)
    BY <2>1, <2>2
  <2>5. FrameOk(f)'
    BY <2>3, <2>4, FrameLasts
  <2>6. FrameOk(stack[i])'
    BY <2>3, <2>5 DEF FrameOk
  <2> QED  BY <2>1, <2>2, <2>3, <2>6 DEF StackOk
<1>5. ASSUME NEW i \in 1..Len(stack'), NEW j \in 1..Len(stack'), i < j
      PROVE  Under(stack'[i].src, stack'[j]) /\ Under(stack'[i].last, stack'[j])
  <2>1. i + 1 \in 1..Len(stack) /\ j + 1 \in 1..Len(stack) /\ i + 1 < j + 1
    BY <1>1, <1>5
  <2> QED  BY <1>1, <2>1 DEF StackOk
<1> QED
  BY <1>1, <1>3, <1>4, <1>5 DEF StackOk

LEMMA StackPushed ==
    ASSUME FileTypes, StackOk, CurOk, AtObject, job' = job, AllSurvive, pc' # "rmdir",
           NEW kind \in {"dir", "merge"}, kind = "merge" => job.op = "move",
           NEW names, \A n \in names : n \in Name /\ Append(cur.src, n) \in DOMAIN disk,
           stack' = <<ListFrame(kind, cur.src, cur.dst, names)>> \o stack
    PROVE  StackOk' /\ stack' \in Seq(Frames) /\ stack' # <<>> /\ Len(stack') > 1
<1> DEFINE g == ListFrame(kind, cur.src, cur.dst, names)
<1>a. g \in Frames
  <2>1. g = [kind |-> kind, src |-> cur.src, dst |-> cur.dst, todo |-> names, last |-> cur.src]
    BY DEF ListFrame
  <2>2. cur.src \in Path /\ cur.dst \in Path /\ names \in SUBSET Name
    BY DEF FileTypes
  <2> HIDE DEF g
  <2> QED  BY <2>1, <2>2 DEF Frames
<1>b. PICK f \in Frames : f = g
  BY <1>a
<1>1. /\ f.kind = kind /\ f.src = cur.src /\ f.dst = cur.dst /\ f.todo = names /\ f.last = cur.src
  BY <1>b DEF ListFrame
<1>2. stack' = <<f>> \o stack
  BY <1>b
<1> HIDE DEF g
<1>3. /\ Len(stack) \in Nat /\ Len(stack) >= 1
      /\ \A i \in 1..Len(stack) : stack[i] \in Frames /\ FrameOk(stack[i])
  BY StackFacts DEF FileTypes, StackOk
<1>4. /\ stack' \in Seq(Frames) /\ stack' # <<>> /\ Len(stack') = Len(stack) + 1 /\ stack'[1] = f
      /\ \A i \in 1..Len(stack) : stack'[i + 1] = stack[i]
  BY <1>1, <1>2, PushedFacts DEF FileTypes
<1>5. /\ cur.src \in Path /\ Listed(cur.src) /\ \A i \in 1..Len(stack) : Under(cur.src, stack[i])
      /\ job.op # "delete" => cur.dst = Destination(cur.src)
      /\ job \in Job
  BY DEF CurOk, FileTypes
<1>6. \A p : Listed(p)' = Listed(p) /\ Destination(p)' = Destination(p)
  BY JobStays
<1>7. FrameOk(f)'
  <2>1. ASSUME NEW n \in names
        PROVE  Listed(Append(cur.src, n)) /\ Append(cur.src, n) \in DOMAIN disk'
    <3>1. Listed(Append(cur.src, n))
      BY <1>5, <2>1, DestinationAppend
    <3> QED  BY <3>1, <2>1 DEF AllSurvive
  <2>2. /\ \A n \in f.todo : Listed(Append(f.src, n)) /\ Append(f.src, n) \in DOMAIN disk'
        /\ Listed(f.src) /\ Listed(f.last) /\ f.kind # "list"
        /\ job.op # "delete" => f.dst = Destination(f.src)
        /\ f.kind = "merge" => job.op = "move"
    BY <1>1, <1>5, <2>1
  <2> QED  BY <1>6, <2>2 DEF FrameOk
<1>8. ASSUME NEW i \in 1..Len(stack')
      PROVE  FrameOk(stack[i])' /\ (stack'[i].kind = "list" <=> i = Len(stack'))
  <2>1. CASE i = 1
    <3>1. stack'[i] = f
      BY <1>4, <2>1
    <3>2. FrameOk(stack[i])'
      BY <1>7, <3>1 DEF FrameOk
    <3> QED  BY <1>1, <1>3, <1>4, <2>1, <3>1, <3>2
  <2>2. CASE i > 1
    <3>1. i - 1 \in 1..Len(stack) /\ i - 1 + 1 = i /\ (i - 1 = Len(stack) <=> i = Len(stack'))
      BY <1>3, <1>4, <2>2
    <3>2. PICK h \in Frames : h = stack[i - 1]
      BY <1>3, <3>1
    <3>3. FrameOk(h) /\ h = stack'[i]
      <4>1. stack'[i - 1 + 1] = stack[i - 1]
        BY <1>4, <3>1
      <4> QED  BY <1>3, <3>1, <3>2, <4>1
    <3>4. FrameOk(h)'
      BY <3>3, FrameLasts
    <3>5. FrameOk(stack[i])'
      BY <3>3, <3>4 DEF FrameOk
    <3> QED  BY <3>1, <3>2, <3>3, <3>5 DEF StackOk
  <2> QED  BY <2>1, <2>2
<1>9. ASSUME NEW i \in 1..Len(stack'), NEW j \in 1..Len(stack'), i < j
      PROVE  Under(stack'[i].src, stack'[j]) /\ Under(stack'[i].last, stack'[j])
  <2>1. j - 1 \in 1..Len(stack) /\ stack'[j] = stack[j - 1]
    <3>1. j - 1 \in 1..Len(stack) /\ j - 1 + 1 = j
      BY <1>3, <1>4, <1>9
    <3>2. stack'[j - 1 + 1] = stack[j - 1]
      BY <1>4, <3>1
    <3> QED  BY <3>1, <3>2
  <2>2. CASE i = 1
    BY <1>1, <1>4, <1>5, <2>1, <2>2
  <2>3. CASE i > 1
    <3>1. i - 1 \in 1..Len(stack) /\ i - 1 + 1 = i /\ i - 1 < j - 1
      BY <1>3, <1>4, <1>9, <2>3
    <3>2. stack'[i - 1 + 1] = stack[i - 1]
      BY <1>4, <3>1
    <3> QED  BY <2>1, <3>1, <3>2 DEF StackOk
  <2> QED  BY <2>2, <2>3
<1>10. Len(stack') > 1
  BY <1>3, <1>4
<1> QED
  BY <1>4, <1>8, <1>9, <1>10 DEF StackOk

-----------------------------------------------------------------------------
(* What is done to the disk.                                               *)

LEMMA PutFacts ==
    ASSUME NEW p, NEW o, disk' = WithObject(p, o)
    PROVE  /\ DOMAIN disk' = DOMAIN disk \cup {p} /\ disk'[p] = o
           /\ \A r \in DOMAIN disk : r # p => disk'[r] = disk[r]
BY DEF WithObject

LEMMA TakenFacts ==
    ASSUME NEW p, disk' = WithoutObject(p)
    PROVE  /\ DOMAIN disk' = DOMAIN disk \ {p}
           /\ \A r \in DOMAIN disk' : disk'[r] = disk[r]
BY DEF WithoutObject

LEMMA RenamedFacts ==
    ASSUME NEW p \in Path, NEW q \in Path, p # q, CanRename(p, q), disk' = WithRenamed(p, q),
           \A r \in DOMAIN disk : r \in Path
    PROVE  /\ \A r \in DOMAIN disk : ~IsBelow(r, p) /\ r # q =>
                    r \in DOMAIN disk' /\ disk'[r] = disk[r]
           /\ \A r \in DOMAIN disk : IsBelow(r, p) =>
                    Rebased(r, p, q) \in DOMAIN disk' /\ disk'[Rebased(r, p, q)] = disk[r]
           /\ \A r \in DOMAIN disk' :
                \/ r \in DOMAIN disk /\ ~IsBelow(r, p) /\ r # q /\ disk'[r] = disk[r]
                \/ \E s \in DOMAIN disk :
                        IsBelow(s, p) /\ r = Rebased(s, p, q) /\ disk'[r] = disk[s]
<1> DEFINE moved == {r \in DOMAIN disk : IsBelow(r, p)}
           dom == (DOMAIN disk \ moved) \cup {Rebased(s, p, q) : s \in moved}
<1>1. disk' = [r \in dom |-> IF IsBelow(r, q) THEN disk[Rebased(r, q, p)] ELSE disk[r]]
  BY DEF WithRenamed, Rebased
<1>2. DOMAIN disk' = dom
  BY <1>1
<1>3. \A r \in DOMAIN disk : IsBelow(r, q) => r = q
  BY DEF CanRename
<1>4. ASSUME NEW r \in DOMAIN disk, ~IsBelow(r, p), r # q
      PROVE  r \in DOMAIN disk' /\ disk'[r] = disk[r]
  BY <1>1, <1>2, <1>3, <1>4
<1>5. ASSUME NEW s \in DOMAIN disk, IsBelow(s, p)
      PROVE  Rebased(s, p, q) \in DOMAIN disk' /\ disk'[Rebased(s, p, q)] = disk[s]
  <2>1. IsBelow(Rebased(s, p, q), q) /\ Rebased(Rebased(s, p, q), q, p) = s
    BY <1>5, RebasedFacts
  <2>2. Rebased(s, p, q) \in dom
    BY <1>5
  <2> QED  BY <1>1, <1>2, <2>1, <2>2
<1>7. p \in DOMAIN disk /\ IsBelow(p, p) /\ Rebased(p, p, q) = q
  <2>1. p \in DOMAIN disk /\ IsBelow(p, p)
    BY BelowSelf DEF CanRename, Exists
  <2>2. Rebased(p, p, q) = q
    <3> DEFINE t == Rebased(p, p, q)
    <3>1. t \in Path /\ IsBelow(t, q) /\ Len(t) = Len(q) + Len(p) - Len(p)
      BY <2>1, RebasedFacts
    <3>2. Len(p) \in Nat /\ Len(q) \in Nat
      BY PathFacts
    <3> HIDE DEF t
    <3>3. Len(t) <= Len(q)
      BY <3>1, <3>2
    <3> QED  BY <3>1, <3>3, BelowEqual DEF t
  <2> QED  BY <2>1, <2>2
<1>6. ASSUME NEW r \in DOMAIN disk'
      PROVE  \/ r \in DOMAIN disk /\ ~IsBelow(r, p) /\ r # q /\ disk'[r] = disk[r]
             \/ \E s \in DOMAIN disk :
                    IsBelow(s, p) /\ r = Rebased(s, p, q) /\ disk'[r] = disk[s]
  <2>1. CASE r \in DOMAIN disk \ moved /\ r # q
    BY <1>4, <2>1
  <2>3. CASE r = q
    BY <1>5, <1>7, <2>3
  <2>2. CASE \E s \in moved : r = Rebased(s, p, q)
    BY <1>5, <2>2
  <2> QED  BY <1>2, <2>1, <2>2, <2>3
<1> QED
  BY <1>4, <1>5, <1>6

LEMMA DstAway ==
    ASSUME Apart, Control, AtObject, job.op # "delete"
    PROVE  /\ Doable /\ Listed(cur.src) /\ cur.src \in DOMAIN disk
           /\ cur.dst = Destination(cur.src) /\ cur.src # cur.dst
           /\ \A r \in Path : IsBelow(r, cur.dst) => ~Listed(r)
           /\ ~Listed(cur.dst)
           /\ \A p \in Path : Listed(p) /\ Destination(p) = cur.dst => p = cur.src
<1>1. /\ job \in Job /\ Doable /\ cur.src \in Path /\ cur.dst \in Path
      /\ Listed(cur.src) /\ cur.src \in DOMAIN disk /\ cur.dst = Destination(cur.src)
  BY DEF Control, Routines, CurOk, AtObject, FileTypes
<1>2. \A r \in Path : IsBelow(r, cur.dst) => ~Listed(r)
  BY <1>1, DestinationAway
<1>3. ~Listed(cur.dst)
  BY <1>1, <1>2, BelowSelf
<1>4. \A p \in Path : Listed(p) /\ Destination(p) = cur.dst => p = cur.src
  BY <1>1, DestinationOne
<1> QED
  BY <1>1, <1>2, <1>3, <1>4

LEMMA NotSelf ==
    ASSUME FileInv, AtObject, job.op # "delete"
    PROVE  cur.src # cur.dst
BY DstAway DEF FileInv

\* A file that is being written is none of those there were.
LEMMA HalfIsNew ==
    ASSUME job \in Job, NEW p \in DOMAIN job.disk
    PROVE  job.disk[p] # [kind |-> "file", data |-> Partial]
BY JobFacts

-----------------------------------------------------------------------------
(* The objects, by what a step does to the disk.                           *)

LEMMA DataSame ==
    ASSUME Lasts, Data, disk' = disk,
           HalfFile => (HalfFile' /\ cur'.dst = cur.dst) \/ cur.dst \in left'
    PROVE  Data'
<1>1. job' = job /\ \A p : Listed(p)' = Listed(p) /\ Destination(p)' = Destination(p)
  BY JobStays DEF Lasts
<1>2. Doable' = Doable
  BY JobStays DEF Lasts
<1>3. \A p : AtDestination(p)' = AtDestination(p)
  BY <1>1, <1>2 DEF AtDestination
<1>4. SourcesKept'
  BY <1>1 DEF SourcesKept, Data
<1>5. OthersKept'
  BY OthersLast DEF Data
<1>6. ListedKept'
  BY <1>3, ListedLast DEF Data
<1>7. HalfKept'
  BY DEF HalfKept, Data, Lasts
<1> QED
  BY <1>4, <1>5, <1>6, <1>7 DEF Data


LEMMA DataTakenDir ==
    ASSUME job \in Job, Lasts, Data, ~HalfFile,
           NEW x \in DOMAIN disk, disk[x].kind = "dir", disk' = WithoutObject(x)
    PROVE  Data'
<1>1. /\ job' = job /\ Doable' = Doable
      /\ \A p : Listed(p)' = Listed(p) /\ Destination(p)' = Destination(p)
  BY JobStays DEF Lasts
<1>2. DOMAIN disk' = DOMAIN disk \ {x} /\ \A r \in DOMAIN disk' : disk'[r] = disk[r]
  BY TakenFacts
<1>3. SourcesKept'
  BY <1>1, <1>2 DEF SourcesKept, Data
<1>4. OthersKept'
  BY <1>2, OthersLast DEF Data
<1>5. ListedKept'
  <2>1. ASSUME NEW p \in DOMAIN job.disk, Listed(p), job.disk[p].kind # "dir", p \in DOMAIN disk
        PROVE  p \in DOMAIN disk'
    BY <1>2, <2>1 DEF SourcesKept, Data
  <2>2. ASSUME NEW p \in DOMAIN job.disk, job.disk[p].kind # "dir", AtDestination(p)
        PROVE  AtDestination(p)'
    BY <1>1, <1>2, <2>2 DEF AtDestination
  <2> QED  BY <2>1, <2>2, ListedLast DEF Data
<1>6. HalfKept'
  BY <1>2 DEF HalfKept, Data, Lasts
<1> QED
  BY <1>3, <1>4, <1>5, <1>6 DEF Data

LEMMA DataTakenSource ==
    ASSUME Apart, Control, Data, Lasts, pc = "unlink", after = "next",
           disk' = WithoutObject(cur.src)
    PROVE  Data'
<1>1. /\ job' = job /\ Doable' = Doable
      /\ \A p : Listed(p)' = Listed(p) /\ Destination(p)' = Destination(p)
  BY JobStays DEF Lasts
<1>2. /\ DOMAIN disk' = DOMAIN disk \ {cur.src} /\ \A r \in DOMAIN disk' : disk'[r] = disk[r]
  BY TakenFacts
<1>3. /\ job \in Job /\ cur.src \in Path /\ Listed(cur.src) /\ AtObject
      /\ cur.src \in DOMAIN disk /\ cur.kind = disk[cur.src].kind
      /\ \A p \in DOMAIN job.disk : p \in Path
      /\ job.op \in {"copy", "move", "delete"}
  BY JobFacts DEF Control, FileTypes, CurOk, AtObject
<1>4. cur.src \in DOMAIN job.disk /\ disk[cur.src] = job.disk[cur.src]
  BY <1>3 DEF Data, SourcesKept
<1>5. SourcesKept'
  BY <1>1, <1>2 DEF SourcesKept, Data
<1>6. OthersKept'
  BY <1>2, <1>3, OthersLast DEF Data
<1>7. CASE job.op = "delete"
  <2>1. cur.src \in agreed'
    BY <1>7 DEF Control, VictimOk, Lasts
  <2>2. \A p : ~AtDestination(p)
    BY <1>7 DEF AtDestination
  <2>3. ListedKept'
    BY <1>2, <1>7, <2>1, <2>2, ListedLast DEF Data
  <2>4. HalfKept'
    BY <1>2 DEF HalfKept, Data, Lasts, HalfFile
  <2> QED  BY <1>5, <1>6, <2>3, <2>4 DEF Data
<1>8. CASE job.op # "delete"
  <2>2. Doable /\ cur.dst = Destination(cur.src) /\ cur.src # cur.dst
    BY <1>3, <1>8, DstAway
  <2>1. cur.src # cur.dst
    BY <2>2
  <2>3. ASSUME NEW p \in DOMAIN job.disk, Listed(p), AtDestination(p), p # cur.src
        PROVE  AtDestination(p)'
    <3>1. Destination(p) # cur.src
      BY <1>3, <1>8, <2>2, <2>3, DestinationAway, BelowSelf
    <3> QED  BY <1>1, <1>2, <2>3, <3>1 DEF AtDestination
  <2>a. PICK s : s = cur.src
    OBVIOUS
  <2>4. AtDestination(s)' \/ LostUnasked(s)'
    <3>2. CASE cur.dst \in DOMAIN disk /\ disk[cur.dst] = disk[cur.src]
      <4>1. Destination(s) \in DOMAIN disk' /\ disk'[Destination(s)] = job.disk[s]
        BY <1>2, <1>4, <2>1, <2>2, <2>a, <3>2
      <4> QED  BY <1>1, <1>8, <2>2, <4>1 DEF AtDestination
    <3>3. CASE skipNonRegular /\ cur.kind \in {"link", "special"}
      <4>1. job.op = "move"
        BY <1>8 DEF Control, VictimOk
      <4>2. LostUnasked(s)
        BY <1>3, <1>4, <2>a, <3>3, <4>1 DEF LostUnasked
      <4> QED  BY <4>2, LostLasts
    <3> QED  BY <1>8, <3>2, <3>3 DEF Control, VictimOk
  <2>5. ListedKept'
    BY <1>2, <1>3, <2>3, <2>a, <2>4, ListedLast DEF Data
  <2>6. HalfKept'
    BY <1>2 DEF HalfKept, Data, Lasts, HalfFile
  <2> QED  BY <1>5, <1>6, <2>5, <2>6 DEF Data
<1> QED
  BY <1>7, <1>8


\* What is at the destination may go, or is nothing that was there before.
Replaceable == cur.dst \in agreed' \/ (\E p : p = cur.dst /\ LostUnasked(p)')
                    \/ cur.dst \notin DOMAIN disk
                    \/ disk[cur.dst] = [kind |-> "file", data |-> Partial]

\* Nothing but what is at the destination has changed.
OnlyDst == /\ \A r \in DOMAIN disk : r # cur.dst => r \in DOMAIN disk' /\ disk'[r] = disk[r]
           /\ \A r \in DOMAIN disk' : r # cur.dst => r \in DOMAIN disk

LEMMA DataDst ==
    ASSUME Apart, Control, Data, Lasts, AtObject, job.op # "delete",
           OnlyDst, Replaceable,
           LET o == disk'[cur.dst]
           IN  cur.dst \in DOMAIN disk' /\ o.kind = "file" /\ o.data = Partial
                    => HalfFile' /\ cur'.dst = cur.dst
    PROVE  Data' /\ AllSurvive
<1>1. /\ job' = job /\ Doable' = Doable
      /\ \A p : Listed(p)' = Listed(p) /\ Destination(p)' = Destination(p)
  BY JobStays DEF Lasts
<1>2. /\ job \in Job /\ \A p \in DOMAIN job.disk : p \in Path
      /\ \A p \in DOMAIN disk : p \in Path
  BY JobFacts DEF Control, FileTypes
<1>3. /\ Doable /\ cur.src \in DOMAIN disk /\ ~Listed(cur.dst)
      /\ \A p \in Path : Listed(p) /\ Destination(p) = cur.dst => p = cur.src
  BY DstAway
<1>4. AllSurvive
  BY <1>3 DEF AllSurvive, OnlyDst
<1>5. SourcesKept'
  BY <1>1, <1>3 DEF SourcesKept, Data, OnlyDst
<1>6. OthersKept'
  <2>1. ASSUME NEW p \in DOMAIN job.disk, p \in DOMAIN disk, disk[p] = job.disk[p]
        PROVE  \/ p \in DOMAIN disk' /\ disk'[p] = disk[p]
               \/ p \in agreed'
               \/ LostUnasked(p)'
    <3>1. CASE p # cur.dst
      BY <2>1, <3>1 DEF OnlyDst
    <3>2. CASE p = cur.dst
      BY <1>2, <2>1, <3>2, HalfIsNew DEF Replaceable
    <3> QED  BY <3>1, <3>2
  <2> QED  BY <2>1, OthersLast DEF Data
<1>7. ListedKept'
  <2>1. ASSUME NEW p \in DOMAIN job.disk, Listed(p), p \in DOMAIN disk
        PROVE  p \in DOMAIN disk'
    BY <1>3, <2>1 DEF OnlyDst
  <2>2. ASSUME NEW p \in DOMAIN job.disk, Listed(p), AtDestination(p), p \notin DOMAIN disk
        PROVE  AtDestination(p)'
    <3>1. Destination(p) # cur.dst
      BY <1>2, <1>3, <2>2
    <3> QED  BY <1>1, <2>2, <3>1 DEF AtDestination, OnlyDst
  <2> QED  BY <2>1, <2>2, ListedLast DEF Data
<1>8. HalfKept'
  <2>1. ASSUME NEW r \in DOMAIN disk', disk'[r].kind = "file", disk'[r].data = Partial
        PROVE  (r = cur'.dst /\ HalfFile') \/ r \in left'
    <3>1. CASE r = cur.dst
      BY <2>1, <3>1
    <3>2. CASE r # cur.dst
      BY <2>1, <3>2 DEF OnlyDst, HalfKept, Data, Lasts
    <3> QED  BY <3>1, <3>2
  <2> QED  BY <2>1 DEF HalfKept
<1> QED
  BY <1>4, <1>5, <1>6, <1>7, <1>8 DEF Data

LEMMA DataRenamed ==
    ASSUME Apart, Control, Data, Lasts, pc = "rename",
           CanRename(cur.src, cur.dst), disk' = WithRenamed(cur.src, cur.dst)
    PROVE  Data' /\ Survive(cur.src)
<1>1. /\ job' = job /\ Doable' = Doable
      /\ \A p : Listed(p)' = Listed(p) /\ Destination(p)' = Destination(p)
  BY JobStays DEF Lasts
<1>2. /\ job \in Job /\ \A p \in DOMAIN job.disk : p \in Path
      /\ \A p \in DOMAIN disk : p \in Path
      /\ cur.src \in Path /\ cur.dst \in Path
  BY JobFacts DEF Control, FileTypes
<1>3. job.op # "delete" /\ AtObject /\ ~HalfFile
  BY DEF Control, Routines, AtObject, HalfFile
<1>4. /\ Doable /\ Listed(cur.src) /\ cur.src \in DOMAIN disk
      /\ cur.dst = Destination(cur.src) /\ cur.src # cur.dst /\ ~Listed(cur.dst)
      /\ \A r \in Path : IsBelow(r, cur.dst) => ~Listed(r)
      /\ \A p \in Path : Listed(p) /\ Destination(p) = cur.dst => p = cur.src
  BY <1>3, DstAway
<1>5. /\ \A r \in DOMAIN disk : ~IsBelow(r, cur.src) /\ r # cur.dst =>
              r \in DOMAIN disk' /\ disk'[r] = disk[r]
      /\ \A r \in DOMAIN disk : IsBelow(r, cur.src) =>
              /\ Rebased(r, cur.src, cur.dst) \in DOMAIN disk'
              /\ disk'[Rebased(r, cur.src, cur.dst)] = disk[r]
      /\ \A r \in DOMAIN disk' :
            \/ r \in DOMAIN disk /\ ~IsBelow(r, cur.src) /\ disk'[r] = disk[r]
            \/ \E s \in DOMAIN disk : /\ IsBelow(s, cur.src)
                                      /\ r = Rebased(s, cur.src, cur.dst) /\ disk'[r] = disk[s]
  BY <1>2, <1>4, RenamedFacts
<1>6. Survive(cur.src)
  BY <1>4, <1>5 DEF Survive
<1>7. \A r \in Path : IsBelow(r, cur.src) => Listed(r)
  BY <1>2, <1>4, ListedBelow
<1>8. \A r \in DOMAIN disk : IsBelow(r, cur.src) => Rebased(r, cur.src, cur.dst) = Destination(r)
  BY <1>2, <1>4, DestinationBelow
<1>9. SourcesKept'
  <2>1. ASSUME NEW r \in DOMAIN disk', Listed(r)
        PROVE  r \in DOMAIN job.disk /\ disk'[r] = job.disk[r]
    <3>1. ASSUME NEW s \in DOMAIN disk, IsBelow(s, cur.src), r = Rebased(s, cur.src, cur.dst)
          PROVE  FALSE
      <4>1. r \in Path /\ IsBelow(r, cur.dst)
        BY <1>2, <3>1, RebasedFacts
      <4> QED  BY <1>4, <2>1, <4>1
    <3> QED  BY <1>5, <2>1, <3>1 DEF Data, SourcesKept
  <2> QED  BY <1>1, <2>1 DEF SourcesKept
<1>10. OthersKept'
  <2>1. ASSUME NEW p \in DOMAIN job.disk, ~Listed(p), p \in DOMAIN disk
        PROVE  \/ p \in DOMAIN disk' /\ disk'[p] = disk[p]
               \/ p \in agreed'
               \/ LostUnasked(p)'
    <3>1. CASE p # cur.dst
      BY <1>2, <1>5, <1>7, <2>1, <3>1
    <3>2. CASE p = cur.dst
      <4>1. p \in agreed \/ p \in unseen
        BY <2>1, <3>2 DEF Control, DstOk
      <4>2. p \in unseen => LostUnasked(p)
        BY DEF LostUnasked
      <4> QED  BY <4>1, <4>2, LostLasts DEF Lasts
    <3> QED  BY <3>1, <3>2
  <2> QED  BY <2>1, OthersLast DEF Data
<1>11. ListedKept'
  <2>1. ASSUME NEW p \in DOMAIN job.disk, Listed(p), p \in DOMAIN disk
        PROVE  p \in DOMAIN disk' \/ AtDestination(p)'
    <3>1. CASE ~IsBelow(p, cur.src)
      BY <1>4, <1>5, <2>1, <3>1
    <3>2. CASE IsBelow(p, cur.src)
      <4>1. disk[p] = job.disk[p]
        BY <2>1 DEF Data, SourcesKept
      <4>2. Destination(p) \in DOMAIN disk' /\ disk'[Destination(p)] = job.disk[p]
        BY <1>5, <1>8, <2>1, <3>2, <4>1
      <4> QED  BY <1>1, <1>3, <1>4, <4>2 DEF AtDestination
    <3> QED  BY <3>1, <3>2
  <2>2. ASSUME NEW p \in DOMAIN job.disk, Listed(p), AtDestination(p), p \notin DOMAIN disk
        PROVE  AtDestination(p)'
    <3>1. Destination(p) # cur.dst /\ Destination(p) \in Path
      BY <1>2, <1>4, <2>2 DEF AtDestination
    <3>2. ~Listed(Destination(p))
      BY <1>2, <1>3, <1>4, <2>2, <3>1, DestinationAway, BelowSelf
    <3>3. ~IsBelow(Destination(p), cur.src)
      BY <1>7, <3>1, <3>2
    <3> QED  BY <1>1, <1>5, <2>2, <3>1, <3>3 DEF AtDestination
  <2> QED  BY <2>1, <2>2, ListedLast DEF Data
<1>12. HalfKept'
  <2>1. ASSUME NEW r \in DOMAIN disk', disk'[r].kind = "file", disk'[r].data = Partial
        PROVE  r \in left'
    <3>1. ASSUME NEW s \in DOMAIN disk, IsBelow(s, cur.src), disk'[r] = disk[s]
          PROVE  FALSE
      <4>1. s \in DOMAIN job.disk /\ disk[s] = job.disk[s]
        BY <1>2, <1>7, <3>1 DEF Data, SourcesKept
      <4> QED  BY <1>2, <2>1, <3>1, <4>1, JobFacts
    <3> QED  BY <1>3, <1>5, <2>1, <3>1 DEF Data, HalfKept, Lasts
  <2> QED  BY <2>1 DEF HalfKept
<1> QED
  BY <1>6, <1>9, <1>10, <1>11, <1>12 DEF Data

-----------------------------------------------------------------------------
(* Steps that work on an object, by what they do to the disk.              *)

LEMMA ObjectStays ==
    ASSUME Control, AtObject, job' = job, UNCHANGED <<cur, stack>>, AllSurvive,
           pc' \notin {"begin", "rmdir"}
    PROVE  StackOk' /\ CurOk' /\ Beginning'
<1>1. StackOk'
  BY StackSame DEF Control
<1>2. \A p : Listed(p)' = Listed(p) /\ Destination(p)' = Destination(p)
  BY JobStays
<1>3. /\ Listed(cur.src) /\ cur.src \in DOMAIN disk /\ cur.kind = disk[cur.src].kind
      /\ \A i \in 1..Len(stack) : Under(cur.src, stack[i])
      /\ job.op # "delete" => cur.dst = Destination(cur.src)
  BY DEF Control, CurOk
<1>4. CurOk'
  <2>1. PICK s, d : s = cur.src /\ d = cur.dst
    OBVIOUS
  <2>2. s \in DOMAIN disk' /\ disk'[s] = disk[s]
    BY <1>3, <2>1 DEF AllSurvive
  <2>3. Listed(s)' /\ (job.op # "delete" => d = Destination(s)')
    BY <1>2, <1>3, <2>1
  <2>4. cur'.src = s /\ cur'.dst = d /\ cur' = cur /\ stack' = stack
    BY <2>1
  <2>5. Listed(cur.src)' /\ (job.op # "delete" => cur'.dst = Destination(cur.src)')
    BY <2>3, <2>4 DEF Listed, Destination, IntoDirectory
  <2>6. \A i \in 1..Len(stack') : Under(cur'.src, stack'[i])
    BY <1>3, <2>4
  <2> QED  BY <1>3, <2>1, <2>2, <2>4, <2>5, <2>6 DEF CurOk
<1>5. Beginning'
  BY DEF Beginning
<1> QED
  BY <1>1, <1>4, <1>5

LEMMA ObjectGone ==
    ASSUME Control, AtObject, job' = job, stack' = stack, Survive(cur.src),
           pc' \in {"next", "done"}
    PROVE  StackOk' /\ CurOk' /\ Beginning'
<1>1. \E x \in Path : Survive(x) /\ \A i \in 1..Len(stack) : Under(x, stack[i])
  BY DEF Control, CurOk, FileTypes
<1>2. StackOk'
  BY <1>1, StackSame DEF Control
<1>3. CurOk'
  BY DEF CurOk, AtObject
<1>4. Beginning'
  BY DEF Beginning
<1> QED
  BY <1>2, <1>3, <1>4

\* what is left to show for each step
Rest == PlainTypes /\ Routines /\ DstOk /\ VictimOk

LEMMA QuietStep ==
    ASSUME FileInv, Lasts, AtObject, UNCHANGED <<disk, cur, stack>>,
           pc' \notin {"begin", "rmdir"}, Rest',
           HalfFile => HalfFile' \/ cur.dst \in left'
    PROVE  FileInv'
<1>1. job' = job /\ Apart' = Apart /\ AllSurvive
  BY JobStays DEF Lasts, AllSurvive
<1>2. StackOk' /\ CurOk' /\ Beginning'
  BY <1>1, ObjectStays DEF FileInv
<1>3. FileTypes'
  BY <1>1 DEF FileInv, Control, FileTypes, Rest
<1>4. Data'
  BY DataSame DEF FileInv
<1> QED
  BY <1>1, <1>2, <1>3, <1>4 DEF FileInv, Control, Rest

LEMMA DstStep ==
    ASSUME FileInv, Lasts, AtObject, UNCHANGED <<cur, stack>>,
           pc' \notin {"begin", "rmdir"}, Rest',
           job.op # "delete", OnlyDst, Replaceable,
           LET o == disk'[cur.dst]
           IN  cur.dst \in DOMAIN disk' /\ o.kind = "file" /\ o.data = Partial => HalfFile'
    PROVE  FileInv'
<1>1. job' = job /\ Apart' = Apart
  BY JobStays DEF Lasts
<1>2. Data' /\ AllSurvive
  BY DataDst DEF FileInv
<1>3. StackOk' /\ CurOk' /\ Beginning'
  BY <1>1, <1>2, ObjectStays DEF FileInv
<1>4. FileTypes'
  <2>1. \A p \in DOMAIN disk' : p \in Path
    BY DEF OnlyDst, FileInv, Control, FileTypes
  <2> QED  BY <1>1, <2>1 DEF FileInv, Control, FileTypes, Rest
<1> QED
  BY <1>1, <1>2, <1>3, <1>4 DEF FileInv, Control, Rest


LEMMA PutOnly ==
    ASSUME NEW o, disk' = WithObject(cur.dst, o)
    PROVE  OnlyDst /\ cur.dst \in DOMAIN disk' /\ disk'[cur.dst] = o
<1>1. PICK d : d = cur.dst
  OBVIOUS
<1>2. disk' = WithObject(d, o)
  BY <1>1
<1>3. /\ DOMAIN disk' = DOMAIN disk \cup {d} /\ disk'[d] = o
      /\ \A r \in DOMAIN disk : r # d => disk'[r] = disk[r]
  BY <1>2, PutFacts
<1> QED
  BY <1>1, <1>3 DEF OnlyDst

LEMMA TakenOnly ==
    ASSUME disk' = WithoutObject(cur.dst)
    PROVE  OnlyDst /\ cur.dst \notin DOMAIN disk'
BY TakenFacts DEF OnlyDst

-----------------------------------------------------------------------------
(* The steps, one by one.                                                  *)

LEMMA CopyFileKeeps ==
    ASSUME FileInv, Lasts, CopyFile
    PROVE  FileInv'
<1> USE DEF CopyFile, Goto, GiveUp, Ends, Asks, Keep
<1>1. /\ pc = "file" /\ UNCHANGED <<job, stopped, disk, cur, stack, victim, after, commitAll, agreed>>
      /\ AtObject /\ ~HalfFile
  BY DEF AtObject, HalfFile
<1>2. /\ PlainTypes /\ job.op # "delete" /\ cur.kind \in {"file", "special"} /\ Doable
  BY <1>1 DEF FileInv, Control, FileTypes, Routines
<1>3. /\ pc' \in {"next", "open", "done"} /\ skipNonRegular' \in BOOLEAN
      /\ pc' = "open" => (cur.kind = "file" \/ skipNonRegular')
  BY <1>1, <1>2 DEF PlainTypes
<1>4. Rest'
  <2>1. PlainTypes'
    BY <1>1, <1>2, <1>3 DEF PlainTypes, Pcs
  <2>2. Routines'
    BY <1>1, <1>2, <1>3, JobStays DEF Routines, Writing
  <2>3. DstOk'
    BY <1>1, <1>3 DEF DstOk, Writing, HalfFile
  <2>4. VictimOk'
    BY <1>3 DEF VictimOk
  <2> QED  BY <2>1, <2>2, <2>3, <2>4 DEF Rest
<1> QED
  BY <1>1, <1>3, <1>4, QuietStep

LEMMA WritingFacts ==
    ASSUME FileInv, Writing
    PROVE  /\ PlainTypes /\ job.op # "delete" /\ cur.kind \in {"file", "special"} /\ Doable
           /\ cur.kind = "file" \/ skipNonRegular
           /\ cur.src # cur.dst
           /\ cur.src \in DOMAIN disk /\ cur.kind = disk[cur.src].kind
           /\ cur.src \in DOMAIN job.disk /\ disk[cur.src] = job.disk[cur.src]
           /\ disk[cur.src] \in Object /\ disk[cur.src].data # Partial
           /\ AtObject
<1>1. AtObject /\ pc \notin {"begin", "done"}
  BY DEF Writing, AtObject
<1>2. /\ job \in Job /\ Listed(cur.src) /\ cur.src \in DOMAIN disk
      /\ cur.kind = disk[cur.src].kind
  BY <1>1 DEF FileInv, Control, FileTypes, CurOk
<1>3. cur.src \in DOMAIN job.disk /\ disk[cur.src] = job.disk[cur.src]
  BY <1>2 DEF FileInv, Data, SourcesKept
<1>4. /\ PlainTypes /\ job.op # "delete" /\ cur.kind \in {"file", "special"} /\ Doable
      /\ cur.kind = "file" \/ skipNonRegular
      /\ cur.src # cur.dst
  BY <1>1, NotSelf DEF FileInv, Control, FileTypes, Routines
<1>5. disk[cur.src] \in Object /\ disk[cur.src].data # Partial
  BY <1>2, <1>3, <1>4, JobFacts
<1> QED
  BY <1>1, <1>2, <1>3, <1>4, <1>5

LEMMA OpenSourceKeeps ==
    ASSUME FileInv, Lasts, OpenSource
    PROVE  FileInv'
<1> USE DEF OpenSource, Goto, GiveUp, Ends, Asks, Keep, flags
<1>1. /\ pc = "open"
      /\ UNCHANGED <<job, stopped, disk, cur, stack, victim, after, commitAll, skipNonRegular, agreed>>
      /\ AtObject /\ ~HalfFile
  BY DEF AtObject, HalfFile
<1>2. /\ PlainTypes /\ job.op # "delete" /\ cur.kind \in {"file", "special"} /\ Doable
      /\ cur.kind = "file" \/ skipNonRegular
      /\ cur.src # cur.dst
  BY <1>1, WritingFacts DEF Writing
<1>3. pc' \in {"next", "open", "create", "done"}
  BY <1>1
<1>4. Rest'
  <2>1. PlainTypes'
    BY <1>1, <1>2, <1>3 DEF PlainTypes, Pcs
  <2>2. Routines'
    BY <1>1, <1>2, <1>3, JobStays DEF Routines, Writing
  <2>3. DstOk'
    BY <1>1, <1>2, <1>3 DEF DstOk, Writing, HalfFile
  <2>4. VictimOk'
    BY <1>3 DEF VictimOk
  <2> QED  BY <2>1, <2>2, <2>3, <2>4 DEF Rest
<1> QED
  BY <1>1, <1>3, <1>4, QuietStep

LEMMA CreateCopyKeeps ==
    ASSUME FileInv, Lasts, CreateCopy
    PROVE  FileInv'
<1> USE DEF CreateCopy, Goto, GiveUp, Ends, Asks, Keep
<1>1. /\ pc = "create"
      /\ UNCHANGED <<job, stopped, cur, stack, victim, after, skipNonRegular>>
      /\ AtObject /\ ~HalfFile
  BY DEF AtObject, HalfFile
<1>2. /\ PlainTypes /\ job.op # "delete" /\ cur.kind \in {"file", "special"} /\ Doable
      /\ cur.kind = "file" \/ skipNonRegular
      /\ cur.src # cur.dst
  BY <1>1, WritingFacts DEF Writing
<1>3. CASE CreatesFile /\ agreed' = agreed \cup ({cur.dst} \cap DOMAIN disk) /\ UNCHANGED commitAll
  <2> DEFINE o == [kind |-> "file", data |-> Partial]
  <2>1. disk' = WithObject(cur.dst, o) /\ pc' = "data" /\ ~IsDirAt(cur.dst)
    BY <1>3 DEF CreatesFile
  <2>2. OnlyDst /\ cur.dst \in DOMAIN disk' /\ disk'[cur.dst] = o
    BY <2>1, PutOnly
  <2>3. Replaceable
    BY <1>3 DEF Replaceable
  <2>4. HalfFile'
    BY <2>1 DEF HalfFile
  <2>5. Rest'
    <3>1. PlainTypes'
      BY <1>1, <1>2, <1>3, <2>1 DEF PlainTypes, Pcs
    <3>2. Routines'
      BY <1>1, <1>2, <2>1, JobStays DEF Routines, Writing
    <3>3. DstOk'
      BY <1>1, <1>2, <2>1, <2>2 DEF DstOk
    <3>4. VictimOk'
      BY <2>1 DEF VictimOk
    <3> QED  BY <3>1, <3>2, <3>3, <3>4 DEF Rest
  <2> QED
    BY <1>1, <1>2, <2>1, <2>2, <2>3, <2>4, <2>5, DstStep
<1>4. CASE ~CreatesFile
  <2>1. /\ pc' \in {"overwrite", "next", "done"} /\ commitAll' \in BOOLEAN
        /\ pc' = "overwrite" => cur.dst \in agreed'
        /\ disk' = disk
    BY <1>1, <1>2, <1>4 DEF CantCreate, PlainTypes
  <2>2. Rest'
    <3>1. PlainTypes'
      BY <1>1, <1>2, <2>1 DEF PlainTypes, Pcs
    <3>2. Routines'
      BY <1>1, <1>2, <2>1, JobStays DEF Routines, Writing
    <3>3. DstOk'
      BY <1>1, <1>2, <2>1 DEF DstOk, Writing, HalfFile
    <3>4. VictimOk'
      BY <2>1 DEF VictimOk
    <3> QED  BY <3>1, <3>2, <3>3, <3>4 DEF Rest
  <2> QED
    BY <1>1, <2>1, <2>2, QuietStep
<1>5. CreatesFile => agreed' = agreed \cup ({cur.dst} \cap DOMAIN disk) /\ UNCHANGED commitAll
  <2>1. SUFFICES ASSUME CreatesFile  PROVE agreed' = agreed \cup ({cur.dst} \cap DOMAIN disk) /\ UNCHANGED commitAll
    OBVIOUS
  <2>2. pc' = "data"
    BY <2>1 DEF CreatesFile
  <2> QED  BY <2>2 DEF CantCreate
<1> QED
  BY <1>3, <1>4, <1>5


LEMMA OverwriteKeeps ==
    ASSUME FileInv, Lasts, Overwrite
    PROVE  FileInv'
<1> USE DEF Overwrite, Goto, GiveUp, Ends, Asks, Keep, flags
<1>1. /\ pc = "overwrite"
      /\ UNCHANGED <<job, stopped, cur, stack, victim, after, commitAll, skipNonRegular, agreed>>
      /\ AtObject /\ ~HalfFile
  BY DEF AtObject, HalfFile
<1>2. /\ PlainTypes /\ job.op # "delete" /\ cur.kind \in {"file", "special"} /\ Doable
      /\ cur.kind = "file" \/ skipNonRegular
      /\ cur.src # cur.dst
  BY <1>1, WritingFacts DEF Writing
<1>3. CASE CreatesFile
  <2> DEFINE o == [kind |-> "file", data |-> Partial]
  <2>1. disk' = WithObject(cur.dst, o) /\ pc' = "data" /\ ~IsDirAt(cur.dst)
    BY <1>3 DEF CreatesFile
  <2>2. OnlyDst /\ cur.dst \in DOMAIN disk' /\ disk'[cur.dst] = o
    BY <2>1, PutOnly
  <2>3. Replaceable
    BY <1>1 DEF Replaceable, FileInv, Control, DstOk
  <2>4. HalfFile'
    BY <2>1 DEF HalfFile
  <2>5. Rest'
    <3>1. PlainTypes'
      BY <1>1, <1>2, <2>1 DEF PlainTypes, Pcs
    <3>2. Routines'
      BY <1>1, <1>2, <2>1, JobStays DEF Routines, Writing
    <3>3. DstOk'
      BY <1>1, <1>2, <2>1, <2>2 DEF DstOk
    <3>4. VictimOk'
      BY <2>1 DEF VictimOk
    <3> QED  BY <3>1, <3>2, <3>3, <3>4 DEF Rest
  <2> QED
    BY <1>1, <1>2, <2>1, <2>2, <2>3, <2>4, <2>5, DstStep
<1>4. CASE ~CreatesFile
  <2>1. pc' \in {"next", "done"} /\ disk' = disk
    BY <1>4 DEF CantCreate
  <2>2. Rest'
    <3>1. PlainTypes'
      BY <1>1, <1>2, <2>1 DEF PlainTypes, Pcs
    <3>2. Routines'
      BY <1>1, <1>2, <2>1, JobStays DEF Routines, Writing
    <3>3. DstOk'
      BY <2>1 DEF DstOk, Writing, HalfFile
    <3>4. VictimOk'
      BY <2>1 DEF VictimOk
    <3> QED  BY <3>1, <3>2, <3>3, <3>4 DEF Rest
  <2> QED
    BY <1>1, <2>1, <2>2, QuietStep
<1> QED
  BY <1>3, <1>4

\* A copy that fails is deleted next.
LEMMA CopyFailsKeeps ==
    ASSUME FileInv, Lasts, pc \in {"data", "close"}, CopyFails, Keep,
           UNCHANGED <<disk, cur, stack, flags, agreed>>
    PROVE  FileInv'
<1> USE DEF flags, Keep
<1>1. /\ pc' = "unlink" /\ victim' = cur.dst /\ after' \in {"failed", "stopped"}
  BY DEF CopyFails, StartUnlink, Goto
<1>2. /\ PlainTypes /\ job.op # "delete" /\ Doable /\ cur.src # cur.dst /\ AtObject
  BY WritingFacts DEF Writing
<1>3. HalfFile /\ HalfFile' /\ cur.dst \in DOMAIN disk
      /\ disk[cur.dst] = [kind |-> "file", data |-> Partial]
  BY <1>1 DEF HalfFile, FileInv, Control, DstOk
<1>4. Rest'
  <2>1. PlainTypes'
    BY <1>1, <1>2 DEF PlainTypes, Pcs
  <2>2. Routines'
    BY <1>1, <1>2, JobStays DEF Routines, Writing
  <2>3. DstOk'
    BY <1>1, <1>2, <1>3 DEF DstOk
  <2>4. VictimOk'
    BY <1>1, <1>2 DEF VictimOk
  <2> QED  BY <2>1, <2>2, <2>3, <2>4 DEF Rest
<1> QED
  BY <1>1, <1>2, <1>3, <1>4, QuietStep

LEMMA CopyDataKeeps ==
    ASSUME FileInv, Lasts, CopyData
    PROVE  FileInv'
<1> USE DEF CopyData, Keep
<1>1. pc = "data" /\ UNCHANGED <<job, stopped, disk, cur, stack, flags, agreed>>
  OBVIOUS
<1>2. CASE CopyFails
  BY <1>1, <1>2, CopyFailsKeeps
<1>3. CASE ~CopyFails
  <2>1. pc' = "close" /\ UNCHANGED <<victim, after, commitAll, skipNonRegular>>
    BY <1>3 DEF Goto, flags
  <2>2. /\ PlainTypes /\ job.op # "delete" /\ cur.kind \in {"file", "special"} /\ Doable
        /\ cur.kind = "file" \/ skipNonRegular
        /\ cur.src # cur.dst /\ AtObject
    BY <1>1, WritingFacts DEF Writing
  <2>3. HalfFile /\ HalfFile' /\ cur.dst \in DOMAIN disk
        /\ disk[cur.dst] = [kind |-> "file", data |-> Partial]
    BY <1>1, <2>1 DEF HalfFile, FileInv, Control, DstOk
  <2>4. Rest'
    <3>1. PlainTypes'
      BY <1>1, <2>1, <2>2 DEF PlainTypes, Pcs
    <3>2. Routines'
      BY <1>1, <2>1, <2>2, JobStays DEF Routines, Writing
    <3>3. DstOk'
      BY <1>1, <2>1, <2>2, <2>3 DEF DstOk
    <3>4. VictimOk'
      BY <2>1 DEF VictimOk
    <3> QED  BY <3>1, <3>2, <3>3, <3>4 DEF Rest
  <2> QED
    BY <1>1, <2>1, <2>2, <2>3, <2>4, QuietStep
<1> QED
  BY <1>2, <1>3

LEMMA CloseCopyKeeps ==
    ASSUME FileInv, Lasts, CloseCopy
    PROVE  FileInv'
<1> USE DEF CloseCopy, Keep
<1>1. pc = "close" /\ UNCHANGED <<job, stopped, cur, stack, flags, agreed>>
  OBVIOUS
<1>2. CASE CopyFails /\ UNCHANGED disk
  BY <1>1, <1>2, CopyFailsKeeps
<1>3. CASE disk' = WithObject(cur.dst, [kind |-> "file", data |-> disk[cur.src].data]) /\ Copied
  <2> DEFINE o == [kind |-> "file", data |-> disk[cur.src].data]
  <2>1. /\ PlainTypes /\ job.op # "delete" /\ cur.kind \in {"file", "special"} /\ Doable
        /\ cur.kind = "file" \/ skipNonRegular
        /\ cur.src # cur.dst /\ AtObject
        /\ cur.src \in DOMAIN disk /\ cur.kind = disk[cur.src].kind
        /\ disk[cur.src] \in Object /\ disk[cur.src].data # Partial
    BY <1>1, WritingFacts DEF Writing
  <2>2. /\ \/ pc' = "next" /\ UNCHANGED <<victim, after>>
           \/ pc' = "unlink" /\ victim' = cur.src /\ after' = "next" /\ job.op = "move"
        /\ UNCHANGED <<commitAll, skipNonRegular>>
    BY <1>1, <1>3 DEF Copied, StartUnlink, Goto, flags
  <2>3. OnlyDst /\ cur.dst \in DOMAIN disk' /\ disk'[cur.dst] = o
    BY <1>3, PutOnly
  <2>4. disk[cur.dst] = [kind |-> "file", data |-> Partial] /\ cur.dst \in DOMAIN disk
    BY <1>1 DEF HalfFile, FileInv, Control, DstOk
  <2>5. Replaceable /\ ~IsDirAt(cur.dst)
    BY <2>4 DEF Replaceable, IsDirAt
  <2>6. o.data # Partial
    BY <2>1
  <2>7. disk'[cur.src] = disk[cur.src]
    BY <2>1, <2>3 DEF OnlyDst
  <2>8. cur.kind = "file" => disk'[cur.dst] = disk'[cur.src]
    BY <2>1, <2>3, <2>7 DEF Object
  <2>9. Rest'
    <3>1. PlainTypes'
      BY <1>1, <2>1, <2>2 DEF PlainTypes, Pcs
    <3>2. Routines'
      BY <1>1, <2>1, <2>2, JobStays DEF Routines, Writing
    <3>3. DstOk'
      BY <1>1, <2>1, <2>2 DEF DstOk, Writing, HalfFile
    <3>4. VictimOk'
      BY <1>1, <2>1, <2>2, <2>3, <2>8 DEF VictimOk
    <3> QED  BY <3>1, <3>2, <3>3, <3>4 DEF Rest
  <2> HIDE DEF o
  <2> QED
    BY <1>1, <2>1, <2>2, <2>3, <2>5, <2>6, <2>9, DstStep
<1> QED
  BY <1>2, <1>3


LEMMA CopyLinkKeeps ==
    ASSUME FileInv, Lasts, CopyLink
    PROVE  FileInv'
<1> USE DEF CopyLink, Goto, GiveUp, Ends, Keep, flags
<1>1. /\ pc = "link"
      /\ UNCHANGED <<job, stopped, disk, cur, stack, victim, after, commitAll, skipNonRegular>>
      /\ AtObject /\ ~HalfFile /\ pc' \in {"symlink", "done"}
  BY DEF AtObject, HalfFile
<1>2. PlainTypes /\ job.op # "delete" /\ cur.kind = "link" /\ Doable
  BY <1>1 DEF FileInv, Control, FileTypes, Routines
<1>3. Rest'
  <2>1. PlainTypes'
    BY <1>1, <1>2 DEF PlainTypes, Pcs
  <2>2. Routines'
    BY <1>1, <1>2, JobStays DEF Routines, Writing
  <2>3. DstOk'
    BY <1>1 DEF DstOk, HalfFile
  <2>4. VictimOk'
    BY <1>1 DEF VictimOk
  <2> QED  BY <2>1, <2>2, <2>3, <2>4 DEF Rest
<1> QED
  BY <1>1, <1>3, QuietStep

LEMMA MakeLinkKeeps ==
    ASSUME FileInv, Lasts, MakeLink
    PROVE  FileInv'
<1> USE DEF MakeLink, Keep
<1>1. /\ pc = "symlink" /\ UNCHANGED <<job, stopped, cur, stack, commitAll, agreed>>
      /\ AtObject /\ ~HalfFile
  BY DEF AtObject, HalfFile
<1>2. /\ PlainTypes /\ job.op # "delete" /\ cur.kind = "link" /\ Doable
      /\ cur.src \in DOMAIN disk /\ cur.kind = disk[cur.src].kind
  BY <1>1 DEF FileInv, Control, FileTypes, Routines, CurOk
<1>3. CASE Copied /\ UNCHANGED skipNonRegular
           /\ \/ ~Exists(cur.dst) /\ disk' = WithObject(cur.dst, disk[cur.src])
              \/ skipNonRegular /\ UNCHANGED disk
  <2>2. \/ pc' = "next" /\ UNCHANGED <<victim, after>>
        \/ pc' = "unlink" /\ victim' = cur.src /\ after' = "next" /\ job.op = "move"
    BY <1>3 DEF Copied, StartUnlink, Goto
  <2>3. ASSUME skipNonRegular \/ (cur.dst \in DOMAIN disk' /\ disk'[cur.dst] = disk'[cur.src])
        PROVE  Rest'
    <3>1. PlainTypes'
      BY <1>1, <1>2, <1>3, <2>2 DEF PlainTypes, Pcs
    <3>2. Routines'
      BY <1>1, <1>2, <2>2, JobStays DEF Routines, Writing
    <3>3. DstOk'
      BY <1>1, <2>2 DEF DstOk, HalfFile
    <3>4. VictimOk'
      BY <1>1, <1>2, <1>3, <2>2, <2>3 DEF VictimOk
    <3> QED  BY <3>1, <3>2, <3>3, <3>4 DEF Rest
  <2>4. CASE ~Exists(cur.dst) /\ disk' = WithObject(cur.dst, disk[cur.src])
    <3> DEFINE o == disk[cur.src]
    <3>1. OnlyDst /\ cur.dst \in DOMAIN disk' /\ disk'[cur.dst] = o
      BY <2>4, PutOnly
    <3>2. disk'[cur.src] = o
      BY <1>2, <2>4, <3>1 DEF OnlyDst, Exists
    <3>3. Rest'
      BY <2>3, <3>1, <3>2
    <3>4. Replaceable
      BY <2>4 DEF Replaceable, Exists
    <3> QED
      BY <1>1, <1>2, <2>2, <3>1, <3>3, <3>4, DstStep
  <2>5. CASE skipNonRegular /\ UNCHANGED disk
    BY <1>1, <2>2, <2>3, <2>5, QuietStep
  <2> QED  BY <1>3, <2>4, <2>5
<1>4. CASE pc' \in {"next", "symlink", "done"} /\ UNCHANGED <<disk, victim, after>>
           /\ skipNonRegular' \in BOOLEAN
  <2>1. Rest'
    <3>1. PlainTypes'
      BY <1>1, <1>2, <1>4 DEF PlainTypes, Pcs
    <3>2. Routines'
      BY <1>1, <1>2, <1>4, JobStays DEF Routines, Writing
    <3>3. DstOk'
      BY <1>4 DEF DstOk, HalfFile
    <3>4. VictimOk'
      BY <1>4 DEF VictimOk
    <3> QED  BY <3>1, <3>2, <3>3, <3>4 DEF Rest
  <2> QED
    BY <1>1, <1>4, <2>1, QuietStep
<1> QED
  BY <1>2, <1>3, <1>4 DEF GiveUp, Ends, Goto, PlainTypes

LEMMA DeleteFileKeeps ==
    ASSUME FileInv, Lasts, DeleteFile
    PROVE  FileInv'
<1> USE DEF DeleteFile, Keep
<1>1. /\ pc = "delfile" /\ UNCHANGED <<job, stopped, disk, cur, stack, skipNonRegular>>
      /\ AtObject /\ ~HalfFile
  BY DEF AtObject, HalfFile
<1>2. PlainTypes /\ job.op = "delete"
  BY <1>1 DEF FileInv, Control, FileTypes, Routines
<1>3. /\ \/ pc' \in {"next", "done"} /\ UNCHANGED <<victim, after>>
         \/ pc' = "unlink" /\ victim' = cur.src /\ after' = "next" /\ cur.src \in agreed'
      /\ commitAll' \in BOOLEAN
  BY <1>2 DEF GiveUp, Ends, Goto, StartUnlink, PlainTypes
<1>4. Rest'
  <2>1. PlainTypes'
    BY <1>1, <1>2, <1>3 DEF PlainTypes, Pcs
  <2>2. Routines'
    BY <1>1, <1>2, <1>3 DEF Routines, Writing
  <2>3. DstOk'
    BY <1>1, <1>2, <1>3 DEF DstOk, Writing, HalfFile
  <2>4. VictimOk'
    BY <1>1, <1>2, <1>3 DEF VictimOk
  <2> QED  BY <2>1, <2>2, <2>3, <2>4 DEF Rest
<1> QED
  BY <1>1, <1>3, <1>4, QuietStep

\* MoveFile and MoveDir return, and the disk is as it was.
LEMMA ReturnsKeeps ==
    ASSUME FileInv, Lasts, pc \in {"mvfile", "mvdelete", "rename", "mvdir", "merge"}, Keep,
           NEW r \in {0, 1, -1}, Returns(r),
           UNCHANGED <<disk, cur, stack, victim, after, skipNonRegular>>, commitAll' \in BOOLEAN
    PROVE  FileInv'
<1> USE DEF Keep
<1>1. /\ PlainTypes /\ job.op = "move" /\ Doable /\ AtObject /\ ~HalfFile
      /\ Listed(cur.src) /\ cur.src \in DOMAIN disk /\ cur.kind = disk[cur.src].kind /\ job \in Job
  BY DEF FileInv, Control, FileTypes, Routines, CurOk, AtObject, HalfFile
<1>2. cur.kind \in {"file", "link", "special", "dir"}
  <2>1. cur.src \in DOMAIN job.disk /\ disk[cur.src] = job.disk[cur.src]
    BY <1>1 DEF FileInv, Data, SourcesKept
  <2> QED  BY <1>1, <2>1, JobFacts DEF Object
<1>3. \/ pc' \in {"next", "done"}
      \/ pc' = CopyRoutine(cur.kind)
  BY DEF Returns, GiveUp, Ends, Goto
<1>4. /\ pc' \in {"next", "done", "link", "readdir", "file"}
      /\ pc' = "link" => cur.kind = "link"
      /\ pc' = "file" => cur.kind \in {"file", "special"}
  BY <1>2, <1>3 DEF CopyRoutine
<1>5. Rest'
  <2>1. PlainTypes'
    BY <1>1, <1>4 DEF PlainTypes, Pcs
  <2>2. Routines'
    BY <1>1, <1>4, JobStays DEF Routines, Writing
  <2>3. DstOk'
    BY <1>4 DEF DstOk, Writing, HalfFile
  <2>4. VictimOk'
    BY <1>4 DEF VictimOk
  <2> QED  BY <2>1, <2>2, <2>3, <2>4 DEF Rest
<1> QED
  BY <1>1, <1>4, <1>5, QuietStep

\* A Stat may deny what is so, but does not make up what is not.
LEMMA ToldFacts ==
    /\ \A same \in Told(IsSameFile) : same \in BOOLEAN /\ (same => IsSameFile)
    /\ \A found \in Told(Exists(cur.dst)) : found \in BOOLEAN /\ (found => Exists(cur.dst))
<1>1. IsSameFile \in BOOLEAN
  BY DEF IsSameFile
<1>2. Exists(cur.dst) \in BOOLEAN
  BY DEF Exists
<1> QED
  BY <1>1, <1>2 DEF Told

\* What is not asked about is not there, or has been overlooked.
LEMMA LooksFacts ==
    ASSUME NEW same \in BOOLEAN, NEW found \in BOOLEAN, Overlooks(same, found), ~same,
           UNCHANGED <<disk, cur>>
    PROVE  /\ IsSameFile => cur'.dst \in unseen'
           /\ ~found /\ cur'.dst \in DOMAIN disk' => cur'.dst \in unseen'
           /\ unseen \subseteq unseen'
BY DEF Overlooks, Exists

LEMMA MoveFileKeeps ==
    ASSUME FileInv, Lasts, MoveFile
    PROVE  FileInv'
<1> USE DEF Keep
<1>1. /\ pc = "mvfile" /\ UNCHANGED <<job, stopped, disk, cur, stack, victim, after, skipNonRegular>>
      /\ AtObject /\ ~HalfFile
  BY DEF MoveFile, AtObject, HalfFile
<1>2. PlainTypes /\ job.op = "move" /\ Doable
  BY <1>1 DEF FileInv, Control, FileTypes, Routines
<1>3. CASE \E r \in {0, 1, -1} : Returns(r) /\ commitAll' \in BOOLEAN
  BY <1>1, <1>3, ReturnsKeeps
<1>4. CASE /\ commitAll' \in BOOLEAN
           /\ \/ pc' = "rename" /\ (cur'.dst \in DOMAIN disk' => cur'.dst \in unseen')
              \/ pc' = "mvdelete" /\ cur.dst \in agreed'
  <2>1. Rest'
    <3>1. PlainTypes'
      BY <1>1, <1>2, <1>4 DEF PlainTypes, Pcs
    <3>2. Routines'
      BY <1>1, <1>2, <1>4, JobStays DEF Routines, Writing
    <3>3. DstOk'
      BY <1>1, <1>4 DEF DstOk, HalfFile
    <3>4. VictimOk'
      BY <1>4 DEF VictimOk
    <3> QED  BY <3>1, <3>2, <3>3, <3>4 DEF Rest
  <2> QED
    BY <1>1, <1>4, <2>1, QuietStep
<1>5. ASSUME NEW same \in Told(IsSameFile), NEW found \in Told(Exists(cur.dst)),
             Overlooks(same, found), ~same, ~found, Goto("rename"), UNCHANGED commitAll
      PROVE  FileInv'
  <2>1. same \in BOOLEAN /\ found \in BOOLEAN
    BY <1>5, ToldFacts
  <2>2. cur'.dst \in DOMAIN disk' => cur'.dst \in unseen'
    BY <1>1, <1>5, <2>1, LooksFacts
  <2> QED  BY <1>2, <1>4, <1>5, <2>2 DEF Goto, PlainTypes
<1>6. CASE Replaces
  BY <1>2, <1>3, <1>4, <1>6 DEF Replaces, Goto, PlainTypes
<1>7. CASE /\ UNCHANGED commitAll
           /\ \E r \in {0, 1, -1} : Returns(r)
  BY <1>2, <1>3, <1>7 DEF PlainTypes
<1> QED
  BY <1>5, <1>6, <1>7 DEF MoveFile

LEMMA MoveDeleteKeeps ==
    ASSUME FileInv, Lasts, MoveDelete
    PROVE  FileInv'
<1> USE DEF MoveDelete, Keep, flags
<1>1. /\ pc = "mvdelete"
      /\ UNCHANGED <<job, stopped, cur, stack, victim, after, skipNonRegular, commitAll, agreed>>
      /\ AtObject /\ ~HalfFile
  BY DEF AtObject, HalfFile
<1>2. PlainTypes /\ job.op = "move" /\ Doable /\ cur.dst \in agreed
  BY <1>1 DEF FileInv, Control, FileTypes, Routines, DstOk
<1>3. CASE SkipOrStop /\ UNCHANGED disk
  <2>1. \E r \in {0, 1, -1} : Returns(r)
    BY <1>3 DEF SkipOrStop
  <2> QED  BY <1>1, <1>2, <1>3, <2>1, ReturnsKeeps DEF PlainTypes
<1>4. CASE ~IsDirAt(cur.dst) /\ disk' = WithoutObject(cur.dst) /\ Goto("rename")
  <2>1. OnlyDst /\ cur.dst \notin DOMAIN disk' /\ pc' = "rename"
    BY <1>4, TakenOnly DEF Goto
  <2>2. Replaceable
    BY <1>1, <1>2 DEF Replaceable
  <2>3. Rest'
    <3>1. PlainTypes'
      BY <1>1, <1>2, <2>1 DEF PlainTypes, Pcs
    <3>2. Routines'
      BY <1>1, <1>2, <2>1, JobStays DEF Routines, Writing
    <3>3. DstOk'
      BY <1>1, <1>2, <2>1 DEF DstOk, Writing, HalfFile
    <3>4. VictimOk'
      BY <2>1 DEF VictimOk
    <3> QED  BY <3>1, <3>2, <3>3, <3>4 DEF Rest
  <2> QED
    BY <1>1, <1>2, <1>4, <2>1, <2>2, <2>3, DstStep
<1> QED
  BY <1>3, <1>4

LEMMA RenameKeeps ==
    ASSUME FileInv, Lasts, Rename
    PROVE  FileInv'
<1> USE DEF Rename, Keep, flags
<1>1. /\ pc = "rename"
      /\ UNCHANGED <<job, stopped, cur, stack, victim, after, skipNonRegular, commitAll, agreed>>
      /\ AtObject
  BY DEF AtObject
<1>2. PlainTypes /\ job.op = "move" /\ Doable
  BY <1>1 DEF FileInv, Control, FileTypes, Routines
<1>3. CASE UNCHANGED disk /\ \E r \in {0, 1, -1} : Returns(r)
  BY <1>1, <1>2, <1>3, ReturnsKeeps DEF PlainTypes
<1>a. cur.src # cur.dst
  BY <1>1, <1>2, NotSelf
<1>4. CASE CanRename(cur.src, cur.dst) /\ disk' = WithRenamed(cur.src, cur.dst) /\ Returns(0)
  <2>1. pc' \in {"next", "done"}
    BY <1>4 DEF Returns, GiveUp, Ends, Goto
  <2>2. job' = job /\ Apart' = Apart
    BY <1>1, JobStays
  <2>3. Data' /\ Survive(cur.src)
    BY <1>1, <1>4, DataRenamed DEF FileInv
  <2>4. StackOk' /\ CurOk' /\ Beginning'
    BY <1>1, <2>1, <2>3, ObjectGone DEF FileInv
  <2>5. /\ \A r \in DOMAIN disk' : r \in DOMAIN disk
              \/ \E s \in DOMAIN disk : IsBelow(s, cur.src) /\ r = Rebased(s, cur.src, cur.dst)
        /\ cur.src \in Path /\ cur.dst \in Path /\ \A r \in DOMAIN disk : r \in Path
    BY <1>1, <1>4, <1>a, RenamedFacts DEF FileInv, Control, FileTypes
  <2>7. Rest'
    <3>1. PlainTypes'
      BY <1>1, <1>2, <2>1 DEF PlainTypes, Pcs
    <3>2. Routines'
      BY <1>1, <1>2, <2>1, JobStays DEF Routines, Writing
    <3>3. DstOk'
      BY <2>1 DEF DstOk, Writing, HalfFile
    <3>4. VictimOk'
      BY <2>1 DEF VictimOk
    <3> QED  BY <3>1, <3>2, <3>3, <3>4 DEF Rest
  <2>8. FileTypes'
    <3>1. \A r \in DOMAIN disk' : r \in Path
      BY <2>5, RebasedFacts
    <3> QED  BY <1>1, <2>2, <2>7, <3>1 DEF FileInv, Control, FileTypes, Rest
  <2> QED
    BY <2>2, <2>3, <2>4, <2>7, <2>8 DEF FileInv, Control, Rest
<1> QED
  BY <1>3, <1>4, <1>a DEF SkipOrStop


\* A directory has been read: its objects come next.
LEMMA PushStep ==
    ASSUME FileInv, Lasts, AtObject, cur' = cur, pc' = "next", PlainTypes',
           AllSurvive, Data', \A p \in DOMAIN disk' : p \in Path,
           NEW kind \in {"dir", "merge"}, kind = "merge" => job.op = "move",
           NEW names, names \subseteq ChildrenOf(cur.src),
           stack' = <<ListFrame(kind, cur.src, cur.dst, names)>> \o stack
    PROVE  FileInv'
<1>1. job' = job /\ Apart' = Apart /\ Doable' = Doable
  BY JobStays DEF Lasts
<1>2. \A n \in names : n \in Name /\ Append(cur.src, n) \in DOMAIN disk
  BY DEF ChildrenOf, Exists
<1>3. StackOk' /\ stack' \in Seq(Frames) /\ stack' # <<>> /\ Len(stack') > 1
  BY <1>1, <1>2, StackPushed DEF FileInv, Control
<1>4. Len(stack') # 1
  <2>1. Len(stack') \in Nat
    BY <1>3, LenProperties
  <2> QED  BY <1>3, <2>1
<1>5. FileTypes'
  BY <1>1, <1>3 DEF FileInv, Control, FileTypes
<1>6. Routines'
  BY <1>1 DEF FileInv, Control, Routines, Writing, AtObject
<1>7. Beginning' /\ CurOk' /\ DstOk' /\ VictimOk'
  BY <1>4 DEF Beginning, CurOk, AtObject, DstOk, Writing, HalfFile, VictimOk
<1> QED
  BY <1>1, <1>3, <1>5, <1>6, <1>7 DEF FileInv, Control

LEMMA MoveDirKeeps ==
    ASSUME FileInv, Lasts, MoveDir
    PROVE  FileInv'
<1> USE DEF Keep, flags
<1>1. /\ pc = "mvdir" /\ UNCHANGED <<job, stopped, disk, cur, stack, skipNonRegular, commitAll>>
      /\ AtObject /\ ~HalfFile
  BY DEF MoveDir, AtObject, HalfFile
<1>2. PlainTypes /\ job.op = "move" /\ Doable /\ DirMoved
  BY <1>1 DEF FileInv, Control, FileTypes, Routines, VictimOk
<1>3. CASE /\ UNCHANGED <<victim, after>>
           /\ \E r \in {0, 1, -1} : Returns(r)
  BY <1>1, <1>2, <1>3, ReturnsKeeps DEF PlainTypes
<1>4. CASE /\ UNCHANGED <<victim, after>>
           /\ \/ pc' = "merge"
              \/ pc' = "rename" /\ (cur'.dst \in DOMAIN disk' => cur'.dst \in unseen')
  <2>2. Rest'
    <3>1. PlainTypes'
      BY <1>1, <1>2, <1>4 DEF PlainTypes, Pcs
    <3>2. Routines'
      BY <1>1, <1>2, <1>4, JobStays DEF Routines, Writing
    <3>3. DstOk'
      BY <1>1, <1>4 DEF DstOk, HalfFile
    <3>4. VictimOk'
      BY <1>4 DEF VictimOk
    <3> QED  BY <3>1, <3>2, <3>3, <3>4 DEF Rest
  <2> QED
    BY <1>1, <1>4, <2>2, QuietStep
<1>5. CASE /\ pc' = "unlink" /\ victim' = cur.dst /\ after' = "rename"
           /\ cur.dst \in agreed' \/ stopped
  <2>1. DirMoved'
    BY <1>1, <1>2 DEF DirMoved, SourceOf
  <2>2. Rest'
    <3>1. PlainTypes'
      BY <1>1, <1>2, <1>5 DEF PlainTypes, Pcs
    <3>2. Routines'
      BY <1>1, <1>2, <1>5, JobStays DEF Routines, Writing
    <3>3. DstOk'
      BY <1>1, <1>5 DEF DstOk, HalfFile
    <3>4. VictimOk'
      BY <1>1, <1>2, <1>5, <2>1 DEF VictimOk
    <3> QED  BY <3>1, <3>2, <3>3, <3>4 DEF Rest
  <2> QED
    BY <1>1, <1>5, <2>2, QuietStep
<1>6. CASE ReplaceFile
  <2>1. PICK a \in {"ok", "skip", "cancel", "none"} :
            /\ Asks({"ok", "skip"}, a)
            /\ IF a \in {"ok", "none"}
               THEN StartUnlink(cur.dst, "rename") /\ UNCHANGED refusal
               ELSE Returns(IF a = "skip" THEN 0 ELSE -1) /\ UNCHANGED <<victim, after>>
            /\ agreed' = IF a = "ok" THEN agreed \cup {cur.dst} ELSE agreed
    BY <1>6 DEF ReplaceFile
  <2>2. CASE a \in {"ok", "none"}
    <3>1. pc' = "unlink" /\ victim' = cur.dst /\ after' = "rename"
      BY <2>1, <2>2 DEF StartUnlink, Goto
    <3>3. cur.dst \in agreed' \/ stopped
      BY <1>2, <2>1, <2>2 DEF Asks, Answers, PlainTypes
    <3> QED  BY <1>5, <3>1, <3>3
  <2>3. CASE a \notin {"ok", "none"}
    BY <1>3, <2>1, <2>3
  <2> QED  BY <2>2, <2>3
<1>7. ASSUME NEW same \in Told(IsSameFile), NEW found \in Told(Exists(cur.dst)),
             Overlooks(same, found), ~same,
             Goto(IF found THEN "merge" ELSE "rename"), UNCHANGED <<victim, after>>
      PROVE  FileInv'
  <2>1. same \in BOOLEAN /\ found \in BOOLEAN
    BY <1>7, ToldFacts
  <2>2. ~found /\ cur'.dst \in DOMAIN disk' => cur'.dst \in unseen'
    BY <1>1, <1>7, <2>1, LooksFacts
  <2> QED  BY <1>4, <1>7, <2>1, <2>2 DEF Goto
<1> QED
  BY <1>3, <1>6, <1>7 DEF MoveDir

LEMMA MergeDirKeeps ==
    ASSUME FileInv, Lasts, MergeDir
    PROVE  FileInv'
<1> USE DEF MergeDir, Keep, flags
<1>1. /\ pc = "merge"
      /\ UNCHANGED <<job, stopped, disk, cur, victim, after, skipNonRegular, commitAll>>
      /\ AtObject /\ ~HalfFile
  BY DEF AtObject, HalfFile
<1>2. PlainTypes /\ job.op = "move" /\ Doable
  BY <1>1 DEF FileInv, Control, FileTypes, Routines
<1>3. CASE stack' = stack /\ \E r \in {0, 1, -1} : Returns(r)
  BY <1>1, <1>2, <1>3, ReturnsKeeps DEF PlainTypes
<1>4. CASE stack' = stack /\ pc' = "merge"
  <2>1. Rest'
    <3>1. PlainTypes'
      BY <1>1, <1>2, <1>4 DEF PlainTypes, Pcs
    <3>2. Routines'
      BY <1>1, <1>2, <1>4, JobStays DEF Routines, Writing
    <3>3. DstOk'
      BY <1>4 DEF DstOk, HalfFile
    <3>4. VictimOk'
      BY <1>4 DEF VictimOk
    <3> QED  BY <3>1, <3>2, <3>3, <3>4 DEF Rest
  <2> QED
    BY <1>1, <1>4, <2>1, QuietStep
<1>5. CASE /\ pc' = "next"
           /\ stack' = <<ListFrame("merge", cur.src, cur.dst, ChildrenOf(cur.src))>> \o stack
  <2>1. AllSurvive
    BY <1>1 DEF AllSurvive
  <2>2. Data' /\ \A p \in DOMAIN disk' : p \in Path
    BY <1>1, DataSame DEF FileInv, Control, FileTypes
  <2>3. PlainTypes'
    BY <1>1, <1>2, <1>5 DEF PlainTypes, Pcs
  <2> QED
    BY <1>1, <1>2, <1>5, <2>1, <2>2, <2>3, PushStep
<1> QED
  BY <1>3, <1>4, <1>5 DEF Goto

LEMMA ReadDirKeeps ==
    ASSUME FileInv, Lasts, ReadDir
    PROVE  FileInv'
<1> USE DEF ReadDir, Keep, flags
<1>1. /\ pc = "readdir"
      /\ UNCHANGED <<job, stopped, disk, cur, skipNonRegular, commitAll, victim, after>>
      /\ AtObject /\ ~HalfFile
  BY DEF AtObject, HalfFile
<1>2. PlainTypes /\ (job.op # "delete" => Doable)
  BY <1>1 DEF FileInv, Control, FileTypes, Routines
<1>3. CASE stack' = stack /\ pc' \in {"next", "readdir", "done"} \cup (IF job.op = "delete" THEN {} ELSE {"mkdir"})
  <2>1. Rest'
    <3>1. PlainTypes'
      BY <1>1, <1>2, <1>3 DEF PlainTypes, Pcs
    <3>2. Routines'
      BY <1>1, <1>2, <1>3, JobStays DEF Routines, Writing
    <3>3. DstOk'
      BY <1>1, <1>3 DEF DstOk, Writing, HalfFile
    <3>4. VictimOk'
      BY <1>3 DEF VictimOk
    <3> QED  BY <3>1, <3>2, <3>3, <3>4 DEF Rest
  <2> QED
    BY <1>1, <1>3, <2>1, QuietStep
<1>4. ASSUME NEW names, names \subseteq ChildrenOf(cur.src), pc' = "next",
             stack' = <<ListFrame("dir", cur.src, cur.dst, names)>> \o stack
      PROVE  FileInv'
  <2>1. AllSurvive
    BY <1>1 DEF AllSurvive
  <2>2. Data'
    BY <1>1, DataSame DEF FileInv
  <2>3. \A p \in DOMAIN disk' : p \in Path
    BY <1>1 DEF FileInv, Control, FileTypes
  <2>4. PlainTypes'
    BY <1>1, <1>2, <1>4 DEF PlainTypes, Pcs
  <2> QED
    BY <1>1, <1>2, <1>4, <2>1, <2>2, <2>3, <2>4, PushStep
<1>5. CASE pc' = "next" /\ stack' = <<ListFrame("dir", cur.src, cur.dst, ChildrenOf(cur.src))>> \o stack
  BY <1>4, <1>5
<1>6. CASE pc' = "next" /\ stack' = <<ListFrame("dir", cur.src, cur.dst, {})>> \o stack
  BY <1>4, <1>6
<1> QED
  BY <1>3, <1>5, <1>6 DEF Goto, GiveUp, Ends

LEMMA MkDirKeeps ==
    ASSUME FileInv, Lasts, MkDir
    PROVE  FileInv'
<1> USE DEF MkDir, Keep, flags
<1>1. /\ pc = "mkdir"
      /\ UNCHANGED <<job, stopped, cur, skipNonRegular, commitAll, victim, after>>
      /\ AtObject /\ ~HalfFile
  BY DEF AtObject, HalfFile
<1>2. PlainTypes /\ job.op # "delete" /\ Doable /\ cur.src \in DOMAIN disk
  BY <1>1 DEF FileInv, Control, FileTypes, Routines, CurOk
<1>3. CASE stack' = stack /\ disk' = disk /\ pc' \in {"next", "mkdir", "done"}
  <2>1. Rest'
    <3>1. PlainTypes'
      BY <1>1, <1>2, <1>3 DEF PlainTypes, Pcs
    <3>2. Routines'
      BY <1>1, <1>2, <1>3, JobStays DEF Routines, Writing
    <3>3. DstOk'
      BY <1>1, <1>3 DEF DstOk, Writing, HalfFile
    <3>4. VictimOk'
      BY <1>3 DEF VictimOk
    <3> QED  BY <3>1, <3>2, <3>3, <3>4 DEF Rest
  <2> QED
    BY <1>1, <1>3, <2>1, QuietStep
<1>4. CASE /\ disk' = IF Exists(cur.dst) THEN disk
                      ELSE WithObject(cur.dst, [kind |-> "dir", data |-> <<>>])
           /\ stack' = <<ListFrame("dir", cur.src, cur.dst, ChildrenOf(cur.src))>> \o stack
           /\ pc' = "next"
  <2>1. PlainTypes'
    BY <1>1, <1>2, <1>4 DEF PlainTypes, Pcs
  <2>2. AllSurvive /\ Data' /\ \A p \in DOMAIN disk' : p \in Path
    <3>1. CASE Exists(cur.dst)
      <4>1. disk' = disk
        BY <1>4, <3>1
      <4>2. AllSurvive
        BY <4>1 DEF AllSurvive
      <4>3. Data'
        BY <1>1, <4>1, DataSame DEF FileInv
      <4>4. \A p \in DOMAIN disk' : p \in Path
        BY <4>1 DEF FileInv, Control, FileTypes
      <4> QED  BY <4>2, <4>3, <4>4
    <3>2. CASE ~Exists(cur.dst)
      <4> DEFINE o == [kind |-> "dir", data |-> <<>>]
      <4>2. OnlyDst /\ disk'[cur.dst] = o
        BY <1>4, <3>2, PutOnly
      <4>3. Replaceable
        BY <3>2 DEF Replaceable, Exists
      <4>4. disk'[cur.dst].kind # "file"
        BY <4>2
      <4>5. Data' /\ AllSurvive
        BY <1>1, <1>2, <4>2, <4>3, <4>4, DataDst DEF FileInv
      <4>6. \A p \in DOMAIN disk' : p \in Path
        BY <4>2 DEF OnlyDst, FileInv, Control, FileTypes
      <4> QED  BY <4>5, <4>6
    <3> QED  BY <3>1, <3>2
  <2> QED
    BY <1>1, <1>4, <2>1, <2>2, PushStep
<1> QED
  BY <1>3, <1>4 DEF Goto, GiveUp, Ends

\* A directory at its place in the list is to replace what is at its destination.
LEMMA DirMovedLost ==
    ASSUME FileInv, Lasts, AtObject, DirMoved, job.op = "move", stopped
    PROVE  \E p : p = cur.dst /\ LostUnasked(p)'
<1>1. PICK n \in job.list : cur.src = SourceOf(n)
  BY DEF DirMoved
<1>2. PICK s, d : s = SourceOf(n) /\ d = cur.dst
  OBVIOUS
<1>3. /\ Listed(cur.src) /\ cur.src \in DOMAIN disk /\ cur.kind = disk[cur.src].kind
      /\ cur.dst = Destination(cur.src) /\ cur.kind = "dir"
  BY DEF FileInv, Control, CurOk, DirMoved
<1>4. job.disk[s].kind = "dir" /\ d = Destination(s)
  BY <1>1, <1>2, <1>3 DEF FileInv, Data, SourcesKept
<1>5. LostUnasked(d)
  BY <1>2, <1>4 DEF LostUnasked, SourceOf
<1>6. LostUnasked(d)'
  BY <1>5, LostLasts
<1> QED
  BY <1>2, <1>6

LEMMA UnlinkKeeps ==
    ASSUME FileInv, Lasts, Unlink
    PROVE  FileInv'
<1> USE DEF Unlink, Keep, flags
<1>1. /\ pc = "unlink" /\ AtObject
      /\ UNCHANGED <<job, stopped, cur, stack, victim, after, skipNonRegular, commitAll, agreed>>
  BY DEF AtObject
<1>2. /\ PlainTypes /\ (job.op # "delete" => Doable)
      /\ after = "next" => victim = cur.src
      /\ after = "rename" =>
            victim = cur.dst /\ job.op = "move" /\ DirMoved /\ (victim \in agreed \/ stopped)
      /\ after \in {"failed", "stopped"} => victim = cur.dst /\ job.op # "delete" /\ HalfFile
  BY <1>1 DEF FileInv, Control, FileTypes, Routines, DstOk, VictimOk, HalfFile
<1>3. /\ \A r \in BOOLEAN : AfterUnlink(r) => pc' \in {"next", "done"} \/ (pc' = "rename" /\ after = "rename")
      /\ AfterUnlink(TRUE) /\ after = "next" => pc' = "next"
  BY <1>2 DEF AfterUnlink, Goto, GiveUp, Ends, PlainTypes
<1>4. ASSUME \/ pc' \in {"next", "done"}
             \/ pc' = "rename" /\ after = "rename" /\ (cur.dst \in DOMAIN disk' => cur.dst \in agreed')
      PROVE  Rest'
  <2>1. PlainTypes'
    BY <1>1, <1>2, <1>4 DEF PlainTypes, Pcs
  <2>2. Routines'
    BY <1>1, <1>2, <1>4, JobStays DEF Routines, Writing
  <2>3. DstOk'
    BY <1>1, <1>2, <1>4 DEF DstOk, Writing, HalfFile
  <2>4. VictimOk'
    BY <1>4 DEF VictimOk
  <2> QED  BY <2>1, <2>2, <2>3, <2>4 DEF Rest
<1>5. CASE disk' = disk
  <2>1. PICK a \in {"retry", "skip", "cancel", "none"} :
            /\ Asks({"retry", "skip"}, a)
            /\ IF a = "retry" THEN Goto("unlink") ELSE AfterUnlink(a = "skip")
            /\ left' = IF a # "retry" /\ after \in {"failed", "stopped"}
                       THEN left \cup {victim} ELSE left
    <3>1. CASE Exists(victim) /\ disk' = WithoutObject(victim)
      <4>1. victim \notin DOMAIN disk'
        BY <3>1, TakenFacts
      <4> QED  BY <1>5, <3>1, <4>1 DEF Exists
    <3> QED  BY <3>1
  <2>2. CASE a # "retry"
    <3>1. AfterUnlink(a = "skip") /\ (HalfFile => cur.dst \in left')
      BY <1>1, <1>2, <2>1, <2>2 DEF HalfFile
    <3>2. \/ pc' \in {"next", "done"}
          \/ pc' = "rename" /\ after = "rename" /\ a = "skip"
      BY <1>2, <3>1 DEF AfterUnlink, Goto, GiveUp, Ends, PlainTypes
    <3>3. a = "skip" => ~stopped
      BY <2>1 DEF Asks, Answers
    <3>4. Rest'
      BY <1>1, <1>2, <1>4, <3>2, <3>3
    <3> QED  BY <1>1, <1>5, <3>1, <3>2, <3>4, QuietStep
  <2>3. CASE a = "retry"
    <3>1. pc' = "unlink" /\ DirMoved' = DirMoved /\ HalfFile' = HalfFile
      BY <1>1, <2>1, <2>3 DEF Goto, DirMoved, SourceOf, HalfFile
    <3>2. Rest'
      <4>1. PlainTypes'
        BY <1>1, <1>2, <3>1 DEF PlainTypes, Pcs
      <4>2. Routines'
        BY <1>1, <1>2, <3>1, JobStays DEF Routines, Writing
      <4>3. DstOk'
        BY <1>1, <1>2, <1>5, <3>1 DEF DstOk, Writing, FileInv, Control
      <4>4. VictimOk'
        BY <1>1, <1>5, <3>1 DEF VictimOk, FileInv, Control
      <4> QED  BY <4>1, <4>2, <4>3, <4>4 DEF Rest
    <3> QED  BY <1>1, <1>5, <3>1, <3>2, QuietStep
  <2> QED  BY <2>2, <2>3
<1>6. CASE ~IsDirAt(victim) /\ disk' = WithoutObject(victim) /\ AfterUnlink(TRUE) /\ after = "next"
  <2>1. pc' = "next" /\ disk' = WithoutObject(cur.src)
    BY <1>2, <1>3, <1>6
  <2>2. PICK x \in Path : x = cur.src
    BY DEF FileInv, Control, FileTypes
  <2>3. /\ DOMAIN disk' = DOMAIN disk \ {x}
        /\ \A r \in DOMAIN disk' : disk'[r] = disk[r]
    BY <2>1, <2>2, TakenFacts
  <2>4. Survive(cur.src)
    BY <2>2, <2>3, BelowSelf DEF Survive
  <2>5. job' = job /\ Apart' = Apart
    BY <1>1, JobStays
  <2>6. StackOk' /\ CurOk' /\ Beginning'
    BY <1>1, <2>1, <2>4, ObjectGone DEF FileInv
  <2>7. Data'
    BY <1>1, <1>6, <2>1, DataTakenSource DEF FileInv
  <2>8. Rest'
    BY <1>4, <2>1
  <2>9. FileTypes'
    BY <1>1, <2>3, <2>8 DEF FileInv, Control, FileTypes, Rest
  <2> QED
    BY <2>5, <2>6, <2>7, <2>8, <2>9 DEF FileInv, Control, Rest
<1>7. CASE ~IsDirAt(victim) /\ disk' = WithoutObject(victim) /\ AfterUnlink(TRUE) /\ after # "next"
  <2>1. /\ victim = cur.dst /\ job.op # "delete"
        /\ pc' \in {"next", "done"} \/ (pc' = "rename" /\ after = "rename")
    BY <1>2, <1>3, <1>7 DEF PlainTypes
  <2>2. OnlyDst /\ cur.dst \notin DOMAIN disk'
    BY <1>7, <2>1, TakenOnly
  <2>3. Replaceable
    <3>1. CASE after = "rename"
      BY <1>1, <1>2, <3>1, DirMovedLost DEF Replaceable
    <3>2. CASE HalfFile
      BY <3>2 DEF Replaceable, FileInv, Control, DstOk
    <3> QED  BY <1>2, <1>7, <3>1, <3>2 DEF PlainTypes
  <2>4. Rest'
    BY <1>1, <1>4, <2>1, <2>2
  <2> QED
    BY <1>1, <1>7, <2>1, <2>2, <2>3, <2>4, DstStep
<1> QED
  BY <1>5, <1>6, <1>7

\* The thread is between two objects, and nothing has happened to the disk.
LEMMA IdleStep ==
    ASSUME FileInv, Lasts, ~AtObject, UNCHANGED <<disk, stack, commitAll, skipNonRegular, after>>,
           pc' \in {"next", "rmdir", "done"}, pc' = "next" => pc = "begin",
           pc' = "rmdir" => Top.kind # "list" /\ Top.todo = {},
           pc' # "done" /\ job.op # "delete" => Doable,
           UNCHANGED <<cur, stopped>>
    PROVE  FileInv'
<1>1. job' = job /\ Apart' = Apart /\ Doable' = Doable
  BY JobStays DEF Lasts
<1>2. AllSurvive
  BY DEF AllSurvive
<1>3. StackOk'
  BY <1>1, <1>2, StackSame DEF FileInv, Control
<1>4. CurOk' /\ DstOk' /\ VictimOk'
  BY DEF CurOk, AtObject, DstOk, Writing, HalfFile, VictimOk
<1>5. FileTypes'
  BY <1>1 DEF FileInv, Control, FileTypes, PlainTypes, Pcs
<1>6. Routines'
  BY <1>1 DEF Routines, Writing
<1>7. Beginning'
  BY DEF Beginning
<1>8. Data'
  BY DataSame DEF FileInv, AtObject, HalfFile
<1> QED
  BY <1>1, <1>3, <1>4, <1>5, <1>6, <1>7, <1>8 DEF FileInv, Control

LEMMA BeginKeeps ==
    ASSUME FileInv, Lasts, Begin
    PROVE  FileInv'
<1> USE DEF Begin, Keep, flags
<1>1. /\ pc = "begin" /\ ~AtObject
      /\ UNCHANGED <<job, stopped, disk, cur, stack, skipNonRegular, commitAll, after>>
  BY DEF AtObject
<1>2. CASE pc' = "done"
  BY <1>1, <1>2, IdleStep
<1>3. CASE pc' = "next" /\ ~(Cardinality(job.list) > 1 /\ ~IsDirAt(job.to))
  <2>1. job \in Job /\ disk = job.disk
    BY <1>1 DEF FileInv, Control, FileTypes, Beginning
  <2>2. Doable
    <3>1. CASE IsDirAt(job.to)
      BY <2>1, <3>1 DEF Doable, IntoDirectory, IsDirAt, Exists
    <3>2. CASE ~(Cardinality(job.list) > 1)
      <4>1. IsFiniteSet(job.list) /\ job.list # {}
        BY <2>1, JobFacts
      <4>2. Cardinality(job.list) \in Nat /\ Cardinality(job.list) # 0
        BY <4>1, FS_CardinalityType, FS_EmptySet
      <4>3. Cardinality(job.list) = 1
        BY <3>2, <4>2
      <4>4. \E n : job.list = {n}
        BY <4>1, <4>3, FS_Singleton
      <4> QED  BY <4>4 DEF Doable
    <3> QED  BY <1>3, <3>1, <3>2
  <2> QED
    BY <1>1, <1>3, <2>2, IdleStep
<1> QED
  BY <1>2, <1>3 DEF Goto, GiveUp, Ends

\* The thread has done with a directory.
LEMMA PopStep ==
    ASSUME FileInv, Lasts, ~AtObject, stack' = Tail(stack), Top.kind # "list", pc' = "next",
           UNCHANGED <<cur, commitAll, skipNonRegular, after, stopped>>,
           job.op # "delete" => Doable,
           Data', \A p \in DOMAIN disk' : p \in Path,
           \/ AllSurvive
           \/ \E x \in Path : Survive(x) /\ \A i \in 1..Len(stack) : i > 1 => Under(x, stack[i])
    PROVE  FileInv'
<1>1. job' = job /\ Apart' = Apart /\ Doable' = Doable
  BY JobStays DEF Lasts
<1>2. StackOk' /\ stack' \in Seq(Frames) /\ stack' # <<>>
  BY <1>1, StackPopped DEF FileInv, Control
<1>3. CurOk' /\ DstOk' /\ VictimOk'
  BY DEF CurOk, AtObject, DstOk, Writing, HalfFile, VictimOk
<1>4. FileTypes'
  BY <1>1, <1>2 DEF FileInv, Control, FileTypes, PlainTypes, Pcs
<1>5. Routines'
  BY <1>1 DEF Routines, Writing
<1>6. Beginning'
  BY DEF Beginning
<1> QED
  BY <1>1, <1>2, <1>3, <1>4, <1>5, <1>6 DEF FileInv, Control

LEMMA EndOfListKeeps ==
    ASSUME FileInv, Lasts, EndOfList
    PROVE  FileInv'
<1> USE DEF EndOfList, Keep, flags
<1>1. /\ pc = "next" /\ ~AtObject /\ Top.todo = {} /\ ~HalfFile
      /\ UNCHANGED <<job, stopped, disk, cur, skipNonRegular, commitAll, after>>
  BY DEF AtObject, HalfFile
<1>2. job.op # "delete" => Doable
  BY <1>1 DEF FileInv, Control, Routines
<1>3. CASE stack' = stack /\ pc' \in {"done", "rmdir"} /\ (pc' = "rmdir" => Top.kind # "list")
  BY <1>1, <1>2, <1>3, IdleStep
<1>4. CASE stack' = Tail(stack) /\ Top.kind # "list" /\ pc' = "next"
  <2>1. AllSurvive
    BY <1>1 DEF AllSurvive
  <2>2. Data' /\ \A p \in DOMAIN disk' : p \in Path
    BY <1>1, DataSame DEF FileInv, Control, FileTypes
  <2> QED
    BY <1>1, <1>2, <1>4, <2>1, <2>2, PopStep
<1> QED
  BY <1>3, <1>4 DEF Goto, Ends

LEMMA RmDirKeeps ==
    ASSUME FileInv, Lasts, RmDir
    PROVE  FileInv'
<1> USE DEF RmDir, Keep, flags
<1>1. /\ pc = "rmdir" /\ ~AtObject /\ ~HalfFile
      /\ UNCHANGED <<job, stopped, cur, skipNonRegular, commitAll, after>>
  BY DEF AtObject, HalfFile
<1>2. /\ job.op # "delete" => Doable
      /\ Top.kind # "list" /\ Top.todo = {}
  BY <1>1 DEF FileInv, Control, Routines, StackOk
<1>3. CASE disk' = disk /\ stack' = stack /\ pc' \in {"done", "rmdir"}
  BY <1>1, <1>2, <1>3, IdleStep
<1>4. CASE disk' = disk /\ stack' = Tail(stack) /\ pc' = "next"
  <2>1. AllSurvive
    BY <1>4 DEF AllSurvive
  <2>2. Data' /\ \A p \in DOMAIN disk' : p \in Path
    BY <1>1, <1>4, DataSame DEF FileInv, Control, FileTypes
  <2> QED
    BY <1>1, <1>2, <1>4, <2>1, <2>2, PopStep
<1>5. CASE /\ IsDirAt(RemovedDir) /\ disk' = WithoutObject(RemovedDir)
           /\ stack' = Tail(stack) /\ pc' = "next"
  <2>1. PICK x : x = RemovedDir
    OBVIOUS
  <2>2. /\ Len(stack) \in Nat /\ 1 \in 1..Len(stack) /\ Top = stack[1] /\ Top \in Frames
        /\ FrameOk(Top)
    <3>1. /\ Len(stack) \in Nat /\ 1 \in 1..Len(stack) /\ Top = stack[1] /\ Top \in Frames
      BY StackFacts DEF FileInv, Control, FileTypes
    <3>2. FrameOk(stack[1])
      BY <3>1 DEF FileInv, Control, StackOk
    <3> QED  BY <3>1, <3>2
  <2>3. /\ x \in Path /\ Listed(x)
        /\ x \in DOMAIN disk /\ disk[x].kind = "dir" /\ disk' = WithoutObject(x)
        /\ x = Top.src \/ x = Top.last
    <3>1. IsDirAt(x) /\ disk' = WithoutObject(x)
      BY <1>5, <2>1
    <3>2. x = Top.src \/ x = Top.last
      BY <2>1 DEF RemovedDir
    <3>3. Top.src \in Path /\ Top.last \in Path /\ Listed(Top.src) /\ Listed(Top.last)
      BY <1>2, <2>2, FramesFacts DEF FrameOk
    <3> QED  BY <3>1, <3>2, <3>3 DEF IsDirAt, Exists
  <2>4. \A i \in 1..Len(stack) : i > 1 => Under(x, stack[i])
    BY <2>2, <2>3 DEF FileInv, Control, StackOk
  <2>5. /\ DOMAIN disk' = DOMAIN disk \ {x}
        /\ \A r \in DOMAIN disk' : disk'[r] = disk[r]
    BY <2>3, TakenFacts
  <2>6. Survive(x)
    BY <2>3, <2>5, BelowSelf DEF Survive
  <2>7. Data'
    BY <1>1, <2>3, DataTakenDir DEF FileInv, Control, FileTypes
  <2>9. \A p \in DOMAIN disk' : p \in Path
    BY <2>5 DEF FileInv, Control, FileTypes
  <2> QED
    BY <1>1, <1>2, <1>5, <2>3, <2>4, <2>6, <2>7, <2>9, PopStep
<1> QED
  BY <1>3, <1>4, <1>5 DEF Goto, GiveUp, Ends

LEMMA FramesAreOk ==
    ASSUME FileInv
    PROVE  /\ \A i \in 1..Len(stack) : FrameOk(stack[i])
           /\ \A i \in 1..Len(stack) : stack[i].kind = "list" <=> i = Len(stack)
           /\ \A i, j \in 1..Len(stack) : i < j =>
                    Under(stack[i].src, stack[j]) /\ Under(stack[i].last, stack[j])
BY DEF FileInv, Control, StackOk

\* The next object of the list.
LEMMA NextObjectKeeps ==
    ASSUME FileInv, Lasts, NextObject
    PROVE  FileInv'
<1> USE DEF Keep, flags
<1>1. /\ pc = "next" /\ ~AtObject /\ ~HalfFile /\ Top.todo # {}
      /\ UNCHANGED <<job, stopped, disk, skipNonRegular, commitAll, after>>
  BY DEF NextObject, AtObject, HalfFile
<1>2. /\ PlainTypes /\ job \in Job /\ (job.op # "delete" => Doable)
      /\ stack \in Seq(Frames) /\ stack # <<>>
  BY <1>1 DEF FileInv, Control, FileTypes, Routines
<1>3. CASE GiveUp /\ UNCHANGED <<cur, stack>>
  <2>1. pc' = "done"
    BY <1>3 DEF GiveUp, Ends
  <2> QED  BY <1>1, <1>3, <2>1, IdleStep
<1>4. ASSUME NEW n \in Top.todo, NEW s, s = Append(Top.src, n),
             cur' = [src |-> s, dst |-> Target(Top, n), kind |-> disk[s].kind],
             stack' = <<[Top EXCEPT !.todo = @ \ {n}, !.last = s]>> \o Tail(stack),
             pc' = Routine(Top, disk[s].kind)
      PROVE  FileInv'
  <2>f. PICK f : f = Top
    OBVIOUS
  <2>g. PICK g : g = [f EXCEPT !.todo = @ \ {n}, !.last = s]
    OBVIOUS
  <2>1. /\ Len(stack) \in Nat /\ Len(stack) >= 1 /\ f = stack[1] /\ f \in Frames
        /\ \A i \in 1..Len(stack) : stack[i] \in Frames
        /\ Tail(stack) \in Seq(Frames) /\ Len(Tail(stack)) = Len(stack) - 1
        /\ \A i \in 1 .. Len(stack) - 1 : Tail(stack)[i] = stack[i + 1]
    BY <1>2, <2>f, StackFacts
  <2>2. FrameOk(f) /\ (f.kind = "list" <=> 1 = Len(stack))
    <3>1. 1 \in 1..Len(stack)
      BY <2>1
    <3>2. FrameOk(stack[1]) /\ (stack[1].kind = "list" <=> 1 = Len(stack))
      BY <3>1, FramesAreOk
    <3> QED  BY <2>f, <2>1, <3>2
  <2>3. /\ f.kind \in {"list", "dir", "merge"} /\ f.src \in Path /\ f.dst \in Path
        /\ f.last \in Path /\ f.todo \subseteq Name /\ n \in Name
    BY <1>4, <2>f, <2>1, FramesFacts
  <2>4. /\ Listed(s) /\ s \in DOMAIN disk /\ s \in Path
        /\ Len(s) = Len(f.src) + 1 /\ s[Len(f.src) + 1] = n /\ IsBelow(s, f.src)
        /\ Len(f.src) \in Nat
    <3>1. Listed(Append(f.src, n)) /\ Append(f.src, n) \in DOMAIN disk
      BY <1>4, <2>f, <2>2 DEF FrameOk
    <3> QED  BY <1>4, <2>f, <2>3, <3>1, AppendBelow, PathFacts
  <2>5. PICK k : k = disk[s].kind
    OBVIOUS
  <2>6. k \in {"file", "link", "special", "dir"}
    <3>1. s \in DOMAIN job.disk /\ disk[s] = job.disk[s]
      BY <2>4 DEF FileInv, Data, SourcesKept
    <3>2. disk[s] \in Object
      BY <1>2, <3>1, JobFacts
    <3> QED  BY <2>5, <3>2 DEF Object
  <2>7. /\ g \in Frames /\ g.kind = f.kind /\ g.src = f.src /\ g.dst = f.dst
        /\ g.todo = f.todo \ {n} /\ g.last = s
    BY <2>g, <2>1, <2>3, <2>4 DEF Frames
  <2>8. /\ stack' \in Seq(Frames) /\ stack' # <<>> /\ Len(stack') = Len(stack)
        /\ stack'[1] = g
        /\ \A i \in 1..Len(stack) : i > 1 => stack'[i] = stack[i]
    <3>1. stack' = <<g>> \o Tail(stack)
      BY <1>4, <2>f, <2>g
    <3>2. /\ stack' \in Seq(Frames) /\ stack' # <<>> /\ Len(stack') = Len(Tail(stack)) + 1
          /\ stack'[1] = g
          /\ \A i \in 1..Len(Tail(stack)) : stack'[i + 1] = Tail(stack)[i]
      BY <2>1, <2>7, <3>1, PushedFacts
    <3>3. ASSUME NEW i \in 1..Len(stack), i > 1
          PROVE  stack'[i] = stack[i]
      <4>1. i - 1 \in 1..Len(Tail(stack)) /\ i - 1 + 1 = i /\ i - 1 \in 1 .. Len(stack) - 1
        BY <2>1, <3>3
      <4>2. stack'[i - 1 + 1] = Tail(stack)[i - 1] /\ Tail(stack)[i - 1] = stack[i - 1 + 1]
        BY <2>1, <3>2, <4>1
      <4> QED  BY <4>1, <4>2
    <3> QED  BY <2>1, <3>2, <3>3
  <2>9. job' = job /\ Apart' = Apart /\ Doable' = Doable /\ AllSurvive
    BY <1>1, JobStays DEF AllSurvive
  <2>10. \A i \in 1..Len(stack) : i > 1 => Under(s, stack[i])
    <3>1. ASSUME NEW i \in 1..Len(stack), i > 1
          PROVE  Under(s, stack[i])
      <4>1. 1 \in 1..Len(stack) /\ stack[i] \in Frames
        BY <2>1
      <4>2. Under(f.src, stack[i])
        BY <2>1, <3>1, <4>1, FramesAreOk
      <4> QED  BY <2>3, <2>4, <4>1, <4>2, UnderBelow
    <3> QED  BY <3>1
  <2>11. Under(s, g)
    BY <2>4, <2>7 DEF Under
  <2>12. FrameOk(g)
    <3>1. /\ \A t \in g.todo : t \in f.todo
          /\ \A t \in f.todo : Listed(Append(f.src, t)) /\ Append(f.src, t) \in DOMAIN disk
      BY <2>2, <2>7 DEF FrameOk
    <3>2. \A t \in g.todo : Listed(Append(g.src, t)) /\ Append(g.src, t) \in DOMAIN disk
      BY <2>7, <3>1
    <3> QED  BY <2>2, <2>4, <2>7, <3>2 DEF FrameOk
  <2>13. pc' \in {"link", "readdir", "file", "mvdir", "mvfile", "delfile"}
    BY <1>4, <2>5, <2>6 DEF Routine, CopyRoutine, MoveRoutine, DeleteRoutine
  <2>14. StackOk'
    <3>1. ASSUME NEW i \in 1..Len(stack')
          PROVE  FrameOk(stack[i])' /\ (stack'[i].kind = "list" <=> i = Len(stack'))
      <4>1. PICK h \in Frames : h = stack'[i] /\ FrameOk(h) /\ (h.kind = "list" <=> i = Len(stack))
        <5>1. CASE i = 1
          BY <2>1, <2>2, <2>7, <2>8, <2>12, <5>1
        <5>2. CASE i # 1
          <6>1. i \in 1..Len(stack) /\ i > 1
            BY <2>1, <2>8, <5>2
          <6>2. FrameOk(stack[i]) /\ (stack[i].kind = "list" <=> i = Len(stack))
            BY <6>1, FramesAreOk
          <6> QED  BY <2>1, <2>8, <6>1, <6>2
        <5> QED  BY <5>1, <5>2
      <4>2. FrameOk(h)'
        BY <2>9, <4>1, FrameLasts
      <4>3. FrameOk(stack[i])'
        BY <4>1, <4>2 DEF FrameOk
      <4> QED  BY <2>8, <4>1, <4>3
    <3>2. ASSUME NEW i \in 1..Len(stack'), NEW j \in 1..Len(stack'), i < j
          PROVE  Under(stack'[i].src, stack'[j]) /\ Under(stack'[i].last, stack'[j])
      <4>1. i \in 1..Len(stack) /\ j \in 1..Len(stack) /\ j > 1 /\ stack'[j] = stack[j]
        BY <2>1, <2>8, <3>2
      <4>2. Under(stack[i].src, stack[j]) /\ Under(stack[i].last, stack[j])
        BY <3>2, <4>1, FramesAreOk
      <4>3. CASE i = 1
        BY <2>1, <2>7, <2>8, <2>10, <4>1, <4>2, <4>3
      <4>4. CASE i # 1
        BY <2>1, <2>8, <4>1, <4>2, <4>4
      <4> QED  BY <4>3, <4>4
    <3> QED  BY <2>13, <3>1, <3>2 DEF StackOk
  <2>15. job.op # "delete" => Target(Top, n) = Destination(s)
    <3>1. SUFFICES ASSUME job.op # "delete"
                   PROVE  Target(Top, n) = Destination(s)
      OBVIOUS
    <3>2. CASE f.kind = "list"
      <4>1. f.src = job.from /\ f.dst = job.to
        BY <2>2, <3>2 DEF FrameOk
      <4>2. s = SourceOf(n) /\ n \in job.list
        BY <1>4, <2>f, <2>2, <2>4, <4>1 DEF SourceOf, Listed
      <4>3. Destination(s) = IF IntoDirectory THEN Append(job.to, n) ELSE job.to
        BY <1>2, <4>2, DestinationTop
      <4> QED  BY <3>2, <4>1, <4>3, <2>f DEF Target
    <3>3. CASE f.kind # "list"
      <4>1. f.dst = Destination(f.src) /\ Listed(f.src)
        BY <2>2, <3>1, <3>3 DEF FrameOk
      <4>2. Destination(Append(f.src, n)) = Append(Destination(f.src), n)
        BY <1>2, <2>3, <4>1, DestinationAppend
      <4> QED  BY <1>4, <3>3, <4>1, <4>2, <2>f DEF Target
    <3> QED  BY <3>2, <3>3
  <2>16. CurOk'
    <3>1. PICK d : d = Target(Top, n)
      OBVIOUS
    <3>2. /\ cur'.src = s /\ cur'.dst = d /\ cur'.kind = disk[s].kind
      BY <1>4, <3>1
    <3>3. Listed(s)' /\ (job.op # "delete" => d = Destination(s)')
      BY <2>4, <2>9, <2>15, <3>1, JobStays
    <3>4. Listed(cur.src)' /\ (job.op # "delete" => cur'.dst = Destination(cur.src)')
      BY <3>2, <3>3 DEF Listed, Destination, IntoDirectory
    <3>5. \A i \in 1..Len(stack') : Under(cur'.src, stack'[i])
      <4>1. ASSUME NEW i \in 1..Len(stack')
            PROVE  Under(s, stack'[i])
        <5>1. i = 1 \/ (i \in 1..Len(stack) /\ i > 1)
          BY <2>1, <2>8
        <5> QED  BY <2>8, <2>10, <2>11, <5>1
      <4> QED  BY <3>2, <4>1
    <3> QED  BY <1>1, <2>4, <2>9, <3>2, <3>4, <3>5 DEF CurOk
  <2>17. cur'.dst \in Path /\ cur'.src \in Path
    <3>1. Target(Top, n) \in Path
      <4>1. Append(f.dst, n) \in Path
        BY <2>3, AppendBelow
      <4> QED  BY <2>f, <2>3, <4>1 DEF Target
    <3> QED  BY <1>4, <2>4, <3>1
  <2>18. PlainTypes' /\ FileTypes'
    BY <1>1, <1>2, <2>8, <2>13, <2>17 DEF FileInv, Control, FileTypes, PlainTypes, Pcs
  <2>19. Routines'
    <3>1. cur'.kind = k
      BY <1>4, <2>5
    <3>2. /\ pc' = "link" => k = "link" /\ job.op # "delete"
          /\ pc' = "file" => k \in {"file", "special"} /\ job.op # "delete"
          /\ pc' \in {"mvdir", "mvfile"} => job.op = "move"
          /\ pc' = "delfile" => job.op = "delete"
      BY <1>4, <2>5, <2>6 DEF Routine, CopyRoutine, MoveRoutine, DeleteRoutine
    <3> QED  BY <1>1, <1>2, <2>9, <2>13, <3>1, <3>2 DEF Routines, Writing
  <2>20. DstOk' /\ Beginning'
    BY <2>13 DEF DstOk, Writing, HalfFile, Beginning
  <2>21. VictimOk'
    <3>1. ASSUME pc' = "mvdir"
          PROVE  DirMoved'
      <4>1. f.kind = "list" /\ k = "dir"
        BY <1>4, <2>f, <2>5, <3>1 DEF Routine, CopyRoutine, MoveRoutine, DeleteRoutine
      <4>2. f.src = job.from /\ cur'.kind = "dir"
        BY <1>4, <2>2, <2>5, <4>1 DEF FrameOk
      <4>3. s = SourceOf(n) /\ n \in job.list
        BY <1>4, <2>f, <2>4, <4>2 DEF SourceOf, Listed
      <4>4. cur'.src = Append(job'.from, n) /\ n \in job'.list
        BY <1>4, <2>9, <4>3 DEF SourceOf
      <4> QED  BY <4>2, <4>4 DEF DirMoved, SourceOf
    <3> QED  BY <2>13, <3>1 DEF VictimOk
  <2>22. Data'
    BY <1>1, <2>9, DataSame DEF FileInv
  <2> QED
    BY <2>9, <2>14, <2>16, <2>18, <2>19, <2>20, <2>21, <2>22 DEF FileInv, Control
<1> QED
  BY <1>3, <1>4 DEF NextObject, Goto

\* The user stops the operation, or nothing happens.
LEMMA SameStep ==
    ASSUME FileInv, Lasts, stopped' \in BOOLEAN,
           UNCHANGED <<disk, pc, cur, stack, victim, after, flags, agreed>>
    PROVE  FileInv'
<1> USE DEF flags
<1>1. job' = job /\ Apart' = Apart /\ Doable' = Doable
  BY JobStays DEF Lasts
<1>2. AllSurvive /\ AtObject' = AtObject /\ Writing' = Writing /\ HalfFile' = HalfFile
  BY DEF AllSurvive, AtObject, Writing, HalfFile
<1>3. StackOk'
  BY <1>1, <1>2, StackSame DEF FileInv, Control, StackOk
<1>4. FileTypes'
  BY <1>1 DEF FileInv, Control, FileTypes, PlainTypes
<1>5. Routines'
  BY <1>1, <1>2 DEF FileInv, Control, Routines
<1>6. CurOk'
  <2>1. CASE AtObject
    BY <1>1, <1>2, <2>1, ObjectStays DEF FileInv, AtObject
  <2>2. CASE ~AtObject
    BY <1>2, <2>2 DEF CurOk
  <2> QED  BY <2>1, <2>2
<1>7. Beginning'
  BY <1>1 DEF FileInv, Control, Beginning
<1>9. DstOk'
  BY <1>1, <1>2 DEF FileInv, Control, DstOk, Lasts
<1>10. VictimOk'
  <2>1. DirMoved' = DirMoved
    BY <1>1 DEF DirMoved, SourceOf
  <2>2. stopped => stopped'
    BY DEF Lasts
  <2> QED  BY <1>1, <2>1, <2>2 DEF FileInv, Control, VictimOk
<1>11. Data'
  BY <1>2, DataSame DEF FileInv
<1> QED
  BY <1>1, <1>3, <1>4, <1>5, <1>6, <1>7, <1>9, <1>10, <1>11 DEF FileInv, Control
-----------------------------------------------------------------------------
(* The invariant holds at first, and every step keeps it.                  *)

LEMMA InitHolds ==
    ASSUME FileInit, Apart
    PROVE  FileInv
<1> DEFINE f == ListFrame("list", job.from, job.to, job.list)
<1>1. /\ job \in Job /\ disk = job.disk /\ stack = <<f>>
      /\ pc = IF job.op = "delete" THEN "next" ELSE "begin"
      /\ cur = [src |-> job.from, dst |-> job.to, kind |-> "dir"]
      /\ after = "next" /\ commitAll = FALSE /\ skipNonRegular = FALSE /\ stopped = FALSE
  BY DEF FileInit
<1>2. /\ job.op \in {"copy", "move", "delete"}
      /\ job.from \in Path /\ job.to \in Path
      /\ job.list \subseteq Name
      /\ \A p \in DOMAIN job.disk :
                /\ p \in Path /\ job.disk[p] \in Object
                /\ job.disk[p].kind # "dir" => job.disk[p].data # Partial
      /\ \A n \in job.list : SourceOf(n) \in DOMAIN job.disk
  BY <1>1, JobFacts
<1>3. /\ f \in Frames /\ f.kind = "list" /\ f.src = job.from /\ f.dst = job.to
      /\ f.todo = job.list
  BY <1>2 DEF ListFrame, Frames
<1> HIDE DEF f
<1>4. stack \in Seq(Frames) /\ stack # <<>> /\ Len(stack) = 1 /\ stack[1] = f /\ Top = f
  <2>1. <<f>> \in Seq(Frames)
    BY <1>3
  <2>2. <<f>> # <<>>
    OBVIOUS
  <2> QED  BY <1>1, <2>1, <2>2 DEF Top
<1>5. pc \in {"next", "begin"} /\ (pc = "next" <=> job.op = "delete")
  BY <1>1
<1>6. FileTypes
  BY <1>1, <1>2, <1>4, <1>5 DEF FileTypes, PlainTypes, Pcs
<1>7. Routines
  BY <1>5 DEF Routines, Writing
<1>8. StackOk
  <2>1. FrameOk(f)
    <3>1. \A n \in job.list : Listed(SourceOf(n)) /\ SourceOf(n) \in DOMAIN disk
      BY <1>1, <1>2, SourceListed
    <3> QED  BY <1>3, <3>1 DEF FrameOk, SourceOf
  <2>2. \A i \in 1..Len(stack) : i = 1
    BY <1>4
  <2>3. ~(\E i, j \in 1..Len(stack) : i < j)
    BY <2>2
  <2>4. \A i \in 1..Len(stack) : FrameOk(stack[i]) /\ (stack[i].kind = "list" <=> i = Len(stack))
    BY <1>3, <1>4, <2>1, <2>2
  <2> QED  BY <1>5, <2>3, <2>4 DEF StackOk
<1>9. Beginning /\ CurOk /\ DstOk /\ VictimOk /\ ~HalfFile
  BY <1>1, <1>5 DEF Beginning, CurOk, AtObject, DstOk, Writing, HalfFile, VictimOk
<1>11. SourcesKept /\ OthersKept /\ ListedKept
  BY <1>1 DEF SourcesKept, OthersKept, ListedKept
<1>12. HalfKept
  BY <1>1, <1>2 DEF HalfKept
<1> QED
  BY <1>6, <1>7, <1>8, <1>9, <1>11, <1>12 DEF FileInv, Control, Data

LEMMA FileStepKeeps ==
    ASSUME FileInv, [FileNext]_fileVars
    PROVE  FileInv'
<1>1. PlainTypes
  BY DEF FileInv, Control, FileTypes
<1>2. Lasts
  BY <1>1, StepLasts DEF PlainTypes
<1>3. CASE FileStep
  <2>1. CASE Begin
    BY <1>2, <2>1, BeginKeeps
  <2>2. CASE NextObject
    BY <1>2, <2>2, NextObjectKeeps
  <2>3. CASE EndOfList
    BY <1>2, <2>3, EndOfListKeeps
  <2>4. CASE Unlink
    BY <1>2, <2>4, UnlinkKeeps
  <2>5. CASE RmDir
    BY <1>2, <2>5, RmDirKeeps
  <2>6. CASE ReadDir
    BY <1>2, <2>6, ReadDirKeeps
  <2>7. CASE MkDir
    BY <1>2, <2>7, MkDirKeeps
  <2>8. CASE CopyLink
    BY <1>2, <2>8, CopyLinkKeeps
  <2>9. CASE CopyFile
    BY <1>2, <2>9, CopyFileKeeps
  <2>10. CASE OpenSource
    BY <1>2, <2>10, OpenSourceKeeps
  <2>11. CASE CreateCopy
    BY <1>2, <2>11, CreateCopyKeeps
  <2>12. CASE Overwrite
    BY <1>2, <2>12, OverwriteKeeps
  <2>13. CASE CopyData
    BY <1>2, <2>13, CopyDataKeeps
  <2>14. CASE CloseCopy
    BY <1>2, <2>14, CloseCopyKeeps
  <2>15. CASE MoveFile
    BY <1>2, <2>15, MoveFileKeeps
  <2>16. CASE MoveDelete
    BY <1>2, <2>16, MoveDeleteKeeps
  <2>17. CASE Rename
    BY <1>2, <2>17, RenameKeeps
  <2>18. CASE MoveDir
    BY <1>2, <2>18, MoveDirKeeps
  <2>19. CASE DeleteFile
    BY <1>2, <2>19, DeleteFileKeeps
  <2>20. CASE MakeLink
    BY <1>2, <2>20, MakeLinkKeeps
  <2>21. CASE MergeDir
    BY <1>2, <2>21, MergeDirKeeps
  <2> QED
    BY <1>3, <2>1, <2>2, <2>3, <2>4, <2>5, <2>6, <2>7, <2>8, <2>9, <2>10, <2>11, <2>12, <2>13,
       <2>14, <2>15, <2>16, <2>17, <2>18, <2>19, <2>20, <2>21 DEF FileStep
<1>4. CASE StopOperation
  BY <1>2, <1>4, SameStep DEF StopOperation, ghosts
<1>5. CASE UNCHANGED fileVars
  BY <1>1, <1>2, <1>5, SameStep DEF fileVars, flags, PlainTypes
<1> QED
  BY <1>3, <1>4, <1>5 DEF FileNext, FileDone
-----------------------------------------------------------------------------
(* What the invariant says of the disk.                                    *)

LEMMA InvNothingLost == FileInv => NothingLost
<1>1. SUFFICES ASSUME FileInv, NEW p \in DOMAIN job.disk, job.disk[p].kind # "dir"
               PROVE  \/ \E q \in DOMAIN disk : disk[q] = job.disk[p]
                      \/ p \in agreed /\ (job.op # "delete" => ~Listed(p))
                      \/ LostUnasked(p)
  BY DEF NothingLost
<1>2. CASE Listed(p)
  <2>1. \/ p \in DOMAIN disk
        \/ AtDestination(p)
        \/ job.op = "delete" /\ p \in agreed
        \/ LostUnasked(p)
    BY <1>1, <1>2 DEF FileInv, Data, ListedKept
  <2>2. p \in DOMAIN disk => disk[p] = job.disk[p]
    BY <1>1, <1>2 DEF FileInv, Data, SourcesKept
  <2> QED  BY <2>1, <2>2 DEF AtDestination
<1>3. CASE ~Listed(p)
  BY <1>1, <1>3 DEF FileInv, Data, OthersKept
<1> QED
  BY <1>2, <1>3

LEMMA InvNoHalfFile == FileInv => NoHalfFile
BY DEF FileInv, Data, HalfKept, HalfFile, NoHalfFile

-----------------------------------------------------------------------------
(***************************************************************************)
(* Each object is to be copied or moved to where it is.  Nothing changes   *)
(* but directories, and what is there of an object that a failing Stat has *)
(* told to be another.                                                     *)
(***************************************************************************)
SelfFrame(f) == IF f.kind = "list"
                THEN f.src = job.from /\ f.dst = job.to /\ f.todo \subseteq job.list
                ELSE f.src = f.dst

SelfStack == /\ stack \in Seq(Frames) /\ stack # <<>> /\ stack[Len(stack)].kind = "list"
             /\ \A i \in 1..Len(stack) : SelfFrame(stack[i])

\* where the object that is worked on may be changed
Changes == {"symlink", "open", "create", "overwrite", "data", "close", "mvdelete", "rename", "unlink"}

SelfControl ==
    /\ job \in Job /\ OntoItself /\ cur.src \in Path /\ SelfStack
    /\ pc # "delfile" /\ (pc = "rmdir" => Top.kind # "list")
    /\ AtObject => cur.src = cur.dst
    /\ pc \in Changes => cur.dst \in unseen
    /\ pc = "unlink" => victim = cur.dst

SelfData ==
    /\ \A p \in DOMAIN job.disk : job.disk[p].kind # "dir" =>
            (p \in DOMAIN disk /\ disk[p] = job.disk[p]) \/ p \in unseen
    /\ \A p \in DOMAIN disk : disk[p].kind = "file" /\ disk[p].data = Partial => p \in unseen

SelfInv == SelfControl /\ SelfData

LEMMA SelfTarget ==
    ASSUME job \in Job, OntoItself, NEW f \in Frames, SelfFrame(f), NEW n \in f.todo
    PROVE  Target(f, n) = Append(f.src, n)
<1>1. CASE f.kind # "list"
  BY <1>1 DEF SelfFrame, Target
<1>2. CASE f.kind = "list" /\ IntoDirectory
  BY <1>2 DEF SelfFrame, Target, OntoItself
<1>3. CASE f.kind = "list" /\ ~IntoDirectory
  <2>1. PICK m \in job.list : job.list = {m} /\ job.to = Append(job.from, m)
    BY <1>3 DEF OntoItself
  <2>2. n = m /\ f.dst = job.to /\ f.src = job.from
    BY <1>3, <2>1 DEF SelfFrame
  <2> QED  BY <1>3, <2>1, <2>2 DEF Target
<1> QED
  BY <1>1, <1>2, <1>3

LEMMA SelfFrameLasts ==
    ASSUME job' = job
    PROVE  OntoItself' = OntoItself /\ \A f : SelfFrame(f)' = SelfFrame(f)
<1>1. IntoDirectory' = IntoDirectory
  BY DEF IntoDirectory
<1>2. OntoItself' = OntoItself
  BY <1>1 DEF OntoItself, IntoDirectory
<1>3. \A f : SelfFrame(f)' = SelfFrame(f)
  BY DEF SelfFrame
<1> QED
  BY <1>2, <1>3

LEMMA SelfStackLasts ==
    ASSUME job' = job, stack' \in Seq(Frames), stack' # <<>>, stack'[Len(stack')].kind = "list",
           \A i \in 1..Len(stack') : SelfFrame(stack'[i])
    PROVE  SelfStack'
BY DEF SelfStack, SelfFrame

LEMMA SelfPush ==
    ASSUME SelfStack, job' = job, NEW f \in Frames, f.kind # "list", f.src = f.dst,
           stack' = <<f>> \o stack
    PROVE  SelfStack'
<1>1. /\ stack' \in Seq(Frames) /\ stack' # <<>>
      /\ Len(stack') = Len(stack) + 1 /\ stack'[1] = f
      /\ \A i \in 1..Len(stack) : stack'[i + 1] = stack[i]
  BY PushedFacts DEF SelfStack
<1>2. Len(stack) \in Nat /\ Len(stack) \in 1..Len(stack)
  BY StackFacts DEF SelfStack
<1>3. ASSUME NEW i \in 1..Len(stack')
      PROVE  SelfFrame(stack'[i])
  <2>1. CASE i = 1
    BY <1>1, <2>1 DEF SelfFrame
  <2>2. CASE i # 1
    <3>1. i - 1 \in 1..Len(stack) /\ i - 1 + 1 = i
      BY <1>1, <1>2, <2>2
    <3>2. stack'[i] = stack[i - 1]
      BY <1>1, <3>1
    <3> QED  BY <3>1, <3>2 DEF SelfStack
  <2> QED  BY <2>1, <2>2
<1>4. stack'[Len(stack')].kind = "list"
  BY <1>1, <1>2 DEF SelfStack
<1> QED
  BY <1>1, <1>3, <1>4, SelfStackLasts

LEMMA SelfPop ==
    ASSUME SelfStack, job' = job, Top.kind # "list", stack' = Tail(stack)
    PROVE  SelfStack'
<1>1. /\ Len(stack) \in Nat /\ Len(stack) >= 1 /\ Top = stack[1]
      /\ stack' \in Seq(Frames) /\ Len(stack') = Len(stack) - 1
      /\ \A i \in 1 .. Len(stack) - 1 : stack'[i] = stack[i + 1]
  BY StackFacts DEF SelfStack
<1>2. Len(stack) > 1
  <2>1. stack[Len(stack)].kind = "list"
    BY DEF SelfStack
  <2>2. Len(stack) # 1
    BY <1>1, <2>1
  <2> QED  BY <1>1, <2>2
<1>3. stack' # <<>> /\ Len(stack') \in 1 .. Len(stack) - 1 /\ Len(stack') + 1 = Len(stack)
  <2>1. Len(stack') \in 1 .. Len(stack) - 1 /\ Len(stack') + 1 = Len(stack) /\ Len(stack') # 0
    BY <1>1, <1>2
  <2>2. stack' # <<>>
    BY <1>1, <2>1, EmptySeq
  <2> QED  BY <2>1, <2>2
<1>4. stack'[Len(stack')] = stack[Len(stack)]
  BY <1>1, <1>3
<1>5. ASSUME NEW i \in 1..Len(stack')
      PROVE  SelfFrame(stack'[i])
  <2>1. stack'[i] = stack[i + 1] /\ i + 1 \in 1..Len(stack)
    BY <1>1
  <2>2. SelfFrame(stack[i + 1])
    BY <2>1 DEF SelfStack
  <2> QED  BY <2>1, <2>2
<1>6. stack'[Len(stack')].kind = "list"
  BY <1>4 DEF SelfStack
<1> QED
  BY <1>1, <1>3, <1>5, <1>6, SelfStackLasts

\* What a step may do to the disk.
LEMMA SelfDataLasts ==
    ASSUME SelfData, job' = job, unseen \subseteq unseen',
           \A r \in DOMAIN disk : disk[r].kind # "dir" /\ r \notin unseen =>
                r \in DOMAIN disk' /\ disk'[r] = disk[r],
           \A r \in DOMAIN disk' : disk'[r].kind = "file" /\ r \notin unseen =>
                r \in DOMAIN disk /\ disk'[r] = disk[r]
    PROVE  SelfData'
<1>1. ASSUME NEW p \in DOMAIN job.disk, job.disk[p].kind # "dir", p \notin unseen'
      PROVE  p \in DOMAIN disk' /\ disk'[p] = job.disk[p]
  <2>1. p \notin unseen /\ p \in DOMAIN disk /\ disk[p] = job.disk[p]
    BY <1>1 DEF SelfData
  <2> QED  BY <1>1, <2>1
<1>2. ASSUME NEW p \in DOMAIN disk', disk'[p].kind = "file", disk'[p].data = Partial,
             p \notin unseen'
      PROVE  FALSE
  BY <1>2 DEF SelfData
<1> QED
  BY <1>1, <1>2 DEF SelfData

\* The object is where it was overlooked: what is there may be anything.
LEMMA SelfDataAt ==
    ASSUME SelfData, job' = job, unseen' = unseen, NEW x, x \in unseen,
           \/ disk' = disk
           \/ disk' = WithoutObject(x)
           \/ \E o : disk' = WithObject(x, o)
    PROVE  SelfData'
<1>1. CASE disk' = disk
  BY <1>1 DEF SelfData
<1>2. CASE disk' = WithoutObject(x)
  <2>1. DOMAIN disk' = DOMAIN disk \ {x} /\ \A r \in DOMAIN disk' : disk'[r] = disk[r]
    BY <1>2, TakenFacts
  <2> QED  BY <2>1, SelfDataLasts
<1>3. ASSUME NEW o, disk' = WithObject(x, o)
      PROVE  SelfData'
  <2>1. /\ DOMAIN disk' = DOMAIN disk \cup {x}
        /\ \A r \in DOMAIN disk : r # x => disk'[r] = disk[r]
    BY <1>3, PutFacts
  <2> QED  BY <2>1, SelfDataLasts
<1> QED
  BY <1>1, <1>2, <1>3

LEMMA SelfQuiet ==
    ASSUME SelfInv, SelfData', job' = job, UNCHANGED <<cur, stack>>, unseen \subseteq unseen',
           pc' # "delfile", pc' = "rmdir" => Top.kind # "list",
           AtObject \/ pc' \in {"begin", "next", "rmdir", "done"},
           pc' \in Changes => cur.dst \in unseen',
           pc' = "unlink" => victim' = cur.dst
    PROVE  SelfInv'
<1>1. OntoItself' /\ SelfStack'
  BY SelfFrameLasts DEF SelfInv, SelfControl, SelfStack
<1>2. AtObject' => AtObject
  BY DEF AtObject
<1> QED
  BY <1>1, <1>2 DEF SelfInv, SelfControl, Top

LEMMA SelfChanges ==
    ASSUME SelfInv, pc \in Changes, UNCHANGED <<job, cur, stack, unseen>>,
           \/ disk' = disk
           \/ disk' = WithoutObject(cur.dst)
           \/ \E o : disk' = WithObject(cur.dst, o),
           pc' \in Changes \cup {"next", "done", "link", "readdir", "file"},
           pc' = "unlink" => \/ victim' \in {cur.src, cur.dst}
                             \/ pc = "unlink" /\ victim' = victim
    PROVE  SelfInv'
<1>1. AtObject /\ cur.src = cur.dst /\ cur.dst \in unseen
  BY DEF Changes, AtObject, SelfInv, SelfControl
<1>2. PICK x : x = cur.dst
  OBVIOUS
<1>3. SelfData'
  BY <1>1, <1>2, SelfDataAt DEF SelfInv
<1>4. pc' = "unlink" => victim' = cur.dst
  <2>1. CASE pc' = "unlink" /\ pc # "unlink"
    BY <1>1, <2>1
  <2>2. pc = "unlink" => victim = cur.dst
    BY DEF SelfInv, SelfControl
  <2> QED  BY <1>1, <2>1, <2>2
<1>5. pc' # "delfile" /\ pc' # "rmdir"
  BY DEF Changes
<1> QED
  BY <1>1, <1>3, <1>4, <1>5, SelfQuiet

LEMMA ReturnsGoes ==
    ASSUME NEW r, Returns(r)
    PROVE  pc' \in {"next", "done", "link", "readdir", "file"}
BY DEF Returns, Goto, GiveUp, Ends, CopyRoutine

\* The steps that change the object where it is.
LEMMA SelfChangeSteps ==
    ASSUME SelfInv,
           \/ MakeLink \/ OpenSource \/ CreateCopy \/ Overwrite \/ CopyData \/ CloseCopy
           \/ MoveDelete \/ Rename \/ Unlink
    PROVE  SelfInv'
<1> USE DEF Keep, ghosts, flags, Changes
<1> DEFINE Ok == pc' = "unlink" => victim' \in {cur.src, cur.dst}
<1>1. Copied => pc' \in {"next", "unlink"} /\ Ok
  BY DEF Copied, StartUnlink, Goto
<1>2. CopyFails => pc' = "unlink" /\ victim' = cur.dst
  BY DEF CopyFails, StartUnlink, Goto
<1>3. CantCreate => pc' \in {"next", "done"}
  BY DEF CantCreate, Goto, GiveUp, Ends
<1>4. CreatesFile => pc' = "data" /\ \E o : disk' = WithObject(cur.dst, o)
  BY DEF CreatesFile, Goto
<1>5. CASE MakeLink
  <2>1. pc' \in {"next", "unlink", "done", "symlink"} /\ Ok
    BY <1>1, <1>5 DEF MakeLink, Goto, GiveUp, Ends
  <2>2. disk' = disk \/ \E o : disk' = WithObject(cur.dst, o)
    BY <1>5 DEF MakeLink
  <2> QED  BY <1>5, <2>1, <2>2, SelfChanges DEF MakeLink
<1>6. CASE OpenSource
  <2>1. pc' \in {"next", "create", "done", "open"}
    BY <1>6 DEF OpenSource, Goto, GiveUp, Ends
  <2> QED  BY <1>6, <2>1, SelfChanges DEF OpenSource
<1>7. CASE CreateCopy
  <2>1. pc' \in {"next", "data", "overwrite", "done"}
    BY <1>3, <1>4, <1>7 DEF CreateCopy, Goto, GiveUp, Ends
  <2>2. disk' = disk \/ \E o : disk' = WithObject(cur.dst, o)
    BY <1>4, <1>7 DEF CreateCopy
  <2> QED  BY <1>7, <2>1, <2>2, SelfChanges DEF CreateCopy
<1>8. CASE Overwrite
  <2>1. pc' \in {"next", "data", "done"}
    BY <1>3, <1>4, <1>8 DEF Overwrite
  <2>2. disk' = disk \/ \E o : disk' = WithObject(cur.dst, o)
    BY <1>4, <1>8 DEF Overwrite
  <2> QED  BY <1>8, <2>1, <2>2, SelfChanges DEF Overwrite
<1>9. CASE CopyData
  <2>1. pc' \in {"close", "unlink"} /\ Ok
    BY <1>2, <1>9 DEF CopyData, Goto
  <2> QED  BY <1>9, <2>1, SelfChanges DEF CopyData
<1>10. CASE CloseCopy
  <2>1. pc' \in {"next", "unlink"} /\ Ok
    BY <1>1, <1>2, <1>10 DEF CloseCopy
  <2>2. disk' = disk \/ \E o : disk' = WithObject(cur.dst, o)
    BY <1>10 DEF CloseCopy
  <2> QED  BY <1>10, <2>1, <2>2, SelfChanges DEF CloseCopy
<1>11. CASE MoveDelete
  <2>1. pc' \in {"rename", "next", "done", "link", "readdir", "file"}
    BY <1>11, ReturnsGoes DEF MoveDelete, SkipOrStop, Goto
  <2> QED  BY <1>11, <2>1, SelfChanges DEF MoveDelete
<1>12. CASE Rename
  <2>1. pc' \in {"next", "done", "link", "readdir", "file"}
    BY <1>12, ReturnsGoes DEF Rename, SkipOrStop
  <2>2. cur.src = cur.dst
    BY <1>12 DEF Rename, SelfInv, SelfControl, AtObject
  <2>3. disk' = disk
    BY <1>12, <2>2 DEF Rename
  <2> QED  BY <1>12, <2>1, <2>3, SelfChanges DEF Rename
<1>13. CASE Unlink
  <2>1. pc' \in {"next", "rename", "done", "unlink"}
    BY <1>13 DEF Unlink, AfterUnlink, Goto, GiveUp, Ends
  <2>2. disk' = disk \/ disk' = WithoutObject(cur.dst)
    BY <1>13 DEF Unlink, SelfInv, SelfControl
  <2> QED  BY <1>13, <2>1, <2>2, SelfChanges DEF Unlink
<1> QED
  BY <1>5, <1>6, <1>7, <1>8, <1>9, <1>10, <1>11, <1>12, <1>13

LEMMA Overlooked ==
    ASSUME cur.src = cur.dst, NEW same \in Told(IsSameFile), NEW found, Overlooks(same, found)
    PROVE  unseen \subseteq unseen' /\ (~same => cur.dst \in unseen')
<1>1. IsSameFile /\ same \in BOOLEAN
  BY DEF IsSameFile, Told
<1> QED
  BY <1>1 DEF Overlooks

\* The steps that ask whether the object is its own target.
LEMMA SelfLookSteps ==
    ASSUME SelfInv, CopyLink \/ CopyFile \/ MoveFile \/ MoveDir
    PROVE  SelfInv'
<1> USE DEF Keep, ghosts, flags
<1>1. /\ AtObject /\ cur.src = cur.dst /\ pc \notin Changes /\ UNCHANGED <<job, disk, cur, stack>>
  BY DEF SelfInv, SelfControl, AtObject, Changes, CopyLink, CopyFile, MoveFile, MoveDir
<1>2. unseen \subseteq unseen' => SelfData'
  BY <1>1, SelfDataLasts DEF SelfInv
<1>3. ASSUME unseen \subseteq unseen', pc' \in {"next", "done", "link", "readdir", "file", "merge"}
      PROVE  SelfInv'
  <2>1. pc' \notin Changes /\ pc' \notin {"delfile", "rmdir", "unlink"}
    BY <1>3 DEF Changes
  <2> QED  BY <1>1, <1>2, <1>3, <2>1, SelfQuiet
<1>4. ASSUME unseen \subseteq unseen', cur.dst \in unseen', pc' \notin {"delfile", "rmdir"},
             pc' = "unlink" => victim' = cur.dst
      PROVE  SelfInv'
  BY <1>1, <1>2, <1>4, SelfQuiet
<1>5. CASE CopyLink
  <2>1. PICK same \in Told(IsSameFile) :
            OverlooksItself(same) /\ IF same THEN GiveUp ELSE Goto("symlink")
    BY <1>5 DEF CopyLink
  <2>2. unseen \subseteq unseen' /\ (~same => cur.dst \in unseen')
    BY <1>1, <2>1, Overlooked DEF OverlooksItself
  <2> QED  BY <1>3, <1>4, <2>1, <2>2 DEF GiveUp, Ends, Goto
<1>6. CASE CopyFile
  <2>1. CASE pc' \in {"next", "done"} /\ unseen' = unseen
    BY <1>3, <2>1
  <2>2. ASSUME NEW same \in Told(IsSameFile), OverlooksItself(same),
               IF same THEN GiveUp ELSE Goto("open")
        PROVE  SelfInv'
    <3>1. unseen \subseteq unseen' /\ (~same => cur.dst \in unseen')
      BY <1>1, <2>2, Overlooked DEF OverlooksItself
    <3> QED  BY <1>3, <1>4, <2>2, <3>1 DEF GiveUp, Ends, Goto
  <2>3. \/ pc' \in {"next", "done"} /\ unseen' = unseen
        \/ \E same \in Told(IsSameFile) :
                OverlooksItself(same) /\ IF same THEN GiveUp ELSE Goto("open")
    BY <1>6 DEF CopyFile, GiveUp, Ends, Goto
  <2> QED  BY <2>1, <2>2, <2>3
<1>7. CASE MoveFile
  <2>1. CASE Returns(1) /\ unseen' = unseen
    BY <1>3, <2>1, ReturnsGoes
  <2>2. ASSUME NEW same \in Told(IsSameFile), NEW found, Overlooks(same, found),
               \/ same /\ Returns(-1)
               \/ ~same /\ (Goto("rename") \/ Replaces)
        PROVE  SelfInv'
    <3>1. unseen \subseteq unseen' /\ (~same => cur.dst \in unseen')
      BY <1>1, <2>2, Overlooked
    <3>2. CASE Returns(-1)
      BY <1>3, <3>1, <3>2, ReturnsGoes
    <3>3. CASE ~same /\ Goto("rename")
      BY <1>4, <3>1, <3>3 DEF Goto
    <3>4. CASE ~same /\ Replaces
      <4>1. pc' \in {"mvdelete", "next", "done", "link", "readdir", "file"}
        BY <3>4, ReturnsGoes DEF Replaces, Goto
      <4> QED  BY <1>4, <3>1, <3>4, <4>1
    <3> QED  BY <2>2, <3>2, <3>3, <3>4
  <2> QED  BY <1>7, <2>1, <2>2 DEF MoveFile
<1>8. CASE MoveDir
  <2>1. CASE \E r : Returns(r) /\ unseen' = unseen
    BY <1>3, <2>1, ReturnsGoes
  <2>2. ASSUME NEW same \in Told(IsSameFile), NEW found, Overlooks(same, found),
               \/ same /\ Returns(-1)
               \/ ~same /\ (ReplaceFile \/ Goto(IF found THEN "merge" ELSE "rename"))
        PROVE  SelfInv'
    <3>1. unseen \subseteq unseen' /\ (~same => cur.dst \in unseen')
      BY <1>1, <2>2, Overlooked
    <3>2. CASE Returns(-1)
      BY <1>3, <3>1, <3>2, ReturnsGoes
    <3>3. CASE ~same /\ Goto(IF found THEN "merge" ELSE "rename")
      BY <1>4, <3>1, <3>3 DEF Goto
    <3>4. CASE ~same /\ ReplaceFile
      <4>1. \/ pc' = "unlink" /\ victim' = cur.dst
            \/ pc' \in {"next", "done", "link", "readdir", "file"}
        BY <3>4, ReturnsGoes DEF ReplaceFile, StartUnlink, Goto
      <4> QED  BY <1>4, <3>1, <3>4, <4>1
    <3> QED  BY <2>2, <3>2, <3>3, <3>4
  <2> QED  BY <1>8, <2>1, <2>2 DEF MoveDir
<1> QED
  BY <1>5, <1>6, <1>7, <1>8

\* The steps from one object to the next, and into and out of a directory.
LEMMA SelfListSteps ==
    ASSUME SelfInv,
           Begin \/ NextObject \/ EndOfList \/ RmDir \/ ReadDir \/ MkDir \/ MergeDir
    PROVE  SelfInv'
<1> USE DEF Keep, ghosts, flags
<1>1. /\ job' = job /\ unseen' = unseen /\ job.op # "delete" /\ job \in Job
      /\ OntoItself' /\ SelfStack /\ stack \in Seq(Frames) /\ stack # <<>>
  BY SelfFrameLasts DEF SelfInv, SelfControl, SelfStack, OntoItself,
     Begin, NextObject, EndOfList, RmDir, ReadDir, MkDir, MergeDir
<1>2. disk' = disk => SelfData'
  BY <1>1, SelfDataLasts DEF SelfInv
<1>3. ASSUME UNCHANGED <<cur, stack>>, SelfData', pc' = "rmdir" => Top.kind # "list",
             pc' \in {"next", "rmdir", "done"} \/ (AtObject /\ pc' \in {"readdir", "mkdir", "merge"})
      PROVE  SelfInv'
  <2>1. pc' \notin Changes /\ pc' # "delfile" /\ pc' # "unlink"
    BY <1>3 DEF Changes
  <2> QED  BY <1>1, <1>3, <2>1, SelfQuiet
<1>4. ASSUME cur' = cur, SelfStack', SelfData', pc' = "next"
      PROVE  SelfInv'
  <2>1. pc' \notin Changes /\ ~AtObject'
    BY <1>4 DEF Changes, AtObject
  <2> QED  BY <1>1, <1>4, <2>1 DEF SelfInv, SelfControl
<1>5. CASE Begin
  BY <1>2, <1>3, <1>5 DEF Begin, Goto, GiveUp, Ends
<1>6. CASE NextObject
  <2>1. CASE GiveUp /\ UNCHANGED <<cur, stack>>
    BY <1>2, <1>3, <1>6, <2>1 DEF NextObject, GiveUp, Ends
  <2>2. ASSUME NEW n \in Top.todo, NEW s, s = Append(Top.src, n),
               cur' = [src |-> s, dst |-> Target(Top, n), kind |-> disk[s].kind],
               stack' = <<[Top EXCEPT !.todo = @ \ {n}, !.last = s]>> \o Tail(stack),
               pc' = Routine(Top, disk[s].kind)
        PROVE  SelfInv'
    <3>1. /\ Top = stack[1] /\ 1 \in 1..Len(stack) /\ Top \in Frames /\ SelfFrame(Top)
          /\ Len(stack) \in Nat
      BY <1>1, StackFacts DEF SelfStack
    <3>2. n \in Name /\ s \in Path /\ Target(Top, n) = s
      BY <1>1, <2>2, <3>1, SelfTarget, FramesFacts, AppendBelow DEF SelfInv, SelfControl
    <3>3. cur'.src = s /\ cur'.dst = s
      BY <2>2, <3>2
    <3>4. /\ stack' \in Seq(Frames) /\ stack' # <<>> /\ Len(stack') = Len(stack)
          /\ stack'[1].kind = stack[1].kind /\ stack'[1].src = stack[1].src
          /\ stack'[1].dst = stack[1].dst /\ stack'[1].todo = stack[1].todo \ {n}
          /\ \A i \in 1..Len(stack) : i > 1 => stack'[i] = stack[i]
      BY <1>1, <2>2, <3>2, BegunFrame
    <3>5. ASSUME NEW i \in 1..Len(stack')
          PROVE  SelfFrame(stack'[i]) /\ stack'[i].kind = stack[i].kind
      <4>1. CASE i = 1
        <5>1. PICK f, g : f = stack[1] /\ g = stack'[1]
          OBVIOUS
        <5>2. SelfFrame(f) /\ g.kind = f.kind /\ g.src = f.src /\ g.dst = f.dst /\ g.todo \subseteq f.todo
          BY <3>1, <3>4, <5>1
        <5>3. SelfFrame(g)
          BY <5>2 DEF SelfFrame
        <5> QED  BY <4>1, <5>1, <5>2, <5>3
      <4>2. CASE i # 1
        <5>1. i \in 1..Len(stack) /\ i > 1
          BY <3>1, <3>4, <4>2
        <5> QED  BY <1>1, <3>4, <5>1 DEF SelfStack
      <4> QED  BY <4>1, <4>2
    <3>6. SelfStack'
      <4>1. Len(stack') \in 1..Len(stack')
        BY <3>1, <3>4
      <4>2. stack'[Len(stack')].kind = "list"
        BY <1>1, <3>4, <3>5, <4>1 DEF SelfStack
      <4> QED  BY <1>1, <3>4, <3>5, <4>2, SelfStackLasts
    <3>7. pc' \in {"link", "readdir", "file", "mvdir", "mvfile"}
      BY <1>1, <2>2 DEF Routine, CopyRoutine, MoveRoutine
    <3>8. SelfData'
      BY <1>2, <1>6 DEF NextObject
    <3> QED  BY <1>1, <3>2, <3>3, <3>6, <3>7, <3>8 DEF SelfInv, SelfControl, Changes
  <2> QED  BY <1>6, <2>1, <2>2 DEF NextObject, Goto
<1>7. CASE EndOfList
  <2>1. SelfData' /\ cur' = cur
    BY <1>2, <1>7 DEF EndOfList
  <2>2. CASE Ends(TRUE) /\ UNCHANGED stack
    BY <1>3, <2>1, <2>2 DEF Ends
  <2>3. CASE Top.kind # "list" /\ Goto("next") /\ stack' = Tail(stack)
    BY <1>1, <1>4, <2>1, <2>3, SelfPop DEF Goto
  <2>4. CASE Top.kind # "list" /\ Goto("rmdir") /\ UNCHANGED stack
    BY <1>3, <2>1, <2>4 DEF Goto
  <2> QED  BY <1>7, <2>2, <2>3, <2>4 DEF EndOfList
<1>8. CASE RmDir
  <2>1. Top.kind # "list" /\ cur' = cur
    BY <1>8 DEF RmDir, SelfInv, SelfControl
  <2>2. SelfData'
    <3>1. CASE disk' = disk
      BY <1>2, <3>1
    <3>2. CASE IsDirAt(RemovedDir) /\ disk' = WithoutObject(RemovedDir)
      <4>1. PICK x : x = RemovedDir
        OBVIOUS
      <4>2. /\ disk[x].kind = "dir"
            /\ DOMAIN disk' = DOMAIN disk \ {x} /\ \A r \in DOMAIN disk' : disk'[r] = disk[r]
        BY <3>2, <4>1, TakenFacts DEF IsDirAt
      <4> QED  BY <1>1, <4>2, SelfDataLasts DEF SelfInv
    <3> QED  BY <1>8, <3>1, <3>2 DEF RmDir
  <2>3. CASE Goto("next") /\ stack' = Tail(stack)
    BY <1>1, <1>4, <2>1, <2>2, <2>3, SelfPop DEF Goto
  <2>4. CASE (Goto("rmdir") \/ GiveUp) /\ UNCHANGED stack
    BY <1>3, <2>1, <2>2, <2>4 DEF Goto, GiveUp, Ends
  <2> QED  BY <1>8, <2>3, <2>4 DEF RmDir
<1>9. CASE ReadDir
  <2>1. SelfData' /\ cur' = cur /\ AtObject /\ stack' = stack
    BY <1>1, <1>2, <1>9 DEF ReadDir, AtObject
  <2>2. pc' \in {"mkdir", "readdir", "next", "done"}
    BY <1>9 DEF ReadDir, Goto, GiveUp, Ends
  <2> QED  BY <1>3, <2>1, <2>2
<1>10. ASSUME NEW kind \in {"dir", "merge"}, AtObject, cur' = cur, SelfData', pc' = "next",
              stack' = <<ListFrame(kind, cur.src, cur.dst, ChildrenOf(cur.src))>> \o stack
       PROVE  SelfInv'
  <2>1. cur.src \in Path /\ cur.src = cur.dst
    BY <1>10 DEF SelfInv, SelfControl
  <2>2. PICK f : f = ListFrame(kind, cur.src, cur.dst, ChildrenOf(cur.src))
    OBVIOUS
  <2>3. f \in Frames /\ f.kind = kind /\ f.src = f.dst
    <3>1. ChildrenOf(cur.src) \in SUBSET Name
      BY DEF ChildrenOf
    <3>2. f = [kind |-> kind, src |-> cur.src, dst |-> cur.dst, todo |-> ChildrenOf(cur.src),
               last |-> cur.src]
      BY <2>2 DEF ListFrame
    <3> QED  BY <2>1, <3>1, <3>2 DEF Frames
  <2>4. stack' = <<f>> \o stack
    BY <1>10, <2>2
  <2>5. SelfStack'
    BY <1>1, <2>3, <2>4, SelfPush
  <2> QED  BY <1>4, <1>10, <2>5
<1>11. CASE MkDir
  <2>1. AtObject /\ cur' = cur /\ cur.src = cur.dst
    BY <1>11 DEF MkDir, AtObject, SelfInv, SelfControl
  <2>2. SelfData'
    <3>1. CASE disk' = disk
      BY <1>2, <3>1
    <3>2. CASE ~Exists(cur.dst) /\ disk' = WithObject(cur.dst, [kind |-> "dir", data |-> <<>>])
      <4>1. PICK x, o : x = cur.dst /\ o = [kind |-> "dir", data |-> <<>>]
        OBVIOUS
      <4>2. /\ x \notin DOMAIN disk /\ disk' = WithObject(x, o) /\ o.kind = "dir"
        BY <3>2, <4>1 DEF Exists
      <4>3. /\ x \notin DOMAIN disk /\ DOMAIN disk' = DOMAIN disk \cup {x} /\ disk'[x].kind = "dir"
            /\ \A r \in DOMAIN disk : r # x => disk'[r] = disk[r]
        BY <4>2, PutFacts
      <4> QED  BY <1>1, <4>3, SelfDataLasts DEF SelfInv
    <3> QED  BY <1>11, <3>1, <3>2 DEF MkDir
  <2>3. CASE pc' \in {"mkdir", "next", "done"} /\ UNCHANGED stack
    BY <1>3, <2>1, <2>2, <2>3
  <2>4. \/ pc' \in {"mkdir", "next", "done"} /\ UNCHANGED stack
        \/ /\ pc' = "next"
           /\ stack' = <<ListFrame("dir", cur.src, cur.dst, ChildrenOf(cur.src))>> \o stack
    BY <1>11 DEF MkDir, Goto, GiveUp, Ends
  <2> QED  BY <1>10, <2>1, <2>2, <2>3, <2>4
<1>12. CASE MergeDir
  <2>1. AtObject /\ cur' = cur /\ SelfData'
    BY <1>2, <1>12 DEF MergeDir, AtObject
  <2>2. CASE UNCHANGED stack /\ \E r : Returns(r)
    <3>1. pc' \in {"next", "done", "link", "readdir", "file"}
      BY <2>2, ReturnsGoes
    <3>2. pc' \notin Changes /\ pc' \notin {"delfile", "rmdir", "unlink"}
      BY <3>1 DEF Changes
    <3> QED  BY <1>1, <2>1, <2>2, <3>2, SelfQuiet
  <2>3. CASE UNCHANGED stack /\ Goto("merge")
    BY <1>3, <2>1, <2>3 DEF Goto
  <2>4. CASE /\ Goto("next")
             /\ stack' = <<ListFrame("merge", cur.src, cur.dst, ChildrenOf(cur.src))>> \o stack
    BY <1>10, <2>1, <2>4 DEF Goto
  <2> QED  BY <1>12, <2>2, <2>3, <2>4 DEF MergeDir
<1> QED
  BY <1>5, <1>6, <1>7, <1>8, <1>9, <1>11, <1>12

LEMMA SelfKeeps ==
    ASSUME SelfInv, [FileNext]_fileVars
    PROVE  SelfInv'
<1>1. ASSUME UNCHANGED <<job, disk, pc, cur, stack, victim, unseen>>
      PROVE  SelfInv'
  <2>1. OntoItself' /\ SelfStack'
    BY <1>1, SelfFrameLasts DEF SelfInv, SelfControl, SelfStack
  <2> QED  BY <1>1, <2>1 DEF SelfInv, SelfControl, SelfData, AtObject, Top
<1>2. CASE StopOperation \/ UNCHANGED fileVars
  BY <1>1, <1>2 DEF StopOperation, fileVars, ghosts
<1>3. ~DeleteFile
  BY DEF DeleteFile, SelfInv, SelfControl
<1> QED
  BY <1>2, <1>3, SelfListSteps, SelfLookSteps, SelfChangeSteps DEF FileNext, FileStep, FileDone

LEMMA SelfInit ==
    ASSUME FileInit, OntoItself
    PROVE  SelfInv
<1> DEFINE f == ListFrame("list", job.from, job.to, job.list)
<1>1. /\ job \in Job /\ disk = job.disk /\ stack = <<f>> /\ pc \in {"begin", "next"}
      /\ cur.src = job.from
  BY DEF FileInit
<1>2. /\ job.from \in Path /\ job.to \in Path /\ job.list \subseteq Name
      /\ \A p \in DOMAIN job.disk : job.disk[p].kind # "dir" => job.disk[p].data # Partial
  BY <1>1, JobFacts, JobAssumption
<1>3. f = [kind |-> "list", src |-> job.from, dst |-> job.to, todo |-> job.list, last |-> job.from]
  BY DEF ListFrame
<1> HIDE DEF f
<1>4. f \in Frames /\ SelfFrame(f) /\ f.kind = "list"
  BY <1>2, <1>3 DEF Frames, SelfFrame
<1>5. SelfStack
  BY <1>1, <1>4 DEF SelfStack
<1>6. SelfData
  BY <1>1, <1>2 DEF SelfData
<1> QED
  BY <1>1, <1>2, <1>5, <1>6 DEF SelfInv, SelfControl, AtObject, Changes

LEMMA SelfNothingLost == SelfInv => NothingLost
BY DEF SelfInv, SelfData, NothingLost, LostUnasked

LEMMA SelfNoHalfFile == SelfInv => NoHalfFile
BY DEF SelfInv, SelfControl, SelfData, NoHalfFile

(***************************************************************************)
(* Nothing is lost, when what is listed and where it goes are apart, or    *)
(* when each object is to go where it is: whatever calls of the file       *)
(* system fail, whatever the user answers and whenever he stops the        *)
(* operation (fileopers.cpp), each file, link and special file that the    *)
(* disk held is whole at its place or at its destination, or the user has  *)
(* agreed to lose it, but for the cases LostUnasked names; one of them is  *)
(* a target that a failing Stat (fileopers.cpp:1244, 1765, 1830) has hid.  *)
(***************************************************************************)
THEOREM KeepsEverything == FileSpec /\ (Apart \/ OntoItself) => []NothingLost
<1>1. FileInit /\ (Apart \/ OntoItself) => FileInv \/ SelfInv
  BY InitHolds, SelfInit
<1>2. (FileInv \/ SelfInv) /\ [FileNext]_fileVars => (FileInv \/ SelfInv)'
  BY FileStepKeeps, SelfKeeps
<1>3. FileInv \/ SelfInv => NothingLost
  BY InvNothingLost, SelfNothingLost
<1> QED
  BY <1>1, <1>2, <1>3, PTL DEF FileSpec

(***************************************************************************)
(* A half-written copy (CopyFile in fileopers.cpp) is there only while it  *)
(* is being written or deleted, and afterwards only where deleting it has  *)
(* failed, or where a failing Stat has let a file be copied onto itself.   *)
(***************************************************************************)
THEOREM LeavesNoHalf == FileSpec /\ (Apart \/ OntoItself) => []NoHalfFile
<1>1. FileInit /\ (Apart \/ OntoItself) => FileInv \/ SelfInv
  BY InitHolds, SelfInit
<1>2. (FileInv \/ SelfInv) /\ [FileNext]_fileVars => (FileInv \/ SelfInv)'
  BY FileStepKeeps, SelfKeeps
<1>3. FileInv \/ SelfInv => NoHalfFile
  BY InvNoHalfFile, SelfNoHalfFile
<1> QED
  BY <1>1, <1>2, <1>3, PTL DEF FileSpec
-----------------------------------------------------------------------------
(***************************************************************************)
(* What AllDone needs beside FileInv: whatever is not done yet is still on *)
(* some list, or is being worked on.                                       *)
(***************************************************************************)
Pending(p) ==
    \/ \E i \in 1..Len(stack) : \E n \in stack[i].todo : IsBelow(p, Append(stack[i].src, n))
    \/ AtObject /\ IsBelow(p, cur.src)

\* the listed part of the disk is a tree: what an object is in is a directory
ListedTree ==
    \A p \in DOMAIN disk : \A q \in Path :
        Listed(q) /\ IsBelow(p, q) => q \in DOMAIN disk /\ (q # p => disk[q].kind = "dir")

\* copying takes nothing away
CopyStays == job.op = "copy" => \A p \in DOMAIN job.disk : Listed(p) => p \in DOMAIN disk

\* what gives up says so, and what passes over an object has been told to
Owned ==
    /\ ok \/ pc = "done"
    /\ pc = "done" /\ ok => /\ \A i \in 1..Len(stack) : stack[i].todo = {}
                            /\ job.op # "delete" => Doable
    /\ skipNonRegular => refused
    /\ pc = "unlink" /\ after \in {"failed", "stopped"} => refused
    /\ pc \in {"readdir", "mkdir"} => cur.kind = "dir"
    /\ pc = "rmdir" => job.op # "copy"

Fulfils == ok /\ ~refused /\ ~Merging

\* MoveDir meets no directory at the destination
Renames == job.op = "move" /\ job.fs \in {"same", "mount"}
NoMerge ==
    /\ pc # "merge" /\ \A i \in 1..Len(stack) : stack[i].kind # "merge"
    /\ Renames =>
        /\ \A i \in 1..Len(stack) : stack[i].kind = "list" =>
            \A n \in stack[i].todo :
                job.disk[SourceOf(n)].kind = "dir" => ~IsDirAt(Destination(SourceOf(n)))
        /\ pc = "mvdir" => ~IsDirAt(cur.dst)

WorkLeft ==
    \A p \in DOMAIN disk : Listed(p) /\ disk[p].kind \in {"file", "link"} =>
        Pending(p) \/ (job.op = "copy" /\ AtDestination(p))

WorkInv == ListedTree /\ CopyStays /\ Owned /\ (Fulfils => NoMerge /\ WorkLeft)
-----------------------------------------------------------------------------
(* The parts of WorkInv that a step has to keep.                           *)

\* Neither is an object listed that was not there, nor does a directory go that
\* has one in it.
TreeStep ==
    /\ \A p \in DOMAIN disk' : Listed(p) => p \in DOMAIN disk
    /\ \A p \in DOMAIN disk' : \A q \in DOMAIN disk :
            Listed(p) /\ Listed(q) /\ IsBelow(p, q) => q \in DOMAIN disk'

LEMMA BothKept ==
    ASSUME FileInv, FileInv', job' = job, NEW p \in DOMAIN disk, p \in DOMAIN disk', Listed(p)
    PROVE  disk'[p] = disk[p] /\ p \in DOMAIN job.disk /\ disk[p] = job.disk[p]
BY JobStays DEF FileInv, Data, SourcesKept

LEMMA TreeLasts ==
    ASSUME FileInv, FileInv', job' = job, ListedTree, TreeStep
    PROVE  ListedTree'
<1>1. \A p : Listed(p)' = Listed(p)
  BY JobStays
<1>2. ASSUME NEW p \in DOMAIN disk', NEW q \in Path, Listed(q), IsBelow(p, q)
      PROVE  q \in DOMAIN disk' /\ (q # p => disk'[q].kind = "dir")
  <2>1. p \in Path /\ job \in Job
    BY DEF FileInv, Control, FileTypes
  <2>2. Listed(p)
    BY <1>2, <2>1, ListedBelow
  <2>3. p \in DOMAIN disk
    BY <2>2 DEF TreeStep
  <2>4. q \in DOMAIN disk /\ (q # p => disk[q].kind = "dir")
    BY <1>2, <2>3 DEF ListedTree
  <2>5. q \in DOMAIN disk'
    BY <1>2, <2>2, <2>4 DEF TreeStep
  <2> QED  BY <1>2, <2>4, <2>5, BothKept
<1>3. \A p, q : IsBelow(p, q)' = IsBelow(p, q)
  BY DEF IsBelow
<1> QED
  BY <1>1, <1>2, <1>3 DEF ListedTree

\* Only an object that is on the disk, a file or a link, can be left to do.
Work(p) == p \in DOMAIN disk /\ Listed(p) /\ disk[p].kind \in {"file", "link"}

LEMMA LeftLasts ==
    ASSUME FileInv, FileInv', job' = job, TreeStep, WorkLeft,
           \A p \in DOMAIN disk' : Work(p) /\ Pending(p) =>
                Pending(p)' \/ (job.op = "copy" /\ AtDestination(p)'),
           job.op = "copy" => \A p \in DOMAIN disk' : Work(p) /\ AtDestination(p) =>
                Pending(p)' \/ AtDestination(p)'
    PROVE  WorkLeft'
<1>1. \A p : Listed(p)' = Listed(p)
  BY JobStays
<1>2. ASSUME NEW p \in DOMAIN disk', Listed(p), disk'[p].kind \in {"file", "link"}
      PROVE  Pending(p)' \/ (job.op = "copy" /\ AtDestination(p)')
  <2>1. p \in DOMAIN disk
    BY <1>2 DEF TreeStep
  <2>2. disk'[p] = disk[p]
    BY <1>2, <2>1, BothKept
  <2>3. Work(p)
    BY <1>2, <2>1, <2>2 DEF Work
  <2>4. Pending(p) \/ (job.op = "copy" /\ AtDestination(p))
    BY <2>3 DEF Work, WorkLeft
  <2> QED  BY <2>3, <2>4
<1> QED
  BY <1>1, <1>2 DEF WorkLeft

\* What is at p itself is no directory, and so nothing is below it.
LEMMA WorkAlone ==
    ASSUME FileInv, ListedTree, NEW p, Work(p), NEW q \in Path, Listed(q), IsBelow(p, q)
    PROVE  q \in DOMAIN disk /\ (q # p => disk[q].kind = "dir")
BY DEF Work, ListedTree

\* No object that a list still has to begin goes where that at x goes, or below.
LEMMA TopAway ==
    ASSUME job \in Job, Doable, NEW f \in Frames, FrameOk(f), f.kind = "list",
           NEW n \in f.todo, NEW x \in Path, Listed(x), Under(x, f)
    PROVE  ~IsBelow(Destination(SourceOf(n)), Destination(x))
<1>1. f.src = job.from /\ n \in Name /\ job.from \in Path /\ Len(job.from) \in Nat
  BY FramesFacts, JobFacts DEF FrameOk
<1>2. SourceOf(n) \in Path /\ Listed(SourceOf(n)) /\ Len(SourceOf(n)) = Len(job.from) + 1
      /\ SourceOf(n)[Len(job.from) + 1] = n
  BY <1>1, AppendBelow DEF FrameOk, SourceOf
<1> DEFINE s == SourceOf(n) c == Destination(s) d == Destination(x)
<1>3. /\ Cut \in Nat /\ c \in Path /\ d \in Path /\ Len(job.to) \in Nat
      /\ Len(c) = Len(job.to) + Len(s) - Cut /\ Len(d) = Len(job.to) + Len(x) - Cut
  BY <1>2, DestinationIs, JobFacts, PathFacts
<1>4. Len(x) \in Nat /\ Len(x) >= Len(job.from) + 1
  BY PathFacts, ListedFacts
<1>5. SUFFICES ASSUME IsBelow(c, d)  PROVE FALSE
  OBVIOUS
<1>6. Len(c) <= Len(d)
  BY <1>1, <1>2, <1>3, <1>4
<1>7. c = d
  BY <1>3, <1>5, <1>6, BelowEqual
<1>8. x = s
  BY <1>2, <1>7, DestinationOne
<1> QED
  BY <1>1, <1>2, <1>8 DEF Under

\* No list meets a directory at the destination that was not there before.
LEMMA MergeLasts ==
    ASSUME FileInv, job' = job, NoMerge, Doable \/ \A q : IsDirAt(q)' => IsDirAt(q),
           \A i \in 1..Len(stack') :
                /\ stack'[i].kind # "merge"
                /\ stack'[i].kind = "list" =>
                     \E j \in 1..Len(stack) :
                        stack[j].kind = "list" /\ stack'[i].todo \subseteq stack[j].todo,
           pc' # "merge", pc' = "mvdir" /\ Renames => ~IsDirAt(cur.dst)',
           \/ \A q : IsDirAt(q)' => IsDirAt(q)
           \/ /\ Listed(cur.src) /\ \A i \in 1..Len(stack) : Under(cur.src, stack[i])
              /\ \A q : IsDirAt(q)' => IsDirAt(q) \/ IsBelow(q, Destination(cur.src))
    PROVE  NoMerge'
<1>1. /\ \A p : Destination(p)' = Destination(p)
      /\ \A n : SourceOf(n)' = SourceOf(n)
      /\ Renames' = Renames
  BY JobStays DEF Renames
<1>2. ASSUME Renames, NEW i \in 1..Len(stack'), stack'[i].kind = "list", NEW n \in stack'[i].todo,
             job.disk[SourceOf(n)].kind = "dir"
      PROVE  ~IsDirAt(Destination(SourceOf(n)))'
  <2>1. PICK j \in 1..Len(stack) : stack[j].kind = "list" /\ n \in stack[j].todo
    BY <1>2
  <2>2. ~IsDirAt(Destination(SourceOf(n)))
    BY <1>2, <2>1 DEF NoMerge
  <2>3. PICK t : t = Destination(SourceOf(n))
    OBVIOUS
  <2>4. CASE \A q : IsDirAt(q)' => IsDirAt(q)
    <3>1. ~IsDirAt(t)'
      BY <2>2, <2>3, <2>4
    <3> QED  BY <1>1, <2>3, <3>1 DEF IsDirAt, Exists
  <2>5. CASE /\ Doable /\ Listed(cur.src) /\ \A k \in 1..Len(stack) : Under(cur.src, stack[k])
             /\ \A q : IsDirAt(q)' => IsDirAt(q) \/ IsBelow(q, Destination(cur.src))
    <3>1. /\ job \in Job /\ cur.src \in Path /\ stack[j] \in Frames /\ FrameOk(stack[j])
          /\ Under(cur.src, stack[j])
      BY <2>5, StackFacts DEF FileInv, Control, FileTypes, StackOk
    <3>2. ~IsBelow(t, Destination(cur.src))
      BY <2>1, <2>3, <2>5, <3>1, TopAway
    <3>3. ~IsDirAt(t)'
      BY <2>2, <2>3, <2>5, <3>2
    <3> QED  BY <1>1, <2>3, <3>3 DEF IsDirAt, Exists
  <2> QED  BY <2>4, <2>5
<1> QED
  BY <1>1, <1>2 DEF NoMerge

LEMMA PendingSame ==
    ASSUME UNCHANGED <<cur, stack>>, AtObject => AtObject', NEW p, Pending(p)
    PROVE  Pending(p)'
BY DEF Pending, IsBelow

LEMMA WorkParts ==
    ASSUME FileInv, WorkInv
    PROVE  /\ ListedTree /\ CopyStays /\ Owned /\ (Fulfils => NoMerge /\ WorkLeft)
           /\ job \in Job /\ cur.src \in Path /\ cur.dst \in Path
           /\ \A p \in DOMAIN disk : p \in Path
           /\ stack \in Seq(Frames) /\ stack # <<>>
           /\ \A i \in 1..Len(stack) : stack[i] \in Frames /\ FrameOk(stack[i])
           /\ AtObject => /\ Listed(cur.src) /\ cur.src \in DOMAIN disk
                          /\ cur.kind = disk[cur.src].kind
                          /\ \A i \in 1..Len(stack) : Under(cur.src, stack[i])
BY StackFacts DEF FileInv, Control, FileTypes, StackOk, CurOk, WorkInv

\* Nothing happens to the disk nor to the lists.
LEMMA QuietWorks ==
    ASSUME FileInv, FileInv', WorkInv, Owned', job' = job, disk' = disk,
           Fulfils' => /\ Fulfils /\ UNCHANGED <<cur, stack>> /\ (AtObject => AtObject')
                       /\ pc' # "merge" /\ (pc' = "mvdir" => pc = "mvdir")
    PROVE  WorkInv'
<1>1. /\ \A p : Listed(p)' = Listed(p) /\ Destination(p)' = Destination(p)
      /\ Renames' = Renames /\ Doable' = Doable
  BY JobStays DEF Renames
<1>2. TreeStep
  BY DEF TreeStep
<1>3. ListedTree'
  BY <1>2, TreeLasts DEF WorkInv
<1>4. CopyStays'
  BY <1>1 DEF WorkInv, CopyStays
<1>5. ASSUME Fulfils'
      PROVE  NoMerge' /\ WorkLeft'
  <2>1. Fulfils /\ UNCHANGED <<cur, stack>> /\ (AtObject => AtObject') /\ NoMerge /\ WorkLeft
    BY <1>5 DEF WorkInv
  <2>2. \A q : IsDirAt(q)' <=> IsDirAt(q)
    BY DEF IsDirAt, Exists
  <2>3. NoMerge'
    <3>1. pc' = "mvdir" /\ Renames => ~IsDirAt(cur.dst)'
      <4>1. pc' = "mvdir" /\ Renames => ~IsDirAt(cur.dst)
        BY <1>5, <2>1 DEF NoMerge
      <4> QED  BY <2>1, <4>1 DEF IsDirAt, Exists
    <3>2. \A i \in 1..Len(stack') :
                /\ stack'[i].kind # "merge"
                /\ stack'[i].kind = "list" =>
                     \E j \in 1..Len(stack) :
                        stack[j].kind = "list" /\ stack'[i].todo \subseteq stack[j].todo
      BY <2>1 DEF NoMerge
    <3> QED  BY <1>5, <2>1, <2>2, <3>1, <3>2, MergeLasts
  <2>4. \A p : AtDestination(p)' = AtDestination(p)
    BY <1>1 DEF AtDestination
  <2>5. WorkLeft'
    <3>1. \A p : Pending(p) => Pending(p)'
      BY <2>1, PendingSame
    <3> QED  BY <1>2, <2>1, <2>4, <3>1, LeftLasts
  <2> QED  BY <2>3, <2>5
<1> QED
  BY <1>3, <1>4, <1>5 DEF WorkInv

\* Only what is at the destination of the object that is worked on changes.
LEMMA DstShape ==
    ASSUME FileInv, FileInv', WorkInv, job' = job, AtObject, job.op # "delete",
           cur.src # cur.dst, OnlyDst
    PROVE  /\ TreeStep /\ CopyStays'
           /\ \A p \in DOMAIN disk : Listed(p) /\ p # cur.src /\ AtDestination(p) => AtDestination(p)'
<1>1. /\ \A p : Listed(p)' = Listed(p) /\ Destination(p)' = Destination(p)
      /\ Doable' = Doable
  BY JobStays
<1>2. /\ ~Listed(cur.dst)
      /\ \A p \in Path : Listed(p) /\ Destination(p) = cur.dst => p = cur.src
      /\ \A p \in DOMAIN disk : p \in Path
  BY DstAway DEF FileInv, Control, FileTypes
<1>3. PICK d : d = cur.dst
  OBVIOUS
<1>4. /\ \A r \in DOMAIN disk : r # d => r \in DOMAIN disk' /\ disk'[r] = disk[r]
      /\ \A r \in DOMAIN disk' : r # d => r \in DOMAIN disk
      /\ ~Listed(d)
  BY <1>2, <1>3 DEF OnlyDst
<1>5. TreeStep
  BY <1>4 DEF TreeStep
<1>6. CopyStays'
  BY <1>1, <1>4 DEF CopyStays, WorkInv
<1>7. ASSUME NEW p \in DOMAIN disk, Listed(p), p # cur.src, AtDestination(p)
      PROVE  AtDestination(p)'
  <2>1. Destination(p) # d
    BY <1>2, <1>3, <1>7
  <2> QED  BY <1>1, <1>4, <1>7, <2>1 DEF AtDestination
<1> QED
  BY <1>5, <1>6, <1>7

\* The same: it is still being worked on, or has been copied.
LEMMA DstWorks ==
    ASSUME FileInv, FileInv', WorkInv, Owned', job' = job, UNCHANGED <<cur, stack>>,
           AtObject, job.op # "delete", cur.src # cur.dst, OnlyDst,
           \A d : d = cur.dst /\ IsDirAt(d)' => IsDirAt(d),
           Fulfils' =>
              /\ Fulfils /\ pc' \notin {"mvdir", "merge"}
              /\ AtObject' \/ (job.op = "copy" /\ cur.kind # "dir" /\ \A p : p = cur.src => AtDestination(p)')
    PROVE  WorkInv'
<1>1. /\ TreeStep /\ CopyStays'
      /\ \A p \in DOMAIN disk : Listed(p) /\ p # cur.src /\ AtDestination(p) => AtDestination(p)'
  BY DstShape
<1>2. ListedTree'
  BY <1>1, TreeLasts DEF WorkInv
<1>3. ASSUME Fulfils'
      PROVE  NoMerge' /\ WorkLeft'
  <2>1. Fulfils /\ NoMerge /\ WorkLeft /\ pc' \notin {"mvdir", "merge"}
    BY <1>3 DEF WorkInv
  <2>2. ASSUME NEW q, IsDirAt(q)'
        PROVE  IsDirAt(q)
    <3>1. CASE q = cur.dst
      BY <2>2, <3>1
    <3>2. CASE q # cur.dst
      BY <2>2, <3>2 DEF IsDirAt, Exists, OnlyDst
    <3> QED  BY <3>1, <3>2
  <2>3. NoMerge'
    <3>1. \A i \in 1..Len(stack') :
                /\ stack'[i].kind # "merge"
                /\ stack'[i].kind = "list" =>
                     \E j \in 1..Len(stack) :
                        stack[j].kind = "list" /\ stack'[i].todo \subseteq stack[j].todo
      BY <2>1 DEF NoMerge
    <3> QED  BY <2>1, <2>2, <3>1, MergeLasts
  <2>4. ASSUME NEW p \in DOMAIN disk', Work(p), Pending(p)
        PROVE  Pending(p)' \/ (job.op = "copy" /\ AtDestination(p)')
    <3>1. CASE AtObject'
      BY <2>4, <3>1, PendingSame
    <3>2. CASE ~AtObject'
      <4>1. job.op = "copy" /\ cur.kind # "dir" /\ \A r : r = cur.src => AtDestination(r)'
        BY <1>3, <3>2
      <4>2. CASE IsBelow(p, cur.src)
        <5>1. p = cur.src
          BY <2>4, <4>1, <4>2, WorkParts, WorkAlone
        <5> QED  BY <4>1, <5>1
      <4>3. CASE ~IsBelow(p, cur.src)
        BY <2>4, <4>3 DEF Pending, IsBelow
      <4> QED  BY <4>2, <4>3
    <3> QED  BY <3>1, <3>2
  <2>5. ASSUME job.op = "copy", NEW p \in DOMAIN disk', Work(p), AtDestination(p)
        PROVE  Pending(p)' \/ AtDestination(p)'
    <3>1. CASE p # cur.src
      BY <1>1, <2>5, <3>1 DEF Work
    <3>2. CASE p = cur.src
      <4>1. Pending(p)
        BY <3>2, WorkParts, BelowSelf DEF Pending
      <4> QED  BY <2>4, <2>5, <4>1
    <3> QED  BY <3>1, <3>2
  <2>6. WorkLeft'
    BY <1>1, <2>1, <2>4, <2>5, LeftLasts
  <2> QED  BY <2>3, <2>6
<1> QED
  BY <1>1, <1>2, <1>3 DEF WorkInv

\* The object that was worked on is gone, with all that was in it.
LEMMA GoneWorks ==
    ASSUME FileInv, FileInv', WorkInv, Owned', job' = job, UNCHANGED <<cur, stack>>,
           AtObject, job.op # "copy", Survive(cur.src), pc' \notin {"mvdir", "merge"},
           \A p \in DOMAIN disk' : Listed(p) => p \in DOMAIN disk /\ ~IsBelow(p, cur.src),
           \/ \A q : IsDirAt(q)' => IsDirAt(q)
           \/ Doable /\ \A q : IsDirAt(q)' => IsDirAt(q) \/ IsBelow(q, Destination(cur.src)),
           Fulfils' => Fulfils
    PROVE  WorkInv'
<1>1. TreeStep
  <2>1. ASSUME NEW p \in DOMAIN disk', NEW q \in DOMAIN disk, Listed(p), Listed(q), IsBelow(p, q)
        PROVE  q \in DOMAIN disk'
    <3>1. p \in Path /\ q \in Path /\ cur.src \in Path
      BY WorkParts DEF FileInv, Control, FileTypes
    <3>2. ~IsBelow(q, cur.src)
      BY <2>1, <3>1, BelowTransitive
    <3> QED  BY <2>1, <3>2 DEF Survive
  <2> QED  BY <2>1 DEF TreeStep
<1>2. ListedTree' /\ CopyStays'
  BY <1>1, TreeLasts DEF WorkInv, CopyStays
<1>3. ASSUME Fulfils'
      PROVE  NoMerge' /\ WorkLeft'
  <2>1. NoMerge /\ WorkLeft
    BY <1>3 DEF WorkInv
  <2>2. \A i \in 1..Len(stack') :
                /\ stack'[i].kind # "merge"
                /\ stack'[i].kind = "list" =>
                     \E j \in 1..Len(stack) :
                        stack[j].kind = "list" /\ stack'[i].todo \subseteq stack[j].todo
    BY <2>1 DEF NoMerge
  <2>3. NoMerge'
    BY <2>1, <2>2, WorkParts, MergeLasts
  <2>4. ASSUME NEW p \in DOMAIN disk', Work(p), Pending(p)
        PROVE  Pending(p)'
    <3>1. ~IsBelow(p, cur.src)
      BY <2>4 DEF Work
    <3> QED  BY <2>4, <3>1 DEF Pending, IsBelow
  <2>5. WorkLeft'
    BY <1>1, <2>1, <2>4, LeftLasts
  <2> QED  BY <2>3, <2>5
<1> QED
  BY <1>2, <1>3 DEF WorkInv

\* What is in a directory is in one of its objects.
LEMMA ChildAbove ==
    ASSUME FileInv, ListedTree, NEW x \in Path, Listed(x),
           NEW p \in DOMAIN disk, IsBelow(p, x), p # x
    PROVE  \E n \in ChildrenOf(x) : IsBelow(p, Append(x, n))
<1>1. p \in Path /\ job \in Job
  BY DEF FileInv, Control, FileTypes
<1>2. Len(p) \in Nat /\ Len(x) \in Nat /\ Len(p) > Len(x) /\ \A i \in 1..Len(x) : p[i] = x[i]
  <2>1. Len(p) \in Nat /\ Len(x) \in Nat
    BY <1>1, PathFacts
  <2>2. ~(Len(p) <= Len(x))
    BY <1>1, BelowEqual
  <2> QED  BY <1>1, <2>1, <2>2, BelowIs
<1> DEFINE k == Len(x) n == p[k + 1] q == Append(x, n)
<1>3. n \in Name
  BY <1>1, <1>2, PathFacts
<1>4. q \in Path /\ Len(q) = k + 1 /\ q[k + 1] = n /\ \A i \in 1..k : q[i] = x[i]
  BY <1>3, AppendBelow
<1> HIDE DEF q
<1>5. IsBelow(p, q)
  <2>1. Len(q) <= Len(p) /\ \A i \in 1..Len(q) : p[i] = q[i]
    BY <1>2, <1>4
  <2> QED  BY <1>1, <1>4, <2>1, BelowIs
<1>6. q \in DOMAIN disk
  <2>1. Listed(q)
    BY <1>1, <1>3, DestinationAppend DEF q
  <2> QED  BY <1>4, <1>5, <2>1 DEF ListedTree
<1> QED
  BY <1>3, <1>5, <1>6 DEF ChildrenOf, Exists, q

\* A directory that has been read: the objects in it are on a list of their own.
LEMMA PushWorks ==
    ASSUME FileInv, FileInv', WorkInv, Owned', job' = job, cur' = cur, AtObject,
           cur.kind = "dir", pc' \notin {"mvdir", "merge"},
           stack' = <<ListFrame("dir", cur.src, cur.dst, ChildrenOf(cur.src))>> \o stack,
           \/ disk' = disk
           \/ job.op # "delete" /\ cur.src # cur.dst /\ OnlyDst,
           Fulfils' => Fulfils
    PROVE  WorkInv'
<1> DEFINE g == ListFrame("dir", cur.src, cur.dst, ChildrenOf(cur.src))
<1>1. /\ cur.src \in Path /\ cur.dst \in Path /\ Listed(cur.src) /\ cur.kind = disk[cur.src].kind
      /\ \A p \in DOMAIN disk : p \in Path
      /\ \A i \in 1..Len(stack) : Under(cur.src, stack[i])
      /\ stack \in Seq(Frames) /\ Len(stack) \in Nat /\ job \in Job
  BY WorkParts, StackFacts
<1>2. PICK f \in Frames : f = g
  <2>1. ChildrenOf(cur.src) \in SUBSET Name
    BY DEF ChildrenOf
  <2>2. g = [kind |-> "dir", src |-> cur.src, dst |-> cur.dst,
             todo |-> ChildrenOf(cur.src), last |-> cur.src]
    BY DEF ListFrame
  <2> HIDE DEF g
  <2> QED  BY <1>1, <2>1, <2>2 DEF Frames
<1>3. f.kind = "dir" /\ f.src = cur.src /\ f.todo = ChildrenOf(cur.src)
  BY <1>2 DEF ListFrame
<1>4. stack' = <<f>> \o stack
  BY <1>2
<1> HIDE DEF g
<1>5. /\ Len(stack') = Len(stack) + 1 /\ stack'[1] = f
      /\ \A i \in 1..Len(stack) : stack'[i + 1] = stack[i]
  BY <1>1, <1>4, PushedFacts
<1>6. /\ TreeStep /\ CopyStays'
      /\ \A p \in DOMAIN disk : Listed(p) /\ p # cur.src /\ AtDestination(p) => AtDestination(p)'
  <2>1. CASE disk' = disk
    <3>1. /\ \A p : Listed(p)' = Listed(p) /\ Destination(p)' = Destination(p)
          /\ Doable' = Doable
      BY JobStays
    <3> QED  BY <2>1, <3>1 DEF TreeStep, CopyStays, WorkInv, AtDestination
  <2>2. CASE job.op # "delete" /\ cur.src # cur.dst /\ OnlyDst
    BY <2>2, DstShape
  <2> QED  BY <2>1, <2>2
<1>7. ListedTree'
  BY <1>6, TreeLasts DEF WorkInv
<1>8. ASSUME Fulfils'
      PROVE  NoMerge' /\ WorkLeft'
  <2>1. NoMerge /\ WorkLeft
    BY <1>8 DEF WorkInv
  <2>2. ASSUME NEW i \in 1..Len(stack')
        PROVE  i = 1 \/ (i - 1 \in 1..Len(stack) /\ stack'[i] = stack[i - 1])
    <3>1. CASE i > 1
      <4>1. i - 1 \in 1..Len(stack) /\ i - 1 + 1 = i
        BY <1>1, <1>5, <3>1
      <4>2. stack'[i - 1 + 1] = stack[i - 1]
        BY <1>5, <4>1
      <4> QED  BY <4>1, <4>2
    <3> QED  BY <1>1, <1>5, <3>1
  <2>3. \A i \in 1..Len(stack') :
                /\ stack'[i].kind # "merge"
                /\ stack'[i].kind = "list" =>
                     \E j \in 1..Len(stack) :
                        stack[j].kind = "list" /\ stack'[i].todo \subseteq stack[j].todo
    <3>1. ASSUME NEW i \in 1..Len(stack')
          PROVE  /\ stack'[i].kind # "merge"
                 /\ stack'[i].kind = "list" =>
                     \E j \in 1..Len(stack) :
                        stack[j].kind = "list" /\ stack'[i].todo \subseteq stack[j].todo
      BY <1>3, <1>5, <2>1, <2>2 DEF NoMerge
    <3> QED  BY <3>1
  <2>4. \/ \A q : IsDirAt(q)' => IsDirAt(q)
        \/ Doable /\ \A q : IsDirAt(q)' => IsDirAt(q) \/ IsBelow(q, Destination(cur.src))
    <3>1. CASE disk' = disk
      BY <3>1 DEF IsDirAt, Exists
    <3>2. CASE job.op # "delete" /\ cur.src # cur.dst /\ OnlyDst
      <4>1. Doable /\ cur.dst = Destination(cur.src)
        BY <3>2, DstAway DEF FileInv
      <4>2. ASSUME NEW q, IsDirAt(q)'
            PROVE  IsDirAt(q) \/ IsBelow(q, Destination(cur.src))
        <5>1. CASE q = cur.dst
          BY <1>1, <4>1, <5>1, BelowSelf
        <5>2. CASE q # cur.dst
          BY <3>2, <4>2, <5>2 DEF IsDirAt, Exists, OnlyDst
        <5> QED  BY <5>1, <5>2
      <4> QED  BY <4>1, <4>2
    <3> QED  BY <3>1, <3>2
  <2>5. NoMerge'
    BY <1>1, <2>1, <2>3, <2>4, MergeLasts
  <2>6. ASSUME NEW p \in DOMAIN disk', Work(p), Pending(p)
        PROVE  Pending(p)'
    <3>1. ASSUME NEW i \in 1..Len(stack), NEW n \in stack[i].todo,
                 IsBelow(p, Append(stack[i].src, n))
          PROVE  Pending(p)'
      <4>1. i + 1 \in 1..Len(stack') /\ stack'[i + 1] = stack[i]
        BY <1>1, <1>5
      <4> QED  BY <3>1, <4>1 DEF Pending, IsBelow
    <3>2. CASE IsBelow(p, cur.src)
      <4>1. p \in DOMAIN disk /\ p # cur.src
        BY <1>1, <2>6 DEF Work
      <4>2. PICK n \in ChildrenOf(cur.src) : IsBelow(p, Append(cur.src, n))
        BY <1>1, <3>2, <4>1, ChildAbove DEF WorkInv
      <4>3. 1 \in 1..Len(stack') /\ n \in stack'[1].todo /\ stack'[1].src = cur.src
        BY <1>1, <1>3, <1>5
      <4> QED  BY <4>2, <4>3 DEF Pending, IsBelow
    <3> QED  BY <2>6, <3>1, <3>2 DEF Pending
  <2>7. ASSUME job.op = "copy", NEW p \in DOMAIN disk', Work(p), AtDestination(p)
        PROVE  AtDestination(p)'
    <3>1. p # cur.src
      BY <1>1, <2>7 DEF Work
    <3> QED  BY <1>6, <2>7, <3>1 DEF Work
  <2>8. WorkLeft'
    BY <1>6, <2>1, <2>6, <2>7, LeftLasts
  <2> QED  BY <2>5, <2>8
<1> QED
  BY <1>6, <1>7, <1>8 DEF WorkInv

\* A list that is empty is left.
LEMMA PopWorks ==
    ASSUME FileInv, FileInv', WorkInv, Owned', job' = job, ~AtObject, pc' \notin {"mvdir", "merge"},
           TreeStep, CopyStays', \A q : IsDirAt(q)' => IsDirAt(q),
           job.op = "copy" => disk' = disk,
           Fulfils' => Fulfils /\ Top.todo = {} /\ stack' = Tail(stack)
    PROVE  WorkInv'
<1>1. Len(stack) \in Nat /\ Top = stack[1]
      /\ Len(Tail(stack)) = Len(stack) - 1
      /\ \A i \in 1 .. Len(stack) - 1 : Tail(stack)[i] = stack[i + 1]
  BY WorkParts, StackFacts
<1>2. ListedTree'
  BY TreeLasts DEF WorkInv
<1>3. ASSUME Fulfils'
      PROVE  NoMerge' /\ WorkLeft'
  <2>1. NoMerge /\ WorkLeft /\ Top.todo = {} /\ stack' = Tail(stack)
    BY <1>3 DEF WorkInv
  <2>2. \A i \in 1..Len(stack') : i + 1 \in 1..Len(stack) /\ stack'[i] = stack[i + 1]
    BY <1>1, <2>1
  <2>3. \A i \in 1..Len(stack') :
                /\ stack'[i].kind # "merge"
                /\ stack'[i].kind = "list" =>
                     \E j \in 1..Len(stack) :
                        stack[j].kind = "list" /\ stack'[i].todo \subseteq stack[j].todo
    <3>1. ASSUME NEW i \in 1..Len(stack')
          PROVE  /\ stack'[i].kind # "merge"
                 /\ stack'[i].kind = "list" =>
                     \E j \in 1..Len(stack) :
                        stack[j].kind = "list" /\ stack'[i].todo \subseteq stack[j].todo
      BY <2>1, <2>2 DEF NoMerge
    <3> QED  BY <3>1
  <2>4. NoMerge'
    BY <2>1, <2>3, MergeLasts
  <2>5. ASSUME NEW p \in DOMAIN disk', Work(p), Pending(p)
        PROVE  Pending(p)'
    <3>1. PICK i \in 1..Len(stack) :
                \E n \in stack[i].todo : IsBelow(p, Append(stack[i].src, n))
      BY <2>5 DEF Pending
    <3>2. i # 1
      BY <1>1, <2>1, <3>1
    <3>3. i - 1 \in 1..Len(stack') /\ i - 1 + 1 = i
      BY <1>1, <2>1, <3>2
    <3>4. stack'[i - 1] = stack[i]
      BY <2>2, <3>3
    <3> QED  BY <3>1, <3>3, <3>4 DEF Pending, IsBelow
  <2>6. job.op = "copy" => \A p : AtDestination(p)' = AtDestination(p)
    BY JobStays DEF AtDestination
  <2>7. WorkLeft'
    BY <2>1, <2>5, <2>6, LeftLasts
  <2> QED  BY <2>4, <2>7
<1> QED
  BY <1>2, <1>3 DEF WorkInv

-----------------------------------------------------------------------------
(* The steps once more.                                                    *)

LEMMA NextObjectWorks ==
    ASSUME FileInv, FileInv', WorkInv, Lasts, NextObject
    PROVE  WorkInv'
<1> USE DEF Keep, flags, ghosts
<1>1. /\ pc = "next" /\ ~AtObject /\ Top.todo # {} /\ job' = job
      /\ UNCHANGED <<disk, refused, skipNonRegular, after>>
  BY DEF NextObject, AtObject
<1>2. Owned /\ (skipNonRegular => refused) /\ job \in Job /\ stack \in Seq(Frames) /\ stack # <<>>
  BY WorkParts DEF Owned
<1>3. CASE GiveUp /\ UNCHANGED <<cur, stack>>
  <2>1. Owned' /\ ~Fulfils'
    BY <1>1, <1>2, <1>3 DEF Owned, GiveUp, Ends, Fulfils
  <2> QED  BY <1>1, <2>1, QuietWorks
<1>4. ASSUME NEW n \in Top.todo, NEW s, s = Append(Top.src, n),
             cur' = [src |-> s, dst |-> Target(Top, n), kind |-> disk[s].kind],
             stack' = <<[Top EXCEPT !.todo = @ \ {n}, !.last = s]>> \o Tail(stack),
             pc' = Routine(Top, disk[s].kind), ok' = ok
      PROVE  WorkInv'
  <2>1. /\ Top = stack[1] /\ 1 \in 1..Len(stack) /\ stack[1] \in Frames /\ FrameOk(stack[1])
        /\ Len(stack) \in Nat
    BY <1>2, WorkParts, StackFacts
  <2>2. n \in Name /\ s \in Path /\ s \in DOMAIN disk /\ Listed(s)
    BY <1>4, <2>1, FramesFacts, AppendBelow DEF FrameOk
  <2>3. /\ Len(stack') = Len(stack)
        /\ stack'[1].kind = stack[1].kind /\ stack'[1].src = stack[1].src
        /\ stack'[1].todo = stack[1].todo \ {n}
        /\ \A i \in 1..Len(stack) : i > 1 => stack'[i] = stack[i]
    BY <1>2, <1>4, <2>2, BegunFrame
  <2>4. PICK k : k = disk[s].kind
    OBVIOUS
  <2>5. cur'.src = s /\ cur'.kind = k /\ pc' = Routine(Top, k)
    BY <1>4, <2>4
  <2>6. /\ pc' \in {"link", "readdir", "file", "mvdir", "mvfile", "delfile"}
        /\ pc' = "readdir" => k = "dir"
        /\ pc' = "mvdir" => stack[1].kind = "list" /\ k = "dir"
    BY <2>1, <2>5 DEF Routine, CopyRoutine, MoveRoutine, DeleteRoutine
  <2>7. AtObject'
    BY <2>6 DEF AtObject
  <2>8. Owned'
    BY <1>1, <1>2, <1>4, <2>5, <2>6 DEF Owned
  <2>9. TreeStep /\ ListedTree' /\ CopyStays'
    <3>1. TreeStep
      BY <1>1 DEF TreeStep
    <3>2. ListedTree'
      BY <1>1, <3>1, TreeLasts DEF WorkInv
    <3>3. CopyStays'
      BY <1>1, JobStays DEF WorkInv, CopyStays
    <3> QED  BY <3>1, <3>2, <3>3
  <2>10. ASSUME Fulfils'
         PROVE  NoMerge' /\ WorkLeft'
    <3>1. NoMerge /\ WorkLeft
      BY <1>1, <1>4, <2>10 DEF WorkInv, Fulfils, Merging
    <3>2. ASSUME NEW i \in 1..Len(stack')
          PROVE  /\ stack'[i].kind # "merge"
                 /\ stack'[i].kind = "list" =>
                      \E j \in 1..Len(stack) :
                         stack[j].kind = "list" /\ stack'[i].todo \subseteq stack[j].todo
      <4>1. CASE i = 1
        BY <2>1, <2>3, <3>1, <4>1 DEF NoMerge
      <4>2. CASE i # 1
        <5>1. i \in 1..Len(stack) /\ i > 1
          BY <2>1, <2>3, <4>2
        <5> QED  BY <2>3, <3>1, <5>1 DEF NoMerge
      <4> QED  BY <4>1, <4>2
    <3>3. ASSUME pc' = "mvdir", Renames
          PROVE  ~IsDirAt(cur.dst)'
      <4>1. /\ stack[1].kind = "list" /\ k = "dir" /\ job.op # "delete"
            /\ stack[1].src = job.from
        BY <2>1, <2>6, <3>3 DEF Renames, FrameOk
      <4>2. s = SourceOf(n) /\ job.disk[s].kind = "dir"
        <5>1. disk[s] = job.disk[s]
          BY <2>2 DEF FileInv, Data, SourcesKept
        <5> QED  BY <1>4, <2>1, <2>4, <4>1, <5>1 DEF SourceOf
      <4>3. ~IsDirAt(Destination(s))
        BY <1>4, <2>1, <3>1, <3>3, <4>1, <4>2 DEF NoMerge
      <4>4. cur'.dst = Destination(s)
        <5>1. job.op # "delete" => cur'.dst = Destination(cur.src)'
          BY <1>1, <2>7 DEF FileInv, Control, CurOk
        <5>2. Destination(cur.src)' = Destination(s)
          BY <1>1, <2>5 DEF Destination, IntoDirectory
        <5> QED  BY <4>1, <5>1, <5>2
      <4> QED  BY <1>1, <4>3, <4>4 DEF IsDirAt, Exists
    <3>4. NoMerge'
      <4>1. \A q : IsDirAt(q)' => IsDirAt(q)
        BY <1>1 DEF IsDirAt, Exists
      <4> QED  BY <1>1, <2>6, <3>1, <3>2, <3>3, <4>1, MergeLasts
    <3>5. ASSUME NEW p \in DOMAIN disk', Work(p), Pending(p)
          PROVE  Pending(p)'
      <4>1. PICK i \in 1..Len(stack) :
                \E m \in stack[i].todo : IsBelow(p, Append(stack[i].src, m))
        BY <1>1, <3>5 DEF Pending
      <4>2. PICK m \in stack[i].todo : IsBelow(p, Append(stack[i].src, m))
        BY <4>1
      <4>3. CASE i = 1 /\ m = n
        <5>1. IsBelow(p, s)
          BY <1>4, <2>1, <4>2, <4>3
        <5> QED  BY <2>5, <2>7, <5>1 DEF Pending, IsBelow
      <4>4. CASE ~(i = 1 /\ m = n)
        <5>1. i \in 1..Len(stack') /\ m \in stack'[i].todo /\ stack'[i].src = stack[i].src
          <6>1. CASE i = 1
            BY <2>3, <4>2, <4>4, <6>1
          <6>2. CASE i # 1
            BY <2>1, <2>3, <4>2, <6>2
          <6> QED  BY <6>1, <6>2
        <5> QED  BY <4>2, <5>1 DEF Pending, IsBelow
      <4> QED  BY <4>3, <4>4
    <3>6. job.op = "copy" => \A p : AtDestination(p)' = AtDestination(p)
      BY <1>1, JobStays DEF AtDestination
    <3>7. WorkLeft'
      BY <1>1, <2>9, <3>1, <3>5, <3>6, LeftLasts
    <3> QED  BY <3>4, <3>7
  <2> QED  BY <2>8, <2>9, <2>10 DEF WorkInv
<1> QED
  BY <1>3, <1>4 DEF NextObject, Goto

LEMMA GivenUp ==
    ASSUME FileInv, FileInv', WorkInv, job' = job, disk' = disk, GiveUp,
           skipNonRegular' => refused'
    PROVE  WorkInv'
<1>1. Owned' /\ ~Fulfils'
  BY DEF Owned, Fulfils, GiveUp, Ends
<1> QED
  BY <1>1, QuietWorks

\* The thread goes on with the same object, or the user has refused something.
LEMMA QuietGoes ==
    ASSUME FileInv, FileInv', WorkInv, job' = job, disk' = disk, ok' = ok,
           pc # "done", pc' \notin {"done", "unlink", "rmdir"},
           pc' \in {"readdir", "mkdir"} => cur'.kind = "dir",
           refused => refused', skipNonRegular' => skipNonRegular \/ refused',
           \/ refused'
           \/ UNCHANGED <<cur, stack>> /\ (AtObject => pc' \notin {"begin", "next"})
              /\ pc' # "merge" /\ (pc' = "mvdir" => pc = "mvdir")
    PROVE  WorkInv'
<1>1. Owned
  BY DEF WorkInv
<1>2. Owned'
  BY <1>1 DEF Owned
<1>3. Fulfils' => /\ Fulfils /\ UNCHANGED <<cur, stack>> /\ (AtObject => AtObject')
                  /\ pc' # "merge" /\ (pc' = "mvdir" => pc = "mvdir")
  <2>1. Merging' = Merging
    BY DEF Merging
  <2> QED  BY <1>1, <2>1 DEF Fulfils, AtObject, Owned
<1> QED
  BY <1>2, <1>3, QuietWorks

LEMMA BeginWorks ==
    ASSUME FileInv, FileInv', WorkInv, Begin
    PROVE  WorkInv'
<1> USE DEF Begin, Keep, flags, ghosts
<1>1. /\ pc = "begin" /\ ~AtObject /\ UNCHANGED <<job, disk, cur, stack, refused, skipNonRegular>>
      /\ skipNonRegular => refused
  BY DEF AtObject, WorkInv, Owned
<1>2. CASE GiveUp
  BY <1>1, <1>2, GivenUp
<1>3. CASE Goto("next")
  <2>1. pc' = "next" /\ ok' = ok
    BY <1>3 DEF Goto
  <2> QED  BY <1>1, <2>1, QuietGoes
<1> QED
  BY <1>2, <1>3

LEMMA EndOfListWorks ==
    ASSUME FileInv, FileInv', WorkInv, EndOfList
    PROVE  WorkInv'
<1> USE DEF EndOfList, Keep, flags, ghosts
<1>1. /\ pc = "next" /\ ~AtObject /\ Top.todo = {}
      /\ UNCHANGED <<job, disk, cur, refused, skipNonRegular, after>>
      /\ Owned
  BY DEF AtObject, WorkInv
<1>2. Merging' = Merging
  BY DEF Merging
<1>3. CASE Top.kind = "list" /\ Ends(TRUE) /\ UNCHANGED stack
  <2>1. \A i \in 1..Len(stack) : stack[i].todo = {}
    <3>1. Len(stack) \in Nat /\ Len(stack) >= 1 /\ Top = stack[1]
      BY WorkParts, StackFacts
    <3>2. 1 \in 1..Len(stack) /\ stack[1].kind = "list"
      BY <1>3, <3>1
    <3>3. 1 = Len(stack)
      BY <3>2, FramesAreOk
    <3>4. stack[1].todo = {}
      BY <1>1, <3>1
    <3>5. ASSUME NEW i \in 1..Len(stack)
          PROVE  stack[i].todo = {}
      <4>1. i \in 1..1
        BY <3>3, <3>5
      <4>2. i = 1
        BY <4>1
      <4> QED  BY <3>4, <4>2
    <3> QED  BY <3>5
  <2>2. pc' = "done" /\ ok' /\ ok
    BY <1>1, <1>3 DEF Ends, Owned
  <2>3. Owned'
    <3>1. job.op # "delete" => Doable'
      BY <1>1, JobStays DEF FileInv, Control, Routines
    <3> QED  BY <1>1, <1>3, <2>1, <2>2, <3>1 DEF Owned
  <2>4. Fulfils' => Fulfils
    BY <1>1, <1>2, <2>2 DEF Fulfils
  <2> QED  BY <1>1, <1>3, <2>2, <2>3, <2>4, QuietWorks
<1>4. CASE job.op = "copy" /\ Goto("next") /\ stack' = Tail(stack)
  <2>1. pc' = "next" /\ ok' = ok
    BY <1>4 DEF Goto
  <2>2. Owned' /\ (Fulfils' => Fulfils)
    BY <1>1, <1>2, <2>1 DEF Owned, Fulfils
  <2>3. TreeStep /\ CopyStays' /\ \A q : IsDirAt(q)' => IsDirAt(q)
    BY <1>1, JobStays DEF TreeStep, CopyStays, WorkInv, IsDirAt, Exists
  <2> QED  BY <1>1, <1>4, <2>1, <2>2, <2>3, PopWorks
<1>5. CASE job.op # "copy" /\ Goto("rmdir") /\ UNCHANGED stack
  <2>1. pc' = "rmdir" /\ ok' = ok
    BY <1>5 DEF Goto
  <2>2. Owned' /\ (Fulfils' => Fulfils)
    BY <1>1, <1>2, <1>5, <2>1 DEF Owned, Fulfils
  <2> QED  BY <1>1, <1>5, <2>1, <2>2, QuietWorks
<1> QED
  BY <1>3, <1>4, <1>5

LEMMA RmDirWorks ==
    ASSUME FileInv, FileInv', WorkInv, RmDir
    PROVE  WorkInv'
<1> USE DEF RmDir, Keep, flags, ghosts
<1>1. /\ pc = "rmdir" /\ ~AtObject /\ UNCHANGED <<job, cur, skipNonRegular, after>>
      /\ Owned /\ job.op # "copy" /\ Top.kind # "list" /\ Top.todo = {}
  BY DEF AtObject, WorkInv, Owned, FileInv, Control, StackOk
<1>2. Merging' = Merging
  BY <1>1 DEF Merging
<1>3. CASE /\ IsDirAt(RemovedDir) /\ ChildrenOf(RemovedDir) = {}
           /\ disk' = WithoutObject(RemovedDir)
           /\ Goto("next") /\ stack' = Tail(stack) /\ UNCHANGED refused
  <2>1. pc' = "next" /\ ok' = ok
    BY <1>3 DEF Goto
  <2>2. Owned' /\ (Fulfils' => Fulfils)
    BY <1>1, <1>2, <1>3, <2>1 DEF Owned, Fulfils
  <2>3. PICK x : x = RemovedDir
    OBVIOUS
  <2>4. x \in Path /\ Listed(x) /\ ChildrenOf(x) = {} /\ disk' = WithoutObject(x)
    <3>1. /\ Top \in Frames /\ FrameOk(Top)
      <4>1. 1 \in 1..Len(stack) /\ Top = stack[1] /\ Top \in Frames
        BY WorkParts, StackFacts
      <4> QED  BY <4>1, WorkParts
    <3>2. Top.src \in Path /\ Top.last \in Path /\ Listed(Top.src) /\ Listed(Top.last)
      BY <1>1, <3>1, FramesFacts DEF FrameOk
    <3> QED  BY <1>3, <2>3, <3>2 DEF RemovedDir
  <2>5. DOMAIN disk' = DOMAIN disk \ {x} /\ \A r \in DOMAIN disk' : disk'[r] = disk[r]
    BY <2>4, TakenFacts
  <2>6. TreeStep
    <3>1. ASSUME NEW p \in DOMAIN disk', IsBelow(p, x)
          PROVE  FALSE
      BY <2>4, <2>5, <3>1, ChildAbove DEF WorkInv
    <3> QED  BY <2>5, <3>1 DEF TreeStep
  <2>7. CopyStays' /\ \A q : IsDirAt(q)' => IsDirAt(q)
    BY <1>1, <2>5 DEF CopyStays, IsDirAt, Exists
  <2> QED  BY <1>1, <1>3, <2>1, <2>2, <2>6, <2>7, PopWorks
<1>4. ASSUME NEW a \in {"retry", "skip", "cancel", "none"}, Asks({"retry", "skip"}, a),
             \/ a = "retry" /\ Goto("rmdir") /\ UNCHANGED stack
             \/ a = "skip" /\ Goto("next") /\ stack' = Tail(stack)
             \/ a \in {"cancel", "none"} /\ GiveUp /\ UNCHANGED stack,
             disk' = disk
      PROVE  WorkInv'
  <2>1. CASE a = "retry"
    <3>1. pc' = "rmdir" /\ ok' = ok /\ stack' = stack /\ (refused' <=> refused)
      BY <1>4, <2>1 DEF Goto, Asks
    <3>2. Owned' /\ (Fulfils' => Fulfils)
      BY <1>1, <1>2, <3>1 DEF Owned, Fulfils
    <3> QED  BY <1>1, <1>4, <3>1, <3>2, QuietWorks
  <2>2. CASE a = "skip"
    <3>1. pc' = "next" /\ ok' = ok /\ refused'
      BY <1>4, <2>2 DEF Goto, Asks
    <3> QED  BY <1>1, <1>4, <3>1, QuietGoes
  <2>3. CASE a \in {"cancel", "none"}
    <3>1. GiveUp /\ refused'
      BY <1>4, <2>3 DEF Asks
    <3> QED  BY <1>1, <1>4, <3>1, GivenUp
  <2> QED  BY <1>4, <2>1, <2>2, <2>3
<1> QED
  BY <1>3, <1>4

LEMMA ReadDirWorks ==
    ASSUME FileInv, FileInv', WorkInv, ReadDir
    PROVE  WorkInv'
<1> USE DEF ReadDir, Keep, flags, ghosts
<1>1. /\ pc = "readdir" /\ AtObject /\ cur.kind = "dir"
      /\ UNCHANGED <<job, disk, cur, skipNonRegular, after>>
      /\ Owned /\ (skipNonRegular' => refused)
  BY DEF AtObject, WorkInv, Owned
<1>2. CASE /\ job.op = "delete" /\ Goto("next") /\ UNCHANGED refused
           /\ stack' = <<ListFrame("dir", cur.src, cur.dst, ChildrenOf(cur.src))>> \o stack
  <2>1. pc' = "next" /\ ok' = ok
    BY <1>2 DEF Goto
  <2>2. Owned' /\ (Fulfils' => Fulfils)
    BY <1>1, <1>2, <2>1 DEF Owned, Fulfils, Merging
  <2> QED  BY <1>1, <1>2, <2>1, <2>2, PushWorks
<1>3. CASE Goto("mkdir") /\ UNCHANGED stack /\ UNCHANGED refused
  <2>1. pc' = "mkdir" /\ ok' = ok
    BY <1>3 DEF Goto
  <2> QED  BY <1>1, <1>3, <2>1, QuietGoes
<1>4. CASE GiveUp /\ UNCHANGED refused
  BY <1>1, <1>4, GivenUp
<1>5. ASSUME NEW a \in {"retry", "skip", "cancel"}, Asks({"retry", "skip"}, a),
             \/ a = "retry" /\ Goto("readdir") /\ UNCHANGED stack
             \/ a = "skip" /\ Goto("next")
             \/ a = "cancel" /\ GiveUp
      PROVE  WorkInv'
  <2>1. CASE a = "retry"
    <3>1. pc' = "readdir" /\ ok' = ok /\ stack' = stack /\ (refused => refused')
      BY <1>5, <2>1 DEF Goto, Asks
    <3> QED  BY <1>1, <3>1, QuietGoes
  <2>2. CASE a = "skip"
    <3>1. pc' = "next" /\ ok' = ok /\ refused'
      BY <1>5, <2>2 DEF Goto, Asks
    <3> QED  BY <1>1, <3>1, QuietGoes
  <2>3. CASE a = "cancel"
    <3>1. GiveUp /\ refused'
      BY <1>5, <2>3 DEF Asks
    <3> QED  BY <1>1, <3>1, GivenUp
  <2> QED  BY <1>5, <2>1, <2>2, <2>3
<1> QED
  BY <1>2, <1>3, <1>4, <1>5

LEMMA MkDirWorks ==
    ASSUME FileInv, FileInv', WorkInv, MkDir
    PROVE  WorkInv'
<1> USE DEF MkDir, Keep, flags, ghosts
<1>1. /\ pc = "mkdir" /\ AtObject /\ cur.kind = "dir"
      /\ UNCHANGED <<job, cur, skipNonRegular, after>>
      /\ Owned /\ (skipNonRegular' => refused)
  BY DEF AtObject, WorkInv, Owned
<1>2. CASE /\ disk' = IF Exists(cur.dst) THEN disk
                      ELSE WithObject(cur.dst, [kind |-> "dir", data |-> <<>>])
           /\ stack' = <<ListFrame("dir", cur.src, cur.dst, ChildrenOf(cur.src))>> \o stack
           /\ Goto("next") /\ UNCHANGED refused
  <2>1. pc' = "next" /\ ok' = ok
    BY <1>2 DEF Goto
  <2>2. Owned' /\ (Fulfils' => Fulfils)
    BY <1>1, <1>2, <2>1 DEF Owned, Fulfils, Merging
  <2>3. \/ disk' = disk
        \/ job.op # "delete" /\ cur.src # cur.dst /\ OnlyDst
    <3>1. CASE Exists(cur.dst)
      BY <1>2, <3>1
    <3>2. CASE ~Exists(cur.dst)
      <4>1. OnlyDst
        BY <1>2, <3>2, PutOnly
      <4>2. cur.src \in DOMAIN disk /\ job.op # "delete"
        BY <1>1, WorkParts DEF FileInv, Control, Routines
      <4> QED  BY <3>2, <4>1, <4>2 DEF Exists
    <3> QED  BY <3>1, <3>2
  <2> QED  BY <1>1, <1>2, <2>1, <2>2, <2>3, PushWorks
<1>3. ASSUME NEW a \in {"retry", "skip", "cancel", "none"}, Asks({"retry", "skip"}, a),
             \/ a = "cancel" /\ GiveUp
             \/ a = "skip" /\ Goto("next")
             \/ a \in {"retry", "none"} /\ Goto("mkdir"),
             UNCHANGED <<disk, stack>>
      PROVE  WorkInv'
  <2>1. CASE a \in {"retry", "none"}
    <3>1. pc' = "mkdir" /\ ok' = ok /\ (refused => refused')
      BY <1>3, <2>1 DEF Goto, Asks
    <3> QED  BY <1>1, <1>3, <3>1, QuietGoes
  <2>2. CASE a = "skip"
    <3>1. pc' = "next" /\ ok' = ok /\ refused'
      BY <1>3, <2>2 DEF Goto, Asks
    <3> QED  BY <1>1, <1>3, <3>1, QuietGoes
  <2>3. CASE a = "cancel"
    <3>1. GiveUp /\ refused'
      BY <1>3, <2>3 DEF Asks
    <3> QED  BY <1>1, <1>3, <3>1, GivenUp
  <2> QED  BY <1>3, <2>1, <2>2, <2>3
<1> QED
  BY <1>2, <1>3

\* The user has refused something: what the thread goes on to does not matter.
LEMMA PassesWorks ==
    ASSUME FileInv, FileInv', WorkInv, job' = job, disk' = disk, pc # "done",
           refused', pc' \notin {"unlink", "rmdir", "readdir", "mkdir"},
           pc' = "done" => ok' = FALSE, pc' # "done" => ok' = ok
    PROVE  WorkInv'
<1>1. Owned' /\ ~Fulfils'
  BY DEF WorkInv, Owned, Fulfils
<1> QED
  BY <1>1, QuietWorks

LEMMA CopyFileWorks ==
    ASSUME FileInv, FileInv', WorkInv, CopyFile
    PROVE  WorkInv'
<1> USE DEF CopyFile, Keep, flags, ghosts
<1>1. /\ pc = "file" /\ AtObject /\ UNCHANGED <<job, disk, cur, stack>>
      /\ skipNonRegular => refused
  BY DEF AtObject, WorkInv, Owned
<1>2. ASSUME NEW a \in {"skip", "skipall", "cancel", "none"}, Asks({"skip", "skipall"}, a),
             IF a \in {"skip", "skipall"} THEN Goto("next") ELSE GiveUp
      PROVE  WorkInv'
  <2>1. refused' /\ ((pc' = "next" /\ ok' = ok) \/ (pc' = "done" /\ ok' = FALSE))
    BY <1>2 DEF Asks, Goto, GiveUp, Ends
  <2> QED  BY <1>1, <2>1, PassesWorks
<1>3. CASE GiveUp /\ refused' = TRUE
  BY <1>1, <1>3, GivenUp
<1>4. CASE Goto("open") /\ UNCHANGED <<refused, skipNonRegular>>
  <2>1. pc' = "open" /\ ok' = ok
    BY <1>4 DEF Goto
  <2> QED  BY <1>1, <1>4, <2>1, QuietGoes
<1> QED
  BY <1>2, <1>3, <1>4

LEMMA OpenSourceWorks ==
    ASSUME FileInv, FileInv', WorkInv, OpenSource
    PROVE  WorkInv'
<1> USE DEF OpenSource, Keep, flags, ghosts
<1>1. /\ pc = "open" /\ AtObject /\ UNCHANGED <<job, disk, cur, stack, skipNonRegular>>
      /\ skipNonRegular => refused
  BY DEF AtObject, WorkInv, Owned
<1>2. CASE Goto("create") /\ UNCHANGED refused
  <2>1. pc' = "create" /\ ok' = ok
    BY <1>2 DEF Goto
  <2> QED  BY <1>1, <1>2, <2>1, QuietGoes
<1>3. CASE GiveUp /\ UNCHANGED refused
  BY <1>1, <1>3, GivenUp
<1>4. ASSUME NEW a \in {"retry", "skip", "cancel", "none"}, Asks({"retry", "skip"}, a),
             \/ a = "cancel" /\ GiveUp
             \/ a = "skip" /\ Goto("next")
             \/ a \in {"retry", "none"} /\ Goto("open")
      PROVE  WorkInv'
  <2>1. CASE a \in {"retry", "none"}
    <3>1. pc' = "open" /\ ok' = ok /\ (refused => refused')
      BY <1>4, <2>1 DEF Goto, Asks
    <3> QED  BY <1>1, <3>1, QuietGoes
  <2>2. CASE a \in {"skip", "cancel"}
    <3>1. refused' /\ ((pc' = "next" /\ ok' = ok) \/ (pc' = "done" /\ ok' = FALSE))
      BY <1>4, <2>2 DEF Asks, Goto, GiveUp, Ends
    <3> QED  BY <1>1, <3>1, PassesWorks
  <2> QED  BY <1>4, <2>1, <2>2
<1> QED
  BY <1>2, <1>3, <1>4

\* The file at the destination has been created or written.
LEMMA PutWorks ==
    ASSUME FileInv, FileInv', WorkInv, Writing, UNCHANGED <<job, cur, stack>>,
           NEW o, disk' = WithObject(cur.dst, o), o.kind # "dir",
           ok' = ok, refused' = refused, skipNonRegular' = skipNonRegular,
           \/ pc' \in {"data", "unlink"} /\ (pc' = "unlink" => after' = "next")
           \/ pc' = "next" /\ job.op = "copy" /\ (Fulfils => o = disk[cur.src])
    PROVE  WorkInv'
<1>1. /\ job.op # "delete" /\ cur.src # cur.dst /\ AtObject /\ Doable
      /\ cur.kind \in {"file", "special"} /\ cur.src \in DOMAIN disk
      /\ disk[cur.src] = job.disk[cur.src]
  BY WritingFacts
<1>2. OnlyDst /\ cur.dst \in DOMAIN disk' /\ disk'[cur.dst] = o
  BY PutOnly
<1>3. pc # "done" /\ Owned
  BY DEF Writing, WorkInv
<1>4. Owned' /\ (Fulfils' => Fulfils)
  BY <1>3 DEF Owned, Fulfils, Merging
<1>5. \A d : d = cur.dst /\ IsDirAt(d)' => IsDirAt(d)
  BY <1>2 DEF IsDirAt
<1>6. ASSUME Fulfils'
      PROVE  /\ Fulfils /\ pc' \notin {"mvdir", "merge"}
             /\ AtObject' \/ (job.op = "copy" /\ cur.kind # "dir" /\ \A p : p = cur.src => AtDestination(p)')
  <2>1. CASE pc' \in {"data", "unlink"}
    BY <1>4, <1>6, <2>1 DEF AtObject
  <2>2. CASE pc' = "next" /\ job.op = "copy" /\ o = disk[cur.src]
    <3>1. ASSUME NEW p, p = cur.src
          PROVE  AtDestination(p)'
      <4>1. Destination(p)' = cur.dst /\ Doable'
        BY <1>1, <3>1, JobStays, DstAway DEF FileInv
      <4> QED  BY <1>1, <1>2, <2>2, <3>1, <4>1 DEF AtDestination
    <3> QED  BY <1>1, <1>4, <1>6, <2>2, <3>1
  <2> QED  BY <1>4, <1>6, <2>1, <2>2
<1> QED
  BY <1>1, <1>2, <1>4, <1>5, <1>6, DstWorks

LEMMA CantCreateWorks ==
    ASSUME FileInv, FileInv', WorkInv, job' = job, disk' = disk, pc # "done", CantCreate
    PROVE  WorkInv'
<1>1. refused' /\ ((pc' = "next" /\ ok' = ok) \/ (pc' = "done" /\ ok' = FALSE))
  BY DEF CantCreate, Asks, Goto, GiveUp, Ends
<1> QED
  BY <1>1, PassesWorks

LEMMA CreatesWorks ==
    ASSUME FileInv, FileInv', WorkInv, Writing, UNCHANGED <<job, cur, stack, refused, skipNonRegular>>,
           CreatesFile
    PROVE  WorkInv'
<1> DEFINE o == [kind |-> "file", data |-> Partial]
<1>1. disk' = WithObject(cur.dst, o) /\ pc' = "data" /\ ok' = ok /\ o.kind # "dir"
  BY DEF CreatesFile, Goto
<1> HIDE DEF o
<1> QED
  BY <1>1, PutWorks

LEMMA CreateCopyWorks ==
    ASSUME FileInv, FileInv', WorkInv, CreateCopy
    PROVE  WorkInv'
<1> USE DEF CreateCopy, Keep, flags, ghosts
<1>1. /\ pc = "create" /\ AtObject /\ Writing /\ UNCHANGED <<job, cur, stack, skipNonRegular>>
      /\ skipNonRegular => refused
  BY DEF AtObject, Writing, WorkInv, Owned
<1>2. CASE CreatesFile /\ UNCHANGED refused
  BY <1>1, <1>2, CreatesWorks
<1>3. CASE CantCreate /\ UNCHANGED disk
  BY <1>1, <1>3, CantCreateWorks
<1>4. ASSUME NEW a \in {"ok", "all", "no", "cancel", "none"}, Asks({"ok", "all", "no"}, a),
             \/ a \in {"ok", "all"} /\ Goto("overwrite")
             \/ a = "no" /\ Goto("next")
             \/ a \in {"cancel", "none"} /\ GiveUp,
             UNCHANGED disk
      PROVE  WorkInv'
  <2>1. CASE a \in {"ok", "all"}
    <3>1. pc' = "overwrite" /\ ok' = ok /\ (refused => refused')
      BY <1>4, <2>1 DEF Goto, Asks
    <3> QED  BY <1>1, <1>4, <3>1, QuietGoes
  <2>2. CASE a \in {"no", "cancel", "none"}
    <3>1. refused' /\ ((pc' = "next" /\ ok' = ok) \/ (pc' = "done" /\ ok' = FALSE))
      BY <1>4, <2>2 DEF Asks, Goto, GiveUp, Ends
    <3> QED  BY <1>1, <1>4, <3>1, PassesWorks
  <2> QED  BY <1>4, <2>1, <2>2
<1> QED
  BY <1>2, <1>3, <1>4

LEMMA OverwriteWorks ==
    ASSUME FileInv, FileInv', WorkInv, Overwrite
    PROVE  WorkInv'
<1> USE DEF Overwrite, Keep, flags, ghosts
<1>1. pc = "overwrite" /\ Writing /\ UNCHANGED <<job, cur, stack, skipNonRegular>>
  BY DEF Writing
<1>2. CASE CreatesFile /\ UNCHANGED refused
  BY <1>1, <1>2, CreatesWorks
<1>3. CASE CantCreate /\ UNCHANGED disk
  BY <1>1, <1>3, CantCreateWorks
<1> QED
  BY <1>2, <1>3

LEMMA CopyFailsWorks ==
    ASSUME FileInv, FileInv', WorkInv, pc # "done", UNCHANGED <<job, disk, skipNonRegular>>, CopyFails
    PROVE  WorkInv'
<1>1. refused' /\ pc' = "unlink" /\ ok' = ok
  BY DEF CopyFails, Asks, StartUnlink, Goto
<1>2. Owned' /\ ~Fulfils'
  BY <1>1 DEF WorkInv, Owned, Fulfils
<1> QED
  BY <1>2, QuietWorks

LEMMA CopyDataWorks ==
    ASSUME FileInv, FileInv', WorkInv, CopyData
    PROVE  WorkInv'
<1> USE DEF CopyData, Keep, flags, ghosts
<1>1. /\ pc = "data" /\ AtObject /\ UNCHANGED <<job, disk, cur, stack, skipNonRegular>>
      /\ skipNonRegular => refused
  BY DEF AtObject, WorkInv, Owned
<1>2. CASE Goto("close") /\ UNCHANGED refused
  <2>1. pc' = "close" /\ ok' = ok
    BY <1>2 DEF Goto
  <2> QED  BY <1>1, <1>2, <2>1, QuietGoes
<1>3. CASE CopyFails
  BY <1>1, <1>3, CopyFailsWorks
<1> QED
  BY <1>2, <1>3

LEMMA CloseCopyWorks ==
    ASSUME FileInv, FileInv', WorkInv, CloseCopy
    PROVE  WorkInv'
<1> USE DEF CloseCopy, Keep, flags, ghosts
<1>1. /\ pc = "close" /\ Writing /\ UNCHANGED <<job, cur, stack, skipNonRegular>>
      /\ skipNonRegular => refused
  BY DEF Writing, WorkInv, Owned
<1>2. CASE CopyFails /\ UNCHANGED disk
  BY <1>1, <1>2, CopyFailsWorks
<1>3. CASE /\ disk' = WithObject(cur.dst, [kind |-> "file", data |-> disk[cur.src].data])
           /\ Copied /\ UNCHANGED refused
  <2> DEFINE o == [kind |-> "file", data |-> disk[cur.src].data]
  <2>1. Fulfils => o = disk[cur.src]
    <3>1. /\ cur.kind = "file" \/ skipNonRegular
          /\ cur.kind = disk[cur.src].kind /\ disk[cur.src] \in Object
      BY <1>1, WritingFacts
    <3>2. PICK s : s = disk[cur.src]
      OBVIOUS
    <3>3. s \in Object /\ s.kind = "file" => s = [kind |-> "file", data |-> s.data]
      BY DEF Object
    <3> QED  BY <1>1, <3>1, <3>2, <3>3 DEF Fulfils
  <2>2. disk' = WithObject(cur.dst, o) /\ o.kind # "dir"
    BY <1>3
  <2>3. /\ ok' = ok
        /\ \/ pc' = "unlink" /\ after' = "next"
           \/ pc' = "next" /\ job.op = "copy"
    <3>1. job.op \in {"copy", "move"}
      BY <1>1, WritingFacts, JobFacts DEF FileInv, Control, FileTypes
    <3> QED  BY <1>3, <3>1 DEF Copied, StartUnlink, Goto
  <2> HIDE DEF o
  <2> QED  BY <1>1, <1>3, <2>1, <2>2, <2>3, PutWorks
<1> QED
  BY <1>2, <1>3

LEMMA CopyLinkWorks ==
    ASSUME FileInv, FileInv', WorkInv, CopyLink
    PROVE  WorkInv'
<1> USE DEF CopyLink, Keep, flags
<1>1. /\ pc = "link" /\ AtObject /\ UNCHANGED <<job, disk, cur, stack, skipNonRegular>>
      /\ skipNonRegular => refused
  BY DEF AtObject, WorkInv, Owned
<1>2. CASE GiveUp /\ refused' = TRUE
  BY <1>1, <1>2, GivenUp
<1>3. CASE Goto("symlink") /\ UNCHANGED refused
  <2>1. pc' = "symlink" /\ ok' = ok
    BY <1>3 DEF Goto
  <2> QED  BY <1>1, <1>3, <2>1, QuietGoes
<1> QED
  BY <1>2, <1>3

LEMMA MakeLinkWorks ==
    ASSUME FileInv, FileInv', WorkInv, MakeLink
    PROVE  WorkInv'
<1> USE DEF MakeLink, Keep, flags, ghosts
<1>1. /\ pc = "symlink" /\ AtObject /\ UNCHANGED <<job, cur, stack>>
      /\ skipNonRegular => refused
      /\ cur.kind = "link" /\ job.op \in {"copy", "move"}
      /\ cur.src \in DOMAIN disk /\ cur.kind = disk[cur.src].kind
  BY WorkParts, JobFacts DEF AtObject, WorkInv, Owned, FileInv, Control, Routines
<1>3. Copied => /\ ok' = ok
                /\ \/ pc' = "unlink" /\ after' = "next"
                   \/ pc' = "next" /\ job.op = "copy"
  BY <1>1 DEF Copied, StartUnlink, Goto
<1>4. CASE /\ disk' = WithObject(cur.dst, disk[cur.src])
           /\ Copied /\ UNCHANGED <<skipNonRegular, refused>>
  <2>1. cur.src # cur.dst /\ job.op # "delete"
    BY <1>1, NotSelf
  <2>2. OnlyDst /\ cur.dst \in DOMAIN disk' /\ disk'[cur.dst] = disk[cur.src]
    BY <1>4, PutOnly
  <2>3. Owned' /\ (Fulfils' => Fulfils)
    BY <1>1, <1>3, <1>4 DEF WorkInv, Owned, Fulfils, Merging
  <2>4. \A d : d = cur.dst /\ IsDirAt(d)' => IsDirAt(d)
    BY <1>1, <2>2 DEF IsDirAt
  <2>5. AtObject' \/ (job.op = "copy" /\ cur.kind # "dir" /\ \A p : p = cur.src => AtDestination(p)')
    <3>1. CASE pc' = "unlink"
      BY <3>1 DEF AtObject
    <3>2. CASE pc' = "next" /\ job.op = "copy"
      <4>1. ASSUME NEW p, p = cur.src
            PROVE  AtDestination(p)'
        <5>1. Destination(p)' = cur.dst /\ Doable'
          BY <1>1, <2>1, <4>1, JobStays, DstAway DEF FileInv
        <5>2. disk[p] = job.disk[p]
          BY <1>1, <4>1, WorkParts DEF FileInv, Data, SourcesKept
        <5> QED  BY <1>1, <2>2, <3>2, <4>1, <5>1, <5>2 DEF AtDestination
      <4> QED  BY <1>1, <3>2, <4>1
    <3> QED  BY <1>3, <1>4, <3>1, <3>2
  <2>6. pc' \notin {"mvdir", "merge"}
    BY <1>3, <1>4
  <2> QED  BY <1>1, <2>1, <2>2, <2>3, <2>4, <2>5, <2>6, DstWorks
<1>5. CASE skipNonRegular /\ Copied /\ UNCHANGED <<disk, skipNonRegular, refused>>
  <2>1. Owned' /\ ~Fulfils'
    BY <1>1, <1>3, <1>5 DEF WorkInv, Owned, Fulfils
  <2> QED  BY <1>1, <1>5, <2>1, QuietWorks
<1>6. ASSUME NEW a \in {"skip", "skipall", "cancel", "none"}, Asks({"skip", "skipall"}, a),
             \/ a = "cancel" /\ GiveUp
             \/ a = "none" /\ Goto("symlink")
             \/ a \in {"skip", "skipall"} /\ Goto("next"),
             UNCHANGED disk
      PROVE  WorkInv'
  <2>1. refused' /\ ((pc' \in {"next", "symlink"} /\ ok' = ok) \/ (pc' = "done" /\ ok' = FALSE))
    BY <1>6 DEF Asks, Goto, GiveUp, Ends
  <2> QED  BY <1>1, <1>6, <2>1, PassesWorks
<1> QED
  BY <1>4, <1>5, <1>6

LEMMA UnlinkWorks ==
    ASSUME FileInv, FileInv', WorkInv, Unlink
    PROVE  WorkInv'
<1> USE DEF Unlink, Keep, flags
<1>1. /\ pc = "unlink" /\ AtObject /\ UNCHANGED <<job, cur, stack, victim, after, skipNonRegular>>
      /\ Owned /\ ok /\ job.op \in {"copy", "move", "delete"}
      /\ cur.src \in Path /\ \A p \in DOMAIN disk : p \in Path
  BY WorkParts, JobFacts DEF AtObject, Owned
<1>2. /\ after \in {"next", "rename", "failed", "stopped"}
      /\ after = "next" => victim = cur.src /\ job.op # "copy"
      /\ after = "rename" => victim = cur.dst /\ job.op = "move"
      /\ after \in {"failed", "stopped"} => victim = cur.dst /\ job.op # "delete" /\ refused
      /\ job.op # "delete" => cur.src # cur.dst
  BY <1>1, NotSelf DEF FileInv, Control, FileTypes, PlainTypes, VictimOk, Owned
<1>3. Merging' = Merging
  BY <1>1 DEF Merging
<1>4. CASE /\ Exists(victim) /\ ~IsDirAt(victim) /\ disk' = WithoutObject(victim)
           /\ AfterUnlink(TRUE) /\ UNCHANGED refused
  <2>1. \/ pc' = "next" /\ ok' = ok
        \/ pc' = "rename" /\ ok' = ok /\ after = "rename"
        \/ pc' = "done" /\ ok' = FALSE
    BY <1>4 DEF AfterUnlink, Goto, GiveUp, Ends
  <2>2. Owned' /\ (Fulfils' => Fulfils)
    <3>1. refused' = refused
      BY <1>4
    <3>2. CASE pc' \in {"next", "rename"} /\ ok' = ok
      BY <1>1, <1>3, <3>1, <3>2 DEF Owned, Fulfils
    <3>3. CASE pc' = "done" /\ ok' = FALSE
      BY <1>1, <3>1, <3>3 DEF Owned, Fulfils
    <3> QED  BY <2>1, <3>2, <3>3
  <2>3. CASE after = "next"
    <3>1. PICK x \in Path : x = cur.src
      BY <1>1
    <3>2. DOMAIN disk' = DOMAIN disk \ {x} /\ \A r \in DOMAIN disk' : disk'[r] = disk[r]
      BY <1>2, <1>4, <2>3, <3>1, TakenFacts
    <3>3. Survive(cur.src)
      BY <3>1, <3>2, BelowSelf DEF Survive
    <3>4. ASSUME NEW p \in DOMAIN disk', Listed(p)
          PROVE  p \in DOMAIN disk /\ ~IsBelow(p, cur.src)
      <4>1. Listed(x) /\ x \in DOMAIN disk /\ disk[x].kind # "dir"
        BY <1>1, <1>2, <1>4, <2>3, <3>1, WorkParts DEF IsDirAt, Exists
      <4>2. ~IsBelow(p, x)
        BY <3>2, <3>4, <4>1 DEF WorkInv, ListedTree
      <4> QED  BY <3>1, <3>2, <3>4, <4>2
    <3>5. \A q : IsDirAt(q)' => IsDirAt(q)
      BY <3>2 DEF IsDirAt, Exists
    <3>6. pc' \notin {"mvdir", "merge"}
      BY <2>1
    <3> QED  BY <1>1, <1>2, <2>2, <2>3, <3>3, <3>4, <3>5, <3>6, GoneWorks
  <2>4. CASE after # "next"
    <3>1. victim = cur.dst /\ job.op # "delete" /\ cur.src # cur.dst
      BY <1>1, <1>2, <2>4
    <3>2. OnlyDst /\ cur.dst \notin DOMAIN disk'
      BY <1>4, <3>1, TakenOnly
    <3>3. \A d : d = cur.dst /\ IsDirAt(d)' => IsDirAt(d)
      BY <1>1, <3>2 DEF IsDirAt, Exists
    <3>4. Fulfils' => Fulfils /\ pc' \notin {"mvdir", "merge"} /\ AtObject'
      <4>1. Fulfils' => after = "rename"
        BY <1>2, <1>4, <2>4 DEF Fulfils
      <4>2. after = "rename" => pc' = "rename"
        BY <1>4 DEF AfterUnlink, Goto
      <4> QED  BY <2>2, <4>1, <4>2 DEF AtObject
    <3> QED  BY <1>1, <2>2, <3>1, <3>2, <3>3, <3>4, DstWorks
  <2> QED  BY <2>3, <2>4
<1>5. ASSUME NEW a \in {"retry", "skip", "cancel", "none"}, Asks({"retry", "skip"}, a),
             IF a = "retry" THEN Goto("unlink") ELSE AfterUnlink(a = "skip"),
             UNCHANGED disk
      PROVE  WorkInv'
  <2>1. CASE a = "retry"
    <3>1. pc' = "unlink" /\ ok' = ok /\ (refused' <=> refused)
      BY <1>5, <2>1 DEF Goto, Asks
    <3>2. Owned' /\ (Fulfils' => Fulfils) /\ AtObject'
      BY <1>1, <1>3, <3>1 DEF Owned, Fulfils, AtObject
    <3> QED  BY <1>1, <1>5, <3>1, <3>2, QuietWorks
  <2>2. CASE a # "retry"
    <3>1. refused'
      BY <1>5, <2>2 DEF Asks
    <3>2. \/ pc' \in {"next", "rename"} /\ ok' = ok
          \/ pc' = "done" /\ ok' = FALSE
      BY <1>5, <2>2 DEF AfterUnlink, Goto, GiveUp, Ends
    <3> QED  BY <1>1, <1>5, <3>1, <3>2, PassesWorks
  <2> QED  BY <2>1, <2>2
<1> QED
  BY <1>4, <1>5

\* MoveFile and MoveDir return, and the disk is as it was.
LEMMA ReturnsWorks ==
    ASSUME FileInv, FileInv', WorkInv,
           pc \in {"mvfile", "mvdelete", "rename", "mvdir", "merge"},
           NEW r \in {0, 1, -1}, Returns(r), UNCHANGED <<job, disk, cur, stack, skipNonRegular>>,
           refused => refused', r = 0 => refused'
    PROVE  WorkInv'
<1>1. /\ AtObject /\ Owned /\ (skipNonRegular => refused) /\ stack # <<>> /\ job' = job
      /\ skipNonRegular' = skipNonRegular
  BY WorkParts DEF AtObject, Owned
<1>2. /\ \/ pc' = "next" /\ ok' = ok
         \/ pc' = "done" /\ ok' = FALSE
         \/ r = 1 /\ pc' = CopyRoutine(cur.kind) /\ ok' = ok /\ Top.kind # "merge"
      /\ r = 1 /\ Top.kind # "merge" => pc' = CopyRoutine(cur.kind) /\ ok' = ok
      /\ r = -1 /\ Top.kind # "merge" => pc' = "done" /\ ok' = FALSE
  BY DEF Returns, GiveUp, Ends, Goto
<1>3. CopyRoutine(cur.kind) \in {"link", "readdir", "file"}
      /\ (CopyRoutine(cur.kind) = "readdir" => cur.kind = "dir")
  BY DEF CopyRoutine
<1>4. Owned'
  BY <1>1, <1>2, <1>3 DEF Owned
<1>5. Fulfils' => /\ Fulfils /\ UNCHANGED <<cur, stack>> /\ (AtObject => AtObject')
                  /\ pc' # "merge" /\ (pc' = "mvdir" => pc = "mvdir")
  <2>1. Merging' = Merging
    BY DEF Merging
  <2>2. Fulfils' => Fulfils
    BY <1>1, <2>1 DEF Fulfils, Owned
  <2>3. Fulfils => Top.kind # "merge"
    <3>1. 1 \in 1..Len(stack) /\ Top = stack[1]
      BY WorkParts, StackFacts
    <3> QED  BY <3>1 DEF WorkInv, NoMerge
  <2>4. Fulfils' => r # 0
    BY DEF Fulfils
  <2>5. Fulfils' => pc' = CopyRoutine(cur.kind)
    BY <1>2, <2>2, <2>3, <2>4 DEF Fulfils
  <2> QED  BY <1>3, <2>2, <2>5 DEF AtObject
<1> QED
  BY <1>1, <1>4, <1>5, QuietWorks

LEMMA SkipOrStopWorks ==
    ASSUME FileInv, FileInv', WorkInv,
           pc \in {"mvfile", "mvdelete", "rename", "mvdir", "merge"},
           SkipOrStop, UNCHANGED <<job, disk, cur, stack, skipNonRegular>>
    PROVE  WorkInv'
<1>1. PICK a \in {"skip", "cancel", "none"} :
            Asks({"skip"}, a) /\ Returns(IF a = "skip" THEN 0 ELSE -1)
  BY DEF SkipOrStop
<1>2. refused'
  BY <1>1 DEF Asks
<1> QED
  BY <1>1, <1>2, ReturnsWorks

LEMMA MoveFileWorks ==
    ASSUME FileInv, FileInv', WorkInv, MoveFile
    PROVE  WorkInv'
<1> USE DEF MoveFile, Keep
<1>1. /\ pc = "mvfile" /\ AtObject /\ UNCHANGED <<job, disk, cur, stack, skipNonRegular>>
  BY DEF AtObject
<1>2. CASE Returns(1) /\ UNCHANGED refused
  BY <1>1, <1>2, ReturnsWorks
<1>3. CASE Returns(-1) /\ refused' = TRUE
  BY <1>1, <1>3, ReturnsWorks
<1>4. CASE pc' \in {"rename", "mvdelete"} /\ ok' = ok /\ (refused => refused')
  BY <1>1, <1>4, QuietGoes
<1>5. ASSUME NEW a \in {"ok", "all", "no", "cancel", "none"}, Asks({"ok", "all", "no"}, a),
             IF a \in {"ok", "all"}
             THEN Goto("mvdelete")
             ELSE Returns(IF a = "no" THEN 0 ELSE -1)
      PROVE  WorkInv'
  <2>1. CASE a \in {"ok", "all"}
    BY <1>4, <1>5, <2>1 DEF Goto, Asks
  <2>2. CASE a \notin {"ok", "all"}
    <3>1. refused'
      BY <1>5, <2>2 DEF Asks
    <3> QED  BY <1>1, <1>5, <2>2, <3>1, ReturnsWorks
  <2> QED  BY <2>1, <2>2
<1>6. ASSUME NEW same \in Told(IsSameFile), NEW found \in Told(Exists(cur.dst)),
             \/ same /\ Returns(-1) /\ refused' = TRUE
             \/ ~same /\ ~found /\ Goto("rename") /\ UNCHANGED refused
             \/ ~same /\ found /\ Replaces
      PROVE  WorkInv'
  BY <1>3, <1>4, <1>5, <1>6 DEF Goto, Replaces
<1> QED
  BY <1>2, <1>6

LEMMA MoveDeleteWorks ==
    ASSUME FileInv, FileInv', WorkInv, MoveDelete
    PROVE  WorkInv'
<1> USE DEF MoveDelete, Keep, flags
<1>1. /\ pc = "mvdelete" /\ AtObject /\ UNCHANGED <<job, cur, stack, skipNonRegular>>
      /\ job.op = "move" /\ cur.src # cur.dst /\ Owned
  BY NotSelf DEF AtObject, FileInv, Control, Routines, WorkInv
<1>2. CASE SkipOrStop /\ UNCHANGED disk
  BY <1>1, <1>2, SkipOrStopWorks
<1>3. CASE disk' = WithoutObject(cur.dst) /\ Goto("rename") /\ UNCHANGED refused
  <2>1. pc' = "rename" /\ ok' = ok
    BY <1>3 DEF Goto
  <2>2. OnlyDst /\ cur.dst \notin DOMAIN disk'
    BY <1>3, TakenOnly
  <2>3. \A d : d = cur.dst /\ IsDirAt(d)' => IsDirAt(d)
    BY <1>1, <2>2 DEF IsDirAt, Exists
  <2>4. Owned' /\ (Fulfils' => Fulfils /\ pc' \notin {"mvdir", "merge"} /\ AtObject')
    BY <1>1, <1>3, <2>1 DEF Owned, Fulfils, Merging, AtObject
  <2> QED  BY <1>1, <2>2, <2>3, <2>4, DstWorks
<1> QED
  BY <1>2, <1>3

LEMMA RenameWorks ==
    ASSUME FileInv, FileInv', WorkInv, Rename
    PROVE  WorkInv'
<1> USE DEF Rename, Keep, flags
<1>1. /\ pc = "rename" /\ AtObject /\ UNCHANGED <<job, cur, stack, skipNonRegular, after>>
      /\ job.op = "move" /\ Doable /\ cur.src # cur.dst /\ Owned
      /\ cur.src \in Path /\ cur.dst \in Path /\ \A r \in DOMAIN disk : r \in Path
  BY WorkParts, NotSelf DEF AtObject, FileInv, Control, Routines, WorkInv
<1>2. CASE SkipOrStop /\ UNCHANGED disk
  BY <1>1, <1>2, SkipOrStopWorks
<1>3. CASE Returns(1) /\ UNCHANGED <<disk, refused>>
  BY <1>1, <1>3, ReturnsWorks
<1>4. CASE /\ CanRename(cur.src, cur.dst)
           /\ disk' = IF cur.src = cur.dst THEN disk ELSE WithRenamed(cur.src, cur.dst)
           /\ Returns(0) /\ UNCHANGED refused
  <2>1. PICK s \in Path, d \in Path : s = cur.src /\ d = cur.dst
    BY <1>1
  <2>2. /\ \A r \in DOMAIN disk : ~IsBelow(r, s) /\ r # d => r \in DOMAIN disk' /\ disk'[r] = disk[r]
        /\ \A r \in DOMAIN disk' :
                \/ r \in DOMAIN disk /\ ~IsBelow(r, s) /\ disk'[r] = disk[r]
                \/ r \in Path /\ IsBelow(r, d)
    <3>1. s # d /\ CanRename(s, d) /\ disk' = WithRenamed(s, d)
      BY <1>1, <1>4, <2>1
    <3>2. /\ \A r \in DOMAIN disk : ~IsBelow(r, s) /\ r # d => r \in DOMAIN disk' /\ disk'[r] = disk[r]
          /\ \A r \in DOMAIN disk' :
                \/ r \in DOMAIN disk /\ ~IsBelow(r, s) /\ r # d /\ disk'[r] = disk[r]
                \/ \E t \in DOMAIN disk :
                        IsBelow(t, s) /\ r = Rebased(t, s, d) /\ disk'[r] = disk[t]
      BY <1>1, <3>1, RenamedFacts
    <3>3. \A t \in DOMAIN disk : IsBelow(t, s) => Rebased(t, s, d) \in Path /\ IsBelow(Rebased(t, s, d), d)
      BY <1>1, RebasedFacts
    <3> QED  BY <3>2, <3>3
  <2>3. ~Listed(d) /\ \A r \in Path : IsBelow(r, d) => ~Listed(r)
    BY <1>1, <2>1, DstAway DEF FileInv
  <2>4. d = Destination(s)
    BY <1>1, <2>1, DstAway DEF FileInv
  <2>5. Survive(cur.src)
    BY <2>1, <2>2, <2>3 DEF Survive
  <2>6. \A p \in DOMAIN disk' : Listed(p) => p \in DOMAIN disk /\ ~IsBelow(p, cur.src)
    BY <2>1, <2>2, <2>3
  <2>7. \A q : IsDirAt(q)' => IsDirAt(q) \/ IsBelow(q, Destination(cur.src))
    <3>1. ASSUME NEW q, IsDirAt(q)'
          PROVE  IsDirAt(q) \/ IsBelow(q, d)
      BY <2>2, <3>1 DEF IsDirAt, Exists
    <3> QED  BY <2>1, <2>4, <3>1
  <2>8. \/ pc' = "next" /\ ok' = ok
        \/ pc' = "done" /\ ok' = FALSE
    BY <1>4 DEF Returns, GiveUp, Ends, Goto
  <2>9. Owned' /\ (Fulfils' => Fulfils)
    <3>1. refused' = refused
      BY <1>4
    <3>2. CASE pc' = "next" /\ ok' = ok
      BY <1>1, <3>1, <3>2 DEF Owned, Fulfils, Merging
    <3>3. CASE pc' = "done" /\ ok' = FALSE
      BY <1>1, <3>1, <3>3 DEF Owned, Fulfils
    <3> QED  BY <2>8, <3>2, <3>3
  <2>10. pc' \notin {"mvdir", "merge"}
    BY <2>8
  <2> QED  BY <1>1, <2>5, <2>6, <2>7, <2>9, <2>10, GoneWorks
<1> QED
  BY <1>2, <1>3, <1>4

LEMMA MoveDirWorks ==
    ASSUME FileInv, FileInv', WorkInv, MoveDir
    PROVE  WorkInv'
<1> USE DEF MoveDir, Keep, flags
<1>1. /\ pc = "mvdir" /\ AtObject /\ UNCHANGED <<job, disk, cur, stack, skipNonRegular>>
      /\ Owned /\ ok /\ (skipNonRegular => refused) /\ job.op = "move"
  BY DEF AtObject, WorkInv, Owned, FileInv, Control, Routines
<1>2. ASSUME NEW r \in {1, -1}, Returns(r), UNCHANGED refused
      PROVE  WorkInv'
  BY <1>1, <1>2, ReturnsWorks
<1>3. ASSUME NEW r \in {0, 1, -1}, Returns(r), refused'
      PROVE  WorkInv'
  BY <1>1, <1>3, ReturnsWorks
<1>4. CASE Goto("rename") /\ UNCHANGED refused
  <2>1. pc' = "rename" /\ ok' = ok
    BY <1>4 DEF Goto
  <2> QED  BY <1>1, <1>4, <2>1, QuietGoes
<1>5. CASE ReplaceFile
  <2>1. PICK a \in {"ok", "skip", "cancel", "none"} :
            /\ Asks({"ok", "skip"}, a)
            /\ IF a \in {"ok", "none"}
               THEN StartUnlink(cur.dst, "rename")
               ELSE Returns(IF a = "skip" THEN 0 ELSE -1)
    BY <1>5 DEF ReplaceFile
  <2>2. CASE a \in {"ok", "none"}
    <3>1. pc' = "unlink" /\ after' = "rename" /\ ok' = ok /\ (refused => refused')
      BY <2>1, <2>2 DEF StartUnlink, Goto, Asks
    <3>2. Owned' /\ (Fulfils' => Fulfils) /\ AtObject'
      BY <1>1, <3>1 DEF Owned, Fulfils, Merging, AtObject
    <3> QED  BY <1>1, <1>5, <3>1, <3>2, QuietWorks
  <2>3. CASE a \notin {"ok", "none"}
    <3>1. refused'
      BY <2>1, <2>3 DEF Asks
    <3> QED  BY <1>3, <1>5, <2>1, <2>3, <3>1
  <2> QED  BY <2>2, <2>3
<1>6. CASE Goto("merge") /\ IsDirAt(cur.dst) /\ job.fs \in {"same", "mount"} /\ UNCHANGED refused
  <2>1. ~Fulfils
    BY <1>1, <1>6 DEF WorkInv, NoMerge, Renames
  <2>2. pc' = "merge" /\ ok' = ok
    BY <1>6 DEF Goto
  <2>3. Owned' /\ ~Fulfils'
    BY <1>1, <1>6, <2>1, <2>2 DEF Owned, Fulfils, Merging
  <2> QED  BY <1>1, <2>3, QuietWorks
<1>7. CASE Returns(-1) /\ refused' = TRUE
  BY <1>3, <1>7
<1>8. ASSUME job.fs \in {"same", "mount"},
             NEW same \in Told(IsSameFile), NEW found \in Told(Exists(cur.dst)),
             \/ same /\ Returns(-1) /\ refused' = TRUE
             \/ ~same /\ found /\ ~IsDirAt(cur.dst) /\ ReplaceFile
             \/ /\ ~same /\ (found => IsDirAt(cur.dst))
                /\ Goto(IF found THEN "merge" ELSE "rename") /\ UNCHANGED refused
      PROVE  WorkInv'
  <2>1. found \in BOOLEAN
    BY ToldFacts
  <2>2. CASE ~same /\ (found => IsDirAt(cur.dst))
             /\ Goto(IF found THEN "merge" ELSE "rename") /\ UNCHANGED refused
    <3>1. CASE found
      BY <1>6, <1>8, <2>2, <3>1
    <3>2. CASE ~found
      BY <1>4, <2>2, <3>2
    <3> QED  BY <3>1, <3>2
  <2> QED  BY <1>5, <1>7, <1>8, <2>2
<1> QED
  BY <1>2, <1>8

LEMMA MergeDirWorks ==
    ASSUME FileInv, FileInv', WorkInv, MergeDir
    PROVE  WorkInv'
<1> USE DEF MergeDir, Keep, flags
<1>1. /\ pc = "merge" /\ UNCHANGED <<job, disk, cur, skipNonRegular>>
      /\ Owned /\ ok /\ (skipNonRegular => refused) /\ ~Fulfils
  BY DEF WorkInv, Owned, NoMerge
<1>2. CASE pc' \in {"next", "merge"} /\ ok' = ok /\ (refused => refused')
  <2>1. Owned' /\ ~Fulfils'
    BY <1>1, <1>2 DEF Owned, Fulfils, Merging
  <2> QED  BY <1>1, <2>1, QuietWorks
<1>3. CASE Returns(-1) /\ UNCHANGED <<stack, refused>>
  BY <1>1, <1>3, ReturnsWorks
<1>4. ASSUME NEW a \in {"retry", "skip", "cancel"}, Asks({"retry", "skip"}, a),
             IF a = "retry" THEN Goto("merge") ELSE Returns(IF a = "skip" THEN 0 ELSE -1),
             UNCHANGED stack
      PROVE  WorkInv'
  <2>1. CASE a = "retry"
    BY <1>2, <1>4, <2>1 DEF Goto, Asks
  <2>2. CASE a # "retry"
    <3>1. refused'
      BY <1>4, <2>2 DEF Asks
    <3> QED  BY <1>1, <1>4, <2>2, <3>1, ReturnsWorks
  <2> QED  BY <2>1, <2>2
<1> QED
  BY <1>2, <1>3, <1>4 DEF Goto

LEMMA DeleteFileWorks ==
    ASSUME FileInv, FileInv', WorkInv, DeleteFile
    PROVE  WorkInv'
<1> USE DEF DeleteFile, Keep
<1>1. /\ pc = "delfile" /\ AtObject /\ UNCHANGED <<job, disk, cur, stack, skipNonRegular>>
      /\ Owned /\ (skipNonRegular => refused)
  BY DEF AtObject, WorkInv, Owned
<1>2. CASE GiveUp /\ (refused => refused')
  BY <1>1, <1>2, GivenUp
<1>3. CASE StartUnlink(cur.src, "next") /\ (refused => refused')
  <2>1. pc' = "unlink" /\ after' = "next" /\ ok' = ok
    BY <1>3 DEF StartUnlink, Goto
  <2>2. Owned' /\ (Fulfils' => Fulfils) /\ AtObject'
    BY <1>1, <1>3, <2>1 DEF Owned, Fulfils, Merging, AtObject
  <2> QED  BY <1>1, <2>1, <2>2, QuietWorks
<1>4. ASSUME NEW a \in {"ok", "all", "skip", "cancel"}, Asks({"ok", "all", "skip"}, a),
             \/ a \in {"ok", "all"} /\ StartUnlink(cur.src, "next")
             \/ a = "skip" /\ Goto("next")
             \/ a = "cancel" /\ GiveUp
      PROVE  WorkInv'
  <2>1. CASE a \in {"ok", "all"}
    BY <1>3, <1>4, <2>1 DEF Asks
  <2>2. CASE a = "skip"
    <3>1. refused' /\ pc' = "next" /\ ok' = ok
      BY <1>4, <2>2 DEF Asks, Goto
    <3> QED  BY <1>1, <3>1, PassesWorks
  <2>3. CASE a = "cancel"
    <3>1. refused' /\ GiveUp
      BY <1>4, <2>3 DEF Asks
    <3> QED  BY <1>2, <3>1
  <2> QED  BY <1>4, <2>1, <2>2, <2>3
<1> QED
  BY <1>2, <1>3, <1>4

LEMMA StopWorks ==
    ASSUME FileInv, FileInv', WorkInv,
           UNCHANGED <<job, disk, pc, cur, stack, after, skipNonRegular, ok, refused>>
    PROVE  WorkInv'
<1>1. Owned' /\ (Fulfils' => Fulfils /\ pc' # "merge") /\ (AtObject => AtObject')
  <2>1. Doable' = Doable
    BY JobStays
  <2>2. Merging' = Merging
    BY DEF Merging
  <2> QED  BY <2>1, <2>2 DEF WorkInv, Owned, Fulfils, AtObject, NoMerge
<1> QED
  BY <1>1, QuietWorks
-----------------------------------------------------------------------------
LEMMA InitWorks ==
    ASSUME FileInit, Apart
    PROVE  WorkInv
<1> DEFINE f == ListFrame("list", job.from, job.to, job.list)
<1>1. /\ job \in Job /\ disk = job.disk /\ stack = <<f>> /\ Len(stack) = 1 /\ stack[1] = f
      /\ pc \in {"next", "begin"} /\ ok = TRUE /\ skipNonRegular = FALSE
  BY DEF FileInit
<1>2. f.kind = "list" /\ f.src = job.from /\ f.todo = job.list
  BY DEF ListFrame
<1> HIDE DEF f
<1>3. /\ job.from \in Path /\ job.to \in Path /\ job.list \subseteq Name
      /\ \A p \in DOMAIN job.disk : p \in Path
      /\ Len(job.from) \in Nat
  BY <1>1, JobFacts
<1>4. ListedTree
  <2>1. ASSUME NEW p \in DOMAIN disk, NEW q \in Path, Listed(q), IsBelow(p, q), q # p
        PROVE  q \in DOMAIN disk /\ disk[q].kind = "dir"
    <3>1. p \in Path /\ p \in DOMAIN job.disk
      BY <1>1, <1>3
    <3>2. Len(p) \in Nat /\ Len(q) \in Nat /\ Len(q) > Len(job.from)
      BY <2>1, <3>1, PathFacts DEF Listed
    <3>3. ~(Len(p) <= Len(q))
      BY <2>1, <3>1, BelowEqual
    <3>4. Len(q) \in 1 .. Len(p) - 1
      BY <1>3, <3>2, <3>3
    <3>5. SubSeq(p, 1, Len(q)) \in DOMAIN job.disk /\ job.disk[SubSeq(p, 1, Len(q))].kind = "dir"
      BY <1>1, <3>1, <3>4, DiskAssumption
    <3>6. SubSeq(p, 1, Len(q)) = q
      BY <2>1 DEF IsBelow
    <3> QED  BY <1>1, <3>5, <3>6
  <2> QED  BY <2>1 DEF ListedTree
<1>5. CopyStays /\ Owned
  BY <1>1 DEF CopyStays, Owned
<1>6. ASSUME ~Merging
      PROVE  NoMerge
  <2>1. \A i \in 1..Len(stack) : i = 1
    BY <1>1
  <2>2. ASSUME Renames, NEW n \in job.list, job.disk[SourceOf(n)].kind = "dir"
        PROVE  ~IsDirAt(Destination(SourceOf(n)))
    <3>1. Destination(SourceOf(n)) \in {job.to, Append(job.to, n)}
      BY <1>1, DestinationTop
    <3>2. \A q \in {job.to, Append(job.to, n)} : ~(q \in DOMAIN job.disk /\ job.disk[q].kind = "dir")
      BY <1>6, <2>2 DEF Merging, Renames, SourceOf
    <3> QED  BY <1>1, <3>1, <3>2 DEF IsDirAt, Exists
  <2>3. \A i \in 1..Len(stack) : stack[i].kind = "list" /\ stack[i].todo = job.list
    BY <1>1, <1>2, <2>1
  <2>4. pc \notin {"mvdir", "merge"}
    BY <1>1
  <2> QED  BY <2>2, <2>3, <2>4 DEF NoMerge
<1>7. WorkLeft
  <2>1. ASSUME NEW p \in DOMAIN disk, Listed(p)
        PROVE  Pending(p)
    <3>1. p \in Path
      BY <1>1, <1>3
    <3>2. PICK n \in job.list : IsBelow(p, SourceOf(n))
      BY <1>1, <2>1, <3>1, ListedFacts
    <3>3. 1 \in 1..Len(stack) /\ n \in stack[1].todo /\ IsBelow(p, Append(stack[1].src, n))
      BY <1>1, <1>2, <3>2 DEF SourceOf
    <3> QED  BY <3>3 DEF Pending
  <2> QED  BY <2>1 DEF WorkLeft
<1> QED
  BY <1>4, <1>5, <1>6, <1>7 DEF WorkInv, Fulfils

LEMMA WorkStepKeeps ==
    ASSUME FileInv, WorkInv, [FileNext]_fileVars
    PROVE  FileInv' /\ WorkInv'
<1>1. FileInv'
  BY FileStepKeeps
<1>2. Lasts
  BY StepLasts DEF FileInv, Control, FileTypes, PlainTypes
<1>3. CASE FileStep
  <2>1. CASE Begin
    BY <1>1, <2>1, BeginWorks
  <2>2. CASE NextObject
    BY <1>1, <1>2, <2>2, NextObjectWorks
  <2>3. CASE EndOfList
    BY <1>1, <2>3, EndOfListWorks
  <2>4. CASE Unlink
    BY <1>1, <2>4, UnlinkWorks
  <2>5. CASE RmDir
    BY <1>1, <2>5, RmDirWorks
  <2>6. CASE ReadDir
    BY <1>1, <2>6, ReadDirWorks
  <2>7. CASE MkDir
    BY <1>1, <2>7, MkDirWorks
  <2>8. CASE CopyLink
    BY <1>1, <2>8, CopyLinkWorks
  <2>9. CASE CopyFile
    BY <1>1, <2>9, CopyFileWorks
  <2>10. CASE OpenSource
    BY <1>1, <2>10, OpenSourceWorks
  <2>11. CASE CreateCopy
    BY <1>1, <2>11, CreateCopyWorks
  <2>12. CASE Overwrite
    BY <1>1, <2>12, OverwriteWorks
  <2>13. CASE CopyData
    BY <1>1, <2>13, CopyDataWorks
  <2>14. CASE CloseCopy
    BY <1>1, <2>14, CloseCopyWorks
  <2>15. CASE MoveFile
    BY <1>1, <2>15, MoveFileWorks
  <2>16. CASE MoveDelete
    BY <1>1, <2>16, MoveDeleteWorks
  <2>17. CASE Rename
    BY <1>1, <2>17, RenameWorks
  <2>18. CASE MoveDir
    BY <1>1, <2>18, MoveDirWorks
  <2>19. CASE DeleteFile
    BY <1>1, <2>19, DeleteFileWorks
  <2>20. CASE MakeLink
    BY <1>1, <2>20, MakeLinkWorks
  <2>21. CASE MergeDir
    BY <1>1, <2>21, MergeDirWorks
  <2> QED
    BY <1>1, <1>3, <2>1, <2>2, <2>3, <2>4, <2>5, <2>6, <2>7, <2>8, <2>9, <2>10, <2>11, <2>12,
       <2>13, <2>14, <2>15, <2>16, <2>17, <2>18, <2>19, <2>20, <2>21 DEF FileStep
<1>4. CASE StopOperation
  BY <1>1, <1>4, StopWorks DEF StopOperation, flags, ghosts
<1>5. CASE UNCHANGED fileVars
  BY <1>1, <1>5, StopWorks DEF fileVars
<1> QED
  BY <1>1, <1>3, <1>4, <1>5 DEF FileNext, FileDone

\* Nothing that is listed is taken for absent: it is no target.
Unlisted == \A p \in unseen : ~Listed(p)

LEMMA UnlistedKeeps ==
    ASSUME FileInv, Unlisted, [FileNext]_fileVars
    PROVE  Unlisted'
<1>1. Lasts
  BY StepLasts DEF FileInv, Control, FileTypes, PlainTypes
<1>2. \A p : Listed(p)' = Listed(p)
  BY <1>1, JobStays DEF Lasts
<1>3. pc \in Looks => ~Listed(cur.dst)
  <2>1. pc \in Looks => AtObject /\ job.op # "delete"
    BY DEF Looks, AtObject, FileInv, Control, Routines
  <2> QED  BY <2>1, DstAway DEF FileInv
<1> QED
  BY <1>1, <1>2, <1>3 DEF Lasts, Unlisted

LEMMA InvAllDone == FileInv /\ WorkInv /\ Unlisted => AllDone
<1> SUFFICES ASSUME FileInv, WorkInv, Unlisted, pc = "done", ok, ~refused, ~Merging,
                    NEW p \in DOMAIN job.disk, Listed(p), job.disk[p].kind \in {"file", "link"}
             PROVE  /\ job.op # "copy" => ~Exists(p)
                    /\ job.op # "delete" => /\ Exists(Destination(p))
                                            /\ disk[Destination(p)] = job.disk[p]
  BY DEF AllDone
<1>1. /\ CopyStays /\ Owned /\ WorkLeft /\ job \in Job
      /\ job.op \in {"copy", "move", "delete"} /\ p \in Path
  BY WorkParts, JobFacts DEF Fulfils
<1>2. ~Pending(p)
  BY <1>1 DEF Owned, Pending, AtObject
<1>3. p \in DOMAIN disk => job.op = "copy" /\ AtDestination(p)
  <2>1. p \in DOMAIN disk => disk[p] = job.disk[p]
    BY DEF FileInv, Data, SourcesKept
  <2> QED  BY <1>1, <1>2, <2>1 DEF WorkLeft
<1>4. CASE job.op = "copy"
  <2>1. AtDestination(p)
    BY <1>1, <1>3, <1>4 DEF CopyStays
  <2> QED  BY <1>4, <2>1 DEF AtDestination, Exists
<1>5. CASE job.op = "delete"
  BY <1>3, <1>5 DEF Exists
<1>6. CASE job.op = "move"
  <2>1. p \notin DOMAIN disk
    BY <1>3, <1>6
  <2>2. ~LostUnasked(p)
    <3>1. ~skipNonRegular /\ Doable
      BY <1>1, <1>6 DEF Owned
    <3>2. ASSUME NEW n \in job.list, job.disk[SourceOf(n)].kind = "dir",
                 p = Destination(SourceOf(n))
          PROVE  FALSE
      <4>1. p[Len(job.from) + 1] \in job.list
            /\ IsBelow(p, SourceOf(p[Len(job.from) + 1]))
        BY <1>1, ListedFacts
      <4>2. \A m \in job.list : ~IsBelow(p, SourceOf(m))
        BY <1>6, <3>1, <3>2 DEF FileInv, Apart
      <4> QED  BY <4>1, <4>2
    <3>3. p \notin unseen
      BY DEF Unlisted
    <3> QED  BY <3>1, <3>2, <3>3 DEF LostUnasked, SourceOf
  <2>3. AtDestination(p)
    BY <1>6, <2>1, <2>2 DEF FileInv, Data, ListedKept
  <2> QED  BY <1>6, <2>1, <2>3 DEF AtDestination, Exists
<1> QED
  BY <1>1, <1>4, <1>5, <1>6

(***************************************************************************)
(* An operation that says it has succeeded, without having been refused    *)
(* anything, has done all of its work (fileopers.cpp): each file and link  *)
(* that was listed, at any depth, is whole at its destination after a copy *)
(* or a move, and is gone from its place after a move or a delete, also    *)
(* when calls have failed and been repeated.                               *)
(***************************************************************************)
THEOREM DoesAllItSays == FileSpec /\ Apart => []AllDone
<1>1. FileInit /\ Apart => FileInv /\ WorkInv /\ Unlisted
  BY InitHolds, InitWorks DEF FileInit, Unlisted
<1>2. FileInv /\ WorkInv /\ Unlisted /\ [FileNext]_fileVars => FileInv' /\ WorkInv' /\ Unlisted'
  BY WorkStepKeeps, UnlistedKeeps
<1>3. FileInv /\ WorkInv /\ Unlisted => AllDone
  BY InvAllDone
<1> QED
  BY <1>1, <1>2, <1>3, PTL DEF FileSpec
=============================================================================
