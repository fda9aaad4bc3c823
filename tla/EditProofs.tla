----------------------------- MODULE EditProofs -----------------------------
(***************************************************************************)
(* Proofs about the editor, for any files and clipboards, any capacity of  *)
(* the list for undo and any number of commands: that Undo and Redo give   *)
(* exactly the text back (EditText), that no text a command has made is    *)
(* lost unless the user has agreed to lose it (EditSession), and that a    *)
(* file that is loaded and saved is the same file.                         *)
(***************************************************************************)
EXTENDS EditSession, SequenceTheorems, FiniteSetTheorems, WellFoundedInduction,
        NaturalsInduction, TLAPS

-----------------------------------------------------------------------------
(* Recursion and induction over the numbers up to n.                       *)

LEMMA LeastNumber ==
    ASSUME NEW set, set \subseteq Nat, set # {}
    PROVE  \E n \in set : \A k \in set : n <= k
<1> DEFINE R == OpToRel(<, Nat)
<1>1. IsWellFoundedOn(R, Nat)
  BY NatLessThanWellFounded
<1>2. \A k, m \in Nat : k < m <=> <<k, m>> \in R
  BY DEF OpToRel
<1> HIDE DEF R
<1>3. PICK n \in set : \A k \in set : ~(<<k, n>> \in R)
  BY <1>1, WFMin
<1>4. ASSUME NEW k \in set
      PROVE  n <= k
  <2>1. k \in Nat /\ n \in Nat
    OBVIOUS
  <2>2. ~(k < n)
    BY <1>2, <1>3, <2>1, Zenon
  <2> QED  BY <2>1, <2>2
<1> QED
  BY <1>4

\* What begins with base and goes on with step is a function.
Follows(f, n, base, step) == f[0] = base /\ \A k \in 1..n : f[k] = step[<<f[k - 1], k>>]

LEMMA FollowsExists ==
    ASSUME NEW S, NEW n \in Nat, NEW base \in S, NEW step \in [S \X (1..n) -> S]
    PROVE  \E f \in [0..n -> S] : Follows(f, n, base, step)
<1> DEFINE wrong == {m \in 0..n : ~\E f \in [0..m -> S] : Follows(f, m, base, step)}
<1>1. wrong = {}
  <2> SUFFICES ASSUME wrong # {}
               PROVE  FALSE
    OBVIOUS
  <2>1. wrong \subseteq Nat
    OBVIOUS
  <2>2. PICK m \in wrong : \A k \in wrong : m <= k
    BY <2>1, LeastNumber
  <2>3. m \in 0..n /\ ~\E f \in [0..m -> S] : Follows(f, m, base, step)
    BY <2>2
  <2>4. CASE m = 0
    <3> DEFINE g == [k \in 0..0 |-> base]
    <3>1. g \in [0..m -> S] /\ g[0] = base /\ 1..m = {}
      BY <2>4
    <3> HIDE DEF g
    <3> QED  BY <2>3, <3>1 DEF Follows
  <2>5. CASE m # 0
    <3>1. m - 1 \in 0..n /\ m \in 1..n /\ ~(m <= m - 1)
      BY <2>3, <2>5
    <3>2. m - 1 \notin wrong
      BY <2>2, <3>1
    <3>3. PICK f \in [0..m - 1 -> S] : Follows(f, m - 1, base, step)
      BY <3>1, <3>2
    <3> DEFINE g == [k \in 0..m |-> IF k = m THEN step[<<f[m - 1], m>>] ELSE f[k]]
    <3>4. f[m - 1] \in S /\ step[<<f[m - 1], m>>] \in S
      BY <3>1, <3>3
    <3>5. g \in [0..m -> S]
      <4>1. ASSUME NEW k \in 0..m, k # m
            PROVE  f[k] \in S
        <5>1. k \in 0..m - 1
          BY <2>3, <4>1
        <5> QED  BY <5>1
      <4> QED  BY <3>4, <4>1
    <3>6. /\ g[m] = step[<<f[m - 1], m>>]
          /\ \A k \in 0..m - 1 : g[k] = f[k]
      BY <2>3
    <3> HIDE DEF g
    <3>7. Follows(g, m, base, step)
      <4>1. g[0] = base
        BY <3>1, <3>3, <3>6 DEF Follows
      <4>2. ASSUME NEW k \in 1..m
            PROVE  g[k] = step[<<g[k - 1], k>>]
        <5>1. k - 1 \in 0..m - 1
          BY <2>3, <4>2
        <5>2. CASE k = m
          BY <3>6, <5>1, <5>2
        <5>3. CASE k # m
          <6>1. k \in 1..m - 1 /\ k \in 0..m - 1
            BY <2>3, <4>2, <5>3
          <6> QED  BY <3>3, <3>6, <5>1, <6>1 DEF Follows
        <5> QED  BY <5>2, <5>3
      <4> QED  BY <4>1, <4>2 DEF Follows
    <3> QED  BY <2>3, <3>5, <3>7
  <2> QED  BY <2>4, <2>5
<1> QED
  BY <1>1

-----------------------------------------------------------------------------
(* EditText: the pieces of a sequence.                                     *)

\* What may be in a line, and lines.
Letter == EdChar \union {"\r", "\n"}
EdLine == [s : Seq(Letter), cr : BOOLEAN]
EdText == Seq(EdLine)

LEMMA TakeIs ==
    ASSUME NEW S, NEW s \in Seq(S), NEW n \in 0..Len(s)
    PROVE  /\ Take(s, n) \in Seq(S) /\ Len(Take(s, n)) = n
           /\ \A i \in 1..n : Take(s, n)[i] = s[i]
<1>1. Len(s) \in Nat /\ n \in Int /\ 1 \in Int
  BY LenProperties
<1>2. \A i \in 1..n : s[i] \in S
  BY ElementOfSeq, <1>1
<1> QED
  BY <1>1, <1>2, SubSeqProperties DEF Take

LEMMA DropIs ==
    ASSUME NEW S, NEW s \in Seq(S), NEW n \in 0..Len(s)
    PROVE  /\ Drop(s, n) \in Seq(S) /\ Len(Drop(s, n)) = Len(s) - n
           /\ \A i \in 1..Len(s) - n : Drop(s, n)[i] = s[n + i]
<1>1. Len(s) \in Nat /\ n \in Int /\ n + 1 \in Int
  BY LenProperties
<1>2. \A i \in n + 1..Len(s) : s[i] \in S
  BY ElementOfSeq, <1>1
<1>3. /\ SubSeq(s, n + 1, Len(s)) \in Seq(S)
      /\ Len(SubSeq(s, n + 1, Len(s))) = IF n + 1 <= Len(s) THEN Len(s) - (n + 1) + 1 ELSE 0
      /\ \A i \in 1..Len(s) - (n + 1) + 1 : SubSeq(s, n + 1, Len(s))[i] = s[n + 1 + i - 1]
  BY <1>1, <1>2, SubSeqProperties
<1> QED
  BY <1>1, <1>3 DEF Drop

\* Three sequences, one behind the other.
Three(y, S, s, t, u) ==
    /\ y \in Seq(S) /\ Len(y) = Len(s) + Len(t) + Len(u)
    /\ \A i \in 1..Len(s) : y[i] = s[i]
    /\ \A i \in Len(s) + 1..Len(s) + Len(t) : y[i] = t[i - Len(s)]
    /\ \A i \in Len(s) + Len(t) + 1..Len(s) + Len(t) + Len(u) : y[i] = u[i - Len(s) - Len(t)]

LEMMA ThreeAre ==
    ASSUME NEW S, NEW s \in Seq(S), NEW t \in Seq(S), NEW u \in Seq(S)
    PROVE  Three(s \o t \o u, S, s, t, u)
<1>1. Len(s) \in Nat /\ Len(t) \in Nat /\ Len(u) \in Nat
  BY LenProperties
<1>2. s \o t \in Seq(S) /\ Len(s \o t) = Len(s) + Len(t)
      /\ \A i \in 1..Len(s) + Len(t) : (s \o t)[i] = IF i <= Len(s) THEN s[i] ELSE t[i - Len(s)]
  BY ConcatProperties
<1> DEFINE v == s \o t
<1>3. v \o u \in Seq(S) /\ Len(v \o u) = Len(v) + Len(u)
      /\ \A i \in 1..Len(v) + Len(u) : (v \o u)[i] = IF i <= Len(v) THEN v[i] ELSE u[i - Len(v)]
  BY <1>2, ConcatProperties
<1> HIDE DEF v
<1>4. /\ v \o u \in Seq(S) /\ Len(v \o u) = Len(s) + Len(t) + Len(u)
      /\ \A i \in 1..Len(s) : (v \o u)[i] = s[i]
      /\ \A i \in Len(s) + 1..Len(s) + Len(t) : (v \o u)[i] = t[i - Len(s)]
      /\ \A i \in Len(s) + Len(t) + 1..Len(s) + Len(t) + Len(u) :
            (v \o u)[i] = u[i - Len(s) - Len(t)]
  <2>1. Len(v) = Len(s) + Len(t) /\ \A i \in 1..Len(s) + Len(t) : v[i] = IF i <= Len(s) THEN s[i] ELSE t[i - Len(s)]
    BY <1>2 DEF v
  <2>2. ASSUME NEW i \in 1..Len(s)
        PROVE  (v \o u)[i] = s[i]
    BY <1>1, <1>3, <2>1
  <2>3. ASSUME NEW i \in Len(s) + 1..Len(s) + Len(t)
        PROVE  (v \o u)[i] = t[i - Len(s)]
    BY <1>1, <1>3, <2>1
  <2>4. ASSUME NEW i \in Len(s) + Len(t) + 1..Len(s) + Len(t) + Len(u)
        PROVE  (v \o u)[i] = u[i - Len(s) - Len(t)]
    <3>1. i \in 1..Len(v) + Len(u) /\ ~(i <= Len(v)) /\ i - Len(v) = i - Len(s) - Len(t)
      BY <1>1, <2>1
    <3> QED  BY <1>3, <3>1
  <2>5. v \o u \in Seq(S) /\ Len(v \o u) = Len(s) + Len(t) + Len(u)
    BY <1>3, <2>1
  <2> QED  BY <2>2, <2>3, <2>4, <2>5
<1>5. Three(v \o u, S, s, t, u)
  BY <1>4 DEF Three
<1> QED
  BY <1>5 DEF v

LEMMA TextFacts ==
    ASSUME NEW t \in EdText
    PROVE  /\ Len(t) \in Nat /\ DOMAIN t = 1..Len(t)
           /\ \A i \in 1..Len(t) : /\ t[i] \in EdLine /\ t[i].s \in Seq(Letter) /\ Len(t[i].s) \in Nat
                                   /\ t[i].cr \in BOOLEAN /\ t[i] = Line(t[i].s, t[i].cr)
<1>1. Len(t) \in Nat /\ DOMAIN t = 1..Len(t)
  BY LenProperties DEF EdText
<1>2. \A i \in 1..Len(t) : t[i] \in EdLine
  BY ElementOfSeq DEF EdText
<1>3. \A l \in EdLine : l.s \in Seq(Letter) /\ l.cr \in BOOLEAN /\ l = Line(l.s, l.cr) /\ Len(l.s) \in Nat
  BY LenProperties DEF EdLine, Line
<1> QED
  BY <1>1, <1>2, <1>3

\* Texts with the same lines are the same.
LEMMA SameText ==
    ASSUME NEW t \in EdText, NEW u \in EdText, Len(t) = Len(u), \A i \in 1..Len(t) : t[i] = u[i]
    PROVE  t = u
BY SeqEqual DEF EdText

LEMMA NewLineAtIs ==
    ASSUME NEW t \in EdText, NEW l \in 1..Len(t) + 1, NEW line \in EdLine
    PROVE  /\ NewLineAt(t, l, line) \in EdText /\ Len(NewLineAt(t, l, line)) = Len(t) + 1
           /\ \A i \in 1..Len(t) + 1 :
                NewLineAt(t, l, line)[i] = IF i < l THEN t[i] ELSE IF i = l THEN line ELSE t[i - 1]
<1>1. Len(t) \in Nat /\ l - 1 \in 0..Len(t)
  BY TextFacts
<1> DEFINE a == Take(t, l - 1)
           m == <<line>>
           z == Drop(t, l - 1)
<1>2. a \in EdText /\ Len(a) = l - 1 /\ \A i \in 1..l - 1 : a[i] = t[i]
  BY <1>1, TakeIs DEF EdText
<1>3. z \in EdText /\ Len(z) = Len(t) - (l - 1) /\ \A i \in 1..Len(t) - (l - 1) : z[i] = t[l - 1 + i]
  BY <1>1, DropIs DEF EdText
<1>4. m \in EdText /\ Len(m) = 1 /\ m[1] = line
  BY DEF EdText
<1>5. NewLineAt(t, l, line) = a \o m \o z
  BY DEF NewLineAt
<1> HIDE DEF a, m, z
<1>6. /\ a \o m \o z \in EdText /\ Len(a \o m \o z) = Len(a) + Len(m) + Len(z)
      /\ \A i \in 1..Len(a) : (a \o m \o z)[i] = a[i]
      /\ \A i \in Len(a) + 1..Len(a) + Len(m) : (a \o m \o z)[i] = m[i - Len(a)]
      /\ \A i \in Len(a) + Len(m) + 1..Len(a) + Len(m) + Len(z) :
            (a \o m \o z)[i] = z[i - Len(a) - Len(m)]
  <2>1. a \in Seq(EdLine) /\ m \in Seq(EdLine) /\ z \in Seq(EdLine)
    BY <1>2, <1>3, <1>4 DEF EdText
  <2>2. Three(a \o m \o z, EdLine, a, m, z)
    BY <2>1, ThreeAre
  <2> QED  BY <2>2 DEF Three, EdText
<1>7. ASSUME NEW i \in 1..Len(t) + 1
      PROVE  NewLineAt(t, l, line)[i] = IF i < l THEN t[i] ELSE IF i = l THEN line ELSE t[i - 1]
  <2>1. CASE i < l
    BY <1>1, <1>2, <1>5, <1>6, <2>1
  <2>2. CASE i = l
    BY <1>1, <1>2, <1>4, <1>5, <1>6, <2>2
  <2>3. CASE i > l
    <3>1. i \in Len(a) + Len(m) + 1..Len(a) + Len(m) + Len(z) /\ i - Len(a) - Len(m) \in 1..Len(t) - (l - 1)
      BY <1>1, <1>2, <1>3, <1>4, <2>3
    <3>2. NewLineAt(t, l, line)[i] = z[i - Len(a) - Len(m)]
      BY <1>5, <1>6, <3>1
    <3>3. z[i - Len(a) - Len(m)] = t[l - 1 + (i - Len(a) - Len(m))] /\ l - 1 + (i - Len(a) - Len(m)) = i - 1
      BY <1>1, <1>2, <1>3, <1>4, <3>1
    <3> QED  BY <2>3, <3>2, <3>3
  <2> QED  BY <1>1, <2>1, <2>2, <2>3
<1>8. NewLineAt(t, l, line) \in EdText /\ Len(NewLineAt(t, l, line)) = Len(t) + 1
  BY <1>1, <1>2, <1>3, <1>4, <1>5, <1>6
<1> QED
  BY <1>7, <1>8

LEMMA NoLinesIs ==
    ASSUME NEW t \in EdText, NEW l \in 1..Len(t)
    PROVE  /\ NoLines(t, l, 1) \in EdText /\ Len(NoLines(t, l, 1)) = Len(t) - 1
           /\ \A i \in 1..Len(t) - 1 : NoLines(t, l, 1)[i] = IF i < l THEN t[i] ELSE t[i + 1]
<1>1. Len(t) \in Nat /\ l - 1 \in 0..Len(t) /\ l \in 0..Len(t) /\ l - 1 + 1 = l
  BY TextFacts
<1> DEFINE a == Take(t, l - 1)
           z == Drop(t, l)
<1>2. a \in EdText /\ Len(a) = l - 1 /\ \A i \in 1..l - 1 : a[i] = t[i]
  BY <1>1, TakeIs DEF EdText
<1>3. z \in EdText /\ Len(z) = Len(t) - l /\ \A i \in 1..Len(t) - l : z[i] = t[l + i]
  BY <1>1, DropIs DEF EdText
<1>4. NoLines(t, l, 1) = a \o z
  BY <1>1 DEF NoLines
<1> HIDE DEF a, z
<1>5. a \o z \in EdText /\ Len(a \o z) = Len(a) + Len(z)
      /\ \A i \in 1..Len(a) + Len(z) : (a \o z)[i] = IF i <= Len(a) THEN a[i] ELSE z[i - Len(a)]
  BY <1>2, <1>3, ConcatProperties DEF EdText
<1>6. ASSUME NEW i \in 1..Len(t) - 1
      PROVE  NoLines(t, l, 1)[i] = IF i < l THEN t[i] ELSE t[i + 1]
  <2>1. CASE i < l
    BY <1>1, <1>2, <1>3, <1>4, <1>5, <2>1
  <2>2. CASE i >= l
    <3>1. i - Len(a) \in 1..Len(t) - l /\ l + (i - Len(a)) = i + 1 /\ ~(i <= Len(a)) /\ i \in 1..Len(a) + Len(z)
      BY <1>1, <1>2, <1>3, <2>2
    <3>2. (a \o z)[i] = z[i - Len(a)] /\ z[i - Len(a)] = t[l + (i - Len(a))]
      BY <1>3, <1>5, <3>1
    <3> QED  BY <1>4, <2>2, <3>1, <3>2
  <2> QED  BY <1>1, <2>1, <2>2
<1>7. NoLines(t, l, 1) \in EdText /\ Len(NoLines(t, l, 1)) = Len(t) - 1
  <2>1. Len(a) + Len(z) = Len(t) - 1
    BY <1>1, <1>2, <1>3
  <2> QED  BY <1>4, <1>5, <2>1, Zenon
<1> QED
  BY <1>6, <1>7

LEMMA LineChanged ==
    ASSUME NEW line \in EdLine, NEW s \in Seq(Letter), NEW cr \in BOOLEAN
    PROVE  /\ [line EXCEPT !.s = s] = Line(s, line.cr) /\ Line(s, line.cr) \in EdLine
           /\ [line EXCEPT !.cr = cr] = Line(line.s, cr) /\ Line(line.s, cr) \in EdLine
BY DEF EdLine, Line

LEMMA SetLineIs ==
    ASSUME NEW t \in EdText, NEW l \in 1..Len(t), NEW s \in Seq(Letter)
    PROVE  /\ SetLine(t, l, s) \in EdText /\ Len(SetLine(t, l, s)) = Len(t)
           /\ \A i \in 1..Len(t) : SetLine(t, l, s)[i] = IF i = l THEN Line(s, t[l].cr) ELSE t[i]
<1>1. t[l] \in EdLine /\ DOMAIN t = 1..Len(t) /\ t \in Seq(EdLine)
  BY TextFacts DEF EdText
<1>2. [t[l] EXCEPT !.s = s] = Line(s, t[l].cr) /\ Line(s, t[l].cr) \in EdLine
  BY <1>1, LineChanged
<1>3. SetLine(t, l, s) = [t EXCEPT ![l] = Line(s, t[l].cr)]
  BY <1>1, <1>2 DEF SetLine
<1> QED
  BY <1>1, <1>2, <1>3, ExceptSeq DEF EdText

SetReturn(t, l, cr) == [t EXCEPT ![l].cr = cr]

LEMMA SetReturnIs ==
    ASSUME NEW t \in EdText, NEW l \in 1..Len(t), NEW cr \in BOOLEAN
    PROVE  LET u == SetReturn(t, l, cr)
           IN  /\ u \in EdText /\ Len(u) = Len(t)
               /\ \A i \in 1..Len(t) : u[i] = IF i = l THEN Line(t[l].s, cr) ELSE t[i]
<1>1. t[l] \in EdLine /\ DOMAIN t = 1..Len(t) /\ t \in Seq(EdLine)
  BY TextFacts DEF EdText
<1>2. [t[l] EXCEPT !.cr = cr] = Line(t[l].s, cr) /\ Line(t[l].s, cr) \in EdLine
  BY <1>1, TextFacts, LineChanged
<1>3. SetReturn(t, l, cr) = [t EXCEPT ![l] = Line(t[l].s, cr)]
  BY <1>1, <1>2 DEF SetReturn
<1> QED
  BY <1>1, <1>2, <1>3, ExceptSeq DEF EdText

-----------------------------------------------------------------------------
(* The records: what each notes can be taken back and made again.          *)

EdOps == {"instext", "deltext", "addline", "delline", "attr"}
EdRec == [op : EdOps, line : Nat, pos : Nat, s : Seq(Letter), n : Nat, cr : BOOLEAN, prev : BOOLEAN]

\* The records lead from t to u, and each of them leads back.
Retraces(f, recs) ==
    \A i \in 1..Len(recs) : f[i] = Redone(f[i - 1], recs[i]) /\ f[i - 1] = Undone(f[i], recs[i])
Replays(t, recs, u) ==
    /\ t \in EdText /\ u \in EdText /\ recs \in Seq(EdRec)
    /\ \E f \in [0..Len(recs) -> EdText] : f[0] = t /\ f[Len(recs)] = u /\ Retraces(f, recs)

\* What begins alike and goes on alike is alike.
LEMMA EndsAlike ==
    ASSUME NEW n \in Nat, NEW f, NEW h, f[0] = h[0],
           \A k \in 1..n : f[k - 1] = h[k - 1] => f[k] = h[k]
    PROVE  f[n] = h[n]
<1> DEFINE wrong == {k \in 0..n : f[k] # h[k]}
<1>1. wrong = {}
  <2> SUFFICES ASSUME wrong # {}
               PROVE  FALSE
    OBVIOUS
  <2>1. wrong \subseteq Nat
    OBVIOUS
  <2>2. PICK k \in wrong : \A j \in wrong : k <= j
    BY <2>1, LeastNumber
  <2>3. k # 0 /\ k \in 0..n
    BY <2>2
  <2>4. k \in 1..n /\ k - 1 \in 0..n /\ ~(k <= k - 1)
    BY <2>3
  <2>5. k - 1 \notin wrong
    BY <2>2, <2>4
  <2> QED
    BY <2>2, <2>4, <2>5
<1>2. n \in 0..n
  OBVIOUS
<1> QED
  BY <1>1, <1>2

LEMMA ReplaysRedone ==
    ASSUME NEW t, NEW u, NEW recs, Replays(t, recs, u)
    PROVE  AllRedone(t, recs) = u
<1> DEFINE n == Len(recs)
           F(f) == [i \in 0..Len(recs) |-> IF i = 0 THEN t ELSE Redone(f[i - 1], recs[i])]
           h == CHOOSE f : f = F(f)
<1>1. AllRedone(t, recs) = h[n]
  BY DEF AllRedone
<1>2. PICK f \in [0..n -> EdText] : f[0] = t /\ f[n] = u /\ Retraces(f, recs)
  BY DEF Replays
<1>3. n \in Nat
  BY LenProperties DEF Replays
<1>4. f = F(f)
  <2>1. ASSUME NEW i \in 0..n
        PROVE  f[i] = IF i = 0 THEN t ELSE Redone(f[i - 1], recs[i])
    <3>1. CASE i # 0
      <4>1. i \in 1..Len(recs)
        BY <1>3, <3>1
      <4> QED  BY <1>2, <3>1, <4>1 DEF Retraces
    <3> QED  BY <1>2, <3>1
  <2> QED  BY <1>2, <2>1
<1>5. h = F(h)
  BY <1>4
<1> HIDE DEF h
<1>6. h[0] = t /\ \A i \in 1..n : h[i] = Redone(h[i - 1], recs[i])
  BY <1>3, <1>5
<1> HIDE DEF F
<1>7. \A i \in 1..n : f[i] = Redone(f[i - 1], recs[i])
  BY <1>2 DEF Retraces
<1> HIDE DEF n
<1>8. \A k \in 1..n : f[k - 1] = h[k - 1] => f[k] = h[k]
  BY <1>6, <1>7, Zenon
<1>9. f[0] = h[0]
  BY <1>2, <1>6
<1>10. f[n] = h[n]
  BY <1>3, <1>8, <1>9, EndsAlike
<1> QED
  BY <1>1, <1>2, <1>10

LEMMA ReplaysUndone ==
    ASSUME NEW t, NEW u, NEW recs, Replays(t, recs, u)
    PROVE  AllUndone(u, recs) = t
<1> DEFINE n == Len(recs)
           F(f) == [i \in 0..Len(recs) |-> IF i = Len(recs) THEN u ELSE Undone(f[i + 1], recs[i + 1])]
           h == CHOOSE f : f = F(f)
<1>1. AllUndone(u, recs) = h[0]
  BY DEF AllUndone
<1>2. PICK f \in [0..n -> EdText] : f[0] = t /\ f[n] = u /\ Retraces(f, recs)
  BY DEF Replays
<1>3. n \in Nat
  BY LenProperties DEF Replays
<1>4. \A i \in 0..n : i # n => f[i] = Undone(f[i + 1], recs[i + 1])
  <2>1. ASSUME NEW i \in 0..n, i # n
        PROVE  f[i] = Undone(f[i + 1], recs[i + 1])
    <3>1. i + 1 \in 1..Len(recs) /\ i + 1 - 1 = i
      BY <1>3, <2>1
    <3>2. f[i + 1 - 1] = Undone(f[i + 1], recs[i + 1])
      BY <1>2, <3>1 DEF Retraces
    <3> QED  BY <3>1, <3>2
  <2> QED  BY <2>1
<1>5. f = F(f)
  BY <1>2, <1>4
<1>6. h = F(h)
  BY <1>5
<1> HIDE DEF h
<1>7. h[n] = u /\ \A i \in 0..n : i # n => h[i] = Undone(h[i + 1], recs[i + 1])
  BY <1>3, <1>6
<1> HIDE DEF F, n
<1> DEFINE a == [k \in 0..n |-> f[n - k]]
           b == [k \in 0..n |-> h[n - k]]
<1>8. a[0] = b[0]
  BY <1>2, <1>3, <1>7
<1>9. ASSUME NEW k \in 1..n, a[k - 1] = b[k - 1]
      PROVE  a[k] = b[k]
  <2>1. n - k \in 0..n /\ n - k # n /\ n - k + 1 = n - (k - 1) /\ k - 1 \in 0..n /\ k \in 0..n
    BY <1>3
  <2>2. f[n - k + 1] = h[n - k + 1]
    BY <1>9, <2>1
  <2>3. f[n - k] = h[n - k]
    BY <1>4, <1>7, <2>1, <2>2
  <2> QED  BY <2>1, <2>3
<1>10. a[n] = f[0] /\ b[n] = h[0]
  BY <1>3
<1> HIDE DEF a, b
<1>11. a[n] = b[n]
  BY <1>3, <1>8, <1>9, EndsAlike
<1> QED
  BY <1>1, <1>2, <1>10, <1>11

LEMMA ReplaysNone ==
    ASSUME NEW t \in EdText
    PROVE  Replays(t, <<>>, t)
<1> DEFINE f == [i \in 0..0 |-> t]
<1>1. f \in [0..Len(<<>>) -> EdText] /\ f[0] = t /\ Len(<<>>) = 0 /\ <<>> \in Seq(EdRec)
  OBVIOUS
<1>2. Retraces(f, <<>>)
  BY DEF Retraces
<1> QED
  BY <1>1, <1>2 DEF Replays

LEMMA ReplaysOne ==
    ASSUME NEW t \in EdText, NEW u \in EdText, NEW r \in EdRec, u = Redone(t, r), t = Undone(u, r)
    PROVE  Replays(t, <<r>>, u)
<1> DEFINE f == [i \in 0..1 |-> IF i = 0 THEN t ELSE u]
<1>1. Len(<<r>>) = 1 /\ <<r>> \in Seq(EdRec) /\ <<r>>[1] = r
  OBVIOUS
<1>2. f \in [0..Len(<<r>>) -> EdText] /\ f[0] = t /\ f[1] = u
  BY <1>1
<1> HIDE DEF f
<1>3. Retraces(f, <<r>>)
  BY <1>1, <1>2 DEF Retraces
<1> QED
  BY <1>1, <1>2, <1>3 DEF Replays

LEMMA ReplaysBoth ==
    ASSUME NEW t, NEW u, NEW v, NEW recs, NEW more, Replays(t, recs, u), Replays(u, more, v)
    PROVE  Replays(t, recs \o more, v)
<1>1. /\ t \in EdText /\ v \in EdText /\ recs \in Seq(EdRec) /\ more \in Seq(EdRec)
      /\ Len(recs) \in Nat /\ Len(more) \in Nat
  BY LenProperties DEF Replays
<1>2. recs \o more \in Seq(EdRec) /\ Len(recs \o more) = Len(recs) + Len(more)
      /\ \A i \in 1..Len(recs) + Len(more) :
            (recs \o more)[i] = IF i <= Len(recs) THEN recs[i] ELSE more[i - Len(recs)]
  BY <1>1, ConcatProperties
<1>3. PICK f \in [0..Len(recs) -> EdText] : f[0] = t /\ f[Len(recs)] = u /\ Retraces(f, recs)
  BY DEF Replays
<1>4. PICK g \in [0..Len(more) -> EdText] : g[0] = u /\ g[Len(more)] = v /\ Retraces(g, more)
  BY DEF Replays
<1> DEFINE m == Len(recs)
           n == Len(more)
           all == recs \o more
           h == [i \in 0..m + n |-> IF i <= m THEN f[i] ELSE g[i - m]]
<1>5. h \in [0..m + n -> EdText]
  BY <1>1, <1>3, <1>4
<1>7. \A i \in 0..m : h[i] = f[i]
  BY <1>1
<1>8. \A i \in 0..n : h[m + i] = g[i]
  <2>1. ASSUME NEW i \in 0..n
        PROVE  h[m + i] = g[i]
    <3>1. m + i \in 0..m + n /\ m + i - m = i
      BY <1>1
    <3>2. CASE i = 0
      BY <1>1, <1>3, <1>4, <3>1, <3>2
    <3>3. CASE i # 0
      <4>1. ~(m + i <= m)
        BY <1>1, <3>3
      <4> QED  BY <3>1, <4>1
    <3> QED  BY <3>2, <3>3
  <2> QED  BY <2>1
<1>6. h[0] = t /\ h[m + n] = v
  <2>1. 0 \in 0..m /\ n \in 0..n
    BY <1>1
  <2> HIDE DEF h
  <2> QED  BY <1>3, <1>4, <1>7, <1>8, <2>1
<1> HIDE DEF h
<1>9. ASSUME NEW i \in 1..m + n
      PROVE  h[i] = Redone(h[i - 1], all[i]) /\ h[i - 1] = Undone(h[i], all[i])
  <2>1. CASE i <= m
    <3>1. i \in 1..m /\ i \in 0..m /\ i - 1 \in 0..m
      BY <1>1, <2>1
    <3>2. h[i] = f[i] /\ h[i - 1] = f[i - 1] /\ all[i] = recs[i]
      BY <1>2, <1>7, <2>1, <3>1
    <3> QED  BY <1>3, <3>1, <3>2 DEF Retraces
  <2>2. CASE i > m
    <3>1. i - m \in 1..n /\ i - m \in 0..n /\ i - m - 1 \in 0..n
          /\ m + (i - m) = i /\ m + (i - m - 1) = i - 1 /\ ~(i <= m)
      BY <1>1, <2>2
    <3>2. h[m + (i - m)] = g[i - m] /\ h[m + (i - m - 1)] = g[i - m - 1] /\ all[i] = more[i - m]
      BY <1>2, <1>8, <3>1
    <3>3. g[i - m] = Redone(g[i - m - 1], more[i - m]) /\ g[i - m - 1] = Undone(g[i - m], more[i - m])
      BY <1>4, <3>1 DEF Retraces
    <3> QED  BY <3>1, <3>2, <3>3
  <2> QED  BY <1>1, <2>1, <2>2
<1> HIDE DEF all
<1>10. Retraces(h, all)
  BY <1>2, <1>9 DEF Retraces, all
<1> QED
  BY <1>1, <1>2, <1>5, <1>6, <1>10 DEF Replays, all

(***************************************************************************)
(* Characters put into a string and taken out again.                       *)
(***************************************************************************)
LEMMA InsertIs ==
    ASSUME NEW x \in Seq(Letter), NEW p \in 0..Len(x), NEW s \in Seq(Letter)
    PROVE  LET y == Insert(x, p, s, Len(s))
           IN  /\ y = Take(x, p) \o s \o Drop(x, p) /\ y \in Seq(Letter) /\ Len(y) = Len(x) + Len(s)
               /\ Delete(y, p, Len(s)) = x
<1> DEFINE a == Take(x, p)
           z == Drop(x, p)
           y == a \o s \o z
<1>1. Len(x) \in Nat /\ Len(s) \in Nat /\ p \in Nat
  BY LenProperties
<1>2. a \in Seq(Letter) /\ Len(a) = p /\ \A i \in 1..p : a[i] = x[i]
  BY TakeIs
<1>3. z \in Seq(Letter) /\ Len(z) = Len(x) - p /\ \A i \in 1..Len(x) - p : z[i] = x[p + i]
  BY DropIs
<1>4. Insert(x, p, s, Len(s)) = y
  BY <1>1 DEF Insert
<1> HIDE DEF a, z
<1>5. /\ y \in Seq(Letter) /\ Len(y) = p + Len(s) + (Len(x) - p)
      /\ \A i \in 1..p : y[i] = a[i]
      /\ \A i \in p + 1..p + Len(s) : y[i] = s[i - p]
      /\ \A i \in p + Len(s) + 1..p + Len(s) + (Len(x) - p) : y[i] = z[i - p - Len(s)]
  <2>1. /\ y \in Seq(Letter) /\ Len(y) = Len(a) + Len(s) + Len(z)
        /\ \A i \in 1..Len(a) : y[i] = a[i]
        /\ \A i \in Len(a) + 1..Len(a) + Len(s) : y[i] = s[i - Len(a)]
        /\ \A i \in Len(a) + Len(s) + 1..Len(a) + Len(s) + Len(z) : y[i] = z[i - Len(a) - Len(s)]
    <3>1. a \in Seq(Letter) /\ z \in Seq(Letter)
      BY <1>2, <1>3
    <3>2. Three(y, Letter, a, s, z)
      BY <3>1, ThreeAre
    <3> QED  BY <3>2 DEF Three
  <2> HIDE DEF y
  <2> QED  BY <1>2, <1>3, <2>1
<1> HIDE DEF y
<1>6. Len(y) = Len(x) + Len(s)
  BY <1>1, <1>5
<1>7. Delete(y, p, Len(s)) = x
  <2>1. CASE Len(s) = 0
    <3>1. Delete(y, p, Len(s)) = y
      BY <2>1 DEF Delete
    <3>2. ASSUME NEW i \in 1..Len(x)
          PROVE  y[i] = x[i]
      <4>1. CASE i <= p
        BY <1>1, <1>2, <1>5, <4>1
      <4>2. CASE i > p
        <5>1. i \in p + Len(s) + 1..p + Len(s) + (Len(x) - p) /\ i - p - Len(s) = i - p
              /\ i - p \in 1..Len(x) - p /\ p + (i - p) = i
          BY <1>1, <2>1, <4>2
        <5>2. y[i] = z[i - p] /\ z[i - p] = x[p + (i - p)]
          BY <1>3, <1>5, <5>1
        <5> QED  BY <5>1, <5>2
      <4> QED  BY <1>1, <4>1, <4>2
    <3>3. Len(y) = Len(x)
      BY <1>1, <1>6, <2>1
    <3>4. y = x
      BY <1>5, <3>2, <3>3, SeqEqual
    <3> QED  BY <3>1, <3>4
  <2>2. CASE Len(s) # 0
    <3> DEFINE b == Take(y, p)
               c == Drop(y, p + Len(s))
    <3>1. Delete(y, p, Len(s)) = b \o c
      BY <1>1, <2>2 DEF Delete
    <3>2. p \in 0..Len(y) /\ p + Len(s) \in 0..Len(y)
      BY <1>1, <1>6
    <3>3. b \in Seq(Letter) /\ Len(b) = p /\ \A i \in 1..p : b[i] = y[i]
      BY <1>5, <3>2, TakeIs
    <3>4. c \in Seq(Letter) /\ Len(c) = Len(y) - (p + Len(s))
          /\ \A i \in 1..Len(y) - (p + Len(s)) : c[i] = y[p + Len(s) + i]
      <4>1. y \in Seq(Letter)
        BY <1>5
      <4> QED  BY <3>2, <4>1, DropIs
    <3> HIDE DEF b, c
    <3>5. b \o c \in Seq(Letter) /\ Len(b \o c) = Len(b) + Len(c)
          /\ \A i \in 1..Len(b) + Len(c) : (b \o c)[i] = IF i <= Len(b) THEN b[i] ELSE c[i - Len(b)]
      <4>1. b \in Seq(Letter) /\ c \in Seq(Letter)
        BY <3>3, <3>4
      <4> QED  BY <4>1, ConcatProperties
    <3>6. Len(b) + Len(c) = Len(x)
      BY <1>1, <1>6, <3>3, <3>4
    <3>7. ASSUME NEW i \in 1..Len(x)
          PROVE  (b \o c)[i] = x[i]
      <4>1. CASE i <= p
        <5>1. i \in 1..p
          BY <1>1, <4>1
        <5> QED  BY <1>2, <1>5, <3>3, <3>5, <3>6, <5>1, SMTT(30)
      <4>2. CASE i > p
        <5>1. i - p \in 1..Len(y) - (p + Len(s)) /\ p + Len(s) + (i - p) = i + Len(s)
              /\ i + Len(s) \in p + Len(s) + 1..p + Len(s) + (Len(x) - p)
              /\ i + Len(s) - p - Len(s) = i - p /\ i - p \in 1..Len(x) - p /\ p + (i - p) = i
          BY <1>1, <1>6, <4>2
        <5>2. (b \o c)[i] = c[i - p]
          BY <1>1, <3>3, <3>5, <3>6, <4>2
        <5>3. c[i - p] = y[i + Len(s)]
          BY <3>4, <5>1
        <5>4. y[i + Len(s)] = z[i - p]
          BY <1>5, <5>1
        <5>5. z[i - p] = x[i]
          BY <1>3, <5>1
        <5> QED  BY <5>2, <5>3, <5>4, <5>5
      <4>3. i <= p \/ i > p
        BY <1>1
      <4> QED  BY <4>1, <4>2, <4>3, Zenon
    <3> QED
      BY <3>1, <3>5, <3>6, <3>7, SeqEqual
  <2> QED  BY <2>1, <2>2
<1> QED
  BY <1>4, <1>5, <1>6, <1>7 DEF y, a, z

LEMMA DeleteIs ==
    ASSUME NEW x \in Seq(Letter), NEW p \in Nat, NEW n \in Nat, p + n <= Len(x)
    PROVE  LET y == Delete(x, p, n)
               s == SubSeq(x, p + 1, p + n)
           IN  /\ y \in Seq(Letter) /\ Len(y) = Len(x) - n
               /\ \A i \in 1..p : y[i] = x[i]
               /\ \A i \in p + 1..Len(x) - n : y[i] = x[i + n]
               /\ s \in Seq(Letter) /\ Len(s) = n /\ Insert(y, p, s, n) = x
<1> DEFINE s == SubSeq(x, p + 1, p + n)
           y == Delete(x, p, n)
<1>1. Len(x) \in Nat /\ p \in 0..Len(x) /\ p + n \in 0..Len(x) /\ p + 1 \in Int /\ p + n \in Int
  BY LenProperties
<1>2. s \in Seq(Letter) /\ Len(s) = n /\ \A i \in 1..n : s[i] = x[p + i]
  <2>1. \A i \in p + 1..p + n : x[i] \in Letter
    <3>1. ASSUME NEW i \in p + 1..p + n
          PROVE  x[i] \in Letter
      <4>1. i \in 1..Len(x)
        BY <1>1
      <4> QED  BY <4>1, ElementOfSeq
    <3> QED  BY <3>1
  <2>2. /\ s \in Seq(Letter) /\ Len(s) = IF p + 1 <= p + n THEN p + n - (p + 1) + 1 ELSE 0
        /\ \A i \in 1..p + n - (p + 1) + 1 : s[i] = x[p + 1 + i - 1]
    BY <1>1, <2>1, SubSeqProperties
  <2> HIDE DEF s
  <2>3. Len(s) = n
    BY <1>1, <2>2
  <2>4. ASSUME NEW i \in 1..n
        PROVE  s[i] = x[p + i]
    <3>1. p + 1 + i - 1 = p + i /\ i \in 1..p + n - (p + 1) + 1
      BY <1>1
    <3> QED  BY <2>2, <3>1
  <2> QED  BY <2>2, <2>3, <2>4
<1> HIDE DEF s
<1> DEFINE a == Take(x, p)
           z == Drop(x, p + n)
<1>3. a \in Seq(Letter) /\ Len(a) = p /\ \A i \in 1..p : a[i] = x[i]
  BY <1>1, TakeIs
<1>4. z \in Seq(Letter) /\ Len(z) = Len(x) - (p + n) /\ \A i \in 1..Len(x) - (p + n) : z[i] = x[p + n + i]
  BY <1>1, DropIs
<1>5. y \in Seq(Letter) /\ Len(y) = Len(x) - n /\ (\A i \in 1..p : y[i] = x[i])
      /\ \A i \in p + 1..Len(x) - n : y[i] = x[i + n]
  <2>1. CASE n = 0
    <3>1. y = x
      BY <2>1 DEF Delete
    <3> HIDE DEF y
    <3>2. Len(y) = Len(x) - n /\ Len(x) - n = Len(x)
      BY <1>1, <2>1, <3>1
    <3>3. ASSUME NEW i \in p + 1..Len(x) - n
          PROVE  y[i] = x[i + n]
      <4>1. i + n = i
        BY <1>1, <2>1
      <4> QED  BY <3>1, <4>1
    <3> QED  BY <3>1, <3>2, <3>3
  <2>2. CASE n # 0
    <3>1. y = a \o z
      BY <2>2 DEF Delete
    <3> HIDE DEF y, a, z
    <3>2. y \in Seq(Letter) /\ Len(y) = Len(a) + Len(z)
          /\ \A i \in 1..Len(a) + Len(z) : y[i] = IF i <= Len(a) THEN a[i] ELSE z[i - Len(a)]
      BY <1>3, <1>4, <3>1, ConcatProperties
    <3>3. ASSUME NEW i \in p + 1..Len(x) - n
          PROVE  y[i] = x[i + n]
      <4>1. i \in 1..Len(a) + Len(z) /\ ~(i <= Len(a)) /\ i - Len(a) \in 1..Len(x) - (p + n)
            /\ p + n + (i - Len(a)) = i + n
        BY <1>1, <1>3, <1>4
      <4>2. y[i] = z[i - Len(a)] /\ z[i - Len(a)] = x[p + n + (i - Len(a))]
        BY <1>4, <3>2, <4>1
      <4> QED  BY <4>1, <4>2
    <3>4. ASSUME NEW i \in 1..p
          PROVE  y[i] = x[i]
      <4>1. i \in 1..Len(a) + Len(z) /\ i <= Len(a)
        BY <1>1, <1>3, <1>4
      <4> QED  BY <1>3, <3>2, <4>1
    <3>5. Len(a) + Len(z) = Len(x) - n
      BY <1>1, <1>3, <1>4
    <3> QED  BY <3>2, <3>3, <3>4, <3>5
  <2> QED  BY <2>1, <2>2
<1> HIDE DEF y, a, z
<1> DEFINE b == Take(y, p)
           c == Drop(y, p)
<1>6. p \in 0..Len(y)
  BY <1>1, <1>5
<1>7. b \in Seq(Letter) /\ Len(b) = p /\ \A i \in 1..p : b[i] = y[i]
  BY <1>5, <1>6, TakeIs
<1>8. c \in Seq(Letter) /\ Len(c) = Len(y) - p /\ \A i \in 1..Len(y) - p : c[i] = y[p + i]
  BY <1>5, <1>6, DropIs
<1>9. Insert(y, p, s, n) = b \o s \o c
  BY DEF Insert
<1> HIDE DEF b, c
<1>10. /\ b \o s \o c \in Seq(Letter) /\ Len(b \o s \o c) = p + n + (Len(y) - p)
       /\ \A i \in 1..p : (b \o s \o c)[i] = b[i]
       /\ \A i \in p + 1..p + n : (b \o s \o c)[i] = s[i - p]
       /\ \A i \in p + n + 1..p + n + (Len(y) - p) : (b \o s \o c)[i] = c[i - p - n]
  <2> DEFINE w == b \o s \o c
  <2>1. /\ w \in Seq(Letter) /\ Len(w) = Len(b) + Len(s) + Len(c)
        /\ \A i \in 1..Len(b) : w[i] = b[i]
        /\ \A i \in Len(b) + 1..Len(b) + Len(s) : w[i] = s[i - Len(b)]
        /\ \A i \in Len(b) + Len(s) + 1..Len(b) + Len(s) + Len(c) : w[i] = c[i - Len(b) - Len(s)]
    <3>1. b \in Seq(Letter) /\ s \in Seq(Letter) /\ c \in Seq(Letter)
      BY <1>2, <1>7, <1>8
    <3>2. Three(w, Letter, b, s, c)
      BY <3>1, ThreeAre
    <3> QED  BY <3>2 DEF Three
  <2> HIDE DEF w
  <2>2. /\ w \in Seq(Letter) /\ Len(w) = p + n + (Len(y) - p)
        /\ \A i \in 1..p : w[i] = b[i]
        /\ \A i \in p + 1..p + n : w[i] = s[i - p]
        /\ \A i \in p + n + 1..p + n + (Len(y) - p) : w[i] = c[i - p - n]
    BY <1>2, <1>7, <1>8, <2>1
  <2> QED  BY <2>2 DEF w
<1>11. p + n + (Len(y) - p) = Len(x)
  BY <1>1, <1>5
<1>12. ASSUME NEW i \in 1..Len(x)
       PROVE  (b \o s \o c)[i] = x[i]
  <2>1. CASE i <= p
    <3>1. i \in 1..p
      BY <1>1, <2>1
    <3> QED  BY <1>5, <1>7, <1>10, <3>1
  <2>2. CASE p < i /\ i <= p + n
    <3>1. i \in p + 1..p + n /\ i - p \in 1..n /\ p + (i - p) = i
      BY <1>1, <2>2
    <3>2. (b \o s \o c)[i] = s[i - p] /\ s[i - p] = x[p + (i - p)]
      BY <1>2, <1>10, <3>1
    <3> QED  BY <3>1, <3>2
  <2>3. CASE p + n < i
    <3>1. i \in p + n + 1..p + n + (Len(y) - p) /\ i - p - n \in 1..Len(y) - p
          /\ p + (i - p - n) = i - n /\ i - n \in p + 1..Len(x) - n /\ i - n + n = i
      BY <1>1, <1>5, <2>3
    <3>2. (b \o s \o c)[i] = c[i - p - n]
      BY <1>10, <3>1
    <3>3. c[i - p - n] = y[i - n]
      BY <1>8, <3>1
    <3>4. y[i - n] = x[i - n + n]
      BY <1>5, <3>1
    <3> QED  BY <3>1, <3>2, <3>3, <3>4
  <2>4. i <= p \/ (p < i /\ i <= p + n) \/ p + n < i
    BY <1>1
  <2> QED  BY <2>1, <2>2, <2>3, <2>4, Zenon
<1>13. b \o s \o c = x
  BY <1>10, <1>11, <1>12, SeqEqual
<1> QED
  BY <1>2, <1>5, <1>9, <1>13 DEF s, y

(***************************************************************************)
(* Each record alone.                                                      *)
(***************************************************************************)
LEMMA TextRecs ==
    ASSUME NEW l \in Nat, NEW p \in Nat, NEW s \in Seq(Letter)
    PROVE  /\ InsText(l, p, s) \in EdRec /\ InsText(l, p, s).op = "instext" /\ InsText(l, p, s).line = l
           /\ InsText(l, p, s).pos = p /\ InsText(l, p, s).s = s /\ InsText(l, p, s).n = Len(s)
           /\ DelText(l, p, s) \in EdRec /\ DelText(l, p, s).op = "deltext" /\ DelText(l, p, s).line = l
           /\ DelText(l, p, s).pos = p /\ DelText(l, p, s).s = s /\ DelText(l, p, s).n = Len(s)
<1>1. Len(s) \in Nat /\ "instext" \in EdOps /\ "deltext" \in EdOps /\ FALSE \in BOOLEAN
  BY LenProperties DEF EdOps
<1> QED
  BY <1>1 DEF InsText, DelText, Rec, EdRec

LEMMA LineRecs ==
    ASSUME NEW l \in Nat, NEW line \in EdLine
    PROVE  /\ AddLine(l, line) \in EdRec /\ AddLine(l, line).op = "addline" /\ AddLine(l, line).line = l
           /\ AddLine(l, line).s = line.s /\ AddLine(l, line).cr = line.cr
           /\ DelLine(l, line) \in EdRec /\ DelLine(l, line).op = "delline" /\ DelLine(l, line).line = l
           /\ DelLine(l, line).s = line.s /\ DelLine(l, line).cr = line.cr
           /\ Line(line.s, line.cr) = line
<1>1. line.s \in Seq(Letter) /\ line.cr \in BOOLEAN /\ Len(line.s) \in Nat
  BY LenProperties DEF EdLine
<1>2. "addline" \in EdOps /\ "delline" \in EdOps /\ FALSE \in BOOLEAN /\ 0 \in Nat
  BY DEF EdOps
<1>3. Line(line.s, line.cr) = line
  BY DEF Line, EdLine
<1> QED
  BY <1>1, <1>2, <1>3 DEF AddLine, DelLine, Rec, EdRec

LEMMA AttrRec ==
    ASSUME NEW l \in Nat, NEW prev \in BOOLEAN, NEW cr \in BOOLEAN
    PROVE  /\ Attr(l, prev, cr) \in EdRec /\ Attr(l, prev, cr).op = "attr" /\ Attr(l, prev, cr).line = l
           /\ Attr(l, prev, cr).prev = prev /\ Attr(l, prev, cr).cr = cr
<1>1. "attr" \in EdOps /\ <<>> \in Seq(Letter) /\ 0 \in Nat
  BY DEF EdOps
<1> QED
  BY <1>1 DEF Attr, Rec, EdRec

LEMMA SetLineBack ==
    ASSUME NEW t \in EdText, NEW l \in 1..Len(t), NEW s \in Seq(Letter)
    PROVE  LET u == SetLine(t, l, s)
           IN  u \in EdText /\ l \in 1..Len(u) /\ u[l].s = s /\ SetLine(u, l, t[l].s) = t
<1> DEFINE u == SetLine(t, l, s)
           v == SetLine(u, l, t[l].s)
<1>1. t[l].s \in Seq(Letter) /\ t[l].cr \in BOOLEAN /\ t[l] = Line(t[l].s, t[l].cr) /\ Len(t) \in Nat
  BY TextFacts
<1>2. u \in EdText /\ Len(u) = Len(t) /\ \A i \in 1..Len(t) : u[i] = IF i = l THEN Line(s, t[l].cr) ELSE t[i]
  BY SetLineIs
<1>3. Line(s, t[l].cr).s = s /\ Line(s, t[l].cr).cr = t[l].cr
  BY DEF Line
<1> HIDE DEF u
<1>4. v \in EdText /\ Len(v) = Len(t) /\ \A i \in 1..Len(t) : v[i] = IF i = l THEN Line(t[l].s, u[l].cr) ELSE u[i]
  BY <1>1, <1>2, SetLineIs
<1> HIDE DEF v
<1>5. \A i \in 1..Len(t) : v[i] = t[i]
  BY <1>1, <1>2, <1>3, <1>4
<1>6. v = t
  BY <1>4, <1>5, SameText
<1> QED
  BY <1>2, <1>3, <1>6 DEF u, v

LEMMA InsTextReplays ==
    ASSUME NEW t \in EdText, NEW l \in 1..Len(t), NEW p \in 0..Len(t[l].s), NEW s \in Seq(Letter)
    PROVE  Replays(t, <<InsText(l, p, s)>>, SetLine(t, l, Take(t[l].s, p) \o s \o Drop(t[l].s, p)))
<1> DEFINE x == t[l].s
           r == InsText(l, p, s)
           y == Insert(x, p, s, Len(s))
           u == SetLine(t, l, y)
<1>1. x \in Seq(Letter) /\ Len(x) \in Nat /\ p \in Nat /\ l \in Nat
  BY TextFacts
<1>2. y = Take(x, p) \o s \o Drop(x, p) /\ y \in Seq(Letter) /\ Delete(y, p, Len(s)) = x
  BY <1>1, InsertIs
<1>3. r \in EdRec /\ r.op = "instext" /\ r.line = l /\ r.pos = p /\ r.s = s /\ r.n = Len(s)
  BY <1>1, TextRecs
<1> HIDE DEF r
<1>4. Redone(t, r) = u
  BY <1>3 DEF Redone, Undone, SetLine
<1> HIDE DEF y
<1>5. u \in EdText /\ u[l].s = y /\ SetLine(u, l, x) = t
  BY <1>2, SetLineBack
<1> HIDE DEF u, x
<1>6. Undone(u, r) = SetLine(u, l, Delete(u[l].s, p, Len(s)))
  BY <1>3 DEF Redone, Undone, SetLine
<1>7. Undone(u, r) = t
  BY <1>2, <1>5, <1>6
<1>8. Replays(t, <<r>>, u)
  BY <1>3, <1>4, <1>5, <1>7, ReplaysOne
<1> QED
  BY <1>2, <1>8 DEF r, u, x

LEMMA DelTextReplays ==
    ASSUME NEW t \in EdText, NEW l \in 1..Len(t), NEW p \in Nat, NEW n \in Nat, p + n <= Len(t[l].s)
    PROVE  Replays(t, <<DelText(l, p, SubSeq(t[l].s, p + 1, p + n))>>, SetLine(t, l, Delete(t[l].s, p, n)))
<1> DEFINE x == t[l].s
           s == SubSeq(x, p + 1, p + n)
           r == DelText(l, p, s)
           y == Delete(x, p, n)
           u == SetLine(t, l, y)
<1>1. x \in Seq(Letter) /\ Len(x) \in Nat /\ l \in Nat
  BY TextFacts
<1>2. y \in Seq(Letter) /\ s \in Seq(Letter) /\ Len(s) = n /\ Insert(y, p, s, n) = x
  BY <1>1, DeleteIs
<1>3. r \in EdRec /\ r.op = "deltext" /\ r.line = l /\ r.pos = p /\ r.s = s /\ r.n = n
  <2> HIDE DEF s, y
  <2> QED  BY <1>1, <1>2, TextRecs, SMTT(30)
<1> HIDE DEF r, s
<1>4. Redone(t, r) = u
  BY <1>3 DEF Redone, Undone, SetLine
<1> HIDE DEF y
<1>5. u \in EdText /\ u[l].s = y /\ SetLine(u, l, x) = t
  BY <1>2, SetLineBack
<1> HIDE DEF u, x
<1>6. Undone(u, r) = SetLine(u, l, Insert(u[l].s, p, s, n))
  BY <1>3 DEF Redone, Undone, SetLine
<1>7. Undone(u, r) = t
  BY <1>2, <1>5, <1>6
<1>8. Replays(t, <<r>>, u)
  BY <1>3, <1>4, <1>5, <1>7, ReplaysOne
<1> QED
  BY <1>8 DEF r, s, u, y, x

LEMMA AddLineReplays ==
    ASSUME NEW t \in EdText, NEW l \in 1..Len(t) + 1, NEW line \in EdLine
    PROVE  Replays(t, <<AddLine(l, line)>>, NewLineAt(t, l, line))
<1> DEFINE r == AddLine(l, line)
           u == NewLineAt(t, l, line)
           v == NoLines(u, l, 1)
<1>1. l \in Nat /\ Len(t) \in Nat
  BY TextFacts
<1>2. r \in EdRec /\ r.op = "addline" /\ r.line = l /\ r.s = line.s /\ r.cr = line.cr
  BY <1>1, LineRecs
<1>3. Line(line.s, line.cr) = line
  BY <1>1, LineRecs
<1> HIDE DEF r
<1>4. Redone(t, r) = u /\ Undone(u, r) = v
  BY <1>2, <1>3 DEF Redone, Undone
<1>5. /\ u \in EdText /\ Len(u) = Len(t) + 1
      /\ \A i \in 1..Len(t) + 1 : u[i] = IF i < l THEN t[i] ELSE IF i = l THEN line ELSE t[i - 1]
  BY NewLineAtIs
<1> HIDE DEF u
<1>6. /\ v \in EdText /\ Len(v) = Len(u) - 1
      /\ \A i \in 1..Len(u) - 1 : v[i] = IF i < l THEN u[i] ELSE u[i + 1]
  BY <1>5, NoLinesIs
<1> HIDE DEF v
<1>7. Len(v) = Len(t) /\ \A i \in 1..Len(v) : v[i] = t[i]
  BY <1>1, <1>5, <1>6
<1>8. v = t
  BY <1>6, <1>7, SameText
<1> QED
  BY <1>2, <1>4, <1>5, <1>8, ReplaysOne DEF r, u

LEMMA DelLineReplays ==
    ASSUME NEW t \in EdText, NEW l \in 1..Len(t)
    PROVE  Replays(t, <<DelLine(l, t[l])>>, NoLines(t, l, 1))
<1> DEFINE line == t[l]
           r == DelLine(l, line)
           u == NoLines(t, l, 1)
           v == NewLineAt(u, l, line)
<1>1. l \in Nat /\ Len(t) \in Nat /\ line \in EdLine /\ Line(line.s, line.cr) = line
  BY TextFacts
<1>2. r \in EdRec /\ r.op = "delline" /\ r.line = l /\ r.s = line.s /\ r.cr = line.cr
  BY <1>1, LineRecs
<1> HIDE DEF r
<1>4. Redone(t, r) = u /\ Undone(u, r) = v
  BY <1>1, <1>2 DEF Redone, Undone
<1>5. /\ u \in EdText /\ Len(u) = Len(t) - 1
      /\ \A i \in 1..Len(t) - 1 : u[i] = IF i < l THEN t[i] ELSE t[i + 1]
  BY NoLinesIs
<1> HIDE DEF u
<1>6. /\ v \in EdText /\ Len(v) = Len(u) + 1
      /\ \A i \in 1..Len(u) + 1 : v[i] = IF i < l THEN u[i] ELSE IF i = l THEN line ELSE u[i - 1]
  <2>1. l \in 1..Len(u) + 1
    BY <1>1, <1>5
  <2> HIDE DEF line
  <2> QED  BY <1>1, <1>5, <2>1, NewLineAtIs
<1> HIDE DEF v
<1>7. Len(v) = Len(t) /\ \A i \in 1..Len(v) : v[i] = t[i]
  <2>1. Len(v) = Len(t) /\ Len(u) + 1 = Len(t)
    BY <1>1, <1>5, <1>6
  <2>2. ASSUME NEW i \in 1..Len(t)
        PROVE  v[i] = t[i]
    <3>1. CASE i < l
      <4>1. i \in 1..Len(t) - 1 /\ i \in 1..Len(u) + 1
        BY <1>1, <2>1, <3>1
      <4> QED  BY <1>5, <1>6, <3>1, <4>1
    <3>2. CASE i = l
      BY <1>1, <1>6, <2>1, <3>2
    <3>3. CASE i > l
      <4>1. i - 1 \in 1..Len(t) - 1 /\ i \in 1..Len(u) + 1 /\ ~(i < l) /\ i # l /\ ~(i - 1 < l) /\ i - 1 + 1 = i
        BY <1>1, <2>1, <3>3
      <4>2. v[i] = u[i - 1] /\ u[i - 1] = t[i - 1 + 1]
        BY <1>5, <1>6, <4>1
      <4> QED  BY <4>1, <4>2
    <3> QED  BY <1>1, <3>1, <3>2, <3>3
  <2> QED  BY <2>1, <2>2
<1>8. v = t
  BY <1>6, <1>7, SameText
<1> QED
  BY <1>2, <1>4, <1>5, <1>8, ReplaysOne DEF r, u

LEMMA AttrReplays ==
    ASSUME NEW t \in EdText, NEW l \in 1..Len(t), NEW cr \in BOOLEAN
    PROVE  Replays(t, <<Attr(l, t[l].cr, cr)>>, SetReturn(t, l, cr))
<1> DEFINE prev == t[l].cr
           r == Attr(l, prev, cr)
           u == SetReturn(t, l, cr)
           v == SetReturn(u, l, prev)
<1>1. l \in Nat /\ Len(t) \in Nat /\ prev \in BOOLEAN /\ t[l].s \in Seq(Letter) /\ t[l] = Line(t[l].s, prev)
  BY TextFacts
<1>2. r \in EdRec /\ r.op = "attr" /\ r.line = l /\ r.prev = prev /\ r.cr = cr
  BY <1>1, AttrRec
<1> HIDE DEF r, prev
<1>4. Redone(t, r) = u /\ Undone(u, r) = v
  BY <1>2 DEF Redone, Undone, SetReturn
<1>5. u \in EdText /\ Len(u) = Len(t) /\ \A i \in 1..Len(t) : u[i] = IF i = l THEN Line(t[l].s, cr) ELSE t[i]
  BY SetReturnIs
<1> HIDE DEF u
<1>6. v \in EdText /\ Len(v) = Len(t) /\ \A i \in 1..Len(t) : v[i] = IF i = l THEN Line(u[l].s, prev) ELSE u[i]
  BY <1>1, <1>5, SetReturnIs
<1> HIDE DEF v
<1>7. \A i \in 1..Len(v) : v[i] = t[i]
  <2>1. Line(t[l].s, cr).s = t[l].s
    BY DEF Line
  <2> QED  BY <1>1, <1>5, <1>6, <2>1
<1>8. v = t
  BY <1>6, <1>7, SameText
<1>9. Replays(t, <<r>>, u)
  BY <1>2, <1>4, <1>5, <1>8, ReplaysOne
<1> QED
  BY <1>9 DEF r, u, prev

(***************************************************************************)
(* The records of a line that is split, and of two that are joined.        *)
(***************************************************************************)
LEMMA PiecesAre ==
    ASSUME NEW t \in EdText, NEW a \in 0..Len(t), NEW z \in 0..Len(t), NEW m \in EdText
    PROVE  LET u == Take(t, a) \o m \o Drop(t, z)
           IN  /\ u \in EdText /\ Len(u) = a + Len(m) + (Len(t) - z)
               /\ \A i \in 1..a : u[i] = t[i]
               /\ \A i \in 1..Len(m) : u[a + i] = m[i]
               /\ \A i \in 1..Len(t) - z : u[a + Len(m) + i] = t[z + i]
<1> DEFINE b == Take(t, a)
           c == Drop(t, z)
           u == b \o m \o c
<1>1. Len(t) \in Nat /\ Len(m) \in Nat /\ t \in Seq(EdLine) /\ m \in Seq(EdLine)
  BY TextFacts DEF EdText
<1>2. b \in Seq(EdLine) /\ Len(b) = a /\ \A i \in 1..a : b[i] = t[i]
  BY <1>1, TakeIs
<1>3. c \in Seq(EdLine) /\ Len(c) = Len(t) - z /\ \A i \in 1..Len(t) - z : c[i] = t[z + i]
  BY <1>1, DropIs
<1> HIDE DEF b, c
<1>4. /\ u \in Seq(EdLine) /\ Len(u) = Len(b) + Len(m) + Len(c)
      /\ \A i \in 1..Len(b) : u[i] = b[i]
      /\ \A i \in Len(b) + 1..Len(b) + Len(m) : u[i] = m[i - Len(b)]
      /\ \A i \in Len(b) + Len(m) + 1..Len(b) + Len(m) + Len(c) : u[i] = c[i - Len(b) - Len(m)]
  <2>1. b \in Seq(EdLine) /\ c \in Seq(EdLine)
    BY <1>2, <1>3
  <2>2. Three(u, EdLine, b, m, c)
    BY <1>1, <2>1, ThreeAre
  <2> QED  BY <2>2 DEF Three
<1> HIDE DEF u
<1>5. u \in EdText /\ Len(u) = a + Len(m) + (Len(t) - z)
  BY <1>1, <1>2, <1>3, <1>4 DEF EdText
<1>6. \A i \in 1..a : u[i] = t[i]
  BY <1>2, <1>4
<1>7. ASSUME NEW i \in 1..Len(m)
      PROVE  u[a + i] = m[i]
  <2>1. a + i \in Len(b) + 1..Len(b) + Len(m) /\ a + i - Len(b) = i
    BY <1>1, <1>2
  <2> QED  BY <1>4, <2>1
<1>8. ASSUME NEW i \in 1..Len(t) - z
      PROVE  u[a + Len(m) + i] = t[z + i]
  <2>1. a + Len(m) + i \in Len(b) + Len(m) + 1..Len(b) + Len(m) + Len(c)
        /\ a + Len(m) + i - Len(b) - Len(m) = i
    BY <1>1, <1>2, <1>3
  <2>2. u[a + Len(m) + i] = c[i]
    BY <1>4, <2>1
  <2> QED  BY <1>3, <2>2
<1> QED
  BY <1>5, <1>6, <1>7, <1>8 DEF u, b, c

\* What is behind p is taken out.
LEMMA RestDeleted ==
    ASSUME NEW x \in Seq(Letter), NEW p \in 0..Len(x)
    PROVE  /\ Delete(x, p, Len(x) - p) = Take(x, p)
           /\ Drop(x, p) = SubSeq(x, p + 1, p + (Len(x) - p))
           /\ Take(x, Len(x)) = x /\ Drop(x, Len(x)) = <<>>
           /\ (Drop(x, p) = <<>> <=> p = Len(x))
<1> DEFINE n == Len(x) - p
           y == Delete(x, p, n)
<1>1. Len(x) \in Nat /\ p \in Nat /\ n \in Nat /\ p + n = Len(x) /\ Len(x) - n = p /\ p + n <= Len(x)
  BY LenProperties
<1>2. y \in Seq(Letter) /\ Len(y) = Len(x) - n /\ (\A i \in 1..p : y[i] = x[i])
  <2> HIDE DEF n
  <2> QED  BY <1>1, DeleteIs
<1> HIDE DEF y, n
<1>3. Take(x, p) \in Seq(Letter) /\ Len(Take(x, p)) = p /\ \A i \in 1..p : Take(x, p)[i] = x[i]
  BY TakeIs
<1>4. y = Take(x, p)
  <2>1. Len(y) = Len(Take(x, p)) /\ \A i \in 1..Len(y) : y[i] = Take(x, p)[i]
    BY <1>1, <1>2, <1>3
  <2> QED  BY <1>2, <1>3, <2>1, SeqEqual
<1>5. Drop(x, p) = SubSeq(x, p + 1, p + n)
  BY <1>1 DEF Drop
<1>6. Take(x, Len(x)) = x
  BY SubSeqFull DEF Take
<1>7. Drop(x, Len(x)) = <<>>
  <2>1. Len(x) + 1 \in Int /\ Len(x) \in Int /\ Len(x) < Len(x) + 1
    BY <1>1
  <2> QED  BY <2>1, SubSeqEmpty DEF Drop
<1>8. Drop(x, p) = <<>> <=> p = Len(x)
  <2>1. Drop(x, p) \in Seq(Letter) /\ Len(Drop(x, p)) = Len(x) - p
    BY DropIs
  <2>2. Drop(x, p) = <<>> => Len(Drop(x, p)) = 0
    OBVIOUS
  <2> QED  BY <1>1, <1>7, <2>1, <2>2
<1> QED
  BY <1>4, <1>5, <1>6, <1>7, <1>8 DEF y, n

LEMMA RestReplays ==
    ASSUME NEW t \in EdText, NEW l \in 1..Len(t), NEW p \in 0..Len(t[l].s)
    PROVE  Replays(t, <<DelText(l, p, Drop(t[l].s, p))>>, SetLine(t, l, Take(t[l].s, p)))
<1> DEFINE x == t[l].s
           n == Len(x) - p
<1>1. x \in Seq(Letter) /\ Len(x) \in Nat /\ p \in Nat /\ n \in Nat /\ p + n <= Len(x)
  BY TextFacts
<1>2. Delete(x, p, n) = Take(x, p) /\ Drop(x, p) = SubSeq(x, p + 1, p + n)
  BY <1>1, RestDeleted
<1>3. Replays(t, <<DelText(l, p, SubSeq(x, p + 1, p + n))>>, SetLine(t, l, Delete(x, p, n)))
  <2> HIDE DEF n
  <2> QED  BY <1>1, DelTextReplays
<1> HIDE DEF n
<1> QED
  BY <1>2, <1>3

LEMMA SetLineSame ==
    ASSUME NEW t \in EdText, NEW l \in 1..Len(t)
    PROVE  SetLine(t, l, t[l].s) = t
<1>1. t[l].s \in Seq(Letter) /\ t[l] = Line(t[l].s, t[l].cr) /\ Len(t) \in Nat
  BY TextFacts
<1>2. SetLine(t, l, t[l].s) \in EdText /\ Len(SetLine(t, l, t[l].s)) = Len(t)
      /\ \A i \in 1..Len(t) : SetLine(t, l, t[l].s)[i] = IF i = l THEN Line(t[l].s, t[l].cr) ELSE t[i]
  BY <1>1, SetLineIs
<1>3. \A i \in 1..Len(t) : SetLine(t, l, t[l].s)[i] = t[i]
  BY <1>1, <1>2
<1> QED
  BY <1>2, <1>3, SameText

LEMMA SplitReplays ==
    ASSUME NEW t \in EdText, NEW l \in 1..Len(t), NEW p \in 0..Len(t[l].s)
    PROVE  /\ Split(t, l, p) \in EdText /\ Len(Split(t, l, p)) = Len(t) + 1
           /\ Split(t, l, p)[l] = Line(Take(t[l].s, p), t[l].cr)
           /\ Split(t, l, p)[l + 1] = Line(Drop(t[l].s, p), t[l].cr)
           /\ Replays(t, SplitRecs(t, l, p), Split(t, l, p))
<1> DEFINE x == t[l].s
           rest == Drop(x, p)
           head == Take(x, p)
           new == Line(rest, t[l].cr)
           u == NewLineAt(t, l + 1, new)
           v == Split(t, l, p)
           w == SetLine(u, l, head)
<1>1. Len(t) \in Nat /\ x \in Seq(Letter) /\ Len(x) \in Nat /\ t[l].cr \in BOOLEAN /\ t[l] = Line(x, t[l].cr)
      /\ l - 1 \in 0..Len(t) /\ l \in 0..Len(t) /\ l + 1 \in 1..Len(t) + 1 /\ l \in Nat /\ l + 1 \in Nat
  BY TextFacts
<1>2. rest \in Seq(Letter) /\ head \in Seq(Letter) /\ Len(rest) = Len(x) - p
  BY <1>1, TakeIs, DropIs
<1>3. new \in EdLine /\ Line(head, t[l].cr) \in EdLine
  BY <1>1, <1>2 DEF EdLine, Line
<1> DEFINE m == <<Line(head, t[l].cr), new>>
<1>4. m \in EdText /\ Len(m) = 2 /\ m[1] = Line(head, t[l].cr) /\ m[2] = new
  BY <1>3 DEF EdText
<1>5. v = Take(t, l - 1) \o m \o Drop(t, l)
  BY DEF Split
<1> HIDE DEF v, m
<1>6. /\ v \in EdText /\ Len(v) = l - 1 + 2 + (Len(t) - l)
      /\ \A i \in 1..l - 1 : v[i] = t[i]
      /\ \A i \in 1..2 : v[l - 1 + i] = m[i]
      /\ \A i \in 1..Len(t) - l : v[l - 1 + 2 + i] = t[l + i]
  <2>1. PICK a : a = l - 1
    OBVIOUS
  <2>2. a \in 0..Len(t) /\ v = Take(t, a) \o m \o Drop(t, l)
    BY <1>1, <1>5, <2>1
  <2>3. /\ v \in EdText /\ Len(v) = a + Len(m) + (Len(t) - l)
        /\ \A i \in 1..a : v[i] = t[i]
        /\ \A i \in 1..Len(m) : v[a + i] = m[i]
        /\ \A i \in 1..Len(t) - l : v[a + Len(m) + i] = t[l + i]
    <3>1. l \in 0..Len(t) /\ a \in 0..Len(t) /\ m \in EdText
      BY <1>1, <1>4, <2>2
    <3> QED  BY <2>2, <3>1, PiecesAre, ZenonT(60)
  <2> QED  BY <1>4, <2>1, <2>3
<1>7. /\ Len(v) = Len(t) + 1 /\ v[l] = Line(head, t[l].cr) /\ v[l + 1] = new
      /\ \A i \in l + 2..Len(t) + 1 : v[i] = t[i - 1]
  <2>1. v[l - 1 + 1] = m[1] /\ v[l - 1 + 2] = m[2] /\ l - 1 + 1 = l /\ l - 1 + 2 = l + 1
    BY <1>1, <1>6
  <2>2. ASSUME NEW i \in l + 2..Len(t) + 1
        PROVE  v[i] = t[i - 1]
    <3>1. i - 1 - l \in 1..Len(t) - l /\ l - 1 + 2 + (i - 1 - l) = i /\ l + (i - 1 - l) = i - 1
      BY <1>1
    <3>2. v[l - 1 + 2 + (i - 1 - l)] = t[l + (i - 1 - l)]
      BY <1>6, <3>1
    <3> QED  BY <3>1, <3>2
  <2>3. Len(v) = Len(t) + 1
    BY <1>1, <1>6
  <2> QED  BY <1>4, <2>1, <2>2, <2>3
<1>8. Replays(t, <<AddLine(l + 1, new)>>, u)
  <2> HIDE DEF new
  <2> QED  BY <1>1, <1>3, AddLineReplays
<1>9. /\ u \in EdText /\ Len(u) = Len(t) + 1
      /\ \A i \in 1..Len(t) + 1 : u[i] = IF i < l + 1 THEN t[i] ELSE IF i = l + 1 THEN new ELSE t[i - 1]
  <2> HIDE DEF new
  <2>1. PICK k : k = l + 1
    OBVIOUS
  <2>2. NewLineAt(t, k, new) \in EdText /\ Len(NewLineAt(t, k, new)) = Len(t) + 1
        /\ \A i \in 1..Len(t) + 1 :
                NewLineAt(t, k, new)[i] = IF i < k THEN t[i] ELSE IF i = k THEN new ELSE t[i - 1]
    <3>1. k \in 1..Len(t) + 1 /\ new \in EdLine
      BY <1>1, <1>3, <2>1
    <3> QED  BY <3>1, NewLineAtIs
  <2> QED  BY <2>1, <2>2
<1> HIDE DEF u, new
<1>10. u[l] = t[l] /\ l \in 1..Len(u)
  BY <1>1, <1>9
<1>11. w \in EdText /\ Len(w) = Len(u) /\ \A i \in 1..Len(u) : w[i] = IF i = l THEN Line(head, u[l].cr) ELSE u[i]
  <2> HIDE DEF head
  <2> QED  BY <1>2, <1>9, <1>10, SetLineIs
<1> HIDE DEF w, head
<1>12. w = v
  <2>1. ASSUME NEW i \in 1..Len(t) + 1
        PROVE  w[i] = v[i]
    <3>1. CASE i < l
      <4>1. i \in 1..l - 1
        BY <1>1, <3>1
      <4> QED  BY <1>1, <1>6, <1>9, <1>11, <3>1, <4>1
    <3>2. CASE i = l
      BY <1>7, <1>9, <1>10, <1>11, <3>2
    <3>3. CASE i = l + 1
      BY <1>1, <1>7, <1>9, <1>11, <3>3
    <3>4. CASE i > l + 1
      <4>1. i \in l + 2..Len(t) + 1 /\ i # l /\ i # l + 1 /\ ~(i < l + 1)
        BY <1>1, <3>4
      <4> QED  BY <1>7, <1>9, <1>11, <4>1
    <3>5. i < l \/ i = l \/ i = l + 1 \/ i > l + 1
      BY <1>1
    <3> QED  BY <3>1, <3>2, <3>3, <3>4, <3>5
  <2> QED  BY <1>6, <1>7, <1>9, <1>11, <2>1, SameText
<1>13. Replays(u, <<DelText(l, p, rest)>>, v)
  BY <1>9, <1>10, <1>12, RestReplays DEF w, head
<1>14. Replays(t, SplitRecs(t, l, p), v)
  <2>1. CASE rest = <<>>
    <3>1. p = Len(x)
      BY <1>1, <2>1, RestDeleted
    <3>2. head = x
      BY <1>1, <3>1, RestDeleted DEF head
    <3>3. w = u
      BY <1>9, <1>10, <3>2, SetLineSame DEF w
    <3>4. SplitRecs(t, l, p) = <<AddLine(l + 1, new)>> \o <<>>
      BY <2>1 DEF SplitRecs, new
    <3>5. Replays(u, <<>>, v)
      BY <1>9, <1>12, <3>3, ReplaysNone
    <3> QED  BY <1>8, <3>4, <3>5, ReplaysBoth
  <2>2. CASE rest # <<>>
    <3>1. SplitRecs(t, l, p) = <<AddLine(l + 1, new)>> \o <<DelText(l, p, rest)>>
      BY <2>2 DEF SplitRecs, new
    <3> HIDE DEF rest
    <3> QED  BY <1>8, <1>13, <3>1, ReplaysBoth
  <2> QED  BY <2>1, <2>2
<1> QED
  BY <1>6, <1>7, <1>14 DEF v, head, new

LEMMA JoinReplays ==
    ASSUME NEW t \in EdText, NEW l \in 1..Len(t) - 1
    PROVE  /\ Joined(t, l) \in EdText /\ Len(Joined(t, l)) = Len(t) - 1
           /\ Joined(t, l)[l] = Line(t[l].s \o t[l + 1].s, t[l + 1].cr)
           /\ Replays(t, JoinRecs(t, l), Joined(t, l))
<1> DEFINE x == t[l].s
           y == t[l + 1].s
           cr == t[l + 1].cr
           u == SetLine(t, l, x \o y)
           v == SetReturn(u, l, cr)
           w == NoLines(v, l + 1, 1)
           j == Joined(t, l)
<1>1. /\ Len(t) \in Nat /\ l \in 1..Len(t) /\ l + 1 \in 1..Len(t) /\ x \in Seq(Letter) /\ y \in Seq(Letter)
      /\ cr \in BOOLEAN /\ t[l].cr \in BOOLEAN /\ Len(x) \in Nat /\ Len(y) \in Nat
      /\ l - 1 \in 0..Len(t) /\ l + 1 \in 0..Len(t) /\ Len(x) \in 0..Len(x)
  BY TextFacts
<1>2. x \o y \in Seq(Letter) /\ Take(x, Len(x)) \o y \o Drop(x, Len(x)) = x \o y
  <2>1. Take(x, Len(x)) = x /\ Drop(x, Len(x)) = <<>>
    BY <1>1, RestDeleted
  <2>2. x \o y \in Seq(Letter)
    BY <1>1, ConcatProperties
  <2>3. (x \o y) \o <<>> = x \o y
    BY <2>2, ConcatEmptySeq
  <2> QED  BY <2>1, <2>2, <2>3
<1>3. Replays(t, <<InsText(l, Len(x), y)>>, u)
  BY <1>1, <1>2, InsTextReplays
<1>4. u \in EdText /\ Len(u) = Len(t) /\ \A i \in 1..Len(t) : u[i] = IF i = l THEN Line(x \o y, t[l].cr) ELSE t[i]
  BY <1>1, <1>2, SetLineIs
<1> HIDE DEF u
<1>5. u[l].cr = t[l].cr /\ u[l].s = x \o y
  <2>1. Line(x \o y, t[l].cr).s = x \o y /\ Line(x \o y, t[l].cr).cr = t[l].cr
    BY DEF Line
  <2> QED  BY <1>1, <1>4, <2>1
<1>6. Replays(u, <<Attr(l, t[l].cr, cr)>>, v)
  <2>1. Replays(u, <<Attr(l, u[l].cr, cr)>>, v)
    BY <1>1, <1>4, AttrReplays
  <2> QED  BY <1>5, <2>1
<1>7. v \in EdText /\ Len(v) = Len(t) /\ \A i \in 1..Len(t) : v[i] = IF i = l THEN Line(x \o y, cr) ELSE t[i]
  <2>1. v \in EdText /\ Len(v) = Len(u) /\ \A i \in 1..Len(u) : v[i] = IF i = l THEN Line(u[l].s, cr) ELSE u[i]
    BY <1>1, <1>4, SetReturnIs
  <2> HIDE DEF v
  <2> QED  BY <1>4, <1>5, <2>1
<1> HIDE DEF v
<1>8. v[l + 1] = t[l + 1]
  BY <1>1, <1>7
<1>9. Replays(v, <<DelLine(l + 1, t[l + 1])>>, w)
  BY <1>1, <1>7, <1>8, DelLineReplays
<1>10. w \in EdText /\ Len(w) = Len(t) - 1 /\ \A i \in 1..Len(t) - 1 : w[i] = IF i < l + 1 THEN v[i] ELSE v[i + 1]
  BY <1>1, <1>7, NoLinesIs
<1> HIDE DEF w
<1> DEFINE m == <<Line(x \o y, cr)>>
<1>11. m \in EdText /\ Len(m) = 1 /\ m[1] = Line(x \o y, cr)
  <2>1. Line(x \o y, cr) \in EdLine
    BY <1>1, <1>2 DEF Line, EdLine
  <2> QED  BY <2>1 DEF EdText
<1>12. j = Take(t, l - 1) \o m \o Drop(t, l + 1)
  BY DEF Joined
<1> HIDE DEF j, m
<1>13. /\ j \in EdText /\ Len(j) = l - 1 + 1 + (Len(t) - (l + 1))
       /\ \A i \in 1..l - 1 : j[i] = t[i]
       /\ \A i \in 1..1 : j[l - 1 + i] = m[i]
       /\ \A i \in 1..Len(t) - (l + 1) : j[l - 1 + 1 + i] = t[l + 1 + i]
  <2>1. PICK a : a = l - 1
    OBVIOUS
  <2>2. PICK z : z = l + 1
    OBVIOUS
  <2>3. a \in 0..Len(t) /\ z \in 0..Len(t) /\ j = Take(t, a) \o m \o Drop(t, z)
    BY <1>1, <1>12, <2>1, <2>2
  <2>4. /\ j \in EdText /\ Len(j) = a + Len(m) + (Len(t) - z)
        /\ \A i \in 1..a : j[i] = t[i]
        /\ \A i \in 1..Len(m) : j[a + i] = m[i]
        /\ \A i \in 1..Len(t) - z : j[a + Len(m) + i] = t[z + i]
    BY <1>11, <2>3, PiecesAre, ZenonT(60)
  <2> QED  BY <1>11, <2>1, <2>2, <2>4
<1>14. /\ Len(j) = Len(t) - 1 /\ j[l] = Line(x \o y, cr)
       /\ \A i \in l + 1..Len(t) - 1 : j[i] = t[i + 1]
  <2>1. j[l - 1 + 1] = m[1] /\ l - 1 + 1 = l
    BY <1>1, <1>13
  <2>2. ASSUME NEW i \in l + 1..Len(t) - 1
        PROVE  j[i] = t[i + 1]
    <3>1. i - l \in 1..Len(t) - (l + 1) /\ l - 1 + 1 + (i - l) = i /\ l + 1 + (i - l) = i + 1
      BY <1>1
    <3>2. j[l - 1 + 1 + (i - l)] = t[l + 1 + (i - l)]
      BY <1>13, <3>1
    <3> QED  BY <3>1, <3>2
  <2>3. Len(j) = Len(t) - 1
    BY <1>1, <1>13
  <2> QED  BY <1>11, <2>1, <2>2, <2>3
<1>15. w = j
  <2>1. ASSUME NEW i \in 1..Len(t) - 1
        PROVE  w[i] = j[i]
    <3>1. CASE i < l
      <4>1. i \in 1..l - 1 /\ i \in 1..Len(t) /\ i < l + 1 /\ i # l
        BY <1>1, <3>1
      <4> QED  BY <1>7, <1>10, <1>13, <4>1
    <3>2. CASE i = l
      BY <1>1, <1>7, <1>10, <1>14, <3>2
    <3>3. CASE i > l
      <4>1. i \in l + 1..Len(t) - 1 /\ ~(i < l + 1) /\ i + 1 \in 1..Len(t) /\ i + 1 # l
        BY <1>1, <3>3
      <4> QED  BY <1>7, <1>10, <1>14, <4>1
    <3>4. i < l \/ i = l \/ i > l
      BY <1>1
    <3> QED  BY <3>1, <3>2, <3>3, <3>4
  <2> QED  BY <1>10, <1>13, <1>14, <2>1, SameText
<1>16. JoinRecs(t, l) = <<InsText(l, Len(x), y)>> \o <<Attr(l, t[l].cr, cr)>> \o <<DelLine(l + 1, t[l + 1])>>
  BY DEF JoinRecs
<1>17. Replays(t, JoinRecs(t, l), w)
  BY <1>3, <1>6, <1>9, <1>16, ReplaysBoth
<1> QED
  BY <1>13, <1>14, <1>15, <1>17 DEF j

(***************************************************************************)
(* The records of a selection that is deleted.                             *)
(***************************************************************************)
LEMMA ReplaysOneBack ==
    ASSUME NEW t, NEW u, NEW r, Replays(t, <<r>>, u)
    PROVE  u = Redone(t, r) /\ t = Undone(u, r)
<1>1. Len(<<r>>) = 1 /\ <<r>>[1] = r /\ 1 \in 1..1 /\ 1 - 1 = 0
  OBVIOUS
<1>2. PICK f : f[0] = t /\ f[1] = u /\ Retraces(f, <<r>>)
  BY <1>1 DEF Replays
<1> QED
  BY <1>1, <1>2 DEF Retraces

LEMMA NotedReplays ==
    ASSUME NEW t, NEW u, NEW r, Replays(t, <<r>>, u), r.n \in Nat, r.n = 0 => u = t
    PROVE  Replays(t, Noted(r), u)
<1>1. CASE r.n > 0
  BY <1>1 DEF Noted
<1>2. CASE r.n = 0
  <2>1. Noted(r) = <<>> /\ u = t /\ t \in EdText
    BY <1>2 DEF Noted, Replays
  <2> QED  BY <2>1, ReplaysNone
<1> QED
  BY <1>1, <1>2

\* n lines behind the first a are taken out one after the other.
LEMMA DelLinesReplay ==
    ASSUME NEW t \in EdText, NEW a \in Nat, NEW n \in Nat, a + n <= Len(t)
    PROVE  Replays(t, [i \in 1..n |-> DelLine(a + 1, t[a + i])], Take(t, a) \o Drop(t, a + n))
<1> DEFINE recs == [i \in 1..n |-> DelLine(a + 1, t[a + i])]
           f == [i \in 0..n |-> Take(t, a) \o Drop(t, a + i)]
<1>1. Len(t) \in Nat /\ a \in 0..Len(t) /\ t \in Seq(EdLine) /\ a + 1 \in Nat
  BY TextFacts DEF EdText
<1>2. ASSUME NEW i \in 0..n
      PROVE  /\ f[i] \in EdText /\ Len(f[i]) = Len(t) - i
             /\ \A k \in 1..a : f[i][k] = t[k]
             /\ \A k \in a + 1..Len(t) - i : f[i][k] = t[k + i]
  <2> DEFINE b == Take(t, a)
             c == Drop(t, a + i)
             z == a + i
  <2>1. f[i] = b \o c /\ z \in 0..Len(t)
    BY <1>1
  <2>2. b \in Seq(EdLine) /\ Len(b) = a /\ \A k \in 1..a : b[k] = t[k]
    BY <1>1, TakeIs
  <2>3. c \in Seq(EdLine) /\ Len(c) = Len(t) - z /\ \A k \in 1..Len(t) - z : c[k] = t[z + k]
    <3> HIDE DEF z
    <3>1. Drop(t, z) \in Seq(EdLine) /\ Len(Drop(t, z)) = Len(t) - z
          /\ \A k \in 1..Len(t) - z : Drop(t, z)[k] = t[z + k]
      BY <1>1, <2>1, DropIs
    <3>2. c = Drop(t, z)
      BY DEF z
    <3> QED  BY <3>1, <3>2
  <2> HIDE DEF b, c, f
  <2>4. b \in Seq(EdLine) /\ c \in Seq(EdLine)
    BY <2>2, <2>3
  <2>5. b \o c \in Seq(EdLine) /\ Len(b \o c) = Len(b) + Len(c)
        /\ \A k \in 1..Len(b) + Len(c) : (b \o c)[k] = IF k <= Len(b) THEN b[k] ELSE c[k - Len(b)]
    BY <2>4, ConcatProperties
  <2> DEFINE g == f[i]
  <2>6. g \in EdText /\ Len(g) = Len(b) + Len(c)
        /\ \A k \in 1..Len(b) + Len(c) : g[k] = IF k <= Len(b) THEN b[k] ELSE c[k - Len(b)]
    BY <2>1, <2>5 DEF EdText
  <2> HIDE DEF g
  <2>7. Len(b) + Len(c) = Len(t) - i
    BY <1>1, <2>2, <2>3
  <2>8. ASSUME NEW k \in 1..a
        PROVE  g[k] = t[k]
    <3>1. k \in 1..Len(b) + Len(c) /\ k <= Len(b)
      BY <1>1, <2>2, <2>3
    <3> QED  BY <2>2, <2>6, <3>1
  <2>9. ASSUME NEW k \in a + 1..Len(t) - i
        PROVE  g[k] = t[k + i]
    <3>1. k \in 1..Len(b) + Len(c) /\ ~(k <= Len(b)) /\ k - Len(b) \in 1..Len(t) - z /\ z + (k - Len(b)) = k + i
      BY <1>1, <2>2, <2>3
    <3>2. g[k] = c[k - Len(b)] /\ c[k - Len(b)] = t[z + (k - Len(b))]
      BY <2>3, <2>6, <3>1
    <3> QED  BY <3>1, <3>2
  <2> QED  BY <2>6, <2>7, <2>8, <2>9 DEF g
<1>3. recs \in Seq(EdRec) /\ Len(recs) = n /\ \A i \in 1..n : recs[i] = DelLine(a + 1, t[a + i])
  <2>1. \A i \in 1..n : DelLine(a + 1, t[a + i]) \in EdRec
    <3>1. ASSUME NEW i \in 1..n
          PROVE  DelLine(a + 1, t[a + i]) \in EdRec
      <4>1. a + i \in 1..Len(t)
        BY <1>1
      <4>2. t[a + i] \in EdLine
        BY <4>1, TextFacts
      <4> QED  BY <1>1, <4>2, LineRecs
    <3> QED  BY <3>1
  <2>2. recs \in [1..n -> EdRec]
    BY <2>1
  <2> QED  BY <2>2
<1>4. f[0] = t
  <2>1. 0 \in 0..n
    OBVIOUS
  <2>2. f[0] \in EdText /\ Len(f[0]) = Len(t) /\ \A k \in 1..Len(t) : f[0][k] = t[k]
    <3> HIDE DEF f
    <3>1. f[0] \in EdText /\ Len(f[0]) = Len(t) - 0
          /\ (\A k \in 1..a : f[0][k] = t[k]) /\ \A k \in a + 1..Len(t) - 0 : f[0][k] = t[k + 0]
      BY <1>2, <2>1
    <3> QED  BY <1>1, <3>1
  <2> HIDE DEF f
  <2> QED  BY <2>2, SameText
<1>5. f[n] = Take(t, a) \o Drop(t, a + n)
  OBVIOUS
<1> HIDE DEF f, recs
<1>6. ASSUME NEW i \in 1..n
      PROVE  f[i] = Redone(f[i - 1], recs[i]) /\ f[i - 1] = Undone(f[i], recs[i])
  <2> DEFINE g == f[i - 1]
             h == f[i]
             m == a + 1
  <2>1. i - 1 \in 0..n /\ i \in 0..n /\ a + 1 \in 1..Len(t) - (i - 1) /\ a + 1 + (i - 1) = a + i
        /\ Len(t) - (i - 1) - 1 = Len(t) - i
    BY <1>1, SMTT(30)
  <2>2. /\ g \in EdText /\ Len(g) = Len(t) - (i - 1)
        /\ \A k \in 1..a : g[k] = t[k]
        /\ \A k \in a + 1..Len(t) - (i - 1) : g[k] = t[k + (i - 1)]
    BY <1>2, <2>1
  <2>3. /\ h \in EdText /\ Len(h) = Len(t) - i
        /\ \A k \in 1..a : h[k] = t[k]
        /\ \A k \in a + 1..Len(t) - i : h[k] = t[k + i]
    BY <1>2, <2>1
  <2> HIDE DEF g, h
  <2>4. g[m] = t[a + i] /\ m \in 1..Len(g) /\ m \in Nat
    BY <1>1, <2>1, <2>2
  <2>5. g[m] = t[a + i] /\ recs[i] = DelLine(m, g[m])
    BY <1>3, <2>4
  <2> HIDE DEF m
  <2>6. Replays(g, <<DelLine(m, g[m])>>, NoLines(g, m, 1))
    BY <2>2, <2>4, DelLineReplays
  <2>7. /\ NoLines(g, m, 1) \in EdText /\ Len(NoLines(g, m, 1)) = Len(g) - 1
        /\ \A k \in 1..Len(g) - 1 : NoLines(g, m, 1)[k] = IF k < m THEN g[k] ELSE g[k + 1]
    BY <2>2, <2>4, NoLinesIs
  <2> DEFINE w == NoLines(g, m, 1)
  <2>8. w = h
    <3> HIDE DEF w
    <3>1. ASSUME NEW k \in 1..Len(t) - i
          PROVE  w[k] = h[k]
      <4>1. k \in 1..Len(g) - 1
        BY <1>1, <2>2
      <4>2. CASE k <= a
        <5>1. k \in 1..a /\ k < m
          BY <1>1, <4>2 DEF m
        <5> QED  BY <2>2, <2>3, <2>7, <4>1, <5>1 DEF w
      <4>3. CASE k > a
        <5>1. ~(k < m) /\ k + 1 \in a + 1..Len(t) - (i - 1) /\ k + 1 + (i - 1) = k + i /\ k \in a + 1..Len(t) - i
          BY <1>1, <4>3 DEF m
        <5>2. w[k] = g[k + 1]
          BY <2>7, <4>1, <5>1 DEF w
        <5>3. g[k + 1] = t[k + 1 + (i - 1)] /\ h[k] = t[k + i]
          BY <2>2, <2>3, <5>1
        <5> QED  BY <5>1, <5>2, <5>3
      <4>4. k <= a \/ k > a
        BY SMTT(30)
      <4> QED  BY <4>2, <4>3, <4>4
    <3>2. w \in EdText /\ Len(w) = Len(t) - i
      BY <1>1, <2>1, <2>2, <2>7 DEF w
    <3> QED  BY <2>3, <3>1, <3>2, SameText
  <2>9. h = Redone(g, DelLine(m, g[m])) /\ g = Undone(h, DelLine(m, g[m]))
    BY <2>6, <2>8, ReplaysOneBack
  <2> QED
    BY <2>5, <2>9 DEF g, h
<1>7. f \in [0..n -> EdText]
  BY <1>2 DEF f
<1>8. Retraces(f, recs)
  BY <1>3, <1>6 DEF Retraces
<1>9. f[n] \in EdText
  BY <1>7
<1>10. Replays(t, recs, f[n])
  BY <1>3, <1>4, <1>7, <1>8, <1>9 DEF Replays
<1> QED
  BY <1>5, <1>10 DEF recs

\* From p in line l to q in line k, behind it.
LEMMA SelectionReplays ==
    ASSUME NEW t \in EdText, NEW b, NEW e, b.line \in 1..Len(t), e.line \in 1..Len(t), b.line < e.line,
           b.pos \in 0..Len(t[b.line].s), e.pos \in 0..Len(t[e.line].s)
    PROVE  LET joined == Line(Take(t[b.line].s, b.pos) \o Drop(t[e.line].s, e.pos), t[e.line].cr)
               u == Take(t, b.line - 1) \o <<joined>> \o Drop(t, e.line)
           IN  /\ u \in EdText /\ b.line \in 1..Len(u) /\ u[b.line] = joined
               /\ b.pos \in 0..Len(joined.s)
               /\ Replays(t, SelectionRecs(t, b, e), u)
<1> DEFINE l == b.line
           k == e.line
           p == b.pos
           q == e.pos
           x == t[l].s
           y == t[k].s
           cr == t[k].cr
           head == Take(x, p)
           tail == Drop(y, q)
           both == head \o tail
           joined == Line(both, cr)
           m == <<joined>>
           u == Take(t, l - 1) \o m \o Drop(t, k)
           t1 == SetLine(t, l, head)
           t2 == SetLine(t1, l, both)
           t3 == SetReturn(t2, l, cr)
           n == k - l
           recs == [i \in 1..n |-> DelLine(l + 1, t[l + i])]
<1>1. Len(t) \in Nat /\ l \in Nat /\ k \in Nat /\ l \in 1..Len(t) /\ k \in 1..Len(t) /\ n \in Nat /\ l + n = k
      /\ l - 1 \in 0..Len(t) /\ k \in 0..Len(t) /\ l < k
  BY TextFacts
<1>2. x \in Seq(Letter) /\ y \in Seq(Letter) /\ Len(x) \in Nat /\ Len(y) \in Nat /\ cr \in BOOLEAN /\ t[l].cr \in BOOLEAN
      /\ p \in 0..Len(x) /\ q \in 0..Len(y) /\ p \in Nat
  BY TextFacts
<1>3. SelectionRecs(t, b, e) = Noted(DelText(l, p, Drop(x, p))) \o Noted(InsText(l, p, tail))
                               \o <<Attr(l, t[l].cr, cr)>> \o recs
  BY DEF SelectionRecs
<1> HIDE DEF l, k, p, q
<1>4. head \in Seq(Letter) /\ Len(head) = p /\ tail \in Seq(Letter)
  BY <1>2, TakeIs, DropIs
<1>5. both \in Seq(Letter) /\ Len(both) = p + Len(tail) /\ Len(tail) \in Nat
  BY <1>2, <1>4, ConcatProperties, LenProperties
<1>6. t1 \in EdText /\ Len(t1) = Len(t) /\ \A i \in 1..Len(t) : t1[i] = IF i = l THEN Line(head, t[l].cr) ELSE t[i]
  <2> HIDE DEF head
  <2> QED  BY <1>1, <1>4, SetLineIs
<1>7. Replays(t, Noted(DelText(l, p, Drop(x, p))), t1)
  <2> DEFINE r == DelText(l, p, Drop(x, p))
  <2>1. Replays(t, <<r>>, t1)
    BY <1>1, <1>2, RestReplays
  <2>2. Drop(x, p) \in Seq(Letter) /\ Len(Drop(x, p)) = Len(x) - p
    BY <1>2, DropIs
  <2>3. r.n = Len(x) - p
    <3>1. PICK s : s = Drop(x, p)
      OBVIOUS
    <3>2. l \in Nat /\ p \in Nat /\ s \in Seq(Letter) /\ Len(s) = Len(x) - p
      BY <1>1, <1>2, <2>2, <3>1
    <3>3. DelText(l, p, s).n = Len(s)
      BY DEF DelText, Rec
    <3> QED  BY <3>1, <3>2, <3>3
  <2>4. r.n = 0 => t1 = t
    <3>1. SUFFICES ASSUME r.n = 0
                   PROVE  t1 = t
      OBVIOUS
    <3>2. p = Len(x)
      BY <1>2, <2>3, <3>1
    <3>3. head = x
      BY <1>2, <3>2, RestDeleted
    <3> QED  BY <1>1, <3>3, SetLineSame
  <2>5. r.n \in Nat
    BY <1>2, <2>3
  <2> HIDE DEF r, t1
  <2>6. Replays(t, Noted(r), t1)
    BY <2>1, <2>4, <2>5, NotedReplays
  <2> QED  BY <2>6 DEF r
<1>8. t1[l].s = head /\ t1[l].cr = t[l].cr
  <2>1. Line(head, t[l].cr).s = head /\ Line(head, t[l].cr).cr = t[l].cr
    BY DEF Line
  <2> QED  BY <1>1, <1>6, <2>1
<1> HIDE DEF t1, both
<1>9. Replays(t1, Noted(InsText(l, p, tail)), t2)
  <2> DEFINE r == InsText(l, p, tail)
  <2>1. Take(head, Len(head)) = head /\ Drop(head, Len(head)) = <<>>
    <3>1. Len(head) \in 0..Len(head)
      BY <1>2, <1>4
    <3> QED  BY <1>4, <3>1, RestDeleted
  <2>2. head \o tail \o <<>> = both
    BY <1>5, ConcatEmptySeq DEF both
  <2>3. p \in 0..Len(t1[l].s) /\ l \in 1..Len(t1)
    BY <1>1, <1>2, <1>4, <1>6, <1>8
  <2>4. Replays(t1, <<r>>, SetLine(t1, l, Take(t1[l].s, p) \o tail \o Drop(t1[l].s, p)))
    <3> HIDE DEF tail
    <3> QED  BY <1>4, <1>6, <2>3, InsTextReplays
  <2>5. Replays(t1, <<r>>, t2)
    BY <1>4, <1>8, <2>1, <2>2, <2>4
  <2>6. r.n = Len(tail)
    <3> HIDE DEF tail
    <3> QED  BY <1>1, <1>2, <1>4, TextRecs
  <2>7. r.n = 0 => t2 = t1
    <3>1. SUFFICES ASSUME r.n = 0
                   PROVE  t2 = t1
      OBVIOUS
    <3>2. tail = <<>>
      BY <1>4, <2>6, <3>1, EmptySeq
    <3>3. both = head
      BY <1>4, <3>2, ConcatEmptySeq DEF both
    <3> QED  BY <1>6, <1>8, <2>3, <3>3, SetLineSame
  <2>8. r.n \in Nat
    BY <1>5, <2>6
  <2> HIDE DEF r, t2
  <2>9. Replays(t1, Noted(r), t2)
    BY <2>5, <2>7, <2>8, NotedReplays
  <2> QED  BY <2>9 DEF r
<1>10. t2 \in EdText /\ Len(t2) = Len(t)
       /\ \A i \in 1..Len(t) : t2[i] = IF i = l THEN Line(both, t[l].cr) ELSE t[i]
  <2>1. t2 \in EdText /\ Len(t2) = Len(t1)
        /\ \A i \in 1..Len(t1) : t2[i] = IF i = l THEN Line(both, t1[l].cr) ELSE t1[i]
    BY <1>1, <1>5, <1>6, SetLineIs
  <2> HIDE DEF t2
  <2> QED  BY <1>6, <1>8, <2>1
<1>11. t2[l].s = both /\ t2[l].cr = t[l].cr
  <2>1. Line(both, t[l].cr).s = both /\ Line(both, t[l].cr).cr = t[l].cr
    BY DEF Line
  <2> QED  BY <1>1, <1>10, <2>1
<1> HIDE DEF t2, head, tail
<1>12. Replays(t2, <<Attr(l, t[l].cr, cr)>>, t3)
  <2>1. Replays(t2, <<Attr(l, t2[l].cr, cr)>>, t3)
    BY <1>1, <1>2, <1>10, AttrReplays
  <2> QED  BY <1>11, <2>1
<1>13. t3 \in EdText /\ Len(t3) = Len(t) /\ \A i \in 1..Len(t) : t3[i] = IF i = l THEN joined ELSE t[i]
  <2>1. t3 \in EdText /\ Len(t3) = Len(t2)
        /\ \A i \in 1..Len(t2) : t3[i] = IF i = l THEN Line(t2[l].s, cr) ELSE t2[i]
    BY <1>1, <1>2, <1>10, SetReturnIs
  <2> HIDE DEF t3
  <2> QED  BY <1>10, <1>11, <2>1
<1> HIDE DEF t3
<1>14. Replays(t3, recs, Take(t3, l) \o Drop(t3, k))
  <2>1. Replays(t3, [i \in 1..n |-> DelLine(l + 1, t3[l + i])], Take(t3, l) \o Drop(t3, l + n))
    <3>1. l + n <= Len(t3)
      BY <1>1, <1>13
    <3> HIDE DEF n
    <3> QED  BY <1>1, <1>13, <3>1, DelLinesReplay
  <2>2. recs = [i \in 1..n |-> DelLine(l + 1, t3[l + i])]
    <3>1. ASSUME NEW i \in 1..n
          PROVE  t3[l + i] = t[l + i]
      <4>1. l + i \in 1..Len(t) /\ l + i # l
        BY <1>1
      <4> QED  BY <1>13, <4>1
    <3> HIDE DEF n
    <3> QED  BY <3>1
  <2> QED  BY <1>1, <2>1, <2>2
<1>15. joined \in EdLine /\ joined.s = both
  BY <1>2, <1>5 DEF EdLine, Line
<1>16. m \in EdText /\ Len(m) = 1 /\ m[1] = joined
  BY <1>15 DEF EdText
<1> HIDE DEF joined, m
<1>17. /\ u \in EdText /\ Len(u) = l - 1 + 1 + (Len(t) - k)
       /\ \A i \in 1..l - 1 : u[i] = t[i]
       /\ \A i \in 1..1 : u[l - 1 + i] = m[i]
       /\ \A i \in 1..Len(t) - k : u[l - 1 + 1 + i] = t[k + i]
  <2>1. PICK a : a = l - 1
    OBVIOUS
  <2>2. a \in 0..Len(t) /\ u = Take(t, a) \o m \o Drop(t, k)
    BY <1>1, <2>1
  <2> HIDE DEF u
  <2>3. /\ u \in EdText /\ Len(u) = a + Len(m) + (Len(t) - k)
        /\ \A i \in 1..a : u[i] = t[i]
        /\ \A i \in 1..Len(m) : u[a + i] = m[i]
        /\ \A i \in 1..Len(t) - k : u[a + Len(m) + i] = t[k + i]
    <3>1. k \in 0..Len(t) /\ a \in 0..Len(t) /\ m \in EdText
      BY <1>1, <1>16, <2>2
    <3> QED  BY <2>2, <3>1, PiecesAre, ZenonT(60)
  <2> QED  BY <1>16, <2>1, <2>3
<1> HIDE DEF u
<1> DEFINE v == Take(t3, l) \o <<>> \o Drop(t3, k)
<1>18. /\ v \in EdText /\ Len(v) = l + 0 + (Len(t3) - k)
       /\ \A i \in 1..l : v[i] = t3[i]
       /\ \A i \in 1..Len(t3) - k : v[l + 0 + i] = t3[k + i]
  <2>1. l \in 0..Len(t3) /\ k \in 0..Len(t3) /\ <<>> \in EdText /\ Len(<<>>) = 0
    BY <1>1, <1>13 DEF EdText
  <2>2. PICK w : w = <<>>
    OBVIOUS
  <2>3. l \in 0..Len(t3) /\ k \in 0..Len(t3) /\ w \in EdText /\ t3 \in EdText
    BY <1>13, <2>1, <2>2
  <2> DEFINE g == Take(t3, l) \o w \o Drop(t3, k)
  <2>4. /\ g \in EdText /\ Len(g) = l + Len(w) + (Len(t3) - k)
        /\ \A i \in 1..l : g[i] = t3[i]
        /\ \A i \in 1..Len(t3) - k : g[l + Len(w) + i] = t3[k + i]
    BY <2>3, PiecesAre
  <2>5. g = v /\ Len(w) = 0
    BY <2>2
  <2> HIDE DEF g, v
  <2> QED  BY <2>4, <2>5
<1>19. v = Take(t3, l) \o Drop(t3, k)
  <2>1. Take(t3, l) \in Seq(EdLine)
    <3>1. l \in 0..Len(t3) /\ t3 \in Seq(EdLine)
      BY <1>1, <1>13 DEF EdText
    <3> QED  BY <3>1, TakeIs
  <2>2. Take(t3, l) \o <<>> = Take(t3, l)
    BY <2>1, ConcatEmptySeq
  <2> QED  BY <2>2
<1> HIDE DEF v
<1>20. Len(u) = Len(v) /\ \A i \in 1..Len(u) : u[i] = v[i]
  <2>1. Len(u) = Len(v) /\ Len(u) = l + (Len(t) - k)
    BY <1>1, <1>13, <1>17, <1>18
  <2>2. ASSUME NEW i \in 1..Len(u)
        PROVE  u[i] = v[i]
    <3>1. CASE i < l
      <4>1. i \in 1..l - 1 /\ i \in 1..l /\ i # l /\ i \in 1..Len(t)
        BY <1>1, <2>1, <3>1
      <4> QED  BY <1>13, <1>17, <1>18, <4>1
    <3>2. CASE i = l
      <4>1. l - 1 + 1 = l /\ 1 \in 1..1 /\ l \in 1..l
        BY <1>1
      <4>2. u[l - 1 + 1] = m[1]
        BY <1>17, <4>1
      <4>3. v[l] = t3[l] /\ t3[l] = joined
        BY <1>1, <1>13, <1>18, <4>1
      <4> QED  BY <1>16, <3>2, <4>1, <4>2, <4>3
    <3>3. CASE i > l
      <4>1. i - l \in 1..Len(t) - k /\ l - 1 + 1 + (i - l) = i /\ l + 0 + (i - l) = i
            /\ k + (i - l) \in 1..Len(t) /\ k + (i - l) # l
        BY <1>1, <2>1, <3>3
      <4>2. u[l - 1 + 1 + (i - l)] = t[k + (i - l)]
        BY <1>17, <4>1
      <4>3. v[l + 0 + (i - l)] = t3[k + (i - l)]
        BY <1>13, <1>18, <4>1
      <4>4. t3[k + (i - l)] = t[k + (i - l)]
        BY <1>13, <4>1
      <4> QED  BY <4>1, <4>2, <4>3, <4>4
    <3>4. i < l \/ i = l \/ i > l
      BY <1>1, <2>1
    <3> QED  BY <3>1, <3>2, <3>3, <3>4
  <2> QED  BY <2>1, <2>2
<1>21. u = v
  BY <1>17, <1>18, <1>20, SameText
<1> HIDE DEF recs
<1>22. Replays(t, Noted(DelText(l, p, Drop(x, p))) \o Noted(InsText(l, p, tail))
                  \o <<Attr(l, t[l].cr, cr)>> \o recs, u)
  BY <1>7, <1>9, <1>12, <1>14, <1>19, <1>21, ReplaysBoth
<1>23. u[l] = joined /\ l \in 1..Len(u) /\ p \in 0..Len(joined.s)
  <2>1. l - 1 + 1 = l /\ 1 \in 1..1
    BY <1>1
  <2>2. u[l - 1 + 1] = m[1]
    BY <1>17, <2>1
  <2> QED  BY <1>1, <1>2, <1>5, <1>15, <1>16, <1>17, <2>1, <2>2
<1> QED
  BY <1>3, <1>17, <1>22, <1>23 DEF u, m, joined, both, head, tail, l, k, p, q

-----------------------------------------------------------------------------
(***************************************************************************)
(* The list of blocks: each leads from the text of the one before it, and  *)
(* a block whose changed is FALSE began at what the file d holds, when x   *)
(* says that the file has been written as it should.                       *)
(***************************************************************************)
EdPoint == [line : Nat, pos : Nat]
Within(t, c) == InText(t, c[1]) /\ InText(t, c[2])
Blocks == {b \in [aggregate : BOOLEAN, changed : BOOLEAN, recs : Seq(EdRec), was : EdText, now : EdText,
                  begin : EdPoint \X EdPoint, end : EdPoint \X EdPoint] :
           Replays(b.was, b.recs, b.now) /\ Within(b.was, b.begin) /\ Within(b.now, b.end)}
Exact(changed, t, d, x) == x /\ ~changed => Save(t) = d

Chained(u) == \A i \in 1..Len(u) - 1 : u[i].now = u[i + 1].was
History(u, t, d, x) ==
    /\ u \in Seq(Blocks) /\ Chained(u)
    /\ u # <<>> => u[Len(u)].now = t
    /\ \A i \in 1..Len(u) : Exact(u[i].changed, u[i].was, d, x)

LEMMA BlockFacts ==
    ASSUME NEW u \in Seq(Blocks)
    PROVE  /\ Len(u) \in Nat /\ DOMAIN u = 1..Len(u)
           /\ \A i \in 1..Len(u) : u[i] \in Blocks
           /\ u = <<>> <=> Len(u) = 0
BY LenProperties, ElementOfSeq, EmptySeq

LEMMA TakeHistory ==
    ASSUME NEW d, NEW x, NEW t, NEW u \in Seq(Blocks), Chained(u), NEW n \in 0..Len(u),
           n > 0 => u[n].now = t,
           \A i \in 1..Len(u) : Exact(u[i].changed, u[i].was, d, x)
    PROVE  History(Take(u, n), t, d, x) /\ Len(Take(u, n)) = n
<1> DEFINE v == Take(u, n)
<1>1. v \in Seq(Blocks) /\ Len(v) = n /\ \A i \in 1..n : v[i] = u[i]
  BY TakeIs
<1>2. Len(u) \in Nat /\ (v = <<>> <=> Len(v) = 0)
  BY <1>1, BlockFacts
<1> HIDE DEF v
<1>3. Chained(v)
  <2>1. ASSUME NEW i \in 1..Len(v) - 1
        PROVE  v[i].now = v[i + 1].was
    <3>1. i \in 1..n /\ i + 1 \in 1..n /\ i \in 1..Len(u) - 1
      BY <1>1, <1>2, <2>1
    <3> QED  BY <1>1, <3>1 DEF Chained
  <2> QED  BY <2>1 DEF Chained
<1>4. v # <<>> => v[Len(v)].now = t
  BY <1>1, <1>2
<1>5. ASSUME NEW i \in 1..Len(v)
      PROVE  Exact(v[i].changed, v[i].was, d, x)
  <2>1. i \in 1..Len(u) /\ v[i] = u[i]
    BY <1>1, <1>2
  <2> QED  BY <2>1
<1> QED
  BY <1>1, <1>3, <1>4, <1>5 DEF History, v

LEMMA TailHistory ==
    ASSUME NEW d, NEW x, NEW t, NEW u, History(u, t, d, x), u # <<>>
    PROVE  History(Tail(u), t, d, x) /\ Len(Tail(u)) = Len(u) - 1
<1> DEFINE v == Tail(u)
<1>0. u \in Seq(Blocks) /\ Len(u) \in Nat /\ Len(u) # 0
  BY BlockFacts DEF History
<1>1. v \in Seq(Blocks) /\ Len(v) = Len(u) - 1 /\ \A i \in 1..Len(v) : v[i] = u[i + 1]
  BY <1>0, HeadTailProperties
<1>2. v = <<>> <=> Len(v) = 0
  BY <1>1, BlockFacts
<1> HIDE DEF v
<1>3. Chained(v)
  <2>1. ASSUME NEW i \in 1..Len(v) - 1
        PROVE  v[i].now = v[i + 1].was
    <3>1. i \in 1..Len(v) /\ i + 1 \in 1..Len(v) /\ i + 1 \in 1..Len(u) - 1
      BY <1>0, <1>1, <2>1
    <3>2. u[i + 1].now = u[i + 1 + 1].was
      BY <3>1 DEF History, Chained
    <3> QED  BY <1>1, <3>1, <3>2
  <2> QED  BY <2>1 DEF Chained
<1>4. v # <<>> => v[Len(v)].now = t
  <2>1. ASSUME v # <<>>
        PROVE  v[Len(v)].now = t
    <3>1. Len(v) \in 1..Len(v) /\ Len(v) + 1 = Len(u)
      BY <1>0, <1>1, <1>2, <2>1
    <3> QED  BY <1>0, <1>1, <3>1 DEF History
  <2> QED  BY <2>1
<1>5. ASSUME NEW i \in 1..Len(v)
      PROVE  Exact(v[i].changed, v[i].was, d, x)
  <2>1. i + 1 \in 1..Len(u) /\ v[i] = u[i + 1]
    BY <1>0, <1>1
  <2> QED  BY <2>1 DEF History
<1> QED
  BY <1>1, <1>3, <1>4, <1>5 DEF History, v

LEMMA FrontHistory ==
    ASSUME NEW d, NEW x, NEW t, NEW u, History(u, t, d, x), u # <<>>
    PROVE  /\ History(Front(u), Last(u).was, d, x) /\ Last(u) \in Blocks /\ Last(u).now = t
           /\ Exact(Last(u).changed, Last(u).was, d, x)
           /\ Len(Front(u)) = Len(u) - 1
<1>1. u \in Seq(Blocks) /\ Len(u) \in Nat /\ Len(u) # 0 /\ Chained(u)
      /\ \A i \in 1..Len(u) : Exact(u[i].changed, u[i].was, d, x)
  BY BlockFacts DEF History
<1>2. PICK n \in Nat : n = Len(u) - 1
  BY <1>1
<1>3. n \in 0..Len(u) /\ n + 1 = Len(u) /\ (n > 0 => n \in 1..Len(u) - 1)
  BY <1>1, <1>2
<1>4. n > 0 => u[n].now = Last(u).was
  BY <1>1, <1>3 DEF Chained, Last
<1>5. Front(u) = Take(u, n)
  BY <1>2 DEF Front, Take
<1>6. History(Take(u, n), Last(u).was, d, x) /\ Len(Take(u, n)) = n
  BY <1>1, <1>3, <1>4, TakeHistory
<1>7. Last(u) \in Blocks /\ Last(u).now = t /\ Exact(Last(u).changed, Last(u).was, d, x)
  <2>1. Len(u) \in 1..Len(u)
    BY <1>1
  <2> QED  BY <1>1, <2>1, BlockFacts DEF Last, History
<1> QED
  BY <1>2, <1>5, <1>6, <1>7

LEMMA AppendHistory ==
    ASSUME NEW d, NEW x, NEW t, NEW u, History(u, t, d, x), NEW b \in Blocks, b.was = t,
           Exact(b.changed, t, d, x)
    PROVE  History(Append(u, b), b.now, d, x) /\ Len(Append(u, b)) = Len(u) + 1
<1> DEFINE v == Append(u, b)
<1>1. u \in Seq(Blocks) /\ Len(u) \in Nat /\ (u = <<>> <=> Len(u) = 0)
  BY BlockFacts DEF History
<1>2. v \in Seq(Blocks) /\ Len(v) = Len(u) + 1 /\ (\A i \in 1..Len(u) : v[i] = u[i]) /\ v[Len(u) + 1] = b
  BY <1>1, AppendProperties
<1> HIDE DEF v
<1>3. Chained(v)
  <2>1. ASSUME NEW i \in 1..Len(v) - 1
        PROVE  v[i].now = v[i + 1].was
    <3>1. i \in 1..Len(u) /\ v[i] = u[i]
      BY <1>1, <1>2
    <3>2. CASE i = Len(u)
      <4>1. u[Len(u)].now = t
        BY <1>1, <3>1 DEF History
      <4> QED  BY <1>2, <3>1, <3>2, <4>1
    <3>3. CASE i # Len(u)
      <4>1. i \in 1..Len(u) - 1 /\ i + 1 \in 1..Len(u)
        BY <1>1, <3>1, <3>3
      <4> QED  BY <1>2, <3>1, <4>1 DEF History, Chained
    <3> QED  BY <3>2, <3>3
  <2> QED  BY <2>1 DEF Chained
<1>4. ASSUME NEW i \in 1..Len(v)
      PROVE  Exact(v[i].changed, v[i].was, d, x)
  <2>1. CASE i = Len(u) + 1
    BY <1>2, <2>1
  <2>2. CASE i # Len(u) + 1
    <3>1. i \in 1..Len(u) /\ v[i] = u[i]
      BY <1>1, <1>2, <2>2
    <3> QED  BY <3>1 DEF History
  <2> QED  BY <2>1, <2>2
<1> QED
  BY <1>2, <1>3, <1>4 DEF History, v

\* A block that continues another one.
LEMMA MergedIs ==
    ASSUME NEW a \in Blocks, NEW b \in Blocks, a.now = b.was
    PROVE  LET c == [a EXCEPT !.recs = @ \o b.recs, !.end = b.end, !.now = b.now]
           IN  c \in Blocks /\ c.was = a.was /\ c.now = b.now /\ c.changed = a.changed
<1> DEFINE c == [a EXCEPT !.recs = @ \o b.recs, !.end = b.end, !.now = b.now]
           F == [aggregate : BOOLEAN, changed : BOOLEAN, recs : Seq(EdRec), was : EdText, now : EdText,
                 begin : EdPoint \X EdPoint, end : EdPoint \X EdPoint]
<1>1. a \in F /\ b \in F
  BY DEF Blocks
<1>2. Replays(a.was, a.recs, a.now) /\ Replays(b.was, b.recs, b.now)
      /\ Within(a.was, a.begin) /\ Within(b.now, b.end)
  BY DEF Blocks
<1>3. Replays(a.was, a.recs \o b.recs, b.now)
  BY <1>2, ReplaysBoth
<1>4. a.recs \o b.recs \in Seq(EdRec)
  BY <1>3 DEF Replays
<1>5. /\ c \in F /\ c.recs = a.recs \o b.recs /\ c.was = a.was /\ c.now = b.now
      /\ c.begin = a.begin /\ c.end = b.end /\ c.changed = a.changed
  BY <1>1, <1>4
<1> HIDE DEF c, F
<1>6. Replays(c.was, c.recs, c.now) /\ Within(c.was, c.begin) /\ Within(c.now, c.end)
  BY <1>2, <1>3, <1>5
<1>7. c \in Blocks
  BY <1>5, <1>6 DEF Blocks, F
<1> QED
  BY <1>5, <1>7 DEF c

LEMMA BlockIs ==
    ASSUME NEW was, NEW now, NEW recs, Replays(was, recs, now), NEW aggregate \in BOOLEAN,
           NEW changed \in BOOLEAN, NEW begin \in EdPoint \X EdPoint, NEW end \in EdPoint \X EdPoint,
           Within(was, begin), Within(now, end)
    PROVE  LET b == [aggregate |-> aggregate, changed |-> changed, recs |-> recs,
                     was |-> was, now |-> now, begin |-> begin, end |-> end]
           IN  b \in Blocks /\ b.was = was /\ b.now = now /\ b.changed = changed
<1>1. was \in EdText /\ now \in EdText /\ recs \in Seq(EdRec)
  BY DEF Replays
<1> QED
  BY <1>1 DEF Blocks

(***************************************************************************)
(* The editor between two keys.                                            *)
(***************************************************************************)
EdFields == [text : EdText, cursor : EdPoint, marker : EdPoint, undo : Seq(Blocks), pos : Nat,
             changed : BOOLEAN]
Good(e, d, x) ==
    /\ e \in EdFields
    /\ e.pos <= Len(e.undo) /\ Chained(e.undo)
    /\ \A i \in 1..Len(e.undo) : Exact(e.undo[i].changed, e.undo[i].was, d, x)
    /\ e.pos > 0 => e.undo[e.pos].now = e.text
    /\ e.pos < Len(e.undo) => e.undo[e.pos + 1].was = e.text
    /\ InText(e.text, e.cursor) /\ InText(e.text, e.marker)
    /\ Exact(e.changed, e.text, d, x)

LEMMA AppendBlockIs ==
    ASSUME NEW d, NEW x, NEW e, Good(e, d, x), NEW b \in Blocks, b.was = e.text, b.changed = e.changed
    PROVE  /\ History(AppendBlock(e, b), b.now, d, x)
           /\ Len(AppendBlock(e, b)) \in Nat /\ Len(AppendBlock(e, b)) > 0
<1> DEFINE past == Take(e.undo, e.pos)
           room == IF Len(past) = MaxUndo THEN Tail(past) ELSE past
<1>1. e.undo \in Seq(Blocks) /\ e.pos \in 0..Len(e.undo) /\ Len(e.undo) \in Nat /\ Chained(e.undo)
      /\ (e.pos > 0 => e.undo[e.pos].now = e.text)
      /\ (\A i \in 1..Len(e.undo) : Exact(e.undo[i].changed, e.undo[i].was, d, x))
      /\ Exact(e.changed, e.text, d, x)
  <2>1. e.undo \in Seq(Blocks) /\ e.pos \in Nat /\ e.pos <= Len(e.undo)
    BY DEF Good, EdFields
  <2>2. Len(e.undo) \in Nat
    BY <2>1, BlockFacts
  <2> QED  BY <2>1, <2>2 DEF Good
<1>2. PICK n \in 0..Len(e.undo) : n = e.pos
  BY <1>1
<1>3. History(past, e.text, d, x) /\ Len(past) = n
  <2>1. History(Take(e.undo, n), e.text, d, x) /\ Len(Take(e.undo, n)) = n
    BY <1>1, <1>2, TakeHistory
  <2> QED  BY <1>2, <2>1
<1> HIDE DEF past
<1>4. History(room, e.text, d, x)
  <2>1. CASE Len(past) = MaxUndo
    <3>1. MaxUndo # 0
      BY EditAssumption
    <3>2. past # <<>>
      BY <1>3, <2>1, <3>1, BlockFacts DEF History
    <3>3. History(Tail(past), e.text, d, x)
      BY <1>3, <3>2, TailHistory
    <3> QED  BY <2>1, <3>3
  <2>2. CASE Len(past) # MaxUndo
    BY <1>3, <2>2
  <2> QED  BY <2>1, <2>2
<1> HIDE DEF room
<1> DEFINE c == [Last(room) EXCEPT !.recs = @ \o b.recs, !.end = b.end, !.now = b.now]
           merges == room # <<>> /\ Last(room).aggregate /\ b.aggregate /\ Last(room).end = b.begin
<1>5. AppendBlock(e, b) = IF merges THEN Append(Front(room), c) ELSE Append(room, b)
  BY DEF AppendBlock, past, room
<1>6. room \in Seq(Blocks) /\ Len(room) \in Nat
  BY <1>4, BlockFacts DEF History
<1>7. CASE merges
  <2>1. room # <<>>
    BY <1>7
  <2>2. /\ History(Front(room), Last(room).was, d, x) /\ Last(room) \in Blocks /\ Last(room).now = e.text
        /\ Exact(Last(room).changed, Last(room).was, d, x)
    BY <1>4, <2>1, FrontHistory
  <2>3. c \in Blocks /\ c.was = Last(room).was /\ c.now = b.now /\ c.changed = Last(room).changed
    BY <2>2, MergedIs
  <2> HIDE DEF c
  <2>4. History(Append(Front(room), c), c.now, d, x)
        /\ Len(Append(Front(room), c)) = Len(Front(room)) + 1
    BY <2>2, <2>3, AppendHistory
  <2>5. Len(Front(room)) \in Nat
    BY <2>2, BlockFacts DEF History
  <2>6. AppendBlock(e, b) = Append(Front(room), c)
    BY <1>5, <1>7
  <2> QED  BY <2>3, <2>4, <2>5, <2>6
<1>8. CASE ~merges
  <2>1. AppendBlock(e, b) = Append(room, b)
    BY <1>5, <1>8
  <2>2. History(Append(room, b), b.now, d, x) /\ Len(Append(room, b)) = Len(room) + 1
    BY <1>1, <1>4, AppendHistory
  <2> QED  BY <1>6, <2>1, <2>2
<1> QED
  BY <1>7, <1>8

\* A key that changes the text, and says so.
LEMMA EditedGood ==
    ASSUME NEW d, NEW x, NEW e, Good(e, d, x), NEW text, NEW cursor \in EdPoint,
           NEW aggregate \in BOOLEAN, NEW changed \in BOOLEAN, NEW recs,
           Replays(e.text, recs, text), InText(text, cursor), ~changed => text = e.text
    PROVE  LET f == Edited(e, text, cursor, aggregate, changed, recs)
           IN  Good(f, d, x) /\ f.text = text /\ f.cursor = cursor /\ f.marker = cursor
<1> DEFINE b == [aggregate |-> aggregate, changed |-> e.changed, recs |-> recs,
                 was |-> e.text, now |-> text,
                 begin |-> <<e.cursor, e.marker>>, end |-> <<cursor, cursor>>]
           list == AppendBlock(e, b)
           f == Edited(e, text, cursor, aggregate, changed, recs)
<1>1. e.changed \in BOOLEAN /\ e.cursor \in EdPoint /\ e.marker \in EdPoint
      /\ InText(e.text, e.cursor) /\ InText(e.text, e.marker) /\ Exact(e.changed, e.text, d, x)
  BY DEF Good, EdFields
<1>2. b \in Blocks /\ b.was = e.text /\ b.now = text /\ b.changed = e.changed
  <2>1. Within(e.text, <<e.cursor, e.marker>>) /\ Within(text, <<cursor, cursor>>)
    BY <1>1 DEF Within
  <2>2. <<e.cursor, e.marker>> \in EdPoint \X EdPoint /\ <<cursor, cursor>> \in EdPoint \X EdPoint
    BY <1>1
  <2> QED  BY <1>1, <2>1, <2>2, BlockIs
<1>3. f = [text |-> text, cursor |-> cursor, marker |-> cursor,
           undo |-> list, pos |-> Len(list), changed |-> e.changed \/ changed]
  BY DEF Edited
<1> HIDE DEF b
<1>4. History(list, text, d, x) /\ Len(list) \in Nat /\ Len(list) > 0
  BY <1>2, AppendBlockIs
<1> HIDE DEF list
<1>5. f.text = text /\ f.cursor = cursor /\ f.marker = cursor /\ f.undo = list /\ f.pos = Len(list)
      /\ f.changed = (e.changed \/ changed)
  BY <1>3
<1>6. f \in EdFields
  <2>1. text \in EdText /\ list \in Seq(Blocks) /\ (e.changed \/ changed) \in BOOLEAN
    BY <1>1, <1>4 DEF History, Replays
  <2> QED  BY <1>3, <1>4, <2>1 DEF EdFields
<1>7. list # <<>>
  BY <1>4, BlockFacts DEF History
<1>8. Exact(e.changed \/ changed, text, d, x)
  BY <1>1 DEF Exact
<1> HIDE DEF f
<1>9. Good(f, d, x)
  <2>1. f.pos <= Len(f.undo) /\ ~(f.pos < Len(f.undo)) /\ (f.pos > 0 => f.undo[f.pos].now = f.text)
    BY <1>4, <1>5, <1>7 DEF History
  <2>2. Chained(f.undo) /\ \A i \in 1..Len(f.undo) : Exact(f.undo[i].changed, f.undo[i].was, d, x)
    BY <1>4, <1>5 DEF History
  <2> QED  BY <1>5, <1>6, <1>8, <2>1, <2>2 DEF Good
<1> QED
  BY <1>5, <1>9 DEF f

\* The usual key: what it makes of the editor.
Left(f, text, cursor) == f.text = text /\ f.cursor = cursor /\ f.marker = cursor

LEMMA EditedWell ==
    ASSUME NEW d, NEW x, NEW e, Good(e, d, x), NEW text, NEW cursor \in EdPoint,
           NEW aggregate \in BOOLEAN, NEW recs, Replays(e.text, recs, text),
           InText(text, cursor), NEW f, f = Edited(e, text, cursor, aggregate, TRUE, recs)
    PROVE  Good(f, d, x) /\ Left(f, text, cursor)
<1>1. PICK changed \in BOOLEAN : changed = TRUE
  OBVIOUS
<1>2. ~changed => text = e.text
  BY <1>1
<1> DEFINE g == Edited(e, text, cursor, aggregate, changed, recs)
<1>3. f = g
  BY <1>1
<1>4. Good(g, d, x) /\ g.text = text /\ g.cursor = cursor /\ g.marker = cursor
  BY <1>2, EditedGood
<1> QED
  BY <1>3, <1>4 DEF Left

-----------------------------------------------------------------------------
(* The keys.                                                               *)

LEMMA PointIs ==
    ASSUME NEW l \in Nat, NEW p \in Nat
    PROVE  Point(l, p) \in EdPoint /\ Point(l, p).line = l /\ Point(l, p).pos = p
BY DEF Point, EdPoint

LEMMA InTextIs ==
    ASSUME NEW t \in EdText, NEW l \in 1..Len(t), NEW p \in 0..Len(t[l].s)
    PROVE  Point(l, p) \in EdPoint /\ InText(t, Point(l, p))
<1>1. Len(t) \in Nat /\ DOMAIN t = 1..Len(t) /\ Len(t[l].s) \in Nat
  BY TextFacts
<1>2. l \in Nat /\ p \in Nat
  BY <1>1
<1> QED
  BY <1>1, <1>2, PointIs DEF InText

LEMMA GoodFacts ==
    ASSUME NEW d, NEW x, NEW e, Good(e, d, x)
    PROVE  /\ e.text \in EdText /\ e.cursor \in EdPoint /\ e.marker \in EdPoint
           /\ InText(e.text, e.cursor) /\ InText(e.text, e.marker)
           /\ e.cursor.line \in 1..Len(e.text)
           /\ e.cursor.pos \in 0..Len(e.text[e.cursor.line].s)
           /\ e.marker.line \in 1..Len(e.text)
           /\ e.marker.pos \in 0..Len(e.text[e.marker.line].s)
<1>1. /\ e.text \in EdText /\ e.cursor \in EdPoint /\ e.marker \in EdPoint
      /\ InText(e.text, e.cursor) /\ InText(e.text, e.marker)
  BY DEF Good, EdFields
<1>2. DOMAIN e.text = 1..Len(e.text)
  BY <1>1, TextFacts
<1> QED
  BY <1>1, <1>2 DEF InText

\* A point of a line that is set.
LEMMA InSetLine ==
    ASSUME NEW t \in EdText, NEW l \in 1..Len(t), NEW s \in Seq(Letter), NEW p \in 0..Len(s)
    PROVE  Point(l, p) \in EdPoint /\ InText(SetLine(t, l, s), Point(l, p))
<1> DEFINE u == SetLine(t, l, s)
<1>1. u \in EdText /\ l \in 1..Len(u) /\ u[l].s = s
  BY SetLineBack
<1> HIDE DEF u
<1> QED
  BY <1>1, InTextIs DEF u

\* Of two points that differ one is before the other.
LEMMA OneBefore ==
    ASSUME NEW c \in EdPoint, NEW m \in EdPoint, c # m
    PROVE  \/ Before(c, m) /\ ~Before(m, c)
           \/ Before(m, c) /\ ~Before(c, m)
BY DEF Before, EdPoint

LEMMA DelMarkedGood ==
    ASSUME NEW d, NEW x, NEW e, Good(e, d, x)
    PROVE  Good(DelMarked(e), d, x) /\ DelMarked(e).cursor = DelMarked(e).marker
<1> DEFINE b == IF Before(e.cursor, e.marker) THEN e.cursor ELSE e.marker
           f == IF b = e.cursor THEN e.marker ELSE e.cursor
           bs == e.text[b.line].s
           fs == e.text[f.line].s
           joined == Line(Take(bs, b.pos) \o Drop(fs, f.pos), e.text[f.line].cr)
           oneLine == Edited(e, SetLine(e.text, b.line, Delete(bs, b.pos, f.pos - b.pos)), b, FALSE, TRUE,
                             <<DelText(b.line, b.pos, SubSeq(bs, b.pos + 1, f.pos))>>)
           lines == Edited(e, Take(e.text, b.line - 1) \o <<joined>> \o Drop(e.text, f.line),
                           b, FALSE, TRUE, SelectionRecs(e.text, b, f))
<1>1. DelMarked(e) = IF e.cursor = e.marker THEN e ELSE IF b.line = f.line THEN oneLine ELSE lines
  BY DEF DelMarked
<1>2. CASE e.cursor = e.marker
  BY <1>1, <1>2
<1>3. CASE e.cursor # e.marker
  <2>1. e.text \in EdText /\ Len(e.text) \in Nat
    BY GoodFacts, TextFacts
  <2>2. /\ b \in EdPoint /\ f \in EdPoint /\ Before(b, f)
        /\ b.line \in 1..Len(e.text) /\ b.pos \in 0..Len(bs)
        /\ f.line \in 1..Len(e.text) /\ f.pos \in 0..Len(fs)
    <3>1. CASE Before(e.cursor, e.marker)
      <4>1. b = e.cursor /\ f = e.marker
        BY <3>1
      <4> HIDE DEF b, f
      <4> QED  BY <3>1, <4>1, GoodFacts
    <3>2. CASE ~Before(e.cursor, e.marker)
      <4>1. Before(e.marker, e.cursor)
        BY <1>3, <3>2, GoodFacts, OneBefore
      <4>2. b = e.marker /\ f = e.cursor
        BY <1>3, <3>2
      <4> HIDE DEF b, f
      <4> QED  BY <4>1, <4>2, GoodFacts
    <3> QED  BY <3>1, <3>2
  <2> HIDE DEF b, f
  <2>3. b.line < f.line \/ (b.line = f.line /\ b.pos < f.pos)
    BY <2>2 DEF Before
  <2>4. CASE b.line = f.line
    <3>1. b.pos < f.pos /\ Len(bs) \in Nat /\ bs = fs /\ bs \in Seq(Letter) /\ b.pos \in Nat /\ f.pos \in Nat
      BY <2>1, <2>2, <2>3, <2>4, TextFacts DEF EdPoint
    <3>2. PICK n \in Nat : n = f.pos - b.pos
      BY <3>1
    <3>3. b.pos + n = f.pos /\ b.pos + n <= Len(bs)
      BY <2>2, <3>1, <3>2
    <3>4. Replays(e.text, <<DelText(b.line, b.pos, SubSeq(bs, b.pos + 1, b.pos + n))>>,
                  SetLine(e.text, b.line, Delete(bs, b.pos, n)))
      BY <2>1, <2>2, <3>1, <3>3, DelTextReplays
    <3>5. Delete(bs, b.pos, n) \in Seq(Letter) /\ Len(Delete(bs, b.pos, n)) = Len(bs) - n
      BY <3>1, <3>3, DeleteIs
    <3>6. b.pos \in 0..Len(Delete(bs, b.pos, n))
      BY <3>1, <3>3, <3>5
    <3>7. b = Point(b.line, b.pos)
      BY <2>2 DEF EdPoint, Point
    <3>8. InText(SetLine(e.text, b.line, Delete(bs, b.pos, n)), b)
      BY <2>1, <2>2, <3>5, <3>6, <3>7, InSetLine
    <3>9. oneLine = Edited(e, SetLine(e.text, b.line, Delete(bs, b.pos, n)), b, FALSE, TRUE,
                           <<DelText(b.line, b.pos, SubSeq(bs, b.pos + 1, b.pos + n))>>)
      BY <3>2, <3>3
    <3> HIDE DEF oneLine
    <3>10. Good(oneLine, d, x) /\ Left(oneLine, SetLine(e.text, b.line, Delete(bs, b.pos, n)), b)
      BY <2>2, <3>4, <3>8, <3>9, EditedWell
    <3>11. oneLine.cursor = oneLine.marker
      BY <3>10 DEF Left
    <3> QED  BY <1>1, <1>3, <2>4, <3>10, <3>11
  <2>5. CASE b.line # f.line
    <3>1. b.line < f.line
      BY <2>3, <2>5
    <3> DEFINE u == Take(e.text, b.line - 1) \o <<joined>> \o Drop(e.text, f.line)
    <3>2. /\ u \in EdText /\ b.line \in 1..Len(u) /\ u[b.line] = joined
          /\ b.pos \in 0..Len(joined.s) /\ Replays(e.text, SelectionRecs(e.text, b, f), u)
      BY <2>1, <2>2, <3>1, SelectionReplays
    <3> HIDE DEF u, joined
    <3>3. b = Point(b.line, b.pos)
      BY <2>2 DEF EdPoint, Point
    <3>4. InText(u, b)
      BY <3>2, <3>3, InTextIs
    <3>5. lines = Edited(e, u, b, FALSE, TRUE, SelectionRecs(e.text, b, f))
      BY DEF u
    <3> HIDE DEF lines
    <3>6. Good(lines, d, x) /\ Left(lines, u, b)
      BY <2>2, <3>2, <3>4, <3>5, EditedWell
    <3>7. lines.cursor = lines.marker
      BY <3>6 DEF Left
    <3> QED  BY <1>1, <1>3, <2>5, <3>6, <3>7
  <2> QED  BY <2>4, <2>5
<1> QED
  BY <1>2, <1>3

\* A key that changes nothing notes a block with nothing in it.
LEMMA EditedSame ==
    ASSUME NEW d, NEW x, NEW e, Good(e, d, x), NEW aggregate \in BOOLEAN,
           NEW f, f = Edited(e, e.text, e.cursor, aggregate, FALSE, <<>>)
    PROVE  Good(f, d, x)
<1>1. PICK changed \in BOOLEAN : changed = FALSE
  OBVIOUS
<1>2. f = Edited(e, e.text, e.cursor, aggregate, changed, <<>>)
  BY <1>1
<1>3. e.cursor \in EdPoint /\ InText(e.text, e.cursor) /\ Replays(e.text, <<>>, e.text)
  BY GoodFacts, ReplaysNone
<1>4. Good(Edited(e, e.text, e.cursor, aggregate, changed, <<>>), d, x)
  BY <1>3, EditedGood
<1> QED
  BY <1>2, <1>4

LEMMA InsCharGood ==
    ASSUME NEW d, NEW x, NEW e0, Good(e0, d, x), NEW c \in EdChar
    PROVE  Good(InsChar(e0, c), d, x)
<1>1. PICK e : e = DelMarked(e0)
  OBVIOUS
<1>2. Good(e, d, x)
  BY <1>1, DelMarkedGood
<1>3. PICK t \in EdText : t = e.text
  BY <1>2, GoodFacts
<1>4. PICK l \in 1..Len(t) : l = e.cursor.line
  BY <1>2, <1>3, GoodFacts
<1>5. PICK p \in 0..Len(t[l].s) : p = e.cursor.pos
  BY <1>2, <1>3, <1>4, GoodFacts
<1>6. PICK s \in Seq(Letter) : s = t[l].s
  BY TextFacts
<1>7. Len(s) \in Nat /\ <<c>> \in Seq(Letter) /\ Len(<<c>>) = 1 /\ p \in 0..Len(s)
  BY <1>5, <1>6 DEF Letter
<1> DEFINE y == Insert(s, p, <<c>>, 1)
<1>8. y = Take(s, p) \o <<c>> \o Drop(s, p) /\ y \in Seq(Letter) /\ Len(y) = Len(s) + 1
  BY <1>7, InsertIs
<1> HIDE DEF y
<1>9. Replays(t, <<InsText(l, p, <<c>>)>>, SetLine(t, l, y))
  BY <1>6, <1>7, <1>8, InsTextReplays
<1>10. PICK q : q = p + 1
  OBVIOUS
<1>11. q \in 0..Len(y)
  BY <1>7, <1>8, <1>10
<1>12. Point(l, q) \in EdPoint /\ InText(SetLine(t, l, y), Point(l, q))
  BY <1>8, <1>11, InSetLine
<1>13. InsChar(e0, c) = Edited(e, SetLine(t, l, y), Point(l, q), TRUE, TRUE, <<InsText(l, p, <<c>>)>>)
  BY <1>1, <1>3, <1>4, <1>5, <1>6, <1>10 DEF InsChar, y
<1> QED
  BY <1>2, <1>3, <1>9, <1>12, <1>13, EditedWell

\* A part of the cursor's line is deleted, and the cursor stands where it was.
LEMMA PartGood ==
    ASSUME NEW d, NEW x, NEW e, Good(e, d, x), NEW k \in Nat, NEW n \in Nat,
           k + n <= Len(e.text[e.cursor.line].s),
           NEW f, f = LET l == e.cursor.line
                          s == e.text[l].s
                      IN  Edited(e, SetLine(e.text, l, Delete(s, k, n)), Point(l, k), TRUE, TRUE,
                                 <<DelText(l, k, SubSeq(s, k + 1, k + n))>>)
    PROVE  Good(f, d, x)
<1>3. PICK t \in EdText : t = e.text
  BY GoodFacts
<1>4. PICK l \in 1..Len(t) : l = e.cursor.line
  BY <1>3, GoodFacts
<1>6. PICK s \in Seq(Letter) : s = t[l].s
  BY TextFacts
<1>7. Len(s) \in Nat /\ k + n <= Len(s)
  BY <1>3, <1>4, <1>6
<1> DEFINE y == Delete(s, k, n)
           r == <<DelText(l, k, SubSeq(s, k + 1, k + n))>>
<1>8. y \in Seq(Letter) /\ Len(y) = Len(s) - n
  BY <1>7, DeleteIs
<1>9. Replays(t, r, SetLine(t, l, y))
  BY <1>6, <1>7, DelTextReplays
<1>10. f = Edited(e, SetLine(t, l, y), Point(l, k), TRUE, TRUE, r)
  BY <1>3, <1>4, <1>6
<1> HIDE DEF y, r
<1>11. k \in 0..Len(y)
  BY <1>7, <1>8
<1>12. Point(l, k) \in EdPoint /\ InText(SetLine(t, l, y), Point(l, k))
  BY <1>8, <1>11, InSetLine
<1> QED
  BY <1>3, <1>9, <1>10, <1>12, EditedWell

\* A line and the next one become one.
LEMMA JoinGood ==
    ASSUME NEW d, NEW x, NEW e, Good(e, d, x), NEW l \in 1..Len(e.text) - 1,
           NEW f, f = Edited(e, Joined(e.text, l), Point(l, Len(e.text[l].s)), TRUE, TRUE, JoinRecs(e.text, l))
    PROVE  Good(f, d, x)
<1>1. PICK t \in EdText : t = e.text
  BY GoodFacts
<1>2. Len(t) \in Nat /\ l \in 1..Len(t) - 1
  BY <1>1, TextFacts
<1>3. l \in 1..Len(t) /\ l + 1 \in 1..Len(t)
  BY <1>2
<1> DEFINE u == Joined(t, l)
           s == t[l].s
<1>4. s \in Seq(Letter) /\ Len(s) \in Nat /\ t[l + 1].s \in Seq(Letter) /\ Len(t[l + 1].s) \in Nat
  BY <1>3, TextFacts
<1>5. /\ u \in EdText /\ Len(u) = Len(t) - 1 /\ u[l] = Line(s \o t[l + 1].s, t[l + 1].cr)
      /\ Replays(t, JoinRecs(t, l), u)
  BY <1>2, JoinReplays
<1>6. f = Edited(e, u, Point(l, Len(s)), TRUE, TRUE, JoinRecs(t, l))
  BY <1>1
<1> HIDE DEF u, s
<1>7. Len(s \o t[l + 1].s) = Len(s) + Len(t[l + 1].s)
  BY <1>4, ConcatProperties
<1>8. l \in 1..Len(u) /\ Len(s) \in 0..Len(u[l].s)
  BY <1>2, <1>4, <1>5, <1>7 DEF Line
<1>9. Point(l, Len(s)) \in EdPoint /\ InText(u, Point(l, Len(s)))
  BY <1>5, <1>8, InTextIs
<1> QED
  BY <1>1, <1>5, <1>6, <1>9, EditedWell

LEMMA DelGood ==
    ASSUME NEW d, NEW x, NEW e, Good(e, d, x)
    PROVE  Good(Del(e, FALSE), d, x)
<1> DEFINE l == e.cursor.line
           same == Edited(e, e.text, e.cursor, TRUE, FALSE, <<>>)
           joined == Edited(e, Joined(e.text, l), e.cursor, TRUE, TRUE, JoinRecs(e.text, l))
<1>1. /\ e.text \in EdText /\ e.cursor \in EdPoint /\ l \in 1..Len(e.text) /\ Len(e.text) \in Nat
      /\ e.cursor.pos \in 0..Len(e.text[l].s) /\ Len(e.text[l].s) \in Nat /\ e.text[l].s \in Seq(Letter)
  BY GoodFacts, TextFacts
<1>2. Del(e, FALSE) = IF e.cursor # e.marker THEN DelMarked(e)
                      ELSE IF e.cursor.pos < Len(e.text[l].s) THEN DelAfter(e, 1)
                      ELSE IF l < Len(e.text) THEN joined ELSE same
  BY DEF Del
<1>3. CASE e.cursor # e.marker
  BY <1>2, <1>3, DelMarkedGood
<1>4. CASE e.cursor = e.marker /\ e.cursor.pos < Len(e.text[l].s)
  <2> DEFINE s == e.text[l].s
             p == e.cursor.pos
             noted == SubSeq(s, p + 1, p + 1)
             f == DelAfter(e, 1)
  <2>1. p \in Nat /\ p + 1 <= Len(s) /\ 1 <= Len(s) - p /\ s \in Seq(Letter) /\ 1 \in Nat
    BY <1>1, <1>4, SMTT(30)
  <2>2. noted \in Seq(Letter) /\ Len(noted) = 1
    BY <2>1, DeleteIs
  <2>3. [DelText(l, p, noted) EXCEPT !.n = 1] = DelText(l, p, noted)
    <3>1. PICK r \in EdRec : r = DelText(l, p, noted) /\ r.n = 1
      <4>1. l \in Nat /\ p \in Nat
        BY <1>1
      <4> HIDE DEF l, p, noted
      <4>2. DelText(l, p, noted) \in EdRec /\ DelText(l, p, noted).n = Len(noted)
        <5>1. PICK m \in Seq(Letter) : m = noted
          BY <2>2
        <5>2. DelText(l, p, m) \in EdRec
          BY <4>1, TextRecs
        <5>3. DelText(l, p, m).n = Len(m)
          BY DEF DelText, Rec
        <5> QED BY <5>1, <5>2, <5>3
      <4> QED  BY <2>2, <4>2
    <3>2. [r EXCEPT !.n = 1] = r
      BY <3>1 DEF EdRec
    <3> QED  BY <3>1, <3>2
  <2>4. e.cursor = Point(l, p)
    BY <1>1 DEF EdPoint, Point
  <2>5. f = Edited(e, SetLine(e.text, l, Delete(s, p, 1)), e.cursor, TRUE, TRUE,
                   <<[DelText(l, p, noted) EXCEPT !.n = 1]>>)
    <3>1. ~(1 <= 0)
      OBVIOUS
    <3> QED  BY <2>1, <3>1, Zenon DEF DelAfter
  <2>6. f = Edited(e, SetLine(e.text, l, Delete(s, p, 1)), Point(l, p), TRUE, TRUE,
                   <<DelText(l, p, noted)>>)
    BY <2>3, <2>4, <2>5
  <2> HIDE DEF f
  <2>7. Good(f, d, x)
    BY <2>1, <2>6, PartGood
  <2> QED  BY <1>2, <1>4, <2>7 DEF f
<1>5. CASE e.cursor = e.marker /\ ~(e.cursor.pos < Len(e.text[l].s)) /\ l < Len(e.text)
  <2>1. l \in 1..Len(e.text) - 1 /\ e.cursor.pos = Len(e.text[l].s)
    BY <1>1, <1>5
  <2>2. e.cursor = Point(l, Len(e.text[l].s))
    BY <1>1, <2>1 DEF EdPoint, Point
  <2>3. Del(e, FALSE) = Edited(e, Joined(e.text, l), Point(l, Len(e.text[l].s)), TRUE, TRUE,
                               JoinRecs(e.text, l))
    BY <1>2, <1>5, <2>2
  <2> QED  BY <2>1, <2>3, JoinGood
<1>6. CASE e.cursor = e.marker /\ ~(e.cursor.pos < Len(e.text[l].s)) /\ ~(l < Len(e.text))
  <2>1. Del(e, FALSE) = same
    BY <1>2, <1>6
  <2> QED  BY <2>1, EditedSame
<1> QED
  BY <1>3, <1>4, <1>5, <1>6

LEMMA WordBeginIs ==
    ASSUME NEW s, NEW p \in Nat \ {0}
    PROVE  WordBegin(s, p) \in 0..p - 1
<1> DEFINE set == {k \in 0..(p - 1) : \A i \in (k + 1)..p : (s[i] \in EdBlanks) = (s[p] \in EdBlanks)}
<1>1. p - 1 \in set
  <2>1. \A i \in (p - 1 + 1)..p : i = p
    OBVIOUS
  <2>2. p - 1 \in 0..(p - 1)
    OBVIOUS
  <2> QED  BY <2>1, <2>2
<1>2. set \subseteq Nat /\ set \subseteq 0..(p - 1)
  OBVIOUS
<1>3. WordBegin(s, p) = Min(set)
  BY DEF WordBegin
<1> HIDE DEF set
<1>4. \E n \in set : \A k \in set : n <= k
  BY <1>1, <1>2, LeastNumber
<1>5. Min(set) \in set
  BY <1>4 DEF Min
<1> QED
  BY <1>2, <1>3, <1>5

LEMMA BackspaceGood ==
    ASSUME NEW d, NEW x, NEW e, Good(e, d, x), NEW word \in BOOLEAN
    PROVE  Good(Backspace(e, word), d, x)
<1> DEFINE l == e.cursor.line
           p == e.cursor.pos
           s == e.text[l].s
           k == IF word THEN WordBegin(s, p) ELSE p - 1
           part == Edited(e, SetLine(e.text, l, Delete(s, k, p - k)), Point(l, k), TRUE, TRUE,
                          <<DelText(l, k, SubSeq(s, k + 1, p))>>)
           joined == Edited(e, Joined(e.text, l - 1), Point(l - 1, Len(e.text[l - 1].s)), TRUE, TRUE,
                            JoinRecs(e.text, l - 1))
           same == Edited(e, e.text, e.cursor, TRUE, FALSE, <<>>)
<1>1. /\ e.text \in EdText /\ e.cursor \in EdPoint /\ l \in 1..Len(e.text) /\ Len(e.text) \in Nat
      /\ p \in 0..Len(s) /\ Len(s) \in Nat /\ s \in Seq(Letter)
  BY GoodFacts, TextFacts
<1>2. Backspace(e, word) = IF e.cursor # e.marker THEN DelMarked(e)
                           ELSE IF p > 0 THEN part ELSE IF l > 1 THEN joined ELSE same
  BY DEF Backspace
<1>3. CASE e.cursor # e.marker
  BY <1>2, <1>3, DelMarkedGood
<1>4. CASE e.cursor = e.marker /\ p > 0
  <2>1. p \in Nat \ {0}
    BY <1>1, <1>4
  <2>2. k \in 0..p - 1
    BY <2>1, WordBeginIs
  <2> HIDE DEF k
  <2>3. PICK n \in Nat : n = p - k
    BY <2>1, <2>2
  <2>4. k \in Nat /\ k + n = p /\ k + n <= Len(s)
    BY <1>1, <2>1, <2>2, <2>3
  <2>5. part = Edited(e, SetLine(e.text, l, Delete(s, k, n)), Point(l, k), TRUE, TRUE,
                      <<DelText(l, k, SubSeq(s, k + 1, k + n))>>)
    BY <2>3, <2>4
  <2> HIDE DEF part
  <2>6. Good(part, d, x)
    BY <2>4, <2>5, PartGood
  <2> QED  BY <1>2, <1>4, <2>6
<1>5. CASE e.cursor = e.marker /\ ~(p > 0) /\ l > 1
  <2>1. l - 1 \in 1..Len(e.text) - 1
    BY <1>1, <1>5
  <2>2. Good(joined, d, x)
    BY <2>1, JoinGood
  <2> QED  BY <1>2, <1>5, <2>2
<1>6. CASE e.cursor = e.marker /\ ~(p > 0) /\ ~(l > 1)
  <2>1. Backspace(e, word) = same
    BY <1>2, <1>6
  <2> QED  BY <2>1, EditedSame
<1> QED
  BY <1>3, <1>4, <1>5, <1>6

LEMMA DeleteLineGood ==
    ASSUME NEW d, NEW x, NEW e, Good(e, d, x)
    PROVE  Good(DeleteLine(e), d, x)
<1>1. PICK t \in EdText : t = e.text
  BY GoodFacts
<1>2. PICK l \in 1..Len(t) : l = e.cursor.line
  BY <1>1, GoodFacts
<1>3. PICK s \in Seq(Letter) : s = t[l].s
  BY TextFacts
<1>4. Len(t) \in Nat /\ Len(s) \in Nat
  BY <1>3, TextFacts
<1> DEFINE lines == Edited(e, NoLines(t, l, 1), Point(l, 0), FALSE, TRUE, <<DelLine(l, t[l])>>)
           last == Edited(e, SetLine(t, l, <<>>), Point(l, 0), FALSE, TRUE, <<DelText(l, 0, s)>>)
<1>5. DeleteLine(e) = IF l < Len(t) THEN lines ELSE IF s = <<>> THEN e ELSE last
  BY <1>1, <1>2, <1>3 DEF DeleteLine
<1>6. CASE l < Len(t)
  <2> DEFINE u == NoLines(t, l, 1)
  <2>1. u \in EdText /\ Len(u) = Len(t) - 1
    BY NoLinesIs
  <2>2. Replays(t, <<DelLine(l, t[l])>>, u)
    BY DelLineReplays
  <2>3. lines = Edited(e, u, Point(l, 0), FALSE, TRUE, <<DelLine(l, t[l])>>)
    OBVIOUS
  <2> HIDE DEF u, lines
  <2>4. l \in 1..Len(u)
    BY <1>4, <1>6, <2>1
  <2>5. 0 \in 0..Len(u[l].s)
    BY <2>1, <2>4, TextFacts
  <2>6. Point(l, 0) \in EdPoint /\ InText(u, Point(l, 0))
    BY <2>1, <2>4, <2>5, InTextIs
  <2>7. Good(lines, d, x)
    BY <1>1, <2>2, <2>3, <2>6, EditedWell
  <2> QED  BY <1>5, <1>6, <2>7
<1>7. CASE ~(l < Len(t)) /\ s = <<>>
  BY <1>5, <1>7
<1>8. CASE ~(l < Len(t)) /\ s # <<>>
  <2>1. Take(s, 0) = <<>> /\ Drop(s, 0) = s
    BY <1>4, SubSeqEmpty, SubSeqFull DEF Take, Drop
  <2>2. 0 \in 0..Len(s) /\ 0 \in 0..Len(<<>>) /\ <<>> \in Seq(Letter)
    BY <1>4
  <2>3. Replays(t, <<DelText(l, 0, Drop(s, 0))>>, SetLine(t, l, Take(s, 0)))
    BY <1>3, <2>2, RestReplays
  <2>4. Point(l, 0) \in EdPoint /\ InText(SetLine(t, l, <<>>), Point(l, 0))
    BY <2>2, InSetLine
  <2>5. Good(last, d, x)
    BY <1>1, <2>1, <2>3, <2>4, EditedWell
  <2> QED  BY <1>5, <1>8, <2>5
<1> QED
  BY <1>6, <1>7, <1>8

LEMMA SetLineTwice ==
    ASSUME NEW t \in EdText, NEW l \in 1..Len(t), NEW a \in Seq(Letter), NEW b \in Seq(Letter)
    PROVE  SetLine(SetLine(t, l, a), l, b) = SetLine(t, l, b)
<1> DEFINE u == SetLine(t, l, a)
           v == SetLine(t, l, b)
<1>1. u \in EdText /\ Len(u) = Len(t) /\ \A i \in 1..Len(t) : u[i] = IF i = l THEN Line(a, t[l].cr) ELSE t[i]
  BY SetLineIs
<1>2. v \in EdText /\ Len(v) = Len(t) /\ \A i \in 1..Len(t) : v[i] = IF i = l THEN Line(b, t[l].cr) ELSE t[i]
  BY SetLineIs
<1> HIDE DEF u, v
<1> DEFINE w == SetLine(u, l, b)
<1>3. w \in EdText /\ Len(w) = Len(u) /\ \A i \in 1..Len(u) : w[i] = IF i = l THEN Line(b, u[l].cr) ELSE u[i]
  <2>1. l \in 1..Len(u)
    BY <1>1
  <2> QED  BY <1>1, <2>1, SetLineIs
<1> HIDE DEF w
<1>4. u[l].cr = t[l].cr
  BY <1>1 DEF Line
<1>5. \A i \in 1..Len(w) : w[i] = v[i]
  BY <1>1, <1>2, <1>3, <1>4
<1>6. w = v
  BY <1>1, <1>2, <1>3, <1>5, SameText
<1> QED
  BY <1>6 DEF u, v, w

\* The beginning of a string is deleted, and something is put before it.
LEMMA HeadOfLine ==
    ASSUME NEW x \in Seq(Letter), NEW n \in 0..Len(x)
    PROVE  /\ Delete(x, 0, n) = Drop(x, n) /\ SubSeq(x, 0 + 1, 0 + n) = Take(x, n)
           /\ Drop(x, 0) = x
           /\ \A s \in Seq(Letter) : Take(x, 0) \o s \o Drop(x, 0) = s \o x /\ s \o x \in Seq(Letter)
                                     /\ Len(s \o x) = Len(s) + Len(x)
<1>1. Take(x, 0) = <<>> /\ Drop(x, 0) = x /\ Len(x) \in Nat /\ n \in Nat
  BY SubSeqEmpty, SubSeqFull, LenProperties DEF Take, Drop
<1>2. Drop(x, n) \in Seq(Letter)
  BY DropIs
<1>3. \A s \in Seq(Letter) : <<>> \o s = s /\ s \o x \in Seq(Letter) /\ Len(s \o x) = Len(s) + Len(x)
  BY ConcatEmptySeq, ConcatProperties
<1>4. Delete(x, 0, n) = Drop(x, n)
  <2>1. 0 + n = n
    BY <1>1
  <2>2. CASE n = 0
    BY <1>1, <2>2 DEF Delete
  <2>3. CASE n # 0
    <3>1. ~(n <= 0)
      BY <1>1, <2>3
    <3>2. Delete(x, 0, n) = <<>> \o Drop(x, n)
      BY <1>1, <2>1, <3>1 DEF Delete
    <3> QED  BY <1>2, <1>3, <3>2
  <2> QED  BY <2>2, <2>3
<1>5. SubSeq(x, 0 + 1, 0 + n) = Take(x, n)
  BY <1>1 DEF Take
<1> QED
  BY <1>1, <1>3, <1>4, <1>5

\* The blanks a line with a word begins with are a part of it.
LEMMA BlanksIs ==
    ASSUME NEW s \in Seq(Letter), HasWord(s)
    PROVE  \E n \in 0..Len(s) : Blanks(s) = Take(s, n)
<1> DEFINE set == {i \in 1..Len(s) : s[i] \notin EdBlanks}
<1>1. Len(s) \in Nat /\ DOMAIN s = 1..Len(s)
  BY LenProperties
<1>2. set # {} /\ set \subseteq Nat /\ set \subseteq 1..Len(s)
  BY <1>1 DEF HasWord
<1>3. Blanks(s) = Take(s, Min(set) - 1)
  BY DEF Blanks
<1> HIDE DEF set
<1>4. Min(set) \in set
  <2>1. \E n \in set : \A k \in set : n <= k
    BY <1>2, LeastNumber
  <2> QED  BY <2>1 DEF Min
<1>5. Min(set) - 1 \in 0..Len(s)
  <2>1. Min(set) \in 1..Len(s)
    BY <1>2, <1>4
  <2> QED  BY <1>1, <2>1
<1> QED
  BY <1>3, <1>5

\* The line with the greatest number.
LEMMA GreatestIs ==
    ASSUME NEW n \in Nat, NEW set, set \subseteq 1..n, set # {}
    PROVE  Max(set) \in set
<1> DEFINE far == {n - i : i \in set}
<1>1. far # {} /\ far \subseteq Nat
  <2>1. \A i \in set : n - i \in Nat
    OBVIOUS
  <2> QED  BY <2>1
<1>2. PICK m \in far : \A k \in far : m <= k
  BY <1>1, LeastNumber
<1>3. PICK i \in set : m = n - i
  BY <1>2
<1>4. ASSUME NEW j \in set
      PROVE  i >= j
  <2>1. n - j \in far
    OBVIOUS
  <2>2. n - i <= n - j
    BY <1>2, <1>3, <2>1
  <2>3. i \in Int /\ j \in Int
    OBVIOUS
  <2> QED  BY <2>2, <2>3
<1> QED
  BY <1>4 DEF Max

LEMMA OwnReplays ==
    ASSUME NEW u \in EdText, NEW l \in 1..Len(u)
    PROVE  LET new == u[l].s
               own == IF HasWord(new) THEN Blanks(new) ELSE <<>>
           IN  /\ Len(own) \in 0..Len(new)
               /\ Replays(u, IF HasWord(new) THEN <<DelText(l, 0, own)>> ELSE <<>>,
                          SetLine(u, l, Drop(new, Len(own))))
<1>1. PICK new \in Seq(Letter) : new = u[l].s
  BY TextFacts
<1>2. Len(new) \in Nat /\ 0 \in 0..Len(new)
  BY LenProperties
<1> DEFINE own == IF HasWord(new) THEN Blanks(new) ELSE <<>>
<1>3. CASE HasWord(new)
  <2>1. PICK n \in 0..Len(new) : Blanks(new) = Take(new, n)
    BY <1>3, BlanksIs
  <2>2. own = Take(new, n) /\ Len(own) = n
    BY <1>3, <2>1, TakeIs
  <2>3. Delete(new, 0, n) = Drop(new, n) /\ SubSeq(new, 0 + 1, 0 + n) = own
    BY <2>2, HeadOfLine
  <2>4. 0 \in Nat /\ n \in Nat /\ 0 + n <= Len(new)
    BY <1>2, <2>1
  <2>5. Replays(u, <<DelText(l, 0, SubSeq(new, 0 + 1, 0 + n))>>, SetLine(u, l, Delete(new, 0, n)))
    BY <1>1, <2>4, DelTextReplays
  <2> QED  BY <1>1, <1>3, <2>2, <2>3, <2>5
<1>4. CASE ~HasWord(new)
  <2>1. own = <<>> /\ Len(own) = 0
    BY <1>4
  <2>2. Drop(new, 0) = new
    BY <1>2, HeadOfLine
  <2>3. SetLine(u, l, Drop(new, 0)) = u
    BY <1>1, <2>2, SetLineSame
  <2>4. Replays(u, <<>>, u)
    BY ReplaysNone
  <2> QED  BY <1>1, <1>2, <1>4, <2>1, <2>3, <2>4
<1> QED
  BY <1>3, <1>4

LEMMA EnterGood ==
    ASSUME NEW d, NEW x, NEW e0, Good(e0, d, x)
    PROVE  Good(Enter(e0), d, x)
<1>1. PICK e : e = DelMarked(e0)
  OBVIOUS
<1>2. Good(e, d, x)
  BY <1>1, DelMarkedGood
<1>3. PICK t \in EdText : t = e.text
  BY <1>2, GoodFacts
<1>4. PICK l \in 1..Len(t) : l = e.cursor.line
  BY <1>2, <1>3, GoodFacts
<1>5. PICK p \in 0..Len(t[l].s) : p = e.cursor.pos
  BY <1>2, <1>3, <1>4, GoodFacts
<1>6. PICK m : m = l + 1
  OBVIOUS
<1>7. PICK split \in EdText : /\ split = Split(t, l, p) /\ Len(split) = Len(t) + 1
                              /\ Replays(t, SplitRecs(t, l, p), split)
  BY SplitReplays
<1>8. Len(t) \in Nat /\ m \in 1..Len(split) /\ l \in Nat /\ \A i \in 1..l : i \in 1..Len(split)
  BY <1>6, <1>7, TextFacts
<1> DEFINE recs == SplitRecs(t, l, p)
           models == {i \in 1..l : HasWord(split[i].s)}
           indent == Blanks(split[Max(models)].s)
           new == split[m].s
           own == IF HasWord(new) THEN Blanks(new) ELSE <<>>
           plain == Edited(e, split, Point(m, 0), TRUE, TRUE, recs)
           line == indent \o Drop(new, Len(own))
           noted == IF HasWord(new) THEN <<DelText(m, 0, own)>> ELSE <<>>
           moved == Edited(e, SetLine(split, m, line), Point(m, Len(indent)), TRUE, TRUE,
                           recs \o noted \o <<InsText(m, 0, indent)>>)
<1>9. Enter(e0) = IF ~AutoIdent \/ models = {} THEN plain ELSE moved
  BY <1>1, <1>3, <1>4, <1>5, <1>6, <1>7, Zenon DEF Enter
<1>10. CASE ~AutoIdent \/ models = {}
  <2>1. 0 \in 0..Len(split[m].s)
    BY <1>8, TextFacts
  <2>2. Point(m, 0) \in EdPoint /\ InText(split, Point(m, 0))
    BY <1>8, <2>1, InTextIs
  <2>3. Good(plain, d, x)
    BY <1>2, <1>3, <1>7, <2>2, EditedWell
  <2> QED  BY <1>9, <1>10, <2>3
<1>11. CASE ~(~AutoIdent \/ models = {})
  <2>1. indent \in Seq(Letter) /\ Len(indent) \in Nat
    <3>1. PICK i \in models : i = Max(models)
      BY <1>8, <1>11, GreatestIs
    <3>2. PICK s \in Seq(Letter) : s = split[i].s
      BY <1>8, <3>1, TextFacts
    <3>3. HasWord(s)
      BY <3>1, <3>2
    <3>4. PICK n \in 0..Len(s) : Blanks(s) = Take(s, n)
      BY <3>3, BlanksIs
    <3>5. Blanks(s) \in Seq(Letter)
      BY <3>4, TakeIs
    <3> QED  BY <3>1, <3>2, <3>5, LenProperties
  <2>2. new \in Seq(Letter) /\ Len(new) \in Nat
    BY <1>8, TextFacts
  <2>3. Len(own) \in 0..Len(new) /\ Replays(split, noted, SetLine(split, m, Drop(new, Len(own))))
    BY <1>8, OwnReplays
  <2> HIDE DEF indent, new, models, own, noted
  <2> DEFINE rest == Drop(new, Len(own))
             u == SetLine(split, m, rest)
  <2>4. rest \in Seq(Letter) /\ Len(rest) \in Nat
    BY <2>2, <2>3, DropIs, LenProperties
  <2> HIDE DEF rest
  <2>5. u \in EdText /\ m \in 1..Len(u) /\ u[m].s = rest
    BY <1>8, <2>4, SetLineBack
  <2>6. Take(rest, 0) \o indent \o Drop(rest, 0) = line /\ line \in Seq(Letter)
        /\ Len(line) = Len(indent) + Len(rest)
    <3>1. PICK r \in Seq(Letter) : r = rest
      BY <2>4
    <3>2. \A s \in Seq(Letter) : Take(r, 0) \o s \o Drop(r, 0) = s \o r /\ s \o r \in Seq(Letter)
                                 /\ Len(s \o r) = Len(s) + Len(r)
      <4>1. PICK n \in 0..Len(r) : n = 0
        BY <2>4, <3>1
      <4> QED  BY <4>1, HeadOfLine
    <3>3. line = indent \o r
      BY <3>1 DEF rest
    <3> HIDE DEF line
    <3> QED  BY <2>1, <3>1, <3>2, <3>3
  <2> HIDE DEF line
  <2>7. SetLine(u, m, line) = SetLine(split, m, line)
    BY <1>8, <2>4, <2>6, SetLineTwice
  <2> HIDE DEF u
  <2>8. Replays(u, <<InsText(m, 0, indent)>>, SetLine(u, m, line))
    <3>1. 0 \in 0..Len(rest)
      BY <2>4
    <3> QED  BY <2>1, <2>5, <2>6, <3>1, InsTextReplays
  <2>9. Replays(t, recs \o noted \o <<InsText(m, 0, indent)>>, SetLine(split, m, line))
    <3>1. Replays(split, noted, u)
      BY <2>3 DEF u, rest
    <3>2. Replays(t, recs \o noted, u)
      BY <1>7, <3>1, ReplaysBoth
    <3> HIDE DEF recs
    <3> QED  BY <2>7, <2>8, <3>2, ReplaysBoth
  <2>10. Len(indent) \in 0..Len(line)
    BY <2>1, <2>4, <2>6
  <2>11. Point(m, Len(indent)) \in EdPoint /\ InText(SetLine(split, m, line), Point(m, Len(indent)))
    BY <1>8, <2>6, <2>10, InSetLine
  <2> HIDE DEF recs
  <2>12. Good(moved, d, x)
    BY <1>2, <1>3, <2>9, <2>11, EditedWell
  <2> QED  BY <1>9, <1>11, <2>12
<1> QED
  BY <1>10, <1>11

\* What has been pasted so far into t.
Pasting(t) == {s \in [text : EdText, cursor : EdPoint, recs : Seq(EdRec)] :
                 Replays(t, s.recs, s.text) /\ InText(s.text, s.cursor)}

LEMMA PastingIs ==
    ASSUME NEW t, NEW text, NEW cursor \in EdPoint, NEW recs, Replays(t, recs, text), InText(text, cursor)
    PROVE  [text |-> text, cursor |-> cursor, recs |-> recs] \in Pasting(t)
<1>1. text \in EdText /\ recs \in Seq(EdRec)
  BY DEF Replays
<1> QED
  BY <1>1 DEF Pasting

LEMMA PieceGood ==
    ASSUME NEW t0, NEW s \in Pasting(t0), NEW c \in EdChar \union {"\n"}
    PROVE  PastePiece(s, c) \in Pasting(t0)
<1>1. /\ s.text \in EdText /\ s.cursor \in EdPoint /\ s.recs \in Seq(EdRec)
      /\ Replays(t0, s.recs, s.text) /\ InText(s.text, s.cursor)
  BY DEF Pasting
<1>2. PICK t \in EdText : t = s.text
  BY <1>1
<1>3. DOMAIN t = 1..Len(t) /\ Len(t) \in Nat
  BY TextFacts
<1>4. PICK l \in 1..Len(t) : l = s.cursor.line
  BY <1>1, <1>2, <1>3 DEF InText
<1>5. PICK p \in 0..Len(t[l].s) : p = s.cursor.pos
  BY <1>1, <1>2, <1>4 DEF InText
<1>6. Replays(t0, s.recs, t)
  BY <1>1, <1>2
<1>7. CASE c = NewLine
  <2>1. PICK m : m = l + 1
    OBVIOUS
  <2>2. PICK u \in EdText : u = Split(t, l, p) /\ Len(u) = Len(t) + 1 /\ Replays(t, SplitRecs(t, l, p), u)
    BY SplitReplays
  <2>3. m \in 1..Len(u)
    BY <1>3, <2>1, <2>2
  <2>4. 0 \in 0..Len(u[m].s)
    BY <2>3, TextFacts
  <2>5. Point(m, 0) \in EdPoint /\ InText(u, Point(m, 0))
    BY <2>3, <2>4, InTextIs
  <2> DEFINE r == SplitRecs(t, l, p)
  <2>6. PastePiece(s, c) = [text |-> u, cursor |-> Point(m, 0), recs |-> s.recs \o r]
    BY <1>2, <1>4, <1>5, <1>7, <2>1, <2>2 DEF PastePiece
  <2> HIDE DEF r
  <2>7. Replays(t0, s.recs \o r, u)
    BY <1>6, <2>2, ReplaysBoth DEF r
  <2> QED  BY <2>5, <2>6, <2>7, PastingIs
<1>8. CASE c # NewLine
  <2>1. <<c>> \in Seq(Letter) /\ Len(<<c>>) = 1
    BY <1>8 DEF Letter, NewLine
  <2>2. PICK x \in Seq(Letter) : x = t[l].s
    BY TextFacts
  <2>3. Len(x) \in Nat /\ p \in 0..Len(x)
    BY <1>5, <2>2
  <2> DEFINE y == Insert(x, p, <<c>>, 1)
             r == InsText(l, p, <<c>>)
  <2>4. y = Take(x, p) \o <<c>> \o Drop(x, p) /\ y \in Seq(Letter) /\ Len(y) = Len(x) + 1
    BY <2>1, <2>3, InsertIs
  <2> HIDE DEF y, r
  <2>5. Replays(t, <<r>>, SetLine(t, l, y))
    BY <2>1, <2>2, <2>3, <2>4, InsTextReplays DEF r
  <2>6. PICK q : q = p + 1
    OBVIOUS
  <2>7. q \in 0..Len(y)
    BY <2>3, <2>4, <2>6
  <2>8. Point(l, q) \in EdPoint /\ InText(SetLine(t, l, y), Point(l, q))
    BY <2>4, <2>7, InSetLine
  <2>9. PastePiece(s, c) = [text |-> SetLine(t, l, y), cursor |-> Point(l, q), recs |-> Append(s.recs, r)]
    BY <1>2, <1>4, <1>5, <1>8, <2>2, <2>6 DEF PastePiece, y, r
  <2>10. Append(s.recs, r) = s.recs \o <<r>>
    <3>1. r \in EdRec
      <4>1. <<r>>[1] = r /\ Len(<<r>>) = 1 /\ <<r>> \in Seq(EdRec)
        BY <2>5 DEF Replays
      <4> QED  BY <4>1, ElementOfSeq
    <3> QED  BY <1>1, <3>1, AppendIsConcat
  <2>11. Replays(t0, s.recs \o <<r>>, SetLine(t, l, y))
    BY <1>6, <2>5, ReplaysBoth
  <2> QED  BY <2>8, <2>9, <2>10, <2>11, PastingIs
<1> QED
  BY <1>7, <1>8

LEMMA FromClipboardGood ==
    ASSUME NEW d, NEW x, NEW e0, Good(e0, d, x), NEW clip \in EdClips
    PROVE  Good(FromClipboard(e0, clip), d, x)
<1>1. PICK e : e = DelMarked(e0)
  OBVIOUS
<1>2. Good(e, d, x) /\ e.text \in EdText /\ e.cursor \in EdPoint /\ InText(e.text, e.cursor)
  BY <1>1, DelMarkedGood, GoodFacts
<1> DEFINE n == Len(clip)
           none == [text |-> e.text, cursor |-> e.cursor, recs |-> <<>>]
           F(f) == [i \in 0..Len(clip) |-> IF i = 0 THEN none ELSE PastePiece(f[i - 1], clip[i])]
           h == CHOOSE f : f = F(f)
           pasted == Edited(e, h[n].text, h[n].cursor, FALSE, TRUE, h[n].recs)
<1>3. FromClipboard(e0, clip) = IF clip = <<>> THEN e ELSE pasted
  BY <1>1 DEF FromClipboard
<1>4. n \in Nat /\ \A i \in 1..n : clip[i] \in EdChar \union {"\n"}
  <2>1. clip \in Seq(EdChar \union {"\n"})
    BY EditAssumption
  <2> QED  BY <2>1, LenProperties, ElementOfSeq
<1>5. none \in Pasting(e.text)
  BY <1>2, ReplaysNone, PastingIs
<1> DEFINE S == Pasting(e.text)
           step == [a \in S \X (1..n) |-> PastePiece(a[1], clip[a[2]])]
<1>6. step \in [S \X (1..n) -> S] /\ \A s \in S, k \in 1..n : step[<<s, k>>] = PastePiece(s, clip[k])
  <2>1. \A s \in S, k \in 1..n : PastePiece(s, clip[k]) \in S
    BY <1>4, PieceGood
  <2> HIDE DEF S
  <2> QED  BY <2>1
<1> HIDE DEF step, none, S, n
<1>7. PICK f \in [0..n -> S] : Follows(f, n, none, step)
  BY <1>4, <1>5, <1>6, FollowsExists DEF S
<1>8. f[0] = none /\ \A k \in 1..n : f[k] = PastePiece(f[k - 1], clip[k])
  <2>1. ASSUME NEW k \in 1..n
        PROVE  f[k] = PastePiece(f[k - 1], clip[k])
    <3>1. k - 1 \in 0..n
      BY <1>4
    <3>2. f[k - 1] \in S
      BY <1>7, <3>1
    <3> QED  BY <1>6, <1>7, <3>2 DEF Follows
  <2> QED  BY <1>7, <2>1 DEF Follows
<1>9. f = F(f)
  <2>1. ASSUME NEW i \in 0..n
        PROVE  f[i] = IF i = 0 THEN none ELSE PastePiece(f[i - 1], clip[i])
    <3>1. i = 0 \/ i \in 1..n
      BY <1>4
    <3>2. i \in 1..n => i # 0
      BY <1>4
    <3> QED  BY <1>8, <3>1, <3>2
  <2>2. f = [i \in 0..n |-> f[i]]
    BY <1>7
  <2> QED  BY <2>1, <2>2 DEF n
<1>10. h = F(h)
  BY <1>9
<1> HIDE DEF h
<1>11. h[0] = none /\ \A i \in 1..n : h[i] = PastePiece(h[i - 1], clip[i])
  BY <1>4, <1>10 DEF n
<1> HIDE DEF F
<1>12. f[0] = h[0] /\ \A k \in 1..n : f[k - 1] = h[k - 1] => f[k] = h[k]
  BY <1>8, <1>11, Zenon
<1>13. f[n] = h[n]
  BY <1>4, <1>12, EndsAlike
<1>14. h[n] \in Pasting(e.text)
  BY <1>4, <1>7, <1>13 DEF S
<1>15. Replays(e.text, h[n].recs, h[n].text) /\ h[n].cursor \in EdPoint /\ InText(h[n].text, h[n].cursor)
  BY <1>14 DEF Pasting
<1>16. Good(pasted, d, x)
  BY <1>2, <1>15, EditedWell
<1> QED
  BY <1>2, <1>3, <1>16

LEMMA UndoGood ==
    ASSUME NEW d, NEW x, NEW e, Good(e, d, x)
    PROVE  Good(Undo(e), d, x)
<1>1. e \in EdFields /\ e.undo \in Seq(Blocks) /\ e.pos \in Nat /\ e.pos <= Len(e.undo)
  BY DEF Good, EdFields
<1>2. Len(e.undo) \in Nat
  BY <1>1, BlockFacts
<1> DEFINE b == e.undo[e.pos]
           f == [e EXCEPT !.text = AllUndone(@, b.recs), !.cursor = b.begin[1], !.marker = b.begin[2],
                          !.pos = @ - 1, !.changed = b.changed]
<1>3. Undo(e) = IF e.pos = 0 THEN e ELSE f
  BY DEF Undo
<1>4. CASE e.pos = 0
  BY <1>3, <1>4
<1>5. CASE e.pos # 0
  <2>1. e.pos \in 1..Len(e.undo) /\ e.pos > 0 /\ e.pos - 1 \in Nat
    BY <1>1, <1>2, <1>5
  <2>2. b \in Blocks /\ b.now = e.text /\ Exact(b.changed, b.was, d, x)
    BY <1>1, <2>1, BlockFacts DEF Good
  <2>3. /\ Replays(b.was, b.recs, b.now) /\ InText(b.was, b.begin[1]) /\ InText(b.was, b.begin[2])
        /\ b.was \in EdText /\ b.begin[1] \in EdPoint /\ b.begin[2] \in EdPoint /\ b.changed \in BOOLEAN
    BY <2>2 DEF Blocks, Within
  <2>4. AllUndone(e.text, b.recs) = b.was
    BY <2>2, <2>3, ReplaysUndone
  <2> HIDE DEF b
  <2>5. /\ f \in EdFields /\ f.text = b.was /\ f.cursor = b.begin[1] /\ f.marker = b.begin[2]
        /\ f.undo = e.undo /\ f.pos = e.pos - 1 /\ f.changed = b.changed
    BY <1>1, <2>1, <2>3, <2>4 DEF EdFields
  <2> HIDE DEF f
  <2>6. f.pos > 0 => f.undo[f.pos].now = f.text
    <3>1. ASSUME e.pos - 1 > 0
          PROVE  e.undo[e.pos - 1].now = b.was
      <4>1. e.pos - 1 \in 1..Len(e.undo) - 1 /\ e.pos - 1 + 1 = e.pos
        BY <1>2, <2>1, <3>1
      <4>2. e.undo[e.pos - 1].now = e.undo[e.pos - 1 + 1].was
        BY <4>1 DEF Good, Chained
      <4> QED  BY <4>1, <4>2 DEF b
    <3> QED  BY <2>5, <3>1
  <2>7. f.undo[f.pos + 1].was = f.text /\ f.pos <= Len(f.undo)
    BY <1>1, <1>2, <2>1, <2>5 DEF b
  <2>8. Good(f, d, x)
    BY <2>2, <2>3, <2>5, <2>6, <2>7 DEF Good
  <2> QED  BY <1>3, <1>5, <2>8
<1> QED
  BY <1>4, <1>5

LEMMA RedoGood ==
    ASSUME NEW d, NEW x, NEW e, Good(e, d, x)
    PROVE  Good(Redo(e), d, x)
<1>1. e \in EdFields /\ e.undo \in Seq(Blocks) /\ e.pos \in Nat /\ e.pos <= Len(e.undo)
  BY DEF Good, EdFields
<1>2. Len(e.undo) \in Nat
  BY <1>1, BlockFacts
<1> DEFINE b == e.undo[e.pos + 1]
           changed == e.pos + 1 = Len(e.undo) \/ e.undo[e.pos + 2].changed
           f == [e EXCEPT !.text = AllRedone(@, b.recs), !.cursor = b.end[1], !.marker = b.end[2],
                          !.pos = @ + 1, !.changed = changed]
<1>3. Redo(e) = IF e.pos = Len(e.undo) THEN e ELSE f
  BY DEF Redo
<1>4. CASE e.pos = Len(e.undo)
  BY <1>3, <1>4
<1>5. CASE e.pos # Len(e.undo)
  <2>1. e.pos + 1 \in 1..Len(e.undo) /\ e.pos < Len(e.undo) /\ e.pos + 1 \in Nat /\ e.pos + 1 > 0
    BY <1>1, <1>2, <1>5
  <2>2. b \in Blocks /\ b.was = e.text
    BY <1>1, <2>1, BlockFacts DEF Good
  <2>3. /\ Replays(b.was, b.recs, b.now) /\ InText(b.now, b.end[1]) /\ InText(b.now, b.end[2])
        /\ b.now \in EdText /\ b.end[1] \in EdPoint /\ b.end[2] \in EdPoint
    BY <2>2 DEF Blocks, Within
  <2>4. AllRedone(e.text, b.recs) = b.now
    BY <2>2, <2>3, ReplaysRedone
  <2>5. changed \in BOOLEAN
    OBVIOUS
  <2> HIDE DEF b, changed
  <2>6. /\ f \in EdFields /\ f.text = b.now /\ f.cursor = b.end[1] /\ f.marker = b.end[2]
        /\ f.undo = e.undo /\ f.pos = e.pos + 1 /\ f.changed = changed
    BY <1>1, <2>1, <2>3, <2>4, <2>5 DEF EdFields
  <2> HIDE DEF f
  <2>7. f.undo[f.pos].now = f.text /\ f.pos <= Len(f.undo)
    BY <2>1, <2>6 DEF b
  <2>8. e.pos + 1 # Len(e.undo) =>
            e.undo[e.pos + 2].was = b.now /\ Exact(e.undo[e.pos + 2].changed, b.now, d, x)
    <3>1. ASSUME e.pos + 1 # Len(e.undo)
          PROVE  e.undo[e.pos + 2].was = b.now /\ Exact(e.undo[e.pos + 2].changed, b.now, d, x)
      <4>1. e.pos + 1 \in 1..Len(e.undo) - 1 /\ e.pos + 1 + 1 = e.pos + 2 /\ e.pos + 2 \in 1..Len(e.undo)
        BY <1>1, <1>2, <2>1, <3>1
      <4>2. e.undo[e.pos + 1].now = e.undo[e.pos + 1 + 1].was
        BY <4>1 DEF Good, Chained
      <4>3. Exact(e.undo[e.pos + 2].changed, e.undo[e.pos + 2].was, d, x)
        BY <4>1 DEF Good
      <4> QED  BY <4>1, <4>2, <4>3 DEF b
    <3> QED  BY <3>1
  <2>9. f.pos < Len(f.undo) => f.undo[f.pos + 1].was = f.text
    <3>1. ASSUME f.pos < Len(f.undo)
          PROVE  f.undo[f.pos + 1].was = f.text
      <4>1. e.pos + 1 # Len(e.undo) /\ f.pos + 1 = e.pos + 2
        BY <1>1, <1>2, <2>6, <3>1
      <4> QED  BY <2>6, <2>8, <4>1
    <3> QED  BY <3>1
  <2>10. Exact(changed, b.now, d, x)
    BY <2>8 DEF Exact, changed
  <2>11. Good(f, d, x)
    BY <2>3, <2>6, <2>7, <2>9, <2>10 DEF Good
  <2> QED  BY <1>3, <1>5, <2>11
<1> QED
  BY <1>4, <1>5

LEMMA PointOf ==
    ASSUME NEW t, NEW p \in Points(t)
    PROVE  \E l, k : p = Point(l, k)
<1> DEFINE greatest == Max({Len(t[l].s) : l \in DOMAIN t})
<1>1. p \in {Point(l, k) : l \in DOMAIN t, k \in 0..greatest}
  BY DEF Points
<1> HIDE DEF greatest
<1> QED
  BY <1>1

LEMMA MovedGood ==
    ASSUME NEW d, NEW x, Good(ed, d, x), NEW c \in Points(ed.text), NEW m \in Points(ed.text),
           InText(ed.text, c), InText(ed.text, m)
    PROVE  Good(Moved(c, m), d, x)
<1> DEFINE t == ed.text
           f == Moved(c, m)
<1>1. t \in EdText /\ ed \in EdFields
  BY DEF Good, EdFields
<1>2. ASSUME NEW p \in Points(t), InText(t, p)
      PROVE  p \in EdPoint
  <2>1. PICK l, k : p = Point(l, k)
    BY PointOf
  <2>2. p.line \in 1..Len(t) /\ p.pos \in 0..Len(t[p.line].s)
    BY <1>1, <1>2, TextFacts DEF InText
  <2>3. p.line \in Nat /\ p.pos \in Nat
    <3>1. PICK n \in Nat : n = Len(t[p.line].s)
      BY <1>1, <2>2, TextFacts
    <3>2. PICK a \in Nat : a = Len(t)
      BY <1>1, TextFacts
    <3>3. p.line \in 1..a /\ p.pos \in 0..n
      BY <2>2, <3>1, <3>2
    <3> QED  BY <3>3
  <2> QED  BY <2>1, <2>3 DEF Point, EdPoint
<1>3. c \in EdPoint /\ m \in EdPoint
  BY <1>2
<1>4. /\ f \in EdFields /\ f.text = ed.text /\ f.cursor = c /\ f.marker = m /\ f.undo = ed.undo
      /\ f.pos = ed.pos /\ f.changed = ed.changed
  BY <1>1, <1>3 DEF EdFields, Moved
<1> HIDE DEF f
<1>5. Good(f, d, x)
  BY <1>4 DEF Good
<1> QED
  BY <1>5 DEF f

-----------------------------------------------------------------------------
(***************************************************************************)
(* A file is loaded and saved.                                             *)
(***************************************************************************)
\* the k-th of a set of positions
NthOf(ends, k) == CHOOSE i \in ends : Cardinality({j \in ends : j <= i}) = k

LEMMA FiniteNumbers ==
    ASSUME NEW m \in Nat, NEW ends, ends \subseteq 1..m
    PROVE  IsFiniteSet(ends) /\ Cardinality(ends) \in Nat
<1>1. IsFiniteSet(1..m)
  <2>1. 1 \in Int /\ m \in Int
    OBVIOUS
  <2> QED  BY <2>1, FS_Interval
<1>2. ends \in SUBSET (1..m)
  OBVIOUS
<1>3. IsFiniteSet(ends)
  BY <1>1, <1>2, FS_Subset
<1> QED
  BY <1>3, FS_CardinalityType

LEMMA NthIs ==
    ASSUME NEW m \in Nat, NEW ends, ends \subseteq 1..m, NEW k \in 1..Cardinality(ends)
    PROVE  NthOf(ends, k) \in ends /\ Cardinality({j \in ends : j <= NthOf(ends, k)}) = k
<1> DEFINE upto(i) == {j \in ends : j <= i}
           C(i) == Cardinality(upto(i))
           set == {i \in 0..m : k <= C(i)}
<1>0. m \in Int /\ m \in 0..m /\ \A j \in ends : j \in Int /\ 1 <= j /\ j <= m
  OBVIOUS
<1>1. IsFiniteSet(ends) /\ Cardinality(ends) \in Nat
  BY FiniteNumbers
<1>2. \A i \in 0..m : IsFiniteSet(upto(i)) /\ C(i) \in Nat
  <2>1. ASSUME NEW i \in 0..m
        PROVE  IsFiniteSet(upto(i)) /\ C(i) \in Nat
    <3>1. upto(i) \in SUBSET ends
      OBVIOUS
    <3> QED  BY <1>1, <3>1, FS_Subset, FS_CardinalityType
  <2> QED  BY <2>1
<1>3. upto(0) = {} /\ C(0) = 0
  <2>1. \A j \in ends : ~(j <= 0)
    BY <1>0
  <2>2. upto(0) = {}
    BY <2>1
  <2> QED  BY <2>2, FS_EmptySet
<1>4. upto(m) = ends
  BY <1>0
<1>5. m \in set /\ set \subseteq Nat
  BY <1>1, <1>4
<1>6. PICK i \in set : \A j \in set : i <= j
  <2> HIDE DEF set
  <2> QED  BY <1>5, LeastNumber
<1>7. i \in 0..m /\ k <= C(i) /\ k \in Nat /\ k > 0
  BY <1>1, <1>6
<1>8. i # 0
  BY <1>3, <1>7
<1>9. i - 1 \in 0..m /\ ~(k <= C(i - 1))
  <2>1. i - 1 \in 0..m /\ ~(i <= i - 1)
    BY <1>7, <1>8
  <2> QED  BY <1>6, <2>1
<1> HIDE DEF set
<1>10. i \in ends
  <2> SUFFICES ASSUME i \notin ends
               PROVE  FALSE
    OBVIOUS
  <2>0. i \in Int
    BY <1>7
  <2>1. \A j \in ends : j <= i <=> j <= i - 1
    BY <1>0, <2>0
  <2>2. upto(i) = upto(i - 1)
    BY <2>1
  <2> QED  BY <1>7, <1>9, <2>2
<1>11. upto(i) = upto(i - 1) \cup {i} /\ i \notin upto(i - 1)
  <2>0. i \in Int
    BY <1>7
  <2>1. \A j \in ends : j <= i <=> j <= i - 1 \/ j = i
    BY <1>0, <2>0
  <2>2. ~(i <= i - 1) /\ i <= i
    BY <2>0
  <2> QED  BY <1>10, <2>1, <2>2
<1>12. C(i) = C(i - 1) + 1
  <2> HIDE DEF upto
  <2> QED  BY <1>2, <1>9, <1>11, FS_AddElement
<1>13. C(i) = k
  <2>1. C(i - 1) \in Nat /\ C(i) \in Nat
    BY <1>2, <1>7, <1>9
  <2> HIDE DEF C
  <2> QED  BY <1>7, <1>9, <1>12, <2>1
<1>14. NthOf(ends, k) \in ends /\ Cardinality({j \in ends : j <= NthOf(ends, k)}) = k
  BY <1>10, <1>13 DEF NthOf
<1> QED
  BY <1>14

\* They are in order.
LEMMA NthFollows ==
    ASSUME NEW m \in Nat, NEW ends, ends \subseteq 1..m, NEW k \in 1..Cardinality(ends) - 1
    PROVE  NthOf(ends, k) < NthOf(ends, k + 1)
<1>1. IsFiniteSet(ends) /\ Cardinality(ends) \in Nat
  BY FiniteNumbers
<1>2. k \in 1..Cardinality(ends) /\ k + 1 \in 1..Cardinality(ends)
  BY <1>1
<1>3. PICK a \in ends : a = NthOf(ends, k) /\ Cardinality({j \in ends : j <= a}) = k
  BY <1>2, NthIs
<1>4. PICK b \in ends : b = NthOf(ends, k + 1) /\ Cardinality({j \in ends : j <= b}) = k + 1
  BY <1>2, NthIs
<1>5. a \in Int /\ b \in Int
  OBVIOUS
<1> SUFFICES ASSUME b <= a
             PROVE  FALSE
  BY <1>3, <1>4, <1>5
<1> DEFINE A == {j \in ends : j <= a}
           B == {j \in ends : j <= b}
<1>6. B \in SUBSET A
  <2>1. \A j \in ends : j \in Int
    OBVIOUS
  <2>2. \A j \in ends : j <= b => j <= a
    BY <1>5, <2>1
  <2> QED  BY <2>2
<1>7. IsFiniteSet(A)
  <2>1. A \in SUBSET ends
    OBVIOUS
  <2> QED  BY <1>1, <2>1, FS_Subset
<1> HIDE DEF A, B
<1>8. Cardinality(B) <= Cardinality(A)
  BY <1>6, <1>7, FS_Subset
<1> QED
  BY <1>2, <1>3, <1>4, <1>8 DEF A, B

\* What is put together from pieces.
Gathers(g, seqs, n) == g[1] = seqs[1] /\ \A i \in 2..n : g[i] = g[i - 1] \o seqs[i]

LEMMA FlattenIs ==
    ASSUME NEW n \in Nat \ {0}, NEW seqs, Len(seqs) = n, NEW S, NEW g \in [1..n -> S],
           Gathers(g, seqs, n)
    PROVE  FlattenSeq(seqs) = g[n]
<1> DEFINE F(f) == [i \in 1..Len(seqs) |-> IF i = 1 THEN seqs[i] ELSE f[i - 1] \o seqs[i]]
           h == CHOOSE f : f = F(f)
<1>1. FlattenSeq(seqs) = h[n]
  BY DEF FlattenSeq
<1>2. g = F(g)
  <2>1. ASSUME NEW i \in 1..n
        PROVE  g[i] = IF i = 1 THEN seqs[i] ELSE g[i - 1] \o seqs[i]
    <3>1. i = 1 \/ i \in 2..n
      OBVIOUS
    <3>2. i \in 2..n => i # 1
      OBVIOUS
    <3> QED  BY <3>1, <3>2 DEF Gathers
  <2>2. g = [i \in 1..n |-> g[i]]
    OBVIOUS
  <2> QED  BY <2>1, <2>2
<1>3. h = F(h)
  BY <1>2
<1> HIDE DEF h
<1>4. h[1] = seqs[1] /\ \A i \in 2..n : h[i] = h[i - 1] \o seqs[i]
  <2>1. h = [i \in 1..n |-> IF i = 1 THEN seqs[i] ELSE h[i - 1] \o seqs[i]]
    BY <1>3
  <2>2. 1 \in 1..n /\ \A i \in 2..n : i \in 1..n /\ i # 1
    OBVIOUS
  <2>3. ASSUME NEW i \in 1..n
        PROVE  h[i] = IF i = 1 THEN seqs[i] ELSE h[i - 1] \o seqs[i]
    BY <2>1, Zenon
  <2> QED  BY <2>2, <2>3
<1> HIDE DEF F
<1> DEFINE a == [k \in 0..n - 1 |-> g[k + 1]]
           b == [k \in 0..n - 1 |-> h[k + 1]]
<1>5. a[0] = b[0]
  BY <1>4 DEF Gathers
<1>6. ASSUME NEW k \in 1..n - 1, a[k - 1] = b[k - 1]
      PROVE  a[k] = b[k]
  <2>1. k \in 0..n - 1 /\ k - 1 \in 0..n - 1 /\ k - 1 + 1 = k /\ k + 1 \in 2..n /\ k + 1 - 1 = k
    OBVIOUS
  <2>2. g[k] = h[k]
    BY <1>6, <2>1
  <2>3. g[k + 1] = h[k + 1]
    <3>1. PICK i \in 2..n : i = k + 1 /\ i - 1 = k
      BY <2>1
    <3>2. g[i] = g[i - 1] \o seqs[i] /\ h[i] = h[i - 1] \o seqs[i]
      BY <1>4 DEF Gathers
    <3> QED  BY <2>2, <3>1, <3>2
  <2> QED  BY <2>1, <2>3
<1>7. n - 1 \in Nat /\ a[n - 1] = g[n] /\ b[n - 1] = h[n]
  OBVIOUS
<1> HIDE DEF a, b
<1>8. a[n - 1] = b[n - 1]
  BY <1>5, <1>6, <1>7, EndsAlike
<1> QED
  BY <1>1, <1>7, <1>8

\* The lines of a file, by where they begin and where they end.
Ends(f) == {i \in DOMAIN f : f[i] = NewLine}
FirstOf(f, k) == IF k = 1 THEN 1 ELSE NthOf(Ends(f), k - 1) + 1
LastOf(f, k) == IF k = Cardinality(Ends(f)) + 1 THEN Len(f) ELSE NthOf(Ends(f), k)

LEMMA LinesOf ==
    ASSUME NEW f \in Seq(Letter)
    PROVE  /\ Cardinality(Ends(f)) \in Nat /\ Len(f) \in Nat
           /\ FirstOf(f, 1) = 1 /\ LastOf(f, Cardinality(Ends(f)) + 1) = Len(f)
           /\ \A k \in 1..Cardinality(Ends(f)) + 1 :
                /\ FirstOf(f, k) \in 1..Len(f) + 1 /\ LastOf(f, k) \in FirstOf(f, k) - 1..Len(f)
                /\ k > 1 => FirstOf(f, k) = LastOf(f, k - 1) + 1
           /\ \A k \in 1..Cardinality(Ends(f)) :
                /\ LastOf(f, k) = NthOf(Ends(f), k) /\ LastOf(f, k) \in 1..Len(f)
                /\ f[LastOf(f, k)] = NewLine /\ FirstOf(f, k) <= LastOf(f, k)
<1>1. Len(f) \in Nat /\ DOMAIN f = 1..Len(f)
  BY LenProperties
<1>2. Ends(f) \subseteq 1..Len(f) /\ \A i \in Ends(f) : f[i] = NewLine
  BY <1>1 DEF Ends
<1>3. Cardinality(Ends(f)) \in Nat
  BY <1>1, <1>2, FiniteNumbers
<1> DEFINE n == Cardinality(Ends(f))
           nth(k) == NthOf(Ends(f), k)
<1>4. \A k \in 1..n : nth(k) \in Ends(f)
  BY <1>1, <1>2, NthIs
<1>5. \A k \in 1..n : nth(k) \in 1..Len(f) /\ f[nth(k)] = NewLine
  BY <1>2, <1>4
<1>6. \A k \in 1..n - 1 : nth(k) < nth(k + 1)
  BY <1>1, <1>2, NthFollows
<1>7. FirstOf(f, 1) = 1 /\ LastOf(f, n + 1) = Len(f)
  BY DEF FirstOf, LastOf
<1>8. \A k \in 1..n : LastOf(f, k) = nth(k)
  <2>1. \A k \in 1..n : k # n + 1
    BY <1>3
  <2> QED  BY <2>1 DEF LastOf
<1>9. \A k \in 1..n + 1 : k > 1 => FirstOf(f, k) = nth(k - 1) + 1 /\ k - 1 \in 1..n
  <2>1. \A k \in 1..n + 1 : k > 1 => k # 1 /\ k - 1 \in 1..n
    BY <1>3
  <2> QED  BY <2>1 DEF FirstOf
<1> HIDE DEF n, nth
<1>10. ASSUME NEW k \in 1..n
       PROVE  FirstOf(f, k) <= nth(k)
  <2>1. CASE k = 1
    <3>1. nth(k) \in 1..Len(f)
      BY <1>5
    <3> QED  BY <1>1, <1>7, <2>1, <3>1
  <2>2. CASE k # 1
    <3>1. k > 1 /\ k \in 1..n + 1
      BY <1>3, <2>2 DEF n
    <3>2. PICK j \in 1..n - 1 : k = j + 1
      <4>1. k - 1 \in 1..n - 1 /\ k = k - 1 + 1
        BY <1>3, <2>2 DEF n
      <4> QED  BY <4>1
    <3>3. nth(j) < nth(k)
      BY <1>6, <3>2
    <3>4. FirstOf(f, k) = nth(j) + 1
      <4>1. k - 1 = j
        BY <3>2
      <4> QED  BY <1>9, <3>1, <4>1
    <3>5. nth(j) \in Int /\ nth(k) \in Int
      <4>1. j \in 1..n
        BY <1>3, <3>2 DEF n
      <4>2. nth(j) \in 1..Len(f) /\ nth(k) \in 1..Len(f)
        BY <1>5, <4>1
      <4> QED  BY <4>2
    <3> QED  BY <3>3, <3>4, <3>5
  <2> QED  BY <2>1, <2>2
<1>11. ASSUME NEW k \in 1..n + 1
       PROVE  /\ FirstOf(f, k) \in 1..Len(f) + 1
              /\ k > 1 => FirstOf(f, k) = LastOf(f, k - 1) + 1
  <2>1. CASE k = 1
    BY <1>1, <1>7, <2>1
  <2>2. CASE k # 1
    <3>1. k > 1
      BY <1>3, <2>2 DEF n
    <3>2. PICK j \in 1..n : j = k - 1 /\ FirstOf(f, k) = nth(j) + 1
      BY <1>9, <3>1
    <3>3. nth(j) \in 1..Len(f) /\ LastOf(f, j) = nth(j)
      BY <1>5, <1>8
    <3>4. nth(j) + 1 \in 1..Len(f) + 1
      BY <1>1, <3>3
    <3> QED  BY <3>2, <3>3, <3>4
  <2> QED  BY <2>1, <2>2
<1>12. ASSUME NEW k \in 1..n + 1
       PROVE  LastOf(f, k) \in FirstOf(f, k) - 1..Len(f)
  <2>1. FirstOf(f, k) \in 1..Len(f) + 1
    BY <1>11
  <2>2. CASE k = n + 1
    BY <1>1, <1>7, <2>1, <2>2
  <2>3. CASE k # n + 1
    <3>1. k \in 1..n
      BY <1>3, <2>3 DEF n
    <3>2. LastOf(f, k) = nth(k) /\ FirstOf(f, k) <= nth(k) /\ nth(k) \in 1..Len(f)
      BY <1>5, <1>8, <1>10, <3>1
    <3> QED  BY <1>1, <2>1, <3>2
  <2> QED  BY <2>2, <2>3
<1>13. ASSUME NEW k \in 1..n
       PROVE  /\ LastOf(f, k) = nth(k) /\ LastOf(f, k) \in 1..Len(f)
              /\ f[LastOf(f, k)] = NewLine /\ FirstOf(f, k) <= LastOf(f, k)
  BY <1>5, <1>8, <1>10
<1> QED
  BY <1>1, <1>3, <1>7, <1>11, <1>12, <1>13 DEF n, nth

\* A line without its return, and what is written of it.
LEMMA StrippedIs ==
    ASSUME NEW s \in Seq(Letter)
    PROVE  /\ Stripped(s) \in EdLine
           /\ Stripped(s).s \o (IF Stripped(s).cr THEN <<Return, NewLine>> ELSE <<NewLine>>) = s \o <<NewLine>>
<1>1. Len(s) \in Nat /\ (s = <<>> <=> Len(s) = 0) /\ <<Return>> \in Seq(Letter) /\ <<NewLine>> \in Seq(Letter)
  BY LenProperties, EmptySeq DEF Letter, Return, NewLine
<1>2. CASE s # <<>> /\ Last(s) = Return
  <2>1. Len(s) \in 1..Len(s) /\ 1 \in 1..Len(s)
    BY <1>1, <1>2
  <2>2. SubSeq(s, 1, Len(s)) = SubSeq(s, 1, Len(s) - 1) \o <<s[Len(s)]>>
    BY <2>1, SubSeqRecursiveSecond
  <2>3. s = Front(s) \o <<Return>>
    BY <1>2, <2>2, SubSeqFull DEF Front, Last
  <2>4. Front(s) \in Seq(Letter)
    <3>1. PICK n \in 0..Len(s) : n = Len(s) - 1
      BY <1>1, <2>1, SMTT(30)
    <3>2. Front(s) = Take(s, n)
      BY <3>1 DEF Front, Take
    <3> QED  BY <3>2, TakeIs
  <2>5. <<Return>> \o <<NewLine>> = <<Return, NewLine>>
    <3> DEFINE two == <<Return>> \o <<NewLine>>
               both == <<Return, NewLine>>
    <3>1. both \in Seq(Letter) /\ Len(both) = 2 /\ both[1] = Return /\ both[2] = NewLine
      BY <1>1 DEF Letter, Return, NewLine
    <3>2. two \in Seq(Letter) /\ Len(two) = 2 /\ two[1] = Return /\ two[2] = NewLine
      BY <1>1, ConcatProperties
    <3> HIDE DEF two, both
    <3>3. \A i \in 1..Len(two) : two[i] = both[i]
      <4>1. \A i \in 1..2 : i = 1 \/ i = 2
        OBVIOUS
      <4> QED  BY <3>1, <3>2, <4>1
    <3>4. two = both
      BY <3>1, <3>2, <3>3, SeqEqual
    <3> QED  BY <3>4 DEF two, both
  <2>6. s \o <<NewLine>> = Front(s) \o (<<Return>> \o <<NewLine>>)
    BY <1>1, <2>3, <2>4, ConcatAssociative
  <2>7. Stripped(s) = [s |-> Front(s), cr |-> TRUE]
    BY <1>2 DEF Stripped, Line
  <2>8. Stripped(s) \in EdLine /\ Stripped(s).s = Front(s) /\ Stripped(s).cr = TRUE
    BY <2>4, <2>7 DEF EdLine
  <2> QED  BY <2>5, <2>6, <2>8
<1>3. CASE ~(s # <<>> /\ Last(s) = Return)
  <2>1. Stripped(s) = [s |-> s, cr |-> FALSE]
    BY <1>3 DEF Stripped, Line
  <2> QED  BY <2>1 DEF EdLine
<1> QED
  BY <1>2, <1>3

\* What Load makes of a file.
LoadedLine(f, k) == Stripped(SubSeq(f, FirstOf(f, k), LastOf(f, k) - 1))
LastLine(f) == SubSeq(f, FirstOf(f, Cardinality(Ends(f)) + 1), Len(f))

LEMMA LoadIs ==
    ASSUME NEW f \in Seq(Letter)
    PROVE  LET n == Cardinality(Ends(f))
           IN  /\ Load(f) \in EdText /\ Len(Load(f)) = n + 1 /\ n \in Nat
               /\ \A k \in 1..n : Load(f)[k] = LoadedLine(f, k) /\ LoadedLine(f, k) \in EdLine
               /\ Load(f)[n + 1].s = LastLine(f) /\ LastLine(f) \in Seq(Letter)
<1> DEFINE n == Cardinality(Ends(f))
           ends == {i \in DOMAIN f : f[i] = NewLine}
           Nth(k) == CHOOSE i \in ends : Cardinality({j \in ends : j <= i}) = k
           Begin(k) == IF k = 1 THEN 1 ELSE Nth(k - 1) + 1
           rest == SubSeq(f, Begin(Cardinality(ends) + 1), Len(f))
           full == [k \in 1..Cardinality(ends) |-> Stripped(SubSeq(f, Begin(k), Nth(k) - 1))]
           last == Line(rest, Cardinality(ends) > 0 /\ rest = <<>> /\ Last(full).cr)
<1>1. Load(f) = Append(full, last)
  BY DEF Load
<1>2. ends = Ends(f) /\ \A k : Nth(k) = NthOf(Ends(f), k)
  BY DEF Ends, NthOf
<1> HIDE DEF ends, Nth
<1>3. \A k : Begin(k) = FirstOf(f, k)
  BY <1>2 DEF FirstOf
<1>4. n \in Nat /\ Len(f) \in Nat /\ \A k \in 1..n : Nth(k) = LastOf(f, k)
  BY <1>2, LinesOf
<1> HIDE DEF Begin
<1>5. rest = LastLine(f)
  BY <1>2, <1>3 DEF LastLine
<1>6. full = [k \in 1..n |-> LoadedLine(f, k)]
  BY <1>2, <1>3, <1>4 DEF LoadedLine
<1>7. \A i \in 1..Len(f) : f[i] \in Letter
  BY <1>4, ElementOfSeq
<1>8. ASSUME NEW k \in 1..n
      PROVE  LoadedLine(f, k) \in EdLine
  <2>1. k \in 1..n + 1
    BY <1>4
  <2>2. PICK a \in 1..Len(f) + 1 : a = FirstOf(f, k)
    BY <2>1, LinesOf
  <2>3. PICK z \in 1..Len(f) : z = LastOf(f, k)
    BY LinesOf
  <2>4. a \in Int /\ z - 1 \in Int /\ \A i \in a..z - 1 : i \in 1..Len(f)
    BY <1>4
  <2>5. \A i \in a..z - 1 : f[i] \in Letter
    BY <1>7, <2>4
  <2>6. SubSeq(f, a, z - 1) \in Seq(Letter)
    BY <2>4, <2>5, SubSeqProperties
  <2>7. Stripped(SubSeq(f, a, z - 1)) \in EdLine
    BY <2>6, StrippedIs
  <2> QED  BY <2>2, <2>3, <2>7 DEF LoadedLine
<1> HIDE DEF full
<1>9. full \in EdText /\ Len(full) = n /\ \A k \in 1..n : full[k] = LoadedLine(f, k)
  <2>1. full \in [1..n -> EdLine]
    BY <1>6, <1>8
  <2>2. full \in Seq(EdLine)
    BY <1>4, <2>1
  <2>3. Len(full) = n
    BY <1>4, <2>1, <2>2, LenProperties
  <2> QED  BY <1>6, <2>2, <2>3 DEF EdText
<1>10. LastLine(f) \in Seq(Letter)
  <2>1. n + 1 \in 1..n + 1
    BY <1>4
  <2>2. PICK a \in 1..Len(f) + 1 : a = FirstOf(f, n + 1)
    BY <2>1, LinesOf
  <2>3. a \in Int /\ Len(f) \in Int /\ \A i \in a..Len(f) : i \in 1..Len(f)
    BY <1>4
  <2>4. \A i \in a..Len(f) : f[i] \in Letter
    BY <1>7, <2>3
  <2> QED  BY <2>2, <2>3, <2>4, SubSeqProperties DEF LastLine
<1>11. last \in EdLine /\ last.s = LastLine(f)
  BY <1>5, <1>10 DEF Line, EdLine
<1> HIDE DEF last
<1>12. /\ Load(f) \in EdText /\ Len(Load(f)) = n + 1
       /\ \A i \in 1..n : Load(f)[i] = full[i]
       /\ Load(f)[n + 1] = last
  BY <1>1, <1>9, <1>11, AppendProperties DEF EdText
<1> QED
  BY <1>4, <1>8, <1>9, <1>10, <1>11, <1>12

\* What is written of a file that has only been loaded.
LEMMA SavedSame ==
    ASSUME NEW f \in Seq(Letter)
    PROVE  Save(Load(f)) = f
<1> DEFINE n == Cardinality(Ends(f))
           t == Load(f)
           Eol(i) == IF i = Len(t) THEN <<>> ELSE IF t[i].cr THEN <<Return, NewLine>> ELSE <<NewLine>>
           seqs == [i \in DOMAIN t |-> t[i].s \o Eol(i)]
           g == [i \in 1..n + 1 |-> SubSeq(f, 1, LastOf(f, i))]
<1>1. Save(t) = FlattenSeq(seqs)
  BY DEF Save
<1>2. /\ t \in EdText /\ Len(t) = n + 1 /\ n \in Nat
      /\ \A k \in 1..n : t[k] = LoadedLine(f, k) /\ LoadedLine(f, k) \in EdLine
      /\ t[n + 1].s = LastLine(f) /\ LastLine(f) \in Seq(Letter)
  BY LoadIs
<1>3. Len(f) \in Nat /\ DOMAIN t = 1..n + 1
  BY <1>2, LenProperties DEF EdText
<1> HIDE DEF n, t
<1>4. ASSUME NEW k \in 1..n
      PROVE  seqs[k] = SubSeq(f, FirstOf(f, k), LastOf(f, k))
  <2>1. k \in 1..n + 1 /\ k # n + 1
    BY <1>2
  <2>2. PICK a \in 1..Len(f) + 1 : a = FirstOf(f, k)
    BY <2>1, LinesOf DEF n
  <2>3. PICK z \in 1..Len(f) : z = LastOf(f, k) /\ f[z] = NewLine /\ a <= z
    BY <2>2, LinesOf DEF n
  <2>4. a \in 1..Len(f) /\ z \in a..Len(f) /\ a \in Int /\ z - 1 \in Int
    BY <1>3, <2>3
  <2> DEFINE p == SubSeq(f, a, z - 1)
  <2>5. SubSeq(f, a, z) = p \o <<NewLine>>
    BY <2>3, <2>4, SubSeqRecursiveSecond
  <2>6. p \in Seq(Letter)
    <3>1. \A i \in a..z - 1 : i \in 1..Len(f)
      BY <1>3
    <3>2. \A i \in a..z - 1 : f[i] \in Letter
      BY <3>1, ElementOfSeq
    <3> QED  BY <2>4, <3>2, SubSeqProperties
  <2>7. LoadedLine(f, k) = Stripped(p)
    BY <2>2, <2>3 DEF LoadedLine
  <2> HIDE DEF p
  <2>8. t[k] = Stripped(p)
    BY <1>2, <2>7
  <2>9. seqs[k] = t[k].s \o (IF t[k].cr THEN <<Return, NewLine>> ELSE <<NewLine>>)
    BY <1>2, <1>3, <2>1
  <2>10. seqs[k] = p \o <<NewLine>>
    <3> HIDE DEF seqs
    <3> QED  BY <2>6, <2>8, <2>9, StrippedIs
  <2> QED  BY <2>2, <2>3, <2>5, <2>10
<1>5. seqs[n + 1] = SubSeq(f, FirstOf(f, n + 1), LastOf(f, n + 1))
  <2>1. seqs[n + 1] = t[n + 1].s \o <<>>
    BY <1>2, <1>3
  <2>2. seqs[n + 1] = LastLine(f)
    <3> HIDE DEF seqs
    <3> QED  BY <1>2, <2>1, ConcatEmptySeq
  <2> QED  BY <2>2, LinesOf DEF LastLine, n
<1>6. Len(seqs) = n + 1
  BY <1>2, <1>3
<1> HIDE DEF seqs
<1>7. \A i \in 1..n + 1 : seqs[i] = SubSeq(f, FirstOf(f, i), LastOf(f, i))
  <2>1. \A i \in 1..n + 1 : i \in 1..n \/ i = n + 1
    BY <1>2
  <2> QED  BY <1>4, <1>5, <2>1
<1>8. g[1] = seqs[1]
  <2>1. 1 \in 1..n + 1 /\ FirstOf(f, 1) = 1
    BY <1>2, LinesOf
  <2> QED  BY <1>7, <2>1
<1>9. ASSUME NEW i \in 2..n + 1
      PROVE  g[i] = g[i - 1] \o seqs[i]
  <2>1. i \in 1..n + 1 /\ i > 1 /\ i - 1 \in 1..n /\ i - 1 \in 1..n + 1
    BY <1>2
  <2>2. PICK a \in 1..Len(f) + 1 : a = FirstOf(f, i) /\ LastOf(f, i) \in a - 1..Len(f)
                                  /\ a = LastOf(f, i - 1) + 1
    BY <2>1, LinesOf DEF n
  <2>3. PICK k \in 1..Len(f) : k = LastOf(f, i - 1)
    BY <2>1, LinesOf DEF n
  <2>4. PICK z \in a - 1..Len(f) : z = LastOf(f, i)
    BY <2>2
  <2>5. k + 1 = a /\ z \in k..Len(f) /\ 1 \in 1..Len(f) + 1 /\ k \in 1 - 1..Len(f)
    BY <1>3, <2>2, <2>3, <2>4
  <2>6. SubSeq(f, 1, k) \o SubSeq(f, k + 1, z) = SubSeq(f, 1, z)
    BY <2>5, ConcatAdjacentSubSeq
  <2>7. seqs[i] = SubSeq(f, k + 1, z)
    BY <1>7, <2>1, <2>2, <2>4, <2>5
  <2>8. g[i] = SubSeq(f, 1, z) /\ g[i - 1] = SubSeq(f, 1, k)
    BY <2>1, <2>3, <2>4
  <2> QED  BY <2>6, <2>7, <2>8
<1> DEFINE S == {SubSeq(f, 1, LastOf(f, i)) : i \in 1..n + 1}
<1>10. g \in [1..n + 1 -> S]
  OBVIOUS
<1> HIDE DEF S
<1>11. g[n + 1] = f
  <2>1. n + 1 \in 1..n + 1
    BY <1>2
  <2>2. LastOf(f, n + 1) = Len(f)
    BY LinesOf DEF n
  <2> QED  BY <2>1, <2>2, SubSeqFull
<1> HIDE DEF g
<1>12. FlattenSeq(seqs) = g[n + 1]
  <2>1. PICK m \in Nat \ {0} : m = n + 1
    BY <1>2
  <2>2. Gathers(g, seqs, m)
    BY <1>8, <1>9, <2>1 DEF Gathers
  <2>3. g \in [1..m -> S] /\ Len(seqs) = m
    BY <1>6, <1>10, <2>1
  <2>4. FlattenSeq(seqs) = g[m]
    BY <2>2, <2>3, FlattenIs
  <2> QED  BY <2>1, <2>4
<1> QED
  BY <1>1, <1>11, <1>12 DEF t

LEMMA FreshGood ==
    ASSUME NEW x, NEW f \in Seq(Letter)
    PROVE  Good(Fresh(f), f, x)
<1>1. PICK t \in EdText : t = Load(f)
  BY LoadIs
<1>2. 1 \in 1..Len(t)
  <2>1. Len(t) = Cardinality(Ends(f)) + 1 /\ Cardinality(Ends(f)) \in Nat
    BY <1>1, LoadIs
  <2> QED  BY <2>1
<1>3. 0 \in 0..Len(t[1].s)
  BY <1>2, TextFacts
<1>4. Point(1, 0) \in EdPoint /\ InText(t, Point(1, 0))
  BY <1>2, <1>3, InTextIs
<1>5. Save(t) = f
  BY <1>1, SavedSame
<1> DEFINE e == Fresh(f)
<1>6. e = [text |-> t, cursor |-> Point(1, 0), marker |-> Point(1, 0), undo |-> <<>>, pos |-> 0,
           changed |-> FALSE]
  BY <1>1 DEF Fresh
<1> HIDE DEF e
<1>7. e \in EdFields /\ e.text = t /\ e.cursor = Point(1, 0) /\ e.marker = Point(1, 0)
      /\ e.undo = <<>> /\ e.pos = 0 /\ Len(e.undo) = 0
  BY <1>4, <1>6 DEF EdFields
<1>8. Chained(e.undo) /\ \A i \in 1..Len(e.undo) : Exact(e.undo[i].changed, e.undo[i].was, f, x)
  <2>1. 1..Len(e.undo) = {} /\ 1..Len(e.undo) - 1 = {}
    BY <1>7
  <2> QED  BY <2>1 DEF Chained
<1>9. Exact(e.changed, e.text, f, x)
  BY <1>5, <1>7 DEF Exact
<1>10. Good(e, f, x)
  BY <1>4, <1>7, <1>8, <1>9 DEF Good
<1> QED
  BY <1>10 DEF e

LEMMA KeyGood ==
    ASSUME WordDelete = FALSE, NEW x, NEW e, Good(e, disk, x), EditKey(e)
    PROVE  Good(ed', disk', x) /\ UNCHANGED disk
<1>1. CASE \E c \in EdChar : Key(InsChar(e, c))
  BY <1>1, InsCharGood DEF Key
<1>2. CASE Key(Enter(e))
  BY <1>2, EnterGood DEF Key
<1>3. CASE \E word \in {FALSE, WordDelete} : Key(Del(e, word))
  <2>1. Key(Del(e, FALSE))
    BY <1>3
  <2> QED  BY <2>1, DelGood DEF Key
<1>4. CASE \E word \in BOOLEAN : Key(Backspace(e, word))
  BY <1>4, BackspaceGood DEF Key
<1>5. CASE Key(DeleteLine(e))
  BY <1>5, DeleteLineGood DEF Key
<1>6. CASE \E clip \in EdClips : Key(FromClipboard(e, clip))
  BY <1>6, FromClipboardGood DEF Key
<1> QED
  BY <1>1, <1>2, <1>3, <1>4, <1>5, <1>6 DEF EditKey

EdInv == Good(ed, disk, TRUE)

LEMMA EditStart == EditInit => EdInv
<1>1. <<>> \in Seq(Letter)
  OBVIOUS
<1> QED
  BY <1>1, FreshGood DEF EditInit, EdInv

LEMMA LoadFileGood ==
    ASSUME NEW x, LoadFile
    PROVE  Good(ed', disk', x)
<1>1. disk' \in Seq(Letter)
  BY EditAssumption DEF LoadFile, Letter
<1> QED
  BY <1>1, FreshGood DEF LoadFile

LEMMA EditStep ==
    ASSUME WordDelete = FALSE, EdInv, [EditNext]_editVars
    PROVE  EdInv'
<1>1. CASE \E c, m \in Points(ed.text) :
               InText(ed.text, c) /\ InText(ed.text, m) /\ EditKey(Moved(c, m))
  <2>1. PICK c \in Points(ed.text), m \in Points(ed.text) :
            InText(ed.text, c) /\ InText(ed.text, m) /\ EditKey(Moved(c, m))
    BY <1>1
  <2>2. Good(Moved(c, m), disk, TRUE)
    BY <2>1, MovedGood DEF EdInv
  <2>3. Good(ed', disk', TRUE)
    BY <2>1, <2>2, KeyGood
  <2> QED  BY <2>3 DEF EdInv
<1>2. CASE Key(Undo(ed))
  BY <1>2, UndoGood DEF Key, EdInv
<1>3. CASE Key(Redo(ed))
  BY <1>3, RedoGood DEF Key, EdInv
<1>4. CASE LoadFile
  BY <1>4, LoadFileGood DEF EdInv
<1>5. CASE UNCHANGED editVars
  BY <1>5 DEF editVars, EdInv
<1> QED
  BY <1>1, <1>2, <1>3, <1>4, <1>5 DEF EditNext

LEMMA EdInvUndo == EdInv => UndoExact
<1> SUFFICES ASSUME EdInv
             PROVE  UndoExact
  OBVIOUS
<1>1. /\ ed.undo \in Seq(Blocks) /\ Len(ed.undo) \in Nat /\ DOMAIN ed.undo = 1..Len(ed.undo)
      /\ Chained(ed.undo)
  <2>1. ed.undo \in Seq(Blocks) /\ Chained(ed.undo)
    BY DEF EdInv, Good, EdFields
  <2> QED  BY <2>1, BlockFacts
<1>2. ASSUME NEW i \in DOMAIN ed.undo
      PROVE  /\ AllUndone(ed.undo[i].now, ed.undo[i].recs) = ed.undo[i].was
             /\ AllRedone(ed.undo[i].was, ed.undo[i].recs) = ed.undo[i].now
             /\ i < Len(ed.undo) => ed.undo[i].now = ed.undo[i + 1].was
  <2>1. ed.undo[i] \in Blocks
    BY <1>1, BlockFacts
  <2>2. Replays(ed.undo[i].was, ed.undo[i].recs, ed.undo[i].now)
    BY <2>1 DEF Blocks
  <2>3. i < Len(ed.undo) => i \in 1..Len(ed.undo) - 1
    BY <1>1
  <2> QED  BY <1>1, <2>2, <2>3, ReplaysUndone, ReplaysRedone DEF Chained
<1>3. /\ ed.pos > 0 => ed.text = ed.undo[ed.pos].now
      /\ ed.pos < Len(ed.undo) => ed.text = ed.undo[ed.pos + 1].was
      /\ InText(ed.text, ed.cursor) /\ InText(ed.text, ed.marker)
  BY DEF EdInv, Good
<1> QED
  BY <1>2, <1>3 DEF UndoExact

(***************************************************************************)
(* Undo and redo are exact, whatever the files, the clipboards and the     *)
(* length of the list, and a text that is not marked as changed is what    *)
(* the file holds.  Words are not deleted with Ctrl+Del: what it notes may *)
(* be longer than the line (EditList::Del), and then undo is not exact.    *)
(***************************************************************************)
THEOREM UndoesExactly ==
    ASSUME WordDelete = FALSE
    PROVE  EditSpec => [](UndoExact /\ ChangeMarked)
<1>1. EditInit => EdInv
  BY EditStart
<1>2. EdInv /\ [EditNext]_editVars => EdInv'
  BY EditStep
<1>3. EdInv => UndoExact /\ ChangeMarked
  BY EdInvUndo DEF EdInv, Good, Exact, ChangeMarked
<1> QED
  BY <1>1, <1>2, <1>3, PTL DEF EditSpec

-----------------------------------------------------------------------------
(***************************************************************************)
(* EditSession: the text and the file through saves and exits, and the     *)
(* window that shows it.                                                   *)
(***************************************************************************)
Saved == gaps \cap {"not saved", "history kept"} = {}
Shown ==
    /\ mode \in {"panel", "edit", "view", "terminal", "quit"}
    /\ background \in {"none", "editor", "viewer"}
    /\ mode = "edit" /\ ~asked /\ "exit cancelled" \notin gaps => background = "editor"
    /\ mode = "view" => background = "viewer"
SessionInv == Good(ed, disk, Saved) /\ Shown /\ UnsavedKept

\* What is not said of the file holds of any file.
LEMMA GoodNotSaved ==
    ASSUME NEW d, NEW c, NEW x, NEW y, NEW e, Good(e, d, x), ~y
    PROVE  Good(e, c, y)
<1>1. \A changed, t : Exact(changed, t, c, y)
  BY DEF Exact
<1> QED
  BY <1>1 DEF Good

LEMMA SmallerGood ==
    ASSUME NEW d, NEW x, NEW y, NEW e, Good(e, d, x), y => x
    PROVE  Good(e, d, y)
<1>1. \A changed, t : Exact(changed, t, d, x) => Exact(changed, t, d, y)
  BY DEF Exact
<1> QED
  BY <1>1 DEF Good

LEMMA ForgottenGood ==
    ASSUME NEW d, NEW x, Good(ed, d, x), NEW clear \in BOOLEAN
    PROVE  /\ Good(Forgotten(clear), d, x) /\ Forgotten(clear).text = ed.text
           /\ clear => Forgotten(clear).undo = <<>> /\ Forgotten(clear).pos = 0
           /\ ~clear => Forgotten(clear) = ed
           /\ Forgotten(clear).changed = ed.changed
<1> DEFINE f == [ed EXCEPT !.undo = <<>>, !.pos = 0]
<1>1. ed \in EdFields
  BY DEF Good
<1>2. /\ f \in EdFields /\ f.text = ed.text /\ f.cursor = ed.cursor /\ f.marker = ed.marker
      /\ f.undo = <<>> /\ f.pos = 0 /\ f.changed = ed.changed /\ Len(f.undo) = 0
  <2>1. PICK none \in Seq(Blocks) : none = <<>> /\ Len(none) = 0
    BY EmptySeq
  <2> DEFINE g == [ed EXCEPT !.undo = none]
  <2>2. /\ g \in EdFields /\ g.text = ed.text /\ g.cursor = ed.cursor /\ g.marker = ed.marker
        /\ g.undo = none /\ g.changed = ed.changed
    BY <1>1 DEF EdFields
  <2> HIDE DEF g
  <2>3. f = [g EXCEPT !.pos = 0]
    BY <2>1 DEF g
  <2>4. /\ f \in EdFields /\ f.text = g.text /\ f.cursor = g.cursor /\ f.marker = g.marker
        /\ f.undo = g.undo /\ f.pos = 0 /\ f.changed = g.changed
    BY <2>2, <2>3 DEF EdFields
  <2> QED  BY <2>1, <2>2, <2>4
<1> HIDE DEF f
<1>3. Chained(f.undo) /\ \A i \in 1..Len(f.undo) : Exact(f.undo[i].changed, f.undo[i].was, d, x)
  <2>1. 1..Len(f.undo) = {} /\ 1..Len(f.undo) - 1 = {}
    BY <1>2
  <2> QED  BY <2>1 DEF Chained
<1>4. Good(f, d, x)
  BY <1>2, <1>3 DEF Good
<1>5. CASE clear
  <2>1. Forgotten(clear) = f
    BY <1>5 DEF Forgotten, f
  <2> QED  BY <1>2, <1>4, <1>5, <2>1
<1>6. CASE ~clear
  <2>1. Forgotten(clear) = ed
    BY <1>6 DEF Forgotten
  <2> QED  BY <1>6, <2>1
<1> QED
  BY <1>5, <1>6

\* A text that has just been written.
LEMMA WrittenGood ==
    ASSUME NEW d, NEW x, NEW e, Good(e, d, x), NEW y, y => e.undo = <<>>
    PROVE  Good([e EXCEPT !.changed = FALSE], Save(e.text), y)
<1> DEFINE f == [e EXCEPT !.changed = FALSE]
<1>1. e \in EdFields
  BY DEF Good
<1>2. /\ f \in EdFields /\ f.text = e.text /\ f.cursor = e.cursor /\ f.marker = e.marker
      /\ f.undo = e.undo /\ f.pos = e.pos
  BY <1>1 DEF EdFields
<1> HIDE DEF f
<1>3. ASSUME NEW i \in 1..Len(f.undo)
      PROVE  Exact(f.undo[i].changed, f.undo[i].was, Save(e.text), y)
  <2>1. CASE y
    <3>1. f.undo = <<>>
      BY <1>2, <2>1
    <3>2. 1..Len(f.undo) = {}
      BY <3>1
    <3> QED  BY <3>2
  <2>2. CASE ~y
    BY <2>2 DEF Exact
  <2> QED  BY <2>1, <2>2
<1>4. Exact(f.changed, f.text, Save(e.text), y)
  BY <1>2 DEF Exact
<1>5. Good(f, Save(e.text), y)
  BY <1>2, <1>3, <1>4 DEF Good
<1> QED
  BY <1>5 DEF f

\* EditSave, whether or not the file is written.
LEMMA SavesGood ==
    ASSUME Good(ed, disk, Saved), Saves
    PROVE  /\ Good(ed', disk', Saved')
           /\ gaps \subseteq gaps'
           /\ "exit cancelled" \in gaps' => "exit cancelled" \in gaps
           /\ ~ed'.changed \/ "not saved" \in gaps'
<1>1. PICK clear \in BOOLEAN :
        \/ /\ disk' = Save(ed.text)
           /\ ed' = [Forgotten(clear) EXCEPT !.changed = FALSE]
           /\ gaps' = IF clear \/ ed.undo = <<>> THEN gaps ELSE gaps \cup {"history kept"}
        \/ /\ ed' = Forgotten(clear)
           /\ gaps' = gaps \cup {"not saved"}
  BY DEF Saves
<1> DEFINE e == Forgotten(clear)
<1>2. /\ Good(e, disk, Saved) /\ e.text = ed.text /\ (clear => e.undo = <<>>) /\ (~clear => e = ed)
      /\ e \in EdFields
  BY ForgottenGood DEF Good
<1> HIDE DEF e
<1>3. CASE /\ disk' = Save(ed.text) /\ ed' = [e EXCEPT !.changed = FALSE]
           /\ gaps' = IF clear \/ ed.undo = <<>> THEN gaps ELSE gaps \cup {"history kept"}
  <2>1. Saved' => e.undo = <<>>
    BY <1>2, <1>3 DEF Saved
  <2>2. Good([e EXCEPT !.changed = FALSE], Save(e.text), Saved')
    BY <1>2, <2>1, WrittenGood
  <2>3. Good(ed', disk', Saved')
    BY <1>2, <1>3, <2>2
  <2>4. ~ed'.changed
    BY <1>2, <1>3 DEF EdFields
  <2> QED  BY <1>3, <2>3, <2>4
<1>4. CASE ed' = e /\ gaps' = gaps \cup {"not saved"}
  <2>1. ~Saved'
    BY <1>4 DEF Saved
  <2>2. Good(e, disk', Saved')
    BY <1>2, <2>1, GoodNotSaved
  <2> QED  BY <1>4, <2>2
<1> QED
  BY <1>1, <1>3, <1>4 DEF e

LEMMA SessionStart == EditInit /\ SessionInit => SessionInv
<1> SUFFICES ASSUME EditInit, SessionInit
             PROVE  SessionInv
  OBVIOUS
<1>1. <<>> \in Seq(Letter)
  OBVIOUS
<1>2. Good(ed, disk, Saved)
  BY <1>1, FreshGood DEF EditInit
<1>3. ed.changed = FALSE
  BY DEF EditInit, Fresh
<1> QED
  BY <1>2, <1>3 DEF SessionInv, SessionInit, Shown, UnsavedKept

LEMMA EditorKeyGood ==
    ASSUME Good(ed, disk, Saved), EditorKey
    PROVE  Good(ed', disk', Saved')
<1>1. Saved' <=> Saved
  BY DEF EditorKey, Saved
<1>2. CASE \E c \in EdChar : Key(InsChar(ed, c))
  <2>1. Good(ed', disk', Saved)
    BY <1>2, InsCharGood DEF Key
  <2> QED  BY <1>1, <2>1, SmallerGood
<1>3. CASE Key(Undo(ed))
  <2>1. Good(ed', disk', Saved)
    BY <1>3, UndoGood DEF Key
  <2> QED  BY <1>1, <2>1, SmallerGood
<1>4. CASE Key(Redo(ed))
  <2>1. Good(ed', disk', Saved)
    BY <1>4, RedoGood DEF Key
  <2> QED  BY <1>1, <2>1, SmallerGood
<1> QED
  BY <1>2, <1>3, <1>4 DEF EditorKey

LEMMA SessionStep ==
    ASSUME SessionInv, [SessionNext]_sessionVars
    PROVE  SessionInv'
<1>1. Good(ed, disk, Saved) /\ Shown /\ UnsavedKept
  BY DEF SessionInv
<1>2. ASSUME UNCHANGED <<editVars, gaps>>
      PROVE  Good(ed', disk', Saved')
  BY <1>1, <1>2 DEF editVars, Saved
<1>3. CASE EditorKey /\ UNCHANGED asked
  <2>1. Good(ed', disk', Saved')
    BY <1>1, <1>3, EditorKeyGood
  <2>2. mode = "edit" /\ UNCHANGED <<mode, background, asked, gaps>>
    BY <1>3 DEF EditorKey, windowVars
  <2>3. Shown' /\ UnsavedKept'
    BY <1>1, <2>2 DEF Shown, UnsavedKept
  <2> QED  BY <2>1, <2>3 DEF SessionInv
<1>4. CASE EditSave /\ UNCHANGED asked
  <2>1. /\ Good(ed', disk', Saved') /\ gaps \subseteq gaps'
        /\ "exit cancelled" \in gaps' => "exit cancelled" \in gaps
    BY <1>1, <1>4, SavesGood DEF EditSave
  <2>2. mode = "edit" /\ UNCHANGED <<mode, background, asked>>
    BY <1>4 DEF EditSave, windowVars
  <2>3. Shown' /\ UnsavedKept'
    BY <1>1, <2>1, <2>2 DEF Shown, UnsavedKept
  <2> QED  BY <2>1, <2>3 DEF SessionInv
<1>5. CASE ~asked /\ EditExit
  <2>1. UNCHANGED <<editVars, gaps>>
    BY <1>5 DEF EditExit
  <2>2. Shown' /\ UnsavedKept'
    BY <1>1, <1>5 DEF EditExit, editVars, Shown, UnsavedKept
  <2> QED  BY <1>2, <2>1, <2>2 DEF SessionInv
<1>15. CASE ExitAnswered
  <2>1. asked /\ ~asked' /\ background' = background
    BY <1>15 DEF ExitAnswered
  <2>2. CASE mode' = "panel" /\ agreed' = TRUE /\ UNCHANGED <<ed, disk, gaps>>
    <3>1. Good(ed', disk', Saved') /\ Shown' /\ UnsavedKept'
      BY <1>1, <2>1, <2>2 DEF Saved, Shown, UnsavedKept
    <3> QED  BY <3>1 DEF SessionInv
  <2>3. CASE mode = "edit" /\ mode' = "panel" /\ Saves /\ UNCHANGED agreed
    <3>1. Good(ed', disk', Saved') /\ (~ed'.changed \/ "not saved" \in gaps')
      BY <1>1, <2>3, SavesGood
    <3>2. Shown' /\ UnsavedKept'
      BY <1>1, <2>1, <2>3, <3>1 DEF Shown, UnsavedKept
    <3> QED  BY <3>1, <3>2 DEF SessionInv
  <2>4. ASSUME NEW gap \in {"exit overtaken", "exit cancelled"}, gap = "exit overtaken" => mode # "edit",
               gaps' = gaps \cup {gap}, UNCHANGED <<mode, ed, disk, agreed>>
        PROVE  SessionInv'
    <3>1. Saved' <=> Saved
      BY <2>4 DEF Saved
    <3>2. Good(ed', disk', Saved')
      BY <1>1, <2>4, <3>1, SmallerGood
    <3>3. Shown' /\ UnsavedKept'
      BY <1>1, <2>1, <2>4 DEF Shown, UnsavedKept
    <3> QED  BY <3>2, <3>3 DEF SessionInv
  <2> QED  BY <1>15, <2>2, <2>3, <2>4 DEF ExitAnswered
<1>6. CASE LeaveWindow /\ UNCHANGED asked
  <2>1. Shown' /\ UnsavedKept'
    BY <1>1, <1>6 DEF LeaveWindow, editVars, Shown, UnsavedKept
  <2> QED  BY <1>2, <1>6, <2>1 DEF LeaveWindow, SessionInv
<1>7. CASE SwitchToBackgroundActivity /\ UNCHANGED asked
  <2>1. Shown' /\ UnsavedKept'
    BY <1>1, <1>7 DEF SwitchToBackgroundActivity, editVars, Shown, UnsavedKept
  <2> QED  BY <1>2, <1>7, <2>1 DEF SwitchToBackgroundActivity, SessionInv
<1>8. CASE EditFile /\ UNCHANGED asked
  <2>1. CASE LoadFile /\ agreed' = FALSE /\ mode' = "edit" /\ background' = "editor"
    <3>1. Good(ed', disk', Saved')
      BY <2>1, LoadFileGood
    <3>2. Shown' /\ UnsavedKept'
      BY <2>1 DEF Shown, UnsavedKept
    <3> QED  BY <3>1, <3>2 DEF SessionInv
  <2>2. CASE CheckEditorBackgroundActivity /\ UNCHANGED <<editVars, mode, background>>
    <3>1. Shown' /\ UnsavedKept'
      BY <1>1, <1>8, <2>2 DEF EditFile, CheckEditorBackgroundActivity, editVars, Shown, UnsavedKept
    <3>2. UNCHANGED <<editVars, gaps>>
      BY <1>8, <2>2 DEF EditFile
    <3> QED  BY <1>2, <3>1, <3>2 DEF SessionInv
  <2> QED  BY <1>8, <2>1, <2>2 DEF EditFile
<1>9. CASE ViewFile /\ UNCHANGED asked
  <2>1. Shown' /\ UnsavedKept'
    BY <1>1, <1>9 DEF ViewFile, CheckEditorBackgroundActivity, editVars, Shown, UnsavedKept
  <2> QED  BY <1>2, <1>9, <2>1 DEF ViewFile, SessionInv
<1>10. CASE ViewExit /\ UNCHANGED asked
  <2>1. Shown' /\ UnsavedKept'
    BY <1>1, <1>10 DEF ViewExit, editVars, Shown, UnsavedKept
  <2> QED  BY <1>2, <1>10, <2>1 DEF ViewExit, SessionInv
<1>11. CASE StartExecute /\ UNCHANGED asked
  <2>1. Shown' /\ UnsavedKept'
    BY <1>1, <1>11 DEF StartExecute, editVars, Shown, UnsavedKept
  <2> QED  BY <1>2, <1>11, <2>1 DEF StartExecute, SessionInv
<1>12. CASE CommandEnds /\ UNCHANGED asked
  <2>1. Shown' /\ UnsavedKept'
    BY <1>1, <1>12 DEF CommandEnds, editVars, Shown, UnsavedKept
  <2> QED  BY <1>2, <1>12, <2>1 DEF CommandEnds, SessionInv
<1>13. CASE Quit /\ UNCHANGED asked
  <2>1. Saved' <=> Saved
    BY <1>13 DEF Quit, Saved
  <2>2. Good(ed', disk', Saved')
    BY <1>1, <1>13, <2>1, SmallerGood DEF Quit, editVars
  <2>3. Shown' /\ UnsavedKept'
    BY <1>1, <1>13 DEF Quit, editVars, Shown, UnsavedKept
  <2> QED  BY <2>2, <2>3 DEF SessionInv
<1>14. CASE UNCHANGED sessionVars
  <2>1. UNCHANGED <<editVars, gaps>>
    BY <1>14 DEF sessionVars
  <2>2. Shown' /\ UnsavedKept'
    BY <1>1, <1>14 DEF sessionVars, windowVars, editVars, Shown, UnsavedKept
  <2> QED  BY <1>2, <2>1, <2>2 DEF SessionInv
<1> QED
  BY <1>3, <1>4, <1>5, <1>6, <1>7, <1>8, <1>9, <1>10, <1>11, <1>12, <1>13, <1>14, <1>15
  DEF SessionNext, WindowNext

(***************************************************************************)
(* What is typed is kept: unless a save fails, an exit is cancelled, or    *)
(* overtaken by the end of a command, or the program ends, a text with     *)
(* unsaved changes can be reached or is being asked about, or the user     *)
(* has agreed to lose it, and a text that is not marked as changed is what *)
(* the file holds, through any undo and redo across the saves.             *)
(***************************************************************************)
THEOREM KeepsEdits == SessionSpec => []EditsKept
<1>1. EditInit /\ SessionInit => SessionInv
  BY SessionStart
<1>2. SessionInv /\ [SessionNext]_sessionVars => SessionInv'
  BY SessionStep
<1>3. SessionInv => EditsKept
  BY DEF SessionInv, Good, Exact, Saved, EditsKept, SavedExactly, ChangeMarked
<1> QED
  BY <1>1, <1>2, <1>3, PTL DEF SessionSpec

\* A file that is loaded and saved is the same file (EditList::Load, Save).
THEOREM SavesWhatItLoads == \A f \in EdFiles : Save(Load(f)) = f
BY SavedSame, EditAssumption DEF Letter
=============================================================================
