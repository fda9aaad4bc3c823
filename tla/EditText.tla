------------------------------- MODULE EditText -------------------------------
(***************************************************************************)
(* The text of the editor (ncedit.cpp, ncedit.h): the lines, the cursor    *)
(* and the marker between which text is selected, the keys that change     *)
(* them, and the list of undo blocks.  Each change is made to the text and *)
(* noted in records of its own; that the two agree is what is checked.     *)
(*                                                                         *)
(* Characters are not taken apart into bytes.  Lines are counted from 1,   *)
(* positions in a line from 0.  Of the flags of a line only FLAG_CR is     *)
(* kept: nothing reads FLAG_LF.                                            *)
(***************************************************************************)
EXTENDS Integers, SequencesExt

CONSTANTS
    EdChar,     \* the characters
    EdBlanks,   \* those that are space or tab
    EdFiles,    \* the files that may be loaded: sequences of EdChar, "\r" and "\n"
    EdClips,    \* what the clipboard may hold: sequences of EdChar and "\n"
    AutoIdent,  \* the setting of that name
    WordDelete, \* whether the user deletes words with Ctrl+Del
    MaxUndo,    \* UndoList::MAXSIZE
    MaxChanges  \* bound: changes, undos and redos in a behaviour

ASSUME EditAssumption ==
    /\ EdBlanks \subseteq EdChar
    /\ {"\r", "\n", "?"} \cap EdChar = {}
    /\ EdFiles \subseteq Seq(EdChar \union {"\r", "\n"})
    /\ EdClips \subseteq Seq(EdChar \union {"\n"})
    /\ MaxUndo \in Nat \ {0}

VARIABLES
    ed,         \* [text, cursor, marker, undo, pos, changed]
    disk,       \* what the file holds
    changes     \* how many changes there have been

editVars == <<ed, disk, changes>>
-----------------------------------------------------------------------------
(***************************************************************************)
(* Files: EditList::Load and Save.                                         *)
(***************************************************************************)
NewLine == "\n"
Return == "\r"
Line(s, cr) == [s |-> s, cr |-> cr]

\* a line without its return, which may only be its last character
Stripped(s) == IF s # <<>> /\ Last(s) = Return THEN Line(Front(s), TRUE) ELSE Line(s, FALSE)

\* The last line has no newline.  When it is empty it takes the flags of the
\* one before it, otherwise it has none.
Load(f) ==
    LET ends == {i \in DOMAIN f : f[i] = NewLine}
        Nth(k) == CHOOSE i \in ends : Cardinality({j \in ends : j <= i}) = k
        Begin(k) == IF k = 1 THEN 1 ELSE Nth(k - 1) + 1
        n == Cardinality(ends)
        rest == SubSeq(f, Begin(n + 1), Len(f))
        full == [k \in 1..n |-> Stripped(SubSeq(f, Begin(k), Nth(k) - 1))]
    IN  Append(full, Line(rest, n > 0 /\ rest = <<>> /\ Last(full).cr))

Save(text) ==
    LET Eol(i) == IF i = Len(text) THEN <<>>
                  ELSE IF text[i].cr THEN <<Return, NewLine>> ELSE <<NewLine>>
    IN  FlattenSeq([i \in DOMAIN text |-> text[i].s \o Eol(i)])
-----------------------------------------------------------------------------
(***************************************************************************)
(* Strings and lines (EditString, EditList).                               *)
(***************************************************************************)
Take(s, n) == SubSeq(s, 1, n)
Drop(s, n) == SubSeq(s, n + 1, Len(s))

\* a negative count moves the rest of the string to the left
Insert(s, p, t, n) == IF n >= 0 THEN Take(s, p) \o t \o Drop(s, p)
                      ELSE Take(s, p + n) \o Drop(s, p)
Delete(s, p, n) == IF n <= 0 THEN s ELSE Take(s, p) \o Drop(s, p + n)

SetLine(text, l, s) == [text EXCEPT ![l].s = s]
NewLineAt(text, l, line) == Take(text, l - 1) \o <<line>> \o Drop(text, l - 1)
NoLines(text, l, n) == Take(text, l - 1) \o Drop(text, l - 1 + n)

(***************************************************************************)
(* The records of an undo block, and what Undo and Redo make of them.      *)
(***************************************************************************)
Rec(op, l, p, s, n, cr, prev) ==
    [op |-> op, line |-> l, pos |-> p, s |-> s, n |-> n, cr |-> cr, prev |-> prev]
InsText(l, p, s) == Rec("instext", l, p, s, Len(s), FALSE, FALSE)
DelText(l, p, s) == Rec("deltext", l, p, s, Len(s), FALSE, FALSE)
AddLine(l, line) == Rec("addline", l, 0, line.s, Len(line.s), line.cr, FALSE)
DelLine(l, line) == Rec("delline", l, 0, line.s, Len(line.s), line.cr, FALSE)
Attr(l, prev, cr) == Rec("attr", l, 0, <<>>, 0, cr, prev)

Undone(text, r) ==
    CASE r.op = "attr" -> [text EXCEPT ![r.line].cr = r.prev]
      [] r.op = "instext" -> [text EXCEPT ![r.line].s = Delete(@, r.pos, r.n)]
      [] r.op = "deltext" -> [text EXCEPT ![r.line].s = Insert(@, r.pos, r.s, r.n)]
      [] r.op = "delline" -> NewLineAt(text, r.line, Line(r.s, r.cr))
      [] r.op = "addline" -> NoLines(text, r.line, 1)

Redone(text, r) ==
    CASE r.op = "attr" -> [text EXCEPT ![r.line].cr = r.cr]
      [] r.op = "instext" -> [text EXCEPT ![r.line].s = Insert(@, r.pos, r.s, r.n)]
      [] r.op = "deltext" -> [text EXCEPT ![r.line].s = Delete(@, r.pos, r.n)]
      [] r.op = "delline" -> NoLines(text, r.line, 1)
      [] r.op = "addline" -> NewLineAt(text, r.line, Line(r.s, r.cr))

AllUndone(text, recs) ==
    LET after[i \in 0..Len(recs)] == IF i = Len(recs) THEN text ELSE Undone(after[i + 1], recs[i + 1])
    IN  after[0]
AllRedone(text, recs) ==
    LET after[i \in 0..Len(recs)] == IF i = 0 THEN text ELSE Redone(after[i - 1], recs[i])
    IN  after[Len(recs)]

(***************************************************************************)
(* UndoList::Append.  The list is cut to its limit before it is known      *)
(* whether the block continues the last one.                               *)
(***************************************************************************)
AppendBlock(e, b) ==
    LET past == Take(e.undo, e.pos)
        room == IF Len(past) = MaxUndo THEN Tail(past) ELSE past
    IN  IF room # <<>> /\ Last(room).aggregate /\ b.aggregate /\ Last(room).end = b.begin
        THEN Append(Front(room),
                    [Last(room) EXCEPT !.recs = @ \o b.recs, !.end = b.end, !.now = b.now])
        ELSE Append(room, b)

\* The end of every key that changes the text: the cursor is the marker.  was and
\* now are the text before and after the change; the code does not keep them.
Edited(e, text, cursor, aggregate, changed, recs) ==
    LET b == [aggregate |-> aggregate, changed |-> e.changed, recs |-> recs,
              was |-> e.text, now |-> text,
              begin |-> <<e.cursor, e.marker>>, end |-> <<cursor, cursor>>]
        list == AppendBlock(e, b)
    IN  [text |-> text, cursor |-> cursor, marker |-> cursor,
         undo |-> list, pos |-> Len(list), changed |-> e.changed \/ changed]
-----------------------------------------------------------------------------
(***************************************************************************)
(* The keys, as functions of ed.                                           *)
(***************************************************************************)
Point(l, p) == [line |-> l, pos |-> p]
Before(p, q) == p.line < q.line \/ (p.line = q.line /\ p.pos < q.pos)
Points(text) == {Point(l, p) : l \in DOMAIN text, p \in 0..Max({Len(text[l].s) : l \in DOMAIN text})}
InText(text, p) == p.line \in DOMAIN text /\ p.pos \in 0..Len(text[p.line].s)

\* a piece of text is noted if it is not empty
Noted(r) == IF r.n > 0 THEN <<r>> ELSE <<>>

\* Mutant: the end of the line that the first one gets is not noted.
SelectionRecsNoEnd(text, b, e) ==
    LET bs == text[b.line].s
        es == text[e.line].s
    IN  Noted(DelText(b.line, b.pos, Drop(bs, b.pos)))
        \o Noted(InsText(b.line, b.pos, Drop(es, e.pos)))
        \o [i \in 1..(e.line - b.line) |-> DelLine(b.line + 1, text[b.line + i])]

\* several lines are deleted
SelectionRecs(text, b, e) ==
    LET bs == text[b.line].s
        es == text[e.line].s
    IN  Noted(DelText(b.line, b.pos, Drop(bs, b.pos)))
        \o Noted(InsText(b.line, b.pos, Drop(es, e.pos)))
        \o <<Attr(b.line, text[b.line].cr, text[e.line].cr)>>
        \o [i \in 1..(e.line - b.line) |-> DelLine(b.line + 1, text[b.line + i])]

DelMarked(e) ==
    LET b == IF Before(e.cursor, e.marker) THEN e.cursor ELSE e.marker
        f == IF b = e.cursor THEN e.marker ELSE e.cursor
        bs == e.text[b.line].s
        fs == e.text[f.line].s
        joined == Line(Take(bs, b.pos) \o Drop(fs, f.pos), e.text[f.line].cr)
    IN  IF e.cursor = e.marker THEN e
        ELSE IF b.line = f.line
             THEN Edited(e, SetLine(e.text, b.line, Delete(bs, b.pos, f.pos - b.pos)), b, FALSE, TRUE,
                         <<DelText(b.line, b.pos, SubSeq(bs, b.pos + 1, f.pos))>>)
             ELSE Edited(e, Take(e.text, b.line - 1) \o <<joined>> \o Drop(e.text, f.line),
                         b, FALSE, TRUE, SelectionRecs(e.text, b, f))

InsChar(e0, c) ==
    LET e == DelMarked(e0)
        l == e.cursor.line
        p == e.cursor.pos
    IN  Edited(e, SetLine(e.text, l, Insert(e.text[l].s, p, <<c>>, 1)), Point(l, p + 1), TRUE, TRUE,
               <<InsText(l, p, <<c>>)>>)

\* Ident: the blanks a line begins with, when there is something after them
Blanks(s) == Take(s, Min({i \in 1..Len(s) : s[i] \notin EdBlanks}) - 1)
HasWord(s) == \E i \in DOMAIN s : s[i] \notin EdBlanks

\* a line is split at p
Split(text, l, p) ==
    Take(text, l - 1)
    \o <<Line(Take(text[l].s, p), text[l].cr), Line(Drop(text[l].s, p), text[l].cr)>>
    \o Drop(text, l)
SplitRecs(text, l, p) ==
    LET rest == Drop(text[l].s, p)
    IN  <<AddLine(l + 1, Line(rest, text[l].cr))>>
        \o IF rest = <<>> THEN <<>> ELSE <<DelText(l, p, rest)>>

Enter(e0) ==
    LET e == DelMarked(e0)
        l == e.cursor.line
        split == Split(e.text, l, e.cursor.pos)
        recs == SplitRecs(e.text, l, e.cursor.pos)
        models == {i \in 1..l : HasWord(split[i].s)}
        indent == Blanks(split[Max(models)].s)
        new == split[l + 1].s
        own == IF HasWord(new) THEN Blanks(new) ELSE <<>>
    IN  IF ~AutoIdent \/ models = {}
        THEN Edited(e, split, Point(l + 1, 0), TRUE, TRUE, recs)
        ELSE Edited(e, SetLine(split, l + 1, indent \o Drop(new, Len(own))),
                    Point(l + 1, Len(indent)), TRUE, TRUE,
                    recs \o (IF HasWord(new) THEN <<DelText(l + 1, 0, own)>> ELSE <<>>)
                         \o <<InsText(l + 1, 0, indent)>>)

\* line l + 1 is appended to line l
Joined(text, l) ==
    Take(text, l - 1) \o <<Line(text[l].s \o text[l + 1].s, text[l + 1].cr)>> \o Drop(text, l + 1)
JoinRecs(text, l) ==
    <<InsText(l, Len(text[l].s), text[l + 1].s), Attr(l, text[l].cr, text[l + 1].cr),
      DelLine(l + 1, text[l + 1])>>

\* n characters after the cursor are deleted; Del notes them as they are in
\* memory, whatever n is
DelAfter(e, n) ==
    LET l == e.cursor.line
        p == e.cursor.pos
        s == e.text[l].s
        behind == [i \in 1..(n - (Len(s) - p)) |-> "?"]
        noted == IF n <= 0 THEN <<>>
                 ELSE IF n <= Len(s) - p THEN SubSeq(s, p + 1, p + n) ELSE Drop(s, p) \o behind
    IN  Edited(e, SetLine(e.text, l, Delete(s, p, n)), e.cursor, TRUE, TRUE,
               <<[DelText(l, p, noted) EXCEPT !.n = n]>>)

\* How many characters Ctrl+Del deletes: up to the next one of another group.
\* The end of a line counts as a blank, and the search goes on in the next line.
WordLength(text, c) ==
    LET Group(p) == p.pos = Len(text[p.line].s) \/ text[p.line].s[p.pos + 1] \in EdBlanks
        after == {p \in Points(text) : InText(text, p) /\ Before(c, p)}
        other == {p \in after : Group(p) # Group(c)}
        stop == CHOOSE p \in (IF other = {} THEN after ELSE other) :
                    \A q \in (IF other = {} THEN after ELSE other) :
                        p = q \/ (Before(p, q) <=> other # {})
    IN  stop.pos - c.pos

Del(e, word) ==
    LET l == e.cursor.line
    IN  IF e.cursor # e.marker THEN DelMarked(e)
        ELSE IF e.cursor.pos < Len(e.text[l].s)
             THEN DelAfter(e, IF word THEN WordLength(e.text, e.cursor) ELSE 1)
             ELSE IF l < Len(e.text)
                  THEN Edited(e, Joined(e.text, l), e.cursor, TRUE, TRUE, JoinRecs(e.text, l))
                  ELSE Edited(e, e.text, e.cursor, TRUE, FALSE, <<>>)

\* Ctrl+Backspace: back to the beginning of the word, or of the line
WordBegin(s, p) ==
    Min({k \in 0..(p - 1) : \A i \in (k + 1)..p : (s[i] \in EdBlanks) = (s[p] \in EdBlanks)})

Backspace(e, word) ==
    LET l == e.cursor.line
        p == e.cursor.pos
        s == e.text[l].s
        k == IF word THEN WordBegin(s, p) ELSE p - 1
    IN  IF e.cursor # e.marker THEN DelMarked(e)
        ELSE IF p > 0
             THEN Edited(e, SetLine(e.text, l, Delete(s, k, p - k)), Point(l, k), TRUE, TRUE,
                         <<DelText(l, k, SubSeq(s, k + 1, p))>>)
             ELSE IF l > 1
                  THEN Edited(e, Joined(e.text, l - 1), Point(l - 1, Len(e.text[l - 1].s)), TRUE, TRUE,
                              JoinRecs(e.text, l - 1))
                  ELSE Edited(e, e.text, e.cursor, TRUE, FALSE, <<>>)

DeleteLine(e) ==
    LET l == e.cursor.line
        line == e.text[l]
    IN  IF l < Len(e.text)
        THEN Edited(e, NoLines(e.text, l, 1), Point(l, 0), FALSE, TRUE, <<DelLine(l, line)>>)
        ELSE IF line.s = <<>> THEN e
             ELSE Edited(e, SetLine(e.text, l, <<>>), Point(l, 0), FALSE, TRUE,
                         <<DelText(l, 0, line.s)>>)

\* the clipboard's text is inserted piece by piece, in one block
PastePiece(t, c) ==
    LET l == t.cursor.line
        p == t.cursor.pos
    IN  IF c = NewLine
        THEN [text |-> Split(t.text, l, p), cursor |-> Point(l + 1, 0),
              recs |-> t.recs \o SplitRecs(t.text, l, p)]
        ELSE [text |-> SetLine(t.text, l, Insert(t.text[l].s, p, <<c>>, 1)),
              cursor |-> Point(l, p + 1), recs |-> Append(t.recs, InsText(l, p, <<c>>))]

FromClipboard(e0, clip) ==
    LET e == DelMarked(e0)
        none == [text |-> e.text, cursor |-> e.cursor, recs |-> <<>>]
        pasted[i \in 0..Len(clip)] == IF i = 0 THEN none ELSE PastePiece(pasted[i - 1], clip[i])
        t == pasted[Len(clip)]
    IN  IF clip = <<>> THEN e ELSE Edited(e, t.text, t.cursor, FALSE, TRUE, t.recs)

\* Mutant: the mark of a change is left as it is.
UndoKeepChanged(e) ==
    LET b == e.undo[e.pos]
    IN  IF e.pos = 0 THEN e
        ELSE [e EXCEPT !.text = AllUndone(@, b.recs), !.cursor = b.begin[1], !.marker = b.begin[2],
                       !.pos = @ - 1, !.changed = FALSE]

Undo(e) ==
    LET b == e.undo[e.pos]
    IN  IF e.pos = 0 THEN e
        ELSE [e EXCEPT !.text = AllUndone(@, b.recs), !.cursor = b.begin[1], !.marker = b.begin[2],
                       !.pos = @ - 1, !.changed = b.changed]

Redo(e) ==
    LET b == e.undo[e.pos + 1]
    IN  IF e.pos = Len(e.undo) THEN e
        ELSE [e EXCEPT !.text = AllRedone(@, b.recs), !.cursor = b.end[1], !.marker = b.end[2],
                       !.pos = @ + 1,
                       !.changed = e.pos + 1 = Len(e.undo) \/ e.undo[e.pos + 2].changed]
-----------------------------------------------------------------------------
Fresh(f) == [text |-> Load(f), cursor |-> Point(1, 0), marker |-> Point(1, 0),
             undo |-> <<>>, pos |-> 0, changed |-> FALSE]

EditInit == disk = <<>> /\ ed = Fresh(disk) /\ changes = 0

\* another file is loaded into the same window
LoadFile == disk' \in EdFiles /\ ed' = Fresh(disk') /\ changes' = 0

Key(e) ==
    /\ changes < MaxChanges /\ changes' = changes + 1
    /\ ed' = e /\ UNCHANGED disk

\* Between two keys the cursor moves, by keys, the mouse, Search and bookmarks,
\* and with Shift the marker stays.  The moves are part of the step of the key
\* that follows them.
Moved(c, m) == [ed EXCEPT !.cursor = c, !.marker = m]

EditKey(e) ==
    \/ \E c \in EdChar : Key(InsChar(e, c))
    \/ Key(Enter(e))
    \/ \E word \in {FALSE, WordDelete} : Key(Del(e, word))
    \/ \E word \in BOOLEAN : Key(Backspace(e, word))
    \/ Key(DeleteLine(e))
    \/ \E clip \in EdClips : Key(FromClipboard(e, clip))

EditNext ==
    \/ \E c, m \in Points(ed.text) :
            InText(ed.text, c) /\ InText(ed.text, m) /\ EditKey(Moved(c, m))
    \/ Key(Undo(ed))
    \/ Key(Redo(ed))
    \/ LoadFile

EditSpec == EditInit /\ [][EditNext]_editVars
-----------------------------------------------------------------------------
(***************************************************************************)
(* Properties.                                                             *)
(***************************************************************************)
(***************************************************************************)
(* Undo and redo go back and forth between texts that were there: the      *)
(* records of every block take its change back and make it again exactly,  *)
(* whatever has been typed, pasted and deleted in between, the blocks      *)
(* follow one another without a gap, and the cursor and the marker, which  *)
(* both set to where they were, are in the text.                           *)
(***************************************************************************)
UndoExact ==
    /\ \A i \in DOMAIN ed.undo :
        LET b == ed.undo[i]
        IN  /\ AllUndone(b.now, b.recs) = b.was
            /\ AllRedone(b.was, b.recs) = b.now
            /\ i < Len(ed.undo) => b.now = ed.undo[i + 1].was
    /\ ed.pos > 0 => ed.text = ed.undo[ed.pos].now
    /\ ed.pos < Len(ed.undo) => ed.text = ed.undo[ed.pos + 1].was
    /\ InText(ed.text, ed.cursor) /\ InText(ed.text, ed.marker)

(***************************************************************************)
(* A text that differs from the file is marked as changed, and saving one  *)
(* that has only been loaded writes the same file.                         *)
(***************************************************************************)
ChangeMarked == ~ed.changed => Save(ed.text) = disk
=============================================================================
