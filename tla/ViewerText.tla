----------------------------- MODULE ViewerText -----------------------------
(***************************************************************************)
(* What the thread of the viewer computes (ncview.cpp): the lines of a     *)
(* file, forwards and backwards, and the place that is shown after every   *)
(* key, in the modes plain, wrap and hex.  The file does not change here;  *)
(* Viewer models what happens when it does.  A character is a byte.        *)
(* Offsets count from 0, as in the source.                                 *)
(***************************************************************************)
EXTENDS Bounds, Sequences, SequencesExt

CONSTANTS
    VtFiles,    \* the files that are viewed
    VtSizes,    \* the sizes <<rows, cols>> of the window
    VtCols,     \* VIEWER_COLS: the longest line
    VtTab,      \* the distance of the tab stops
    VtStep      \* HSTEP

ASSUME ViewedAssumption ==
    /\ \A file \in VtFiles : file \in Seq(Range(file))
    /\ VtSizes # {} /\ VtSizes \subseteq (Nat \ {0}) \X (Nat \ {0})
    /\ VtCols \in Nat \ {0} /\ VtTab \in Nat \ {0} /\ VtStep \in Nat

VARIABLE vt     \* the file, the size, the mode, pos, and whether pos.begin is free
vtVars == <<vt>>

NL == "\n"
CRet == "\r"
TabChar == "\t"
\* A loop is left.
Leave(s) == [s EXCEPT !.done = TRUE]
-----------------------------------------------------------------------------
(***************************************************************************)
(* VFile::ReadString: the line at an offset, at most VtCols long.          *)
(***************************************************************************)
ReadStep(file, offset, s) ==
    LET ch == file[offset + s.bytes + 1]
        spaces == VtTab - (s.len % VtTab)
    IN  IF s.done \/ offset + s.bytes >= Len(file) THEN Leave(s)
        ELSE IF ch = NL
        THEN Leave([s EXCEPT !.bytes = @ + 1, !.len = IF s.last = CRet THEN @ - 1 ELSE @])
        ELSE IF s.len >= VtCols THEN Leave(s)
        ELSE IF ch = TabChar /\ s.len + spaces > VtCols
        THEN Leave([s EXCEPT !.len = VtCols, !.bytes = 0])
        ELSE [s EXCEPT !.bytes = @ + 1, !.last = ch,
                       !.len = @ + (IF ch = TabChar THEN spaces ELSE 1)]
NothingRead == [bytes |-> 0, len |-> 0, last |-> NL, done |-> FALSE]
ReadString(file, offset) ==
    LET r == Iterate(LAMBDA s : ReadStep(file, offset, s), NothingRead, Len(file) + 1)
    IN  [len |-> r.len, begin |-> offset, next |-> offset + r.bytes, ok |-> offset < Len(file)]

(***************************************************************************)
(* VFile::GetPrevLine: the start of the line before an offset, its columns *)
(* as far as they are known, and whether a new line was found.             *)
(***************************************************************************)
Passed(s, cols, tab) == [s EXCEPT !.at = @ - 1, !.free = @ - cols, !.tab = tab]
PrevStep(file, s) ==
    IF s.done \/ s.free <= 0 THEN Leave(s)
    ELSE IF s.at = 0 THEN [Leave(s) EXCEPT !.known = FALSE]
    ELSE IF file[s.at] = NL THEN [Leave(s) EXCEPT !.nl = TRUE]
    ELSE IF file[s.at] = TabChar \/ s.tab = 1
    THEN IF s.free < VtTab THEN Leave(s) ELSE Passed(s, VtTab, VtTab)
    ELSE IF s.tab > 0 THEN Passed(s, 0, s.tab - 1)
    ELSE Passed(s, 1, 0)
\* The newline at the offset, and the return before it, do not count.
LineEnd(file, offset) ==
    LET end == IF file[offset] = NL THEN offset - 1 ELSE offset
    IN  IF end < offset /\ end > 0 /\ file[end] = CRet THEN end - 1 ELSE end
NothingTaken(end) ==
    [at |-> end, free |-> VtCols, tab |-> 0, nl |-> FALSE, known |-> TRUE, done |-> FALSE]
GetPrevLine(file, offset) ==
    LET end == LineEnd(file, offset)
        r == Iterate(LAMBDA s : PrevStep(file, s), NothingTaken(end), Len(file) + 1)
    IN  IF offset <= 0 THEN [at |-> offset, cols |-> 0, nl |-> FALSE]
        ELSE IF end = 0 THEN [at |-> 0, cols |-> 0, nl |-> FALSE]
        ELSE [at |-> r.at, cols |-> IF r.known THEN VtCols - r.free ELSE 0, nl |-> r.nl]
PrevLine(file, offset) == GetPrevLine(file, offset).at

\* VFile::Align looks for the start of a character, but never gets to it.
Align(file, x) == AtLeast(0, AtMost(x, Len(file)))
WrapCount(lineCols, cols) ==
    IF lineCols <= cols THEN 1 ELSE (lineCols + cols - 1) \div cols
-----------------------------------------------------------------------------
(***************************************************************************)
(* The keys.  v has the file, the size, and the place: begin, col.         *)
(***************************************************************************)
Rows(v) == v.size[1]
Cols(v) == v.size[2]
Size(v) == Len(v.file)
LineAt(v) == ReadString(v.file, v.begin)
Page(v) == AtLeast(Rows(v) - 1, 1)
MovedTo(v, begin, col) == [v EXCEPT !.begin = begin, !.col = col]

HexKey(v, event, track) ==
    LET bytes == Rows(v) * Cols(v)
        page == Page(v) * Cols(v)
        Go(n) == [v EXCEPT !.begin = n]
        Back(n) == Go(IF v.begin > n THEN v.begin - n ELSE 0)
    IN  CASE event \in {"SET", "FOUND", "VTRACK"} -> Go(AtLeast(0, track))
          [] event = "HOME" -> Go(0)
          [] event = "END" -> IF Size(v) >= bytes THEN Go(Size(v) - bytes) ELSE v
          [] event = "DOWN" -> IF v.begin + bytes < Size(v) THEN Go(v.begin + Cols(v)) ELSE v
          [] event = "UP" -> Back(Cols(v))
          [] event = "LEFTSTEP" -> IF v.begin > 0 THEN Go(v.begin - 1) ELSE v
          [] event = "RIGHTSTEP" -> IF v.begin + 1 < Size(v) THEN Go(v.begin + 1) ELSE v
          [] event = "PAGEUP" -> Back(page)
          [] event = "PAGEDOWN" -> IF v.begin + bytes < Size(v) THEN Go(v.begin + page) ELSE v
          [] OTHER -> v

Sideways(v, event, track) ==
    LET Left(n) == [v EXCEPT !.col = IF @ > n THEN @ - n ELSE 0]
        rest == v.maxLine - (v.col + Cols(v))
        Right(n) == [v EXCEPT !.col = @ + AtLeast(0, AtMost(n, rest))]
    IN  CASE event = "LEFT" -> Left(1)
          [] event = "RIGHT" -> Right(1)
          [] event = "LEFTSTEP" -> Left(VtStep)
          [] event = "RIGHTSTEP" -> Right(VtStep)
          [] event = "PAGELEFT" -> IF Cols(v) > 1 THEN Left(Cols(v) - 1) ELSE v
          [] event = "PAGERIGHT" -> Right(Cols(v) - 1)
          [] event = "HTRACK" -> [v EXCEPT !.col = AtLeast(0, AtMost(track, v.maxLine - Cols(v)))]
SidewaysKeys == {"LEFT", "RIGHT", "LEFTSTEP", "RIGHTSTEP", "PAGELEFT", "PAGERIGHT", "HTRACK"}

\* Mutant: the page down goes on behind the last line.
LineDownOn(w) == IF LineAt(w).ok THEN MovedTo(w, LineAt(w).next - 1, w.col) ELSE w
PageDownPlainOn(v) == Iterate(LineDownOn, v, Rows(v) - 1)
LineDown(v) ==
    IF LineAt(v).ok /\ LineAt(v).next < Size(v) THEN MovedTo(v, LineAt(v).next, v.col) ELSE v
PageDownPlain(v) == Iterate(LineDown, v, Rows(v) - 1)
\* So many lines back.
LinesBack(file, offset, rows) == Iterate(LAMBDA p : PrevLine(file, p), offset, rows)
\* The line of a match that ends before track + 1; the line itself if its start is near.
Found(v, track) == GetPrevLine(v.file, Align(v.file, track + 1))
PlainKey(v, event, track) ==
    CASE event = "SET" -> MovedTo(v, AtLeast(0, track), 0)
      [] event = "HOME" -> MovedTo(v, 0, 0)
      [] event = "END" -> MovedTo(v, LinesBack(v.file, Size(v), Rows(v)), 0)
      [] event = "DOWN" -> LineDown(v)
      [] event = "UP" -> MovedTo(v, PrevLine(v.file, v.begin), v.col)
      [] event = "VTRACK" -> MovedTo(v, PrevLine(v.file, Align(v.file, track)), v.col)
      [] event = "FOUND" ->
            LET f == Found(v, track) IN
            IF ~f.nl THEN MovedTo(v, track, 0)
            ELSE MovedTo(v, f.at, IF v.col + Cols(v) <= f.cols THEN AtLeast(f.cols - 5, 0) ELSE v.col)
      [] event = "PAGEUP" -> MovedTo(v, LinesBack(v.file, v.begin, Rows(v) - 1), v.col)
      [] event = "PAGEDOWN" -> PageDownPlain(v)
      [] event \in SidewaysKeys -> Sideways(v, event, track)

\* Going back r rows of wrapped lines; at the start of the file its first line
\* is shown from its start, however long it is.
RowsUp(v, s) ==
    IF s.done THEN s
    ELSE IF s.n >= s.r /\ s.n > 0
    THEN [s EXCEPT !.col = (s.n - s.r) * Cols(v), !.done = TRUE]
    ELSE LET f == GetPrevLine(v.file, s.p) IN
         IF s.p <= 0 \/ f.at = 0 THEN [s EXCEPT !.p = 0, !.col = 0, !.done = TRUE]
         ELSE [s EXCEPT !.p = f.at, !.col = 0, !.r = @ - s.n, !.n = WrapCount(f.cols, Cols(v))]
RowsBack(v, from, rows, r) ==
    Iterate(LAMBDA s : RowsUp(v, s),
            [p |-> from, col |-> v.col, n |-> rows, r |-> r, done |-> FALSE], 2 * (r + 1))
WrapEnd(v) ==
    LET s == RowsBack(v, Size(v), 0, Rows(v)) IN MovedTo(v, s.p, IF s.done THEN s.col ELSE 0)
WrapPageUp(v) ==
    LET s == RowsBack(v, v.begin, WrapCount(v.col, Cols(v)) * (IF v.col > 0 THEN 1 ELSE 0), Page(v))
    IN  IF v.begin > 0 THEN MovedTo(v, s.p, s.col) ELSE v
RowsDown(v, s) ==
    LET l == ReadString(v.file, s.p)
        n == WrapCount(l.len, Cols(v)) - ((s.col + Cols(v) - 1) \div Cols(v))
    IN  IF s.r <= 0 THEN s
        ELSE IF ~l.ok \/ n < 0 THEN [s EXCEPT !.r = 0]
        ELSE IF n >= s.r THEN [s EXCEPT !.col = @ + s.r * Cols(v), !.r = 0]
        ELSE IF l.next >= Size(v) THEN [s EXCEPT !.col = AtLeast(n - 1, 0) * Cols(v), !.r = 0]
        ELSE [p |-> l.next, col |-> 0, r |-> s.r - n]
WrapPageDown(v) ==
    LET t == Iterate(LAMBDA s : RowsDown(v, s), [p |-> v.begin, col |-> v.col, r |-> Page(v)], Size(v) + 1)
    IN  MovedTo(v, t.p, t.col)
LastRow(v, f) == (WrapCount(f.cols, Cols(v)) - 1) * Cols(v)
WrapKey(v, event, track) ==
    CASE event = "SET" -> MovedTo(v, AtLeast(0, track), 0)
      [] event = "HOME" -> MovedTo(v, 0, 0)
      [] event = "END" -> WrapEnd(v)
      [] event = "DOWN" ->
            LET l == LineAt(v) IN
            IF ~l.ok THEN v
            ELSE IF l.len - v.col >= Cols(v) THEN MovedTo(v, v.begin, v.col + Cols(v))
            ELSE IF l.next < Size(v) THEN MovedTo(v, l.next, 0) ELSE v
      [] event = "UP" ->
            LET f == GetPrevLine(v.file, v.begin) IN
            IF v.col > 0 THEN MovedTo(v, v.begin, AtLeast(v.col - Cols(v), 0))
            ELSE IF v.begin > 0 THEN MovedTo(v, f.at, LastRow(v, f)) ELSE v
      [] event = "VTRACK" -> MovedTo(v, PrevLine(v.file, Align(v.file, track)), 0)
      [] event = "FOUND" ->
            LET f == Found(v, track) IN
            IF f.nl THEN MovedTo(v, f.at, LastRow(v, f)) ELSE MovedTo(v, track, 0)
      [] event = "PAGEUP" -> WrapPageUp(v)
      [] event = "PAGEDOWN" -> WrapPageDown(v)
      [] OTHER -> v
-----------------------------------------------------------------------------
(***************************************************************************)
(* The result: the place is in the file, and the screen is filled from it. *)
(***************************************************************************)
\* The longest line shown, for the horizontal scroll bar.
LongerLine(v, s) ==
    LET l == ReadString(v.file, s.p)
    IN  IF ~l.ok THEN s ELSE [p |-> l.next, max |-> AtLeast(s.max, l.len)]
Longest(v) == Iterate(LAMBDA s : LongerLine(v, s), [p |-> v.begin, max |-> v.maxLine], Rows(v)).max
Filled(v) ==
    LET w == IF v.begin >= Size(v) THEN MovedTo(v, 0, 0) ELSE v
    IN  CASE w.mode = "hex" -> [w EXCEPT !.col = 0]
          [] w.mode = "wrap" -> w
          [] w.mode = "plain" -> [w EXCEPT !.maxLine = Longest(w)]

\* The keys after which a line begins where it did in the file, and those that
\* go to an offset, whatever is there.
Aligning == {"HOME", "END", "VTRACK"}
ViewKey(v, event, track) ==
    LET w == CASE v.mode = "hex" -> HexKey(v, event, track)
               [] v.mode = "wrap" -> WrapKey(v, event, track)
               [] v.mode = "plain" -> PlainKey(v, event, track)
        offset == v.mode = "hex" \/ event = "SET" \/ (event = "FOUND" /\ ~Found(v, track).nl)
    IN  [Filled(w) EXCEPT !.free = offset \/ (@ /\ event \notin Aligning)]

Tracked == {"SET", "FOUND", "VTRACK", "HTRACK"}
Untracked == {"HOME", "END", "UP", "DOWN", "PAGEUP", "PAGEDOWN",
              "LEFT", "RIGHT", "LEFTSTEP", "RIGHTSTEP", "PAGELEFT", "PAGERIGHT"}
Start(file, size, mode) ==
    [file |-> file, size |-> size, mode |-> mode, begin |-> 0, col |-> 0, maxLine |-> 0, free |-> FALSE]

VtInit == vt = Start(<<>>, CHOOSE z \in VtSizes : TRUE, "plain")
OpenFile == \E file \in VtFiles : vt' = Filled(Start(file, vt.size, vt.mode))
EventKey ==
    \/ \E event \in Untracked : vt' = ViewKey(vt, event, 0)
    \/ \E event \in Tracked, track \in 0..Size(vt) : vt' = ViewKey(vt, event, track)
\* WrapUnwrap and HexText: the first byte shown is kept, the column is not
SetMode ==
    \E mode \in {"plain", "wrap", "hex"} : vt' = Filled([vt EXCEPT !.mode = mode, !.col = 0])
Resized == \E size \in VtSizes : vt' = Filled([vt EXCEPT !.size = size, !.col = 0])
VtNext == OpenFile \/ EventKey \/ SetMode \/ Resized
VtSpec == VtInit /\ [][VtNext]_vtVars
-----------------------------------------------------------------------------
LineStarts(file) == {0} \union {n \in 1..Len(file) - 1 : file[n] = NL}
\* With its tabs and the return before its newline every line fits the buffer.
ShortLines(file) == \A n \in LineStarts(file) : n < Len(file) => ReadString(file, n).len < VtCols - 1
(***************************************************************************)
(* What is shown begins where a line of the file begins, whichever keys    *)
(* lead there and in which mode, unless an offset was gone to (in the mode *)
(* hex, from the history, to a match in the first line): lines found by    *)
(* going back (GetPrevLine) are those found by going on (ReadString).  And *)
(* the place is within the file.  For files of lines shorter than          *)
(* VIEWER_COLS (ShortLines).                                               *)
(***************************************************************************)
BeginsWithLine ==
    /\ vt.begin \in 0..AtLeast(Size(vt) - 1, 0) /\ vt.col >= 0
    /\ ~vt.free => vt.begin \in LineStarts(vt.file)
=============================================================================
