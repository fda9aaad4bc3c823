------------------------------ MODULE Emulator ------------------------------
(***************************************************************************)
(* The terminal: the emulator's two screens, its cursor and its scrolling  *)
(* region (t-emulator.cpp), and the window that shows a part of the screen *)
(* (termwin.cpp).  The input thread gives the emulator what the programs   *)
(* write and signals the window; the window copies the lines that are      *)
(* flagged as changed.                                                     *)
(*                                                                         *)
(* Lines are numbered from the bottom, from 0, as in the source: line      *)
(* rows - row - 1 is row `row' of the cursor.  An escape sequence is one   *)
(* step; colours, character sets and the parser's states are left out.     *)
(***************************************************************************)
EXTENDS Bounds, Sequences, SequencesExt

CONSTANTS
    EmChar,     \* what programs print
    EmSizes,    \* the sizes <<rows, cols>> the window may take
    EmKept,     \* the lines of the first screen, those scrolled off included (1024)
    EmCount,    \* the arguments of the escape sequences that take a count
    EmPref,     \* what a command is printed after, its prompt: sequence of characters
    EmCmd,      \* the command: sequence of characters
    EmBoot,     \* what is printed before the first state: sequence of characters
    EmSteps     \* bound: what the programs, the user and the window begin

\* the window begins with the least of its sizes
ASSUME EmAssumption ==
    /\ EmSizes \subseteq Nat \X Nat
    /\ \E z \in EmSizes : \A y \in EmSizes : z[1] <= y[1] /\ z[2] <= y[2]
    /\ EmKept \in Nat
    /\ {EmPref, EmCmd, EmBoot} \subseteq Seq(STRING)

VARIABLES
    em,
    tw,
    emCalls,    \* the calls the window's handler has still to make, each under the lock
    emQuiet,    \* observed: the lines a reset changed, until they are flagged
    emSteps
emVars == <<em, tw, emCalls, emQuiet, emSteps>>

Blank == " "
BlankLine(n) == [k \in 1..n |-> Blank]
NoScreen(r, c) == [rows |-> r, cols |-> c, lines |-> [k \in 1..r |-> BlankLine(c)]]

(***************************************************************************)
(* A screen: rows and cols of it are in use, its lines may be more and     *)
(* longer.                                                                 *)
(***************************************************************************)
InUse(s, n) == SubSeq(s.lines[n + 1], 1, s.cols)
HasCell(s, n, c) == n \in 0..s.rows - 1 /\ c \in 0..s.cols - 1
CLN(s, n) == AtLeast(0, AtMost(n, s.rows - 1))
FillLine(line, from, to, ch) ==
    [k \in DOMAIN line |-> IF from < k /\ k <= to THEN ch ELSE line[k]]
SetLineChar(s, n, c, count, ch) ==
    IF HasCell(s, n, c)
    THEN [s EXCEPT !.lines[n + 1] = FillLine(@, c, AtMost(c + count, s.cols), ch)]
    ELSE s
DeleteLineChar(s, n, c, count) ==
    LET cut == AtMost(count, s.cols - c)
    IN  IF HasCell(s, n, c)
        THEN [s EXCEPT !.lines[n + 1] =
                [k \in DOMAIN @ |->
                    IF k <= c \/ k > s.cols THEN @[k]
                    ELSE IF k <= s.cols - cut THEN @[k + cut] ELSE Blank]]
        ELSE s
ClearScreen(s) ==
    [s EXCEPT !.lines = [k \in DOMAIN @ |-> IF k <= s.rows THEN BlankLine(Len(@[k])) ELSE @[k]]]
\* Lines a to b move by n, up (towards b) or down; those that come in are blank.
Scrolled(s, a, b, n, up) ==
    LET lo == CLN(s, a)  hi == CLN(s, b)  size == hi - lo + 1
        From(i) == lo + ((i - lo + (IF up THEN size - n ELSE n)) % size)
        New(i) == IF up THEN i < lo + n ELSE i > hi - n
        Line(i) == LET l == s.lines[From(i) + 1] IN
            IF New(i) THEN FillLine(l, 0, s.cols, Blank) ELSE l
        Cleared(i) == FillLine(s.lines[i + 1], 0, s.cols, Blank)
    IN  [s EXCEPT !.lines = [k \in DOMAIN @ |->
            IF k - 1 \notin lo..hi THEN @[k]
            ELSE IF hi - lo < n THEN Cleared(k - 1) ELSE Line(k - 1)]]
ScrolledLines(s, a, b) == CLN(s, a)..CLN(s, b)
ResizeScreen(s, r, c) ==
    LET more == AtLeast(r - Len(s.lines), 0)
        size == Len(s.lines[1])
        Wider(l) == IF c > size
                    THEN [k \in 1..c |-> IF k <= s.cols THEN l[k] ELSE Blank] ELSE l
        all == [k \in 1..more |-> BlankLine(size)] \o s.lines
    IN  [rows |-> r, cols |-> c, lines |-> [k \in DOMAIN all |-> Wider(all[k])]]

(***************************************************************************)
(* The emulator.  The operators take its state and return the next one.    *)
(***************************************************************************)
Screen(e) == e.screens[e.on]
CursorLine(e) == e.rows - e.row - 1
FlagSize(e) == AtLeast(e.rows, EmKept)
Flag(e, lines) == [e EXCEPT !.changed = @ \union (lines \intersect (0..FlagSize(e) - 1))]
Changed(e) == Flag(e, {e.rows - e.row})
SetScreen(e, s, lines) == Flag([e EXCEPT !.screens[e.on] = s], lines)
Put(e, n, c, count, ch) ==
    SetScreen(e, SetLineChar(Screen(e), n, c, count, ch),
              IF HasCell(Screen(e), n, c) THEN {n} ELSE {})
ScrollLines(e, a, b, n, up) ==
    SetScreen(e, Scrolled(Screen(e), a, b, n, up), ScrolledLines(Screen(e), a, b))

\* The lines the region covers: with its top at the top of the screen, those
\* that have been scrolled off as well.
RegionHigh(e) == IF e.top = 0 THEN Screen(e).rows - 1 ELSE e.rows - e.top - 1
RegionLow(e) == e.rows - e.bottom - 1
Scroll(e, n, up) == ScrollLines(e, RegionLow(e), RegionHigh(e), n, up)

CR(e) == Changed([e EXCEPT !.col = 0])
LF(e) ==
    IF e.row = e.bottom /\ e.wrap THEN Scroll(e, 1, TRUE)
    ELSE IF e.row < e.rows + 1 THEN Changed([Changed(e) EXCEPT !.row = @ + 1])
    ELSE e
RI(e) ==
    IF e.row = e.top THEN Scroll(e, 1, FALSE)
    ELSE IF e.row > 0 THEN Changed([Changed(e) EXCEPT !.row = @ - 1])
    ELSE e
AddUnicode(e, ch) ==
    LET f == IF e.col >= e.cols THEN LF(CR(e)) ELSE e
    IN  [Put(f, CursorLine(f), f.col, 1, ch) EXCEPT !.col = AtMost(@ + 1, AtLeast(@, f.cols))]
TabSize == 8
Tab(e) ==
    LET pos == ((e.col + TabSize) \div TabSize) * TabSize
        wrapped == LF(Put(e, CursorLine(e), e.col, e.cols - e.col, Blank))
        col == IF e.col > 0 THEN pos % e.col ELSE 0
    IN  IF pos < e.cols
        THEN [Put(Changed(e), CursorLine(e), e.col, pos - e.col, Blank) EXCEPT !.col = pos]
        ELSE IF e.wrap
        THEN [Put(wrapped, CursorLine(wrapped), 0, col, Blank) EXCEPT !.col = col]
        ELSE e
BS(e) == IF e.col > 0 THEN Changed([e EXCEPT !.col = @ - 1]) ELSE e
SetCursor(e, r, c) ==
    Changed([Changed(e) EXCEPT !.row = AtLeast(0, AtMost(r, e.rows - 1)),
                               !.col = AtLeast(0, AtMost(c, e.cols))])
IncCursor(e, dr, dc) == SetCursor(e, e.row + dr, e.col + dc)
SaveCursor(e) == [e EXCEPT !.saved = <<e.row, e.col>>]
RestoreCursor(e) ==
    Changed([Changed(e) EXCEPT !.row = AtLeast(0, AtMost(e.saved[1], e.rows - 1)),
                               !.col = AtMost(e.saved[2], e.cols)])
SetRegion(e, top, bottom) ==
    IF top > bottom \/ bottom >= e.rows \/ top < 0 THEN e
    ELSE [e EXCEPT !.top = top, !.bottom = bottom]
BlankLines(e, from, to) ==
    LET s == Screen(e)
        Hit(n) == n \in from..to /\ HasCell(s, n, 0)
    IN  SetScreen(e, [s EXCEPT !.lines = [k \in DOMAIN @ |->
                        IF Hit(k - 1) THEN FillLine(@[k], 0, s.cols, Blank) ELSE @[k]]],
                  {n \in from..to : HasCell(s, n, 0)})
EraseDisp(e, mode) ==
    CASE mode = 0 -> BlankLines(e, 0, CursorLine(e))
      [] mode = 1 -> BlankLines(e, CursorLine(e), e.rows - 1)
      [] mode = 2 -> BlankLines(e, 0, e.rows - 1)
EraseLine(e, mode) ==
    LET from == IF mode > 0 THEN 0 ELSE e.col
        to == IF mode # 1 THEN e.cols ELSE e.col
    IN  Put(e, CursorLine(e), from, to - from, Blank)
EraseChars(e, n) == Put(e, CursorLine(e), e.col, n, Blank)
DeleteChars(e, n) ==
    SetScreen(e, DeleteLineChar(Screen(e), CursorLine(e), e.col, n),
              IF HasCell(Screen(e), CursorLine(e), e.col) THEN {CursorLine(e)} ELSE {})
\* Inserting (down) and deleting (up) lines at the cursor.
MoveLines(e, n, up) == ScrollLines(e, RegionLow(e), CursorLine(e), n, up)

FlagAll(e) == Flag(e, 0..FlagSize(e) - 1)
\* Mutant: the other screen is shown without its lines being flagged.
SelectQuietly(e, n) == [e EXCEPT !.on = n]
Select(e, n) == FlagAll([e EXCEPT !.on = n])
SecondScreen(e, save) ==
    Select(IF save THEN [SaveCursor(e) EXCEPT !.screens[2] = ClearScreen(@)] ELSE e, 2)
FirstScreen(e, restore) == Select(IF restore THEN RestoreCursor(e) ELSE e, 1)
ResetState(e) == [e EXCEPT !.top = 0, !.bottom = e.rows - 1, !.on = 1, !.wrap = TRUE]
SoftReset(e) == EraseDisp(ResetState(e), 2)
Reset(e, clear) ==
    LET f == ResetState(e)
        g == IF clear THEN [f EXCEPT !.screens = [k \in {1, 2} |-> ClearScreen(f.screens[k])]] ELSE f
    IN  [g EXCEPT !.col = 0, !.row = e.rows - 1]
SetSize(e, r, c) ==
    FlagAll([e EXCEPT !.screens = [k \in {1, 2} |->
                          ResizeScreen(@[k], IF k = 1 THEN AtLeast(r, EmKept) ELSE r, c)],
                      !.rows = r, !.cols = c, !.top = 0, !.bottom = r - 1,
                      !.row = r - (e.rows - @),
                      !.changed = {}])
\* Emulator::InternalPrint, "\n" being a new line.
PrintChar(e, ch) ==
    IF ch = "\n" THEN LF(CR(e)) ELSE IF ch = "\t" THEN Tab(e) ELSE AddUnicode(e, ch)
InternalPrint(e, text) ==
    LET printed[k \in 0..Len(text)] ==
            IF k = 0 THEN e ELSE PrintChar(printed[k - 1], text[k])
    IN  printed[Len(text)]

InitSize == CHOOSE z \in EmSizes : \A y \in EmSizes : z[1] <= y[1] /\ z[2] <= y[2]
NewEmulator ==
    LET r == InitSize[1]  c == InitSize[2] IN
    [screens |-> [k \in {1, 2} |-> NoScreen(IF k = 1 THEN AtLeast(r, EmKept) ELSE r, c)],
     on |-> 1, rows |-> r, cols |-> c, top |-> 0, bottom |-> r - 1,
     row |-> r - 1, col |-> 0, saved |-> <<0, 0>>, wrap |-> TRUE,
     changed |-> 0..AtLeast(r, EmKept) - 1]

(***************************************************************************)
(* The window: a copy of the lines it shows, from line `first' on.         *)
(***************************************************************************)
ShownLine(e, first, r) == InUse(Screen(e), IF first + r < Screen(e).rows THEN first + r ELSE 0)
\* The lines of the screen of e that are not those of f.
Unlike(e, f) == {r \in 0..e.rows - 1 : ShownLine(e, 0, r) # ShownLine(f, 0, r)}
Becomes(e) == em' = e /\ emQuiet' = emQuiet \ e.changed
\* Emulator::Reset, which flags nothing.
Resets(clear) ==
    LET e == Reset(em, clear) IN
    em' = e /\ emQuiet' = (emQuiet \union Unlike(em, e)) \ e.changed
\* TerminalWin::Reread, from line `shown' on, with `first' for the first line after it.
RereadLines(rows, cols, shown, first) ==
    LET e == SetSize(em, rows, cols) IN
    /\ Becomes(e)
    /\ tw' = [tw EXCEPT !.lines = [r \in 0..e.rows - 1 |-> ShownLine(e, shown, r)],
                        !.first = first]

EmInit ==
    /\ em = InternalPrint(NewEmulator, EmBoot)
    /\ tw = [lines |-> [r \in 0..InitSize[1] - 1 |-> BlankLine(InitSize[2])],
             first |-> 0, total |-> 1, signal |-> FALSE]
    /\ emCalls = <<>> /\ emQuiet = {} /\ emSteps = 0

Outcomes(e) ==
    LET Moves == {CR(e), LF(e), RI(e), Tab(e), BS(e), LF(CR(e)),
                  SaveCursor(e), RestoreCursor(e)}
                 \union {SetCursor(e, r, c) : r \in 0..e.rows, c \in {0, e.cols}}
                 \union {IncCursor(e, d[1] * n, d[2] * n) :
                            d \in {<<-1, 0>>, <<1, 0>>, <<0, -1>>, <<0, 1>>}, n \in EmCount}
        Texts == {AddUnicode(e, ch) : ch \in EmChar}
        Edits == {Scroll(e, n, up) : n \in EmCount, up \in BOOLEAN}
                 \union {MoveLines(e, n, up) : n \in EmCount, up \in BOOLEAN}
                 \union {EraseChars(e, n) : n \in EmCount}
                 \union {DeleteChars(e, n) : n \in EmCount}
                 \union {EraseDisp(e, mode) : mode \in 0..2}
                 \union {EraseLine(e, mode) : mode \in 0..2}
        Modes == {SetRegion(e, t, b) : t \in 0..e.rows - 1, b \in 0..e.rows}
                 \union {[e EXCEPT !.wrap = w] : w \in BOOLEAN}
                 \union {SecondScreen(e, s) : s \in BOOLEAN}
                 \union {FirstScreen(e, s) : s \in BOOLEAN}
                 \union {SoftReset(e)}
    IN  Moves \union Texts \union Edits \union Modes

\* The input thread.  ESC C resets and clears both screens.
Input ==
    /\ (\E e \in Outcomes(em) : Becomes(e)) \/ Resets(TRUE)
    /\ tw' = [tw EXCEPT !.signal = TRUE]
    /\ UNCHANGED emCalls

\* TerminalWin::ThreadSignal.  A flag is taken back when the line differs.
Differ(r) == tw.lines[r] # ShownLine(em, 0, r)
Copied == {r \in 0..em.rows - 1 : r \in em.changed /\ Differ(r)}
TerminalSignal ==
    /\ tw.signal
    /\ tw' = [lines |-> [r \in 0..em.rows - 1 |->
                            IF r \in Copied THEN ShownLine(em, 0, r) ELSE tw.lines[r]],
              first |-> 0, total |-> Screen(em).rows, signal |-> FALSE]
    /\ Becomes([em EXCEPT !.changed = @ \ Copied])
    /\ UNCHANGED emCalls

\* The user turns back to older lines.
ScrollBack(n) ==
    LET first == AtLeast(0, AtMost(tw.first + n, tw.total - em.rows)) IN
    /\ first # tw.first
    /\ RereadLines(em.rows, em.cols, first, first)
    /\ UNCHANGED emCalls

Resize(z) ==
    /\ z # <<em.rows, em.cols>>
    /\ RereadLines(z[1], z[2], tw.first, tw.first)
    /\ UNCHANGED emCalls

\* NCWin::DoStartExecute, then TerminalWin::Execute unless the command has no
\* terminal.  Each call takes the emulator's mutex for itself.
DoStartExecute ==
    /\ \E last \in {<<>>, <<"reset">>} :
            emCalls' = <<"reset", "newLine", "pref", "cmd", "newLine">> \o last
    /\ UNCHANGED <<em, tw, emQuiet>>
\* The command cls: TerminalReset, Reread and the first line again.
ClearAll ==
    /\ emCalls' = <<"clear", "reread">>
    /\ UNCHANGED <<em, tw, emQuiet>>

PrintedText == [newLine |-> <<"\n">>, pref |-> EmPref, cmd |-> EmCmd]
Call ==
    LET call == Head(emCalls) IN
    /\ emCalls # <<>>
    /\ emCalls' = Tail(emCalls)
    /\ \/ call = "reset" /\ Resets(FALSE) /\ UNCHANGED tw
       \/ call = "clear" /\ Resets(TRUE) /\ UNCHANGED tw
       \/ call \in DOMAIN PrintedText /\ Becomes(InternalPrint(em, PrintedText[call])) /\ UNCHANGED tw
       \/ call = "reread" /\ RereadLines(em.rows, em.cols, tw.first, 0)

\* The window's thread runs one handler at a time, the input thread between its calls.
Handler ==
    \/ TerminalSignal
    \/ \E n \in {-1, 1} : ScrollBack(n)
    \/ \E z \in EmSizes : Resize(z)
    \/ DoStartExecute
    \/ ClearAll

EmNext ==
    \/ /\ emSteps < EmSteps
       /\ emSteps' = emSteps + 1
       /\ Input \/ (emCalls = <<>> /\ Handler)
    \/ Call /\ UNCHANGED emSteps

EmSpec == EmInit /\ [][EmNext]_emVars

(***************************************************************************)
(* A line that is not flagged is shown as it is: whatever programs write,  *)
(* also between the calls of a handler of the window, which copies the     *)
(* flagged lines only (termwin.cpp ThreadSignal), misses none, after       *)
(* scrolling, switching screens, resizing and turning back to older lines. *)
(* Only Emulator::Reset, which ESC C, a command's start and cls call,      *)
(* changes lines without flagging them: those lines are left out until     *)
(* they are flagged again.                                                 *)
(***************************************************************************)
DrawnOrFlagged ==
    \A r \in 0..em.rows - 1 :
        r \notin em.changed \union emQuiet => tw.first = 0 /\ tw.lines[r] = ShownLine(em, 0, r)
=============================================================================
