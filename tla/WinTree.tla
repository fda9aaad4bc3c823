------------------------------ MODULE WinTree ------------------------------
(***************************************************************************)
(* The window tree of the toolkit: modal dialogs, which block every window *)
(* that is not theirs, the active window and the focus (swl_wincore.cpp,   *)
(* swl_wincoreUX.cpp), and the dialogs' own part in it (ncdialogs.cpp).    *)
(*                                                                         *)
(* A window's parent, kind and visibility, the window that blocks it and   *)
(* the child that had the focus last are fields of a record; the focus,    *)
(* the active window and the stack of the DoModals that run are global.    *)
(* Window 1 is the main window and 2 its only child; a dialog d has the    *)
(* element d + 1.  A dialog is constructed and run by a handler, of any    *)
(* window: timers and threads call those of blocked windows too.  The      *)
(* X server's notes come when it likes.  Popups, mouse capture, disabled   *)
(* windows and layouts are left out.                                       *)
(***************************************************************************)
EXTENDS Integers, Sequences, SequencesExt, FiniteSets, Bounds

CONSTANT Dialogs    \* the dialogs; the number after one is its element's

ASSUME WinTreeAssumption == Dialogs \subseteq {n \in Nat : n > 2 /\ n + 1 \notin Dialogs}

VARIABLES
    sw,         \* the windows, the focus and the active window
    swStack,    \* the DoModals that run, the innermost last
    swNotes,    \* windows that have been mapped or unmapped: <<window, shown>>
    swLost      \* why the focus may be lost: "thrown", "astray", "blocked" (see KeyboardAlive)

swVars == <<sw, swStack, swNotes, swLost>>

Gone == -1      \* a window that exists no more: its number is not used again

\* A new window: by is blockedBy, last is lastFocusChild; level is the depth of the
\* stack at which the handler runs that has constructed it.
NewWindow(up, kind, vis, level) ==
    [up |-> up, kind |-> kind, vis |-> vis, level |-> level, by |-> 0, last |-> 0]
Alive(s) == DOMAIN s.win            \* winhash

SwInit ==
    /\ sw \in [win: {<<[NewWindow(0, "main", TRUE, 0) EXCEPT !.last = 2], NewWindow(1, "child", TRUE, 0)>>},
               focus: {2}, active: {1}, kind: {"child", "main"}]
    /\ swStack = <<>> /\ swNotes = {} /\ swLost = {}
-----------------------------------------------------------------------------
(***************************************************************************)
(* Blocking.                                                               *)
(***************************************************************************)
\* The windows inside a set that childList leads to, from some on.
Further(s, inside, tree) == tree \cup {w \in inside : s.win[w].up \in tree}
Descend(s, from, inside) ==
    Iterate(LAMBDA tree : Further(s, inside, tree), from \cap inside, Cardinality(inside))
IsIn(s, w, d) == w \in Descend(s, {d}, Alive(s))

\* Mutant: the dialogs blocked before are blocked by d from now on.
AppBlockAll(s, d) == [s EXCEPT !.win = [w \in Alive(s) |-> [@[w] EXCEPT !.by = d]]]

AppBlock(s, d) == [s EXCEPT !.win = [w \in Alive(s) |-> IF @[w].by = 0 THEN [@[w] EXCEPT !.by = d] ELSE @[w]]]
AppUnblock(s, d) == [s EXCEPT !.win = [w \in Alive(s) |-> IF @[w].by = d THEN [@[w] EXCEPT !.by = 0] ELSE @[w]]]

\* The tree is descended as long as d blocks its windows.
UnblockTree(s, d) ==
    LET tree == Descend(s, {d}, {w \in Alive(s) : s.win[w].by = d})
    IN  [s EXCEPT !.win = [w \in Alive(s) |-> IF w \in tree THEN [@[w] EXCEPT !.by = 0] ELSE @[w]]]
-----------------------------------------------------------------------------
(***************************************************************************)
(* Focus.                                                                  *)
(***************************************************************************)
IsMain(s, w) == s.win[w].kind = "main"
TopOf(s, w) ==
    Iterate(LAMBDA x : IF x \notin Alive(s) \/ IsMain(s, x) THEN x ELSE s.win[x].up, w, Cardinality(Alive(s)))

\* When the focus leaves a window each of its parents remembers the way to it.
RememberStep(r) ==
    LET up == r.s.win[r.at].up
    IN  IF r.at \notin Alive(r.s) \/ IsMain(r.s, r.at) \/ up \notin Alive(r.s) THEN r
        ELSE [s |-> [r.s EXCEPT !.win[up].last = r.at], at |-> up]
Remember(s, w) == Iterate(RememberStep, [s |-> s, at |-> w], Cardinality(Alive(s))).s

(***************************************************************************)
(* SetFocus, Activate and EventFocus call each other.  What they still     *)
(* have to do is a list: "focus" is a call of SetFocus, "go on" what it    *)
(* does after its call of Activate.                                        *)
(***************************************************************************)
ToDo(what, w) == <<[what |-> what, win |-> w]>>

\* EventFocus( true ): the child that had the focus gets it.
LastChild(s, w) == IF s.win[w].last \in Alive(s) THEN ToDo("focus", s.win[w].last) ELSE <<>>

\* Activate up to its EventFocus
Activates(s, w) == IsMain(s, w) /\ s.win[w].vis /\ s.active # w
Activated(s, w) == [Remember(s, s.focus) EXCEPT !.active = w, !.focus = w]
ActivateStep(s, w, rest) ==
    IF Activates(s, w) THEN [s |-> Activated(s, w), todo |-> LastChild(Activated(s, w), w) \o rest]
    ELSE [s |-> s, todo |-> rest]

\* The focus of a blocked window goes to the dialog that blocks it.
SetFocusStep(s, w, rest) ==
    LET top == TopOf(s, w)
        by == s.win[w].by
    IN  IF s.focus = w \/ by # 0
        THEN [s |-> s, todo |-> (IF s.focus # w /\ by \in Alive(s) THEN ToDo("focus", by) ELSE <<>>) \o rest]
        ELSE IF top \in Alive(s) THEN ActivateStep(s, top, ToDo("go on", w) \o rest)
        ELSE [s |-> s, todo |-> rest]

Focused(s, w) ==
    LET f == [s EXCEPT !.focus = w]
    IN  IF ~IsMain(s, w) /\ s.win[w].up \in Alive(s) THEN [f EXCEPT !.win[s.win[w].up].last = w] ELSE f
FocusStep(r) ==
    LET call == Head(r.todo)
        rest == Tail(r.todo)
    IN  IF r.todo = <<>> THEN r
        ELSE IF call.what = "focus" THEN SetFocusStep(r.s, call.win, rest)
        ELSE IF r.s.focus = call.win THEN [r EXCEPT !.todo = rest]
        ELSE [s |-> Focused(r.s, call.win), todo |-> LastChild(Focused(r.s, call.win), call.win) \o rest]

\* These are more steps than the calls take: on the instances checked, what is left
\* to do is nothing.
Calling(r) == Iterate(FocusStep, r, 4 * Cardinality(Alive(r.s))).s

SetFocus(s, w) == Calling([s |-> s, todo |-> ToDo("focus", w)])
EventFocus(s, w) == Calling([s |-> s, todo |-> LastChild(s, w)])
Activate(s, w) == Calling(ActivateStep(s, w, <<>>))

IfAlive(s, w, then) == IF w \in Alive(s) THEN then ELSE s
-----------------------------------------------------------------------------
(***************************************************************************)
(* Dialogs.                                                                *)
(***************************************************************************)
Depth == Len(swStack)
Modal == {swStack[i].win : i \in 1..Depth}

\* The dialogs that the handler that runs has constructed.  While it has one no
\* loop runs, unless it is in a DoModal.
InHand == {d \in Dialogs \cap Alive(sw) : d \notin Modal /\ sw.win[d].level = Depth}
Looping == InHand = {}

\* DoModal up to its loop
BeginModal(s, d) ==
    LET frame == [win |-> d, visibled |-> s.win[d].vis, oldActive |-> s.active, end |-> FALSE,
                  lastParentFC |-> s.win[s.win[d].up].last]
        shown == [s EXCEPT !.win[d].vis = TRUE]
    IN  /\ sw' = SetFocus(Activate(UnblockTree(AppBlock(shown, d), d), d), d)
        /\ swStack' = Append(swStack, frame)
        /\ swNotes' = IF frame.visibled THEN swNotes ELSE swNotes \cup {<<d, TRUE>>}
        /\ swLost' = swLost \cup {l \in {"astray"} : s.win[s.win[d].up].by # 0}

\* A window is on the screen when it and its parents up to a top window are shown.
OnScreen(w) ==
    w \in Descend(sw, {m \in Alive(sw) : IsMain(sw, m)}, {v \in Alive(sw) : sw.win[v].vis})

\* A handler constructs a dialog over a window that is shown, a child of it or,
\* with --dlg, a top window; its first button gets the focus and it is shown.
ShowDialog(d, up) ==
    LET made == [w \in Alive(sw) \cup {d, d + 1} |->
                    CASE w = d -> NewWindow(up, sw.kind, FALSE, Depth)
                      [] w = d + 1 -> NewWindow(d, "child", TRUE, Depth)
                      [] OTHER -> sw.win[w]]
    IN  /\ d \notin Alive(sw) /\ OnScreen(up)
        /\ BeginModal(SetFocus([sw EXCEPT !.win = made], d + 1), d)

\* The handler shows its dialog once more.
ShowAgain(d) == d \in InHand /\ BeginModal(sw, d)

\* A blocked dialog is not ended.
EndModalOf(d) ==
    /\ Looping /\ d \in Modal /\ sw.win[d].by = 0
    /\ swStack' = [i \in DOMAIN swStack |->
                    IF swStack[i].win = d THEN [swStack[i] EXCEPT !.end = TRUE] ELSE swStack[i]]
    /\ UNCHANGED <<sw, swNotes, swLost>>

\* Mutant: it is left to oldActive.
FocusBackNone(s, f) == s

\* A dialog inside its parent gives the focus back.
FocusBack(s, f) == IF s.kind = "child" THEN IfAlive(s, f.lastParentFC, SetFocus(s, f.lastParentFC)) ELSE s

\* DoModal after its loop
LeaveModal ==
    LET f == swStack[Depth]
        unblocked == AppUnblock(sw, f.win)
        hidden == IF f.visibled THEN unblocked ELSE [unblocked EXCEPT !.win[f.win].vis = FALSE]
    IN  /\ Looping /\ Depth > 0 /\ f.end
        /\ sw' = LET back == FocusBack(hidden, f) IN IfAlive(back, f.oldActive, Activate(back, f.oldActive))
        /\ swStack' = Front(swStack)
        /\ swNotes' = IF f.visibled THEN swNotes ELSE swNotes \cup {<<f.win, FALSE>>}
        /\ UNCHANGED swLost

\* The dialog's destructors: of its number is left what GetWinByID does not find.
Drop(s, stack, d) ==
    LET Now(w) == IF w \in {d, d + 1} THEN Gone ELSE w
    IN  /\ ~\E w \in Alive(s) : s.win[w].up = d /\ w # d + 1
        /\ sw' = [s EXCEPT !.win = [w \in Alive(s) \ {d, d + 1} |-> [s.win[w] EXCEPT !.last = Now(s.win[w].last)]],
                           !.focus = Now(@), !.active = Now(@)]
        /\ swStack' = [i \in DOMAIN stack |->
                        [stack[i] EXCEPT !.oldActive = Now(@), !.lastParentFC = Now(@)]]
        /\ swNotes' = {n \in swNotes : n[1] # d}

Destroy(d) == d \in InHand /\ Drop(sw, swStack, d) /\ UNCHANGED swLost

\* An exception leaves the loop, and the handler, which has one dialog, with it.
ThrowModal ==
    /\ Looping /\ Depth > 0 /\ ~swStack[Depth].end
    /\ Drop(AppUnblock(sw, swStack[Depth].win), Front(swStack), swStack[Depth].win)
    /\ swLost' = swLost \cup {"thrown"}
-----------------------------------------------------------------------------
(***************************************************************************)
(* What the loops handle.                                                  *)
(***************************************************************************)
LoopEvent == Looping /\ (Depth > 0 => ~swStack[Depth].end) /\ UNCHANGED swStack

\* Activate does not look at blockedBy: these windows it would make active.
BlockedTop(w) == w \in Alive(sw) /\ sw.win[w].kind = "main" /\ sw.win[w].by # 0

\* A handler of any window sets the focus; so does a click.
MoveFocus(w) == Looping /\ sw' = SetFocus(sw, w) /\ UNCHANGED <<swStack, swNotes, swLost>>

\* The focus comes to a window of the program, whether by Activate or by the user.
FocusIn(w) ==
    LET left == [Remember(sw, sw.focus) EXCEPT !.focus = 0, !.active = 0]
        by == sw.win[w].by
    IN  /\ LoopEvent /\ sw.win[w].kind = "main" /\ sw.win[w].vis
        /\ sw' = CASE sw.active = w -> sw
                   [] sw.active # w /\ by = 0 -> EventFocus([left EXCEPT !.active = w, !.focus = w], w)
                   [] OTHER -> IfAlive(left, by, IF sw.win[by].kind = "child" THEN SetFocus(left, by) ELSE Activate(left, by))
        /\ swLost' = IF sw.active = w THEN swLost
                     ELSE (swLost \ {"blocked"}) \cup {l \in {"blocked"} : BlockedTop(by)}
        /\ UNCHANGED swNotes

\* The focus leaves the program.
FocusOut ==
    /\ LoopEvent /\ sw.active # 0
    /\ sw' = IF sw.active \in Alive(sw) THEN [Remember(sw, sw.focus) EXCEPT !.focus = 0, !.active = 0]
             ELSE [sw EXCEPT !.active = 0]
    /\ swLost' = swLost \ {"blocked"}
    /\ UNCHANGED swNotes

\* MapNotify and UnmapNotify: a dialog that is shown becomes active, blocked or not,
\* and EventShow sets the focus, shown or not.
Mapped(note) ==
    LET d == note[1]
    IN  /\ LoopEvent /\ note \in swNotes
        /\ sw' = SetFocus(IF note[2] THEN Activate(sw, d) ELSE sw, d)
        /\ swNotes' = swNotes \ {note}
        /\ swLost' = swLost \cup {l \in {"blocked"} : note[2] /\ BlockedTop(d)}

SwNext ==
    \/ \E d \in Dialogs, up \in {1} \cup Dialogs : ShowDialog(d, up)
    \/ \E d \in Dialogs : ShowAgain(d) \/ EndModalOf(d) \/ Destroy(d)
    \/ LeaveModal \/ ThrowModal
    \/ \E w \in Alive(sw) : MoveFocus(w) \/ FocusIn(w)
    \/ FocusOut
    \/ \E note \in swNotes : Mapped(note)

SwSpec == SwInit /\ [][SwNext]_swVars
-----------------------------------------------------------------------------
(***************************************************************************)
(* Properties.                                                             *)
(***************************************************************************)
(***************************************************************************)
(* A window is blocked by a dialog whose DoModal runs, and those that are  *)
(* shown and not blocked are just the windows of the innermost dialog: the *)
(* user can always work in it and end it, and nowhere else, in whatever    *)
(* order dialogs were opened, by whomever, and also after exceptions.      *)
(***************************************************************************)
ModalExact ==
    \A w \in Alive(sw) :
        /\ sw.win[w].by # 0 => sw.win[w].by \in Modal
        /\ Depth > 0 /\ OnScreen(w) => (sw.win[w].by = 0 <=> IsIn(sw, w, swStack[Depth].win))

(***************************************************************************)
(* While a window of the program is active, the window with the focus      *)
(* exists, is shown and is not blocked: what is typed reaches someone.     *)
(* Left out is what swLost names: an exception has left a DoModal; a       *)
(* dialog was shown over a blocked window, which keeps no way back; a      *)
(* blocked top window was made active, until the user moves the focus.     *)
(***************************************************************************)
KeyboardAlive ==
    Looping /\ sw.active \in Alive(sw) /\ swLost = {} =>
        OnScreen(sw.focus) /\ sw.win[sw.focus].by = 0
=============================================================================
