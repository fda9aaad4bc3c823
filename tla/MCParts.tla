------------------------------ MODULE MCParts ------------------------------
(***************************************************************************)
(* The components that keep their state to themselves, each checked from   *)
(* its own initial state, in one run: `part' chooses the one that moves,   *)
(* and the others stay as they begin.                                      *)
(***************************************************************************)
EXTENDS EditSession, PanelList, Emulator, ShellExec, TermOut, ViewerText

VARIABLE part   \* the component that moves

\* The small instances.
Files == {<<" ", "\r", "\n", "x">>}
Clips == {<<"x", "\n", " ">>}
FileSizes == <<1, 2, 3, 1>>
Directories ==
    [p \in {"/", "/d", "archive"} |->
        CASE p = "/" -> {{1, 3}, {1, 2, 4}} [] p = "/d" -> {{2, 4}} [] p = "archive" -> {{3}}]
TerminalSizes == {<<2, 2>>, <<3, 2>>, <<2, 3>>}
Boot == <<"a", "b", "c">>
Prompt == <<"d">>
Command == <<"e">>
Keys == {<<1>>, <<2>>, <<3, 4>>}
Viewed == {<<"a", "\n", "b", "c", "d", "\r", "\n", "e", "\t", "f", "\n", "\n", "g">>,
           <<"\r", "\n", "\n", "x", "y", "z", "x", "y", "z">>}
ViewSizes == {<<2, 2>>, <<3, 4>>, <<1, 3>>}

\* the editor as the session leaves it when a file has been opened
EditorOpen ==
    /\ mode = "edit" /\ background = "editor" /\ running = 0
    /\ asked = FALSE /\ agreed = FALSE /\ gaps = {}

textVars == <<editVars, windowVars, agreed, gaps>>

Init ==
    /\ part \in {"text", "session", "panel", "terminal", "shell", "typing", "viewer"}
    /\ EditInit /\ (IF part = "text" THEN EditorOpen ELSE SessionInit)
    /\ PanelInit /\ EmInit /\ ShInit /\ ToInit /\ VtInit

Next ==
    \/ part = "text" /\ EditNext
       /\ UNCHANGED <<part, windowVars, agreed, gaps, panelVars, emVars, shVars, toVars, vtVars>>
    \/ part = "session" /\ SessionNext
       /\ UNCHANGED <<part, panelVars, emVars, shVars, toVars, vtVars>>
    \/ part = "panel" /\ PanelNext
       /\ UNCHANGED <<part, textVars, emVars, shVars, toVars, vtVars>>
    \/ part = "terminal" /\ EmNext
       /\ UNCHANGED <<part, textVars, panelVars, shVars, toVars, vtVars>>
    \/ part = "shell" /\ ShNext
       /\ UNCHANGED <<part, textVars, panelVars, emVars, toVars, vtVars>>
    \/ part = "typing" /\ ToNext
       /\ UNCHANGED <<part, textVars, panelVars, emVars, shVars, vtVars>>
    \/ part = "viewer" /\ VtNext
       /\ UNCHANGED <<part, textVars, panelVars, emVars, shVars, toVars>>

Spec == Init /\ [][Next]_<<part, textVars, panelVars, emVars, shVars, toVars, vtVars>>
-----------------------------------------------------------------------------
(***************************************************************************)
(* The algorithms without a state, against what they are to compute.       *)
(***************************************************************************)
\* A file that is loaded and saved is the same file (EditList::Load, Save).
ASSUME FilesRoundTrip ==
    \A f \in BoundedSeq({"x", " ", "\r", "\n"}, 4) : Save(Load(f)) = f

\* Going back from the line after a line leads to it (ReadString, GetPrevLine).
BackAndForth(file) ==
    \A n \in LineStarts(file) :
        LET l == ReadString(file, n)
        IN  n < Len(file) /\ l.len < VtCols => GetPrevLine(file, l.next).at = n
ASSUME ViewedShort == \A file \in Viewed : ShortLines(file)
ASSUME LinesFound == \A file \in BoundedSeq({"x", "\n", "\r", "\t"}, 5) : BackAndForth(file)

\* A text printed is on the screen, wrapped at its width (Emulator::Append).
Wrapped(text, cols) ==
    FoldLeft(LAMBDA ls, ch :
                IF ch = "\n" THEN Append(ls, <<>>)
                ELSE IF Len(Last(ls)) = cols THEN Append(ls, <<ch>>)
                ELSE Front(ls) \o <<Append(Last(ls), ch)>>, << <<>> >>, text)
TextOnScreen(text) ==
    LET e == InternalPrint(NewEmulator, text)
        all == Wrapped(text, e.cols)
        LineOf(k) == IF k < Len(all) THEN all[Len(all) - k] ELSE <<>>
    IN  \A k \in 0..EmKept - 1 :
            InUse(Screen(e), k) = [c \in 1..e.cols |-> IF c <= Len(LineOf(k)) THEN LineOf(k)[c] ELSE Blank]
ASSUME PrintedWrapped == \A text \in BoundedSeq({"x", "y", "\n"}, 5) : TextOnScreen(text)

\* What is sent as UTF-8 is decoded again, up to 0x7FF.
Characters == {1, 65, 127, 128, 200, 1087, 2047}
ASSUME CodedBack == \A c, d \in Characters : Decode(OutAppendUnicode(c) \o OutAppendUnicode(d)) = <<c, d>>
=============================================================================
