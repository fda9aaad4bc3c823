----------------------------- MODULE PanelList -----------------------------
(***************************************************************************)
(* A panel (panel.cpp, panel_list.h): the list of a directory's files, in  *)
(* the order and with the hidden files the settings demand, the selected   *)
(* files and their counter, the cursor, and the places one can go back to. *)
(* The list is read by a thread (OperThread): between LoadPath and         *)
(* OperThreadStopped the user goes on working with the old one.            *)
(*                                                                         *)
(* Names are numbers, in their order.  Which part of the list is visible   *)
(* is left out.                                                            *)
(***************************************************************************)
EXTENDS Integers, SequencesExt

CONSTANTS
    PnSize,     \* for each name the size of the file: a sequence
    PnDirs,     \* the names of directories
    PnHidden,   \* the names of hidden files
    PnContents, \* for each place what may be found in it: a set of sets of names
    PnModes,    \* the modes the list may be sorted in: "name", "size"
    PnPage      \* how many lines are visible

ASSUME PanelAssumption ==
    /\ PnSize \in Seq(Nat) /\ PnDirs \cup PnHidden \subseteq DOMAIN PnSize
    /\ {"/", "/d", "archive"} = DOMAIN PnContents
    /\ \A d \in DOMAIN PnContents : PnContents[d] \subseteq SUBSET DOMAIN PnSize
    /\ PnModes \subseteq {"name", "size"} /\ PnPage \in Int

VARIABLES
    pn,     \* the panel: see PanelInit
    pnLoad  \* what LoadPath has noted for OperThreadStopped, while a thread reads

panelVars == <<pn, pnLoad>>

NoFile == 0
SubDir == 1     \* in "/" the entry of "/d"
Archive == 2    \* in "/" and "/d" the entry of "archive", a file system of its own
-----------------------------------------------------------------------------
Top(p) == Last(p.places).path
ShowsDots(p) == Top(p) # "/"        \* HideDotsInDir, with panelShowDotsInRoot off
Offset(p) == IF ShowsDots(p) THEN 1 ELSE 0
Count(p) == Len(p.list) + Offset(p)
CountAsRead(p) == Len(p.list) + (IF p.of # "/" THEN 1 ELSE 0)   \* with the dots of its own place
Get(p, n) == IF n - Offset(p) + 1 \in DOMAIN p.list THEN p.list[n - Offset(p) + 1] ELSE NoFile
GetCurrent(p) == Get(p, p.current)
FindName(p, name) ==
    IF Contains(p.list, name) THEN (CHOOSE i \in DOMAIN p.list : p.list[i] = name) - 1 + Offset(p)
    ELSE -1

\* CmpFunc: directories first, then the order, then the name
Precedes(p, a, b) ==
    LET dirs == a \in PnDirs /\ b \notin PnDirs
        same == (a \in PnDirs) = (b \in PnDirs)
        bySize == IF p.asc THEN PnSize[a] < PnSize[b] ELSE PnSize[a] > PnSize[b]
        less == CASE p.mode = "name" -> IF p.asc THEN a < b ELSE b < a
                  [] p.mode = "size" -> bySize \/ (PnSize[a] = PnSize[b] /\ a < b)
    IN  dirs \/ (same /\ less)

Shown(p) == IF p.hidden THEN p.files ELSE p.files \ PnHidden
Counter(S) ==
    LET size[n \in 0..Len(PnSize)] ==
            IF n = 0 THEN 0 ELSE size[n - 1] + (IF n \in S THEN PnSize[n] ELSE 0)
    IN  [count |-> Cardinality(S), size |-> size[Len(PnSize)]]
AddOne(cn, name) == [count |-> cn.count + 1, size |-> cn.size + PnSize[name]]
SubOne(cn, name) == [count |-> cn.count - 1, size |-> cn.size - PnSize[name]]

\* The files of S, each behind those that come before it.
Nth(S, before, i) == CHOOSE f \in S : Cardinality({g \in S : <<g, f>> \in before}) = i - 1
Arranged(S, before) == [i \in 1..Cardinality(S) |-> Nth(S, before, i)]

\* the files are in the order in which they were read; hidden ones lose their mark
MakeList(p) ==
    [p EXCEPT !.list = Arranged(Shown(p), {x \in Shown(p) \X Shown(p) : x[1] > x[2]}),
              !.selected = @ \cap Shown(p), !.counter = Counter(p.selected \cap Shown(p))]
Sorted(p) ==
    IF p.mode = "none" THEN p
    ELSE LET files == ToSet(p.list)
         IN  [p EXCEPT !.list = Arranged(files, {x \in files \X files : Precedes(p, x[1], x[2])})]

\* ShiftSelection of the entry n: the first one decides what is done to the rest.
\* last is the entry that is only ever unmarked.
ShiftSelection(p, n, last) ==
    LET f == Get(p, n)
        type == IF last THEN "off"
                ELSE IF p.shift # "undefined" THEN p.shift
                ELSE IF f \in p.selected THEN "off" ELSE "on"
        q == IF last THEN p ELSE [p EXCEPT !.shift = type]
    IN  IF f = NoFile THEN p
        ELSE IF (type = "on") = (f \in p.selected) THEN q
        ELSE IF type = "on" THEN [q EXCEPT !.selected = @ \cup {f}, !.counter = AddOne(@, f)]
        ELSE [q EXCEPT !.selected = @ \ {f}, !.counter = SubOne(@, f)]

\* Mutant: the cursor is not kept within the list.
SetCurrentFree(p, n, shift, selectLast) == [p EXCEPT !.current = n]

\* the entries from the one under the cursor to n
ShiftTo(p, n, selectLast) ==
    LET step == IF p.current < n THEN 1 ELSE -1
        far == IF p.current < n THEN n - p.current ELSE p.current - n
        marked[i \in 0..far] ==
            ShiftSelection(IF i = 0 THEN p ELSE marked[i - 1], p.current + i * step,
                           i = far /\ i > 0 /\ ~selectLast)
    IN  marked[far]

SetCurrent(p, n0, shift, selectLast) ==
    LET n == Max({0, Min({n0, Count(p) - 1})})
        q == IF shift THEN ShiftTo(p, n, selectLast \/ n # n0) ELSE p
    IN  [q EXCEPT !.current = n]

Place(path, name) == [path |-> path, current |-> name]
SetCurrentName(p, name) ==
    IF FindName(p, name) < 0 THEN p ELSE SetCurrent(p, FindName(p, name), FALSE, FALSE)
-----------------------------------------------------------------------------
PanelInit ==
    /\ pn = [places |-> <<Place("/", NoFile)>>,     \* _place
             of |-> "/",                            \* the place the list was read from
             files |-> {}, list |-> <<>>,
             selected |-> {}, counter |-> Counter({}),
             current |-> 0,
             mode |-> "name", asc |-> TRUE, hidden |-> FALSE,
             shift |-> "undefined",                 \* NCWin::_shiftSelectType
             loc |-> 0]                             \* _operCursorLoc
    /\ pnLoad = [state |-> "idle"]

Changes(p) == pn' = p /\ UNCHANGED pnLoad

\* without Shift the type of the selection is forgotten
Keyed(shift) == IF shift THEN pn ELSE [pn EXCEPT !.shift = "undefined"]

KeyMove ==
    \E shift \in BOOLEAN :
        \/ \E n \in {-1, 1, PnPage - 1, 1 - PnPage} :
            Changes(SetCurrent(Keyed(shift), pn.current + n, shift, FALSE))
        \/ \E n \in {0, Count(pn) - 1, pn.current - PnPage, pn.current + PnPage} :
            Changes(SetCurrent(Keyed(shift), n, shift, TRUE))

Inverted(p, f) ==
    IF f = NoFile THEN p
    ELSE IF f \in p.selected THEN [p EXCEPT !.selected = @ \ {f}, !.counter = SubOne(@, f)]
    ELSE [p EXCEPT !.selected = @ \cup {f}, !.counter = AddOne(@, f)]

KeyIns == Changes(SetCurrent(Inverted(Keyed(FALSE), GetCurrent(pn)), pn.current + 1, FALSE, FALSE))

Marked(p, S) == [p EXCEPT !.selected = S, !.counter = Counter(S)]
InvertSelection ==
    Changes(Marked(pn, {f \in ToSet(pn.list) : f \notin pn.selected /\ f \notin PnDirs}))
Mark ==
    \E mask \in {PnDirs, DOMAIN PnSize}, enable \in BOOLEAN :
        Changes(Marked(pn, IF enable THEN pn.selected \cup (mask \cap ToSet(pn.list))
                           ELSE pn.selected \ mask))

\* what a copy or a deletion has finished is unmarked
ClearSelection == \E f \in pn.selected : Changes(Marked(pn, pn.selected \ {f}))

SortBy ==
    \E mode \in PnModes :
        LET asc == IF pn.mode = mode THEN ~pn.asc ELSE mode = "name"
        IN  Changes(SetCurrentName(Sorted([pn EXCEPT !.mode = mode, !.asc = asc]), GetCurrent(pn)))
DisableSort == Changes(SetCurrentName(MakeList([pn EXCEPT !.mode = "none"]), GetCurrent(pn)))

\* Mutant: the cursor stays at its line.
ShowHiddenHere == Changes(SetCurrent(Sorted(MakeList([pn EXCEPT !.hidden = ~@])), pn.current, FALSE, FALSE))

\* Broadcast: the settings have been changed
ShowHidden ==
    LET p == Sorted(MakeList([pn EXCEPT !.hidden = ~@]))
    IN  Changes(SetCurrent(p, FindName(p, GetCurrent(pn)), FALSE, FALSE))

-----------------------------------------------------------------------------
(***************************************************************************)
(* Reading.  name is the entry the cursor is to be put on, NoFile if there *)
(* is none; _operCursorLoc is left alone then.                             *)
(***************************************************************************)
LoadPath(p, path, name, selected, type) ==
    /\ pnLoad' = [state |-> "reads", path |-> path, name |-> name, selected |-> selected,
                  known |-> name \in ToSet(p.list), type |-> type]
    /\ pn' = IF name = NoFile THEN p ELSE [p EXCEPT !.loc = FindName(p, name)]

Reread == LoadPath(pn, Top(pn), GetCurrent(pn), pn.selected, "reset")
DirEnter ==
    \/ GetCurrent(pn) = SubDir /\ Top(pn) = "/" /\ LoadPath(pn, "/d", NoFile, {}, "reset")
    \/ GetCurrent(pn) = Archive /\ Top(pn) \in {"/", "/d"} /\ LoadPath(pn, "archive", NoFile, {}, "push")
DirRoot == LoadPath(pn, IF Top(pn) = "archive" THEN "archive" ELSE "/", NoFile, {}, "reset")

\* The root of an archive is left at once: until its parent has been read, and for
\* good if it cannot be, the panel shows the files of the one under the path of the
\* other.  With "/" for the other they are shown without the line "..".
DirUp ==
    \/ Top(pn) = "/d" /\ LoadPath(pn, "/", SubDir, {}, "reset")
    \/ Len(pn.places) > 1
       /\ LET p == [pn EXCEPT !.places = Front(@)]
          IN  LoadPath(p, Top(p), Last(p.places).current, p.selected, "reset")

\* FindExactOrClosestSucceeding: the first that does not precede the entry
Closest(p, name) ==
    LET before == {i \in DOMAIN p.list : Precedes(p, p.list[i], name)}
        i == Cardinality(before)
    IN  IF p.list = <<>> THEN Offset(p) - 1
        ELSE (IF i > 0 /\ i >= Len(p.list) THEN i - 1 ELSE i) + Offset(p)

\* the list is put in, and the cursor on its entry, or as near to it as the order
\* of the list tells
Restored(p, name, known) ==
    LET n == FindName(p, name)
        near == IF known THEN Closest(p, name) ELSE 0
    IN  IF name # NoFile /\ n > 0 THEN SetCurrent(p, n, FALSE, FALSE)
        ELSE IF p.mode = "none" THEN SetCurrent(p, p.loc, FALSE, FALSE)
        ELSE IF near > 0 THEN SetCurrent(p, near, FALSE, FALSE)
        ELSE SetCurrent(p, 0, FALSE, FALSE)

\* the place that is left keeps the name of the entry
LeftAt(places, name) ==
    Front(places) \o <<[Last(places) EXCEPT !.current = IF name = NoFile THEN @ ELSE name]>>
Placed(p, l) ==
    CASE l.type = "push" ->
            [p EXCEPT !.places = Append(LeftAt(@, GetCurrent(p)), Place(l.path, NoFile))]
      [] l.type = "reset" -> [p EXCEPT !.places[Len(p.places)].path = l.path]

OperThreadStopped ==
    /\ pnLoad.state = "reads"
    /\ \/ \E files \in PnContents[pnLoad.path] :
            LET p == [Placed(pn, pnLoad) EXCEPT !.files = files, !.selected = {}, !.of = pnLoad.path]
                q == Sorted(MakeList(p))
            IN  pn' = Restored(Marked(q, pnLoad.selected \cap ToSet(q.list)), pnLoad.name, pnLoad.known)
       \/ UNCHANGED pn      \* it could not be read
    /\ pnLoad' = [state |-> "idle"]

PanelNext ==
    \/ KeyMove \/ KeyIns \/ InvertSelection \/ Mark \/ ClearSelection
    \/ SortBy \/ DisableSort \/ ShowHidden
    \/ Reread \/ DirEnter \/ DirRoot \/ DirUp \/ OperThreadStopped

PnSpec == PanelInit /\ [][PanelNext]_panelVars
-----------------------------------------------------------------------------
(***************************************************************************)
(* Properties.                                                             *)
(***************************************************************************)
(***************************************************************************)
(* The list holds the files that are to be shown, each once and in order;  *)
(* the files marked are among them, and the counter in the footer, which   *)
(* some operations add to and others compute, is theirs; the cursor is on  *)
(* a line the list had when it was read.  Of the lines it has now it may   *)
(* be one short: when an archive has been left for "/", which shows no     *)
(* "..", the line behind the last may have the cursor (DirUp).             *)
(***************************************************************************)
PanelExact ==
    /\ ToSet(pn.list) = Shown(pn) /\ IsInjective(pn.list)
    /\ pn.mode # "none" =>
        \A i, j \in DOMAIN pn.list : i < j => Precedes(pn, pn.list[i], pn.list[j])
    /\ pn.selected \subseteq ToSet(pn.list)
    /\ pn.counter = Counter(pn.selected)
    /\ pn.current \in 0..Max({0, CountAsRead(pn) - 1})
    /\ pn.current > Max({0, Count(pn) - 1}) => Top(pn) = "/" /\ pn.of = "archive"

(***************************************************************************)
(* What sorts, filters or rereads the list leaves the cursor on its entry, *)
(* if that is still shown.  Excluded is a list without an order that is    *)
(* read again (OperThreadStopped does not find the entry with index 0).    *)
(***************************************************************************)
CursorStays ==
    [][pn'.list # pn.list =>
        LET entry == IF pnLoad' = pnLoad THEN GetCurrent(pn) ELSE pnLoad.name
        IN  entry \in ToSet(pn'.list) /\ (pnLoad' = pnLoad \/ pn.mode # "none")
                => GetCurrent(pn') = entry]_panelVars
=============================================================================
