----------------------------- MODULE TextSearch -----------------------------
(***************************************************************************)
(* The search for a text in a file that is read piece by piece: of the     *)
(* viewer (VSThreadFunc, ncview.cpp) and of the file search (TextSearch,   *)
(* filesearch.cpp), with the searchers of search-tools.cpp.                *)
(*                                                                         *)
(* A searcher is a sequence of nodes, one per character of the text: the   *)
(* bytes of the character and, when the case does not matter, those of its *)
(* other case, which may be of another length.  The file search has one    *)
(* searcher per character set, the viewer has one.                         *)
(***************************************************************************)
EXTENDS Integers, Sequences, SequencesExt

CONSTANTS
    TsFiles,        \* the files, sequences of bytes
    TsSearchers,    \* the sequences of searchers
    TsBufSize       \* 16000 in the code

\* The byte 0, that no text holds.
Zero == "0"

\* A form of a character is some bytes; a character has one form or two.
Form(w) == w \in Seq(STRING) /\ Zero \notin Range(w)
ASSUME TextAssumption ==
    /\ TsBufSize \in Nat \ {0} /\ TsFiles \subseteq Seq(STRING)
    /\ \A ss \in TsSearchers : ss \in Seq(Range(ss)) /\ ss # <<>>
    /\ \A ss \in TsSearchers : \A s \in Range(ss) : s \in Seq(Range(s)) /\ s # <<>>
    /\ \A ss \in TsSearchers : \A s \in Range(ss) : \A node \in Range(s) :
            Form(node.a) /\ node.a # <<>> /\ Form(node.b)

VARIABLES
    tsJob,      \* what is searched: [who, file, from, searchers]
    tsBuf,      \* the buffer
    tsCount,    \* how many of its bytes are in use
    tsOffset,   \* the place of the buffer's first byte in the file (viewer)
    tsRead,     \* how much of the file has been read
    tsPieces,   \* in how many pieces
    tsFound,    \* what has been found: [at, len] in the buffer's file, or NotFound
    tsPc

tsVars == <<tsJob, tsBuf, tsCount, tsOffset, tsRead, tsPieces, tsFound, tsPc>>

NotFound == [at |-> 0, len |-> 0]

-----------------------------------------------------------------------------
(* The searchers.                                                          *)

StartsWith(s, at, w) ==
    \A i \in 1..Len(w) : at + i - 1 <= Len(s) /\ s[at + i - 1] = w[i]

\* The bytes of the node that s has at the place, as their number; else 0.
Eq(node, s, at) ==
    IF StartsWith(s, at, node.a) THEN Len(node.a)
    ELSE IF node.b # <<>> /\ StartsWith(s, at, node.b) THEN Len(node.b)
    ELSE 0

\* The number of bytes of the text found at the place; not more than 0 if it is
\* not there.
MatchLen(searcher, s, at) ==
    LET upTo[k \in 0..Len(searcher)] ==
            IF k = 0 THEN 0
            ELSE IF upTo[k - 1] < 0 \/ Eq(searcher[k], s, at + upTo[k - 1]) = 0 THEN -1
            ELSE upTo[k - 1] + Eq(searcher[k], s, at + upTo[k - 1])
    IN  upTo[Len(searcher)]

\* The first place below end where the text begins (VSearchStr), or 0.
VSearchStr(searcher, s, end) ==
    LET places == {at \in 1..end - 1 : MatchLen(searcher, s, at) > 0}
    IN  IF places = {} THEN 0 ELSE CHOOSE at \in places : \A p \in places : at <= p

\* The first searcher that finds its text, whatever the others find before it.
MegaSearch(ss, s, end) ==
    LET found == {i \in DOMAIN ss : VSearchStr(ss[i], s, end) > 0}
    IN  IF found = {} THEN NotFound
        ELSE LET i == CHOOSE j \in found : \A k \in found : j <= k
                 at == VSearchStr(ss[i], s, end)
             IN  [at |-> at, len |-> MatchLen(ss[i], s, at)]

Smaller(m, n) == IF m < n THEN m ELSE n
Larger(m, n) == IF m < n THEN n ELSE m

NodeMin(node) == IF node.b = <<>> THEN Len(node.a) ELSE Smaller(Len(node.a), Len(node.b))
NodeMax(node) == Larger(Len(node.a), Len(node.b))

Total(widths) ==
    LET sum[k \in 0..Len(widths)] == IF k = 0 THEN 0 ELSE sum[k - 1] + widths[k]
    IN  sum[Len(widths)]
VMinLen(searcher) == Total([k \in 1..Len(searcher) |-> NodeMin(searcher[k])])
VMaxLen(searcher) == Total([k \in 1..Len(searcher) |-> NodeMax(searcher[k])])

MinLen(ss) == Min({VMinLen(s) : s \in Range(ss)})

\* The file search asks MegaSearcher::MaxLen, the longest MinLen.
MaxLen(who, ss) == IF who = "view" THEN VMaxLen(ss[1]) ELSE Max({VMinLen(s) : s \in Range(ss)})

\* The buffer of 16000 bytes is longer than two texts.  How much the forms of a
\* character differ in length does not matter: in UTF-8 k has one byte, and the
\* sign for Kelvin, of which it is the other case, three.
ASSUME LengthAssumption ==
    \A ss \in TsSearchers : \A i \in DOMAIN ss : 2 * VMaxLen(ss[i]) <= TsBufSize + 1

-----------------------------------------------------------------------------
Max0 == MaxLen(tsJob.who, tsJob.searchers)
Min0 == MinLen(tsJob.searchers)

\* The places up to which the viewer and the file search fill the buffer.
Capacity == IF tsJob.who = "view" THEN TsBufSize + Max0 ELSE TsBufSize

TsInit ==
    /\ tsJob \in [who : {"view", "files"}, file : TsFiles, from : 0..2, searchers : TsSearchers]
    /\ tsJob.who = "view" => Len(tsJob.searchers) = 1
    /\ tsJob.who = "files" => tsJob.from = 0
    /\ tsJob.from <= Len(tsJob.file)
    /\ tsBuf = [i \in 1..TsBufSize + Max0 |-> Zero]
    /\ tsCount = 0 /\ tsOffset = tsJob.from /\ tsRead = 0 /\ tsPieces = 0
    /\ tsFound = NotFound
    /\ tsPc = "read"

Left == Len(tsJob.file) - tsJob.from - tsRead

\* The buffer with the next n bytes of the file after its first k.
WithBytes(k, n) ==
    [i \in DOMAIN tsBuf |->
        IF i \in k + 1..k + n THEN tsJob.file[tsJob.from + tsRead + i - k] ELSE tsBuf[i]]

\* Mutant: the viewer's next piece overwrites what is left of the last one, as
\* that of the file search does.
BehindNothing == 0

\* Where the next piece is put: the viewer puts it behind the bytes that are
\* left, and the file search at the buffer's beginning, though it counts both.
Behind == IF tsJob.who = "view" THEN tsCount ELSE 0

\* A piece is read.  VFile::ReadBlock returns all that is asked for, and Read as
\* much as it likes.  At the end of the file the rest is searched.
Read ==
    /\ tsPc = "read"
    /\ IF Left = 0
       THEN /\ tsPc' = IF tsPieces = 0 THEN "done" ELSE "rest"
            /\ UNCHANGED <<tsBuf, tsCount, tsRead, tsPieces>>
       ELSE \E n \in 1..Smaller(Left, Capacity - Behind) :
                /\ tsJob.who = "view" => n = Smaller(Left, Capacity - Behind)
                /\ tsBuf' = WithBytes(Behind, n)
                /\ tsCount' = tsCount + n
                /\ tsRead' = tsRead + n
                /\ tsPieces' = tsPieces + 1
                /\ tsPc' = "search"
    /\ UNCHANGED <<tsJob, tsOffset, tsFound>>

\* The viewer's search fails with an exception; the file search returns the
\* failure, whatever it finds in the rest.
ReadFails ==
    /\ tsPc = "read"
    /\ tsPc' = "failed"
    /\ UNCHANGED <<tsJob, tsBuf, tsCount, tsOffset, tsRead, tsPieces, tsFound>>

\* What is in the buffer is searched, except for the last bytes, where the text
\* may not be whole: they are moved to the buffer's beginning.
SearchPiece ==
    /\ tsPc = "search"
    /\ LET n == tsCount - Max0 + 1
           found == MegaSearch(tsJob.searchers, tsBuf, n + 1)
           t == tsCount - n
       IN  IF n <= 0 THEN tsPc' = "read" /\ UNCHANGED <<tsBuf, tsCount, tsOffset, tsFound>>
           ELSE IF found # NotFound
           THEN /\ tsFound' = [found EXCEPT !.at = @ + tsOffset]
                /\ tsPc' = "done" /\ UNCHANGED <<tsBuf, tsCount, tsOffset>>
           ELSE /\ tsBuf' = [i \in DOMAIN tsBuf |-> IF i <= t THEN tsBuf[n + i] ELSE tsBuf[i]]
                /\ tsCount' = t
                /\ tsOffset' = tsOffset + n
                /\ tsPc' = "read" /\ UNCHANGED tsFound
    /\ UNCHANGED <<tsJob, tsRead, tsPieces>>

\* Texts shorter than the longest one may be in the last bytes: they are
\* searched with zeros behind them.
SearchRest ==
    /\ tsPc = "rest"
    /\ LET zeros == Smaller(Max0 - Min0, Larger(Capacity - tsCount, 0))
           buf == [i \in DOMAIN tsBuf |-> IF i \in tsCount + 1..tsCount + zeros THEN Zero ELSE tsBuf[i]]
           n == tsCount + zeros - Max0 + 1
           found == MegaSearch(tsJob.searchers, buf, n + 1)
       IN  IF Min0 < Max0 /\ n > 0 /\ found # NotFound
           THEN tsFound' = [found EXCEPT !.at = @ + tsOffset]
           ELSE UNCHANGED tsFound
    /\ tsPc' = "done"
    /\ UNCHANGED <<tsJob, tsBuf, tsCount, tsOffset, tsRead, tsPieces>>

TsNext == Read \/ ReadFails \/ SearchPiece \/ SearchRest

TsSpec == TsInit /\ [][TsNext]_tsVars
-----------------------------------------------------------------------------
\* The places of the whole file at which a searcher finds its text.
Occurrences(s) == {at \in tsJob.from + 1..Len(tsJob.file) : MatchLen(s, tsJob.file, at) > 0}

\* The viewer finds a text wherever the pieces it reads are divided, and the
\* first one behind the place it starts from, with its length; it finds nothing
\* only if there is nothing (VSThreadFunc).  The file search reports a file that
\* one call of Read returned whole if and only if one of its texts is in it
\* (OperSearchThread::TextSearch): of larger files it misses texts.
TextFound ==
    tsPc = "done" =>
        IF tsJob.who = "view"
        THEN LET s == tsJob.searchers[1]
             IN  IF Occurrences(s) = {} THEN tsFound = NotFound
                 ELSE /\ tsFound.at \in Occurrences(s)
                      /\ \A at \in Occurrences(s) : tsFound.at <= at
                      /\ tsFound.len = MatchLen(s, tsJob.file, tsFound.at)
        ELSE tsPieces = 1 /\ Left = 0 =>
                (tsFound # NotFound <=> \E i \in DOMAIN tsJob.searchers : Occurrences(tsJob.searchers[i]) # {})
=============================================================================
