------------------------------ MODULE TermOut -------------------------------
(***************************************************************************)
(* What the user types on its way to the shell (terminal.h, terminal.cpp): *)
(* the window puts bytes into a queue of buffers, the output thread takes  *)
(* them and writes them to the pseudo terminal.  And the coding of         *)
(* characters: OutAppendUnicode, and AddCh of t-emulator.cpp, which        *)
(* decodes what programs print.                                            *)
(***************************************************************************)
EXTENDS Integers, Sequences, SequencesExt

CONSTANTS
    ToKey,      \* what a key may send: a set of sequences of bytes
    ToSize,     \* BUFSIZE: the bytes of one buffer of the queue
    ToTake,     \* the bytes the thread takes at a time
    ToMax       \* bound: the bytes that are typed

ASSUME ToAssumption ==
    ToKey \subseteq Seq(Nat) /\ ToSize \in Nat \ {0} /\ ToTake \in Nat /\ ToMax \in Nat

VARIABLES
    queue,      \* the list of buffers, each with the position of its first byte
    writer,     \* the output thread: where it is and the bytes in its hands
    typed,      \* all that has been put
    written,    \* all that has been written
    dropped     \* whether a write has failed

toVars == <<queue, writer, typed, written, dropped>>
-----------------------------------------------------------------------------
(***************************************************************************)
(* TerminalOutputQueue.                                                    *)
(***************************************************************************)
NewNode(c) == [pos |-> 1, buf |-> <<c>>]
PutByte(q, c) ==
    IF q = <<>> \/ Len(Last(q).buf) >= ToSize THEN Append(q, NewNode(c))
    ELSE [q EXCEPT ![Len(q)].buf = Append(@, c)]
PutAll(q, bytes) ==
    LET put[k \in 0..Len(bytes)] == IF k = 0 THEN q ELSE PutByte(put[k - 1], bytes[k])
    IN  put[Len(bytes)]
Byte(q) == Head(q).buf[Head(q).pos]
\* Mutant: a buffer is given up when its last byte is still to be taken.
AfterGetEarly(q) ==
    IF Head(q).pos + 1 >= Len(Head(q).buf) THEN Tail(q) ELSE [q EXCEPT ![1].pos = @ + 1]
AfterGet(q) ==
    IF Head(q).pos >= Len(Head(q).buf) THEN Tail(q) ELSE [q EXCEPT ![1].pos = @ + 1]
GetByte(r) ==
    IF r.q = <<>> THEN r
    ELSE [q |-> AfterGet(r.q), bytes |-> Append(r.bytes, Byte(r.q))]
\* Terminal::ReadOutput: up to n bytes.
ReadOutput(q, n) ==
    LET read[k \in 0..n] ==
            IF k = 0 THEN [q |-> q, bytes |-> <<>>] ELSE GetByte(read[k - 1])
    IN  read[n]
Unread(node) == SubSeq(node.buf, node.pos, Len(node.buf))
Contents(q) == FlattenSeq([k \in DOMAIN q |-> Unread(q[k])])
-----------------------------------------------------------------------------
ToInit ==
    /\ queue = <<>> /\ typed = <<>> /\ written = <<>> /\ dropped = FALSE
    /\ writer = [at |-> "read", bytes |-> <<>>]

\* Terminal::Output and UnicodeOutput, under the mutex
Output ==
    /\ \E key \in ToKey :
        /\ Len(typed) + Len(key) <= ToMax
        /\ queue' = PutAll(queue, key) /\ typed' = typed \o key
    /\ UNCHANGED <<writer, written, dropped>>
\* Under the mutex as well.  When there is nothing the thread waits once, and
\* ends, whether or not it was woken by the signal of a key.
TakeOutput ==
    /\ writer.at = "read"
    /\ LET r == ReadOutput(queue, ToTake) IN
       /\ queue' = r.q
       /\ writer' = IF r.bytes = <<>> THEN [writer EXCEPT !.at = "wait"]
                    ELSE [at |-> "write", bytes |-> r.bytes]
    /\ UNCHANGED <<typed, written, dropped>>
EndWait ==
    /\ writer.at = "wait" /\ writer' = [writer EXCEPT !.at = "gone"]
    /\ UNCHANGED <<queue, typed, written, dropped>>
\* TerminalStream::Write: the system takes some of the bytes, or fails.
WriteSome ==
    /\ writer.at = "write"
    /\ \/ \E n \in 1..Len(writer.bytes) :
            /\ written' = written \o SubSeq(writer.bytes, 1, n)
            /\ writer' = IF n = Len(writer.bytes) THEN [at |-> "read", bytes |-> <<>>]
                         ELSE [writer EXCEPT !.bytes = SubSeq(@, n + 1, Len(@))]
            /\ UNCHANGED dropped
       \/ /\ dropped' = TRUE /\ UNCHANGED written
          /\ writer' = [at |-> "read", bytes |-> <<>>]
    /\ UNCHANGED <<queue, typed>>

ToNext == Output \/ TakeOutput \/ EndWait \/ WriteSome
ToSpec == ToInit /\ [][ToNext]_toVars
-----------------------------------------------------------------------------
(***************************************************************************)
(* The coding of characters, and its reverse.  A character from 0x800 on   *)
(* is put with its bytes in the reverse order.                             *)
(***************************************************************************)
Low6(c) == 128 + (c % 64)
OutAppendUnicode(c) ==
    CASE c = 0 -> <<>>
      [] c \in 1..127 -> <<c>>
      [] c \in 128..2047 -> <<192 + (c \div 64), Low6(c)>>
      [] c \in 2048..65535 -> <<Low6(c), Low6(c \div 64), 224 + ((c \div 4096) % 16)>>
      [] OTHER -> <<Low6(c), Low6(c \div 64), Low6(c \div 4096), 240 + ((c \div 262144) % 8)>>

\* The decoder's state: the bytes that are missing, the character so far, and
\* the characters printed.
Printed(d) == [d EXCEPT !.out = Append(@, d.char)]
AddCh(d, ch) ==
    IF d.count > 0
    THEN IF ch \div 64 = 2
         THEN LET e == [d EXCEPT !.char = @ * 64 + (ch % 64), !.count = @ - 1]
              IN  IF e.count # 0 THEN e ELSE Printed(e)
         ELSE Printed([d EXCEPT !.count = 0])
    ELSE CASE ch \div 32 = 6 -> [d EXCEPT !.char = ch % 32, !.count = 1]
           [] ch \div 16 = 14 -> [d EXCEPT !.char = ch % 16, !.count = 2]
           [] OTHER -> Printed([d EXCEPT !.char = ch])
Decode(bytes) == FoldLeft(AddCh, [count |-> 0, char |-> 0, out |-> <<>>], bytes).out
-----------------------------------------------------------------------------
(***************************************************************************)
(* What is typed reaches the shell in the order in which it was typed,     *)
(* none of it twice and none left out: what has been written, what the     *)
(* output thread holds and what the buffers hold make up what was typed    *)
(* (terminal.h 44-95, terminal.cpp 290-297 and 432-489).  A write that     *)
(* fails loses bytes; that the thread ends and the rest stays in the queue *)
(* for ever is not excluded.                                               *)
(***************************************************************************)
TypedInOrder == ~dropped => written \o writer.bytes \o Contents(queue) = typed
=============================================================================
