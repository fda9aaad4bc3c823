-------------------------- MODULE OperThreadProofs ---------------------------
(***************************************************************************)
(* Proofs about the threads, for every set of nodes, windows, messages and *)
(* askers and every depth of the user-interface thread's stack.  First the *)
(* window threads (WinThreads): their invariants, and that they implement  *)
(* the mail boxes of ThreadMail (ImplementsMail).  Then the operation      *)
(* threads (OperThread): every step of them is one of the window threads,  *)
(* or leaves these alone, so that what the first part shows of the window  *)
(* threads may be used throughout the second.                              *)
(***************************************************************************)
EXTENDS OperThread, SequenceTheorems, TLAPS

-----------------------------------------------------------------------------
(* The window threads.                                                     *)

Last == cmdQueue[Len(cmdQueue)]

\* How the frames lie on one another: AppRun's loop at the bottom, handlers on
\* wth_DoEvents, wth_DoEvents on a loop, and a loop that has not begun is
\* always the innermost frame.
Shape(s) ==
    /\ s \in Seq(Frames) /\ s # <<>>
    /\ s[1].at = "loop" /\ s[1].win = MainWin
    /\ \A i \in 1..Len(s) :
          /\ s[i].at = "enter" => i = Len(s)
          /\ s[i].at = "events" => i > 1 /\ s[i - 1].at = "loop"
          /\ s[i].at \in {"signal", "stopped"} =>
                i > 1 /\ s[i - 1].at = "events" /\ s[i].p \in Node

StackShape == Shape(stack)

\* The command slots and the queue agree.
QueueShape ==
    /\ QueuedOnce
    /\ \A n \in Queued : cmd[n] # "NONE"
    /\ \A n \in Queued : n \in thList <=> cmd[n] = "EVENT"
    /\ \A n \in thList : cmd[n] # "END"
    /\ \A n \in thList : cmd[n] = "EVENT" => n \in Queued

\* The run of wth_DoEvents that will reach the end of the queue, when the
\* event is not signaled.  Its handler is not working for the last node, which
\* would end the run: the last node would have been queued again and the event
\* signaled.
Responsible(i) ==
    /\ stack[i].at = "events"
    /\ stack[i].p = Last
    /\ \A j \in FrameIds : j > i => stack[j].at # "loop"
    /\ i + 1 \in FrameIds => stack[i + 1].p # Last

Coverage ==
    ~signaled /\ cmdQueue # <<>> => \E i \in FrameIds : Responsible(i)

\* The nodes that something can still reach are allocated, and a node that is
\* being stopped is reached by its ThreadStopped alone.
NodeShape ==
    /\ Queued \cup thList \cup winList \subseteq alloc
    /\ \A i \in FrameIds : stack[i].at = "stopped" =>
          stack[i].p \in alloc \ (Queued \cup thList \cup winList)
    /\ \A i, j \in FrameIds :
          stack[i].at = "stopped" /\ stack[j].at = "stopped"
             /\ stack[i].p = stack[j].p => i = j

\* The windows that exist are those of the loops, each of which has one, and a
\* handler works for the window of a loop below it.
WindowShape ==
    /\ \A x \in open : \E i \in FrameIds :
          stack[i].at \in {"loop", "enter"} /\ stack[i].win = x
    /\ \A i \in FrameIds :
          stack[i].at \in {"loop", "enter"} => stack[i].win \in open
    /\ \A i, j \in FrameIds :
          stack[i].at \in {"loop", "enter"} /\ stack[j].at \in {"loop", "enter"}
             /\ stack[i].win = stack[j].win => i = j
    /\ \A i \in FrameIds : stack[i].at \in {"signal", "stopped"} =>
          \E j \in FrameIds :
             j < i /\ stack[j].at = "loop" /\ stack[j].win = stack[i].win

\* wth_DropWindow finds every node that still points to the window.
OwnerShape ==
    \A n \in thList \cup Queued :
       w[n] # None => n \in winList /\ w[n] \in open

\* What holds whether or not handlers throw.
IInv == TypeOK /\ StackShape /\ QueueShape /\ NodeShape /\ WindowShape /\ OwnerShape

-----------------------------------------------------------------------------
(* Stacks of frames.                                                       *)

LEMMA PopSeq ==
    ASSUME NEW s \in Seq(Frames), NEW k \in Nat, k <= Len(s)
    PROVE  /\ Pop(s, k) \in Seq(Frames)
           /\ Len(Pop(s, k)) = Len(s) - k
           /\ \A i \in 1..(Len(s) - k) : Pop(s, k)[i] = s[i]
<1>1. Len(s) \in Nat /\ Len(s) - k \in Nat
  OBVIOUS
<1>2. \A i \in 1..(Len(s) - k) : i \in 1..Len(s)
  BY <1>1
<1> QED
  BY <1>1, <1>2, SubSeqProperties DEF Pop

LEMMA PopShape ==
    ASSUME NEW s, Shape(s), NEW k \in Nat, k < Len(s)
    PROVE  /\ Shape(Pop(s, k))
           /\ Len(Pop(s, k)) = Len(s) - k
           /\ \A i \in 1..(Len(s) - k) : Pop(s, k)[i] = s[i]
<1> DEFINE t == Pop(s, k)
<1>1. s \in Seq(Frames) /\ Len(s) \in Nat /\ 1 <= Len(s) - k /\ k <= Len(s)
  BY DEF Shape
<1>2. /\ t \in Seq(Frames)
      /\ Len(t) = Len(s) - k
      /\ \A i \in 1..(Len(s) - k) : t[i] = s[i]
  BY <1>1, PopSeq
<1> HIDE DEF t
<1>3. t # <<>> /\ t[1].at = "loop" /\ t[1].win = MainWin
  BY <1>1, <1>2 DEF Shape
<1>4. ASSUME NEW i \in 1..Len(t)
      PROVE  /\ t[i].at = "enter" => i = Len(t)
             /\ t[i].at = "events" => i > 1 /\ t[i - 1].at = "loop"
             /\ t[i].at \in {"signal", "stopped"} =>
                   i > 1 /\ t[i - 1].at = "events" /\ t[i].p \in Node
  <2>1. i \in 1..Len(s) /\ t[i] = s[i] /\ (i > 1 => t[i - 1] = s[i - 1])
    BY <1>1, <1>2
  <2>2. s[i].at = "enter" => i = Len(t)
    BY <1>1, <1>2, <2>1 DEF Shape
  <2> QED
    BY <2>1, <2>2 DEF Shape
<1> QED
  BY <1>2, <1>3, <1>4 DEF Shape, t

LEMMA PushShape ==
    ASSUME NEW s, Shape(s), NEW f \in Frames,
           s[Len(s)].at # "enter",
           f.at = "events" => s[Len(s)].at = "loop",
           f.at \in {"signal", "stopped"} =>
               s[Len(s)].at = "events" /\ f.p \in Node
    PROVE  /\ Shape(Append(s, f))
           /\ Len(Append(s, f)) = Len(s) + 1
           /\ Append(s, f)[Len(s) + 1] = f
           /\ \A i \in 1..Len(s) : Append(s, f)[i] = s[i]
<1> DEFINE t == Append(s, f)
<1>1. s \in Seq(Frames) /\ Len(s) \in Nat /\ 1 <= Len(s)
  BY DEF Shape
<1>2. /\ t \in Seq(Frames)
      /\ Len(t) = Len(s) + 1
      /\ t[Len(s) + 1] = f
      /\ \A i \in 1..Len(s) : t[i] = s[i]
  BY <1>1
<1> HIDE DEF t
<1>3. t # <<>> /\ t[1].at = "loop" /\ t[1].win = MainWin
  BY <1>1, <1>2 DEF Shape
<1>4. ASSUME NEW i \in 1..Len(t)
      PROVE  /\ t[i].at = "enter" => i = Len(t)
             /\ t[i].at = "events" => i > 1 /\ t[i - 1].at = "loop"
             /\ t[i].at \in {"signal", "stopped"} =>
                   i > 1 /\ t[i - 1].at = "events" /\ t[i].p \in Node
  <2>1. CASE i = Len(s) + 1
    BY <1>1, <1>2, <2>1
  <2>2. CASE i \in 1..Len(s)
    <3>1. t[i] = s[i] /\ (i > 1 => t[i - 1] = s[i - 1])
      BY <1>1, <1>2, <2>2
    <3>2. s[i].at # "enter"
      BY <1>1, <2>2 DEF Shape
    <3> QED
      BY <2>2, <3>1, <3>2 DEF Shape
  <2> QED
    BY <1>1, <1>2, <2>1, <2>2
<1> QED
  BY <1>2, <1>3, <1>4 DEF Shape, t

LEMMA LoopShape ==
    ASSUME NEW s, Shape(s), s[Len(s)].at \in {"enter", "loop"},
           MainWin \in Window
    PROVE  LET t == Append(Pop(s, 1), Frame("loop", s[Len(s)].win, None))
           IN  /\ Shape(t) /\ Len(t) = Len(s)
               /\ t[Len(s)] = Frame("loop", s[Len(s)].win, None)
               /\ \A i \in 1..Len(s) : i # Len(s) => t[i] = s[i]
<1> DEFINE f == Frame("loop", s[Len(s)].win, None)
           r == Pop(s, 1)
           t == Append(r, f)
<1>1. s \in Seq(Frames) /\ Len(s) \in Nat /\ 1 <= Len(s)
  BY DEF Shape
<1>2. s[Len(s)] \in Frames
  BY <1>1
<1>3. f \in Frames /\ f.at = "loop" /\ f.win = s[Len(s)].win
  BY <1>2 DEF Frames, Frame, Kinds
<1>4. /\ r \in Seq(Frames) /\ Len(r) = Len(s) - 1
      /\ \A i \in 1..(Len(s) - 1) : r[i] = s[i]
  BY <1>1, PopSeq
<1> HIDE DEF f, r
<1>5. /\ t \in Seq(Frames) /\ Len(t) = Len(s) /\ t[Len(s)] = f
      /\ \A i \in 1..Len(s) : i # Len(s) => t[i] = s[i]
  BY <1>1, <1>3, <1>4
<1> HIDE DEF t
<1>6. t # <<>> /\ t[1].at = "loop" /\ t[1].win = MainWin
  BY <1>1, <1>3, <1>5 DEF Shape
<1>7. ASSUME NEW i \in 1..Len(t)
      PROVE  /\ t[i].at = "enter" => i = Len(t)
             /\ t[i].at = "events" => i > 1 /\ t[i - 1].at = "loop"
             /\ t[i].at \in {"signal", "stopped"} =>
                   i > 1 /\ t[i - 1].at = "events" /\ t[i].p \in Node
  <2>1. CASE i = Len(s)
    BY <1>3, <1>5, <2>1
  <2>2. CASE i # Len(s)
    <3>1. i \in 1..Len(s) /\ t[i] = s[i] /\ (i > 1 => t[i - 1] = s[i - 1])
      BY <1>1, <1>5, <2>2
    <3> QED
      BY <1>5, <2>2, <3>1 DEF Shape
  <2> QED
    BY <2>1, <2>2
<1> QED
  BY <1>5, <1>6, <1>7 DEF Shape, t, r, f

\* What is left of a stack when its innermost frames are removed.
Prefix(t, s) ==
    /\ Shape(t) /\ Len(t) <= Len(s)
    /\ \A i \in 1..Len(t) : t[i] = s[i]

LEMMA PrefixFacts ==
    ASSUME NEW s, Shape(s)
    PROVE  /\ Len(s) \in Nat /\ 1 <= Len(s)
           /\ s \in Seq(Frames) /\ s[Len(s)] \in Frames
           /\ \A i \in 1..Len(s) : s[i] \in Frames
           /\ Prefix(s, s)
<1>1. s \in Seq(Frames) /\ Len(s) \in Nat /\ 1 <= Len(s)
  BY DEF Shape
<1> QED
  BY <1>1 DEF Prefix

\* The end of a round takes the frame of wth_DoEvents away, or nothing.
LEMMA EndRoundShape ==
    ASSUME NEW s, Shape(s), s[Len(s)].at = "events", NEW p
    PROVE  /\ Prefix(EndRound(s, p), s)
           /\ Len(EndRound(s, p)) = IF p = s[Len(s)].p THEN Len(s) - 1 ELSE Len(s)
<1>1. Len(s) \in Nat /\ 1 < Len(s)
  BY PrefixFacts DEF Shape
<1>2. CASE p = s[Len(s)].p
  <2>1. EndRound(s, p) = Pop(s, 1)
    BY <1>2 DEF EndRound
  <2>2. /\ Shape(Pop(s, 1))
        /\ Len(Pop(s, 1)) = Len(s) - 1
        /\ \A i \in 1..(Len(s) - 1) : Pop(s, 1)[i] = s[i]
    BY <1>1, PopShape
  <2>3. Prefix(Pop(s, 1), s)
    BY <1>1, <2>2 DEF Prefix
  <2> QED  BY <1>2, <2>1, <2>2, <2>3
<1>3. CASE p # s[Len(s)].p
  BY <1>1, <1>3, PrefixFacts DEF EndRound
<1> QED
  BY <1>2, <1>3

\* A handler returns: its frame goes, and the round it was called in ends.
LEMMA ReturnShape ==
    ASSUME NEW s, Shape(s), s[Len(s)].at \in {"signal", "stopped"}, NEW p
    PROVE  /\ Prefix(EndRound(Pop(s, 1), p), s)
           /\ Len(EndRound(Pop(s, 1), p)) =
                 IF p = s[Len(s) - 1].p THEN Len(s) - 2 ELSE Len(s) - 1
<1> DEFINE r == Pop(s, 1)
<1>1. Len(s) \in Nat /\ 1 < Len(s) /\ s[Len(s) - 1].at = "events"
  BY PrefixFacts DEF Shape
<1>2. /\ Shape(r) /\ Len(r) = Len(s) - 1
      /\ \A i \in 1..(Len(s) - 1) : r[i] = s[i]
  BY <1>1, PopShape
<1> HIDE DEF r
<1>3. r[Len(r)] = s[Len(s) - 1]
  BY <1>1, <1>2
<1>4. /\ Prefix(EndRound(r, p), r)
      /\ Len(EndRound(r, p)) = IF p = s[Len(s) - 1].p THEN Len(r) - 1 ELSE Len(r)
  BY <1>1, <1>2, <1>3, EndRoundShape
<1>5. Len(EndRound(r, p)) \in Nat
  BY <1>4, PrefixFacts DEF Prefix
<1> QED
  BY <1>1, <1>2, <1>4, <1>5 DEF Prefix, r

Pushed(t, s, f) ==
    /\ Shape(t) /\ Len(t) = Len(s) + 1 /\ t[Len(s) + 1] = f
    /\ \A i \in 1..Len(s) : t[i] = s[i]

-----------------------------------------------------------------------------
(* What each action does to the stack.                                     *)

LEMMA StackFacts ==
    ASSUME TypeOK, StackShape
    PROVE  /\ Len(stack) \in Nat /\ 1 <= Len(stack)
           /\ Top \in Frames /\ Top = stack[Len(stack)]
           /\ Top.at \in {"events", "signal", "stopped"} => 1 < Len(stack)
           /\ Top.at \in {"signal", "stopped"} =>
                 Top.p \in Node /\ stack[Len(stack) - 1].at = "events"
BY PrefixFacts DEF StackShape, Shape, Top

LEMMA OpenEffect ==
    ASSUME TypeOK, StackShape, NEW x \in Window, OpenDialog(x)
    PROVE  Pushed(stack', stack, Frame("enter", x, None))
<1>1. Frame("enter", x, None) \in Frames /\ Frame("enter", x, None).at = "enter"
  BY DEF Frame, Frames, Kinds
<1>2. stack[Len(stack)].at # "enter"
  BY DEF OpenDialog, InUserCode, Top
<1> QED
  BY <1>1, <1>2, PushShape DEF OpenDialog, StackShape, Pushed

LEMMA CloseEffect ==
    ASSUME TypeOK, StackShape, CloseDialog
    PROVE  1 < Len(stack) /\ Prefix(stack', stack) /\ Len(stack') = Len(stack) - 1
<1>1. Len(stack) \in Nat /\ 1 < Len(stack)
  BY StackFacts DEF CloseDialog, StackShape, Shape, Top
<1> QED
  BY <1>1, PopShape DEF CloseDialog, StackShape, Prefix

LEMMA BeginEffect ==
    ASSUME TypeOK, StackShape, BeginEvents
    PROVE  /\ StackShape'
           /\ stack'[Len(stack)] = Frame("loop", Top.win, None)
           /\ \A i \in 1..Len(stack) : i # Len(stack) => stack'[i] = stack[i]
           /\ IF cmdQueue = <<>>
              THEN Len(stack') = Len(stack)
              ELSE /\ Len(stack') = Len(stack) + 1
                   /\ stack'[Len(stack) + 1] = Frame("events", None, Last)
<1> DEFINE t == Append(Pop(stack, 1), Frame("loop", Top.win, None))
<1>1. /\ Shape(t) /\ Len(t) = Len(stack)
      /\ t[Len(stack)] = Frame("loop", Top.win, None)
      /\ \A i \in 1..Len(stack) : i # Len(stack) => t[i] = stack[i]
  BY LoopShape, MainAssumption DEF StackShape, BeginEvents, Top
<1>2. t[Len(t)].at = "loop" /\ Len(stack) \in Nat
  BY <1>1, StackFacts DEF Frame
<1>3. stack' = IF cmdQueue = <<>> THEN t ELSE Append(t, Frame("events", None, Last))
  BY DEF BeginEvents, Last
<1> HIDE DEF t
<1>4. CASE cmdQueue = <<>>
  BY <1>1, <1>2, <1>3, <1>4 DEF StackShape
<1>5. CASE cmdQueue # <<>>
  <2>1. Last \in Node
    BY <1>5 DEF TypeOK, Last
  <2>2. Frame("events", None, Last) \in Frames /\ Frame("events", None, Last).at = "events"
    BY <2>1 DEF Frame, Frames, Kinds
  <2>3. Pushed(stack', t, Frame("events", None, Last))
    BY <1>1, <1>2, <1>3, <1>5, <2>2, PushShape DEF Pushed
  <2>4. \A i \in 1..Len(stack) : stack'[i] = t[i]
    BY <1>1, <2>3 DEF Pushed
  <2>5. /\ Shape(stack') /\ Len(stack') = Len(stack) + 1
        /\ stack'[Len(stack) + 1] = Frame("events", None, Last)
    BY <1>1, <2>3 DEF Pushed
  <2>6. Len(stack) \in 1..Len(stack)
    BY StackFacts
  <2> QED
    BY <1>1, <1>5, <2>4, <2>5, <2>6 DEF StackShape
<1> QED
  BY <1>4, <1>5

LEMMA EmptyEffect ==
    ASSUME TypeOK, StackShape, EmptyRound
    PROVE  Prefix(stack', stack)
<1>1. Len(stack) \in Nat /\ 1 < Len(stack) /\ stack' = Pop(stack, 1)
  BY StackFacts DEF EmptyRound
<1>2. /\ Shape(stack') /\ Len(stack') = Len(stack) - 1
      /\ \A i \in 1..(Len(stack) - 1) : stack'[i] = stack[i]
  BY <1>1, PopShape DEF StackShape
<1> QED
  BY <1>1, <1>2 DEF Prefix

LEMMA HeadFacts ==
    ASSUME TypeOK, cmdQueue # <<>>
    PROVE  /\ Head(cmdQueue) \in Node /\ Head(cmdQueue) = cmdQueue[1]
           /\ Len(cmdQueue) \in Nat /\ 1 <= Len(cmdQueue)
BY DEF TypeOK

LEMMA EventEffect ==
    ASSUME TypeOK, StackShape, EventRound
    PROVE  LET p == Head(cmdQueue)
           IN  IF w[p] = None
               THEN /\ Prefix(stack', stack)
                    /\ Len(stack') = IF p = Top.p THEN Len(stack) - 1 ELSE Len(stack)
               ELSE Pushed(stack', stack, Frame("signal", w[p], p))
<1> DEFINE p == Head(cmdQueue)
<1>1. p \in Node /\ Top.at = "events"
  BY HeadFacts DEF EventRound
<1>2. CASE w[p] = None
  BY <1>1, <1>2, EndRoundShape DEF EventRound, StackShape, Top
<1>3. CASE w[p] # None
  <2>1. Frame("signal", w[p], p) \in Frames /\ Frame("signal", w[p], p).at = "signal"
        /\ Frame("signal", w[p], p).p = p
    BY <1>1, <1>3 DEF TypeOK, Frame, Frames, Kinds
  <2> QED
    BY <1>1, <1>3, <2>1, PushShape DEF EventRound, StackShape, Top, Pushed
<1> QED
  BY <1>2, <1>3

LEMMA StopEffect ==
    ASSUME TypeOK, StackShape, StopRound
    PROVE  LET p == Head(cmdQueue)
           IN  IF w[p] = None
               THEN /\ Prefix(stack', stack)
                    /\ Len(stack') = IF p = Top.p THEN Len(stack) - 1 ELSE Len(stack)
               ELSE Pushed(stack', stack, Frame("stopped", w[p], p))
<1> DEFINE p == Head(cmdQueue)
<1>1. p \in Node /\ Top.at = "events"
  BY HeadFacts DEF StopRound
<1>2. CASE w[p] = None
  BY <1>1, <1>2, EndRoundShape DEF StopRound, StackShape, Top
<1>3. CASE w[p] # None
  <2>1. Frame("stopped", w[p], p) \in Frames /\ Frame("stopped", w[p], p).at = "stopped"
        /\ Frame("stopped", w[p], p).p = p
    BY <1>1, <1>3 DEF TypeOK, Frame, Frames, Kinds
  <2>2. stack' = Append(stack, Frame("stopped", w[p], p))
    BY <1>3 DEF StopRound
  <2> QED
    BY <1>1, <1>3, <2>1, <2>2, PushShape DEF StackShape, Top, Pushed
<1> QED
  BY <1>2, <1>3

LEMMA HandlerEffect ==
    ASSUME TypeOK, StackShape, Handlers
    PROVE  /\ Prefix(stack', stack) /\ Len(stack') < Len(stack)
           /\ ~MayThrow =>
                 Len(stack') = IF Top.p = stack[Len(stack) - 1].p
                               THEN Len(stack) - 2 ELSE Len(stack) - 1
<1>1. CASE SignalReturn \/ StoppedReturn \/ StoppedThrow
  <2>1. Top.at \in {"signal", "stopped"} /\ stack' = EndRound(Pop(stack, 1), Top.p)
    BY <1>1 DEF SignalReturn, StoppedReturn, StoppedThrow
  <2> QED
    BY <2>1, ReturnShape, StackFacts DEF StackShape, Top
<1>2. CASE SignalThrow
  <2>1. MayThrow /\ Len(stack) \in Nat /\ 3 < Len(stack) /\ stack' = Pop(stack, 3)
    BY <1>2, StackFacts DEF SignalThrow
  <2>2. /\ Shape(stack') /\ Len(stack') = Len(stack) - 3
        /\ \A i \in 1..(Len(stack) - 3) : stack'[i] = stack[i]
    BY <2>1, PopShape DEF StackShape
  <2> QED
    BY <2>1, <2>2 DEF Prefix
<1> QED
  BY <1>1, <1>2 DEF Handlers

LEMMA StackStep ==
    ASSUME TypeOK, StackShape, Next
    PROVE  StackShape'
<1>1. CASE \E n \in Node : Worker(n)
  BY <1>1 DEF Worker, EndThread, Signal, StackShape, Shape
<1>2. CASE UserCode
  BY <1>2, OpenEffect, CloseEffect
     DEF UserCode, CreateThread, StackShape, Prefix, Pushed
<1>3. CASE BeginEvents
  BY <1>3, BeginEffect
<1>4. CASE DoEvents
  BY <1>4, EmptyEffect, EventEffect, StopEffect
     DEF DoEvents, StackShape, Prefix, Pushed
<1>5. CASE Handlers
  BY <1>5, HandlerEffect DEF StackShape, Prefix
<1> QED
  BY <1>1, <1>2, <1>3, <1>4, <1>5 DEF Next

-----------------------------------------------------------------------------
(* The command queue.                                                      *)

Elems(q) == {q[i] : i \in 1..Len(q)}

Once(q) == \A i, j \in 1..Len(q) : q[i] = q[j] => i = j

LEMMA AppendElems ==
    ASSUME NEW q \in Seq(Node), NEW n \in Node
    PROVE  /\ Append(q, n) \in Seq(Node)
           /\ Elems(Append(q, n)) = Elems(q) \cup {n}
           /\ Once(q) /\ n \notin Elems(q) => Once(Append(q, n))
<1> DEFINE r == Append(q, n)
<1>1. /\ r \in Seq(Node) /\ Len(r) = Len(q) + 1 /\ Len(q) \in Nat
      /\ r[Len(q) + 1] = n /\ \A i \in 1..Len(q) : r[i] = q[i]
  OBVIOUS
<1> HIDE DEF r
<1>2. Elems(r) = Elems(q) \cup {n}
  <2>1. ASSUME NEW x \in Elems(r) PROVE x \in Elems(q) \cup {n}
    BY <1>1, <2>1 DEF Elems
  <2>2. ASSUME NEW x \in Elems(q) PROVE x \in Elems(r)
    <3>1. PICK i \in 1..Len(q) : x = q[i]
      BY DEF Elems
    <3>2. i \in 1..Len(r) /\ r[i] = x
      BY <1>1, <3>1
    <3> QED
      BY <3>2 DEF Elems
  <2>3. n \in Elems(r)
    <3>1. Len(q) + 1 \in 1..Len(r)
      BY <1>1
    <3> QED
      BY <1>1, <3>1 DEF Elems
  <2> QED
    BY <2>1, <2>2, <2>3
<1>3. ASSUME Once(q), n \notin Elems(q) PROVE Once(r)
  BY <1>1, <1>3 DEF Once, Elems
<1> QED
  BY <1>1, <1>2, <1>3 DEF r

LEMMA TailElems ==
    ASSUME NEW q \in Seq(Node), q # <<>>, Once(q)
    PROVE  /\ Tail(q) \in Seq(Node)
           /\ Head(q) \in Elems(q)
           /\ Elems(Tail(q)) = Elems(q) \ {Head(q)}
           /\ Once(Tail(q))
           /\ Tail(q) # <<>> => /\ Tail(q)[Len(Tail(q))] = q[Len(q)]
                               /\ Head(q) # q[Len(q)]
<1> DEFINE r == Tail(q)
<1>1. /\ r \in Seq(Node) /\ Len(r) = Len(q) - 1 /\ Len(q) \in Nat /\ 1 <= Len(q)
      /\ Head(q) = q[1]
      /\ \A i \in 1..(Len(q) - 1) : r[i] = q[i + 1]
  OBVIOUS
<1> HIDE DEF r
<1>2. Head(q) \in Elems(q)
  BY <1>1 DEF Elems
<1>3. ASSUME NEW x \in Elems(r) PROVE x \in Elems(q) \ {Head(q)}
  <2>1. PICK i \in 1..Len(r) : x = r[i]
    BY DEF Elems
  <2>2. i + 1 \in 1..Len(q) /\ x = q[i + 1] /\ 1 \in 1..Len(q) /\ i + 1 # 1
    BY <1>1, <2>1
  <2>3. x # q[1]
    BY <2>2 DEF Once
  <2> QED
    BY <1>1, <2>2, <2>3 DEF Elems
<1>4. ASSUME NEW x \in Elems(q) \ {Head(q)} PROVE x \in Elems(r)
  <2>1. PICK i \in 1..Len(q) : x = q[i]
    BY DEF Elems
  <2>2. i - 1 \in 1..Len(r) /\ r[i - 1] = x
    BY <1>1, <2>1
  <2> QED
    BY <2>2 DEF Elems
<1>5. Once(r)
  <2>1. SUFFICES ASSUME NEW i \in 1..Len(r), NEW j \in 1..Len(r), r[i] = r[j]
                 PROVE  i = j
    BY DEF Once
  <2>2. i + 1 \in 1..Len(q) /\ j + 1 \in 1..Len(q) /\ q[i + 1] = q[j + 1]
    BY <1>1, <2>1
  <2>3. i + 1 = j + 1
    BY <2>2 DEF Once
  <2> QED
    BY <1>1, <2>1, <2>3
<1>6. ASSUME r # <<>> PROVE r[Len(r)] = q[Len(q)] /\ Head(q) # q[Len(q)]
  <2>1. Len(r) \in 1..Len(r) /\ Len(q) \in 1..Len(q) /\ 1 \in 1..Len(q) /\ Len(q) # 1
    BY <1>1, <1>6
  <2>2. r[Len(r)] = q[Len(q)]
    BY <1>1, <2>1
  <2>3. q[1] # q[Len(q)]
    BY <2>1 DEF Once
  <2> QED
    BY <1>1, <2>2, <2>3
<1> QED
  BY <1>1, <1>2, <1>3, <1>4, <1>5, <1>6 DEF r

LEMMA QueueFacts == Queued = Elems(cmdQueue) /\ (QueuedOnce <=> Once(cmdQueue))
BY DEF Queued, Elems, QueuedOnce, Once

LEMMA EnqueueEffect ==
    ASSUME TypeOK, QueueShape, NEW n \in Node, n \in thList, Enqueue(n)
    PROVE  /\ cmdQueue' \in Seq(Node) /\ signaled'
           /\ Queued' = Queued \cup {n}
           /\ QueuedOnce'
<1>1. Queued' = Elems(cmdQueue') /\ (QueuedOnce' <=> Once(cmdQueue'))
  BY DEF Queued, Elems, QueuedOnce, Once
<1>2. Once(cmdQueue) /\ cmdQueue \in Seq(Node)
  BY QueueFacts DEF QueueShape, TypeOK
<1>3. CASE cmd[n] = "NONE"
  <2>1. n \notin Elems(cmdQueue)
    BY <1>3, QueueFacts DEF QueueShape
  <2> QED
    BY <1>1, <1>2, <1>3, <2>1, AppendElems, QueueFacts DEF Enqueue
<1>4. CASE cmd[n] # "NONE"
  <2>1. n \in Queued
    BY <1>4 DEF QueueShape, TypeOK
  <2> QED
    BY <1>1, <1>2, <1>4, <2>1, QueueFacts DEF Enqueue
<1> QED
  BY <1>3, <1>4

LEMMA DequeueEffect ==
    ASSUME TypeOK, QueueShape, cmdQueue # <<>>, cmdQueue' = Tail(cmdQueue)
    PROVE  /\ cmdQueue' \in Seq(Node)
           /\ Head(cmdQueue) \in Queued
           /\ Queued' = Queued \ {Head(cmdQueue)}
           /\ QueuedOnce'
<1>1. Queued' = Elems(cmdQueue') /\ (QueuedOnce' <=> Once(cmdQueue'))
  BY DEF Queued, Elems, QueuedOnce, Once
<1>2. Once(cmdQueue) /\ cmdQueue \in Seq(Node)
  BY QueueFacts DEF QueueShape, TypeOK
<1> QED
  BY <1>1, <1>2, TailElems, QueueFacts

LEMMA SameQueue ==
    ASSUME cmdQueue' = cmdQueue
    PROVE  Queued' = Queued /\ (QueuedOnce' <=> QueuedOnce) /\ Last' = Last
BY DEF Queued, QueuedOnce, Last

-----------------------------------------------------------------------------
(* Every step preserves the parts of the invariant.                        *)

LEMMA QueueStep ==
    ASSUME TypeOK, StackShape, QueueShape, NodeShape, Next
    PROVE  QueueShape'
<1>1. ASSUME NEW n \in Node, NEW d \in Data, Signal(n, d) PROVE QueueShape'
  <2>1. n \in thList /\ Queued' = Queued \cup {n} /\ QueuedOnce'
    BY <1>1, EnqueueEffect DEF Signal
  <2>2. thList' = thList /\ cmd' = [cmd EXCEPT ![n] = "EVENT"]
    BY <1>1 DEF Signal
  <2> QED
    BY <2>1, <2>2 DEF QueueShape, TypeOK
<1>2. ASSUME NEW n \in Node, EndThread(n) PROVE QueueShape'
  <2>1. n \in thList /\ Queued' = Queued \cup {n} /\ QueuedOnce'
    BY <1>2, EnqueueEffect DEF EndThread
  <2>2. thList' = thList \ {n} /\ cmd' = [cmd EXCEPT ![n] = "END"]
    BY <1>2 DEF EndThread
  <2> QED
    BY <2>1, <2>2 DEF QueueShape, TypeOK
<1>3. ASSUME NEW x \in Window, NEW n \in Node, CreateThread(x, n) PROVE QueueShape'
  <2>1. /\ n \notin alloc /\ thList' = thList \cup {n}
        /\ cmd' = [cmd EXCEPT ![n] = "NONE"] /\ cmdQueue' = cmdQueue
    BY <1>3 DEF CreateThread, queueVars
  <2>2. n \notin Queued
    BY <2>1 DEF NodeShape
  <2> QED
    BY <2>1, <2>2, SameQueue DEF QueueShape, TypeOK
<1>4. CASE EventRound
  <2> DEFINE p == Head(cmdQueue)
  <2>1. /\ cmdQueue # <<>> /\ cmdQueue' = Tail(cmdQueue)
        /\ cmd[p] = "EVENT" /\ cmd' = [cmd EXCEPT ![p] = "NONE"] /\ thList' = thList
    BY <1>4 DEF EventRound
  <2>2. p \in Queued /\ Queued' = Queued \ {p} /\ QueuedOnce'
    BY <2>1, DequeueEffect
  <2> QED
    BY <2>1, <2>2 DEF QueueShape, TypeOK
<1>5. CASE StopRound
  <2> DEFINE p == Head(cmdQueue)
  <2>1. /\ cmdQueue # <<>> /\ cmdQueue' = Tail(cmdQueue)
        /\ cmd[p] = "END" /\ cmd' = cmd /\ thList' = thList
    BY <1>5 DEF StopRound
  <2>2. p \in Queued /\ Queued' = Queued \ {p} /\ QueuedOnce'
    BY <2>1, DequeueEffect
  <2> QED
    BY <2>1, <2>2 DEF QueueShape, TypeOK
<1>6. ASSUME cmdQueue' = cmdQueue, cmd' = cmd, thList' = thList PROVE QueueShape'
  BY <1>6, SameQueue DEF QueueShape
<1>7. ASSUME NEW x \in Window, OpenDialog(x) PROVE QueueShape'
  BY <1>6, <1>7 DEF OpenDialog, nodeVars, queueVars
<1>8. CASE CloseDialog \/ BeginEvents \/ EmptyRound
  BY <1>6, <1>8 DEF CloseDialog, BeginEvents, EmptyRound, nodeVars, queueVars
<1>9. CASE Handlers
  BY <1>6, <1>9 DEF Handlers, SignalReturn, StoppedReturn, StoppedThrow, SignalThrow,
                    nodeVars, queueVars
<1> QED
  BY <1>1, <1>2, <1>3, <1>4, <1>5, <1>7, <1>8, <1>9
     DEF Next, Worker, UserCode, DoEvents

LEMMA TypeStep ==
    ASSUME TypeOK, StackShape, StackShape', QueueShape, Next
    PROVE  TypeOK'
<1>1. stack' \in Seq(Frames) /\ stack' # <<>>
  BY DEF StackShape, Shape
<1>2. ASSUME NEW n \in Node, NEW d \in Data, Signal(n, d) PROVE TypeOK'
  BY <1>1, <1>2, EnqueueEffect DEF Signal, Enqueue, TypeOK
<1>3. ASSUME NEW n \in Node, EndThread(n) PROVE TypeOK'
  BY <1>1, <1>3, EnqueueEffect DEF EndThread, Enqueue, TypeOK
<1>4. ASSUME NEW x \in Window, NEW n \in Node, CreateThread(x, n) PROVE TypeOK'
  BY <1>1, <1>4 DEF CreateThread, TypeOK, queueVars
<1>5. ASSUME NEW x \in Window, OpenDialog(x) PROVE TypeOK'
  BY <1>1, <1>5 DEF OpenDialog, TypeOK, nodeVars, queueVars
<1>6. CASE CloseDialog \/ SignalThrow
  BY <1>1, <1>6 DEF CloseDialog, SignalThrow, DropWindow, TypeOK, queueVars
<1>7. CASE BeginEvents
  BY <1>1, <1>7 DEF BeginEvents, TypeOK, nodeVars
<1>8. CASE EmptyRound
  BY <1>1, <1>8 DEF EmptyRound, TypeOK, nodeVars, queueVars
<1>9. CASE EventRound
  BY <1>1, <1>9, DequeueEffect DEF EventRound, TypeOK
<1>10. CASE StopRound
  BY <1>1, <1>10, DequeueEffect DEF StopRound, Free, TypeOK
<1>11. CASE SignalReturn \/ StoppedReturn \/ StoppedThrow
  BY <1>1, <1>11 DEF SignalReturn, StoppedReturn, StoppedThrow, Free, TypeOK,
                     nodeVars, queueVars
<1> QED
  BY <1>2, <1>3, <1>4, <1>5, <1>6, <1>7, <1>8, <1>9, <1>10, <1>11
     DEF Next, Worker, UserCode, DoEvents, Handlers

LEMMA NodeStep ==
    ASSUME TypeOK, StackShape, QueueShape, NodeShape, Next
    PROVE  NodeShape'
<1> DEFINE Reach == Queued \cup thList \cup winList
<1>0. Len(stack) \in Nat /\ Len(stack) \in FrameIds
  BY StackFacts DEF FrameIds
<1>1. ASSUME NEW n \in Node, NEW d \in Data, Signal(n, d) PROVE NodeShape'
  BY <1>1, EnqueueEffect DEF Signal, NodeShape, FrameIds
<1>2. ASSUME NEW n \in Node, EndThread(n) PROVE NodeShape'
  BY <1>2, EnqueueEffect DEF EndThread, NodeShape, FrameIds
<1>3. ASSUME NEW x \in Window, NEW n \in Node, CreateThread(x, n) PROVE NodeShape'
  BY <1>3, SameQueue DEF CreateThread, NodeShape, FrameIds, queueVars
\* A shorter stack, and nodes that only become unreachable.
<1>4. ASSUME Prefix(stack', stack), alloc' = alloc, Reach' \subseteq Reach
      PROVE  NodeShape'
  BY <1>0, <1>4 DEF NodeShape, FrameIds, Prefix
\* A frame that is not a ThreadStopped is pushed.
<1>5. ASSUME NEW f, f.at # "stopped", Pushed(stack', stack, f),
             alloc' = alloc, Reach' \subseteq Reach
      PROVE  NodeShape'
  BY <1>0, <1>5 DEF NodeShape, FrameIds, Pushed
<1>6. ASSUME NEW x \in Window, OpenDialog(x) PROVE NodeShape'
  <2>1. Pushed(stack', stack, Frame("enter", x, None))
    BY <1>6, OpenEffect
  <2>2. alloc' = alloc /\ Reach' = Reach
    BY <1>6, SameQueue DEF OpenDialog, nodeVars, queueVars
  <2>3. Frame("enter", x, None).at # "stopped"
    BY DEF Frame
  <2> QED
    BY <1>5, <2>1, <2>2, <2>3
<1>7. CASE CloseDialog
  <2>1. alloc' = alloc /\ Reach' \subseteq Reach
    BY <1>7, SameQueue DEF CloseDialog, DropWindow, queueVars
  <2> QED
    BY <1>4, <1>7, <2>1, CloseEffect
<1>8. CASE BeginEvents
  <2>1. alloc' = alloc /\ Reach' = Reach /\ Top.at \in {"enter", "loop"}
    BY <1>8, SameQueue DEF BeginEvents, nodeVars
  <2>2. \A i \in FrameIds' : stack'[i].at = "stopped" =>
            i \in FrameIds /\ stack'[i] = stack[i]
    <3>1. Frame("loop", Top.win, None).at = "loop"
          /\ Frame("events", None, Last).at = "events"
      BY DEF Frame
    <3> QED
      BY <1>0, <1>8, <3>1, BeginEffect DEF FrameIds
  <2> QED
    BY <2>1, <2>2 DEF NodeShape
<1>9. CASE EmptyRound
  BY <1>4, <1>9, EmptyEffect, SameQueue DEF EmptyRound, nodeVars, queueVars
<1>10. CASE EventRound
  <2> DEFINE p == Head(cmdQueue)
  <2>1. alloc' = alloc /\ Reach' \subseteq Reach
    BY <1>10, DequeueEffect DEF EventRound
  <2>2. Frame("signal", w[p], p).at # "stopped"
    BY DEF Frame
  <2> QED
    BY <1>4, <1>5, <1>10, <2>1, <2>2, EventEffect
<1>11. CASE StopRound
  <2> DEFINE p == Head(cmdQueue)
  <2>1. /\ cmdQueue # <<>> /\ cmdQueue' = Tail(cmdQueue) /\ cmd[p] = "END"
        /\ winList' = winList \ {p} /\ thList' = thList
    BY <1>11 DEF StopRound
  <2>2. p \in Queued /\ Queued' = Queued \ {p}
    BY <2>1, DequeueEffect
  <2>3. p \in alloc /\ p \notin thList
    BY <2>1, <2>2 DEF QueueShape, NodeShape
  <2>4. CASE w[p] = None
    <3>1. alloc' = alloc \ {p} /\ Prefix(stack', stack)
      BY <1>11, <2>4, StopEffect DEF StopRound, Free
    <3>2. \A i \in FrameIds' : i \in FrameIds /\ stack'[i] = stack[i]
      BY <1>0, <3>1, PrefixFacts DEF FrameIds, Prefix
    <3>3. \A i \in FrameIds : stack[i].at = "stopped" => stack[i].p # p
      BY <2>2 DEF NodeShape
    <3>4. /\ Reach' \subseteq alloc'
          /\ \A n \in alloc \ Reach : n # p => n \in alloc' \ Reach'
      BY <2>1, <2>2, <2>3, <3>1 DEF NodeShape
    <3> QED
      BY <3>2, <3>3, <3>4 DEF NodeShape
  <2>5. CASE w[p] # None
    <3>1. alloc' = alloc /\ Pushed(stack', stack, Frame("stopped", w[p], p))
      BY <1>11, <2>5, StopEffect DEF StopRound
    <3>2. Frame("stopped", w[p], p).p = p
      BY DEF Frame
    <3>3. \A i \in FrameIds' :
             \/ i = Len(stack) + 1 /\ stack'[i].p = p
             \/ i \in FrameIds /\ stack'[i] = stack[i]
      <4>1. /\ Len(stack') = Len(stack) + 1
            /\ stack'[Len(stack) + 1] = Frame("stopped", w[p], p)
            /\ \A i \in 1..Len(stack) : stack'[i] = stack[i]
        BY <3>1 DEF Pushed
      <4>2. stack'[Len(stack) + 1].p = p
        BY <3>2, <4>1, Zenon
      <4> QED
        BY <1>0, <4>1, <4>2 DEF FrameIds
    <3>4. \A i \in FrameIds : stack[i].at = "stopped" => stack[i].p # p
      BY <2>2 DEF NodeShape
    <3>5. /\ Reach' \subseteq alloc' /\ p \in alloc' \ Reach'
          /\ \A n \in alloc \ Reach : n \in alloc' \ Reach'
      BY <2>1, <2>2, <2>3, <3>1 DEF NodeShape
    <3> QED
      BY <3>3, <3>4, <3>5 DEF NodeShape
  <2> QED
    BY <2>4, <2>5
<1>12. CASE SignalReturn \/ SignalThrow
  <2>1. alloc' = alloc /\ Reach' \subseteq Reach
    BY <1>12, SameQueue DEF SignalReturn, SignalThrow, DropWindow, nodeVars, queueVars
  <2> QED
    BY <1>4, <1>12, <2>1, HandlerEffect DEF Handlers
<1>13. CASE StoppedReturn \/ StoppedThrow
  <2>1. /\ alloc' = alloc \ {Top.p} /\ Reach' = Reach /\ Top.at = "stopped"
    BY <1>13, SameQueue DEF StoppedReturn, StoppedThrow, Free, queueVars
  <2>2. Prefix(stack', stack) /\ Len(stack') < Len(stack)
    BY <1>13, HandlerEffect DEF Handlers
  <2>3. Len(stack') \in Nat
    BY <2>2, PrefixFacts DEF Prefix
  <2>4. \A i \in FrameIds' :
            i \in FrameIds /\ stack'[i] = stack[i] /\ i # Len(stack)
    BY <1>0, <2>2, <2>3 DEF FrameIds, Prefix
  <2>5. Top = stack[Len(stack)] /\ Top.p \in alloc \ Reach
    BY <1>0, <2>1 DEF NodeShape, Top
  <2> QED
    BY <1>0, <2>1, <2>4, <2>5 DEF NodeShape
<1> QED
  BY <1>1, <1>2, <1>3, <1>6, <1>7, <1>8, <1>9, <1>10, <1>11, <1>12, <1>13
     DEF Next, Worker, UserCode, DoEvents, Handlers

\* The queue stays covered.  The run of wth_DoEvents that is responsible for
\* the last node is interrupted only by handlers of other nodes, and it does
\* not end before it has reached that node.
LEMMA CoverageStep ==
    ASSUME TypeOK, StackShape, QueueShape, Coverage, Next, ~MayThrow
    PROVE  Coverage'
<1>0. Len(stack) \in Nat /\ 1 <= Len(stack) /\ Len(stack) \in FrameIds
  BY StackFacts DEF FrameIds
<1>1. ASSUME signaled' = TRUE PROVE Coverage'
  BY <1>1 DEF Coverage
<1>2. CASE \E n \in Node : Worker(n)
  BY <1>1, <1>2 DEF Worker, Signal, EndThread, Enqueue
<1>3. SUFFICES ASSUME ~signaled', cmdQueue' # <<>>,
                      ~\E n \in Node : Worker(n)
               PROVE  \E i \in FrameIds' : Responsible(i)'
  BY <1>2 DEF Coverage
<1>4. CASE BeginEvents
  <2>1. cmdQueue' = cmdQueue
    BY <1>4 DEF BeginEvents
  <2>2. /\ Len(stack') = Len(stack) + 1
        /\ stack'[Len(stack) + 1] = Frame("events", None, Last)
    BY <1>3, <1>4, <2>1, BeginEffect
  <2>3. /\ Frame("events", None, Last).at = "events"
        /\ Frame("events", None, Last).p = Last /\ Last' = Last
    BY <2>1, SameQueue DEF Frame
  <2>4. PICK k \in Nat : k = Len(stack) + 1
    BY <1>0
  <2>5. /\ k \in FrameIds' /\ k + 1 \notin FrameIds'
        /\ \A j \in FrameIds' : ~(j > k)
    BY <1>0, <2>2, <2>4 DEF FrameIds
  <2>6. Responsible(k)'
    BY <2>2, <2>3, <2>4, <2>5 DEF Responsible
  <2> QED
    BY <2>5, <2>6
\* In every other step the event was not signaled before either, and the queue
\* has at most lost its first node.
<1>5. CASE ~BeginEvents
  <2>1. signaled' = signaled
    BY <1>3, <1>5
       DEF Next, UserCode, CreateThread, OpenDialog, CloseDialog, DoEvents, EmptyRound,
           EventRound, StopRound, Handlers, SignalReturn, StoppedReturn, StoppedThrow,
           SignalThrow, nodeVars, queueVars
  <2>2. \/ cmdQueue' = cmdQueue
        \/ cmdQueue' = Tail(cmdQueue) /\ cmdQueue # <<>>
    BY <1>3, <1>5
       DEF Next, UserCode, CreateThread, OpenDialog, CloseDialog, DoEvents, EmptyRound,
           EventRound, StopRound, Handlers, SignalReturn, StoppedReturn, StoppedThrow,
           SignalThrow, nodeVars, queueVars
  <2>3. cmdQueue # <<>> /\ Last' = Last
    BY <1>3, <2>2, TailElems, QueueFacts DEF QueueShape, TypeOK, Last
  <2>4. PICK i \in FrameIds : Responsible(i)
    BY <1>3, <2>1, <2>3 DEF Coverage
  <2>5. Top = stack[Len(stack)] /\ i \in Nat /\ 1 <= i /\ i <= Len(stack)
    BY <1>0 DEF Top, FrameIds
  \* The frame stays, and what lies above it is as harmless as before.
  <2>6. ASSUME Prefix(stack', stack), i \in FrameIds' PROVE Responsible(i)'
    BY <1>0, <2>3, <2>4, <2>5, <2>6, PrefixFacts DEF Responsible, FrameIds, Prefix
  <2>7. ASSUME NEW f, f.at # "loop", f.p # Last, Pushed(stack', stack, f)
        PROVE  i \in FrameIds' /\ Responsible(i)'
    <3>1. i \in FrameIds' /\ stack'[i] = stack[i]
      BY <1>0, <2>5, <2>7 DEF FrameIds, Pushed
    <3>2. \A j \in FrameIds' : j > i => stack'[j].at # "loop"
      BY <1>0, <2>4, <2>5, <2>7 DEF Responsible, FrameIds, Pushed
    <3>3. i + 1 \in FrameIds' => stack'[i + 1].p # Last
      BY <1>0, <2>4, <2>5, <2>7 DEF Responsible, FrameIds, Pushed
    <3> QED
      BY <2>3, <2>4, <3>1, <3>2, <3>3 DEF Responsible
  <2>8. CASE \E x \in Window, n \in Node : CreateThread(x, n)
    BY <2>3, <2>4, <2>8 DEF CreateThread, Responsible, FrameIds
  <2>9. ASSUME NEW x \in Window, OpenDialog(x) PROVE i \in FrameIds' /\ Responsible(i)'
    <3>1. Frame("enter", x, None).at # "loop" /\ Frame("enter", x, None).p = None
      BY DEF Frame
    <3>2. Last # None
      BY <2>3, NoneAssumption DEF Last, TypeOK
    <3> QED
      BY <2>7, <2>9, <3>1, <3>2, OpenEffect
  <2>10. CASE CloseDialog
    <3>1. Top.at = "loop" /\ i # Len(stack)
      BY <2>4, <2>5, <2>10 DEF CloseDialog, Responsible
    <3> QED
      BY <1>0, <2>4, <2>5, <3>1 DEF Responsible
  <2>11. CASE EmptyRound
    BY <2>3, <2>11 DEF EmptyRound
  <2>12. CASE EventRound \/ StopRound
    <3> DEFINE p == Head(cmdQueue)
    <3>1. p # Last /\ Top.at = "events" /\ cmdQueue' = Tail(cmdQueue)
      BY <1>3, <2>3, <2>12, TailElems, QueueFacts
         DEF QueueShape, TypeOK, Last, EventRound, StopRound
    <3>2. CASE w[p] = None
      <4>1. /\ Prefix(stack', stack)
            /\ Len(stack') = IF p = Top.p THEN Len(stack) - 1 ELSE Len(stack)
        BY <2>12, <3>2, EventEffect, StopEffect
      <4>2. i = Len(stack) => Len(stack') = Len(stack)
        BY <2>4, <2>5, <3>1, <4>1 DEF Responsible
      <4>3. i \in FrameIds'
        BY <1>0, <2>5, <4>1, <4>2 DEF FrameIds
      <4> QED
        BY <2>6, <4>1, <4>3
    <3>3. CASE w[p] # None
      <4>1. \/ Pushed(stack', stack, Frame("signal", w[p], p))
            \/ Pushed(stack', stack, Frame("stopped", w[p], p))
        BY <2>12, <3>3, EventEffect, StopEffect
      <4>2. /\ Frame("signal", w[p], p).at # "loop" /\ Frame("signal", w[p], p).p = p
            /\ Frame("stopped", w[p], p).at # "loop" /\ Frame("stopped", w[p], p).p = p
        BY DEF Frame
      <4> QED
        BY <2>7, <3>1, <4>1, <4>2
    <3> QED
      BY <3>2, <3>3
  <2>13. CASE Handlers
    <3>1. /\ Prefix(stack', stack)
          /\ Len(stack') = IF Top.p = stack[Len(stack) - 1].p
                           THEN Len(stack) - 2 ELSE Len(stack) - 1
      BY <2>13, HandlerEffect
    <3>2. Top.at \in {"signal", "stopped"} /\ i # Len(stack)
      BY <2>4, <2>5, <2>13
         DEF Responsible, Handlers, SignalReturn, StoppedReturn, StoppedThrow, SignalThrow
    <3>3. i = Len(stack) - 1 => Top.p # stack[Len(stack) - 1].p
      BY <1>0, <2>4, <2>5 DEF Responsible
    <3>4. i \in FrameIds'
      BY <1>0, <2>5, <3>1, <3>2, <3>3 DEF FrameIds
    <3> QED
      BY <2>6, <3>1, <3>4
  <2> QED
    BY <1>3, <1>5, <2>8, <2>9, <2>10, <2>11, <2>12, <2>13
       DEF Next, UserCode, DoEvents
<1> QED
  BY <1>4, <1>5

LEMMA OwnerStep ==
    ASSUME TypeOK, StackShape, QueueShape, OwnerShape, Next
    PROVE  OwnerShape'
<1>1. ASSUME NEW n \in Node, NEW d \in Data, Signal(n, d) PROVE OwnerShape'
  BY <1>1, EnqueueEffect DEF Signal, OwnerShape
<1>2. ASSUME NEW n \in Node, EndThread(n) PROVE OwnerShape'
  BY <1>2, EnqueueEffect DEF EndThread, OwnerShape
<1>3. ASSUME NEW x \in Window, NEW n \in Node, CreateThread(x, n) PROVE OwnerShape'
  BY <1>3, SameQueue DEF CreateThread, OwnerShape, TypeOK, queueVars
<1>4. ASSUME NEW x, DropWindow(x), thList' = thList, cmdQueue' = cmdQueue PROVE OwnerShape'
  <2>1. SUFFICES ASSUME NEW n \in thList \cup Queued, w'[n] # None
                 PROVE  n \in winList' /\ w'[n] \in open'
    BY <1>4, SameQueue DEF OwnerShape
  <2>2. n \in Node
    BY DEF TypeOK, Queued
  <2>3. w'[n] = w[n] /\ ~(n \in winList /\ w[n] = x)
    BY <1>4, <2>1, <2>2 DEF DropWindow
  <2> QED
    BY <1>4, <2>1, <2>3 DEF DropWindow, OwnerShape
<1>5. CASE CloseDialog \/ SignalThrow
  BY <1>4, <1>5 DEF CloseDialog, SignalThrow, queueVars
<1>6. CASE EventRound
  BY <1>6, DequeueEffect DEF EventRound, OwnerShape
<1>7. CASE StopRound
  <2> DEFINE p == Head(cmdQueue)
  <2>1. /\ cmdQueue # <<>> /\ cmdQueue' = Tail(cmdQueue) /\ cmd[p] = "END"
        /\ winList' = winList \ {p} /\ thList' = thList /\ w' = w /\ open' = open
    BY <1>7 DEF StopRound
  <2>2. p \in Queued /\ Queued' = Queued \ {p} /\ p \notin thList
    BY <2>1, DequeueEffect DEF QueueShape
  <2> QED
    BY <2>1, <2>2 DEF OwnerShape
<1>8. ASSUME cmdQueue' = cmdQueue, thList' = thList, w' = w, winList' = winList,
             open \subseteq open'
      PROVE  OwnerShape'
  BY <1>8, SameQueue DEF OwnerShape
<1>9. ASSUME NEW x \in Window, OpenDialog(x) PROVE OwnerShape'
  BY <1>8, <1>9 DEF OpenDialog, nodeVars, queueVars
<1>10. CASE BeginEvents \/ EmptyRound
  BY <1>8, <1>10 DEF BeginEvents, EmptyRound, nodeVars, queueVars
<1>11. CASE SignalReturn \/ StoppedReturn \/ StoppedThrow
  BY <1>8, <1>11 DEF SignalReturn, StoppedReturn, StoppedThrow, nodeVars, queueVars
<1> QED
  BY <1>1, <1>2, <1>3, <1>5, <1>6, <1>7, <1>9, <1>10, <1>11
     DEF Next, Worker, UserCode, DoEvents, Handlers

Loops == {"loop", "enter"}

LEMMA WindowStep ==
    ASSUME TypeOK, StackShape, QueueShape, WindowShape, OwnerShape, Next
    PROVE  WindowShape'
<1>0. Len(stack) \in Nat /\ 1 <= Len(stack) /\ Len(stack) \in FrameIds
      /\ Top = stack[Len(stack)]
  BY StackFacts DEF FrameIds
<1>1. ASSUME stack' = stack, open' = open PROVE WindowShape'
  BY <1>1 DEF WindowShape, FrameIds
\* Frames that are not loops are removed.
<1>2. ASSUME Prefix(stack', stack), open' = open,
             \A i \in FrameIds : i > Len(stack') => stack[i].at \notin Loops
      PROVE  WindowShape'
  <2>1. \A i \in FrameIds' : i \in FrameIds /\ stack'[i] = stack[i]
    BY <1>0, <1>2, PrefixFacts DEF FrameIds, Prefix
  <2>2. \A i \in FrameIds : i \in FrameIds' \/ stack[i].at \notin Loops
    BY <1>0, <1>2, PrefixFacts DEF FrameIds, Prefix
  <2>3. \A i, j \in FrameIds : j < i /\ i \in FrameIds' => j \in FrameIds'
    BY <1>0, <1>2, PrefixFacts DEF FrameIds, Prefix
  <2> QED
    BY <1>2, <2>1, <2>2, <2>3 DEF WindowShape, Loops
\* The innermost loop is removed, with what lies above it, and its window.
<1>3. ASSUME Prefix(stack', stack), NEW k \in FrameIds, k = Len(stack') + 1,
             stack[k].at \in Loops, open' = open \ {stack[k].win},
             \A i \in FrameIds : i > k => stack[i].at \notin Loops
      PROVE  WindowShape'
  <2>1. \A i \in FrameIds' : i \in FrameIds /\ stack'[i] = stack[i] /\ i # k
    BY <1>0, <1>3, PrefixFacts DEF FrameIds, Prefix
  <2>2. \A i \in FrameIds : i \in FrameIds' \/ i = k \/ stack[i].at \notin Loops
    BY <1>0, <1>3, PrefixFacts DEF FrameIds, Prefix
  <2>3. \A i, j \in FrameIds : j < i /\ i \in FrameIds' => j \in FrameIds'
    BY <1>0, <1>3, PrefixFacts DEF FrameIds, Prefix
  <2>4. \A x \in open' : \E i \in FrameIds' : stack'[i].at \in Loops /\ stack'[i].win = x
    <3>1. SUFFICES ASSUME NEW x \in open, x # stack[k].win
                   PROVE  \E i \in FrameIds' : stack'[i].at \in Loops /\ stack'[i].win = x
      BY <1>3
    <3>2. PICK i \in FrameIds : stack[i].at \in Loops /\ stack[i].win = x
      BY <3>1 DEF WindowShape, Loops
    <3>3. i \in FrameIds'
      BY <2>2, <3>1, <3>2
    <3> QED
      BY <2>1, <3>2, <3>3
  <2>5. \A i \in FrameIds' : stack'[i].at \in Loops => stack'[i].win \in open'
    BY <1>3, <2>1 DEF WindowShape, Loops
  <2>6. \A i, j \in FrameIds' : stack'[i].at \in Loops /\ stack'[j].at \in Loops
             /\ stack'[i].win = stack'[j].win => i = j
    BY <2>1 DEF WindowShape, Loops
  <2>7. \A i \in FrameIds' : stack'[i].at \in {"signal", "stopped"} =>
          \E j \in FrameIds' :
             j < i /\ stack'[j].at = "loop" /\ stack'[j].win = stack'[i].win
    BY <2>1, <2>3 DEF WindowShape
  <2> QED
    BY <2>4, <2>5, <2>6, <2>7 DEF WindowShape, Loops
\* A frame is pushed.
<1>4. ASSUME NEW f, Pushed(stack', stack, f),
             \/ f.at = "enter" /\ f.win \notin open /\ open' = open \cup {f.win}
             \/ f.at = "events" /\ open' = open
             \/ /\ f.at \in {"signal", "stopped"} /\ open' = open
                /\ \E j \in FrameIds : stack[j].at = "loop" /\ stack[j].win = f.win
      PROVE  WindowShape'
  <2>1. /\ \A i \in FrameIds : i \in FrameIds' /\ stack'[i] = stack[i]
        /\ Len(stack) + 1 \in FrameIds' /\ stack'[Len(stack) + 1] = f
        /\ \A i \in FrameIds' : i \in FrameIds \/ i = Len(stack) + 1
        /\ \A i \in FrameIds : i < Len(stack) + 1 /\ i # Len(stack) + 1
    BY <1>0, <1>4 DEF FrameIds, Pushed
  <2> QED
    BY <1>4, <2>1 DEF WindowShape
<1>5. ASSUME NEW x \in Window, OpenDialog(x) PROVE WindowShape'
  <2>1. Frame("enter", x, None).at = "enter" /\ Frame("enter", x, None).win = x
    BY DEF Frame
  <2>2. x \notin open /\ open' = open \cup {x}
    BY <1>5 DEF OpenDialog
  <2> QED
    BY <1>4, <1>5, <2>1, <2>2, OpenEffect
<1>6. CASE CloseDialog
  <2>1. /\ Len(stack) = Len(stack') + 1 /\ Prefix(stack', stack)
    BY <1>0, <1>6, CloseEffect
  <2>2. stack[Len(stack)].at \in Loops /\ open' = open \ {stack[Len(stack)].win}
    BY <1>0, <1>6 DEF CloseDialog, DropWindow, Loops
  <2>3. \A i \in FrameIds : ~(i > Len(stack))
    BY <1>0 DEF FrameIds
  <2> QED
    BY <1>0, <1>3, <2>1, <2>2, <2>3
<1>7. CASE BeginEvents
  <2>1. /\ stack'[Len(stack)] = Frame("loop", Top.win, None)
        /\ \A i \in 1..Len(stack) : i # Len(stack) => stack'[i] = stack[i]
        /\ \/ Len(stack') = Len(stack)
           \/ Len(stack') = Len(stack) + 1
                 /\ stack'[Len(stack) + 1] = Frame("events", None, Last)
        /\ Top.at \in Loops /\ open' = open
    BY <1>7, BeginEffect DEF BeginEvents, Loops
  <2>2. /\ Frame("loop", Top.win, None).at = "loop"
        /\ Frame("loop", Top.win, None).win = Top.win
        /\ Frame("events", None, Last).at = "events"
    BY DEF Frame
  <2>3. \A i \in FrameIds :
            /\ i \in FrameIds'
            /\ stack'[i].win = stack[i].win
            /\ stack'[i].at \in Loops <=> stack[i].at \in Loops
            /\ stack[i].at = "loop" => stack'[i].at = "loop"
            /\ i # Len(stack) => stack'[i] = stack[i]
    BY <1>0, <2>1, <2>2 DEF FrameIds, Loops
  <2>4. \A i \in FrameIds' : i \in FrameIds \/ stack'[i].at = "events"
    BY <1>0, <2>1, <2>2 DEF FrameIds
  <2>5. stack'[Len(stack)].at = "loop"
    BY <2>1, <2>2
  <2>6. \A i \in FrameIds' : stack'[i].at \in {"signal", "stopped"} =>
            i \in FrameIds /\ stack[i] = stack'[i]
    BY <2>3, <2>4, <2>5
  <2> QED
    BY <2>1, <2>3, <2>4, <2>6 DEF WindowShape, Loops
<1>8. CASE EmptyRound
  <2>1. Top.at = "events" /\ open' = open /\ stack' = Pop(stack, 1)
    BY <1>8 DEF EmptyRound
  <2>2. Len(stack') = Len(stack) - 1 /\ Prefix(stack', stack)
    BY <1>0, <1>8, <2>1, PopShape, StackFacts, EmptyEffect DEF StackShape
  <2>3. \A i \in FrameIds : i > Len(stack') => i = Len(stack)
    BY <1>0, <2>2 DEF FrameIds
  <2> QED
    BY <1>0, <1>2, <2>1, <2>2, <2>3 DEF Loops
<1>9. CASE EventRound \/ StopRound
  <2> DEFINE p == Head(cmdQueue)
  <2>1. Top.at = "events" /\ open' = open /\ cmdQueue # <<>> /\ cmdQueue' = Tail(cmdQueue)
    BY <1>9 DEF EventRound, StopRound
  <2>2. CASE w[p] = None
    <3>1. /\ Prefix(stack', stack)
          /\ Len(stack') = IF p = Top.p THEN Len(stack) - 1 ELSE Len(stack)
      BY <1>9, <2>2, EventEffect, StopEffect
    <3>2. \A i \in FrameIds : i > Len(stack') => i = Len(stack)
      BY <1>0, <3>1 DEF FrameIds
    <3> QED
      BY <1>0, <1>2, <2>1, <3>1, <3>2 DEF Loops
  <2>3. CASE w[p] # None
    <3>1. \/ Pushed(stack', stack, Frame("signal", w[p], p))
          \/ Pushed(stack', stack, Frame("stopped", w[p], p))
      BY <1>9, <2>3, EventEffect, StopEffect
    <3>2. /\ Frame("signal", w[p], p).at = "signal" /\ Frame("signal", w[p], p).win = w[p]
          /\ Frame("stopped", w[p], p).at = "stopped" /\ Frame("stopped", w[p], p).win = w[p]
      BY DEF Frame
    <3>3. w[p] \in open
      BY <2>1, <2>3, DequeueEffect DEF OwnerShape
    <3>4. PICK j \in FrameIds : stack[j].at \in Loops /\ stack[j].win = w[p]
      BY <3>3 DEF WindowShape, Loops
    <3>5. stack[j].at = "loop"
      BY <1>0, <2>1, <3>4 DEF StackShape, Shape, FrameIds, Loops
    <3> QED
      BY <1>4, <2>1, <3>1, <3>2, <3>4, <3>5
  <2> QED
    BY <2>2, <2>3
<1>10. CASE SignalReturn \/ StoppedReturn \/ StoppedThrow
  <2>1. /\ open' = open /\ Top.at \in {"signal", "stopped"}
        /\ stack' = EndRound(Pop(stack, 1), Top.p)
    BY <1>10 DEF SignalReturn, StoppedReturn, StoppedThrow
  <2>2. /\ Prefix(stack', stack) /\ stack[Len(stack) - 1].at = "events"
        /\ Len(stack') \in {Len(stack) - 2, Len(stack) - 1}
    BY <1>0, <2>1, ReturnShape, StackFacts DEF StackShape
  <2>3. \A i \in FrameIds : i > Len(stack') => i \in {Len(stack), Len(stack) - 1}
    BY <1>0, <2>2 DEF FrameIds
  <2> QED
    BY <1>0, <1>2, <2>1, <2>2, <2>3 DEF Loops
<1>11. CASE SignalThrow
  <2>1. /\ Top.at = "signal" /\ 3 < Len(stack) /\ stack' = Pop(stack, 3)
        /\ open' = open \ {stack[Len(stack) - 2].win}
    <3>1. Top.at = "signal" /\ Len(stack) > 3 /\ stack' = Pop(stack, 3)
          /\ DropWindow(stack[Len(stack) - 2].win)
      BY <1>11 DEF SignalThrow
    <3>2. open' = open \ {stack[Len(stack) - 2].win}
      BY <3>1 DEF DropWindow
    <3> QED
      BY <1>0, <3>1, <3>2
  <2>2. /\ Shape(stack') /\ Len(stack') = Len(stack) - 3
        /\ \A i \in 1..(Len(stack) - 3) : stack'[i] = stack[i]
    <3>1. 3 < Len(stack) /\ Len(stack) \in Nat /\ stack' = Pop(stack, 3)
      BY <1>0, <2>1
    <3> QED
      BY <3>1, PopShape DEF StackShape
  <2>3. Prefix(stack', stack)
    BY <1>0, <2>2 DEF Prefix
  <2>4. /\ stack[Len(stack) - 1].at = "events" /\ stack[Len(stack) - 2].at = "loop"
        /\ Len(stack) - 2 \in FrameIds
    BY <1>0, <2>1 DEF StackShape, Shape, FrameIds
  <2>5. PICK k \in FrameIds : k = Len(stack) - 2
    BY <2>4
  <2>6. \A i \in FrameIds : i > k => i \in {Len(stack), Len(stack) - 1}
    BY <1>0, <2>5 DEF FrameIds
  <2>7. k = Len(stack') + 1
    BY <1>0, <2>2, <2>5
  <2> QED
    BY <1>0, <1>3, <2>1, <2>3, <2>4, <2>5, <2>6, <2>7 DEF Loops
<1>12. CASE \/ \E n \in Node : Worker(n)
            \/ \E x \in Window, n \in Node : CreateThread(x, n)
  BY <1>1, <1>12 DEF Worker, Signal, EndThread, CreateThread
<1> QED
  BY <1>5, <1>6, <1>7, <1>8, <1>9, <1>10, <1>11, <1>12
     DEF Next, UserCode, DoEvents, Handlers

-----------------------------------------------------------------------------
(* The invariant and the theorems.                                         *)

LEMMA InitIInv == Init => IInv
<1>1. SUFFICES ASSUME Init PROVE IInv
  OBVIOUS
<1>2. stack = <<Frame("loop", MainWin, None)>> /\ cmdQueue = <<>>
      /\ thList = {} /\ winList = {} /\ open = {MainWin}
  BY <1>1 DEF Init
<1>3. /\ Frame("loop", MainWin, None) \in Frames
      /\ Frame("loop", MainWin, None).at = "loop"
      /\ Frame("loop", MainWin, None).win = MainWin
  BY MainAssumption DEF Frame, Frames, Kinds
<1>4. /\ stack \in Seq(Frames) /\ stack # <<>> /\ Len(stack) = 1
      /\ stack[1].at = "loop" /\ stack[1].win = MainWin
  <2>1. /\ stack \in Seq(Frames) /\ stack # <<>> /\ Len(stack) = 1
        /\ stack[1] = Frame("loop", MainWin, None)
    BY <1>2, <1>3
  <2> QED
    BY <1>3, <2>1
<1>5. Queued = {} /\ QueuedOnce /\ FrameIds = {1}
  BY <1>2, <1>4 DEF Queued, QueuedOnce, FrameIds
<1>6. TypeOK
  <2>1. cmdQueue \in Seq(Node)
    BY <1>2
  <2>2. /\ w \in [Node -> Window \cup {None}] /\ data \in [Node -> Data \cup {None}]
        /\ cmd \in [Node -> {"NONE", "EVENT", "END"}]
    BY <1>1 DEF Init
  <2> QED
    BY <1>1, <1>4, <2>1, <2>2, MainAssumption DEF Init, TypeOK
<1>7. StackShape
  BY <1>4 DEF StackShape, Shape
<1>8. QueueShape /\ NodeShape /\ OwnerShape
  BY <1>2, <1>4, <1>5 DEF QueueShape, NodeShape, OwnerShape
<1>9. WindowShape
  BY <1>2, <1>4, <1>5 DEF WindowShape
<1> QED
  BY <1>6, <1>7, <1>8, <1>9 DEF IInv

LEMMA StepIInv == IInv /\ [Next]_vars => IInv'
<1>1. ASSUME IInv, Next PROVE IInv'
  BY <1>1, StackStep, TypeStep, QueueStep, NodeStep, WindowStep, OwnerStep DEF IInv
<1>2. ASSUME IInv, UNCHANGED vars PROVE IInv'
  BY <1>2, SameQueue
     DEF IInv, vars, TypeOK, StackShape, QueueShape, NodeShape, WindowShape, OwnerShape,
         FrameIds
<1> QED
  BY <1>1, <1>2

THEOREM Invariance == Spec => []IInv
BY InitIInv, StepIInv, PTL DEF Spec

\* The variables keep their types: in particular the user-interface thread
\* never returns from AppRun's loop by unwinding too many frames.
THEOREM TypeCorrect == Spec => []TypeOK
<1>1. IInv => TypeOK
  BY DEF IInv
<1> QED
  BY <1>1, Invariance, PTL

\* WinThreadSignal and the end of a thread never link a node that is linked
\* already, with any number of threads and whether or not handlers throw.
THEOREM QueuesOnce == Spec => []QueuedOnce
<1>1. IInv => QueuedOnce
  BY DEF IInv, QueueShape
<1> QED
  BY <1>1, Invariance, PTL

\* Events are delivered only to windows that exist: wth_DropWindow reaches
\* every node of the window, and handlers run in windows of open loops.
THEOREM DeliversToOpen == Spec => []OwnersOpen
<1>1. IInv => OwnersOpen
  <2>1. SUFFICES ASSUME IInv PROVE OwnersOpen
    OBVIOUS
  <2>2. \A n \in thList \cup Queued : w[n] \in open \cup {None}
    BY <2>1 DEF IInv, OwnerShape
  <2>3. ASSUME NEW i \in FrameIds, stack[i].at # "events" PROVE stack[i].win \in open
    <3>1. stack[i].at \in {"enter", "loop", "signal", "stopped"}
      BY <2>1, <2>3, PrefixFacts DEF IInv, StackShape, FrameIds, Frames, Kinds
    <3>2. CASE stack[i].at \in {"enter", "loop"}
      BY <2>1, <3>2 DEF IInv, WindowShape
    <3>3. CASE stack[i].at \in {"signal", "stopped"}
      BY <2>1, <3>3 DEF IInv, WindowShape
    <3> QED
      BY <3>1, <3>2, <3>3
  <2> QED
    BY <2>2, <2>3 DEF OwnersOpen
<1> QED
  BY <1>1, Invariance, PTL

\* Nodes are deleted once, and never while something can reach them, as long
\* as no handler throws.
THEOREM NodesAreSafe == ASSUME ~MayThrow PROVE Spec => []NodesSafe
<1>1. Init => heapOK
  BY DEF Init
<1>2. IInv /\ heapOK /\ [Next]_vars => heapOK'
  <2>1. ASSUME IInv, heapOK, Next PROVE heapOK'
    <3>1. CASE StopRound
      <4>1. Head(cmdQueue) \in alloc
        BY <2>1, <3>1, DequeueEffect DEF IInv, NodeShape, StopRound
      <4> QED
        BY <2>1, <3>1, <4>1 DEF StopRound, Free
    <3>2. CASE StoppedReturn
      <4>1. Top.p \in alloc
        BY <2>1, <3>2, StackFacts DEF IInv, NodeShape, StoppedReturn, FrameIds
      <4> QED
        BY <2>1, <3>2, <4>1 DEF StoppedReturn, Free
    <3>3. CASE ~StopRound /\ ~StoppedReturn
      BY <2>1, <3>3
         DEF Next, Worker, Signal, EndThread, UserCode, CreateThread, OpenDialog,
             CloseDialog, BeginEvents, DoEvents, EmptyRound, EventRound, Handlers,
             SignalReturn, StoppedThrow, SignalThrow
    <3> QED
      BY <3>1, <3>2, <3>3
  <2>2. ASSUME heapOK, UNCHANGED vars PROVE heapOK'
    BY <2>2 DEF vars
  <2> QED
    BY <2>1, <2>2
<1>3. IInv /\ heapOK => NodesSafe
  BY DEF IInv, NodeShape, NodesSafe
<1> QED
  BY <1>1, <1>2, <1>3, Invariance, PTL DEF Spec

LEMMA CoverageInvariance == ASSUME ~MayThrow PROVE Spec => []Coverage
<1>1. Init => Coverage
  BY DEF Init, Coverage
<1>2. IInv /\ Coverage /\ [Next]_vars => Coverage'
  <2>1. ASSUME IInv, Coverage, Next PROVE Coverage'
    BY <2>1, CoverageStep DEF IInv
  <2>2. ASSUME Coverage, UNCHANGED vars PROVE Coverage'
    BY <2>2 DEF Coverage, vars, Responsible, FrameIds, Last
  <2> QED
    BY <2>1, <2>2
<1> QED
  BY <1>1, <1>2, Invariance, PTL DEF Spec

\* No wake-up is lost: a loop that waits for wthInternalEvent finds the queue
\* empty, for any number of threads and nested dialogs.
THEOREM NoLostWakeUp == ASSUME ~MayThrow PROVE Spec => []IdleLoopDrained
<1>1. IInv /\ Coverage => IdleLoopDrained
  <2>1. SUFFICES ASSUME IInv, Coverage, Top.at = "loop", ~signaled, cmdQueue # <<>>
                 PROVE  FALSE
    BY DEF IdleLoopDrained
  <2>2. PICK i \in FrameIds : Responsible(i)
    BY <2>1 DEF Coverage
  <2>3. Len(stack) \in FrameIds /\ i <= Len(stack) /\ stack[Len(stack)].at = "loop"
    BY <2>1, StackFacts DEF IInv, FrameIds
  <2> QED
    BY <2>2, <2>3 DEF Responsible, FrameIds
<1> QED
  BY <1>1, Invariance, CoverageInvariance, PTL

\* While wth_DoEvents is interrupted, its caller or another run of it will
\* reach everything that is queued.
THEOREM StaysCovered == ASSUME ~MayThrow PROVE Spec => []QueueCovered
<1>1. Coverage => QueueCovered
  BY DEF Coverage, QueueCovered, Responsible, Last
<1> QED
  BY <1>1, CoverageInvariance, PTL
-----------------------------------------------------------------------------
(***************************************************************************)
(* The window threads implement the mail boxes of ThreadMail: every step   *)
(* of theirs, whatever the handlers throw, is a step of the boxes or       *)
(* leaves these as they are.  (That every box is emptied in the end is     *)
(* liveness, and stays with TLC.)                                          *)
(***************************************************************************)

\* What the refinement mapping needs besides IInv: a node that is allocated is
\* a running thread's, or is queued, or its ThreadStopped is being called; that
\* handler is called for the node's window; and a signal that is queued has an
\* argument.
MailShape ==
    /\ \A n \in alloc : n \in thList \/ n \in Queued \/ Stopping(n)
    /\ \A i \in FrameIds : stack[i].at = "stopped" => stack[i].win = w[stack[i].p]
    /\ \A n \in Queued : cmd[n] = "EVENT" => data[n] \in Data

-----------------------------------------------------------------------------
(* The frames of ThreadStopped.                                            *)

\* They are the same before and after a step.
StoppedStay ==
    /\ \A k \in FrameIds' :
          stack'[k].at = "stopped" => k \in FrameIds /\ stack'[k] = stack[k]
    /\ \A k \in FrameIds :
          stack[k].at = "stopped" => k \in FrameIds' /\ stack'[k] = stack[k]

LEMMA FramesLeave ==
    ASSUME IInv, Prefix(stack', stack),
           \A k \in FrameIds : k > Len(stack') => stack[k].at # "stopped"
    PROVE  StoppedStay
<1>1. /\ Len(stack) \in Nat /\ Len(stack') \in Nat /\ Len(stack') <= Len(stack)
      /\ \A i \in 1..Len(stack') : stack'[i] = stack[i]
  BY StackFacts, PrefixFacts DEF Prefix, IInv
<1> QED
  BY <1>1 DEF StoppedStay, FrameIds

LEMMA FrameComes ==
    ASSUME IInv, NEW f, Pushed(stack', stack, f), f.at # "stopped"
    PROVE  StoppedStay
<1>1. /\ Len(stack) \in Nat /\ Len(stack') = Len(stack) + 1 /\ stack'[Len(stack) + 1] = f
      /\ \A i \in 1..Len(stack) : stack'[i] = stack[i]
  BY StackFacts DEF Pushed, IInv
<1> QED
  BY <1>1 DEF StoppedStay, FrameIds

LEMMA StoppedStays ==
    ASSUME IInv,
           \/ stack' = stack
           \/ \E x \in Window : OpenDialog(x)
           \/ CloseDialog \/ BeginEvents \/ EmptyRound \/ EventRound
           \/ SignalReturn \/ SignalThrow
           \/ StopRound /\ w[Head(cmdQueue)] = None
    PROVE  StoppedStay
<1>0. TypeOK /\ StackShape /\ Len(stack) \in Nat /\ 1 <= Len(stack) /\ Top = stack[Len(stack)]
  BY StackFacts DEF IInv
<1>1. CASE stack' = stack
  BY <1>1 DEF StoppedStay, FrameIds
<1>2. ASSUME NEW x \in Window, OpenDialog(x) PROVE StoppedStay
  BY <1>0, <1>2, OpenEffect, FrameComes DEF Frame
<1>3. CASE CloseDialog
  <2>1. Prefix(stack', stack) /\ Len(stack') = Len(stack) - 1 /\ Top.at = "loop"
    BY <1>0, <1>3, CloseEffect DEF CloseDialog
  <2>2. \A k \in FrameIds : k > Len(stack') => stack[k].at # "stopped"
    BY <1>0, <2>1 DEF FrameIds
  <2> QED
    BY <2>1, <2>2, FramesLeave
<1>4. CASE BeginEvents
  <2>1. Top.at \in {"enter", "loop"}
    BY <1>4 DEF BeginEvents
  <2>2. /\ stack'[Len(stack)].at = "loop"
        /\ \A i \in 1..Len(stack) : i # Len(stack) => stack'[i] = stack[i]
        /\ \/ Len(stack') = Len(stack)
           \/ Len(stack') = Len(stack) + 1 /\ stack'[Len(stack) + 1].at = "events"
    BY <1>0, <1>4, BeginEffect DEF Frame
  <2>3. ASSUME NEW k \in FrameIds', stack'[k].at = "stopped"
        PROVE  k \in FrameIds /\ k # Len(stack)
    BY <1>0, <2>2, <2>3 DEF FrameIds
  <2>4. ASSUME NEW k \in FrameIds, stack[k].at = "stopped"
        PROVE  k \in FrameIds' /\ k # Len(stack)
    BY <1>0, <2>1, <2>2, <2>4 DEF FrameIds
  <2> QED
    BY <2>2, <2>3, <2>4 DEF StoppedStay, FrameIds
<1>5. CASE EmptyRound
  <2>1. Top.at = "events" /\ stack' = Pop(stack, 1) /\ 1 < Len(stack)
    BY <1>0, <1>5, StackFacts DEF EmptyRound
  <2>2. Prefix(stack', stack) /\ Len(stack') = Len(stack) - 1
    BY <1>0, <1>5, <2>1, EmptyEffect, PopShape DEF StackShape
  <2>3. \A k \in FrameIds : k > Len(stack') => stack[k].at # "stopped"
    BY <1>0, <2>1, <2>2 DEF FrameIds
  <2> QED
    BY <2>2, <2>3, FramesLeave
<1>6. CASE w[Head(cmdQueue)] = None /\ (EventRound \/ StopRound)
  <2>1. Prefix(stack', stack) /\ (Len(stack') = Len(stack) - 1 \/ Len(stack') = Len(stack))
    BY <1>0, <1>6, EventEffect, StopEffect
  <2>2. Top.at = "events"
    BY <1>6 DEF EventRound, StopRound
  <2>3. \A k \in FrameIds : k > Len(stack') => stack[k].at # "stopped"
    BY <1>0, <2>1, <2>2 DEF FrameIds
  <2> QED
    BY <2>1, <2>3, FramesLeave
<1>7. CASE w[Head(cmdQueue)] # None /\ EventRound
  <2>1. Pushed(stack', stack, Frame("signal", w[Head(cmdQueue)], Head(cmdQueue)))
    BY <1>0, <1>7, EventEffect
  <2> QED
    BY <2>1, FrameComes DEF Frame
<1>8. CASE SignalReturn
  <2>1. Top.at = "signal" /\ stack' = EndRound(Pop(stack, 1), Top.p)
    BY <1>8 DEF SignalReturn
  <2>2. /\ Prefix(stack', stack) /\ stack[Len(stack) - 1].at = "events"
        /\ (Len(stack') = Len(stack) - 1 \/ Len(stack') = Len(stack) - 2)
    BY <1>0, <2>1, ReturnShape, StackFacts DEF StackShape
  <2>3. \A k \in FrameIds : k > Len(stack') => k = Len(stack) \/ k = Len(stack) - 1
    BY <1>0, <2>2 DEF FrameIds
  <2> QED
    BY <1>0, <2>1, <2>2, <2>3, FramesLeave
<1>9. CASE SignalThrow
  <2>1. Top.at = "signal" /\ 3 < Len(stack) /\ stack' = Pop(stack, 3)
    BY <1>9 DEF SignalThrow
  <2>2. /\ Prefix(stack', stack) /\ Len(stack') = Len(stack) - 3
    BY <1>0, <2>1, PopShape DEF StackShape, Prefix
  <2>3. stack[Len(stack) - 1].at = "events" /\ stack[Len(stack) - 2].at = "loop"
    <3>1. Len(stack) - 1 \in 1..Len(stack) /\ stack[Len(stack) - 1].at = "events"
      BY <1>0, <2>1, StackFacts
    <3> QED
      BY <1>0, <3>1 DEF StackShape, Shape
  <2>4. \A k \in FrameIds : k > Len(stack') =>
           k = Len(stack) \/ k = Len(stack) - 1 \/ k = Len(stack) - 2
    BY <1>0, <2>2 DEF FrameIds
  <2> QED
    BY <1>0, <2>1, <2>2, <2>3, <2>4, FramesLeave
<1> QED
  BY <1>1, <1>2, <1>3, <1>4, <1>5, <1>6, <1>7, <1>8, <1>9

LEMMA StoppingStays ==
    ASSUME StoppedStay
    PROVE  \A n \in Node : Stopping(n)' <=> Stopping(n)
BY DEF StoppedStay, Stopping

\* ThreadStopped is called for node p.
LEMMA StoppingComes ==
    ASSUME IInv, StopRound, w[Head(cmdQueue)] # None
    PROVE  LET p == Head(cmdQueue)
           IN  /\ \A n \in Node : Stopping(n)' <=> Stopping(n) \/ n = p
               /\ \A k \in FrameIds' : stack'[k].at = "stopped" =>
                     \/ k \in FrameIds /\ stack'[k] = stack[k]
                     \/ stack'[k] = Frame("stopped", w[p], p)
<1> DEFINE p == Head(cmdQueue)
           f == Frame("stopped", w[p], p)
<1>1. /\ Len(stack) \in Nat /\ Len(stack') = Len(stack) + 1 /\ stack'[Len(stack) + 1] = f
      /\ \A i \in 1..Len(stack) : stack'[i] = stack[i]
  BY StopEffect, StackFacts DEF Pushed, IInv
<1>2. f.at = "stopped" /\ f.p = p
  BY DEF Frame
<1> HIDE DEF f, p
<1>3. /\ \A k \in FrameIds : k \in FrameIds' /\ stack'[k] = stack[k]
      /\ \A k \in FrameIds' : k \in FrameIds \/ k = Len(stack) + 1
      /\ Len(stack) + 1 \in FrameIds'
  BY <1>1 DEF FrameIds
<1>4. \A n \in Node : Stopping(n)' <=> Stopping(n) \/ n = p
  BY <1>1, <1>2, <1>3 DEF Stopping
<1> QED
  BY <1>1, <1>3, <1>4 DEF f, p

\* ThreadStopped returns, or throws.
LEMMA StoppingGoes ==
    ASSUME IInv, StoppedReturn \/ StoppedThrow
    PROVE  /\ Top.p \in alloc \ (Queued \cup thList \cup winList) /\ Stopping(Top.p)
           /\ \A n \in Node : Stopping(n)' <=> Stopping(n) /\ n # Top.p
           /\ \A k \in FrameIds' : k \in FrameIds /\ stack'[k] = stack[k]
<1>0. /\ TypeOK /\ StackShape /\ Len(stack) \in Nat /\ 1 < Len(stack)
      /\ Top = stack[Len(stack)] /\ Top.at = "stopped" /\ Top.p \in Node
      /\ stack[Len(stack) - 1].at = "events"
  BY StackFacts DEF IInv, StoppedReturn, StoppedThrow
<1>1. /\ Prefix(stack', stack)
      /\ (Len(stack') = Len(stack) - 1 \/ Len(stack') = Len(stack) - 2)
  BY <1>0, ReturnShape DEF StackShape, StoppedReturn, StoppedThrow
<1>2. /\ Len(stack) \in FrameIds
      /\ \A k \in FrameIds' : k \in FrameIds /\ k # Len(stack) /\ stack'[k] = stack[k]
      /\ \A k \in FrameIds : k \in FrameIds' \/ k = Len(stack) \/ k = Len(stack) - 1
  BY <1>0, <1>1, PrefixFacts DEF Prefix, FrameIds
<1>3. Top.p \in alloc \ (Queued \cup thList \cup winList) /\ Stopping(Top.p)
  BY <1>0, <1>2 DEF IInv, NodeShape, Stopping
<1>4. ASSUME NEW n \in Node PROVE Stopping(n)' <=> Stopping(n) /\ n # Top.p
  <2>1. ASSUME Stopping(n)' PROVE Stopping(n) /\ n # Top.p
    <3>1. PICK k \in FrameIds' : stack'[k].at = "stopped" /\ stack'[k].p = n
      BY <2>1 DEF Stopping
    <3>2. k \in FrameIds /\ k # Len(stack) /\ stack[k].at = "stopped" /\ stack[k].p = n
      BY <1>2, <3>1
    <3>3. n # Top.p
      BY <1>0, <1>2, <3>2 DEF IInv, NodeShape
    <3> QED
      BY <3>2, <3>3 DEF Stopping
  <2>2. ASSUME Stopping(n), n # Top.p PROVE Stopping(n)'
    <3>1. PICK k \in FrameIds : stack[k].at = "stopped" /\ stack[k].p = n
      BY <2>2 DEF Stopping
    <3>2. k \in FrameIds' /\ stack'[k] = stack[k]
      BY <1>0, <1>2, <2>2, <3>1
    <3> QED
      BY <3>1, <3>2 DEF Stopping
  <2> QED
    BY <2>1, <2>2
<1> QED
  BY <1>2, <1>3, <1>4

-----------------------------------------------------------------------------
(* A window is destroyed.                                                  *)

\* The window of a loop, above which no ThreadStopped is being called.
LEMMA LoopNotStopped ==
    ASSUME IInv, MailShape, NEW i \in FrameIds, stack[i].at = "loop",
           \A k \in FrameIds : k > i => stack[k].at # "stopped"
    PROVE  \A n \in Node : Stopping(n) => w[n] # stack[i].win
<1>1. SUFFICES ASSUME NEW n \in Node, Stopping(n), w[n] = stack[i].win PROVE FALSE
  OBVIOUS
<1>2. PICK k \in FrameIds : stack[k].at = "stopped" /\ stack[k].p = n
  BY <1>1 DEF Stopping
<1>3. stack[k].win = w[n]
  BY <1>2 DEF MailShape
<1>4. PICK j \in FrameIds : j < k /\ stack[j].at = "loop" /\ stack[j].win = w[n]
  BY <1>2, <1>3 DEF IInv, WindowShape
<1>5. j = i
  BY <1>1, <1>4 DEF IInv, WindowShape
<1> QED
  BY <1>2, <1>4, <1>5 DEF FrameIds

LEMMA DropsOne ==
    ASSUME IInv, MailShape, CloseDialog \/ SignalThrow
    PROVE  \E x \in Window :
              /\ \A n \in Node : Stopping(n) => w[n] # x
              /\ \A n \in Node : w'[n] = IF n \in winList /\ w[n] = x THEN None ELSE w[n]
              /\ UNCHANGED <<alloc, thList, cmd, data, cmdQueue>>
<1>0. /\ TypeOK /\ StackShape /\ Len(stack) \in Nat /\ 1 <= Len(stack)
      /\ Top = stack[Len(stack)] /\ Len(stack) \in FrameIds
  BY StackFacts DEF IInv, FrameIds
<1>1. ASSUME NEW x, DropWindow(x)
      PROVE  \A n \in Node : w'[n] = IF n \in winList /\ w[n] = x THEN None ELSE w[n]
  BY <1>1 DEF DropWindow
<1>2. CASE CloseDialog
  <2>1. Top.at = "loop" /\ DropWindow(Top.win) /\ UNCHANGED <<alloc, thList, cmd, data, cmdQueue>>
    BY <1>2 DEF CloseDialog, queueVars
  <2>2. \A n \in Node : Stopping(n) => w[n] # Top.win
    BY <1>0, <2>1, LoopNotStopped DEF FrameIds
  <2>3. Top.win \in Window
    BY <1>0, <2>1 DEF IInv, WindowShape, TypeOK
  <2> QED
    BY <1>1, <2>1, <2>2, <2>3
<1>3. CASE SignalThrow
  <2> DEFINE i == Len(stack) - 2
  <2>1. /\ Top.at = "signal" /\ 3 < Len(stack) /\ DropWindow(stack[i].win)
        /\ UNCHANGED <<alloc, thList, cmd, data, cmdQueue>>
    BY <1>3 DEF SignalThrow, queueVars
  <2>2. Len(stack) - 1 \in 1..Len(stack) /\ stack[Len(stack) - 1].at = "events"
    BY <1>0, <2>1, StackFacts
  <2>3. i \in FrameIds /\ stack[i].at = "loop"
    BY <1>0, <2>1, <2>2 DEF StackShape, Shape, FrameIds
  <2>4. \A k \in FrameIds : k > i => k = Len(stack) \/ k = Len(stack) - 1
    BY <1>0 DEF FrameIds
  <2>5. \A n \in Node : Stopping(n) => w[n] # stack[i].win
    BY <1>0, <2>1, <2>2, <2>3, <2>4, LoopNotStopped
  <2>6. stack[i].win \in Window
    BY <2>3 DEF IInv, WindowShape, TypeOK
  <2> HIDE DEF i
  <2> QED
    BY <1>1, <2>1, <2>5, <2>6
<1> QED
  BY <1>2, <1>3

-----------------------------------------------------------------------------
(* The invariant.                                                          *)

LEMMA MailShapeStep ==
    ASSUME IInv, MailShape, Next
    PROVE  MailShape'
<1>0. TypeOK /\ StackShape /\ QueueShape /\ NodeShape /\ OwnerShape
      /\ Queued \subseteq Node /\ alloc \subseteq Node
  BY DEF IInv, TypeOK, Queued
<1>1. \A i \in FrameIds : stack[i].at = "stopped" =>
         stack[i].p \in Node /\ stack[i].p \in alloc /\ stack[i].p \notin winList
  BY <1>0 DEF NodeShape, TypeOK
\* No ThreadStopped is called, and none returns.
<1>2. ASSUME StoppedStay,
             \A n \in alloc' : n \in thList' \/ n \in Queued' \/ n \in alloc,
             \A n \in alloc' : n \in thList \cup Queued => n \in thList' \cup Queued',
             \A n \in alloc : n \notin winList => w'[n] = w[n],
             \A n \in Queued' : cmd'[n] = "EVENT" => data'[n] \in Data
      PROVE  MailShape'
  <2>1. \A n \in alloc' : n \in thList' \/ n \in Queued' \/ Stopping(n)'
    BY <1>0, <1>2, StoppingStays DEF MailShape
  <2>2. \A i \in FrameIds' : stack'[i].at = "stopped" => stack'[i].win = w'[stack'[i].p]
    BY <1>1, <1>2 DEF MailShape, StoppedStay
  <2> QED
    BY <1>2, <2>1, <2>2 DEF MailShape
<1>3. ASSUME NEW n \in Node, EndThread(n) PROVE MailShape'
  <2>1. /\ n \in thList /\ thList' = thList \ {n} /\ cmd' = [cmd EXCEPT ![n] = "END"]
        /\ UNCHANGED <<alloc, w, data, stack>> /\ Enqueue(n)
    BY <1>3 DEF EndThread
  <2>2. Queued' = Queued \cup {n}
    BY <1>0, <2>1, EnqueueEffect
  <2>3. \A m \in Queued' : cmd'[m] = "EVENT" => data'[m] \in Data
    BY <1>0, <2>1, <2>2 DEF MailShape, TypeOK
  <2> QED
    BY <1>2, <2>1, <2>2, <2>3, StoppedStays
<1>4. ASSUME NEW n \in Node, NEW d \in Data, Signal(n, d) PROVE MailShape'
  <2>1. /\ n \in thList /\ cmd' = [cmd EXCEPT ![n] = "EVENT"] /\ data' = [data EXCEPT ![n] = d]
        /\ UNCHANGED <<alloc, thList, w, stack>> /\ Enqueue(n)
    BY <1>4 DEF Signal
  <2>2. Queued' = Queued \cup {n}
    BY <1>0, <2>1, EnqueueEffect
  <2>3. \A m \in Queued' : cmd'[m] = "EVENT" => data'[m] \in Data
    BY <1>0, <2>1, <2>2 DEF MailShape, TypeOK
  <2> QED
    BY <1>2, <2>1, <2>2, <2>3, StoppedStays
<1>5. ASSUME NEW x \in Window, NEW n \in Node, CreateThread(x, n) PROVE MailShape'
  <2>1. /\ n \notin alloc /\ alloc' = alloc \cup {n} /\ thList' = thList \cup {n}
        /\ w' = [w EXCEPT ![n] = x] /\ cmd' = [cmd EXCEPT ![n] = "NONE"]
        /\ data' = [data EXCEPT ![n] = None] /\ stack' = stack /\ cmdQueue' = cmdQueue
    BY <1>5 DEF CreateThread, queueVars
  <2>2. Queued' = Queued /\ n \notin Queued
    BY <1>0, <2>1 DEF Queued, NodeShape
  <2>3. \A m \in Node : m # n => w'[m] = w[m] /\ cmd'[m] = cmd[m] /\ data'[m] = data[m]
    BY <1>0, <2>1 DEF TypeOK
  <2>4. \A m \in Queued' : cmd'[m] = "EVENT" => data'[m] \in Data
    BY <1>0, <2>2, <2>3 DEF MailShape
  <2>5. \A m \in alloc : m # n /\ m \in Node
    BY <1>0, <2>1
  <2> QED
    BY <1>2, <2>1, <2>2, <2>3, <2>4, <2>5, StoppedStays
<1>6. CASE BeginEvents \/ EmptyRound \/ SignalReturn \/ (\E x \in Window : OpenDialog(x))
  <2>1. UNCHANGED <<alloc, thList, w, cmd, data, cmdQueue>>
    BY <1>6 DEF BeginEvents, EmptyRound, SignalReturn, OpenDialog, nodeVars, queueVars
  <2>2. Queued' = Queued
    BY <2>1 DEF Queued
  <2> QED
    BY <1>2, <1>6, <2>1, <2>2, StoppedStays DEF MailShape
<1>7. CASE CloseDialog \/ SignalThrow
  <2>1. PICK x \in Window :
              /\ \A n \in Node : w'[n] = IF n \in winList /\ w[n] = x THEN None ELSE w[n]
              /\ UNCHANGED <<alloc, thList, cmd, data, cmdQueue>>
    BY <1>7, DropsOne
  <2>2. Queued' = Queued
    BY <2>1 DEF Queued
  <2> QED
    BY <1>0, <1>2, <1>7, <2>1, <2>2, StoppedStays DEF MailShape
<1>8. CASE EventRound
  <2> DEFINE p == Head(cmdQueue)
  <2>1. /\ UNCHANGED <<alloc, thList, w, data>> /\ cmd[p] = "EVENT"
        /\ cmd' = [cmd EXCEPT ![p] = "NONE"] /\ cmdQueue' = Tail(cmdQueue) /\ cmdQueue # <<>>
    BY <1>8 DEF EventRound
  <2>2. p \in Queued /\ Queued' = Queued \ {p} /\ p \in thList
    BY <1>0, <2>1, DequeueEffect DEF QueueShape
  <2> HIDE DEF p
  <2>3. \A m \in Queued' : cmd'[m] = cmd[m]
    BY <1>0, <2>1, <2>2 DEF TypeOK
  <2> QED
    BY <1>2, <1>8, <2>1, <2>2, <2>3, StoppedStays DEF MailShape
<1>9. CASE StopRound
  <2> DEFINE p == Head(cmdQueue)
  <2>1. /\ UNCHANGED <<thList, w, cmd, data>> /\ cmd[p] = "END"
        /\ cmdQueue' = Tail(cmdQueue) /\ cmdQueue # <<>>
        /\ w[p] = None => alloc' = alloc \ {p}
        /\ w[p] # None => alloc' = alloc
    BY <1>9 DEF StopRound, Free
  <2>2. p \in Queued /\ Queued' = Queued \ {p} /\ p \in Node
    BY <1>0, <2>1, DequeueEffect
  <2>3. \A m \in Queued' : cmd'[m] = "EVENT" => data'[m] \in Data
    BY <2>1, <2>2 DEF MailShape
  <2>4. CASE w[p] = None
    BY <1>2, <1>9, <2>1, <2>2, <2>3, <2>4, StoppedStays
  <2>5. CASE w[p] # None
    <3>1. /\ \A n \in Node : Stopping(n)' <=> Stopping(n) \/ n = p
          /\ \A k \in FrameIds' : stack'[k].at = "stopped" =>
                \/ k \in FrameIds /\ stack'[k] = stack[k]
                \/ stack'[k] = Frame("stopped", w[p], p)
      BY <1>9, <2>5, StoppingComes
    <3> HIDE DEF p
    <3>2. \A n \in alloc' : n \in thList' \/ n \in Queued' \/ Stopping(n)'
      BY <1>0, <2>1, <2>2, <2>5, <3>1 DEF MailShape
    <3>3. \A k \in FrameIds' : stack'[k].at = "stopped" => stack'[k].win = w'[stack'[k].p]
      BY <2>1, <3>1 DEF MailShape, Frame
    <3> QED
      BY <2>3, <3>2, <3>3 DEF MailShape
  <2> QED
    BY <2>4, <2>5
<1>10. CASE StoppedReturn \/ StoppedThrow
  <2>1. /\ UNCHANGED <<thList, w, cmd, data, cmdQueue>> /\ alloc' = alloc \ {Top.p}
    BY <1>10 DEF StoppedReturn, StoppedThrow, Free, queueVars
  <2>2. /\ \A n \in Node : Stopping(n)' <=> Stopping(n) /\ n # Top.p
        /\ \A k \in FrameIds' : k \in FrameIds /\ stack'[k] = stack[k]
    BY <1>10, StoppingGoes
  <2>3. Queued' = Queued
    BY <2>1 DEF Queued
  <2> QED
    BY <1>0, <2>1, <2>2, <2>3 DEF MailShape
<1> QED
  BY <1>3, <1>4, <1>5, <1>6, <1>7, <1>8, <1>9, <1>10 DEF Next, Worker, UserCode, DoEvents, Handlers

LEMMA MailInvariance == Spec => []MailShape
<1>1. Init => MailShape
  BY DEF Init, MailShape, Frame, FrameIds, Queued
<1>2. ASSUME MailShape, UNCHANGED vars PROVE MailShape'
  BY <1>2 DEF MailShape, Stopping, FrameIds, Queued, vars
<1> QED
  BY <1>1, <1>2, MailShapeStep, Invariance, PTL DEF Spec

-----------------------------------------------------------------------------
(* The refinement.                                                         *)

LEMMA MailInit == Init => Mail!Init
BY DEF Init, Mail!Init, lifeMap, boxMap, ownerMap, Queued

LEMMA MailStep ==
    ASSUME IInv, MailShape, Next
    PROVE  [Mail!Next]_(Mail!mailVars)
<1>0. /\ TypeOK /\ StackShape /\ QueueShape /\ NodeShape /\ OwnerShape
      /\ Queued \subseteq Node /\ alloc \subseteq Node
      /\ thList \subseteq alloc /\ Queued \subseteq alloc
  BY DEF IInv, TypeOK, Queued, NodeShape
<1>1. \A n \in Node : Stopping(n) => n \in alloc /\ n \notin thList /\ n \notin Queued
  BY <1>0 DEF Stopping, NodeShape
<1>2. ASSUME NEW n \in Node, EndThread(n) PROVE Mail!Finish(n)
  <2>1. /\ n \in thList /\ thList' = thList \ {n} /\ cmd' = [cmd EXCEPT ![n] = "END"]
        /\ UNCHANGED <<alloc, w, data, stack>> /\ Enqueue(n)
    BY <1>2 DEF EndThread
  <2>2. Queued' = Queued \cup {n}
    BY <1>0, <2>1, EnqueueEffect
  <2>3. ~Stopping(n) /\ \A m \in Node : Stopping(m)' <=> Stopping(m)
    BY <1>1, <2>1, StoppedStays, StoppingStays
  <2>4. lifeMap[n] = "running" /\ lifeMap' = [lifeMap EXCEPT ![n] = "ended"]
    BY <1>0, <2>1, <2>3 DEF lifeMap
  <2>5. boxMap' = [boxMap EXCEPT ![n] = "STOP"]
    BY <1>0, <2>1, <2>2 DEF boxMap, TypeOK
  <2>6. ownerMap' = ownerMap
    BY <2>1 DEF ownerMap
  <2> QED
    BY <2>4, <2>5, <2>6 DEF Mail!Finish
<1>3. ASSUME NEW n \in Node, NEW d \in Data, Signal(n, d) PROVE Mail!Post(n, d)
  <2>1. /\ n \in thList /\ cmd' = [cmd EXCEPT ![n] = "EVENT"] /\ data' = [data EXCEPT ![n] = d]
        /\ UNCHANGED <<alloc, thList, w, stack>> /\ Enqueue(n)
    BY <1>3 DEF Signal
  <2>2. Queued' = Queued \cup {n}
    BY <1>0, <2>1, EnqueueEffect
  <2>3. \A m \in Node : Stopping(m)' <=> Stopping(m)
    BY <2>1, StoppedStays, StoppingStays
  <2>4. lifeMap[n] = "running" /\ lifeMap' = lifeMap
    BY <1>0, <2>1, <2>3 DEF lifeMap
  <2>5. boxMap' = [boxMap EXCEPT ![n] = d]
    BY <1>0, <2>1, <2>2 DEF boxMap, TypeOK
  <2>6. ownerMap' = ownerMap
    BY <2>1 DEF ownerMap
  <2> QED
    BY <2>4, <2>5, <2>6 DEF Mail!Post
<1>4. ASSUME NEW x \in Window, NEW n \in Node, CreateThread(x, n) PROVE Mail!Create(n, x)
  <2>1. /\ n \notin alloc /\ alloc' = alloc \cup {n} /\ thList' = thList \cup {n}
        /\ w' = [w EXCEPT ![n] = x] /\ cmd' = [cmd EXCEPT ![n] = "NONE"]
        /\ data' = [data EXCEPT ![n] = None] /\ stack' = stack /\ cmdQueue' = cmdQueue
    BY <1>4 DEF CreateThread, queueVars
  <2>2. Queued' = Queued /\ n \notin Queued
    BY <1>0, <2>1 DEF Queued
  <2>3. \A m \in Node : Stopping(m)' <=> Stopping(m)
    BY <2>1, StoppedStays, StoppingStays
  <2>4. lifeMap[n] = "none" /\ lifeMap' = [lifeMap EXCEPT ![n] = "running"]
    BY <1>0, <2>1, <2>3 DEF lifeMap
  <2>5. boxMap' = boxMap
    BY <1>0, <2>1, <2>2 DEF boxMap, TypeOK
  <2>6. ownerMap' = [ownerMap EXCEPT ![n] = x]
    BY <1>0, <2>1 DEF ownerMap, TypeOK
  <2> QED
    BY <2>4, <2>5, <2>6 DEF Mail!Create
<1>5. ASSUME BeginEvents \/ EmptyRound \/ SignalReturn \/ (\E x \in Window : OpenDialog(x))
      PROVE  UNCHANGED Mail!mailVars
  <2>1. UNCHANGED <<alloc, thList, w, cmd, data, cmdQueue>>
    BY <1>5 DEF BeginEvents, EmptyRound, SignalReturn, OpenDialog, nodeVars, queueVars
  <2>2. Queued' = Queued
    BY <2>1 DEF Queued
  <2>3. \A m \in Node : Stopping(m)' <=> Stopping(m)
    BY <1>5, StoppedStays, StoppingStays
  <2> QED
    BY <2>1, <2>2, <2>3 DEF Mail!mailVars, lifeMap, boxMap, ownerMap
<1>6. ASSUME CloseDialog \/ SignalThrow PROVE \E x \in Window : Mail!Destroy(x)
  <2>1. PICK x \in Window :
              /\ \A n \in Node : Stopping(n) => w[n] # x
              /\ \A n \in Node : w'[n] = IF n \in winList /\ w[n] = x THEN None ELSE w[n]
              /\ UNCHANGED <<alloc, thList, cmd, data, cmdQueue>>
    BY <1>6, DropsOne
  <2>2. Queued' = Queued
    BY <2>1 DEF Queued
  <2>3. \A m \in Node : Stopping(m)' <=> Stopping(m)
    BY <1>6, StoppedStays, StoppingStays
  <2>4. x # None
    BY NoneAssumption
  <2>5. ASSUME NEW n \in alloc, w[n] = x PROVE w'[n] = None
    <3>1. n \in Node /\ n \in thList \cup Queued
      BY <1>0, <2>1, <2>5 DEF MailShape
    <3>2. n \in winList
      BY <1>0, <2>4, <2>5, <3>1 DEF OwnerShape
    <3> QED
      BY <2>1, <2>5, <3>1, <3>2
  <2>6. \A n \in alloc : w[n] # x => w'[n] = w[n]
    BY <1>0, <2>1
  <2>7. ownerMap' = [t \in Node |-> IF ownerMap[t] = x THEN None ELSE ownerMap[t]]
    BY <2>1, <2>4, <2>5, <2>6 DEF ownerMap
  <2>8. lifeMap' = lifeMap /\ boxMap' = boxMap
    BY <2>1, <2>2, <2>3 DEF lifeMap, boxMap
  <2>9. \A t \in Node : ownerMap[t] = x => lifeMap[t] # "joined"
    BY <2>1, <2>4 DEF ownerMap, lifeMap
  <2> QED
    BY <2>7, <2>8, <2>9 DEF Mail!Destroy
<1>7. ASSUME EventRound PROVE Mail!Take(Head(cmdQueue)) /\ Head(cmdQueue) \in Node
  <2> DEFINE p == Head(cmdQueue)
  <2>1. /\ UNCHANGED <<alloc, thList, w, data>> /\ cmd[p] = "EVENT"
        /\ cmd' = [cmd EXCEPT ![p] = "NONE"] /\ cmdQueue' = Tail(cmdQueue) /\ cmdQueue # <<>>
    BY <1>7 DEF EventRound
  <2>2. p \in Queued /\ Queued' = Queued \ {p} /\ p \in Node
    BY <1>0, <2>1, DequeueEffect
  <2>3. \A m \in Node : Stopping(m)' <=> Stopping(m)
    BY <1>7, StoppedStays, StoppingStays
  <2> HIDE DEF p
  <2>4. boxMap[p] \in Data
    BY <2>1, <2>2 DEF boxMap, MailShape
  <2>5. boxMap' = [boxMap EXCEPT ![p] = None]
    BY <1>0, <2>1, <2>2 DEF boxMap, TypeOK
  <2>6. lifeMap' = lifeMap /\ ownerMap' = ownerMap
    BY <2>1, <2>3 DEF lifeMap, ownerMap
  <2>7. Mail!Take(p)
    BY <2>4, <2>5, <2>6 DEF Mail!Take
  <2> QED
    BY <2>2, <2>7 DEF p
<1>8. ASSUME StopRound PROVE Mail!TakeStop(Head(cmdQueue)) /\ Head(cmdQueue) \in Node
  <2> DEFINE p == Head(cmdQueue)
  <2>1. /\ UNCHANGED <<thList, w, cmd, data>> /\ cmd[p] = "END"
        /\ cmdQueue' = Tail(cmdQueue) /\ cmdQueue # <<>>
        /\ w[p] = None => alloc' = alloc \ {p}
        /\ w[p] # None => alloc' = alloc
    BY <1>8 DEF StopRound, Free
  <2>2. p \in Queued /\ Queued' = Queued \ {p} /\ p \in Node /\ p \in alloc /\ p \notin thList
    BY <1>0, <2>1, DequeueEffect DEF QueueShape
  <2>3. CASE w[p] = None
    <3>1. \A m \in Node : Stopping(m)' <=> Stopping(m)
      BY <1>8, <2>3, StoppedStays, StoppingStays
    <3> HIDE DEF p
    <3>2. boxMap[p] = "STOP" /\ boxMap' = [boxMap EXCEPT ![p] = None]
      BY <2>1, <2>2 DEF boxMap
    <3>3. ownerMap[p] = None /\ ownerMap' = ownerMap
      BY <2>1, <2>2, <2>3 DEF ownerMap
    <3>4. lifeMap' = [lifeMap EXCEPT ![p] = "none"]
      BY <2>1, <2>2, <2>3, <3>1 DEF lifeMap
    <3>5. Mail!TakeStop(p)
      BY <3>2, <3>3, <3>4 DEF Mail!TakeStop
    <3> QED
      BY <2>2, <3>5 DEF p
  <2>4. CASE w[p] # None
    <3>1. \A m \in Node : Stopping(m)' <=> Stopping(m) \/ m = p
      BY <1>8, <2>4, StoppingComes
    <3> HIDE DEF p
    <3>2. boxMap[p] = "STOP" /\ boxMap' = [boxMap EXCEPT ![p] = None]
      BY <2>1, <2>2 DEF boxMap
    <3>3. ownerMap[p] # None /\ ownerMap' = ownerMap
      BY <2>1, <2>2, <2>4 DEF ownerMap
    <3>4. lifeMap' = [lifeMap EXCEPT ![p] = "joined"]
      BY <2>1, <2>2, <2>4, <3>1 DEF lifeMap
    <3>5. Mail!TakeStop(p)
      BY <3>2, <3>3, <3>4 DEF Mail!TakeStop
    <3> QED
      BY <2>2, <3>5 DEF p
  <2> QED
    BY <2>3, <2>4
<1>9. ASSUME StoppedReturn \/ StoppedThrow PROVE Mail!Forget(Top.p) /\ Top.p \in Node
  <2> DEFINE p == Top.p
  <2>1. /\ UNCHANGED <<thList, w, cmd, data, cmdQueue>> /\ alloc' = alloc \ {p}
    BY <1>9 DEF StoppedReturn, StoppedThrow, Free, queueVars
  <2>2. /\ p \in alloc /\ p \notin Queued /\ p \notin thList /\ p \in Node /\ Stopping(p)
        /\ \A n \in Node : Stopping(n)' <=> Stopping(n) /\ n # p
    BY <1>0, <1>9, StoppingGoes
  <2>3. Queued' = Queued
    BY <2>1 DEF Queued
  <2> HIDE DEF p
  <2>4. lifeMap[p] = "joined" /\ lifeMap' = [lifeMap EXCEPT ![p] = "none"]
    BY <2>1, <2>2 DEF lifeMap
  <2>5. ownerMap' = [ownerMap EXCEPT ![p] = None]
    BY <2>1, <2>2 DEF ownerMap
  <2>6. boxMap' = boxMap
    BY <2>1, <2>3 DEF boxMap
  <2>7. Mail!Forget(p)
    BY <2>4, <2>5, <2>6 DEF Mail!Forget
  <2> QED
    BY <2>2, <2>7 DEF p
<1> QED
  BY <1>2, <1>3, <1>4, <1>5, <1>6, <1>7, <1>8, <1>9
     DEF Next, Worker, UserCode, DoEvents, Handlers, Mail!Next

\* The window threads keep the promise of the mail boxes, as far as it is one
\* of safety: a box holds the last thing its thread has said, "STOP" comes last
\* and once, what is taken is told to the window the box belongs to, and a
\* window is destroyed only while none of its threads is being stopped.
THEOREM ImplementsMail == Spec => Mail!Init /\ [][Mail!Next]_(Mail!mailVars)
<1>1. ASSUME UNCHANGED vars PROVE UNCHANGED Mail!mailVars
  BY <1>1 DEF Mail!mailVars, lifeMap, boxMap, ownerMap, Queued, Stopping, FrameIds, vars
<1>2. IInv /\ MailShape /\ [Next]_vars => [Mail!Next]_(Mail!mailVars)
  BY <1>1, MailStep
<1> QED
  BY <1>2, MailInit, Invariance, MailInvariance, PTL DEF Spec

-----------------------------------------------------------------------------
(* The operation threads: what holds whatever the platform does and the    *)
(* callers ask for.                                                        *)

NodeFields ==
    [win : Window \cup {None}, prev : Node \cup {None}, next : Node \cup {None},
     stopped : BOOLEAN, cbRet : {"negative", "ok"}, cbFunc : BOOLEAN, cond : BOOLEAN]

UiStates ==
    [op : {"none", "stopping", "create", "close", "flag"}, win : Window \cup {None},
     then : {"none", "create", "close"}, p : Node \cup {None}]

InFunction == {"run", "data", "ask", "posted", "waiting"}

OperTypeOK ==
    /\ tNode \in [Window -> Node \cup {None}]
    /\ threadId \in [Window -> Node \cup {None}]
    /\ cbExecuted \in [Window -> BOOLEAN]
    /\ inOper \in BOOLEAN
    /\ ui \in UiStates
    /\ calls \in Seq(Node \cup {None, Told})
    /\ operStopList \in Node \cup {None}
    /\ node \in [Node -> NodeFields]
    /\ opAlive \subseteq Node
    /\ pc \in [Node -> InFunction \cup {"none", "ended"}]
    /\ fault \subseteq {"assert", "null", "freed"}

\* A run's thread lives as long as its worker is somewhere, and its node until
\* the operation's function has returned.
WorkerShape ==
    \A n \in Node : /\ n \in thList <=> pc[n] # "none"
                    /\ n \in opAlive <=> pc[n] \in InFunction

\* node->mutex keeps StopThread and SetStopFlag out.
LockHeld == \A n \in Node : pc[n] = "data" => ~node[n].stopped

\* A window waits for the end of the run it is bound to.
IdKept == \A x \in Window : tNode[x] # None => threadId[x] = tNode[x]

\* What the user-interface thread is in the middle of, and where it is then.
UiShape ==
    /\ ui.op # "none" => ui.win \in Window
    /\ ui.op = "stopping" => ui.then \in {"create", "close"}
    /\ ui.op = "close" \/ (ui.op = "stopping" /\ ui.then = "close") =>
          Top.at = "loop" /\ Top.win = ui.win /\ ui.win # MainWin
    /\ ui.op \in {"create", "close"} => threadId[ui.win] = None /\ tNode[ui.win] = None
    /\ ui.op = "stopping" /\ ui.then = "create" /\ ui.win # MainWin =>
          threadId[ui.win] = None

OperInv ==
    OperTypeOK /\ WorkerShape /\ BoundBothWays /\ LockHeld /\ IdKept /\ UiShape

-----------------------------------------------------------------------------
(* The stop list, when only StopThread stops a run.                        *)

StoppedRuns == {n \in opAlive : node[n].stopped}

\* r orders the stopped runs as the list does, the first one highest.
Ranks(r) ==
    /\ \A m, n \in StoppedRuns : r[m] = r[n] => m = n
    /\ \A n \in StoppedRuns :
          /\ operStopList = n <=> \A k \in StoppedRuns : r[k] <= r[n]
          /\ node[n].prev = None <=> \A k \in StoppedRuns : r[k] <= r[n]
          /\ node[n].next = None <=> \A k \in StoppedRuns : r[n] <= r[k]
          /\ node[n].prev # None =>
                /\ node[n].prev \in StoppedRuns /\ r[n] < r[node[n].prev]
                /\ \A k \in StoppedRuns : r[n] < r[k] => r[node[n].prev] <= r[k]
          /\ node[n].next # None =>
                /\ node[n].next \in StoppedRuns /\ r[node[n].next] < r[n]
                /\ \A k \in StoppedRuns : r[k] < r[n] => r[k] <= r[node[n].next]

StopListInv ==
    /\ ui.op # "flag"
    /\ \A n \in StoppedRuns : node[n].win = None
    /\ operStopList = None <=> StoppedRuns = {}
    /\ operStopList # None => operStopList \in StoppedRuns
    /\ \E r \in [Node -> Nat] : Ranks(r)

-----------------------------------------------------------------------------
(* Callbacks, when only dialogs ask.                                       *)

Handling(f) == f.at \in {"signal", "stopped"}

\* at[i] is the frame in which the handler runs that calls[i] is about.
CallsAt(at) ==
    /\ \A i, j \in DOMAIN calls : i < j => at[i] < at[j]
    /\ \A k \in FrameIds : Handling(stack[k]) <=> \E i \in DOMAIN calls : at[i] = k
    /\ \A i \in DOMAIN calls :
          /\ calls[i] = Told => stack[at[i]].at = "stopped"
          /\ calls[i] \in Node =>
                stack[at[i]].at = "signal" /\ stack[at[i]].win = w[calls[i]]

CallsMatch == \E at \in [DOMAIN calls -> FrameIds] : CallsAt(at)

\* A window that asks has at most one run, which asks for itself alone.
OneRun ==
    /\ \A n \in thList \cup Queued :
          w[n] \in Window \ {MainWin} =>
             threadId[w[n]] = n \/ (ui.op = "close" /\ ui.win = w[n])
    /\ \A n \in Node : data[n] = Call => w[n] # MainWin
    /\ \A x \in Window : tNode[x] # None => w[tNode[x]] = x

\* A question for window x waits in the queue.
Pending(n) ==
    /\ n \in Queued /\ cmd[n] = "EVENT" /\ data[n] = Call
    /\ w[n] \in Window /\ tNode[w[n]] = n

\* Who has asked waits for the answer, and nobody has given it yet.
InCallBack(n) == pc[n] \in {"posted", "waiting"}

Asking(n) == InCallBack(n) /\ node[n].cbFunc /\ ~node[n].cond

\* A run that has not asked, or has got its answer, has no signal left.
Unsignalled ==
    \A x \in Window : tNode[x] # None /\ ~InCallBack(tNode[x]) => ~node[tNode[x]].cond

CallsShape ==
    /\ \A n \in Node : Pending(n) => Asking(n) /\ n \notin CalledBack
    /\ \A n \in CalledBack : Asking(n) /\ w[n] \in Window \ {MainWin} /\ cbExecuted[w[n]]
    /\ \A i, j \in DOMAIN calls : calls[i] = calls[j] /\ calls[i] \in Node => i = j
    /\ \A x \in Window : cbExecuted[x] => \E n \in CalledBack : w[n] = x
    /\ Unsignalled

CallInv == CallsMatch /\ OneRun /\ CallsShape /\ fault = {}

-----------------------------------------------------------------------------
(* The operation threads move the window threads.                          *)

\* Worker n as the window threads see it: it signals, it ends, or nothing.
LEMMA WorkerMoves ==
    ASSUME NEW n \in Node, OperWorker(n)
    PROVE  /\ UNCHANGED <<open, stack>>
           /\ \/ UNCHANGED vars
              \/ SendSignal(n) /\ Signal(n, Info)
              \/ CallBack(n) /\ Signal(n, Call)
              \/ WorkerEnd(n) /\ EndThread(n)
<1>1. CASE SendSignal(n)
  BY <1>1 DEF SendSignal, Signal
<1>2. CASE CallBack(n)
  BY <1>2 DEF CallBack, Signal
<1>3. CASE WorkerEnd(n)
  BY <1>3 DEF WorkerEnd, EndThread
<1>4. CASE ~SendSignal(n) /\ ~CallBack(n) /\ ~WorkerEnd(n)
  BY <1>4 DEF OperWorker, Ask, LockData, UnlockData, LookBeforeAsking, EnterWait,
              CallBackReturn, FuncReturn, vars
<1> QED
  BY <1>1, <1>2, <1>3, <1>4

\* The user-interface thread as the window threads see it.
LEMMA UiMoves ==
    ASSUME OperUI
    PROVE  \/ UNCHANGED vars
           \/ \E x \in Window, n \in Node : CreateRun(x, n) /\ CreateThread(x, n)
           \/ \E x \in Window : OpenWindow(x) /\ OpenDialog(x)
           \/ DestroyDialog /\ CloseDialog
           \/ LoopTurn /\ (BeginEvents \/ EmptyRound)
           \/ ThreadSignal /\ EventRound
           \/ ThreadSignalReturn /\ SignalReturn
           \/ ThreadStopped /\ StopRound
           \/ ThreadStoppedReturn /\ StoppedReturn
<1>1. ASSUME NEW x \in Window, NEW n \in Node, CreateRun(x, n)
      PROVE  CreateThread(x, n)
  BY <1>1 DEF CreateRun
<1>2. ASSUME NEW x \in Window, OpenWindow(x) PROVE OpenDialog(x)
  BY <1>2 DEF OpenWindow
<1>3. ASSUME NEW x \in Window,
             StartRun(x) \/ LeaveDialog(x) \/ FinishStop(x) \/ ReadFlagNode(x)
      PROVE  UNCHANGED vars
  BY <1>3 DEF StartRun, LeaveDialog, FinishStop, ReadFlagNode
<1>4. CASE CreateFails \/ SetStopFlag
  BY <1>4 DEF CreateFails, SetStopFlag
<1> QED
  BY <1>1, <1>2, <1>3, <1>4
     DEF OperUI, DestroyDialog, LoopTurn, ThreadSignal, ThreadSignalReturn,
         ThreadStopped, ThreadStoppedReturn

LEMMA StepMoves == [OperNext]_allVars => [Next]_vars
<1>1. ASSUME NEW n \in Node, OperWorker(n) PROVE [Next]_vars
  BY <1>1, WorkerMoves, OperAssumption DEF Next, Worker
<1>2. CASE OperUI
  BY <1>2, UiMoves DEF Next, UserCode, DoEvents, Handlers
<1> QED
  BY <1>1, <1>2 DEF OperNext, allVars

\* The operation threads are built of the window threads: every step of theirs
\* is a step of these or does not concern them, so that what is true of the
\* window threads is true of the program.
THEOREM RunsOnWinThreads == OperSpec => Spec
<1>1. OperInit => Init
  BY DEF OperInit
<1> QED
  BY <1>1, StepMoves, PTL DEF OperSpec, Spec

-----------------------------------------------------------------------------
(* What the actions do to the nodes.                                       *)

LEMMA NoNodeType == NoNode \in NodeFields /\ NoNode.win = None /\ NoNode.stopped
                    /\ ~NoNode.cond
BY DEF NoNode, NewNode, NodeFields

LEMMA NewNodeType ==
    ASSUME NEW x \in Window
    PROVE  /\ NewNode(x) \in NodeFields /\ NewNode(x).win = x
           /\ ~NewNode(x).stopped /\ ~NewNode(x).cond
BY DEF NewNode, NodeFields

LEMMA SignalledEffect ==
    ASSUME NEW nd \in [Node -> NodeFields], NEW n \in Node
    PROVE  /\ Signalled(nd, n) \in [Node -> NodeFields]
           /\ \A m \in Node : m # n => Signalled(nd, n)[m] = nd[m]
           /\ Signalled(nd, n)[n].win = nd[n].win
           /\ Signalled(nd, n)[n].prev = nd[n].prev
           /\ Signalled(nd, n)[n].next = nd[n].next
           /\ Signalled(nd, n)[n].stopped = nd[n].stopped
           /\ Signalled(nd, n)[n].cbFunc = nd[n].cbFunc
<1>1. CASE Sticky \/ pc[n] = "waiting"
  <2>1. Signalled(nd, n) = [nd EXCEPT ![n].cond = TRUE]
    BY <1>1 DEF Signalled
  <2>2. [nd[n] EXCEPT !.cond = TRUE] \in NodeFields
    BY DEF NodeFields
  <2> QED
    BY <2>1, <2>2 DEF NodeFields
<1>2. CASE ~(Sticky \/ pc[n] = "waiting")
  BY <1>2 DEF Signalled
<1> QED
  BY <1>1, <1>2

\* The same fields but for the links of the stop list, and for the answer.
SameNode(a, b) ==
    /\ a.win = b.win /\ a.stopped = b.stopped
    /\ a.cbFunc = b.cbFunc /\ a.cond = b.cond

LEMMA UnbindEffect ==
    ASSUME OperTypeOK, NEW x \in Window, NEW n \in Node
    PROVE  LET u == Unbind(x, n)
           IN  /\ u \in [Node -> NodeFields]
               /\ u[n].win = None /\ u[n].stopped
               /\ u[n].next = operStopList /\ u[n].cbFunc = node[n].cbFunc
               /\ cbExecuted[x] => u[n].cond = node[n].cond
               /\ operStopList # n => u[n].prev = None
               /\ \A m \in Node : m # n =>
                     /\ SameNode(u[m], node[m]) /\ u[m].next = node[m].next
                     /\ u[m].prev = IF m = operStopList THEN n ELSE node[m].prev
<1> DEFINE asked == [node EXCEPT ![n].cbRet = "negative"]
           answered == IF cbExecuted[x] THEN node ELSE Signalled(asked, n)
           unlinked == [answered EXCEPT ![n].stopped = TRUE, ![n].win = None,
                                        ![n].prev = None, ![n].next = operStopList]
<1>1. asked \in [Node -> NodeFields] /\ asked[n].cbFunc = node[n].cbFunc
      /\ \A m \in Node : m # n => asked[m] = node[m]
  <2>1. [node[n] EXCEPT !.cbRet = "negative"] \in NodeFields
    BY DEF OperTypeOK, NodeFields
  <2> QED
    BY <2>1 DEF OperTypeOK, NodeFields
<1>2. /\ answered \in [Node -> NodeFields]
      /\ answered[n].cbFunc = node[n].cbFunc
      /\ cbExecuted[x] => answered[n].cond = node[n].cond
      /\ \A m \in Node : m # n => answered[m] = node[m]
  <2>1. CASE cbExecuted[x]
    BY <2>1 DEF OperTypeOK
  <2>2. CASE ~cbExecuted[x]
    <3> HIDE DEF asked
    <3> QED
      BY <1>1, <2>2, SignalledEffect
  <2> QED
    BY <2>1, <2>2
<1> HIDE DEF answered, asked
<1>3. /\ unlinked \in [Node -> NodeFields]
      /\ unlinked[n].stopped /\ unlinked[n].win = None
      /\ unlinked[n].prev = None /\ unlinked[n].next = operStopList
      /\ unlinked[n].cbFunc = answered[n].cbFunc /\ unlinked[n].cond = answered[n].cond
      /\ \A m \in Node : m # n => unlinked[m] = answered[m]
  <2> DEFINE new == [answered[n] EXCEPT !.stopped = TRUE, !.win = None,
                                        !.prev = None, !.next = operStopList]
  <2>1. answered[n] \in NodeFields
    BY <1>2
  <2>2. /\ new \in NodeFields /\ new.stopped /\ new.win = None
        /\ new.prev = None /\ new.next = operStopList
        /\ new.cbFunc = answered[n].cbFunc /\ new.cond = answered[n].cond
    BY <2>1 DEF OperTypeOK, NodeFields
  <2>3. unlinked = [answered EXCEPT ![n] = new]
    BY <1>2, <2>1 DEF NodeFields
  <2> HIDE DEF new
  <2> QED
    BY <1>2, <2>2, <2>3
<1> HIDE DEF unlinked
<1>4. Unbind(x, n) = IF operStopList = None THEN unlinked
                     ELSE [unlinked EXCEPT ![operStopList].prev = n]
  BY DEF Unbind, unlinked, answered, asked
<1>5. CASE operStopList = None
  BY <1>2, <1>3, <1>4, <1>5, NoneAssumption DEF SameNode
<1>6. CASE operStopList # None
  <2>1. operStopList \in Node
    BY <1>6 DEF OperTypeOK
  <2>2. [unlinked[operStopList] EXCEPT !.prev = n] \in NodeFields
    BY <1>3, <2>1 DEF NodeFields
  <2> QED
    BY <1>2, <1>3, <1>4, <1>6, <2>1, <2>2 DEF SameNode, NodeFields
<1> QED
  BY <1>5, <1>6

LEMMA FuncReturnEffect ==
    ASSUME OperTypeOK, NEW n \in Node, FuncReturn(n)
    PROVE  /\ node' \in [Node -> NodeFields] /\ node'[n] = NoNode
           /\ tNode' \in [Window -> Node \cup {None}]
           /\ operStopList' \in Node \cup {None}
           /\ \A x \in Window :
                 tNode'[x] = IF node[n].win = x THEN None ELSE tNode[x]
           /\ \A m \in Node : m # n =>
                 /\ SameNode(node'[m], node[m])
                 /\ node'[m].next = IF node[n].stopped /\ node[n].prev = m
                                    THEN node[n].next ELSE node[m].next
                 /\ node'[m].prev = IF node[n].stopped /\ node[n].next = m
                                    THEN node[n].prev ELSE node[m].prev
<1> DEFINE me == node[n]
           prevLink == IF me.stopped /\ me.prev # None
                       THEN [node EXCEPT ![me.prev].next = me.next] ELSE node
           nextLink == IF me.stopped /\ me.next # None
                       THEN [prevLink EXCEPT ![me.next].prev = me.prev] ELSE prevLink
<1>1. /\ me \in NodeFields /\ me.win \in Window \cup {None}
      /\ me.prev \in Node \cup {None} /\ me.next \in Node \cup {None}
      /\ node \in [Node -> NodeFields]
  BY DEF OperTypeOK, NodeFields
<1> HIDE DEF me
<1>2. /\ prevLink \in [Node -> NodeFields]
      /\ \A m \in Node :
            /\ SameNode(prevLink[m], node[m]) /\ prevLink[m].prev = node[m].prev
            /\ prevLink[m].next = IF me.stopped /\ me.prev = m THEN me.next ELSE node[m].next
  <2>1. CASE me.stopped /\ me.prev # None
    <3>1. [node[me.prev] EXCEPT !.next = me.next] \in NodeFields
      BY <1>1, <2>1 DEF NodeFields
    <3> QED
      BY <1>1, <2>1, <3>1 DEF SameNode, NodeFields
  <2>2. CASE ~(me.stopped /\ me.prev # None)
    BY <1>1, <2>2, NoneAssumption DEF SameNode
  <2> QED
    BY <2>1, <2>2
<1> HIDE DEF prevLink
<1>3. /\ nextLink \in [Node -> NodeFields]
      /\ \A m \in Node :
            /\ SameNode(nextLink[m], prevLink[m]) /\ nextLink[m].next = prevLink[m].next
            /\ nextLink[m].prev = IF me.stopped /\ me.next = m THEN me.prev ELSE prevLink[m].prev
  <2>1. CASE me.stopped /\ me.next # None
    <3>1. [prevLink[me.next] EXCEPT !.prev = me.prev] \in NodeFields
      BY <1>1, <1>2, <2>1 DEF NodeFields
    <3> QED
      BY <1>1, <1>2, <2>1, <3>1 DEF SameNode, NodeFields
  <2>2. CASE ~(me.stopped /\ me.next # None)
    BY <1>1, <1>2, <2>2, NoneAssumption DEF SameNode
  <2> QED
    BY <2>1, <2>2
<1> HIDE DEF nextLink
<1>4. /\ operStopList' = IF me.stopped /\ me.prev = None THEN me.next ELSE operStopList
      /\ node' = [nextLink EXCEPT ![n] = NoNode]
      /\ tNode' = IF me.win = None THEN tNode ELSE [tNode EXCEPT ![me.win] = None]
  BY DEF FuncReturn, me, prevLink, nextLink
<1>5. operStopList' \in Node \cup {None}
  BY <1>1, <1>4 DEF OperTypeOK
<1>6. /\ tNode' \in [Window -> Node \cup {None}]
      /\ \A x \in Window : tNode'[x] = IF me.win = x THEN None ELSE tNode[x]
  BY <1>1, <1>4, NoneAssumption DEF OperTypeOK
<1>7. node' \in [Node -> NodeFields] /\ node'[n] = NoNode
  BY <1>3, <1>4, NoNodeType
<1>8. ASSUME NEW m \in Node, m # n PROVE node'[m] = nextLink[m]
  BY <1>3, <1>4, <1>8
<1> QED
  BY <1>2, <1>3, <1>5, <1>6, <1>7, <1>8 DEF SameNode, me

LEMMA CallBackEffect ==
    ASSUME OperTypeOK, NEW n \in Node, CallBack(n)
    PROVE  /\ node' \in [Node -> NodeFields]
           /\ node'[n].win = node[n].win /\ node'[n].stopped = node[n].stopped
           /\ node'[n].prev = node[n].prev /\ node'[n].next = node[n].next
           /\ node'[n].cbFunc /\ node'[n].cond = node[n].cond
           /\ \A m \in Node : m # n => node'[m] = node[m]
<1> DEFINE new == [node[n] EXCEPT !.cbRet = "negative", !.cbFunc = TRUE]
<1>1. node[n] \in NodeFields
  BY DEF OperTypeOK
<1>2. /\ new \in NodeFields /\ new.win = node[n].win /\ new.stopped = node[n].stopped
      /\ new.prev = node[n].prev /\ new.next = node[n].next
      /\ new.cbFunc /\ new.cond = node[n].cond
  BY <1>1 DEF NodeFields
<1>3. node' = [node EXCEPT ![n] = new]
  BY <1>1 DEF CallBack, OperTypeOK, NodeFields
<1> HIDE DEF new
<1> QED
  BY <1>2, <1>3 DEF OperTypeOK

LEMMA CallBackReturnEffect ==
    ASSUME OperTypeOK, NEW n \in Node, CallBackReturn(n)
    PROVE  /\ node' \in [Node -> NodeFields]
           /\ node'[n].win = node[n].win /\ node'[n].stopped = node[n].stopped
           /\ node'[n].prev = node[n].prev /\ node'[n].next = node[n].next
           /\ ~node'[n].cond /\ node'[n].cbFunc = node[n].cbFunc
           /\ \A m \in Node : m # n => node'[m] = node[m]
<1>1. node[n] \in NodeFields
  BY DEF OperTypeOK
<1>2. [node[n] EXCEPT !.cond = FALSE] \in NodeFields
  BY <1>1 DEF NodeFields
<1> QED
  BY <1>1, <1>2 DEF CallBackReturn, OperTypeOK, NodeFields

LEMMA SetStopFlagEffect ==
    ASSUME OperTypeOK, SetStopFlag, ui.p \in opAlive
    PROVE  /\ node' \in [Node -> NodeFields]
           /\ node'[ui.p].win = node[ui.p].win /\ node'[ui.p].stopped
           /\ \A m \in Node : m # ui.p => node'[m] = node[m]
<1>1. ui.p \in Node /\ node[ui.p] \in NodeFields
  BY DEF OperTypeOK
<1>2. [node[ui.p] EXCEPT !.stopped = TRUE] \in NodeFields
  BY <1>1 DEF NodeFields
<1> QED
  BY <1>1, <1>2 DEF SetStopFlag, OperTypeOK, NodeFields

\* The answer of the callback that returns.
LEMMA AnswerEffect ==
    ASSUME OperTypeOK, ThreadSignalReturn
    PROVE  LET run == calls[Len(calls)]
           IN  /\ node' \in [Node -> NodeFields]
               /\ \A m \in Node : m # run => node'[m] = node[m]
               /\ \A m \in Node :
                     /\ node'[m].win = node[m].win /\ node'[m].stopped = node[m].stopped
                     /\ node'[m].prev = node[m].prev /\ node'[m].next = node[m].next
                     /\ node'[m].cbFunc = node[m].cbFunc
<1> DEFINE run == calls[Len(calls)]
           answered == [node EXCEPT ![run].cbRet = "ok"]
<1>1. node' = IF run \in opAlive THEN Signalled(answered, run) ELSE node
  BY DEF ThreadSignalReturn
<1>2. CASE run \in opAlive
  <2>1. run \in Node
    BY <1>2 DEF OperTypeOK
  <2> HIDE DEF run
  <2>2. [node[run] EXCEPT !.cbRet = "ok"] \in NodeFields
    BY <2>1 DEF OperTypeOK, NodeFields
  <2>3. /\ answered \in [Node -> NodeFields]
        /\ \A m \in Node : m # run => answered[m] = node[m]
        /\ answered[run].win = node[run].win /\ answered[run].stopped = node[run].stopped
        /\ answered[run].prev = node[run].prev /\ answered[run].next = node[run].next
        /\ answered[run].cbFunc = node[run].cbFunc
    BY <2>1, <2>2 DEF OperTypeOK, NodeFields
  <2> HIDE DEF answered
  <2>4. /\ Signalled(answered, run) \in [Node -> NodeFields]
        /\ \A m \in Node : m # run => Signalled(answered, run)[m] = answered[m]
        /\ Signalled(answered, run)[run].win = answered[run].win
        /\ Signalled(answered, run)[run].prev = answered[run].prev
        /\ Signalled(answered, run)[run].next = answered[run].next
        /\ Signalled(answered, run)[run].stopped = answered[run].stopped
        /\ Signalled(answered, run)[run].cbFunc = answered[run].cbFunc
    BY <2>1, <2>3, SignalledEffect
  <2>5. node' = Signalled(answered, run)
    BY <1>1, <1>2
  <2>6. /\ node' \in [Node -> NodeFields]
        /\ \A m \in Node : m # run => node'[m] = node[m]
        /\ \A m \in Node :
              /\ node'[m].win = node[m].win /\ node'[m].stopped = node[m].stopped
              /\ node'[m].prev = node[m].prev /\ node'[m].next = node[m].next
              /\ node'[m].cbFunc = node[m].cbFunc
    BY <2>1, <2>3, <2>4, <2>5
  <2> QED
    BY <2>6 DEF run
<1>3. CASE run \notin opAlive
  BY <1>1, <1>3 DEF OperTypeOK
<1> QED
  BY <1>2, <1>3

LEMMA IdleType == Idle \in UiStates /\ Idle.op = "none"
BY DEF Idle, UiStates

LEMMA PopCalls ==
    ASSUME NEW S, NEW s \in Seq(S)
    PROVE  /\ Pop(s, 1) \in Seq(S)
           /\ s # <<>> => /\ Len(Pop(s, 1)) = Len(s) - 1
                          /\ \A i \in 1..(Len(s) - 1) : Pop(s, 1)[i] = s[i]
<1>1. CASE s = <<>>
  <2>1. Pop(s, 1) = <<>>
    BY <1>1 DEF Pop
  <2> QED
    BY <1>1, <2>1
<1>2. CASE s # <<>>
  <2>1. Len(s) \in Nat /\ 1 <= Len(s) /\ Len(s) - 1 \in Nat
    BY <1>2
  <2> DEFINE k == Len(s) - 1
  <2>2. k \in Int /\ k \in Nat /\ \A i \in 1..k : s[i] \in S
    BY <2>1
  <2> HIDE DEF k
  <2>3. /\ SubSeq(s, 1, k) \in Seq(S)
        /\ Len(SubSeq(s, 1, k)) = k
        /\ \A i \in 1..k : SubSeq(s, 1, k)[i] = s[i]
    BY <2>2, SubSeqProperties
  <2> QED
    BY <2>1, <2>3 DEF Pop, k
<1> QED
  BY <1>1, <1>2

-----------------------------------------------------------------------------
(* Every step preserves the parts of the invariant.                        *)

LEMMA OperTypeStep ==
    ASSUME IInv, OperTypeOK, OperNext
    PROVE  OperTypeOK'
<1> USE DEF winVars, runVars
<1>1. ASSUME NEW n \in Node, LockData(n) \/ UnlockData(n) \/ LookBeforeAsking(n) \/ EnterWait(n)
      PROVE  OperTypeOK'
  BY <1>1 DEF LockData, UnlockData, LookBeforeAsking, EnterWait, OperTypeOK, InFunction
<1>2. ASSUME NEW n \in Node, SendSignal(n) PROVE OperTypeOK'
  BY <1>2 DEF SendSignal, OperTypeOK, operVars
<1>3. ASSUME NEW n \in Node, CallBack(n) PROVE OperTypeOK'
  BY <1>3, CallBackEffect DEF CallBack, OperTypeOK, InFunction
<1>4. ASSUME NEW n \in Node, CallBackReturn(n) PROVE OperTypeOK'
  BY <1>4, CallBackReturnEffect DEF CallBackReturn, OperTypeOK, InFunction
<1>5. ASSUME NEW n \in Node, FuncReturn(n) PROVE OperTypeOK'
  <2>1. pc' = [pc EXCEPT ![n] = "ended"] /\ opAlive' = opAlive \ {n}
        /\ UNCHANGED <<threadId, cbExecuted, inOper, ui, calls, fault>>
    BY <1>5 DEF FuncReturn
  <2> QED
    BY <1>5, <2>1, FuncReturnEffect DEF OperTypeOK
<1>6. ASSUME NEW n \in Node, WorkerEnd(n) PROVE OperTypeOK'
  BY <1>6 DEF WorkerEnd, OperTypeOK
<1>7. ASSUME NEW x \in Window, StartRun(x) \/ LeaveDialog(x) \/ ReadFlagNode(x)
      PROVE  OperTypeOK'
  <2>1. ui' \in UiStates
    BY <1>7 DEF StartRun, LeaveDialog, ReadFlagNode, UiDoes, OperTypeOK, UiStates
  <2> QED
    BY <1>7, <2>1 DEF StartRun, LeaveDialog, ReadFlagNode, OperTypeOK
<1>8. ASSUME NEW x \in Window, FinishStop(x) PROVE OperTypeOK'
  <2>1. ui' \in UiStates
    <3>1. ui' = [ui EXCEPT !.op = ui.then]
      BY <1>8 DEF FinishStop
    <3> QED
      BY <3>1 DEF OperTypeOK, UiStates
  <2>2. node' \in [Node -> NodeFields] /\ operStopList' \in Node \cup {None}
    <3>1. CASE tNode[x] = None
      BY <1>8, <3>1 DEF FinishStop, OperTypeOK
    <3>2. CASE tNode[x] # None
      <4>1. tNode[x] \in Node /\ node' = Unbind(x, tNode[x]) /\ operStopList' = tNode[x]
        BY <1>8, <3>2 DEF FinishStop, OperTypeOK
      <4> QED
        BY <4>1, UnbindEffect
    <3> QED
      BY <3>1, <3>2
  <2> QED
    BY <1>8, <2>1, <2>2 DEF FinishStop, OperTypeOK
<1>9. ASSUME NEW x \in Window, OpenWindow(x) PROVE OperTypeOK'
  BY <1>9 DEF OpenWindow, OperTypeOK, operVars
<1>10. ASSUME NEW x \in Window, NEW n \in Node, CreateRun(x, n) PROVE OperTypeOK'
  BY <1>10, NewNodeType, IdleType DEF CreateRun, OperTypeOK, InFunction
<1>11. CASE CreateFails \/ DestroyDialog
  BY <1>11, IdleType DEF CreateFails, DestroyDialog, OperTypeOK
<1>12. CASE SetStopFlag
  <2>1. node' \in [Node -> NodeFields] /\ fault' \subseteq {"assert", "null", "freed"}
    BY <1>12, SetStopFlagEffect DEF SetStopFlag, OperTypeOK
  <2> QED
    BY <1>12, <2>1, IdleType DEF SetStopFlag, OperTypeOK
<1>13. CASE LoopTurn
  BY <1>13 DEF LoopTurn, OperTypeOK, operVars
<1>14. CASE ThreadSignal
  <2> DEFINE p == Head(cmdQueue)
             x == w[p]
  <2>0. UNCHANGED <<tNode, threadId, inOper, ui, operStopList, node, opAlive, pc>>
    BY <1>14 DEF ThreadSignal
  <2>1. \/ calls' = calls /\ cbExecuted' = cbExecuted /\ fault' = fault
        \/ x # None /\ tNode[x] # None /\ EnterCallback(x)
        \/ calls' = Append(calls, None) /\ cbExecuted' = cbExecuted /\ fault' = fault
    BY <1>14 DEF ThreadSignal
  <2>2. p \in Node /\ x \in Window \cup {None}
    BY <1>14, DequeueEffect DEF ThreadSignal, EventRound, IInv, TypeOK
  <2> HIDE DEF p, x
  <2>3. CASE x # None /\ tNode[x] # None /\ EnterCallback(x)
    <3>1. tNode[x] \in Node
      BY <2>2, <2>3 DEF OperTypeOK
    <3> QED
      BY <2>0, <2>2, <2>3, <3>1 DEF EnterCallback, Occurs, OperTypeOK
  <2>4. Append(calls, None) \in Seq(Node \cup {None, Told})
    BY DEF OperTypeOK
  <2>5. calls' \in Seq(Node \cup {None, Told}) /\ UNCHANGED <<cbExecuted, fault>> => OperTypeOK'
    BY <2>0 DEF OperTypeOK
  <2> QED
    BY <2>1, <2>3, <2>4, <2>5 DEF OperTypeOK
<1>15. CASE ThreadSignalReturn
  <2>1. /\ calls' = Pop(calls, 1)
        /\ UNCHANGED <<tNode, threadId, inOper, ui, operStopList, opAlive, pc>>
    BY <1>15 DEF ThreadSignalReturn
  <2>2. cbExecuted' \in [Window -> BOOLEAN] /\ fault' \subseteq {"assert", "null", "freed"}
    BY <1>15 DEF ThreadSignalReturn, OperTypeOK, Occurs
  <2> QED
    BY <1>15, <2>1, <2>2, AnswerEffect, PopCalls DEF OperTypeOK
<1>16. CASE ThreadStopped
  <2>1. UNCHANGED <<tNode, cbExecuted, ui, operStopList, node, opAlive, pc, fault>>
    BY <1>16 DEF ThreadStopped
  <2>2. threadId' \in [Window -> Node \cup {None}] /\ inOper' \in BOOLEAN
    BY <1>16 DEF ThreadStopped, OperTypeOK
  <2>3. calls' \in {calls, Append(calls, Told), Append(calls, None)}
    BY <1>16 DEF ThreadStopped
  <2> QED
    BY <2>1, <2>2, <2>3 DEF OperTypeOK
<1>17. CASE ThreadStoppedReturn
  BY <1>17, PopCalls DEF ThreadStoppedReturn, OperTypeOK
<1> QED
  BY <1>1, <1>2, <1>3, <1>4, <1>5, <1>6, <1>7, <1>8, <1>9, <1>10, <1>11, <1>12, <1>13,
     <1>14, <1>15, <1>16, <1>17 DEF OperNext, OperWorker, Ask, OperUI

\* But for CreateRun, the user-interface thread leaves the workers where they are.
LEMMA UiLeavesWorkers ==
    ASSUME OperUI, \A x \in Window, n \in Node : ~CreateRun(x, n)
    PROVE  UNCHANGED <<thList, opAlive, pc>>
<1>1. ASSUME NEW x \in Window, StartRun(x) \/ LeaveDialog(x) \/ FinishStop(x) \/ ReadFlagNode(x)
      PROVE  UNCHANGED <<thList, opAlive, pc>>
  BY <1>1 DEF StartRun, LeaveDialog, FinishStop, ReadFlagNode, vars, runVars
<1>2. ASSUME NEW x \in Window, OpenWindow(x) PROVE UNCHANGED <<thList, opAlive, pc>>
  BY <1>2 DEF OpenWindow, OpenDialog, operVars, nodeVars
<1>3. CASE CreateFails \/ SetStopFlag \/ DestroyDialog
  BY <1>3 DEF CreateFails, SetStopFlag, DestroyDialog, CloseDialog, vars, runVars
<1>4. CASE LoopTurn
  BY <1>4 DEF LoopTurn, BeginEvents, EmptyRound, operVars, nodeVars
<1>5. CASE ThreadSignal \/ ThreadSignalReturn
  BY <1>5 DEF ThreadSignal, EventRound, ThreadSignalReturn, SignalReturn, runVars, nodeVars
<1>6. CASE ThreadStopped \/ ThreadStoppedReturn
  BY <1>6 DEF ThreadStopped, StopRound, ThreadStoppedReturn, StoppedReturn, runVars
<1> QED
  BY <1>1, <1>2, <1>3, <1>4, <1>5, <1>6 DEF OperUI

LEMMA WorkerShapeStep ==
    ASSUME IInv, OperTypeOK, WorkerShape, OperNext
    PROVE  WorkerShape'
<1>1. ASSUME NEW n \in Node, LockData(n) \/ UnlockData(n) \/ LookBeforeAsking(n) \/ EnterWait(n)
                             \/ SendSignal(n) \/ CallBack(n) \/ CallBackReturn(n)
      PROVE  WorkerShape'
  BY <1>1 DEF LockData, UnlockData, LookBeforeAsking, EnterWait, SendSignal, CallBack,
              CallBackReturn, Signal, WorkerShape, OperTypeOK, InFunction, vars, operVars
<1>2. ASSUME NEW n \in Node, FuncReturn(n) PROVE WorkerShape'
  BY <1>2 DEF FuncReturn, WorkerShape, OperTypeOK, InFunction, vars
<1>3. ASSUME NEW n \in Node, WorkerEnd(n) PROVE WorkerShape'
  BY <1>3 DEF WorkerEnd, EndThread, WorkerShape, OperTypeOK, InFunction
<1>4. ASSUME NEW x \in Window, NEW n \in Node, CreateRun(x, n) PROVE WorkerShape'
  BY <1>4 DEF CreateRun, CreateThread, WorkerShape, OperTypeOK, InFunction
<1>5. CASE UNCHANGED <<thList, opAlive, pc>>
  BY <1>5 DEF WorkerShape
<1> QED
  BY <1>1, <1>2, <1>3, <1>4, <1>5, UiLeavesWorkers DEF OperNext, OperWorker, Ask

\* Runs and windows stay as they are.
LEMMA BoundKept ==
    ASSUME OperTypeOK, BoundBothWays, UNCHANGED <<tNode, opAlive>>, open \subseteq open',
           \A n \in Node : node'[n].win = node[n].win
                           /\ (node[n].stopped => node'[n].stopped)
    PROVE  BoundBothWays'
BY DEF BoundBothWays, OperTypeOK

LEMMA BoundStep ==
    ASSUME IInv, OperInv, OperNext
    PROVE  BoundBothWays'
<1>0. OperTypeOK /\ BoundBothWays /\ UiShape /\ IdKept
  BY DEF OperInv
<1>1. ASSUME NEW n \in Node, CallBack(n) \/ CallBackReturn(n)
      PROVE  BoundBothWays'
  <2>1. UNCHANGED <<tNode, opAlive, open>>
    BY <1>1 DEF CallBack, CallBackReturn, Signal, vars, winVars
  <2> QED
    BY <1>0, <1>1, <2>1, BoundKept, CallBackEffect, CallBackReturnEffect
<1>2. ASSUME NEW n \in Node, OperWorker(n), ~CallBack(n), ~CallBackReturn(n), ~FuncReturn(n)
      PROVE  BoundBothWays'
  <2>1. UNCHANGED <<tNode, opAlive, open, node>>
    BY <1>2 DEF OperWorker, Ask, LockData, UnlockData, LookBeforeAsking, EnterWait, SendSignal,
                Signal, WorkerEnd, EndThread, vars, winVars, operVars
  <2> QED
    BY <1>0, <2>1, BoundKept
<1>3. ASSUME NEW n \in Node, FuncReturn(n) PROVE BoundBothWays'
  <2>1. opAlive' = opAlive \ {n} /\ open' = open
    BY <1>3 DEF FuncReturn, vars
  <2>2. /\ \A x \in Window : tNode'[x] = IF node[n].win = x THEN None ELSE tNode[x]
        /\ \A m \in Node : m # n =>
              node'[m].win = node[m].win /\ node'[m].stopped = node[m].stopped
    BY <1>0, <1>3, FuncReturnEffect DEF SameNode
  <2>3. ASSUME NEW x \in Window, tNode'[x] # None
        PROVE  tNode'[x] \in opAlive' /\ node'[tNode'[x]].win = x
    <3>1. tNode'[x] = tNode[x] /\ tNode[x] # None /\ node[n].win # x
      BY <2>2, <2>3
    <3>2. tNode[x] \in opAlive /\ node[tNode[x]].win = x /\ tNode[x] \in Node
      BY <1>0, <3>1 DEF BoundBothWays, OperTypeOK
    <3> QED
      BY <2>1, <2>2, <3>1, <3>2
  <2>4. ASSUME NEW m \in opAlive'
        PROVE  IF node'[m].win = None THEN node'[m].stopped
               ELSE tNode'[node'[m].win] = m /\ node'[m].win \in open'
    <3>1. m \in opAlive /\ m # n /\ m \in Node
      BY <1>0, <2>1, <2>4 DEF OperTypeOK
    <3>2. node'[m].win = node[m].win /\ node'[m].stopped = node[m].stopped
      BY <2>2, <3>1
    <3>3. CASE node[m].win = None
      BY <1>0, <3>1, <3>2, <3>3 DEF BoundBothWays
    <3>4. CASE node[m].win # None
      <4>1. tNode[node[m].win] = m /\ node[m].win \in open /\ node[m].win \in Window
        BY <1>0, <3>1, <3>4 DEF BoundBothWays, OperTypeOK, NodeFields
      <4>2. node[n].win # node[m].win
        <5>1. CASE n \in opAlive
          BY <1>0, <3>1, <3>4, <4>1, <5>1 DEF BoundBothWays
        <5>2. CASE n \notin opAlive
          BY <1>3, <5>2 DEF OperInv, WorkerShape, FuncReturn, InFunction
        <5> QED
          BY <5>1, <5>2
      <4> QED
        BY <2>1, <2>2, <3>2, <3>4, <4>1, <4>2
    <3> QED
      BY <3>3, <3>4
  <2> QED
    BY <2>3, <2>4 DEF BoundBothWays
<1>4. ASSUME NEW x \in Window, FinishStop(x) PROVE BoundBothWays'
  <2>1. opAlive' = opAlive /\ open' = open /\ tNode' = [tNode EXCEPT ![x] = None]
    BY <1>4 DEF FinishStop, vars
  <2>2. CASE tNode[x] = None
    <3>1. tNode' = tNode /\ node' = node
      BY <1>0, <1>4, <2>1, <2>2 DEF FinishStop, OperTypeOK
    <3> QED
      BY <1>0, <2>1, <3>1, BoundKept
  <2>3. CASE tNode[x] # None
    <3> DEFINE n == tNode[x]
    <3>1. n \in Node /\ n \in opAlive /\ node[n].win = x /\ node' = Unbind(x, n)
      BY <1>0, <1>4, <2>3 DEF FinishStop, OperTypeOK, BoundBothWays
    <3>2. /\ node'[n].win = None /\ node'[n].stopped
          /\ \A m \in Node : m # n =>
                node'[m].win = node[m].win /\ node'[m].stopped = node[m].stopped
      BY <1>0, <3>1, UnbindEffect DEF SameNode
    <3>3. ASSUME NEW y \in Window, tNode'[y] # None
          PROVE  tNode'[y] \in opAlive' /\ node'[tNode'[y]].win = y
      <4>1. y # x /\ tNode'[y] = tNode[y] /\ tNode[y] # None
        BY <1>0, <2>1, <3>3 DEF OperTypeOK
      <4>2. tNode[y] \in opAlive /\ node[tNode[y]].win = y /\ tNode[y] \in Node
        BY <1>0, <4>1 DEF BoundBothWays, OperTypeOK
      <4> QED
        BY <2>1, <3>1, <3>2, <4>1, <4>2
    <3>4. ASSUME NEW m \in opAlive'
          PROVE  IF node'[m].win = None THEN node'[m].stopped
                 ELSE tNode'[node'[m].win] = m /\ node'[m].win \in open'
      <4>1. m \in opAlive /\ m \in Node
        BY <1>0, <2>1, <3>4 DEF OperTypeOK
      <4>2. CASE m = n
        BY <3>2, <4>2
      <4>3. CASE m # n /\ node[m].win = None
        BY <1>0, <3>2, <4>1, <4>3 DEF BoundBothWays
      <4>4. CASE m # n /\ node[m].win # None
        <5>1. tNode[node[m].win] = m /\ node[m].win \in open /\ node[m].win \in Window
          BY <1>0, <4>1, <4>4 DEF BoundBothWays, OperTypeOK, NodeFields
        <5> QED
          BY <1>0, <2>1, <3>2, <4>1, <4>4, <5>1 DEF OperTypeOK
      <4> QED
        BY <4>2, <4>3, <4>4
    <3> QED
      BY <3>3, <3>4 DEF BoundBothWays
  <2> QED
    BY <2>2, <2>3
<1>5. ASSUME NEW x \in Window, NEW n \in Node, CreateRun(x, n) PROVE BoundBothWays'
  <2>1. /\ n \notin opAlive /\ opAlive' = opAlive \cup {n} /\ open' = open /\ x \in open
        /\ tNode' = [tNode EXCEPT ![x] = n] /\ node' = [node EXCEPT ![n] = NewNode(x)]
    BY <1>5 DEF CreateRun, CreateThread
  <2>2. tNode[x] = None
    BY <1>0, <1>5 DEF CreateRun, UiShape
  <2> QED
    BY <1>0, <2>1, <2>2, NewNodeType, NoneAssumption DEF BoundBothWays, OperTypeOK, NodeFields
<1>6. CASE DestroyDialog
  <2>1. /\ UNCHANGED <<tNode, opAlive, node>> /\ open' = open \ {ui.win}
        /\ tNode[ui.win] = None /\ ui.win \in Window
    BY <1>0, <1>6 DEF DestroyDialog, CloseDialog, DropWindow, winVars, runVars, UiShape
  <2> QED
    BY <1>0, <2>1, NoneAssumption DEF BoundBothWays, OperTypeOK
<1>7. CASE SetStopFlag
  <2>1. UNCHANGED <<tNode, opAlive, open>>
    BY <1>7 DEF SetStopFlag, vars, winVars
  <2>2. ui.p \notin opAlive => node' = node
    BY <1>7 DEF SetStopFlag
  <2>3. ui.p \in opAlive => ui.p \in Node
    BY <1>0 DEF OperTypeOK
  <2> QED
    BY <1>0, <1>7, <2>1, <2>2, <2>3, BoundKept, SetStopFlagEffect
<1>8. CASE ThreadSignalReturn
  <2>1. UNCHANGED <<tNode, opAlive, open>>
    BY <1>8 DEF ThreadSignalReturn, SignalReturn
  <2> QED
    BY <1>0, <1>8, <2>1, BoundKept, AnswerEffect
<1>9. ASSUME NEW x \in Window, StartRun(x) \/ LeaveDialog(x) \/ ReadFlagNode(x) \/ OpenWindow(x)
      PROVE  BoundBothWays'
  <2>1. UNCHANGED <<tNode, opAlive, node>> /\ open \subseteq open'
    BY <1>9 DEF StartRun, LeaveDialog, ReadFlagNode, OpenWindow, OpenDialog, vars, winVars,
                runVars, operVars
  <2> QED
    BY <1>0, <2>1, BoundKept
<1>10. CASE CreateFails \/ LoopTurn \/ ThreadSignal \/ ThreadStopped \/ ThreadStoppedReturn
  <2>1. UNCHANGED <<tNode, opAlive, node, open>>
    BY <1>10 DEF CreateFails, LoopTurn, BeginEvents, EmptyRound, ThreadSignal, EventRound,
                 ThreadStopped, StopRound, ThreadStoppedReturn, StoppedReturn, vars, winVars,
                 runVars, operVars
  <2> QED
    BY <1>0, <2>1, BoundKept
<1> QED
  BY <1>1, <1>2, <1>3, <1>4, <1>5, <1>6, <1>7, <1>8, <1>9, <1>10 DEF OperNext, OperUI

LEMMA LockStep ==
    ASSUME IInv, OperInv, OperNext
    PROVE  LockHeld'
<1>0. OperTypeOK /\ BoundBothWays /\ WorkerShape /\ LockHeld
  BY DEF OperInv
<1>1. ASSUME NEW n \in Node, LockData(n) \/ UnlockData(n) \/ LookBeforeAsking(n)
                             \/ EnterWait(n) \/ SendSignal(n) \/ WorkerEnd(n)
      PROVE  LockHeld'
  BY <1>0, <1>1 DEF LockData, UnlockData, LookBeforeAsking, EnterWait, SendSignal, WorkerEnd,
                    LockHeld, OperTypeOK, operVars
<1>2. ASSUME NEW n \in Node, CallBack(n) \/ CallBackReturn(n) PROVE LockHeld'
  <2>1. pc' \in [Node -> InFunction \cup {"none", "ended"}] /\ pc'[n] # "data"
        /\ \A m \in Node : m # n => pc'[m] = pc[m]
    BY <1>0, <1>2 DEF CallBack, CallBackReturn, OperTypeOK, InFunction
  <2> QED
    BY <1>0, <1>2, <2>1, CallBackEffect, CallBackReturnEffect DEF LockHeld
<1>3. ASSUME NEW n \in Node, FuncReturn(n) PROVE LockHeld'
  <2>1. pc' = [pc EXCEPT ![n] = "ended"]
    BY <1>3 DEF FuncReturn
  <2> QED
    BY <1>0, <1>3, <2>1, FuncReturnEffect DEF LockHeld, OperTypeOK, SameNode
<1>4. ASSUME NEW x \in Window, FinishStop(x) PROVE LockHeld'
  <2>1. pc' = pc
    BY <1>4 DEF FinishStop
  <2>2. CASE tNode[x] = None
    BY <1>0, <1>4, <2>1, <2>2 DEF FinishStop, LockHeld
  <2>3. CASE tNode[x] # None
    <3>1. /\ tNode[x] \in Node /\ tNode[x] \in opAlive
          /\ ~NodeLocked(tNode[x]) /\ node' = Unbind(x, tNode[x])
      BY <1>0, <1>4, <2>3 DEF FinishStop, OperTypeOK, BoundBothWays
    <3>2. pc[tNode[x]] # "data"
      BY <3>1 DEF NodeLocked
    <3>3. \A m \in Node : m # tNode[x] => node'[m].stopped = node[m].stopped
      BY <1>0, <3>1, UnbindEffect DEF SameNode
    <3> QED
      BY <1>0, <2>1, <3>2, <3>3 DEF LockHeld
  <2> QED
    BY <2>2, <2>3
<1>5. ASSUME NEW x \in Window, NEW n \in Node, CreateRun(x, n) PROVE LockHeld'
  BY <1>0, <1>5 DEF CreateRun, LockHeld, OperTypeOK
<1>6. CASE SetStopFlag
  <2>1. pc' = pc
    BY <1>6 DEF SetStopFlag
  <2>2. CASE ui.p \in opAlive
    <3>1. ~NodeLocked(ui.p) /\ pc[ui.p] # "data"
      BY <1>6, <2>2 DEF SetStopFlag, NodeLocked
    <3> QED
      BY <1>0, <1>6, <2>1, <2>2, <3>1, SetStopFlagEffect DEF LockHeld
  <2>3. CASE ui.p \notin opAlive
    BY <1>0, <1>6, <2>1, <2>3 DEF SetStopFlag, LockHeld
  <2> QED
    BY <2>2, <2>3
<1>7. CASE ThreadSignalReturn
  <2>1. pc' = pc
    BY <1>7 DEF ThreadSignalReturn
  <2> QED
    BY <1>0, <1>7, <2>1, AnswerEffect DEF LockHeld
<1>8. ASSUME NEW x \in Window, StartRun(x) \/ LeaveDialog(x) \/ ReadFlagNode(x) \/ OpenWindow(x)
      PROVE  LockHeld'
  BY <1>0, <1>8 DEF StartRun, LeaveDialog, ReadFlagNode, OpenWindow, operVars, runVars, LockHeld
<1>9. CASE CreateFails \/ DestroyDialog \/ LoopTurn \/ ThreadSignal \/ ThreadStopped
           \/ ThreadStoppedReturn
  BY <1>0, <1>9 DEF CreateFails, DestroyDialog, LoopTurn, ThreadSignal, ThreadStopped,
                    ThreadStoppedReturn, operVars, runVars, LockHeld
<1> QED
  BY <1>1, <1>2, <1>3, <1>4, <1>5, <1>6, <1>7, <1>8, <1>9
     DEF OperNext, OperWorker, Ask, OperUI

\* The end of a run is told by a node that has ended: its window is not bound
\* to it any more.
LEMMA IdStep ==
    ASSUME IInv, OperInv, OperNext
    PROVE  IdKept'
<1>0. OperTypeOK /\ BoundBothWays /\ WorkerShape /\ IdKept /\ UiShape
  BY DEF OperInv
<1>1. ASSUME UNCHANGED <<tNode, threadId>> PROVE IdKept'
  BY <1>0, <1>1 DEF IdKept
<1>2. ASSUME NEW n \in Node, FuncReturn(n) PROVE IdKept'
  <2>1. threadId' = threadId
    BY <1>2 DEF FuncReturn
  <2> QED
    BY <1>0, <1>2, <2>1, FuncReturnEffect DEF IdKept
<1>3. ASSUME NEW n \in Node, OperWorker(n), ~FuncReturn(n) PROVE IdKept'
  <2>1. UNCHANGED <<tNode, threadId>>
    BY <1>3 DEF OperWorker, Ask, LockData, UnlockData, LookBeforeAsking, EnterWait, SendSignal,
                CallBack, CallBackReturn, WorkerEnd, operVars, winVars
  <2> QED
    BY <1>1, <2>1
<1>4. ASSUME NEW x \in Window, FinishStop(x) PROVE IdKept'
  BY <1>0, <1>4 DEF FinishStop, IdKept, OperTypeOK
<1>5. ASSUME NEW x \in Window, NEW n \in Node, CreateRun(x, n) PROVE IdKept'
  BY <1>0, <1>5 DEF CreateRun, IdKept, OperTypeOK
<1>6. CASE ThreadStopped
  <2> DEFINE p == Head(cmdQueue)
             x == w[p]
             mine == x # None /\ threadId[x] = p
  <2>1. tNode' = tNode
        /\ threadId' = IF mine THEN [threadId EXCEPT ![x] = None] ELSE threadId
    BY <1>6 DEF ThreadStopped
  <2>2. p \in Node /\ p \in Queued /\ cmd[p] = "END"
    BY <1>6, DequeueEffect DEF ThreadStopped, StopRound, IInv, TypeOK
  <2>3. p \notin thList /\ p \notin opAlive
    BY <1>0, <2>2 DEF IInv, QueueShape, WorkerShape, InFunction
  <2> HIDE DEF p, x
  <2>4. CASE ~mine
    BY <1>1, <2>1, <2>4
  <2>5. CASE mine
    <3>1. tNode[x] = None \/ x \notin Window
      BY <1>0, <2>3, <2>5 DEF IdKept, BoundBothWays
    <3> QED
      BY <1>0, <2>1, <2>5, <3>1 DEF IdKept, OperTypeOK
  <2> QED
    BY <2>4, <2>5
<1>7. ASSUME NEW x \in Window, StartRun(x) \/ LeaveDialog(x) \/ ReadFlagNode(x) \/ OpenWindow(x)
      PROVE  IdKept'
  BY <1>1, <1>7 DEF StartRun, LeaveDialog, ReadFlagNode, OpenWindow, operVars, winVars
<1>8. CASE CreateFails \/ DestroyDialog \/ SetStopFlag \/ LoopTurn \/ ThreadSignal
           \/ ThreadSignalReturn \/ ThreadStoppedReturn
  BY <1>1, <1>8 DEF CreateFails, DestroyDialog, SetStopFlag, LoopTurn, ThreadSignal,
                    ThreadSignalReturn, ThreadStoppedReturn, operVars, winVars
<1> QED
  BY <1>2, <1>3, <1>4, <1>5, <1>6, <1>7, <1>8 DEF OperNext, OperUI

LEMMA UiStep ==
    ASSUME IInv, OperInv, OperNext
    PROVE  UiShape'
<1>0. OperTypeOK /\ BoundBothWays /\ IdKept /\ UiShape
  BY DEF OperInv
<1>1. ASSUME NEW n \in Node, FuncReturn(n) PROVE UiShape'
  <2>1. UNCHANGED <<ui, threadId, stack>>
    BY <1>1 DEF FuncReturn, vars
  <2> QED
    BY <1>0, <1>1, <2>1, FuncReturnEffect, NoneAssumption DEF UiShape, Top
<1>2. ASSUME NEW n \in Node, OperWorker(n), ~FuncReturn(n) PROVE UiShape'
  <2>1. UNCHANGED <<tNode, threadId, ui>>
    BY <1>2 DEF OperWorker, Ask, LockData, UnlockData, LookBeforeAsking, EnterWait, SendSignal,
                CallBack, CallBackReturn, WorkerEnd, operVars, winVars
  <2> QED
    BY <1>0, <1>2, <2>1, WorkerMoves DEF UiShape, Top
<1>3. ASSUME NEW x \in Window, StartRun(x) PROVE UiShape'
  <2>1. /\ ui'.op = "stopping" /\ ui'.win = x /\ ui'.then = "create"
        /\ UNCHANGED <<tNode, threadId, stack>> /\ (x # MainWin => threadId[x] = None)
    BY <1>3 DEF StartRun, UiDoes, vars, winVars
  <2> QED
    BY <2>1 DEF UiShape, Top
<1>4. ASSUME NEW x \in Window, LeaveDialog(x) PROVE UiShape'
  <2>1. /\ ui'.op = "stopping" /\ ui'.win = x /\ ui'.then = "close"
        /\ Top' = Top /\ Top.at = "loop" /\ Top.win = x /\ x # MainWin
    BY <1>4 DEF LeaveDialog, UiDoes, vars, Top
  <2> QED
    BY <2>1 DEF UiShape
<1>5. ASSUME NEW x \in Window, FinishStop(x) PROVE UiShape'
  <2>1. /\ ui.op = "stopping" /\ ui.win = x /\ ui' = [ui EXCEPT !.op = ui.then]
        /\ tNode' = [tNode EXCEPT ![x] = None] /\ threadId' = [threadId EXCEPT ![x] = None]
        /\ Top' = Top
    BY <1>5 DEF FinishStop, vars, Top
  <2>2. /\ ui'.op = ui.then /\ ui'.win = x /\ ui'.then = ui.then
        /\ tNode'[x] = None /\ threadId'[x] = None
    BY <1>0, <2>1 DEF OperTypeOK, UiStates
  <2> QED
    BY <1>0, <2>1, <2>2 DEF UiShape
<1>6. ASSUME NEW x \in Window, NEW n \in Node, CreateRun(x, n) PROVE UiShape'
  BY <1>6, IdleType DEF CreateRun, UiShape
<1>7. CASE CreateFails \/ DestroyDialog \/ SetStopFlag
  BY <1>7, IdleType DEF CreateFails, DestroyDialog, SetStopFlag, UiShape
<1>8. ASSUME NEW x \in Window, ReadFlagNode(x) PROVE UiShape'
  BY <1>8 DEF ReadFlagNode, UiDoes, UiShape
<1>9. ASSUME UiIdle, ui' = ui PROVE UiShape'
  BY <1>9 DEF UiIdle, UiShape
<1>10. ASSUME NEW x \in Window, OpenWindow(x) PROVE UiShape'
  BY <1>9, <1>10 DEF OpenWindow, operVars
<1>11. CASE LoopTurn \/ ThreadSignal \/ ThreadSignalReturn \/ ThreadStopped \/ ThreadStoppedReturn
  BY <1>9, <1>11 DEF LoopTurn, ThreadSignal, ThreadSignalReturn, ThreadStopped,
                     ThreadStoppedReturn, operVars
<1> QED
  BY <1>1, <1>2, <1>3, <1>4, <1>5, <1>6, <1>7, <1>8, <1>10, <1>11 DEF OperNext, OperUI

-----------------------------------------------------------------------------
(* The theorems that hold on every platform.                               *)

LEMMA InitOperInv == OperInit => OperInv
<1>1. SUFFICES ASSUME OperInit PROVE OperInv
  OBVIOUS
<1>2. OperTypeOK
  <2>1. calls \in Seq(Node \cup {None, Told})
    BY <1>1 DEF OperInit
  <2> QED
    BY <1>1, <2>1, IdleType, NoNodeType DEF OperInit, OperTypeOK
<1>3. WorkerShape /\ LockHeld
  BY <1>1 DEF OperInit, Init, WorkerShape, LockHeld, InFunction
<1>4. BoundBothWays /\ IdKept
  BY <1>1 DEF OperInit, BoundBothWays, IdKept
<1>5. UiShape
  BY <1>1, IdleType DEF OperInit, UiShape
<1> QED
  BY <1>2, <1>3, <1>4, <1>5 DEF OperInv

LEMMA StepOperInv == IInv /\ OperInv /\ [OperNext]_allVars => OperInv'
<1>1. ASSUME IInv, OperInv, OperNext PROVE OperInv'
  BY <1>1, OperTypeStep, WorkerShapeStep, BoundStep, LockStep, IdStep, UiStep DEF OperInv
<1>2. ASSUME OperInv, UNCHANGED allVars PROVE OperInv'
  BY <1>2 DEF OperInv, allVars, vars, operVars, OperTypeOK, WorkerShape, BoundBothWays,
              LockHeld, IdKept, UiShape, Top
<1> QED
  BY <1>1, <1>2

LEMMA WinInvariance == OperSpec => []IInv
BY RunsOnWinThreads, Invariance, PTL

\* Where the workers are, and how their nodes and their windows are bound to
\* each other: what the other theorems on the operation threads rest on.
THEOREM OperInvariance == OperSpec => []OperInv
BY InitOperInv, StepOperInv, WinInvariance, PTL DEF OperSpec

\* A window's data are used by the run it is bound to, and only while it
\* exists and its StopThread has not returned: whether or not the platform's
\* condition variables keep signals or wake up by themselves, whichever
\* windows ask, and however they are cancelled (OperThreadNode::Data).
THEOREM DataIsSafe == OperSpec => []DataSafe
<1>1. OperInv => DataSafe
  <2>1. SUFFICES ASSUME OperInv, NEW n \in Node, pc[n] = "data"
                 PROVE  /\ node[n].win \in open /\ tNode[node[n].win] = n
                        /\ ~node[n].stopped
    BY DEF OperInv, DataSafe
  <2>2. ~node[n].stopped /\ n \in opAlive
    BY <2>1 DEF OperInv, LockHeld, WorkerShape, InFunction
  <2> QED
    BY <2>1, <2>2 DEF OperInv, BoundBothWays
<1> QED
  BY <1>1, OperInvariance, PTL

\* OperThreadStopped finds the window bound to no run: when a run announces
\* its end its node is gone.
THEOREM ToldAfter == OperSpec => []ToldAfterRun
<1>1. OperInv => ToldAfterRun
  BY DEF OperInv, ToldAfterRun, IdKept, BoundBothWays, WorkerShape, InFunction, OperTypeOK
<1> QED
  BY <1>1, OperInvariance, PTL

\* "Loading" is shown as long as an answer will come, when every thread that
\* is asked for can be created (RunNewThread keeps the exception to itself).
THEOREM ShowsLoading == ASSUME ~CreateMayFail PROVE OperSpec => []LoadingShown
<1>1. OperInit => LoadingShown
  BY IdleType, MainAssumption DEF OperInit, LoadingShown
<1>2. ASSUME OperInv, IInv, LoadingShown, OperNext PROVE LoadingShown'
  <2>0. OperTypeOK /\ UiShape
    BY <1>2 DEF OperInv
  <2>1. ASSUME UNCHANGED <<inOper, threadId>>, ui.op # "create", ui'.op # "create"
        PROVE  LoadingShown'
    BY <1>2, <2>1 DEF LoadingShown
  <2>2. ASSUME UNCHANGED <<inOper, threadId, ui>> PROVE LoadingShown'
    BY <1>2, <2>2 DEF LoadingShown
  <2>3. ASSUME NEW n \in Node, OperWorker(n) PROVE LoadingShown'
    BY <2>2, <2>3 DEF OperWorker, Ask, LockData, UnlockData, LookBeforeAsking, EnterWait,
                      SendSignal, CallBack, CallBackReturn, FuncReturn, WorkerEnd, operVars,
                      winVars
  <2>4. ASSUME NEW x \in Window, StartRun(x) \/ LeaveDialog(x) \/ ReadFlagNode(x)
        PROVE  LoadingShown'
    BY <2>1, <2>4 DEF StartRun, LeaveDialog, ReadFlagNode, UiIdle, UiDoes, winVars
  <2>5. ASSUME NEW x \in Window, FinishStop(x) PROVE LoadingShown'
    <3>1. /\ ui.op = "stopping" /\ ui.win = x /\ ui' = [ui EXCEPT !.op = ui.then]
          /\ threadId' = [threadId EXCEPT ![x] = None]
          /\ inOper' = (inOper \/ (x = MainWin /\ ui.then = "create"))
      BY <2>5 DEF FinishStop
    <3>2. ui'.op = ui.then /\ ui'.win = x
      BY <2>0, <3>1 DEF OperTypeOK, UiStates
    <3>3. x = MainWin => ui.then = "create"
      BY <2>0, <3>1 DEF UiShape
    <3> QED
      BY <1>2, <2>0, <3>1, <3>2, <3>3, MainAssumption DEF LoadingShown, OperTypeOK
  <2>6. ASSUME NEW x \in Window, NEW n \in Node, CreateRun(x, n) PROVE LoadingShown'
    <3>1. /\ ui.op = "create" /\ ui.win = x /\ inOper' = inOper
          /\ threadId' = [threadId EXCEPT ![x] = n] /\ ui' = Idle
      BY <2>6 DEF CreateRun
    <3> QED
      BY <1>2, <2>0, <3>1, IdleType, NoneAssumption, MainAssumption
         DEF LoadingShown, OperTypeOK
  <2>7. CASE DestroyDialog \/ SetStopFlag
    BY <2>1, <2>7, IdleType DEF DestroyDialog, SetStopFlag, winVars
  <2>8. CASE ThreadStopped
    <3> DEFINE p == Head(cmdQueue)
               x == w[p]
               mine == x # None /\ threadId[x] = p
    <3>1. /\ threadId' = IF mine THEN [threadId EXCEPT ![x] = None] ELSE threadId
          /\ inOper' = (inOper /\ ~(mine /\ x = MainWin))
          /\ ui' = ui /\ ui.op = "none"
      BY <2>8 DEF ThreadStopped, UiIdle
    <3>2. p \in Node /\ x \in Window \cup {None}
      BY <1>2, <2>8, DequeueEffect DEF ThreadStopped, StopRound, IInv, TypeOK
    <3> HIDE DEF p, x
    <3> QED
      BY <1>2, <2>0, <3>1, <3>2, MainAssumption, NoneAssumption DEF LoadingShown, OperTypeOK
  <2>9. ASSUME NEW x \in Window, OpenWindow(x) PROVE LoadingShown'
    BY <2>2, <2>9 DEF OpenWindow, operVars
  <2>10. CASE LoopTurn \/ ThreadSignal \/ ThreadSignalReturn \/ ThreadStoppedReturn
    BY <2>2, <2>10 DEF LoopTurn, ThreadSignal, ThreadSignalReturn, ThreadStoppedReturn,
                       operVars, winVars
  <2>11. ~CreateFails
    BY DEF CreateFails
  <2> QED
    BY <1>2, <2>3, <2>4, <2>5, <2>6, <2>7, <2>8, <2>9, <2>10, <2>11 DEF OperNext, OperUI
<1>3. ASSUME LoadingShown, UNCHANGED allVars PROVE LoadingShown'
  BY <1>3 DEF allVars, operVars, LoadingShown
<1> QED
  BY <1>1, <1>2, <1>3, OperInvariance, WinInvariance, PTL DEF OperSpec

-----------------------------------------------------------------------------
(* The stop list.                                                          *)

LEMMA RanksKept ==
    ASSUME NEW r, Ranks(r), StoppedRuns' = StoppedRuns, operStopList' = operStopList,
           \A n \in StoppedRuns : node'[n].prev = node[n].prev /\ node'[n].next = node[n].next
    PROVE  Ranks(r)'
BY DEF Ranks

\* A run that has been stopped leaves the list when it ends.
LEMMA RanksRemove ==
    ASSUME OperTypeOK, StopListInv, NEW r \in [Node -> Nat], Ranks(r),
           NEW n \in StoppedRuns, FuncReturn(n), StoppedRuns' = StoppedRuns \ {n}
    PROVE  Ranks(r)' /\ (operStopList' = None <=> StoppedRuns' = {})
           /\ (operStopList' # None => operStopList' \in StoppedRuns')
<1>1. n \in Node /\ node[n].stopped /\ StoppedRuns \subseteq Node
  BY DEF StoppedRuns, OperTypeOK
<1>2. \A m \in StoppedRuns' :
         /\ node'[m].next = IF node[n].prev = m THEN node[n].next ELSE node[m].next
         /\ node'[m].prev = IF node[n].next = m THEN node[n].prev ELSE node[m].prev
  BY <1>1, FuncReturnEffect
<1>3. operStopList' = IF node[n].prev = None THEN node[n].next ELSE operStopList
  BY <1>1 DEF FuncReturn
<1>4. \A m \in StoppedRuns : r[m] \in Nat
  BY <1>1
<1>5. None \notin StoppedRuns
  BY <1>1, NoneAssumption
<1> DEFINE S == StoppedRuns
<1>6. ASSUME NEW m \in S, m # n
      PROVE  /\ operStopList' = m <=> \A k \in S \ {n} : r[k] <= r[m]
             /\ node'[m].prev = None <=> \A k \in S \ {n} : r[k] <= r[m]
             /\ node'[m].next = None <=> \A k \in S \ {n} : r[m] <= r[k]
             /\ node'[m].prev # None =>
                   /\ node'[m].prev \in S \ {n} /\ r[m] < r[node'[m].prev]
                   /\ \A k \in S \ {n} : r[m] < r[k] => r[node'[m].prev] <= r[k]
             /\ node'[m].next # None =>
                   /\ node'[m].next \in S \ {n} /\ r[node'[m].next] < r[m]
                   /\ \A k \in S \ {n} : r[k] < r[m] => r[k] <= r[node'[m].next]
  <2>1. r[m] \in Nat /\ r[n] \in Nat /\ r[m] # r[n] /\ m # None
    BY <1>4, <1>5, <1>6 DEF Ranks
  <2>2. CASE node[n].next = m
    <3>1. r[m] < r[n] /\ \A k \in S : r[k] < r[n] => r[k] <= r[m]
      BY <1>5, <1>6, <2>2 DEF Ranks
    <3>2. node'[m].prev = node[n].prev /\ node'[m].next = node[m].next /\ node[n].prev # m
      BY <1>2, <1>4, <1>5, <1>6, <2>1, <2>2, <3>1 DEF Ranks
    <3>3. \A k \in S \ {n} : r[m] < r[k] => r[n] < r[k]
      BY <1>4, <1>6, <3>1 DEF Ranks
    <3> QED
      BY <1>3, <1>4, <1>5, <1>6, <2>1, <2>2, <3>1, <3>2, <3>3 DEF Ranks
  <2>3. CASE node[n].prev = m
    <3>1. r[n] < r[m] /\ \A k \in S : r[n] < r[k] => r[m] <= r[k]
      BY <1>5, <1>6, <2>3 DEF Ranks
    <3>2. node'[m].next = node[n].next /\ node'[m].prev = node[m].prev
      BY <1>2, <1>4, <1>5, <1>6, <2>1, <2>3, <3>1 DEF Ranks
    <3>3. \A k \in S \ {n} : r[k] < r[m] => r[k] < r[n]
      BY <1>4, <1>6, <3>1 DEF Ranks
    <3> QED
      BY <1>3, <1>4, <1>5, <1>6, <2>1, <2>3, <3>1, <3>2, <3>3 DEF Ranks
  <2>4. CASE node[n].next # m /\ node[n].prev # m
    <3>1. node'[m].next = node[m].next /\ node'[m].prev = node[m].prev
      BY <1>2, <1>6, <2>4
    <3>2. node[m].next # n
      <4>1. SUFFICES ASSUME node[m].next = n PROVE FALSE
        OBVIOUS
      <4>2. r[n] < r[m] /\ \A k \in S : r[k] < r[m] => r[k] <= r[n]
        BY <1>5, <1>6, <4>1 DEF Ranks
      <4>3. node[n].prev # None
        BY <1>4, <1>6, <2>1, <4>2 DEF Ranks
      <4>4. node[n].prev \in S /\ r[n] < r[node[n].prev] /\ r[node[n].prev] <= r[m]
        BY <1>6, <4>2, <4>3 DEF Ranks
      <4>5. r[node[n].prev] = r[m]
        BY <1>4, <1>6, <2>1, <4>2, <4>4
      <4> QED
        BY <1>6, <2>4, <4>4, <4>5 DEF Ranks
    <3>3. node[m].prev # n
      <4>1. SUFFICES ASSUME node[m].prev = n PROVE FALSE
        OBVIOUS
      <4>2. r[m] < r[n] /\ \A k \in S : r[m] < r[k] => r[n] <= r[k]
        BY <1>5, <1>6, <4>1 DEF Ranks
      <4>3. node[n].next # None
        BY <1>4, <1>6, <2>1, <4>2 DEF Ranks
      <4>4. node[n].next \in S /\ r[node[n].next] < r[n] /\ r[m] <= r[node[n].next]
        BY <1>6, <4>2, <4>3 DEF Ranks
      <4>5. r[node[n].next] = r[m]
        BY <1>4, <1>6, <2>1, <4>2, <4>4
      <4> QED
        BY <1>6, <2>4, <4>4, <4>5 DEF Ranks
    <3> QED
      BY <1>3, <1>4, <1>5, <1>6, <2>1, <2>4, <3>1, <3>2, <3>3 DEF Ranks
  <2> QED
    BY <2>2, <2>3, <2>4
<1>7. Ranks(r)'
  BY <1>6 DEF Ranks
<1>8. ASSUME operStopList' # None PROVE operStopList' \in S \ {n}
  BY <1>3, <1>4, <1>5, <1>8 DEF Ranks, StopListInv
<1>9. ASSUME operStopList' = None PROVE S \ {n} = {}
  BY <1>3, <1>4, <1>5, <1>9 DEF Ranks, StopListInv
<1> QED
  BY <1>7, <1>8, <1>9

\* A run that is stopped becomes the head of the list.
LEMMA RanksPush ==
    ASSUME OperTypeOK, StopListInv, NEW r \in [Node -> Nat], Ranks(r),
           NEW x \in Window, NEW n \in opAlive, ~node[n].stopped,
           node' = Unbind(x, n), operStopList' = n, opAlive' = opAlive
    PROVE  /\ StoppedRuns' = StoppedRuns \cup {n}
           /\ node'[n].win = None
           /\ \A m \in StoppedRuns : node'[m].win = node[m].win
           /\ \E q \in [Node -> Nat] : Ranks(q)'
<1> DEFINE S == StoppedRuns
           top == IF operStopList = None THEN 0 ELSE r[operStopList] + 1
<1>1. n \in Node /\ S \subseteq Node /\ n \notin S /\ None \notin S /\ n # None
  BY NoneAssumption DEF StoppedRuns, OperTypeOK
<1>2. /\ node'[n].win = None /\ node'[n].stopped /\ node'[n].next = operStopList
      /\ node'[n].prev = None
      /\ \A m \in Node : m # n =>
            /\ node'[m].win = node[m].win /\ node'[m].stopped = node[m].stopped
            /\ node'[m].next = node[m].next
            /\ node'[m].prev = IF m = operStopList THEN n ELSE node[m].prev
  <2>1. operStopList # n
    BY <1>1 DEF StopListInv
  <2> QED
    BY <1>1, <2>1, UnbindEffect DEF SameNode
<1>3. StoppedRuns' = S \cup {n}
  BY <1>1, <1>2 DEF StoppedRuns, OperTypeOK
<1>4. \A m \in S : r[m] \in Nat
  BY <1>1
<1>5. top \in Nat /\ \A m \in S : r[m] < top
  <2>1. CASE operStopList = None
    BY <2>1 DEF StopListInv
  <2>2. CASE operStopList # None
    BY <1>4, <2>2 DEF StopListInv, Ranks
  <2> QED
    BY <2>1, <2>2
<1> HIDE DEF top
<1>6. PICK q \in [Node -> Nat] : q[n] = top /\ \A m \in S : q[m] = r[m]
  <2>1. [r EXCEPT ![n] = top] \in [Node -> Nat]
    BY <1>1, <1>5
  <2> QED
    BY <1>1, <2>1
<1>7. ASSUME NEW m \in S, NEW k \in S \cup {n}, q[m] = q[k] PROVE m = k
  BY <1>4, <1>5, <1>6, <1>7 DEF Ranks
<1>8. /\ operStopList' = n /\ \A k \in S \cup {n} : q[k] <= q[n]
      /\ node'[n].prev = None
      /\ node'[n].next = None <=> \A k \in S \cup {n} : q[n] <= q[k]
      /\ node'[n].next # None =>
            /\ node'[n].next \in S \cup {n} /\ q[node'[n].next] < q[n]
            /\ \A k \in S \cup {n} : q[k] < q[n] => q[k] <= q[node'[n].next]
  <2>1. \A k \in S \cup {n} : q[k] <= q[n]
    BY <1>4, <1>5, <1>6
  <2>2. CASE operStopList = None
    BY <1>2, <1>5, <1>6, <2>1, <2>2 DEF StopListInv
  <2>3. CASE operStopList # None
    <3>1. operStopList \in S /\ \A k \in S : r[k] <= r[operStopList]
      BY <2>3 DEF StopListInv, Ranks
    <3> QED
      BY <1>2, <1>4, <1>5, <1>6, <2>1, <2>3, <3>1
  <2> QED
    BY <2>2, <2>3
<1>9. ASSUME NEW m \in S
      PROVE  /\ operStopList' = m <=> \A k \in S \cup {n} : q[k] <= q[m]
             /\ node'[m].prev = None <=> \A k \in S \cup {n} : q[k] <= q[m]
             /\ node'[m].next = None <=> \A k \in S \cup {n} : q[m] <= q[k]
             /\ node'[m].prev # None =>
                   /\ node'[m].prev \in S \cup {n} /\ q[m] < q[node'[m].prev]
                   /\ \A k \in S \cup {n} : q[m] < q[k] => q[node'[m].prev] <= q[k]
             /\ node'[m].next # None =>
                   /\ node'[m].next \in S \cup {n} /\ q[node'[m].next] < q[m]
                   /\ \A k \in S \cup {n} : q[k] < q[m] => q[k] <= q[node'[m].next]
  <2>1. /\ m # n /\ m \in Node /\ q[m] = r[m] /\ r[m] < q[n] /\ q[n] \in Nat
        /\ node'[m].next = node[m].next
        /\ node'[m].prev = IF m = operStopList THEN n ELSE node[m].prev
    BY <1>1, <1>2, <1>5, <1>6, <1>9
  <2>2. operStopList' # m /\ ~(\A k \in S \cup {n} : q[k] <= q[m])
    BY <1>4, <1>9, <2>1
  <2>3. CASE m = operStopList
    <3>1. \A k \in S : r[k] <= r[m]
      BY <1>9, <2>3 DEF Ranks
    <3> QED
      BY <1>1, <1>4, <1>6, <1>9, <2>1, <2>2, <2>3, <3>1 DEF Ranks
  <2>4. CASE m # operStopList
    <3>1. node[m].prev # None /\ node[m].prev \in S
      BY <1>9, <2>4 DEF Ranks
    <3>2. /\ r[m] < r[node[m].prev] /\ \A k \in S : r[m] < r[k] => r[node[m].prev] <= r[k]
          /\ node'[m].prev = node[m].prev /\ node'[m].prev \in S
      BY <1>9, <2>1, <2>4, <3>1 DEF Ranks
    <3>3. /\ q[m] < q[node'[m].prev] /\ q[node'[m].prev] < q[n]
          /\ \A k \in S \cup {n} : q[m] < q[k] => q[node'[m].prev] <= q[k]
      BY <1>4, <1>5, <1>6, <2>1, <3>2
    <3>4. node'[m].next = None <=> \A k \in S \cup {n} : q[m] <= q[k]
      BY <1>4, <1>6, <1>9, <2>1 DEF Ranks
    <3>5. ASSUME node'[m].next # None
          PROVE  /\ node'[m].next \in S \cup {n} /\ q[node'[m].next] < q[m]
                 /\ \A k \in S \cup {n} : q[k] < q[m] => q[k] <= q[node'[m].next]
      BY <1>4, <1>6, <1>9, <2>1, <3>5 DEF Ranks
    <3> QED
      BY <1>1, <2>2, <3>2, <3>3, <3>4, <3>5
  <2> QED
    BY <2>3, <2>4
<1>10. Ranks(q)'
  <2>1. \A m, k \in StoppedRuns' : q[m] = q[k] => m = k
    BY <1>3, <1>7
  <2> QED
    BY <1>3, <1>8, <1>9, <2>1 DEF Ranks
<1>11. \A m \in StoppedRuns : node'[m].win = node[m].win
  BY <1>1, <1>2
<1> QED
  BY <1>2, <1>3, <1>6, <1>10, <1>11

LEMMA StopListKept ==
    ASSUME StopListInv, ui'.op # "flag", StoppedRuns' = StoppedRuns,
           operStopList' = operStopList,
           \A n \in StoppedRuns : /\ node'[n].win = node[n].win
                                  /\ node'[n].prev = node[n].prev
                                  /\ node'[n].next = node[n].next
    PROVE  StopListInv'
<1>1. PICK r \in [Node -> Nat] : Ranks(r)
  BY DEF StopListInv
<1>2. Ranks(r)'
  BY <1>1, RanksKept
<1> QED
  BY <1>2 DEF StopListInv

LEMMA StopListStep ==
    ASSUME ~UseStopFlag, IInv, OperInv, StopListInv, OperNext
    PROVE  StopListInv'
<1>0. OperTypeOK /\ BoundBothWays /\ UiShape
  BY DEF OperInv
<1>1. PICK r \in [Node -> Nat] : Ranks(r)
  BY DEF StopListInv
<1>2. ASSUME NEW n \in Node, CallBack(n) \/ CallBackReturn(n) PROVE StopListInv'
  <2>1. UNCHANGED <<ui, operStopList, opAlive>>
    BY <1>2 DEF CallBack, CallBackReturn
  <2>2. \A m \in Node : /\ node'[m].win = node[m].win /\ node'[m].stopped = node[m].stopped
                        /\ node'[m].prev = node[m].prev /\ node'[m].next = node[m].next
    BY <1>0, <1>2, CallBackEffect, CallBackReturnEffect
  <2>3. StoppedRuns' = StoppedRuns /\ StoppedRuns \subseteq Node
    BY <1>0, <2>1, <2>2 DEF StoppedRuns, OperTypeOK
  <2> QED
    BY <2>1, <2>2, <2>3, StopListKept DEF StopListInv
<1>3. ASSUME NEW n \in Node, FuncReturn(n) PROVE StopListInv'
  <2>1. /\ node'[n] = NoNode /\ opAlive' = opAlive \ {n} /\ ui' = ui
        /\ \A m \in Node : m # n =>
              /\ SameNode(node'[m], node[m])
              /\ node'[m].next = IF node[n].stopped /\ node[n].prev = m
                                 THEN node[n].next ELSE node[m].next
              /\ node'[m].prev = IF node[n].stopped /\ node[n].next = m
                                 THEN node[n].prev ELSE node[m].prev
    BY <1>0, <1>3, FuncReturnEffect DEF FuncReturn
  <2>2. StoppedRuns' = StoppedRuns \ {n} /\ StoppedRuns \subseteq Node
    BY <1>0, <2>1 DEF StoppedRuns, SameNode, OperTypeOK
  <2>3. n \in opAlive
    BY <1>3 DEF OperInv, WorkerShape, FuncReturn, InFunction
  <2>4. CASE node[n].stopped
    <3>1. n \in StoppedRuns
      BY <2>3, <2>4 DEF StoppedRuns
    <3>2. /\ Ranks(r)' /\ (operStopList' = None <=> StoppedRuns' = {})
          /\ (operStopList' # None => operStopList' \in StoppedRuns')
      BY <1>0, <1>1, <1>3, <2>2, <3>1, RanksRemove
    <3>3. \A m \in StoppedRuns' : node'[m].win = None
      BY <2>1, <2>2 DEF StopListInv, SameNode
    <3> QED
      BY <2>1, <3>2, <3>3 DEF StopListInv
  <2>5. CASE ~node[n].stopped
    <3>1. StoppedRuns' = StoppedRuns /\ n \notin StoppedRuns
      BY <2>2, <2>5 DEF StoppedRuns
    <3>2. operStopList' = operStopList
      BY <1>3, <2>5 DEF FuncReturn
    <3>3. \A m \in StoppedRuns : /\ node'[m].win = node[m].win
                                 /\ node'[m].prev = node[m].prev
                                 /\ node'[m].next = node[m].next
      BY <2>1, <2>2, <2>5, <3>1 DEF SameNode
    <3> QED
      BY <2>1, <3>1, <3>2, <3>3, StopListKept DEF StopListInv
  <2> QED
    BY <2>4, <2>5
<1>4. ASSUME NEW x \in Window, FinishStop(x) PROVE StopListInv'
  <2>1. ui'.op # "flag" /\ opAlive' = opAlive
    <3>1. ui' = [ui EXCEPT !.op = ui.then] /\ ui.then \in {"create", "close"}
      BY <1>0, <1>4 DEF FinishStop, UiShape
    <3> QED
      BY <1>0, <1>4, <3>1 DEF OperTypeOK, UiStates, FinishStop
  <2>2. CASE tNode[x] = None
    <3>1. node' = node /\ operStopList' = operStopList
      BY <1>4, <2>2 DEF FinishStop
    <3> QED
      BY <2>1, <3>1, StopListKept DEF StoppedRuns
  <2>3. CASE tNode[x] # None
    <3>1. /\ tNode[x] \in opAlive /\ node[tNode[x]].win = x
          /\ node' = Unbind(x, tNode[x]) /\ operStopList' = tNode[x]
      BY <1>0, <1>4, <2>3 DEF FinishStop, BoundBothWays
    <3>2. ~node[tNode[x]].stopped
      BY <3>1, NoneAssumption DEF StopListInv, StoppedRuns
    <3>3. /\ StoppedRuns' = StoppedRuns \cup {tNode[x]}
          /\ node'[tNode[x]].win = None
          /\ \A m \in StoppedRuns : node'[m].win = node[m].win
          /\ \E q \in [Node -> Nat] : Ranks(q)'
      BY <1>0, <1>1, <2>1, <3>1, <3>2, RanksPush
    <3>4. \A m \in StoppedRuns' : node'[m].win = None
      BY <3>3 DEF StopListInv
    <3> QED
      BY <2>1, <2>3, <3>1, <3>3, <3>4 DEF StopListInv
  <2> QED
    BY <2>2, <2>3
<1>5. ASSUME NEW x \in Window, NEW n \in Node, CreateRun(x, n) PROVE StopListInv'
  <2>1. /\ ui' = Idle /\ operStopList' = operStopList /\ n \notin opAlive
        /\ opAlive' = opAlive \cup {n} /\ node' = [node EXCEPT ![n] = NewNode(x)]
    BY <1>5 DEF CreateRun
  <2>2. \A m \in opAlive : node'[m] = node[m]
    BY <1>0, <2>1 DEF OperTypeOK
  <2>3. ~node'[n].stopped
    BY <1>0, <2>1, NewNodeType DEF OperTypeOK
  <2>4. StoppedRuns' = StoppedRuns /\ StoppedRuns \subseteq opAlive
    BY <2>1, <2>2, <2>3 DEF StoppedRuns
  <2> QED
    BY <2>1, <2>2, <2>4, IdleType, StopListKept
<1>6. CASE ThreadSignalReturn
  <2>1. UNCHANGED <<ui, operStopList, opAlive>>
    BY <1>6 DEF ThreadSignalReturn
  <2>2. \A m \in Node : /\ node'[m].win = node[m].win /\ node'[m].stopped = node[m].stopped
                        /\ node'[m].prev = node[m].prev /\ node'[m].next = node[m].next
    BY <1>0, <1>6, AnswerEffect
  <2>3. StoppedRuns' = StoppedRuns /\ StoppedRuns \subseteq Node
    BY <1>0, <2>1, <2>2 DEF StoppedRuns, OperTypeOK
  <2> QED
    BY <2>1, <2>2, <2>3, StopListKept DEF StopListInv
<1>7. ~SetStopFlag /\ \A x \in Window : ~ReadFlagNode(x)
  BY DEF SetStopFlag, ReadFlagNode, StopListInv
<1>8. ASSUME UNCHANGED <<node, opAlive, operStopList>>, ui'.op # "flag" PROVE StopListInv'
  BY <1>8, StopListKept DEF StoppedRuns
<1>9. ASSUME NEW n \in Node, OperWorker(n), ~CallBack(n), ~CallBackReturn(n), ~FuncReturn(n)
      PROVE  StopListInv'
  BY <1>8, <1>9 DEF OperWorker, Ask, LockData, UnlockData, LookBeforeAsking, EnterWait,
                    SendSignal, WorkerEnd, operVars, StopListInv
<1>10. ASSUME NEW x \in Window, StartRun(x) \/ LeaveDialog(x) \/ OpenWindow(x) PROVE StopListInv'
  BY <1>8, <1>10 DEF StartRun, LeaveDialog, OpenWindow, UiDoes, UiIdle, runVars, operVars
<1>11. CASE CreateFails \/ DestroyDialog
  BY <1>8, <1>11, IdleType DEF CreateFails, DestroyDialog, runVars
<1>12. CASE LoopTurn \/ ThreadSignal \/ ThreadStopped \/ ThreadStoppedReturn
  BY <1>8, <1>12 DEF LoopTurn, ThreadSignal, ThreadStopped, ThreadStoppedReturn, UiIdle,
                     runVars, operVars
<1> QED
  BY <1>2, <1>3, <1>4, <1>5, <1>6, <1>7, <1>9, <1>10, <1>11, <1>12 DEF OperNext, OperUI

LEMMA StopListInvariance == ASSUME ~UseStopFlag PROVE OperSpec => []StopListInv
<1>1. OperInit => StopListInv
  <2>1. SUFFICES ASSUME OperInit PROVE StopListInv
    OBVIOUS
  <2>2. StoppedRuns = {} /\ operStopList = None /\ ui.op # "flag"
    BY <2>1, IdleType DEF OperInit, StoppedRuns
  <2>3. [n \in Node |-> 0] \in [Node -> Nat]
    OBVIOUS
  <2>4. \A r \in [Node -> Nat] : Ranks(r)
    BY <2>2 DEF Ranks
  <2> QED
    BY <2>2, <2>3, <2>4 DEF StopListInv
<1>2. ASSUME StopListInv, UNCHANGED allVars PROVE StopListInv'
  BY <1>2, StopListKept DEF allVars, operVars, StoppedRuns, StopListInv
<1> QED
  BY <1>1, <1>2, StopListStep, OperInvariance, WinInvariance, PTL DEF OperSpec

\* operStopList is exactly the list of the stopped runs that have not ended, in
\* whatever order any number of windows stops them and they end, when nothing
\* but StopThread stops a run (SetStopFlag leaves it out of the list).
THEOREM ListsTheStopped == ASSUME ~UseStopFlag PROVE OperSpec => []StopListExact
<1>1. ASSUME StopListInv, OperTypeOK PROVE StopListExact
  <2>1. PICK r \in [Node -> Nat] : Ranks(r)
    BY <1>1 DEF StopListInv
  <2>2. StoppedRuns \subseteq Node /\ \A n \in StoppedRuns : r[n] \in Nat
    BY <1>1 DEF StoppedRuns, OperTypeOK
  <2>3. ASSUME NEW n \in StoppedRuns
        PROVE  /\ node[n].prev = None <=> n = operStopList
               /\ node[n].prev # None =>
                     node[n].prev \in StoppedRuns /\ node[node[n].prev].next = n
               /\ node[n].next # None =>
                     node[n].next \in StoppedRuns /\ node[node[n].next].prev = n
    <3>1. node[n].prev = None <=> n = operStopList
      BY <2>1, <2>3 DEF Ranks
    <3>2. ASSUME node[n].prev # None
          PROVE  node[n].prev \in StoppedRuns /\ node[node[n].prev].next = n
      <4> DEFINE m == node[n].prev
                 k == node[m].next
      <4>1. m \in StoppedRuns /\ r[n] < r[m]
            /\ \A j \in StoppedRuns : r[n] < r[j] => r[m] <= r[j]
        BY <2>1, <2>3, <3>2 DEF Ranks
      <4>2. k # None
        BY <2>1, <2>2, <2>3, <4>1 DEF Ranks
      <4>3. k \in StoppedRuns /\ r[k] < r[m] /\ r[n] <= r[k]
        BY <2>1, <2>3, <4>1, <4>2 DEF Ranks
      <4>4. r[k] = r[n]
        BY <2>2, <2>3, <4>1, <4>3
      <4> QED
        BY <2>1, <2>3, <4>1, <4>3, <4>4 DEF Ranks
    <3>3. ASSUME node[n].next # None
          PROVE  node[n].next \in StoppedRuns /\ node[node[n].next].prev = n
      <4> DEFINE m == node[n].next
                 k == node[m].prev
      <4>1. m \in StoppedRuns /\ r[m] < r[n]
            /\ \A j \in StoppedRuns : r[j] < r[n] => r[j] <= r[m]
        BY <2>1, <2>3, <3>3 DEF Ranks
      <4>2. k # None
        BY <2>1, <2>2, <2>3, <4>1 DEF Ranks
      <4>3. k \in StoppedRuns /\ r[m] < r[k] /\ r[k] <= r[n]
        BY <2>1, <2>3, <4>1, <4>2 DEF Ranks
      <4>4. r[k] = r[n]
        BY <2>2, <2>3, <4>1, <4>3
      <4> QED
        BY <2>1, <2>3, <4>1, <4>3, <4>4 DEF Ranks
    <3> QED
      BY <3>1, <3>2, <3>3
  <2> QED
    BY <1>1, <2>3 DEF StopListExact, StopListInv, StoppedRuns
<1>2. OperInv => OperTypeOK
  BY DEF OperInv
<1> QED
  BY <1>1, <1>2, OperInvariance, StopListInvariance, PTL

-----------------------------------------------------------------------------
(* Callbacks: the handlers on the stack and the entries of calls.          *)

\* The frames of the handlers are the same before and after a step.
HandlersStay ==
    /\ \A k \in FrameIds' : Handling(stack'[k]) => k \in FrameIds /\ stack'[k] = stack[k]
    /\ \A k \in FrameIds : Handling(stack[k]) => k \in FrameIds' /\ stack'[k] = stack[k]

LEMMA CallsStay ==
    ASSUME CallsMatch, calls' = calls, \A n \in CalledBack : w'[n] = w[n], HandlersStay
    PROVE  CallsMatch'
<1>1. PICK at \in [DOMAIN calls -> FrameIds] : CallsAt(at)
  BY DEF CallsMatch
<1>2. \A i \in DOMAIN calls : at[i] \in FrameIds' /\ stack'[at[i]] = stack[at[i]]
  BY <1>1 DEF CallsAt, HandlersStay
<1>3. at \in [DOMAIN calls' -> FrameIds']
  BY <1>1, <1>2
<1>4. \A k \in FrameIds' : Handling(stack'[k]) <=> \E i \in DOMAIN calls : at[i] = k
  BY <1>1, <1>2 DEF CallsAt, HandlersStay
<1>5. \A i \in DOMAIN calls : calls[i] \in Node => w'[calls[i]] = w[calls[i]]
  BY DEF CalledBack
<1>6. CallsAt(at)'
  BY <1>1, <1>2, <1>4, <1>5 DEF CallsAt
<1> QED
  BY <1>3, <1>6 DEF CallsMatch

\* A handler is called: calls[Len(calls)] is what it executes.
LEMMA CallsPush ==
    ASSUME IInv, OperTypeOK, CallsMatch, NEW f, NEW c \in Node \cup {None, Told},
           Handling(f), Pushed(stack', stack, f), calls' = Append(calls, c), w' = w,
           c = Told => f.at = "stopped",
           c \in Node => f.at = "signal" /\ f.win = w[c]
    PROVE  CallsMatch'
<1>1. PICK at \in [DOMAIN calls -> FrameIds] : CallsAt(at)
  BY DEF CallsMatch
<1> DEFINE k == Len(calls)
           top == Len(stack) + 1
<1>2. /\ k \in Nat /\ DOMAIN calls = 1..k /\ DOMAIN calls' = 1..(k + 1)
      /\ calls'[k + 1] = c /\ \A i \in 1..k : calls'[i] = calls[i]
  BY DEF OperTypeOK
<1>3. /\ Len(stack) \in Nat /\ FrameIds' = 1..top /\ stack'[top] = f
      /\ \A i \in FrameIds : stack'[i] = stack[i]
  BY StackFacts DEF Pushed, FrameIds, IInv
<1>4. FrameIds = 1..Len(stack)
  BY DEF FrameIds
<1> HIDE DEF k, top
<1>5. PICK new \in [1..(k + 1) -> FrameIds'] :
         new[k + 1] = top /\ \A i \in 1..k : new[i] = at[i]
  <2>1. top \in FrameIds' /\ \A i \in 1..k : at[i] \in FrameIds' /\ i # k + 1
    BY <1>1, <1>2, <1>3, <1>4 DEF top
  <2>2. \A i \in 1..(k + 1) : i = k + 1 \/ i \in 1..k
    BY <1>2
  <2>3. [i \in 1..(k + 1) |-> IF i = k + 1 THEN top ELSE at[i]] \in [1..(k + 1) -> FrameIds']
    BY <2>1, <2>2
  <2>4. k + 1 \in 1..(k + 1) /\ \A i \in 1..k : i \in 1..(k + 1)
    BY <1>2
  <2> QED
    BY <2>1, <2>3, <2>4
<1>6. \A i \in 1..k : new[i] \in FrameIds /\ new[i] = at[i]
  BY <1>1, <1>2, <1>5
<1>7. \A i, j \in DOMAIN calls' : i < j => new[i] < new[j]
  <2>1. \A i, j \in 1..k : i < j => new[i] < new[j]
    BY <1>1, <1>2, <1>6 DEF CallsAt
  <2>2. \A i \in 1..k : new[i] < new[k + 1]
    BY <1>3, <1>4, <1>5, <1>6 DEF top
  <2> QED
    BY <1>2, <2>1, <2>2
<1>8. ASSUME NEW j \in FrameIds'
      PROVE  Handling(stack'[j]) <=> \E i \in DOMAIN calls' : new[i] = j
  <2>1. CASE j = top
    BY <1>2, <1>3, <1>5, <2>1
  <2>2. CASE j # top
    <3>1. j \in FrameIds /\ stack'[j] = stack[j]
      BY <1>3, <1>4, <2>2 DEF top
    <3>2. Handling(stack[j]) <=> \E i \in DOMAIN calls : at[i] = j
      BY <1>1, <3>1 DEF CallsAt
    <3>3. (\E i \in DOMAIN calls' : new[i] = j) <=> (\E i \in DOMAIN calls : at[i] = j)
      BY <1>2, <1>5, <1>6, <2>2
    <3> QED
      BY <3>1, <3>2, <3>3
  <2> QED
    BY <2>1, <2>2
<1>9. ASSUME NEW i \in DOMAIN calls'
      PROVE  /\ calls'[i] = Told => stack'[new[i]].at = "stopped"
             /\ calls'[i] \in Node =>
                   stack'[new[i]].at = "signal" /\ stack'[new[i]].win = w'[calls'[i]]
  <2>1. CASE i = k + 1
    BY <1>2, <1>3, <1>5, <2>1
  <2>2. CASE i \in 1..k
    BY <1>1, <1>2, <1>3, <1>6, <2>2 DEF CallsAt
  <2> QED
    BY <1>2, <2>1, <2>2
<1>10. CallsAt(new)'
  BY <1>7, <1>8, <1>9 DEF CallsAt
<1> QED
  BY <1>2, <1>5, <1>10 DEF CallsMatch

\* What the handler on top of the stack is about.
LEMMA TopCall ==
    ASSUME IInv, OperTypeOK, CallsMatch, Handling(Top)
    PROVE  LET c == calls[Len(calls)]
           IN  /\ calls # <<>> /\ Len(calls) \in DOMAIN calls
               /\ c \in Node \cup {None, Told}
               /\ c = Told => Top.at = "stopped"
               /\ c \in Node => Top.at = "signal" /\ Top.win = w[c]
<1>1. PICK at \in [DOMAIN calls -> FrameIds] : CallsAt(at)
  BY DEF CallsMatch
<1>2. Len(stack) \in FrameIds /\ Top = stack[Len(stack)] /\ Len(stack) \in Nat
  BY StackFacts DEF IInv, FrameIds
<1>3. Len(calls) \in Nat /\ DOMAIN calls = 1..Len(calls)
  BY DEF OperTypeOK
<1>4. PICK i \in DOMAIN calls : at[i] = Len(stack)
  BY <1>1, <1>2 DEF CallsAt
<1>5. i = Len(calls)
  <2>1. SUFFICES ASSUME i # Len(calls) PROVE FALSE
    OBVIOUS
  <2>2. Len(calls) \in DOMAIN calls /\ i < Len(calls)
    BY <1>3, <1>4, <2>1
  <2>3. at[i] < at[Len(calls)] /\ at[Len(calls)] \in FrameIds
    BY <1>1, <2>2 DEF CallsAt
  <2> QED
    BY <1>2, <1>4, <2>3 DEF FrameIds
<1>6. calls[i] \in Node \cup {None, Told} /\ calls # <<>>
  BY <1>3 DEF OperTypeOK
<1> QED
  BY <1>1, <1>2, <1>3, <1>4, <1>5, <1>6 DEF CallsAt

\* A handler returns.
LEMMA CallsPop ==
    ASSUME IInv, OperTypeOK, CallsMatch, Handling(Top), calls' = Pop(calls, 1), w' = w,
           Prefix(stack', stack), Len(stack') < Len(stack),
           \A k \in FrameIds : k > Len(stack') /\ k # Len(stack) => ~Handling(stack[k])
    PROVE  CallsMatch'
<1>1. PICK at \in [DOMAIN calls -> FrameIds] : CallsAt(at)
  BY DEF CallsMatch
<1> DEFINE k == Len(calls) - 1
<1>2. /\ Len(calls) \in Nat /\ k \in Nat /\ DOMAIN calls = 1..Len(calls)
      /\ DOMAIN calls' = 1..k /\ \A i \in 1..k : calls'[i] = calls[i]
  BY TopCall, PopCalls DEF OperTypeOK
<1>3. /\ Len(stack) \in Nat /\ FrameIds = 1..Len(stack) /\ FrameIds' = 1..Len(stack')
      /\ Len(stack') \in Nat /\ \A j \in FrameIds' : j \in FrameIds /\ stack'[j] = stack[j]
  BY StackFacts, PrefixFacts DEF Prefix, FrameIds, IInv
<1>4. Len(stack) \in FrameIds /\ stack[Len(stack)] = Top
  BY StackFacts DEF IInv, FrameIds
<1>5. at[Len(calls)] = Len(stack)
  <2>1. PICK i \in DOMAIN calls : at[i] = Len(stack)
    BY <1>1, <1>4 DEF CallsAt
  <2>2. Len(calls) \in DOMAIN calls /\ (i = Len(calls) \/ i < Len(calls))
    BY <1>2, <2>1
  <2>3. i < Len(calls) => at[i] < at[Len(calls)] /\ at[Len(calls)] \in FrameIds
    BY <1>1, <2>2 DEF CallsAt
  <2> QED
    BY <1>3, <2>1, <2>2, <2>3
<1>6. ASSUME NEW i \in 1..k PROVE i \in DOMAIN calls /\ at[i] \in FrameIds'
  <2>1. i \in DOMAIN calls /\ Len(calls) \in DOMAIN calls /\ i < Len(calls)
    BY <1>2
  <2>2. at[i] \in FrameIds /\ at[i] < Len(stack) /\ Handling(stack[at[i]])
    BY <1>1, <1>5, <2>1 DEF CallsAt
  <2> QED
    BY <1>3, <2>1, <2>2
<1>7. PICK new \in [1..k -> FrameIds'] : \A i \in 1..k : new[i] = at[i]
  <2>1. [i \in 1..k |-> at[i]] \in [1..k -> FrameIds']
    BY <1>6
  <2> QED
    BY <2>1
<1> HIDE DEF k
<1>8. ASSUME NEW j \in FrameIds'
      PROVE  Handling(stack'[j]) <=> \E i \in 1..k : new[i] = j
  <2>1. j \in FrameIds /\ stack'[j] = stack[j] /\ j # Len(stack)
    BY <1>3
  <2>2. Handling(stack[j]) <=> \E i \in DOMAIN calls : at[i] = j
    BY <1>1, <2>1 DEF CallsAt
  <2>3. ASSUME NEW i \in DOMAIN calls, at[i] = j PROVE i \in 1..k
    BY <1>2, <1>5, <2>1, <2>3 DEF k
  <2> QED
    BY <1>6, <1>7, <2>1, <2>2, <2>3
<1>9. \A i, j \in 1..k : i < j => new[i] < new[j]
  BY <1>1, <1>6, <1>7 DEF CallsAt
<1>10. ASSUME NEW i \in 1..k
       PROVE  /\ calls'[i] = Told => stack'[new[i]].at = "stopped"
              /\ calls'[i] \in Node =>
                    stack'[new[i]].at = "signal" /\ stack'[new[i]].win = w'[calls'[i]]
  <2>1. i \in DOMAIN calls /\ new[i] = at[i] /\ calls'[i] = calls[i]
        /\ stack'[at[i]] = stack[at[i]]
    BY <1>2, <1>3, <1>6, <1>7
  <2> QED
    BY <1>1, <2>1 DEF CallsAt
<1>11. CallsAt(new)'
  BY <1>2, <1>8, <1>9, <1>10 DEF CallsAt
<1> QED
  BY <1>2, <1>7, <1>11 DEF CallsMatch


\* The steps that neither call a handler nor return from one.
LEMMA PushStays ==
    ASSUME IInv, NEW f, Pushed(stack', stack, f), ~Handling(f)
    PROVE  HandlersStay
<1>1. /\ Len(stack) \in Nat /\ Len(stack') = Len(stack) + 1 /\ stack'[Len(stack) + 1] = f
      /\ \A i \in 1..Len(stack) : stack'[i] = stack[i]
  BY StackFacts DEF Pushed, IInv
<1> QED
  BY <1>1 DEF HandlersStay, FrameIds

LEMMA PrefixStays ==
    ASSUME IInv, Prefix(stack', stack),
           \A k \in FrameIds : k > Len(stack') => ~Handling(stack[k])
    PROVE  HandlersStay
<1>1. /\ Len(stack) \in Nat /\ Len(stack') \in Nat /\ Len(stack') <= Len(stack)
      /\ \A i \in 1..Len(stack') : stack'[i] = stack[i]
  BY StackFacts, PrefixFacts DEF Prefix, IInv
<1> QED
  BY <1>1 DEF HandlersStay, FrameIds

LEMMA LoopsStay ==
    ASSUME IInv, \/ \E x \in Window : OpenDialog(x)
                 \/ CloseDialog \/ BeginEvents \/ EmptyRound
    PROVE  HandlersStay
<1>0. TypeOK /\ StackShape /\ Len(stack) \in Nat /\ 1 <= Len(stack) /\ Top = stack[Len(stack)]
  BY StackFacts DEF IInv
<1>1. ASSUME NEW x \in Window, OpenDialog(x) PROVE HandlersStay
  BY <1>0, <1>1, OpenEffect, PushStays DEF Handling, Frame
<1>2. CASE CloseDialog
  <2>1. Prefix(stack', stack) /\ Len(stack') = Len(stack) - 1 /\ Top.at = "loop"
    BY <1>0, <1>2, CloseEffect DEF CloseDialog
  <2>2. \A k \in FrameIds : k > Len(stack') => ~Handling(stack[k])
    BY <1>0, <2>1 DEF FrameIds, Handling
  <2> QED
    BY <2>1, <2>2, PrefixStays
<1>3. CASE EmptyRound
  <2>1. Prefix(stack', stack) /\ Top.at = "events" /\ Len(stack') = Len(stack) - 1
    <3>1. stack' = Pop(stack, 1) /\ 1 < Len(stack)
      BY <1>0, <1>3, StackFacts DEF EmptyRound
    <3> QED
      BY <1>0, <1>3, <3>1, EmptyEffect, PopShape DEF EmptyRound, StackShape
  <2>2. \A k \in FrameIds : k > Len(stack') => ~Handling(stack[k])
    BY <1>0, <2>1 DEF FrameIds, Handling
  <2> QED
    BY <2>1, <2>2, PrefixStays
<1>4. CASE BeginEvents
  <2>1. /\ stack'[Len(stack)].at = "loop" /\ Top.at \in {"enter", "loop"}
        /\ \A i \in 1..Len(stack) : i # Len(stack) => stack'[i] = stack[i]
        /\ \/ Len(stack') = Len(stack)
           \/ Len(stack') = Len(stack) + 1 /\ stack'[Len(stack) + 1].at = "events"
    <3>1. Top.at \in {"enter", "loop"}
      BY <1>4 DEF BeginEvents
    <3>2. /\ stack'[Len(stack)] = Frame("loop", Top.win, None)
          /\ \A i \in 1..Len(stack) : i # Len(stack) => stack'[i] = stack[i]
          /\ \/ Len(stack') = Len(stack)
             \/ /\ Len(stack') = Len(stack) + 1
                /\ stack'[Len(stack) + 1] = Frame("events", None, Last)
      BY <1>0, <1>4, BeginEffect
    <3> QED
      BY <3>1, <3>2 DEF Frame
  <2>2. /\ ~Handling(stack[Len(stack)]) /\ ~Handling(stack'[Len(stack)])
        /\ Len(stack') = Len(stack) + 1 => ~Handling(stack'[Len(stack) + 1])
    BY <1>0, <2>1 DEF Handling
  <2>3. ASSUME NEW k \in FrameIds', Handling(stack'[k])
        PROVE  k \in FrameIds /\ k # Len(stack)
    BY <1>0, <2>1, <2>2, <2>3 DEF FrameIds
  <2>4. ASSUME NEW k \in FrameIds, Handling(stack[k])
        PROVE  k \in FrameIds' /\ k # Len(stack)
    BY <1>0, <2>1, <2>2, <2>4 DEF FrameIds
  <2> QED
    BY <2>1, <2>3, <2>4 DEF HandlersStay, FrameIds
<1> QED
  BY <1>1, <1>2, <1>3, <1>4

\* A round without a handler, or with one.
LEMMA RoundCalls ==
    ASSUME IInv, EventRound \/ StopRound
    PROVE  LET p == Head(cmdQueue)
           IN  /\ p \in Queued /\ p \in Node /\ w' = w
               /\ w[p] = None => HandlersStay
               /\ w[p] # None =>
                     \E f : Handling(f) /\ Pushed(stack', stack, f) /\ f.win = w[p]
                            /\ f.at = IF EventRound THEN "signal" ELSE "stopped"
<1> DEFINE p == Head(cmdQueue)
<1>0. /\ TypeOK /\ StackShape /\ Len(stack) \in Nat /\ 1 < Len(stack)
      /\ Top = stack[Len(stack)] /\ Top.at = "events"
  BY StackFacts DEF IInv, EventRound, StopRound
<1>1. p \in Queued /\ p \in Node /\ w' = w
  BY <1>0, DequeueEffect, HeadFacts DEF EventRound, StopRound, IInv
<1>2. ASSUME w[p] = None PROVE HandlersStay
  <2>1. Prefix(stack', stack) /\ (Len(stack') = Len(stack) - 1 \/ Len(stack') = Len(stack))
    BY <1>0, <1>2, EventEffect, StopEffect
  <2>2. \A k \in FrameIds : k > Len(stack') => ~Handling(stack[k])
    BY <1>0, <2>1 DEF FrameIds, Handling
  <2> QED
    BY <2>1, <2>2, PrefixStays
<1>3. ASSUME w[p] # None, EventRound
      PROVE  Pushed(stack', stack, Frame("signal", w[p], p))
  BY <1>0, <1>3, EventEffect
<1>4. ASSUME w[p] # None, StopRound
      PROVE  Pushed(stack', stack, Frame("stopped", w[p], p))
  BY <1>0, <1>4, StopEffect
<1>5. \A kind \in {"signal", "stopped"} :
         LET f == Frame(kind, w[p], p) IN Handling(f) /\ f.win = w[p] /\ f.at = kind
  BY DEF Handling, Frame
<1> HIDE DEF p
<1> QED
  BY <1>1, <1>2, <1>3, <1>4, <1>5 DEF p

\* A handler returns, and wth_DoEvents that has called it may return.
LEMMA ReturnCalls ==
    ASSUME IInv, ~MayThrow, SignalReturn \/ StoppedReturn
    PROVE  /\ Handling(Top) /\ w' = w
           /\ Prefix(stack', stack) /\ Len(stack') < Len(stack)
           /\ \A k \in FrameIds : k > Len(stack') /\ k # Len(stack) => ~Handling(stack[k])
<1>0. /\ TypeOK /\ StackShape /\ Len(stack) \in Nat /\ 1 < Len(stack)
      /\ Top = stack[Len(stack)] /\ Top.at \in {"signal", "stopped"}
      /\ stack[Len(stack) - 1].at = "events"
  BY StackFacts DEF IInv, SignalReturn, StoppedReturn
<1>1. /\ Prefix(stack', stack) /\ Len(stack') < Len(stack)
      /\ (Len(stack') = Len(stack) - 1 \/ Len(stack') = Len(stack) - 2)
  BY <1>0, HandlerEffect DEF Handlers
<1>2. \A k \in FrameIds : k > Len(stack') /\ k # Len(stack) => ~Handling(stack[k])
  BY <1>0, <1>1 DEF FrameIds, Handling
<1> QED
  BY <1>0, <1>1, <1>2 DEF Handling, SignalReturn, StoppedReturn, nodeVars

\* No handler is working for the window of the innermost loop.
LEMMA LoopNotCalled ==
    ASSUME IInv, OperTypeOK, CallsMatch, Top.at \in {"enter", "loop"}, NEW n \in CalledBack
    PROVE  w[n] # Top.win
<1>1. PICK at \in [DOMAIN calls -> FrameIds] : CallsAt(at)
  BY DEF CallsMatch
<1>2. PICK i \in DOMAIN calls : calls[i] = n /\ n \in Node
  BY DEF CalledBack, OperTypeOK
<1>3. at[i] \in FrameIds /\ stack[at[i]].at = "signal" /\ stack[at[i]].win = w[n]
  BY <1>1, <1>2 DEF CallsAt
<1>4. PICK j \in FrameIds : j < at[i] /\ stack[j].at = "loop" /\ stack[j].win = w[n]
  BY <1>3 DEF IInv, WindowShape
<1>5. Len(stack) \in FrameIds /\ Top = stack[Len(stack)] /\ Len(stack) \in Nat
  BY StackFacts DEF IInv, FrameIds
<1>6. j # Len(stack)
  BY <1>3, <1>4, <1>5 DEF FrameIds
<1> QED
  BY <1>4, <1>5, <1>6 DEF IInv, WindowShape


-----------------------------------------------------------------------------
(* Callbacks: every step preserves the invariant.                          *)

\* Who is called back is in CallBack: its thread has not ended.
LEMMA CalledAlive ==
    ASSUME IInv, OperInv, CallsShape, NEW n \in CalledBack
    PROVE  /\ n \in Node /\ n \in thList /\ n \in alloc /\ n \in opAlive
           /\ Asking(n) /\ w[n] \in Window \ {MainWin} /\ cbExecuted[w[n]]
<1>1. n \in Node /\ Asking(n) /\ w[n] \in Window \ {MainWin} /\ cbExecuted[w[n]]
  BY DEF CallsShape, CalledBack
<1>2. pc[n] \in {"posted", "waiting"}
  BY <1>1 DEF Asking, InCallBack
<1> QED
  BY <1>1, <1>2 DEF IInv, NodeShape, OperInv, WorkerShape, InFunction

\* Two runs of a window that asks do not live at the same time.
LEMMA OneAsks ==
    ASSUME OneRun, ui.op # "close", NEW m \in thList \cup Queued, NEW n \in thList \cup Queued,
           w[m] = w[n], w[n] \in Window \ {MainWin}
    PROVE  m = n
BY DEF OneRun

LEMMA SignalCalls ==
    ASSUME IInv, OperInv, OneRun, CallsShape, ThreadSignal
    PROVE  LET p == Head(cmdQueue)
               x == w[p]
           IN  /\ p \in Node /\ p \in Queued /\ Queued' = Queued \ {p} /\ EventRound
               /\ \/ x = None /\ UNCHANGED <<calls, cbExecuted, fault>>
                  \/ /\ x \in Window \ {MainWin} /\ Asking(p) /\ p \notin CalledBack
                     /\ calls' = Append(calls, p)
                     /\ cbExecuted' = [cbExecuted EXCEPT ![x] = TRUE]
                     /\ fault' = fault
                  \/ /\ x \in Window /\ calls' = Append(calls, None)
                     /\ UNCHANGED <<cbExecuted, fault>>
<1> DEFINE p == Head(cmdQueue)
           x == w[p]
<1>0. EventRound /\ UiIdle /\ TypeOK /\ QueueShape /\ cmd[p] = "EVENT" /\ cmdQueue # <<>>
      /\ cmdQueue' = Tail(cmdQueue)
  BY DEF ThreadSignal, EventRound, IInv
<1>1. p \in Node /\ p \in Queued /\ Queued' = Queued \ {p} /\ x \in Window \cup {None}
  BY <1>0, DequeueEffect, HeadFacts DEF TypeOK
<1>2. CASE x = None
  BY <1>0, <1>1, <1>2 DEF ThreadSignal
<1>3. CASE x # None /\ data[p] = Call /\ tNode[x] # None
  <2>1. EnterCallback(x)
    BY <1>3 DEF ThreadSignal
  <2>2. x \in Window \ {MainWin}
    BY <1>1, <1>3 DEF OneRun
  <2>3. threadId[x] = p /\ tNode[x] = p
    BY <1>0, <1>1, <1>3, <2>2 DEF OneRun, UiIdle, OperInv, IdKept
  <2>4. Pending(p)
    BY <1>0, <1>1, <1>3, <2>2, <2>3 DEF Pending
  <2>5. Asking(p) /\ p \notin CalledBack
    BY <1>1, <2>4 DEF CallsShape
  <2>6. ~cbExecuted[x]
    <3>1. SUFFICES ASSUME cbExecuted[x] PROVE FALSE
      OBVIOUS
    <3>2. PICK n \in CalledBack : w[n] = x
      BY <2>2, <3>1 DEF CallsShape
    <3>3. n \in thList /\ w[n] = w[p] /\ w[p] \in Window \ {MainWin} /\ ui.op # "close"
      BY <1>0, <2>2, <3>2, CalledAlive DEF UiIdle
    <3>4. n = p
      BY <1>1, <3>3, OneAsks
    <3> QED
      BY <2>5, <3>4
  <2>7. fault' = fault /\ calls' = Append(calls, p)
        /\ cbExecuted' = [cbExecuted EXCEPT ![x] = TRUE]
    <3>1. node[p].cbFunc
      BY <2>5 DEF Asking
    <3> HIDE DEF p, x
    <3> QED
      BY <2>1, <2>3, <2>6, <3>1 DEF EnterCallback, Occurs
  <2> QED
    BY <1>0, <1>1, <2>2, <2>5, <2>7
<1>4. CASE x # None /\ ~(data[p] = Call /\ tNode[x] # None)
  <2>1. calls' = Append(calls, None) /\ UNCHANGED <<cbExecuted, fault>>
    BY <1>4 DEF ThreadSignal
  <2> QED
    BY <1>0, <1>1, <1>4, <2>1
<1> QED
  BY <1>2, <1>3, <1>4

\* The dialog that is destroyed is nobody's who is called back.
LEMMA DestroyKeepsCalled ==
    ASSUME IInv, OperInv, CallsMatch, DestroyDialog
    PROVE  /\ \A n \in CalledBack : w'[n] = w[n]
           /\ \A n \in Node : w'[n] # None => w'[n] = w[n]
           /\ \A n \in thList \cup Queued : w[n] = ui.win => w'[n] = None \/ n \notin Node
           /\ \A n \in thList \cup Queued : w'[n] # ui.win
           /\ \A n \in Node : w[n] # ui.win => w'[n] = w[n]
           /\ Top.at = "loop" /\ Top.win = ui.win /\ ui.win \in Window
<1>1. /\ Top.at = "loop" /\ Top.win = ui.win /\ ui.win \in Window
      /\ DropWindow(ui.win)
  BY DEF DestroyDialog, CloseDialog, OperInv, UiShape
<1>2. w' = [n \in Node |-> IF n \in winList /\ w[n] = ui.win THEN None ELSE w[n]]
  BY <1>1 DEF DropWindow
<1>3. \A n \in CalledBack : n \in Node /\ w[n] # ui.win
  BY <1>1, LoopNotCalled DEF CalledBack, OperInv
<1>4. thList \cup Queued \subseteq Node
  BY DEF IInv, TypeOK, Queued
<1>5. \A n \in thList \cup Queued : w[n] = ui.win => n \in winList
  BY <1>1, NoneAssumption DEF IInv, OwnerShape
<1>6. ui.win # None
  BY <1>1, NoneAssumption
<1> QED
  BY <1>1, <1>2, <1>3, <1>4, <1>5, <1>6


LEMMA CallsMatchStep ==
    ASSUME IInv, OperInv, CallInv, OperNext
    PROVE  CallsMatch'
<1>0. /\ OperTypeOK /\ CallsMatch /\ OneRun /\ CallsShape /\ ~MayThrow
      /\ Told \notin Node \cup {None}
  BY OperAssumption, ToldAssumption DEF CallInv, OperInv
<1>1. ASSUME UNCHANGED stack PROVE HandlersStay
  BY <1>1 DEF HandlersStay, FrameIds
<1>2. ASSUME UNCHANGED <<calls, stack, w>> PROVE CallsMatch'
  BY <1>0, <1>1, <1>2, CallsStay
<1>3. ASSUME NEW n \in Node, OperWorker(n) PROVE CallsMatch'
  BY <1>2, <1>3, WorkerMoves
     DEF OperWorker, Ask, LockData, UnlockData, LookBeforeAsking, EnterWait, SendSignal, Signal,
         CallBack, CallBackReturn, FuncReturn, WorkerEnd, EndThread, vars, operVars
<1>4. ASSUME NEW x \in Window, StartRun(x) \/ LeaveDialog(x) \/ FinishStop(x) \/ ReadFlagNode(x)
      PROVE  CallsMatch'
  BY <1>2, <1>4 DEF StartRun, LeaveDialog, FinishStop, ReadFlagNode, vars
<1>5. CASE CreateFails \/ SetStopFlag
  BY <1>2, <1>5 DEF CreateFails, SetStopFlag, vars
<1>6. ASSUME NEW x \in Window, OpenWindow(x) PROVE CallsMatch'
  <2>1. OpenDialog(x) /\ calls' = calls /\ w' = w
    BY <1>6 DEF OpenWindow, OpenDialog, operVars, nodeVars
  <2> QED
    BY <1>0, <2>1, CallsStay, LoopsStay
<1>7. ASSUME NEW x \in Window, NEW n \in Node, CreateRun(x, n) PROVE CallsMatch'
  <2>1. calls' = calls /\ stack' = stack /\ n \notin alloc /\ w' = [w EXCEPT ![n] = x]
    BY <1>7 DEF CreateRun, CreateThread
  <2>2. \A m \in CalledBack : w'[m] = w[m]
    BY <1>0, <2>1, CalledAlive DEF IInv, TypeOK
  <2> QED
    BY <1>0, <1>1, <2>1, <2>2, CallsStay
<1>8. CASE DestroyDialog
  <2>1. calls' = calls /\ CloseDialog
    BY <1>8 DEF DestroyDialog
  <2> QED
    BY <1>0, <1>8, <2>1, CallsStay, LoopsStay, DestroyKeepsCalled
<1>9. CASE LoopTurn
  <2>1. calls' = calls /\ w' = w /\ (BeginEvents \/ EmptyRound)
    BY <1>9 DEF LoopTurn, BeginEvents, EmptyRound, operVars, nodeVars
  <2> QED
    BY <1>0, <2>1, CallsStay, LoopsStay
<1>10. CASE ThreadSignal
  <2> DEFINE p == Head(cmdQueue)
  <2>1. EventRound /\ p \in Node /\ w' = w
        /\ (w[p] = None => HandlersStay)
        /\ (w[p] # None => \E f : Handling(f) /\ Pushed(stack', stack, f)
                                  /\ f.win = w[p] /\ f.at = "signal")
    BY <1>10, RoundCalls DEF ThreadSignal
  <2>2. \/ w[p] = None /\ calls' = calls
        \/ w[p] # None /\ \E c \in {p, None} : calls' = Append(calls, c)
    BY <1>0, <1>10, SignalCalls, NoneAssumption
  <2>3. CASE w[p] = None
    BY <1>0, <2>1, <2>2, <2>3, CallsStay
  <2>4. CASE w[p] # None
    <3>1. PICK f : Handling(f) /\ Pushed(stack', stack, f) /\ f.win = w[p] /\ f.at = "signal"
      BY <2>1, <2>4
    <3>2. PICK c \in {p, None} : calls' = Append(calls, c)
      BY <2>2, <2>4
    <3> HIDE DEF p
    <3>3. c # Told /\ c \in Node \cup {None, Told} /\ (c \in Node => c = p)
      BY <1>0, <2>1, <3>2, NoneAssumption
    <3>4. c \in Node => f.win = w[c]
      BY <3>1, <3>3
    <3> QED
      BY <1>0, <2>1, <3>1, <3>2, <3>3, <3>4, CallsPush
  <2> QED
    BY <2>3, <2>4
<1>11. CASE ThreadStopped
  <2> DEFINE p == Head(cmdQueue)
  <2>1. StopRound /\ ~EventRound
    BY <1>11 DEF ThreadStopped, StopRound, EventRound
  <2>2. w' = w /\ (w[p] = None => HandlersStay)
        /\ (w[p] # None => \E f : Handling(f) /\ Pushed(stack', stack, f) /\ f.at = "stopped")
    BY <2>1, RoundCalls
  <2>3. \/ w[p] = None /\ calls' = calls
        \/ w[p] # None /\ \E c \in {Told, None} : calls' = Append(calls, c)
    BY <1>11 DEF ThreadStopped
  <2>4. CASE w[p] = None
    BY <1>0, <2>2, <2>3, <2>4, CallsStay
  <2>5. CASE w[p] # None
    <3>1. PICK f : Handling(f) /\ Pushed(stack', stack, f) /\ f.at = "stopped"
      BY <2>2, <2>5
    <3>2. PICK c \in {Told, None} : calls' = Append(calls, c)
      BY <2>3, <2>5
    <3>3. c \notin Node /\ c \in Node \cup {None, Told}
      BY <1>0, <3>2, NoneAssumption
    <3> QED
      BY <1>0, <2>2, <3>1, <3>2, <3>3, CallsPush
  <2> QED
    BY <2>4, <2>5
<1>12. CASE ThreadSignalReturn \/ ThreadStoppedReturn
  <2>1. calls' = Pop(calls, 1) /\ (SignalReturn \/ StoppedReturn)
    BY <1>12 DEF ThreadSignalReturn, ThreadStoppedReturn
  <2> QED
    BY <1>0, <2>1, ReturnCalls, CallsPop
<1> QED
  BY <1>3, <1>4, <1>5, <1>6, <1>7, <1>8, <1>9, <1>10, <1>11, <1>12 DEF OperNext, OperUI


\* What the queue and the slots of the other threads keep.
LEMMA WorkerQueue ==
    ASSUME IInv, NEW n \in Node, OperWorker(n)
    PROVE  /\ w' = w /\ thList' \subseteq thList
           /\ Queued' \subseteq Queued \cup thList
           /\ \A m \in Node : m # n =>
                 /\ m \in Queued' => m \in Queued
                 /\ cmd'[m] = cmd[m] /\ data'[m] = data[m]
<1>1. CASE UNCHANGED vars
  BY <1>1 DEF vars, Queued
<1>2. ASSUME NEW d, Signal(n, d)
      PROVE  /\ w' = w /\ thList' = thList /\ Queued' = Queued \cup {n} /\ n \in thList
             /\ \A m \in Node : m # n => cmd'[m] = cmd[m] /\ data'[m] = data[m]
  BY <1>2, EnqueueEffect DEF Signal, IInv, TypeOK
<1>3. CASE EndThread(n)
  <2>1. /\ w' = w /\ thList' = thList \ {n} /\ Queued' = Queued \cup {n} /\ n \in thList
        /\ \A m \in Node : m # n => cmd'[m] = cmd[m] /\ data'[m] = data[m]
    BY <1>3, EnqueueEffect DEF EndThread, IInv, TypeOK
  <2> QED
    BY <2>1
<1> QED
  BY <1>1, <1>2, <1>3, WorkerMoves

LEMMA UiQueue ==
    ASSUME IInv, OperUI, \A x \in Window, n \in Node : ~CreateRun(x, n)
    PROVE  /\ thList' = thList /\ data' = data
           /\ ~DestroyDialog => w' = w
           /\ Queued' \subseteq Queued
           /\ \A m \in Queued' : cmd'[m] = cmd[m]
<1>1. CASE UNCHANGED vars
  BY <1>1 DEF vars, Queued
<1>2. ASSUME NEW x \in Window, OpenDialog(x)
      PROVE  UNCHANGED <<thList, data, w, cmdQueue, cmd>>
  BY <1>2 DEF OpenDialog, nodeVars, queueVars
<1>3. CASE DestroyDialog /\ CloseDialog
  BY <1>3 DEF CloseDialog, queueVars, Queued
<1>4. CASE BeginEvents \/ EmptyRound \/ SignalReturn \/ StoppedReturn
  BY <1>4 DEF BeginEvents, EmptyRound, SignalReturn, StoppedReturn, nodeVars, queueVars, Queued
<1>5. CASE EventRound \/ StopRound
  <2> DEFINE p == Head(cmdQueue)
  <2>1. /\ thList' = thList /\ data' = data /\ w' = w /\ cmdQueue' = Tail(cmdQueue)
        /\ cmdQueue # <<>> /\ (cmd' = cmd \/ cmd' = [cmd EXCEPT ![p] = "NONE"])
    BY <1>5 DEF EventRound, StopRound
  <2>2. p \in Node /\ Queued' = Queued \ {p}
    BY <2>1, HeadFacts, DequeueEffect DEF IInv
  <2>3. \A m \in Queued' : m \in Node /\ m # p
    <3>1. Queued \subseteq Node
      BY DEF IInv, TypeOK, Queued
    <3> QED
      BY <2>2, <3>1
  <2> HIDE DEF p
  <2>4. \A m \in Queued' : cmd'[m] = cmd[m]
    BY <2>1, <2>2, <2>3 DEF IInv, TypeOK
  <2> QED
    BY <2>1, <2>2, <2>4
<1> QED
  BY <1>1, <1>2, <1>3, <1>4, <1>5, UiMoves DEF Queued

LEMMA OneRunStep ==
    ASSUME ~UseStopFlag, MainWin \notin Askers, IInv, OperInv, CallInv, OperNext
    PROVE  OneRun'
<1>0. /\ OperTypeOK /\ BoundBothWays /\ IdKept /\ UiShape /\ WorkerShape
      /\ CallsMatch /\ OneRun /\ CallsShape
  BY DEF CallInv, OperInv
<1>1. thList \cup Queued \subseteq Node
  BY DEF IInv, TypeOK, Queued
<1>2. \A x \in Window : tNode[x] # None => tNode[x] \in Node /\ tNode[x] \in alloc
  BY <1>0 DEF BoundBothWays, WorkerShape, OperTypeOK, IInv, NodeShape, InFunction
\* The runs, the windows and the messages are the same or fewer.
<1>3. ASSUME w' = w, thList' \subseteq thList, Queued' \subseteq Queued \cup thList,
             \A x \in Window : tNode'[x] # None => tNode'[x] = tNode[x],
             \A n \in Node : data'[n] = Call => data[n] = Call \/ w[n] # MainWin,
             \A n \in thList' \cup Queued' : w[n] \in Window \ {MainWin} =>
                threadId'[w[n]] = n \/ (ui'.op = "close" /\ ui'.win = w[n])
      PROVE  OneRun'
  BY <1>0, <1>3 DEF OneRun
<1>4. ASSUME NEW n \in Node, OperWorker(n) PROVE OneRun'
  <2>1. /\ w' = w /\ thList' \subseteq thList /\ Queued' \subseteq Queued \cup thList
        /\ \A m \in Node : m # n => data'[m] = data[m]
    BY <1>4, WorkerQueue
  <2>2. threadId' = threadId /\ ui' = ui
    BY <1>4 DEF OperWorker, Ask, LockData, UnlockData, LookBeforeAsking, EnterWait, SendSignal,
                CallBack, CallBackReturn, FuncReturn, WorkerEnd, winVars, operVars
  <2>3. \A x \in Window : tNode'[x] # None => tNode'[x] = tNode[x]
    <3>1. CASE FuncReturn(n)
      BY <1>0, <3>1, FuncReturnEffect
    <3>2. CASE ~FuncReturn(n)
      BY <1>4, <3>2 DEF OperWorker, Ask, LockData, UnlockData, LookBeforeAsking, EnterWait,
                        SendSignal, CallBack, CallBackReturn, WorkerEnd, winVars, operVars
    <3> QED
      BY <3>1, <3>2
  <2>4. data'[n] = Call => data[n] = Call \/ w[n] # MainWin
    <3>1. w[n] \in Askers \cup {None} \/ w[n] # MainWin \/ data' = data
      BY <1>4 DEF OperWorker, Ask, LockData, UnlockData, SendSignal, EnterWait,
                  CallBackReturn, FuncReturn, WorkerEnd, EndThread, vars
    <3> QED
      BY <3>1, MainAssumption, NoneAssumption
  <2> QED
    BY <1>0, <1>1, <1>3, <2>1, <2>2, <2>3, <2>4 DEF OneRun
<1>5. ASSUME NEW x \in Window, NEW n \in Node, CreateRun(x, n) PROVE OneRun'
  <2>1. /\ ui.op = "create" /\ ui.win = x /\ n \notin alloc /\ ui' = Idle
        /\ thList' = thList \cup {n} /\ cmdQueue' = cmdQueue
        /\ w' = [w EXCEPT ![n] = x] /\ data' = [data EXCEPT ![n] = None]
        /\ tNode' = [tNode EXCEPT ![x] = n] /\ threadId' = [threadId EXCEPT ![x] = n]
    BY <1>5 DEF CreateRun, CreateThread, queueVars
  <2>2. threadId[x] = None /\ Queued' = Queued /\ n \notin thList \cup Queued
    BY <1>0, <2>1 DEF UiShape, Queued, IInv, NodeShape
  <2>3. w' \in [Node -> Window \cup {None}] /\ data \in [Node -> Data \cup {None}]
    BY <2>1 DEF IInv, TypeOK
  <2>4. ASSUME NEW m \in thList \cup Queued, w'[m] \in Window \ {MainWin}
        PROVE  threadId'[w'[m]] = m
    <3>1. m \in Node /\ m # n /\ w'[m] = w[m]
      BY <1>1, <2>1, <2>2 DEF IInv, TypeOK
    <3>2. threadId[w[m]] = m /\ m # None
      BY <1>0, <2>1, <2>4, <3>1, NoneAssumption DEF OneRun
    <3> QED
      BY <1>0, <2>1, <2>2, <3>1, <3>2 DEF OperTypeOK
  <2>5. w'[n] = x /\ threadId'[x] = n
    BY <1>0, <2>1 DEF IInv, TypeOK, OperTypeOK
  <2>6. \A m \in Node : data'[m] = Call => w'[m] # MainWin
    BY <1>0, <2>1, <2>3, OperAssumption, NoneAssumption DEF OneRun, IInv, TypeOK
  <2>7. ASSUME NEW y \in Window, tNode'[y] # None PROVE w'[tNode'[y]] = y
    <3>1. CASE y = x
      BY <1>0, <2>1, <2>5, <3>1 DEF OperTypeOK
    <3>2. CASE y # x
      <4>1. tNode'[y] = tNode[y]
        BY <1>0, <2>1, <3>2 DEF OperTypeOK
      <4> QED
        BY <1>0, <1>2, <2>1, <2>7, <4>1 DEF OneRun, IInv, TypeOK
    <3> QED
      BY <3>1, <3>2
  <2> QED
    BY <2>1, <2>2, <2>4, <2>5, <2>6, <2>7 DEF OneRun
<1>6. CASE DestroyDialog
  <2>1. /\ ui.op = "close" /\ ui' = Idle /\ UNCHANGED <<tNode, threadId, thList, data, cmdQueue>>
    BY <1>6 DEF DestroyDialog, CloseDialog, winVars, queueVars
  <2>2. Queued' = Queued /\ tNode[ui.win] = None
    BY <1>0, <2>1 DEF Queued, UiShape
  <2>3. /\ \A n \in Node : w'[n] # None => w'[n] = w[n]
        /\ \A n \in thList \cup Queued : w'[n] # ui.win
        /\ \A n \in Node : w[n] # ui.win => w'[n] = w[n]
    BY <1>0, <1>6, DestroyKeepsCalled
  <2>4. ASSUME NEW n \in thList \cup Queued, w'[n] \in Window \ {MainWin}
        PROVE  threadId[w'[n]] = n
    <3>1. w'[n] = w[n] /\ w[n] # ui.win
      BY <1>1, <2>3, <2>4, NoneAssumption
    <3> QED
      BY <1>0, <2>4, <3>1 DEF OneRun
  <2>5. ASSUME NEW n \in Node, data[n] = Call PROVE w'[n] # MainWin
    BY <1>0, <2>3, <2>5, MainAssumption, NoneAssumption DEF OneRun
  <2>6. ASSUME NEW x \in Window, tNode[x] # None PROVE w'[tNode[x]] = x
    BY <1>0, <1>2, <2>2, <2>3, <2>6 DEF OneRun
  <2> QED
    BY <2>1, <2>2, <2>4, <2>5, <2>6 DEF OneRun
<1>7. ASSUME OperUI, ~DestroyDialog, \A x \in Window, n \in Node : ~CreateRun(x, n)
      PROVE  OneRun'
  <2>1. w' = w /\ thList' = thList /\ data' = data /\ Queued' \subseteq Queued
    BY <1>7, UiQueue
  <2>2. ASSUME NEW x \in Window, FinishStop(x) PROVE OneRun'
    <3>1. /\ ui.op = "stopping" /\ ui.win = x /\ ui' = [ui EXCEPT !.op = ui.then]
          /\ tNode' = [tNode EXCEPT ![x] = None] /\ threadId' = [threadId EXCEPT ![x] = None]
      BY <2>2 DEF FinishStop
    <3>2. ui'.op = ui.then /\ ui'.win = x /\ ui.then \in {"create", "close"}
      BY <1>0, <3>1 DEF OperTypeOK, UiStates, UiShape
    <3>3. ASSUME NEW n \in thList \cup Queued, w[n] \in Window \ {MainWin}
          PROVE  threadId'[w[n]] = n \/ (ui'.op = "close" /\ ui'.win = w[n])
      <4>1. threadId[w[n]] = n /\ n # None
        BY <1>0, <1>1, <3>1, <3>3, NoneAssumption DEF OneRun
      <4>2. CASE w[n] = x
        <5>1. ui.then = "close"
          BY <1>0, <3>1, <3>2, <3>3, <4>1, <4>2 DEF UiShape
        <5> QED
          BY <3>2, <4>2, <5>1
      <4>3. CASE w[n] # x
        BY <1>0, <3>1, <3>3, <4>1, <4>3 DEF OperTypeOK
      <4> QED
        BY <4>2, <4>3
    <3>4. \A y \in Window : tNode'[y] # None => tNode'[y] = tNode[y]
      BY <1>0, <3>1 DEF OperTypeOK
    <3> QED
      BY <1>3, <2>1, <3>3, <3>4
  <2>3. CASE ThreadStopped
    <3> DEFINE p == Head(cmdQueue)
    <3>1. /\ tNode' = tNode /\ ui' = ui /\ ui.op = "none"
          /\ \/ threadId' = threadId
             \/ w[p] # None /\ threadId[w[p]] = p /\ threadId' = [threadId EXCEPT ![w[p]] = None]
      BY <2>3 DEF ThreadStopped, UiIdle
    <3>2. StopRound /\ cmdQueue # <<>> /\ cmd[p] = "END" /\ cmdQueue' = Tail(cmdQueue)
      BY <2>3 DEF ThreadStopped, StopRound
    <3>3. p \in Queued /\ Queued' = Queued \ {p} /\ p \notin thList
      BY <3>2, DequeueEffect DEF IInv, QueueShape
    <3> HIDE DEF p
    <3>4. ASSUME NEW n \in thList \cup (Queued \ {p}), w[n] \in Window \ {MainWin}
          PROVE  threadId'[w[n]] = n
      <4>1. threadId[w[n]] = n /\ n # p
        BY <1>0, <3>1, <3>3, <3>4 DEF OneRun
      <4> QED
        BY <1>0, <3>1, <3>4, <4>1 DEF OperTypeOK
    <3> QED
      BY <1>3, <2>1, <3>1, <3>3, <3>4
  <2>4. ASSUME UNCHANGED <<tNode, threadId>>,
               ui.op = "close" => ui' = ui
        PROVE  OneRun'
    BY <1>0, <1>3, <2>1, <2>4 DEF OneRun
  <2>5. ASSUME NEW x \in Window, StartRun(x) \/ LeaveDialog(x) \/ OpenWindow(x) PROVE OneRun'
    BY <2>4, <2>5 DEF StartRun, LeaveDialog, OpenWindow, UiIdle, winVars, operVars
  <2>6. CASE CreateFails
    BY <2>4, <2>6 DEF CreateFails, winVars
  <2>7. CASE LoopTurn \/ ThreadSignal \/ ThreadSignalReturn \/ ThreadStoppedReturn
    BY <2>4, <2>7 DEF LoopTurn, ThreadSignal, ThreadSignalReturn, ThreadStoppedReturn, winVars, operVars
  <2>8. ASSUME NEW x \in Window, ReadFlagNode(x) PROVE FALSE
    BY <2>8 DEF ReadFlagNode
  <2>9. CASE SetStopFlag
    BY <2>4, <2>9 DEF SetStopFlag, winVars
  <2> QED
    BY <1>7, <2>2, <2>3, <2>5, <2>6, <2>7, <2>8, <2>9 DEF OperUI
<1> QED
  BY <1>4, <1>5, <1>6, <1>7 DEF OperNext


\* The same handlers are being executed.
LEMMA ShapeKept ==
    ASSUME OperTypeOK, CallsShape, calls' = calls, cbExecuted' = cbExecuted,
           \A n \in CalledBack : Asking(n)' /\ w'[n] = w[n],
           \A n \in Node : Pending(n)' => Asking(n)' /\ (Pending(n) \/ n \notin CalledBack),
           Unsignalled'
    PROVE  CallsShape'
<1>1. CalledBack' = CalledBack /\ CalledBack \subseteq Node
  BY DEF CalledBack
<1> QED
  BY <1>1 DEF CallsShape

\* Worker n goes on, and is not waiting for an answer before or after the step
\* unless it asks.
LEMMA ShapeWorkerStep ==
    ASSUME ~Spurious, IInv, OperInv, CallInv, NEW n \in Node, OperWorker(n)
    PROVE  CallsShape'
<1>0. /\ OperTypeOK /\ BoundBothWays /\ WorkerShape
      /\ CallsMatch /\ OneRun /\ CallsShape /\ Unsignalled
  BY DEF CallInv, OperInv, CallsShape
<1>1. /\ w' = w /\ \A m \in Node : m # n => /\ m \in Queued' => m \in Queued
                                            /\ cmd'[m] = cmd[m] /\ data'[m] = data[m]
  BY WorkerQueue
<1>2. calls' = calls /\ cbExecuted' = cbExecuted
  BY DEF OperWorker, Ask, LockData, UnlockData, LookBeforeAsking, EnterWait, SendSignal,
         CallBack, CallBackReturn, FuncReturn, WorkerEnd, winVars, operVars
<1>3. \A m \in Node : m # n => pc'[m] = pc[m]
  BY <1>0 DEF OperWorker, Ask, LockData, UnlockData, LookBeforeAsking, EnterWait, SendSignal,
         CallBack, CallBackReturn, FuncReturn, WorkerEnd, operVars, OperTypeOK
\* What is left is what the step does to n itself.
<1>4. ASSUME \A m \in Node : m # n => node'[m].cbFunc = node[m].cbFunc
                                      /\ node'[m].cond = node[m].cond,
             \A x \in Window : tNode'[x] # None => tNode'[x] = tNode[x],
             n \in CalledBack => Asking(n)',
             Pending(n)' => Asking(n)' /\ (Pending(n) \/ n \notin CalledBack),
             \A x \in Window : tNode'[x] = n /\ ~InCallBack(n)' => ~node'[n].cond
      PROVE  CallsShape'
  <2>1. \A m \in Node : m # n => (Asking(m)' <=> Asking(m))
    BY <1>3, <1>4 DEF Asking, InCallBack
  <2>2. \A m \in CalledBack : m \in Node /\ Asking(m)
    BY <1>0 DEF CallsShape, CalledBack
  <2>3. ASSUME NEW m \in Node, m # n, Pending(m)' PROVE Pending(m) /\ Asking(m)
    <3>1. Pending(m)
      BY <1>0, <1>1, <1>4, <2>3, NoneAssumption DEF Pending
    <3> QED
      BY <1>0, <3>1 DEF CallsShape
  <2>4. Unsignalled'
    <3>1. SUFFICES ASSUME NEW x \in Window, tNode'[x] # None, tNode'[x] # n,
                          pc'[tNode'[x]] \notin {"posted", "waiting"}
                   PROVE  ~node'[tNode'[x]].cond
      BY <1>4 DEF Unsignalled, InCallBack
    <3>2. tNode'[x] = tNode[x] /\ tNode[x] \in Node
      BY <1>0, <1>4, <3>1 DEF OperTypeOK
    <3>3. ~node[tNode[x]].cond
      BY <1>0, <1>3, <3>1, <3>2 DEF Unsignalled, InCallBack
    <3> QED
      BY <1>4, <3>1, <3>2, <3>3
  <2> QED
    BY <1>0, <1>1, <1>2, <1>4, <2>1, <2>2, <2>3, <2>4, ShapeKept
<1>5. CASE LockData(n) \/ UnlockData(n) \/ LookBeforeAsking(n) \/ SendSignal(n) \/ WorkerEnd(n)
  <2>1. UNCHANGED <<tNode, node>> /\ ~InCallBack(n)
    BY <1>5 DEF LockData, UnlockData, LookBeforeAsking, SendSignal, WorkerEnd, InCallBack,
                winVars, operVars
  <2>2. n \notin CalledBack /\ ~Pending(n)
    BY <1>0, <2>1 DEF CallsShape, Asking
  <2>3. ~Pending(n)'
    <3>1. CASE SendSignal(n)
      BY <3>1, OperAssumption DEF SendSignal, Signal, Pending, IInv, TypeOK
    <3>2. CASE WorkerEnd(n)
      BY <3>2 DEF WorkerEnd, EndThread, Pending, IInv, TypeOK
    <3>3. CASE LockData(n) \/ UnlockData(n) \/ LookBeforeAsking(n)
      <4>1. UNCHANGED <<vars, tNode>>
        BY <3>3 DEF LockData, UnlockData, LookBeforeAsking, winVars
      <4> QED
        BY <2>2, <4>1 DEF Pending, Queued, vars
    <3> QED
      BY <1>5, <3>1, <3>2, <3>3
  <2>4. \A x \in Window : tNode[x] = n => ~node[n].cond
    BY <1>0, <2>1, NoneAssumption DEF Unsignalled
  <2> QED
    BY <1>4, <2>1, <2>2, <2>3, <2>4
<1>6. CASE EnterWait(n)
  <2>1. UNCHANGED <<vars, tNode, node>> /\ InCallBack(n) /\ InCallBack(n)'
    BY <1>0, <1>6 DEF EnterWait, winVars, InCallBack, OperTypeOK
  <2>2. Asking(n)' <=> Asking(n)
    BY <2>1 DEF Asking
  <2>3. Pending(n)' <=> Pending(n)
    BY <2>1 DEF Pending, Queued, vars
  <2> QED
    BY <1>0, <1>4, <2>1, <2>2, <2>3 DEF CallsShape
<1>7. CASE CallBack(n)
  <2>1. /\ tNode' = tNode /\ ~InCallBack(n)
        /\ pc' = [pc EXCEPT ![n] = IF SignalResult(n) THEN "posted" ELSE "run"]
    BY <1>7 DEF CallBack, winVars, InCallBack
  <2>2. n \in thList
    BY <1>7 DEF CallBack, Signal
  <2>3. /\ node'[n].cbFunc /\ node'[n].cond = node[n].cond
        /\ \A m \in Node : m # n => node'[m] = node[m]
    BY <1>0, <1>7, CallBackEffect
  <2>4. w[n] # None => InCallBack(n)'
    BY <1>0, <2>1, <2>2 DEF SignalResult, InCallBack, OperTypeOK
  <2>5. n \notin CalledBack
    BY <1>0, <2>1 DEF CallsShape, Asking
  <2>6. ASSUME NEW x \in Window, tNode[x] = n PROVE ~node[n].cond /\ w[n] = x
    BY <1>0, <2>1, <2>6, NoneAssumption DEF Unsignalled, OneRun
  <2>7. ASSUME Pending(n)' PROVE Asking(n)'
    <3>1. w[n] \in Window /\ tNode[w[n]] = n
      BY <1>1, <2>1, <2>7 DEF Pending
    <3> QED
      BY <2>3, <2>4, <2>6, <3>1, NoneAssumption DEF Asking
  <2> QED
    BY <1>4, <2>1, <2>3, <2>4, <2>5, <2>6, <2>7, NoneAssumption
<1>8. CASE CallBackReturn(n)
  <2>1. UNCHANGED <<vars, tNode>> /\ node[n].cond
    BY <1>8 DEF CallBackReturn, winVars
  <2>2. n \notin CalledBack /\ ~Pending(n)
    BY <1>0, <2>1 DEF CallsShape, Asking
  <2>3. ~Pending(n)'
    BY <2>1, <2>2 DEF Pending, Queued, vars
  <2> QED
    BY <1>0, <1>4, <1>8, <2>1, <2>2, <2>3, CallBackReturnEffect
<1>9. CASE FuncReturn(n)
  <2>1. /\ node'[n] = NoNode
        /\ \A x \in Window : tNode'[x] = IF node[n].win = x THEN None ELSE tNode[x]
        /\ \A m \in Node : m # n => SameNode(node'[m], node[m])
    BY <1>0, <1>9, FuncReturnEffect
  <2>2. UNCHANGED vars /\ ~InCallBack(n)
    BY <1>9 DEF FuncReturn, InCallBack
  <2>3. n \notin CalledBack /\ ~Pending(n)
    BY <1>0, <2>2 DEF CallsShape, Asking
  <2>4. \A x \in Window : tNode'[x] # n
    BY <1>0, <2>1, NoneAssumption DEF BoundBothWays
  <2>5. ~Pending(n)'
    BY <1>1, <2>4 DEF Pending
  <2> QED
    BY <1>4, <2>1, <2>3, <2>4, <2>5 DEF SameNode
<1> QED
  BY <1>5, <1>6, <1>7, <1>8, <1>9 DEF OperWorker, Ask


\* calls after one more entry, and after one less.
LEMMA AppendCalled ==
    ASSUME OperTypeOK, NEW c \in Node \cup {None, Told}, calls' = Append(calls, c),
           c \notin CalledBack,
           \A i, j \in DOMAIN calls : calls[i] = calls[j] /\ calls[i] \in Node => i = j
    PROVE  /\ CalledBack' = CalledBack \cup ({c} \cap Node)
           /\ \A i, j \in DOMAIN calls' : calls'[i] = calls'[j] /\ calls'[i] \in Node => i = j
<1>1. /\ Len(calls) \in Nat /\ DOMAIN calls = 1..Len(calls)
      /\ Len(calls') = Len(calls) + 1 /\ DOMAIN calls' = 1..(Len(calls) + 1)
      /\ calls'[Len(calls) + 1] = c /\ \A i \in 1..Len(calls) : calls'[i] = calls[i]
  BY DEF OperTypeOK
<1>2. CalledBack' = {calls'[i] : i \in 1..(Len(calls) + 1)} \cap Node
  BY <1>1 DEF CalledBack
<1>3. CalledBack' = CalledBack \cup ({c} \cap Node)
  <2>1. ASSUME NEW x \in CalledBack' PROVE x \in CalledBack \cup ({c} \cap Node)
    BY <1>1, <1>2, <2>1 DEF CalledBack
  <2>2. ASSUME NEW x \in CalledBack PROVE x \in CalledBack'
    <3>1. PICK i \in 1..Len(calls) : x = calls[i] /\ x \in Node
      BY DEF CalledBack
    <3>2. i \in 1..(Len(calls) + 1) /\ calls'[i] = x
      BY <1>1, <3>1
    <3> QED
      BY <1>2, <3>1, <3>2
  <2>3. Len(calls) + 1 \in 1..(Len(calls) + 1)
    BY <1>1
  <2> QED
    BY <1>1, <1>2, <2>1, <2>2, <2>3
<1>4. ASSUME NEW i \in DOMAIN calls', NEW j \in DOMAIN calls',
             calls'[i] = calls'[j], calls'[i] \in Node
      PROVE  i = j
  <2>1. \A k \in 1..Len(calls) : calls[k] \in Node => calls[k] # c
    BY DEF CalledBack
  <2> QED
    BY <1>1, <1>4, <2>1
<1> QED
  BY <1>3, <1>4

LEMMA PopCalled ==
    ASSUME OperTypeOK, calls # <<>>, calls' = Pop(calls, 1),
           \A i, j \in DOMAIN calls : calls[i] = calls[j] /\ calls[i] \in Node => i = j
    PROVE  /\ CalledBack' = CalledBack \ {calls[Len(calls)]}
           /\ \A i, j \in DOMAIN calls' : calls'[i] = calls'[j] /\ calls'[i] \in Node => i = j
<1> DEFINE k == Len(calls) - 1
<1>1. /\ Len(calls) \in Nat /\ 1 <= Len(calls) /\ k \in Nat /\ DOMAIN calls = 1..Len(calls)
      /\ Len(calls') = k /\ DOMAIN calls' = 1..k
      /\ \A i \in 1..k : calls'[i] = calls[i] /\ i \in 1..Len(calls) /\ i # Len(calls)
      /\ \A i \in 1..Len(calls) : i # Len(calls) => i \in 1..k
  BY PopCalls DEF OperTypeOK
<1>2. CalledBack' = {calls'[i] : i \in 1..k} \cap Node
  BY <1>1 DEF CalledBack
<1> HIDE DEF k
<1>3. ASSUME NEW x \in CalledBack' PROVE x \in CalledBack \ {calls[Len(calls)]}
  <2>1. PICK i \in 1..k : x = calls[i] /\ x \in Node
    <3>1. x \in {calls'[i] : i \in 1..k} /\ x \in Node
      BY <1>2, <1>3
    <3> QED
      BY <1>1, <3>1
  <2>2. Len(calls) \in DOMAIN calls /\ i \in DOMAIN calls /\ i # Len(calls)
    <3>1. i \in 1..Len(calls) /\ i # Len(calls)
      BY <1>1, <2>1
    <3>2. Len(calls) \in 1..Len(calls)
      BY DEF OperTypeOK
    <3> QED
      BY <1>1, <3>1, <3>2
  <2>3. calls[i] # calls[Len(calls)]
    BY <2>1, <2>2
  <2>4. x \in CalledBack
    BY <1>1, <2>1, <2>2 DEF CalledBack
  <2> QED
    BY <2>1, <2>3, <2>4
<1>4. ASSUME NEW x \in CalledBack \ {calls[Len(calls)]} PROVE x \in CalledBack'
  BY <1>1, <1>2 DEF CalledBack
<1>5. CalledBack' = CalledBack \ {calls[Len(calls)]}
  BY <1>3, <1>4
<1>6. \A i, j \in DOMAIN calls' : calls'[i] = calls'[j] /\ calls'[i] \in Node => i = j
  BY <1>1
<1> QED
  BY <1>5, <1>6

LEMMA ShapeUiStep ==
    ASSUME IInv, OperInv, CallInv, OperUI, ui.op # "flag"
    PROVE  CallsShape' /\ fault' = {}
<1>0. /\ OperTypeOK /\ BoundBothWays /\ WorkerShape /\ IdKept /\ UiShape /\ ~MayThrow
      /\ CallsMatch /\ OneRun /\ CallsShape /\ Unsignalled /\ fault = {}
      /\ Told \notin Node \cup {None}
  BY OperAssumption, ToldAssumption DEF CallInv, OperInv, CallsShape
<1>1. /\ \A n \in CalledBack : n \in Node /\ Asking(n)
      /\ \A n \in Node : Pending(n) => Asking(n) /\ n \notin CalledBack
  BY <1>0 DEF CallsShape, CalledBack
\* The workers, their nodes and the bonds of the windows are the same.
<1>2. ASSUME UNCHANGED <<tNode, node, pc>>
      PROVE  /\ Unsignalled' /\ \A n \in Node : Asking(n)' <=> Asking(n)
  BY <1>0, <1>2 DEF Unsignalled, Asking, InCallBack
<1>3. ASSUME UNCHANGED <<tNode, thList, data>>, Queued' \subseteq Queued,
             \A n \in Node : w'[n] # None => w'[n] = w[n], \A m \in Queued' : cmd'[m] = cmd[m]
      PROVE  \A n \in Node : Pending(n)' => Pending(n)
  BY <1>3, NoneAssumption DEF Pending
<1>4. ASSUME UNCHANGED <<tNode, node, pc, calls, cbExecuted, thList, data, fault>>,
             Queued' \subseteq Queued, \A m \in Queued' : cmd'[m] = cmd[m],
             \A n \in Node : w'[n] # None => w'[n] = w[n],
             \A n \in CalledBack : w'[n] = w[n]
      PROVE  CallsShape' /\ fault' = {}
  BY <1>0, <1>1, <1>2, <1>3, <1>4, ShapeKept
<1>5. ASSUME NEW x \in Window, NEW n \in Node, CreateRun(x, n) PROVE CallsShape' /\ fault' = {}
  <2>1. /\ UNCHANGED <<calls, cbExecuted, fault>> /\ cmdQueue' = cmdQueue /\ n \notin alloc
        /\ w' = [w EXCEPT ![n] = x] /\ data' = [data EXCEPT ![n] = None]
        /\ cmd' = [cmd EXCEPT ![n] = "NONE"] /\ tNode' = [tNode EXCEPT ![x] = n]
        /\ node' = [node EXCEPT ![n] = NewNode(x)] /\ pc' = [pc EXCEPT ![n] = "run"]
    BY <1>5 DEF CreateRun, CreateThread, queueVars
  <2>2. n \notin CalledBack /\ n \notin Queued /\ Queued' = Queued
    BY <1>0, <2>1, CalledAlive DEF Queued, IInv, NodeShape
  <2>3. /\ \A m \in Node : m # n => /\ w'[m] = w[m] /\ data'[m] = data[m] /\ cmd'[m] = cmd[m]
                                   /\ node'[m] = node[m] /\ pc'[m] = pc[m]
        /\ tNode'[x] = n /\ \A y \in Window : y # x => tNode'[y] = tNode[y]
        /\ node'[n] = NewNode(x)
    BY <1>0, <2>1 DEF IInv, TypeOK, OperTypeOK
  <2>4. \A m \in Node : m # n => (Asking(m)' <=> Asking(m))
    BY <2>3 DEF Asking, InCallBack
  <2>5. ASSUME NEW m \in Node, Pending(m)' PROVE Pending(m) /\ m # n
    <3>1. m # n
      BY <2>2, <2>5 DEF Pending
    <3>2. w[m] # x
      BY <2>3, <2>5, <3>1 DEF Pending
    <3> QED
      BY <2>2, <2>3, <2>5, <3>1, <3>2 DEF Pending
  <2>6. Unsignalled'
    <3>1. ASSUME NEW y \in Window, y # x, tNode[y] # None PROVE tNode[y] \in Node /\ tNode[y] # n
      BY <1>0, <2>1, <3>1 DEF BoundBothWays, WorkerShape, OperTypeOK, IInv, NodeShape, InFunction
    <3>2. ASSUME NEW y \in Window, tNode'[y] # None, pc'[tNode'[y]] \notin {"posted", "waiting"}
          PROVE  ~node'[tNode'[y]].cond
      BY <1>0, <2>3, <3>1, <3>2, NewNodeType DEF Unsignalled, InCallBack
    <3> QED
      BY <3>2 DEF Unsignalled, InCallBack
  <2> QED
    BY <1>0, <1>1, <2>1, <2>2, <2>3, <2>4, <2>5, <2>6, ShapeKept
<1>6. ASSUME NEW x \in Window, FinishStop(x) PROVE CallsShape' /\ fault' = {}
  <2>1. /\ UNCHANGED vars /\ UNCHANGED <<calls, cbExecuted, pc, fault>>
        /\ tNode' = [tNode EXCEPT ![x] = None] /\ ui.op = "stopping" /\ ui.win = x
    BY <1>6 DEF FinishStop
  <2>2. CASE tNode[x] = None
    <3>1. node' = node /\ tNode' = tNode
      BY <1>0, <1>6, <2>1, <2>2 DEF FinishStop, OperTypeOK
    <3> QED
      BY <1>4, <2>1, <3>1 DEF vars, Queued
  <2>3. CASE tNode[x] # None
    <3> DEFINE n == tNode[x]
    <3>1. n \in Node /\ w[n] = x /\ node' = Unbind(x, n)
      BY <1>0, <1>6, <2>3 DEF FinishStop, OperTypeOK, OneRun
    <3>2. n \notin CalledBack
      <4>1. CASE x = MainWin
        BY <1>0, <3>1, <4>1 DEF CallsShape
      <4>2. CASE x # MainWin
        <5>1. Top.at = "loop" /\ Top.win = x
          BY <1>0, <2>1, <2>3, <4>2 DEF UiShape, IdKept
        <5> QED
          BY <1>0, <3>1, <5>1, LoopNotCalled
      <4> QED
        BY <4>1, <4>2
    <3>3. \A m \in Node : m # n => SameNode(node'[m], node[m])
      BY <1>0, <3>1, UnbindEffect
    <3>4. tNode'[x] = None /\ \A y \in Window : y # x => tNode'[y] = tNode[y]
      BY <1>0, <2>1 DEF OperTypeOK
    <3> HIDE DEF n
    <3>5. \A m \in Node : m # n => (Asking(m)' <=> Asking(m))
      BY <2>1, <3>3 DEF Asking, InCallBack, SameNode
    <3>6. ASSUME NEW m \in Node, Pending(m)' PROVE Pending(m) /\ m # n
      <4>1. w[m] # x
        BY <2>1, <3>4, <3>6, NoneAssumption DEF Pending, vars
      <4>2. Queued' = Queued
        BY <2>1 DEF vars, Queued
      <4> QED
        BY <2>1, <3>1, <3>4, <3>6, <4>1, <4>2 DEF Pending, vars
    <3>7. Unsignalled'
      <4>1. ASSUME NEW y \in Window, tNode'[y] # None, pc'[tNode'[y]] \notin {"posted", "waiting"}
            PROVE  ~node'[tNode'[y]].cond
        <5>1. y # x /\ tNode'[y] = tNode[y] /\ tNode[y] \in Node
          BY <1>0, <3>4, <4>1 DEF OperTypeOK
        <5>2. tNode[y] # n
          BY <1>0, <3>1, <4>1, <5>1 DEF OneRun
        <5> QED
          BY <1>0, <2>1, <3>3, <4>1, <5>1, <5>2 DEF Unsignalled, InCallBack, SameNode
      <4> QED
        BY <4>1 DEF Unsignalled, InCallBack
    <3>8. w' = w
      BY <2>1 DEF vars
    <3> QED
      BY <1>0, <1>1, <2>1, <3>2, <3>5, <3>6, <3>7, <3>8, ShapeKept
  <2> QED
    BY <2>2, <2>3
<1>7. CASE DestroyDialog
  <2>1. UNCHANGED <<tNode, node, pc, calls, cbExecuted, thList, data, fault, cmd, cmdQueue>>
    BY <1>7 DEF DestroyDialog, CloseDialog, winVars, runVars, queueVars
  <2> QED
    BY <1>0, <1>4, <1>7, <2>1, DestroyKeepsCalled DEF Queued
<1>8. ASSUME OperUI, ~DestroyDialog, \A x \in Window, n \in Node : ~CreateRun(x, n),
             UNCHANGED <<tNode, node, pc, calls, cbExecuted, fault>>
      PROVE  CallsShape' /\ fault' = {}
  <2>1. w' = w /\ thList' = thList /\ data' = data /\ Queued' \subseteq Queued
        /\ \A m \in Queued' : cmd'[m] = cmd[m]
    BY <1>8, UiQueue
  <2> QED
    BY <1>4, <1>8, <2>1
<1>9. ASSUME NEW x \in Window, StartRun(x) \/ LeaveDialog(x) \/ OpenWindow(x) \/ ReadFlagNode(x)
      PROVE  UNCHANGED <<tNode, node, pc, calls, cbExecuted, fault>>
  BY <1>9 DEF StartRun, LeaveDialog, OpenWindow, ReadFlagNode, winVars, runVars, operVars
<1>10. CreateFails \/ LoopTurn => UNCHANGED <<tNode, node, pc, calls, cbExecuted, fault>>
  BY DEF CreateFails, LoopTurn, winVars, runVars, operVars
<1>11. ~SetStopFlag
  BY DEF SetStopFlag
<1>12. ASSUME OperUI, ~DestroyDialog, \A x \in Window, n \in Node : ~CreateRun(x, n),
              UNCHANGED <<tNode, node, pc>>
       PROVE  /\ w' = w /\ Unsignalled' /\ \A n \in Node : Asking(n)' <=> Asking(n)
              /\ \A n \in Node : Pending(n)' => Pending(n)
  BY <1>2, <1>3, <1>12, UiQueue
<1>13. CASE ThreadSignal
  <2> DEFINE p == Head(cmdQueue)
             x == w[p]
  <2>1. /\ p \in Node /\ Queued' = Queued \ {p}
        /\ \/ UNCHANGED <<calls, cbExecuted, fault>>
           \/ /\ x \in Window \ {MainWin} /\ Asking(p) /\ p \notin CalledBack
              /\ calls' = Append(calls, p)
              /\ cbExecuted' = [cbExecuted EXCEPT ![x] = TRUE] /\ fault' = fault
           \/ calls' = Append(calls, None) /\ UNCHANGED <<cbExecuted, fault>>
    BY <1>0, <1>13, SignalCalls
  <2>2. UNCHANGED <<tNode, node, pc>> /\ OperUI /\ ~DestroyDialog
        /\ \A y \in Window, n \in Node : ~CreateRun(y, n)
    BY <1>13 DEF ThreadSignal, UiIdle, DestroyDialog, CreateRun, runVars
  <2>3. /\ w' = w /\ Unsignalled' /\ \A n \in Node : Asking(n)' <=> Asking(n)
        /\ \A n \in Node : Pending(n)' => Pending(n) /\ n # p
    BY <1>12, <2>1, <2>2 DEF Pending
  <2> HIDE DEF p, x
  <2>4. CASE UNCHANGED <<calls, cbExecuted, fault>>
    BY <1>8, <2>2, <2>4
  <2>5. CASE calls' = Append(calls, None) /\ UNCHANGED <<cbExecuted, fault>>
    <3>1. CalledBack' = CalledBack
          /\ \A i, j \in DOMAIN calls' : calls'[i] = calls'[j] /\ calls'[i] \in Node => i = j
      <4>1. None \in Node \cup {None, Told} /\ None \notin CalledBack /\ {None} \cap Node = {}
        BY <1>1, NoneAssumption
      <4>2. \A i, j \in DOMAIN calls : calls[i] = calls[j] /\ calls[i] \in Node => i = j
        BY <1>0 DEF CallsShape
      <4> QED
        BY <1>0, <2>5, <4>1, <4>2, AppendCalled
    <3> QED
      BY <1>0, <1>1, <2>3, <2>5, <3>1 DEF CallsShape
  <2>6. CASE /\ x \in Window \ {MainWin} /\ Asking(p) /\ p \notin CalledBack
             /\ calls' = Append(calls, p)
             /\ cbExecuted' = [cbExecuted EXCEPT ![x] = TRUE] /\ fault' = fault
    <3>1. CalledBack' = CalledBack \cup {p}
          /\ \A i, j \in DOMAIN calls' : calls'[i] = calls'[j] /\ calls'[i] \in Node => i = j
      BY <1>0, <2>1, <2>6, AppendCalled DEF CallsShape
    <3>2. w[p] = x
      BY DEF x
    <3>3. /\ cbExecuted'[x] /\ \A y \in Window : cbExecuted[y] => cbExecuted'[y]
          /\ \A y \in Window : cbExecuted'[y] => y = x \/ cbExecuted[y]
      BY <1>0, <2>6 DEF OperTypeOK
    <3>4. \A n \in Node : Pending(n)' => Asking(n)' /\ n \notin CalledBack'
      BY <1>1, <2>3, <3>1
    <3>5. \A n \in CalledBack' : Asking(n)' /\ w'[n] \in Window \ {MainWin} /\ cbExecuted'[w'[n]]
      BY <1>0, <1>1, <2>1, <2>3, <2>6, <3>1, <3>2, <3>3 DEF CallsShape
    <3>6. \A y \in Window : cbExecuted'[y] => \E n \in CalledBack' : w'[n] = y
      BY <1>0, <2>3, <3>1, <3>2, <3>3 DEF CallsShape
    <3> QED
      BY <1>0, <2>3, <2>6, <3>1, <3>4, <3>5, <3>6 DEF CallsShape
  <2> QED
    BY <2>1, <2>4, <2>5, <2>6
<1>14. CASE ThreadStopped \/ ThreadStoppedReturn
  <2>1. UNCHANGED <<tNode, node, pc, cbExecuted, fault>> /\ OperUI /\ ~DestroyDialog
        /\ \A y \in Window, n \in Node : ~CreateRun(y, n)
    BY <1>14 DEF ThreadStopped, ThreadStoppedReturn, UiIdle, DestroyDialog, CreateRun, runVars, winVars
  <2>2. /\ w' = w /\ Unsignalled' /\ \A n \in Node : Asking(n)' <=> Asking(n)
        /\ \A n \in Node : Pending(n)' => Pending(n)
    BY <1>12, <2>1
  <2>3. /\ CalledBack' = CalledBack
        /\ \A i, j \in DOMAIN calls' : calls'[i] = calls'[j] /\ calls'[i] \in Node => i = j
    <3>1. CASE ThreadStopped
      <4>1. calls' = calls \/ \E c \in {Told, None} : calls' = Append(calls, c)
        BY <3>1 DEF ThreadStopped
      <4>2. CASE calls' = calls
        BY <1>0, <4>2 DEF CallsShape, CalledBack
      <4>3. ASSUME NEW c \in {Told, None}, calls' = Append(calls, c)
            PROVE  /\ CalledBack' = CalledBack
                   /\ \A i, j \in DOMAIN calls' :
                         calls'[i] = calls'[j] /\ calls'[i] \in Node => i = j
        <5>1. c \in Node \cup {None, Told} /\ {c} \cap Node = {} /\ c \notin CalledBack
          BY <1>0, <1>1, <4>3, NoneAssumption
        <5>2. \A i, j \in DOMAIN calls : calls[i] = calls[j] /\ calls[i] \in Node => i = j
          BY <1>0 DEF CallsShape
        <5> QED
          BY <1>0, <4>3, <5>1, <5>2, AppendCalled
      <4> QED
        BY <4>1, <4>2, <4>3
    <3>2. CASE ThreadStoppedReturn
      <4>1. calls' = Pop(calls, 1) /\ Top.at = "stopped"
        BY <3>2 DEF ThreadStoppedReturn, StoppedReturn
      <4>2. calls # <<>> /\ calls[Len(calls)] \notin Node
        BY <1>0, <4>1, TopCall DEF Handling
      <4>3. \A i, j \in DOMAIN calls : calls[i] = calls[j] /\ calls[i] \in Node => i = j
        BY <1>0 DEF CallsShape
      <4>4. CalledBack \ {calls[Len(calls)]} = CalledBack
        BY <1>1, <4>2
      <4> QED
        BY <1>0, <4>1, <4>2, <4>3, <4>4, PopCalled
    <3> QED
      BY <1>14, <3>1, <3>2
  <2> QED
    BY <1>0, <1>1, <2>1, <2>2, <2>3 DEF CallsShape
<1>15. CASE ThreadSignalReturn
  <2> DEFINE run == calls[Len(calls)]
  <2>1. /\ Top.at = "signal" /\ ui.op = "none" /\ calls' = Pop(calls, 1)
        /\ UNCHANGED <<tNode, pc>> /\ OperUI /\ ~DestroyDialog
        /\ \A y \in Window, n \in Node : ~CreateRun(y, n)
    BY <1>15 DEF ThreadSignalReturn, SignalReturn, UiIdle, DestroyDialog, CreateRun
  <2>2. /\ calls # <<>> /\ run \in Node \cup {None} /\ Len(calls) \in DOMAIN calls
        /\ run \in Node => w[run] = Top.win
    BY <1>0, <2>1, TopCall DEF Handling
  <2>3. run \in Node => run \in CalledBack
    BY <1>0, <2>2 DEF CalledBack, OperTypeOK
  <2>4. run \in Node => run \in opAlive /\ run \in thList /\ Asking(run) /\ w[run] \in Window \ {MainWin}
    BY <1>0, <2>3, CalledAlive
  <2>5. /\ CalledBack' = CalledBack \ {run}
        /\ \A i, j \in DOMAIN calls' : calls'[i] = calls'[j] /\ calls'[i] \in Node => i = j
    BY <1>0, <2>1, <2>2, PopCalled DEF CallsShape
  <2>6. w' = w /\ thList' = thList /\ data' = data /\ Queued' \subseteq Queued
        /\ \A m \in Queued' : cmd'[m] = cmd[m]
    BY <2>1, UiQueue
  <2>7. \A n \in Node : Pending(n)' => Pending(n)
    BY <1>3, <2>1, <2>6
  <2>8. \A m \in Node : m # run => node'[m] = node[m]
    BY <1>0, <1>15, AnswerEffect
  <2>9. fault' = {} /\ cbExecuted' = IF run = None THEN cbExecuted
                                     ELSE [cbExecuted EXCEPT ![Top.win] = FALSE]
    BY <1>0, <1>15, <2>2, <2>4 DEF ThreadSignalReturn, Occurs
  <2> HIDE DEF run
  <2>10. \A m \in Node : m # run => (Asking(m)' <=> Asking(m))
    BY <2>1, <2>8 DEF Asking, InCallBack
  <2>11. Unsignalled'
    <3>1. ASSUME NEW y \in Window, tNode[y] # None, pc[tNode[y]] \notin {"posted", "waiting"}
          PROVE  ~node'[tNode[y]].cond
      <4>1. tNode[y] \in Node /\ tNode[y] # run
        BY <1>0, <2>4, <3>1 DEF OperTypeOK, Asking, InCallBack
      <4> QED
        BY <1>0, <2>8, <3>1, <4>1 DEF Unsignalled, InCallBack
    <3> QED
      BY <2>1, <3>1 DEF Unsignalled, InCallBack
  <2>12. ASSUME NEW n \in CalledBack, n # run, run \in Node PROVE w[n] # Top.win
    BY <1>0, <2>1, <2>2, <2>4, <2>12, CalledAlive, OneAsks
  <2>13. ASSUME NEW n \in CalledBack, n # run
         PROVE  Asking(n)' /\ w[n] \in Window \ {MainWin} /\ cbExecuted'[w[n]]
    <3>1. n \in Node /\ Asking(n)' /\ w[n] \in Window \ {MainWin} /\ cbExecuted[w[n]]
      BY <1>0, <1>1, <2>10, <2>13 DEF CallsShape
    <3> QED
      BY <1>0, <2>2, <2>9, <2>12, <2>13, <3>1 DEF OperTypeOK
  <2>14. ASSUME NEW n \in Node, Pending(n)' PROVE Asking(n)' /\ n \notin CalledBack'
    BY <1>1, <2>3, <2>5, <2>7, <2>10, <2>14
  <2>15. ASSUME NEW y \in Window, cbExecuted'[y] PROVE \E n \in CalledBack' : w[n] = y
    <3>1. cbExecuted[y] /\ (run # None => y # Top.win)
      BY <1>0, <2>2, <2>4, <2>9, <2>15 DEF OperTypeOK
    <3>2. PICK n \in CalledBack : w[n] = y
      BY <1>0, <3>1 DEF CallsShape
    <3>3. n # run
      BY <1>1, <2>2, <3>1, <3>2, NoneAssumption
    <3> QED
      BY <2>5, <3>2, <3>3
  <2> QED
    BY <2>5, <2>6, <2>9, <2>11, <2>13, <2>14, <2>15 DEF CallsShape
<1> QED
  BY <1>5, <1>6, <1>7, <1>8, <1>9, <1>10, <1>11, <1>13, <1>14, <1>15 DEF OperUI

LEMMA CallInvariance ==
    ASSUME MainWin \notin Askers, ~UseStopFlag, ~Spurious
    PROVE  OperSpec => []CallInv
<1>1. OperInit => CallInv
  <2> SUFFICES ASSUME OperInit PROVE CallInv
    OBVIOUS
  <2>1. calls = <<>> /\ CalledBack = {} /\ fault = {} /\ thList = {} /\ Queued = {}
    BY DEF OperInit, Init, CalledBack, Queued
  <2>2. stack = <<Frame("loop", MainWin, None)>> /\ FrameIds = {1} /\ ~Handling(stack[1])
    BY DEF OperInit, Init, FrameIds, Handling, Frame
  <2>3. CallsMatch
    <3>1. <<>> \in [{} -> FrameIds] /\ DOMAIN calls = {}
      BY <2>1
    <3>2. CallsAt(<<>>)
      BY <2>1, <2>2, <3>1 DEF CallsAt
    <3> QED
      BY <3>1, <3>2 DEF CallsMatch
  <2>4. OneRun
    BY <2>1, OperAssumption, NoneAssumption DEF OneRun, OperInit, Init
  <2>5. CallsShape
    BY <2>1 DEF CallsShape, Unsignalled, Pending, OperInit
  <2> QED
    BY <2>1, <2>3, <2>4, <2>5 DEF CallInv
<1>2. ASSUME IInv, OperInv, StopListInv, CallInv, OperNext PROVE CallInv'
  <2>1. CallsMatch' /\ OneRun'
    BY <1>2, CallsMatchStep, OneRunStep
  <2>2. CallsShape' /\ fault' = {}
    <3>1. CASE OperUI
      BY <1>2, <3>1, ShapeUiStep DEF StopListInv
    <3>2. ASSUME NEW n \in Node, OperWorker(n) PROVE CallsShape' /\ fault' = {}
      <4>1. fault' = fault
        BY <3>2 DEF OperWorker, Ask, LockData, UnlockData, LookBeforeAsking, EnterWait, SendSignal,
               CallBack, CallBackReturn, FuncReturn, WorkerEnd, operVars
      <4> QED
        BY <1>2, <3>2, <4>1, ShapeWorkerStep DEF CallInv
    <3> QED
      BY <1>2, <3>1, <3>2 DEF OperNext
  <2> QED
    BY <2>1, <2>2 DEF CallInv
<1>3. ASSUME CallInv, UNCHANGED allVars PROVE CallInv'
  <2>1. UNCHANGED vars /\ UNCHANGED operVars
    BY <1>3 DEF allVars
  <2> QED
    BY <1>3, <2>1 DEF CallInv, CallsMatch, CallsAt, OneRun, CallsShape, Unsignalled, Pending, Asking,
           InCallBack, CalledBack, Queued, FrameIds, vars, operVars
<1> QED
  BY <1>1, <1>2, <1>3, OperInvariance, WinInvariance, StopListInvariance, PTL DEF OperSpec

\* Whatever dialogs a callback shows in its turn, it is executed for a worker
\* that is in CallBack, whose cbData and node exist; no window executes two, and
\* no dialog that executes one is destroyed; neither the assertion nor the use of
\* a deleted node or of a null function that ThreadSignal is exposed to occurs.
\* Supposed are that panels do not ask, that nothing but StopThread stops a run,
\* and that Cond.Wait returns when it is signalled only.
THEOREM CallsBackTheWaiting ==
    ASSUME MainWin \notin Askers, ~UseStopFlag, ~Spurious
    PROVE  OperSpec => []CallbackCurrent
<1>1. ASSUME IInv, OperInv, CallInv PROVE CallbackCurrent
  <2>1. CallsMatch /\ CallsShape /\ fault = {} /\ OperTypeOK /\ UiShape
    BY <1>1 DEF CallInv, OperInv
  <2>2. \A n \in CalledBack : n \in opAlive /\ pc[n] \in {"posted", "waiting"}
    BY <1>1, <2>1, CalledAlive DEF Asking, InCallBack
  <2>3. ASSUME ui.op = "close" PROVE ~cbExecuted[ui.win]
    <3>1. Top.at = "loop" /\ Top.win = ui.win /\ ui.win \in Window
      BY <2>1, <2>3 DEF UiShape
    <3>2. \A n \in CalledBack : w[n] # ui.win
      BY <1>1, <2>1, <3>1, LoopNotCalled
    <3> QED
      BY <2>1, <3>1, <3>2 DEF CallsShape
  <2> QED
    BY <2>1, <2>2, <2>3 DEF CallbackCurrent
<1> QED
  BY <1>1, CallInvariance, OperInvariance, WinInvariance, PTL

=============================================================================
