---------------------------- MODULE DialogProofs ----------------------------
(***************************************************************************)
(* Theorems on the modal dialogs.  First on the objects that a dialog      *)
(* shares with its thread (Handoff), for any sets of threads and windows.  *)
(* Then on the window tree (WinTree), for any set of dialogs: of what is   *)
(* on the screen, just the windows of the innermost dialog are open.       *)
(***************************************************************************)
EXTENDS Handoff, WinTree, SequenceTheorems, FiniteSetTheorems, WellFoundedInduction,
        NaturalsInduction, TLAPS

Held(t) == \E x \in Shown : dlg[x].data = t

\* A window's DoModal runs once.
Distinct == \A i, j \in 1..Len(modal) : modal[i] = modal[j] => i = j

\* The thread of t is the one ThreadMail knows, and its end is its last mail.
Mailed ==
    \A t \in Thread :
        /\ life[t] = "running" <=> pc[t] # "none"
        /\ life[t] = "ended" <=> box[t] = "STOP"
        /\ life[t] = "joined" => ui.op = "told" /\ ui.p = t

\* No two dialogs have the same object, and a thread's window is the dialog
\* that has the thread's object, unless it is just giving it up.
Owned ==
    /\ \A x, y \in Shown : dlg[x].data = dlg[y].data /\ dlg[x].data # None => x = y
    /\ \A t \in Thread :
          owner[t] # None =>
              /\ owner[t] \in Shown
              /\ \/ dlg[owner[t]].data = t
                 \/ ui.op \in {"delete", "drop"} /\ ui.win = owner[t]

\* What the two flags say of an object, wherever its thread is.
Flags ==
    /\ \A t \in Thread : Held(t) => t \in alloc /\ t \notin winClosed
    /\ \A t \in alloc :
          \/ t \in winClosed
          \/ Held(t)
          \/ ui.op = "delete" /\ ui.p = t
    /\ \A t \in Thread :
          /\ pc[t] = "search" => t \in alloc /\ t \notin threadStopped
          /\ pc[t] = "posted" => t \in threadStopped /\ Held(t)
          /\ pc[t] = "delete" => t \in alloc /\ t \in winClosed /\ t \notin threadStopped
          /\ pc[t] \in {"ended", "none"} /\ t \in alloc =>
                t \in threadStopped /\ t \notin winClosed

\* A dialog ended by its thread has the results.
Ended ==
    \A x \in Shown :
        dlg[x].end /\ dlg[x].data # None =>
            dlg[x].data \in threadStopped /\ pc[dlg[x].data] = "none"

\* What the user-interface thread is in the middle of.
Doing ==
    /\ ui.op = "told" => ui.p \in Thread /\ life[ui.p] = "joined"
    /\ ui.op \in {"result", "close", "delete", "drop"} => modal # <<>> /\ ui.win = Top
    /\ ui.op \in {"result", "close"} => ui.p = dlg[ui.win].data
    /\ ui.op = "result" => dlg[ui.win].end
    /\ ui.op = "close" => ui.p # None
    /\ ui.op = "delete" =>
          /\ ui.p \in alloc /\ ui.p \in threadStopped /\ ui.p \notin winClosed
          /\ ~Held(ui.p) /\ pc[ui.p] \in {"ended", "none"}
    /\ ui.op = "idle" => ui = Idle
    /\ ui.op \in {"delete", "drop"} => dlg[ui.win].data = None

IInv ==
    TypeOK /\ Distinct /\ Mailed /\ Owned /\ Flags /\ Ended /\ Doing /\ heapOK

-----------------------------------------------------------------------------
(* The stack of modal windows.                                             *)

\* A window shown above the others is shown once.
LEMMA Pushed ==
    ASSUME modal \in Seq(Window), Distinct,
           NEW x \in Window, x \notin Shown, modal' = Append(modal, x)
    PROVE  modal' \in Seq(Window) /\ Distinct' /\ Shown' = Shown \cup {x}
<1>1. modal' \in Seq(Window) /\ Len(modal') = Len(modal) + 1
  OBVIOUS
<1>2. Len(modal) \in Nat
  OBVIOUS
<1>3. \A i \in 1..Len(modal) : modal'[i] = modal[i] /\ modal[i] # x
  BY DEF Shown
<1>4. modal'[Len(modal) + 1] = x
  OBVIOUS
<1>5. \A i \in 1..Len(modal') : i \in 1..Len(modal) \/ i = Len(modal) + 1
  BY <1>1, <1>2
<1>6. Distinct'
  BY <1>2, <1>3, <1>4, <1>5 DEF Distinct
<1>7. Shown' = Shown \cup {x}
  <2>1. Shown' = {modal'[i] : i \in 1..Len(modal')}
    BY DEF Shown
  <2>2. 1..Len(modal') = (1..Len(modal)) \cup {Len(modal) + 1}
    BY <1>1, <1>2
  <2> QED
    BY <1>3, <1>4, <2>1, <2>2 DEF Shown
<1> QED
  BY <1>1, <1>6, <1>7

LEMMA FirstOnes ==
    ASSUME NEW S, NEW s \in Seq(S), s # <<>>
    PROVE  /\ SubSeq(s, 1, Len(s) - 1) \in Seq(S)
           /\ Len(SubSeq(s, 1, Len(s) - 1)) = Len(s) - 1
           /\ \A i \in 1..(Len(s) - 1) : SubSeq(s, 1, Len(s) - 1)[i] = s[i]
<1>1. Len(s) - 1 \in Nat
  OBVIOUS
<1>2. SubSeq(s, 1, Len(s) - 1) = [i \in 1..(Len(s) - 1) |-> s[i]]
  BY <1>1
<1>3. \A i \in 1..(Len(s) - 1) : s[i] \in S
  BY <1>1
<1>4. [i \in 1..(Len(s) - 1) |-> s[i]] \in Seq(S)
  BY <1>1, <1>3
<1>5. Len([i \in 1..(Len(s) - 1) |-> s[i]]) = Len(s) - 1
  BY <1>1
<1> QED
  BY <1>2, <1>4, <1>5

\* When the innermost DoModal has returned, the others are shown.
LEMMA Popped ==
    ASSUME modal \in Seq(Window), modal # <<>>, Distinct,
           modal' = SubSeq(modal, 1, Len(modal) - 1)
    PROVE  modal' \in Seq(Window) /\ Distinct' /\ Shown' = Shown \ {Top}
<1>1. Len(modal) \in Nat /\ Len(modal) > 0
  OBVIOUS
<1>3. /\ modal' \in Seq(Window) /\ Len(modal') = Len(modal) - 1
      /\ \A i \in 1..Len(modal') : modal'[i] = modal[i]
  BY FirstOnes
<1>4. 1..Len(modal) = (1..Len(modal')) \cup {Len(modal)}
  BY <1>1, <1>3
<1>5. \A i \in 1..Len(modal') : i # Len(modal) /\ i \in 1..Len(modal)
  BY <1>1, <1>3
<1>6. Distinct'
  BY <1>3, <1>5 DEF Distinct
<1>7. \A i \in 1..Len(modal') : modal[i] # Top
  BY <1>1, <1>5 DEF Distinct, Top
<1>8. Shown' = {modal[i] : i \in 1..Len(modal')}
  BY <1>3 DEF Shown
<1>9. Shown = {modal[i] : i \in 1..Len(modal')} \cup {Top}
  BY <1>4 DEF Shown, Top
<1> QED
  BY <1>3, <1>6, <1>7, <1>8, <1>9

\* The innermost window is shown.
LEMMA TopShown ==
    ASSUME modal \in Seq(Window), modal # <<>>
    PROVE  Top \in Shown /\ Top \in Window
<1>1. Len(modal) \in 1..Len(modal)
  OBVIOUS
<1> QED
  BY <1>1 DEF Top, Shown

-----------------------------------------------------------------------------
(* Each action preserves the invariant.                                    *)

LEMMA InitIInv == Init => IInv
<1> SUFFICES ASSUME Init PROVE IInv
  OBVIOUS
<1>1. modal \in Seq(Window) /\ Len(modal) = 0 /\ Shown = {}
  BY DEF Init, Shown
<1>2. TypeOK
  BY <1>1, NoneAssumption
     DEF Init, TypeOK, Mail!Init, Mail!TypeOK, Data, NewDialog, At, Idle
<1>3. Distinct /\ Ended
  BY <1>1 DEF Distinct, Ended
<1>4. Mailed /\ Owned /\ Flags /\ Doing /\ heapOK
  BY <1>1, NoneAssumption
     DEF Init, Mail!Init, Mailed, Owned, Flags, Doing, Held, At, Idle
<1> QED
  BY <1>2, <1>3, <1>4 DEF IInv

LEMMA LeaveDataKeeps ==
    ASSUME IInv, NEW t \in Thread, LeaveData(t)
    PROVE  IInv'
<1> USE NoneAssumption DEF LeaveData, IInv
<1>1. TypeOK'
  BY DEF TypeOK, mail, Mail!Post, Mail!TypeOK, Data, Idle
<1>2. Distinct' /\ Shown' = Shown
  BY DEF Distinct, Shown
<1>3. Mailed'
  BY DEF TypeOK, Mailed, Mail!TypeOK, mail, Mail!Post, Data, Idle
<1>4. Owned'
  BY <1>2
     DEF TypeOK, Owned, Mail!TypeOK, Mailed, Doing, mail, Mail!Post, Data, Idle
<1>5. Flags'
  BY <1>2
     DEF TypeOK, Flags, Held, Mail!TypeOK, Mailed, Doing, mail, Mail!Post,
         Data, Idle
<1>6. Ended'
  BY <1>2
     DEF TypeOK, Ended, Flags, Held, Mail!TypeOK, Mailed, Owned, mail,
         Mail!Post, Data, Idle
<1>7. Doing' /\ heapOK'
  BY <1>2
     DEF TypeOK, Doing, Flags, Held, Mail!TypeOK, Mailed, Owned, Ended, Top,
         mail, Mail!Post, Data, Idle
<1> QED
  BY <1>1, <1>2, <1>3, <1>4, <1>5, <1>6, <1>7

LEMMA UnlockDataKeeps ==
    ASSUME IInv, NEW t \in Thread, UnlockData(t)
    PROVE  IInv'
<1> USE NoneAssumption DEF UnlockData, IInv
<1>1. TypeOK'
  BY DEF TypeOK, mail, Mail!TypeOK, Data, Idle
<1>2. Distinct' /\ Shown' = Shown
  BY DEF Distinct, Shown
<1>3. Mailed'
  BY DEF TypeOK, Mailed, Mail!TypeOK, mail, Data, Idle
<1>4. Owned'
  BY <1>2 DEF TypeOK, Owned, Mail!TypeOK, Mailed, Doing, mail, Data, Idle
<1>5. Flags'
  BY <1>2 DEF TypeOK, Flags, Held, Mail!TypeOK, Mailed, Doing, mail, Data, Idle
<1>6. Ended'
  BY <1>2
     DEF TypeOK, Ended, Flags, Held, Mail!TypeOK, Mailed, Owned, mail, Data,
         Idle
<1>7. Doing' /\ heapOK'
  BY <1>2
     DEF TypeOK, Doing, Flags, Held, Mail!TypeOK, Mailed, Owned, Ended, Top,
         mail, Data, Idle
<1> QED
  BY <1>1, <1>2, <1>3, <1>4, <1>5, <1>6, <1>7

LEMMA DeleteDataKeeps ==
    ASSUME IInv, NEW t \in Thread, DeleteData(t)
    PROVE  IInv'
<1> USE NoneAssumption DEF DeleteData, IInv
<1>1. TypeOK'
  BY DEF TypeOK, mail, Delete, Mail!TypeOK, Data, Idle
<1>2. Distinct' /\ Shown' = Shown
  BY DEF Distinct, Shown
<1>3. Mailed'
  BY DEF TypeOK, Mailed, Mail!TypeOK, mail, Delete, Data, Idle
<1>4. Owned'
  BY <1>2
     DEF TypeOK, Owned, Mail!TypeOK, Mailed, Doing, mail, Delete, Data, Idle
<1>5. Flags'
  BY <1>2
     DEF TypeOK, Flags, Held, Mail!TypeOK, Mailed, Doing, mail, Delete, Data,
         Idle
<1>6. Ended'
  BY <1>2
     DEF TypeOK, Ended, Flags, Held, Mail!TypeOK, Mailed, Owned, mail, Delete,
         Data, Idle
<1>7. Doing' /\ heapOK'
  BY <1>2
     DEF TypeOK, Doing, Flags, Held, Mail!TypeOK, Mailed, Owned, Ended, Top,
         mail, Delete, Data, Idle
<1> QED
  BY <1>1, <1>2, <1>3, <1>4, <1>5, <1>6, <1>7

LEMMA ThreadEndKeeps ==
    ASSUME IInv, NEW t \in Thread, ThreadEnd(t)
    PROVE  IInv'
<1> USE NoneAssumption DEF ThreadEnd, IInv
<1>1. TypeOK'
  BY DEF TypeOK, Mail!Finish, Mail!TypeOK, Data, Idle
<1>2. Distinct' /\ Shown' = Shown
  BY DEF Distinct, Shown
<1>3. Mailed'
  BY DEF TypeOK, Mailed, Mail!TypeOK, Mail!Finish, Data, Idle
<1>4. Owned'
  BY <1>2
     DEF TypeOK, Owned, Mail!TypeOK, Mailed, Doing, Mail!Finish, Data, Idle
<1>5. Flags'
  BY <1>2
     DEF TypeOK, Flags, Held, Mail!TypeOK, Mailed, Doing, Mail!Finish, Data,
         Idle
<1>6. Ended'
  BY <1>2
     DEF TypeOK, Ended, Flags, Held, Mail!TypeOK, Mailed, Owned, Mail!Finish,
         Data, Idle
<1>7. Doing' /\ heapOK'
  BY <1>2
     DEF TypeOK, Doing, Flags, Held, Mail!TypeOK, Mailed, Owned, Ended, Top,
         Mail!Finish, Data, Idle
<1> QED
  BY <1>1, <1>2, <1>3, <1>4, <1>5, <1>6, <1>7

LEMMA ThreadSignalKeeps ==
    ASSUME IInv, NEW t \in Thread, ThreadSignal(t)
    PROVE  IInv'
<1> USE NoneAssumption DEF ThreadSignal, IInv
<1>1. TypeOK'
  BY DEF TypeOK, Mail!Take, Mail!TypeOK, Data, Idle, At
<1>2. Distinct' /\ Shown' = Shown
  BY DEF Distinct, Shown
<1>3. Mailed'
  BY DEF TypeOK, Mailed, Mail!TypeOK, Mail!Take, Data, Idle, At
<1>4. Owned'
  BY <1>2
     DEF TypeOK, Owned, Mail!TypeOK, Mailed, Doing, Mail!Take, Data, Idle, At
<1>5. Flags'
  BY <1>2
     DEF TypeOK, Flags, Held, Mail!TypeOK, Mailed, Doing, Mail!Take, Data,
         Idle, At
<1>6. Ended'
  BY <1>2
     DEF TypeOK, Ended, Flags, Held, Mail!TypeOK, Mailed, Owned, Mail!Take,
         Data, Idle, At
<1>7. Doing' /\ heapOK'
  BY <1>2
     DEF TypeOK, Doing, Flags, Held, Mail!TypeOK, Mailed, Owned, Ended, Top,
         Mail!Take, Data, Idle, At
<1> QED
  BY <1>1, <1>2, <1>3, <1>4, <1>5, <1>6, <1>7

LEMMA ThreadStoppedKeeps ==
    ASSUME IInv, NEW t \in Thread, ThreadStopped(t)
    PROVE  IInv'
<1> USE NoneAssumption DEF ThreadStopped, IInv
<1>1. TypeOK'
  BY DEF TypeOK, Mail!TakeStop, Mail!TypeOK, Data, At, Idle, EndModal
<1>2. Distinct' /\ Shown' = Shown
  BY DEF Distinct, Shown
<1>3. Mailed'
  BY DEF TypeOK, Mailed, Mail!TypeOK, Mail!TakeStop, Data, At, Idle, EndModal
<1>4. Owned'
  BY <1>2
     DEF TypeOK, Owned, Mail!TypeOK, Mailed, Doing, Mail!TakeStop, Data, At,
         Idle, EndModal
<1>5. Flags'
  BY <1>2
     DEF TypeOK, Flags, Held, Mail!TypeOK, Mailed, Doing, Mail!TakeStop, Data,
         At, Idle, EndModal
<1>6. Ended'
  BY <1>2
     DEF TypeOK, Ended, Flags, Held, Mail!TypeOK, Mailed, Owned, Mail!TakeStop,
         Data, At, Idle, EndModal
<1>7. Doing' /\ heapOK'
  BY <1>2
     DEF TypeOK, Doing, Flags, Held, Mail!TypeOK, Mailed, Owned, Ended, Top,
         Mail!TakeStop, Data, At, Idle, EndModal
<1> QED
  BY <1>1, <1>2, <1>3, <1>4, <1>5, <1>6, <1>7

LEMMA HandlerReturnKeeps ==
    ASSUME IInv, HandlerReturn
    PROVE  IInv'
<1> USE NoneAssumption DEF HandlerReturn, IInv
<1>1. TypeOK'
  BY DEF TypeOK, Mail!Forget, Mail!TypeOK, Data, Idle, At
<1>2. Distinct' /\ Shown' = Shown
  BY DEF Distinct, Shown
<1>3. Mailed'
  BY DEF TypeOK, Mailed, Mail!TypeOK, Mail!Forget, Data, Idle, At
<1>4. Owned'
  BY <1>2
     DEF TypeOK, Owned, Mail!TypeOK, Mailed, Doing, Mail!Forget, Data, Idle, At
<1>5. Flags'
  BY <1>2
     DEF TypeOK, Flags, Held, Mail!TypeOK, Mailed, Doing, Mail!Forget, Data,
         Idle, At
<1>6. Ended'
  BY <1>2
     DEF TypeOK, Ended, Flags, Held, Mail!TypeOK, Mailed, Owned, Mail!Forget,
         Data, Idle, At
<1>7. Doing' /\ heapOK'
  BY <1>2
     DEF TypeOK, Doing, Flags, Held, Mail!TypeOK, Mailed, Owned, Ended, Top,
         Mail!Forget, Data, Idle, At
<1> QED
  BY <1>1, <1>2, <1>3, <1>4, <1>5, <1>6, <1>7

LEMMA ReadResultKeeps ==
    ASSUME IInv, ReadResult
    PROVE  IInv'
<1> USE NoneAssumption DEF ReadResult, IInv
<1>0. Top \in Shown /\ Top \in Window
  BY TopShown DEF TypeOK
<1>1. TypeOK'
  BY <1>0 DEF TypeOK, mail, Mail!TypeOK, Data, At, Idle
<1>2. Distinct' /\ Shown' = Shown
  BY DEF Distinct, Shown
<1>3. Mailed'
  BY <1>0 DEF TypeOK, Mailed, Mail!TypeOK, mail, Data, At, Idle
<1>4. Owned'
  BY <1>0, <1>2
     DEF TypeOK, Owned, Mail!TypeOK, Mailed, Doing, mail, Data, At, Idle
<1>5. Flags'
  BY <1>0, <1>2
     DEF TypeOK, Flags, Held, Mail!TypeOK, Mailed, Doing, mail, Data, At, Idle
<1>6. Ended'
  BY <1>0, <1>2
     DEF TypeOK, Ended, Flags, Held, Mail!TypeOK, Mailed, Owned, mail, Data,
         At, Idle
<1>7. Doing' /\ heapOK'
  BY <1>0, <1>2
     DEF TypeOK, Doing, Flags, Held, Mail!TypeOK, Mailed, Owned, Ended, Top,
         mail, Data, At, Idle
<1> QED
  BY <1>1, <1>2, <1>3, <1>4, <1>5, <1>6, <1>7

LEMMA CloseReadKeeps ==
    ASSUME IInv, CloseRead
    PROVE  IInv'
<1> USE NoneAssumption DEF CloseRead, IInv
<1>1. TypeOK'
  BY DEF TypeOK, mail, Mail!TypeOK, Data, At, Idle, Leave
<1>2. Distinct' /\ Shown' = Shown
  BY DEF Distinct, Shown
<1>3. Mailed'
  BY DEF TypeOK, Mailed, Mail!TypeOK, mail, Data, At, Idle, Leave
<1>4. Owned'
  BY <1>2
     DEF TypeOK, Owned, Mail!TypeOK, Mailed, Doing, mail, Data, At, Idle, Leave
<1>5. Flags'
  BY <1>2
     DEF TypeOK, Flags, Held, Mail!TypeOK, Mailed, Doing, mail, Data, At, Idle,
         Leave
<1>6. Ended'
  BY <1>2
     DEF TypeOK, Ended, Flags, Held, Mail!TypeOK, Mailed, Owned, mail, Data,
         At, Idle, Leave
<1>7. Doing' /\ heapOK'
  BY <1>2
     DEF TypeOK, Doing, Flags, Held, Mail!TypeOK, Mailed, Owned, Ended, Top,
         mail, Data, At, Idle, Leave
<1> QED
  BY <1>1, <1>2, <1>3, <1>4, <1>5, <1>6, <1>7

LEMMA CancelKeeps ==
    ASSUME IInv, Cancel
    PROVE  IInv'
<1> USE NoneAssumption DEF Cancel, IInv
<1>0. Top \in Shown /\ Top \in Window
  BY TopShown DEF TypeOK
<1>1. TypeOK'
  BY <1>0 DEF TypeOK, mail, Mail!TypeOK, Data, At, Idle, Leave
<1>2. Distinct' /\ Shown' = Shown
  BY DEF Distinct, Shown
<1>3. Mailed'
  BY <1>0 DEF TypeOK, Mailed, Mail!TypeOK, mail, Data, At, Idle, Leave
<1>4. Owned'
  BY <1>0, <1>2
     DEF TypeOK, Owned, Mail!TypeOK, Mailed, Doing, mail, Data, At, Idle, Leave
<1>5. Flags'
  BY <1>0, <1>2
     DEF TypeOK, Flags, Held, Mail!TypeOK, Mailed, Doing, mail, Data, At, Idle,
         Leave
<1>6. Ended'
  BY <1>0, <1>2
     DEF TypeOK, Ended, Flags, Held, Mail!TypeOK, Mailed, Owned, mail, Data,
         At, Idle, Leave
<1>7. Doing' /\ heapOK'
  BY <1>0, <1>2
     DEF TypeOK, Doing, Flags, Held, Mail!TypeOK, Mailed, Owned, Ended, Top,
         mail, Data, At, Idle, Leave
<1> QED
  BY <1>1, <1>2, <1>3, <1>4, <1>5, <1>6, <1>7

LEMMA CloseDataKeeps ==
    ASSUME IInv, CloseData
    PROVE  IInv'
<1> USE NoneAssumption DEF CloseData, IInv
<1>0. /\ modal # <<>> /\ ui.win = Top /\ ui.win \in Shown /\ ui.win \in Window
      /\ ui.p \in Thread /\ ui.p = dlg[ui.win].data
  BY TopShown DEF TypeOK, Doing
<1>1. TypeOK'
  BY <1>0 DEF TypeOK, mail, Mail!TypeOK, Data, At, Idle
<1>2. Distinct' /\ Shown' = Shown
  BY DEF Distinct, Shown
<1>3. Mailed'
  BY <1>0 DEF TypeOK, Mailed, Mail!TypeOK, mail, Data, At, Idle
<1>4. Owned'
  BY <1>0, <1>2
     DEF TypeOK, Owned, Mail!TypeOK, Mailed, Doing, mail, Data, At, Idle
<1>5. Flags'
  <2> PICK p \in Thread : p = ui.p
    BY <1>0
  <2>1. ~Held(p)'
    <3>1. \A x \in Shown : x # ui.win => dlg[x].data # p
      BY <1>0, NoneAssumption DEF Owned
    <3>2. \A x \in Shown : x # ui.win => dlg'[x].data = dlg[x].data
      BY <1>0 DEF TypeOK
    <3>3. dlg'[ui.win].data = None
      BY <1>0 DEF TypeOK
    <3> QED
      BY <1>0, <1>2, <3>1, <3>2, <3>3, NoneAssumption DEF Held
  <2>2. \A t \in Thread \ {p} : Held(t)' = Held(t)
    BY <1>0, <1>2 DEF Held, TypeOK
  <2>3. Held(p) /\ p \in alloc /\ p \notin winClosed /\ pc[p] \in {"search", "ended", "none"}
    BY <1>0 DEF Held, Flags, TypeOK
  <2>4. CASE p \in threadStopped
    <3>1. winClosed' = winClosed /\ ui'.op = "delete" /\ ui'.p = p
      BY <2>4 DEF At
    <3>2. pc[p] \in {"ended", "none"}
      BY <2>3, <2>4, <1>0 DEF Flags
    <3> QED
      BY <1>0, <2>1, <2>2, <2>3, <3>1, <3>2 DEF TypeOK, Flags
  <2>5. CASE p \notin threadStopped
    <3>1. winClosed' = winClosed \cup {p}
      BY <2>5
    <3>2. pc[p] = "search"
      BY <2>3, <2>5, <1>0 DEF Flags
    <3> QED
      BY <1>0, <2>1, <2>2, <2>3, <3>1, <3>2 DEF TypeOK, Flags
  <2> QED
    BY <2>4, <2>5
<1>6. Ended'
  BY <1>0, <1>2
     DEF TypeOK, Ended, Flags, Held, Mail!TypeOK, Mailed, Owned, mail, Data,
         At, Idle
<1>7. Doing' /\ heapOK'
  BY <1>0, <1>2
     DEF TypeOK, Doing, Flags, Held, Mail!TypeOK, Mailed, Owned, Ended, Top,
         mail, Data, At, Idle
<1> QED
  BY <1>1, <1>2, <1>3, <1>4, <1>5, <1>6, <1>7

LEMMA CloseDeleteKeeps ==
    ASSUME IInv, CloseDelete
    PROVE  IInv'
<1> USE NoneAssumption DEF CloseDelete, IInv
<1>1. TypeOK'
  BY DEF TypeOK, mail, Delete, Mail!TypeOK, Data, At, Idle
<1>2. Distinct' /\ Shown' = Shown
  BY DEF Distinct, Shown
<1>3. Mailed'
  BY DEF TypeOK, Mailed, Mail!TypeOK, mail, Delete, Data, At, Idle
<1>4. Owned'
  BY <1>2
     DEF TypeOK, Owned, Mail!TypeOK, Mailed, Doing, mail, Delete, Data, At,
         Idle
<1>5. Flags'
  BY <1>2
     DEF TypeOK, Flags, Held, Mail!TypeOK, Mailed, Doing, mail, Delete, Data,
         At, Idle
<1>6. Ended'
  BY <1>2
     DEF TypeOK, Ended, Flags, Held, Mail!TypeOK, Mailed, Owned, mail, Delete,
         Data, At, Idle
<1>7. Doing' /\ heapOK'
  BY <1>2
     DEF TypeOK, Doing, Flags, Held, Mail!TypeOK, Mailed, Owned, Ended, Top,
         mail, Delete, Data, At, Idle
<1> QED
  BY <1>1, <1>2, <1>3, <1>4, <1>5, <1>6, <1>7

LEMMA OpenBoxKeeps ==
    ASSUME IInv, NEW x \in Window, OpenBox(x)
    PROVE  IInv'
<1> USE NoneAssumption DEF OpenBox, IInv
<1>1. modal' \in Seq(Window) /\ Distinct' /\ Shown' = Shown \cup {x}
  BY Pushed DEF TypeOK
<1>2. TypeOK'
  BY <1>1 DEF TypeOK, mail, Mail!TypeOK, NewDialog
<1>3. Mailed'
  BY DEF TypeOK, Mailed, mail
<1>4. \A t \in Thread : Held(t)' = Held(t)
  BY <1>1 DEF Held, TypeOK, NewDialog
<1>5. Owned'
  BY <1>1 DEF TypeOK, Owned, Mail!TypeOK, mail, NewDialog, At, Idle
<1>6. Flags'
  BY <1>4 DEF TypeOK, Flags, mail, At, Idle
<1>7. Ended'
  BY <1>1 DEF TypeOK, Ended, NewDialog
<1>8. Doing' /\ heapOK'
  BY DEF Doing, At, Idle
<1> QED
  BY <1>1, <1>2, <1>3, <1>5, <1>6, <1>7, <1>8

LEMMA OpenDialogKeeps ==
    ASSUME IInv, NEW x \in Window, NEW t \in Thread, OpenDialog(x, t)
    PROVE  IInv'
<1> USE NoneAssumption DEF OpenDialog, Mail!Create, IInv
<1>1. modal' \in Seq(Window) /\ Distinct' /\ Shown' = Shown \cup {x}
  BY Pushed DEF TypeOK
<1>2. TypeOK'
  BY <1>1 DEF TypeOK, Mail!TypeOK, NewDialog
<1>3. Mailed'
  BY DEF TypeOK, Mail!TypeOK, Mailed
<1>4. ~Held(t)
  BY DEF Flags
<1>5. Held(t)' /\ \A u \in Thread \ {t} : Held(u)' = Held(u)
  BY <1>1 DEF Held, TypeOK, NewDialog
<1>6. Owned'
  BY <1>1, <1>4 DEF TypeOK, Owned, Held, Mail!TypeOK, NewDialog, At, Idle
<1>7. Flags'
  BY <1>5 DEF TypeOK, Flags, Mailed, Mail!TypeOK, At, Idle
<1>8. Ended'
  BY <1>1, <1>4 DEF TypeOK, Ended, Held, NewDialog
<1>9. Doing' /\ heapOK'
  BY DEF Doing, At, Idle
<1> QED
  BY <1>1, <1>2, <1>3, <1>6, <1>7, <1>8, <1>9

LEMMA DropWindowKeeps ==
    ASSUME IInv, DropWindow
    PROVE  IInv'
<1> USE NoneAssumption DEF DropWindow, Mail!Destroy, IInv
<1>1. modal # <<>> /\ ui.win = Top /\ dlg[ui.win].data = None /\ ui.win \in Window
  BY TopShown DEF Doing, TypeOK
<1>2. modal' \in Seq(Window) /\ Distinct' /\ Shown' = Shown \ {ui.win}
  BY <1>1, Popped DEF TypeOK
<1>3. TypeOK'
  BY <1>2 DEF TypeOK, Mail!TypeOK, At, Idle
<1>4. Mailed'
  BY DEF TypeOK, Mail!TypeOK, Mailed, At, Idle
<1>5. \A t \in Thread : Held(t)' = Held(t)
  BY <1>1, <1>2 DEF Held
<1>6. Owned'
  BY <1>1, <1>2 DEF TypeOK, Owned, Mail!TypeOK, At, Idle
<1>7. Flags'
  BY <1>5 DEF TypeOK, Flags, At, Idle
<1>8. Ended'
  BY <1>2 DEF Ended
<1>9. Doing' /\ heapOK'
  BY DEF Doing, At, Idle
<1> QED
  BY <1>2, <1>3, <1>4, <1>6, <1>7, <1>8, <1>9

-----------------------------------------------------------------------------
(* The theorems.                                                           *)

LEMMA NextIInv == IInv /\ [Next]_vars => IInv'
<1> SUFFICES ASSUME IInv, [Next]_vars PROVE IInv'
  OBVIOUS
<1>1. CASE UNCHANGED vars
  BY <1>1 DEF vars, IInv, TypeOK, Mail!TypeOK, Distinct, Mailed, Owned, Flags,
              Ended, Doing, Held, Shown, Top
<1>2. ASSUME NEW t \in Thread, Searcher(t) PROVE IInv'
  BY <1>2, LeaveDataKeeps, UnlockDataKeeps, DeleteDataKeeps, ThreadEndKeeps
     DEF Searcher
<1>3. ASSUME NEW t \in Thread, Events(t) PROVE IInv'
  BY <1>3, ThreadSignalKeeps, ThreadStoppedKeeps DEF Events
<1>4. ASSUME NEW x \in Window, OpenBox(x) PROVE IInv'
  BY <1>4, OpenBoxKeeps
<1>5. ASSUME NEW x \in Window, NEW t \in Thread, OpenDialog(x, t) PROVE IInv'
  BY <1>5, OpenDialogKeeps
<1>6. CASE ReadResult \/ Cancel
  BY <1>6, ReadResultKeeps, CancelKeeps
<1>7. CASE Program
  BY <1>7, HandlerReturnKeeps, CloseReadKeeps, CloseDataKeeps, CloseDeleteKeeps,
     DropWindowKeeps DEF Program
<1> QED
  BY <1>1, <1>2, <1>3, <1>4, <1>5, <1>6, <1>7 DEF Next

LEMMA Inductive == Spec => []IInv
<1> QED
  BY InitIInv, NextIInv, PTL DEF Spec

\* Type correctness.
THEOREM TypeCorrect == Spec => []TypeOK
<1>1. IInv => TypeOK
  BY DEF IInv
<1> QED
  BY <1>1, Inductive, PTL

\* Neither the thread nor the dialog uses an object the other has deleted: the
\* flags are read and written under the object's mutex, and the one that finds
\* the other's flag set is the only one left.
THEOREM DataIsAlive == Spec => []DataAlive
<1>1. IInv => DataAlive
  BY NoneAssumption DEF IInv, TypeOK, DataAlive, Flags, Doing, Held, Top, Shown
<1> QED
  BY <1>1, Inductive, PTL

\* No object is deleted twice and none is forgotten by both.
THEOREM DeletedByOne == Spec => []DeletedOnce
<1>1. IInv => DeletedOnce
  BY DEF IInv, TypeOK, DeletedOnce, Flags, Held
<1> QED
  BY <1>1, Inductive, PTL

\* Whatever the user, the search and the loops do, the object exists exactly as
\* long as somebody uses it, deletes it, or will look at it.
THEOREM OwnedToTheEnd == Spec => []DataOwned
  BY DataIsAlive, DeletedByOne, PTL DEF DataOwned

\* A dialog that was ended by its thread reads the results of a thread that
\* has gone, although it does not lock the mutex.
THEOREM ResultIsReady == Spec => []ResultReady
<1>1. IInv => ResultReady
  BY TopShown DEF IInv, TypeOK, ResultReady, Ended, Doing
<1> QED
  BY <1>1, Inductive, PTL

-----------------------------------------------------------------------------
(* The window tree.  What is repeated, first.                              *)

LEMMA UpTo ==
    ASSUME NEW n \in Nat, NEW K, 0 \in K, \A k \in 1..n : k - 1 \in K => k \in K
    PROVE  \A k \in 0..n : k \in K
<1> DEFINE wrong == {k \in 0..n : k \notin K}
<1> SUFFICES ASSUME wrong # {}
             PROVE  FALSE
  OBVIOUS
<1> DEFINE R == OpToRel(<, Nat)
<1>1. IsWellFoundedOn(R, Nat)
  BY NatLessThanWellFounded
<1>2. \A k, m \in Nat : k < m <=> <<k, m>> \in R
  BY DEF OpToRel
<1>3. wrong \subseteq Nat
  OBVIOUS
<1> HIDE DEF R
<1>4. PICK k \in wrong : \A m \in wrong : ~(<<m, k>> \in R)
  BY <1>1, <1>3, WFMin
<1>5. k \in 0..n /\ k \notin K /\ k # 0
  BY <1>4
<1>6. k - 1 \in 0..n /\ k \in 1..n /\ k - 1 < k /\ k - 1 \in Nat /\ k \in Nat
  BY <1>5
<1>7. k - 1 \notin wrong
  BY <1>2, <1>4, <1>6
<1> QED
  BY <1>5, <1>6, <1>7

Repeats(f, n, base, step) == f[0] = base /\ \A k \in 1..n : f[k] = step[f[k - 1]]

\* What a step that stays in a set makes, repeated up to n times.
LEMMA Repeated ==
    ASSUME NEW S, NEW n \in Nat, NEW base \in S, NEW step \in [S -> S]
    PROVE  \E f \in [0..n -> S] : Repeats(f, n, base, step)
<1> DEFINE K == {m \in 0..n : \E f \in [0..m -> S] : Repeats(f, m, base, step)}
<1>1. 0 \in K
  <2> DEFINE g == [k \in 0..0 |-> base]
  <2>1. g \in [0..0 -> S] /\ g[0] = base /\ 1..0 = {}
    OBVIOUS
  <2> HIDE DEF g
  <2> QED  BY <2>1 DEF Repeats
<1>2. ASSUME NEW m \in 1..n, m - 1 \in K
      PROVE  m \in K
  <2>1. PICK f \in [0..m - 1 -> S] : Repeats(f, m - 1, base, step)
    BY <1>2
  <2> DEFINE g == [k \in 0..m |-> IF k = m THEN step[f[m - 1]] ELSE f[k]]
  <2>2. m - 1 \in 0..m - 1 /\ f[m - 1] \in S /\ step[f[m - 1]] \in S /\ m # 0 /\ 0 \in 0..m - 1
    BY <2>1
  <2>3. g \in [0..m -> S]
    <3>1. ASSUME NEW k \in 0..m, k # m
          PROVE  f[k] \in S
      <4>1. k \in 0..m - 1
        BY <3>1
      <4> QED  BY <2>1, <4>1
    <3> QED  BY <2>2, <3>1
  <2>4. g[m] = step[f[m - 1]] /\ \A k \in 0..m - 1 : g[k] = f[k]
    BY <2>2
  <2> HIDE DEF g
  <2>5. ASSUME NEW k \in 1..m
        PROVE  g[k] = step[g[k - 1]]
    <3>1. k - 1 \in 0..m - 1
      OBVIOUS
    <3>2. CASE k = m
      BY <2>4, <3>1, <3>2
    <3>3. CASE k # m
      <4>1. k \in 1..m - 1 /\ k \in 0..m - 1
        BY <3>3
      <4> QED  BY <2>1, <2>4, <3>1, <4>1 DEF Repeats
    <3> QED  BY <3>2, <3>3
  <2>6. g[0] = base
    BY <2>1, <2>2, <2>4 DEF Repeats
  <2>7. Repeats(g, m, base, step)
    BY <2>5, <2>6 DEF Repeats
  <2> QED  BY <2>3, <2>7
<1> HIDE DEF K
<1>3. \A m \in 0..n : m \in K
  BY <1>1, <1>2, UpTo
<1>4. n \in K
  BY <1>3
<1> QED
  BY <1>4 DEF K

\* What stays in a set is a function to it.
LEMMA Grown ==
    ASSUME NEW S, NEW n \in Nat, NEW h, h = [k \in 0..n |-> h[k]],
           h[0] \in S, \A k \in 1..n : h[k - 1] \in S => h[k] \in S
    PROVE  h \in [0..n -> S]
<1> DEFINE K == {k \in 0..n : h[k] \in S}
<1>1. 0 \in K
  OBVIOUS
<1>2. ASSUME NEW k \in 1..n, k - 1 \in K
      PROVE  k \in K
  <2>1. h[k - 1] \in S /\ k \in 0..n
    BY <1>2
  <2> QED  BY <2>1
<1> HIDE DEF K
<1>3. \A k \in 0..n : k \in K
  BY <1>1, <1>2, UpTo
<1>4. \A k \in 0..n : h[k] \in S
  BY <1>3 DEF K
<1> QED
  BY <1>4

\* The way down the tree.
Downs(s, inside, base, n) ==
    CHOOSE g : g = [k \in 0..n |-> IF k = 0 THEN base ELSE Further(s, inside, g[k - 1])]

DownsStay(s, inside, S, base, n) ==
    LET h == Downs(s, inside, base, n)
    IN  h \in [0..n -> S] /\ h[0] = base /\ \A k \in 1..n : h[k] = Further(s, inside, h[k - 1])

LEMMA DownRepeated ==
    ASSUME NEW s, NEW inside, NEW S, NEW n \in Nat, NEW base \in S, \A x \in S : Further(s, inside, x) \in S
    PROVE  DownsStay(s, inside, S, base, n)
<1> DEFINE G(g) == [k \in 0..n |-> IF k = 0 THEN base ELSE Further(s, inside, g[k - 1])]
           h == Downs(s, inside, base, n)
           step == [x \in S |-> Further(s, inside, x)]
<1>0. step \in [S -> S]
  OBVIOUS
<1>1. \A x \in S : step[x] = Further(s, inside, x)
  OBVIOUS
<1> HIDE DEF step
<1> PICK f \in [0..n -> S] : Repeats(f, n, base, step)
  BY <1>0, Repeated
<1>2. f \in [0..n -> S] /\ f[0] = base /\ \A k \in 1..n : f[k] = step[f[k - 1]]
  BY DEF Repeats
<1>3. f = G(f)
  <2>1. ASSUME NEW k \in 0..n
        PROVE  f[k] = IF k = 0 THEN base ELSE Further(s, inside, f[k - 1])
    <3>1. CASE k = 0
      BY <1>2, <3>1
    <3>2. CASE k # 0
      <4>1. k \in 1..n /\ k - 1 \in 0..n
        BY <3>2
      <4>2. f[k - 1] \in S /\ f[k] = step[f[k - 1]]
        BY <1>2, <4>1
      <4> QED  BY <1>1, <3>2, <4>2
    <3> QED  BY <3>1, <3>2
  <2>2. f = [k \in 0..n |-> f[k]]
    BY <1>2
  <2> QED  BY <2>1, <2>2
<1>4. h = G(h)
  BY <1>3 DEF Downs
<1> HIDE DEF h
<1>5. DOMAIN h = 0..n /\ h[0] = base /\ \A k \in 1..n : h[k] = Further(s, inside, h[k - 1])
  <2>1. DOMAIN h = 0..n
    BY <1>4
  <2>2. h[0] = base
    BY <1>4
  <2>3. ASSUME NEW k \in 1..n
        PROVE  h[k] = Further(s, inside, h[k - 1])
    <3>1. k \in 0..n /\ k # 0
      OBVIOUS
    <3> QED  BY <1>4, <3>1
  <2> QED  BY <2>1, <2>2, <2>3
<1>6. h = [k \in 0..n |-> h[k]]
  BY <1>4
<1>7. \A k \in 1..n : h[k - 1] \in S => h[k] \in S
  BY <1>5
<1>8. h \in [0..n -> S]
  BY <1>5, <1>6, <1>7, Grown
<1> QED
  BY <1>5, <1>8 DEF h, DownsStay

\* The way up, when the focus leaves.
Ups(base, n) ==
    CHOOSE g : g = [k \in 0..n |-> IF k = 0 THEN base ELSE RememberStep(g[k - 1])]

UpsStay(S, base, n) ==
    LET h == Ups(base, n)
    IN  h \in [0..n -> S] /\ h[0] = base /\ \A k \in 1..n : h[k] = RememberStep(h[k - 1])

LEMMA UpRepeated ==
    ASSUME NEW S, NEW n \in Nat, NEW base \in S, \A x \in S : RememberStep(x) \in S
    PROVE  UpsStay(S, base, n)
<1> DEFINE G(g) == [k \in 0..n |-> IF k = 0 THEN base ELSE RememberStep(g[k - 1])]
           h == Ups(base, n)
           step == [x \in S |-> RememberStep(x)]
<1>0. step \in [S -> S]
  OBVIOUS
<1>1. \A x \in S : step[x] = RememberStep(x)
  OBVIOUS
<1> HIDE DEF step
<1> PICK f \in [0..n -> S] : Repeats(f, n, base, step)
  BY <1>0, Repeated
<1>2. f \in [0..n -> S] /\ f[0] = base /\ \A k \in 1..n : f[k] = step[f[k - 1]]
  BY DEF Repeats
<1>3. f = G(f)
  <2>1. ASSUME NEW k \in 0..n
        PROVE  f[k] = IF k = 0 THEN base ELSE RememberStep(f[k - 1])
    <3>1. CASE k = 0
      BY <1>2, <3>1
    <3>2. CASE k # 0
      <4>1. k \in 1..n /\ k - 1 \in 0..n
        BY <3>2
      <4>2. f[k - 1] \in S /\ f[k] = step[f[k - 1]]
        BY <1>2, <4>1
      <4> QED  BY <1>1, <3>2, <4>2
    <3> QED  BY <3>1, <3>2
  <2>2. f = [k \in 0..n |-> f[k]]
    BY <1>2
  <2> QED  BY <2>1, <2>2
<1>4. h = G(h)
  BY <1>3 DEF Ups
<1> HIDE DEF h
<1>5. DOMAIN h = 0..n /\ h[0] = base /\ \A k \in 1..n : h[k] = RememberStep(h[k - 1])
  <2>1. DOMAIN h = 0..n
    BY <1>4
  <2>2. h[0] = base
    BY <1>4
  <2>3. ASSUME NEW k \in 1..n
        PROVE  h[k] = RememberStep(h[k - 1])
    <3>1. k \in 0..n /\ k # 0
      OBVIOUS
    <3> QED  BY <1>4, <3>1
  <2> QED  BY <2>1, <2>2, <2>3
<1>6. h = [k \in 0..n |-> h[k]]
  BY <1>4
<1>7. \A k \in 1..n : h[k - 1] \in S => h[k] \in S
  BY <1>5
<1>8. h \in [0..n -> S]
  BY <1>5, <1>6, <1>7, Grown
<1> QED
  BY <1>5, <1>8 DEF h, UpsStay

\* The calls that move the focus.
Calls(base, n) ==
    CHOOSE g : g = [k \in 0..n |-> IF k = 0 THEN base ELSE FocusStep(g[k - 1])]

CallsStay(S, base, n) ==
    LET h == Calls(base, n)
    IN  h \in [0..n -> S] /\ h[0] = base /\ \A k \in 1..n : h[k] = FocusStep(h[k - 1])

LEMMA CallRepeated ==
    ASSUME NEW S, NEW n \in Nat, NEW base \in S, \A x \in S : FocusStep(x) \in S
    PROVE  CallsStay(S, base, n)
<1> DEFINE G(g) == [k \in 0..n |-> IF k = 0 THEN base ELSE FocusStep(g[k - 1])]
           h == Calls(base, n)
           step == [x \in S |-> FocusStep(x)]
<1>0. step \in [S -> S]
  OBVIOUS
<1>1. \A x \in S : step[x] = FocusStep(x)
  OBVIOUS
<1> HIDE DEF step
<1> PICK f \in [0..n -> S] : Repeats(f, n, base, step)
  BY <1>0, Repeated
<1>2. f \in [0..n -> S] /\ f[0] = base /\ \A k \in 1..n : f[k] = step[f[k - 1]]
  BY DEF Repeats
<1>3. f = G(f)
  <2>1. ASSUME NEW k \in 0..n
        PROVE  f[k] = IF k = 0 THEN base ELSE FocusStep(f[k - 1])
    <3>1. CASE k = 0
      BY <1>2, <3>1
    <3>2. CASE k # 0
      <4>1. k \in 1..n /\ k - 1 \in 0..n
        BY <3>2
      <4>2. f[k - 1] \in S /\ f[k] = step[f[k - 1]]
        BY <1>2, <4>1
      <4> QED  BY <1>1, <3>2, <4>2
    <3> QED  BY <3>1, <3>2
  <2>2. f = [k \in 0..n |-> f[k]]
    BY <1>2
  <2> QED  BY <2>1, <2>2
<1>4. h = G(h)
  BY <1>3 DEF Calls
<1> HIDE DEF h
<1>5. DOMAIN h = 0..n /\ h[0] = base /\ \A k \in 1..n : h[k] = FocusStep(h[k - 1])
  <2>1. DOMAIN h = 0..n
    BY <1>4
  <2>2. h[0] = base
    BY <1>4
  <2>3. ASSUME NEW k \in 1..n
        PROVE  h[k] = FocusStep(h[k - 1])
    <3>1. k \in 0..n /\ k # 0
      OBVIOUS
    <3> QED  BY <1>4, <3>1
  <2> QED  BY <2>1, <2>2, <2>3
<1>6. h = [k \in 0..n |-> h[k]]
  BY <1>4
<1>7. \A k \in 1..n : h[k - 1] \in S => h[k] \in S
  BY <1>5
<1>8. h \in [0..n -> S]
  BY <1>5, <1>6, <1>7, Grown
<1> QED
  BY <1>5, <1>8 DEF h, CallsStay

-----------------------------------------------------------------------------
(* The tree.                                                               *)

\* What Descend is: what the start leads to, and nothing else.
Below(s, from, inside, tree) ==
    /\ from \cap inside \subseteq tree /\ tree \subseteq inside
    /\ \A w \in inside : s.win[w].up \in tree => w \in tree
    /\ \A X : from \cap inside \subseteq X /\ (\A w \in inside : s.win[w].up \in X => w \in X) => tree \subseteq X

LEMMA DescendIs ==
    ASSUME NEW s, NEW from, NEW inside, IsFiniteSet(inside)
    PROVE  Below(s, from, inside, Descend(s, from, inside))
<1> DEFINE n == Cardinality(inside)
           S == SUBSET inside
           base == from \cap inside
           h == Downs(s, inside, base, n)
           closed(tree) == \A w \in inside : s.win[w].up \in tree => w \in tree
<1>1. n \in Nat /\ base \in S
  BY FS_CardinalityType
<1>2. \A x \in S : Further(s, inside, x) \in S
  BY DEF Further
<1>3. Descend(s, from, inside) = h[n]
  BY DEF Descend, Iterate, Downs
<1>4. h \in [0..n -> S] /\ h[0] = base /\ \A k \in 1..n : h[k] = Further(s, inside, h[k - 1])
  <2> HIDE DEF n, S, base, h
  <2>1. DownsStay(s, inside, S, base, n)
    BY <1>1, <1>2, DownRepeated
  <2> QED  BY <2>1 DEF DownsStay, h
<1> HIDE DEF h
<1>5. \A k \in 1..n : k - 1 \in 0..n /\ k \in 0..n
  BY <1>1
<1>6. \A x \in S : IsFiniteSet(x) /\ Cardinality(x) \in Nat /\ Cardinality(x) <= n
  <2> SUFFICES ASSUME NEW x \in S PROVE IsFiniteSet(x) /\ Cardinality(x) \in Nat /\ Cardinality(x) <= n
    OBVIOUS
  <2>1. IsFiniteSet(x) /\ Cardinality(x) <= Cardinality(inside)
    BY FS_Subset
  <2> QED  BY <2>1, FS_CardinalityType
<1>7. base \subseteq h[n]
  <2> DEFINE K == {k \in 0..n : base \subseteq h[k]}
  <2>1. 0 \in K
    BY <1>1, <1>4
  <2>2. ASSUME NEW k \in 1..n, k - 1 \in K
        PROVE  k \in K
    BY <1>4, <1>5, <2>2 DEF Further
  <2> HIDE DEF K, n
  <2>3. \A k \in 0..n : k \in K
    BY <1>1, <2>1, <2>2, UpTo
  <2>4. n \in K
    BY <1>1, <2>3
  <2> QED  BY <2>4 DEF K
<1>8. closed(h[n])
  <2> DEFINE K == {k \in 0..n : closed(h[k]) \/ Cardinality(h[k]) >= k + 1}
  <2>1. 0 \in K
    <3>1. CASE base = {}
      <4>1. closed(h[0])
        BY <1>4, <3>1
      <4> QED  BY <1>1, <4>1
    <3>2. CASE base # {}
      <4>1. Cardinality(base) # 0 /\ Cardinality(base) \in Nat
        BY <1>1, <1>6, <3>2, FS_EmptySet
      <4> HIDE DEF base
      <4>2. Cardinality(h[0]) >= 0 + 1
        BY <1>4, <4>1
      <4> QED  BY <1>1, <4>2
    <3> QED  BY <3>1, <3>2
  <2>2. ASSUME NEW k \in 1..n, k - 1 \in K
        PROVE  k \in K
    <3> DEFINE a == h[k - 1]
               b == h[k]
    <3>1. a \in S /\ b \in S /\ b = Further(s, inside, a) /\ a \subseteq b /\ k \in 0..n
      BY <1>4, <1>5 DEF Further
    <3>2. CASE closed(a)
      <4>1. b = a
        BY <3>1, <3>2 DEF Further
      <4> HIDE DEF a, b
      <4>2. closed(b)
        BY <3>2, <4>1
      <4> QED  BY <3>1, <4>2 DEF b
    <3>3. CASE ~closed(a)
      <4>1. Cardinality(a) >= k
        BY <1>1, <2>2, <3>3
      <4>2. b # a
        BY <3>1, <3>3 DEF Further
      <4> HIDE DEF a, b, S, n
      <4>3. IsFiniteSet(b) /\ IsFiniteSet(a) /\ Cardinality(a) \in Nat /\ Cardinality(b) \in Nat
        BY <1>6, <3>1
      <4>4. Cardinality(a) <= Cardinality(b) /\ Cardinality(a) # Cardinality(b)
        BY <3>1, <4>2, <4>3, FS_Subset
      <4>5. Cardinality(b) >= k + 1
        BY <1>1, <4>1, <4>3, <4>4
      <4> QED  BY <3>1, <4>5 DEF b
    <3> QED  BY <3>2, <3>3
  <2> HIDE DEF K, n
  <2>3. \A k \in 0..n : k \in K
    BY <1>1, <2>1, <2>2, UpTo
  <2>4. n \in K /\ h[n] \in S
    BY <1>1, <1>4, <2>3
  <2>5. Cardinality(h[n]) \in Nat /\ Cardinality(h[n]) <= n
    BY <1>6, <2>4
  <2>6. ~(Cardinality(h[n]) >= n + 1)
    BY <1>1, <2>5
  <2> QED  BY <2>4, <2>6 DEF K
<1>9. ASSUME NEW X, base \subseteq X, \A w \in inside : s.win[w].up \in X => w \in X
      PROVE  h[n] \subseteq X
  <2> DEFINE K == {k \in 0..n : h[k] \subseteq X}
  <2>1. 0 \in K
    BY <1>1, <1>4, <1>9
  <2>2. ASSUME NEW k \in 1..n, k - 1 \in K
        PROVE  k \in K
    BY <1>4, <1>5, <1>9, <2>2 DEF Further
  <2> HIDE DEF K, n
  <2>3. \A k \in 0..n : k \in K
    BY <1>1, <2>1, <2>2, UpTo
  <2>4. n \in K
    BY <1>1, <2>3
  <2> QED  BY <2>4 DEF K
<1>10. h[n] \subseteq inside
  BY <1>1, <1>4
<1> QED
  BY <1>3, <1>7, <1>8, <1>9, <1>10 DEF Below

\* A window is reached from its parent, unless it is where one starts.
LEMMA FromAbove ==
    ASSUME NEW s, NEW from, NEW inside, NEW tree, Below(s, from, inside, tree), NEW w \in tree
    PROVE  w \in inside /\ (w \in from \/ s.win[w].up \in tree)
<1> DEFINE X == {x \in tree : x \in from \/ s.win[x].up \in tree}
<1>1. from \cap inside \subseteq X /\ \A x \in inside : s.win[x].up \in X => x \in X
  BY DEF Below
<1>2. tree \subseteq X /\ tree \subseteq inside
  BY <1>1 DEF Below
<1> QED
  BY <1>2

-----------------------------------------------------------------------------
(* What moving the focus leaves alone.                                     *)

Windows == [up : Nat, kind : {"main", "child"}, vis : BOOLEAN, level : Nat, by : Nat, last : Int]
Desktops(W) == [win : [W -> Windows], focus : Int, active : Int, kind : {"main", "child"}]

SameWindow(v, w) == v.up = w.up /\ v.kind = w.kind /\ v.vis = w.vis /\ v.level = w.level /\ v.by = w.by
Like(s) == {t \in Desktops(Alive(s)) : t.kind = s.kind /\ \A w \in Alive(s) : SameWindow(t.win[w], s.win[w])}

LEMMA LikeFields ==
    ASSUME NEW s, NEW t \in Like(s)
    PROVE  /\ t \in Desktops(Alive(s)) /\ Alive(t) = Alive(s) /\ t.kind = s.kind
           /\ t.focus \in Int /\ t.active \in Int /\ t.win \in [Alive(s) -> Windows]
           /\ \A w \in Alive(s) : t.win[w] \in Windows /\ SameWindow(t.win[w], s.win[w])
BY DEF Like, Desktops, Alive

LEMMA PutWin ==
    ASSUME NEW s, NEW t \in Like(s), NEW f \in [Alive(s) -> Windows], \A w \in Alive(s) : SameWindow(f[w], s.win[w])
    PROVE  [t EXCEPT !.win = f] \in Like(s)
<1>1. t \in Desktops(Alive(s)) /\ t.kind = s.kind
  BY DEF Like
<1>2. [t EXCEPT !.win = f] \in Desktops(Alive(s)) /\ [t EXCEPT !.win = f].win = f /\ [t EXCEPT !.win = f].kind = s.kind
  BY <1>1 DEF Desktops
<1> QED
  BY <1>2 DEF Like

LEMMA PutLast ==
    ASSUME NEW s, NEW t \in Like(s), NEW v \in Alive(s), NEW l \in Int
    PROVE  [t EXCEPT !.win[v].last = l] \in Like(s)
<1> DEFINE new == [t.win[v] EXCEPT !.last = l]
           f == [t.win EXCEPT ![v] = new]
<1>1. t.win \in [Alive(s) -> Windows] /\ t.win[v] \in Windows /\ \A w \in Alive(s) : SameWindow(t.win[w], s.win[w])
  BY LikeFields
<1>2. new \in Windows /\ SameWindow(new, t.win[v])
  BY <1>1 DEF Windows, SameWindow
<1> HIDE DEF new
<1>3. f \in [Alive(s) -> Windows] /\ f[v] = new /\ \A w \in Alive(s) : w # v => f[w] = t.win[w]
  BY <1>1, <1>2
<1>4. [t EXCEPT !.win[v].last = l] = [t EXCEPT !.win = f]
  BY DEF new
<1> HIDE DEF f
<1>5. \A w \in Alive(s) : SameWindow(f[w], s.win[w])
  <2>1. SameWindow(f[v], s.win[v])
    BY <1>1, <1>2, <1>3 DEF SameWindow
  <2> QED  BY <1>1, <1>3, <2>1
<1> QED
  BY <1>3, <1>4, <1>5, PutWin

LEMMA PutFocus ==
    ASSUME NEW s, NEW t \in Like(s), NEW l \in Int
    PROVE  [t EXCEPT !.focus = l] \in Like(s) /\ [t EXCEPT !.active = l] \in Like(s)
<1>1. t \in Desktops(Alive(s)) /\ t.kind = s.kind
  BY DEF Like
<1>2. /\ [t EXCEPT !.focus = l] \in Desktops(Alive(s)) /\ [t EXCEPT !.focus = l].win = t.win
      /\ [t EXCEPT !.focus = l].kind = t.kind
  BY <1>1 DEF Desktops
<1>3. /\ [t EXCEPT !.active = l] \in Desktops(Alive(s)) /\ [t EXCEPT !.active = l].win = t.win
      /\ [t EXCEPT !.active = l].kind = t.kind
  BY <1>1 DEF Desktops
<1> QED
  BY <1>1, <1>2, <1>3 DEF Like

LEMMA PutBoth ==
    ASSUME NEW s, NEW t \in Like(s), NEW l \in Int, NEW m \in Int
    PROVE  [t EXCEPT !.active = l, !.focus = m] \in Like(s) /\ [t EXCEPT !.focus = m, !.active = l] \in Like(s)
<1>1. [t EXCEPT !.active = l] \in Like(s) /\ [t EXCEPT !.focus = m] \in Like(s)
  BY PutFocus
<1> DEFINE a == [t EXCEPT !.active = l]
           b == [t EXCEPT !.focus = m]
<1>2. [a EXCEPT !.focus = m] = [t EXCEPT !.active = l, !.focus = m] /\ [b EXCEPT !.active = l] = [t EXCEPT !.focus = m, !.active = l]
  OBVIOUS
<1>3. a \in Like(s) /\ b \in Like(s)
  BY <1>1
<1> HIDE DEF a, b
<1>4. [a EXCEPT !.focus = m] \in Like(s) /\ [b EXCEPT !.active = l] \in Like(s)
  BY <1>3, PutFocus
<1> QED
  BY <1>2, <1>4 DEF a, b

\* The windows are numbered and not without end.
Numbered(s) == IsFiniteSet(Alive(s)) /\ Alive(s) \subseteq Nat

LEMMA RememberLike ==
    ASSUME NEW s, Numbered(s), NEW t \in Like(s), NEW w \in Int
    PROVE  Remember(t, w) \in Like(s)
<1> DEFINE n == Cardinality(Alive(t))
           S == [s : Like(s), at : Int]
           base == [s |-> t, at |-> w]
           h == Ups(base, n)
<1>1. n \in Nat /\ base \in S
  BY LikeFields, FS_CardinalityType DEF Numbered
<1>2. ASSUME NEW r \in S
      PROVE  RememberStep(r) \in S
  <2> DEFINE up == r.s.win[r.at].up
  <2>1. r.s \in Like(s) /\ r.at \in Int /\ Alive(r.s) = Alive(s)
    BY LikeFields
  <2> HIDE DEF S
  <2>2. CASE up \in Alive(r.s)
    <3>1. up \in Alive(s) /\ up \in Int
      BY <2>1, <2>2 DEF Numbered
    <3>2. [r.s EXCEPT !.win[up].last = r.at] \in Like(s)
      <4> HIDE DEF up
      <4> QED  BY <2>1, <3>1, PutLast
    <3>3. [s |-> [r.s EXCEPT !.win[up].last = r.at], at |-> up] \in S
      BY <3>1, <3>2 DEF S
    <3> QED  BY <3>3 DEF RememberStep
  <2>3. CASE up \notin Alive(r.s)
    BY <2>3 DEF RememberStep
  <2> QED  BY <2>2, <2>3
<1>3. Remember(t, w) = h[n].s
  BY DEF Remember, Iterate, Ups
<1>4. h[n] \in S
  <2> HIDE DEF n, S, base, h
  <2>1. UpsStay(S, base, n)
    BY <1>1, <1>2, UpRepeated
  <2> QED  BY <1>1, <2>1 DEF UpsStay, h
<1> QED
  BY <1>3, <1>4

ToDos == [what : {"focus", "go on"}, win : Int]
Agenda(s) == [s : Like(s), todo : Seq(ToDos)]

LEMMA ToDoIs ==
    ASSUME NEW w \in Int, NEW rest \in Seq(ToDos)
    PROVE  /\ ToDo("focus", w) \in Seq(ToDos) /\ ToDo("focus", w) \o rest \in Seq(ToDos)
           /\ ToDo("go on", w) \in Seq(ToDos) /\ ToDo("go on", w) \o rest \in Seq(ToDos)
<1>1. ToDo("focus", w) \in Seq(ToDos) /\ ToDo("go on", w) \in Seq(ToDos)
  <2>1. [what |-> "focus", win |-> w] \in ToDos /\ [what |-> "go on", win |-> w] \in ToDos
    BY DEF ToDos
  <2>2. \A x \in ToDos : <<x>> \in Seq(ToDos)
    OBVIOUS
  <2>3. <<[what |-> "focus", win |-> w]>> \in Seq(ToDos) /\ <<[what |-> "go on", win |-> w]>> \in Seq(ToDos)
    BY <2>1, <2>2
  <2> QED  BY <2>3 DEF ToDo
<1> QED
  BY <1>1, ConcatProperties

LEMMA LastChildIs ==
    ASSUME NEW s, Numbered(s), NEW t \in Like(s), NEW w, NEW rest \in Seq(ToDos)
    PROVE  LastChild(t, w) \in Seq(ToDos) /\ LastChild(t, w) \o rest \in Seq(ToDos)
<1>1. LastChild(t, w) \in Seq(ToDos)
  <2>1. CASE t.win[w].last \in Alive(t)
    <3>1. t.win[w].last \in Int
      BY <2>1, LikeFields DEF Numbered
    <3>2. ToDo("focus", t.win[w].last) \in Seq(ToDos)
      BY <3>1, ToDoIs
    <3> QED  BY <2>1, <3>2 DEF LastChild
  <2>2. CASE t.win[w].last \notin Alive(t)
    BY <2>2 DEF LastChild
  <2> QED  BY <2>1, <2>2
<1> QED
  BY <1>1, ConcatProperties

LEMMA ActivateStepLike ==
    ASSUME NEW s, Numbered(s), NEW t \in Like(s), NEW w \in Int, NEW rest \in Seq(ToDos)
    PROVE  ActivateStep(t, w, rest) \in Agenda(s)
<1>1. CASE Activates(t, w)
  <2>1. t.focus \in Int
    BY LikeFields
  <2>2. Remember(t, t.focus) \in Like(s)
    BY <2>1, RememberLike
  <2>3. Activated(t, w) \in Like(s)
    BY <2>2, PutBoth DEF Activated
  <2>4. LastChild(Activated(t, w), w) \o rest \in Seq(ToDos)
    BY <2>3, LastChildIs
  <2> QED  BY <1>1, <2>3, <2>4 DEF ActivateStep, Agenda
<1>2. CASE ~Activates(t, w)
  BY <1>2 DEF ActivateStep, Agenda
<1> QED
  BY <1>1, <1>2

LEMMA SetFocusStepLike ==
    ASSUME NEW s, Numbered(s), NEW t \in Like(s), NEW w \in Int, NEW rest \in Seq(ToDos)
    PROVE  SetFocusStep(t, w, rest) \in Agenda(s)
<1> DEFINE top == TopOf(t, w)
           by == t.win[w].by
<1>0. Alive(t) = Alive(s)
  BY LikeFields
<1>1. CASE t.focus = w \/ by # 0
  <2>1. CASE t.focus # w /\ by \in Alive(t)
    <3>1. by \in Int
      BY <1>0, <2>1 DEF Numbered
    <3>2. ToDo("focus", by) \o rest \in Seq(ToDos)
      <4> HIDE DEF by
      <4> QED  BY <3>1, ToDoIs
    <3> QED  BY <1>1, <2>1, <3>2 DEF SetFocusStep, Agenda
  <2>2. CASE ~(t.focus # w /\ by \in Alive(t))
    <3>1. <<>> \o rest = rest
      OBVIOUS
    <3>2. SetFocusStep(t, w, rest) = [s |-> t, todo |-> <<>> \o rest]
      BY <1>1, <2>2 DEF SetFocusStep
    <3> QED  BY <3>1, <3>2 DEF Agenda
  <2> QED  BY <2>1, <2>2
<1>2. CASE ~(t.focus = w \/ by # 0) /\ top \in Alive(t)
  <2>1. top \in Int
    BY <1>0, <1>2 DEF Numbered
  <2>2. ToDo("go on", w) \o rest \in Seq(ToDos)
    BY ToDoIs
  <2>3. ActivateStep(t, top, ToDo("go on", w) \o rest) \in Agenda(s)
    <3> HIDE DEF top
    <3> QED  BY <2>1, <2>2, ActivateStepLike
  <2> QED  BY <1>2, <2>3 DEF SetFocusStep
<1>3. CASE ~(t.focus = w \/ by # 0) /\ top \notin Alive(t)
  BY <1>3 DEF SetFocusStep, Agenda
<1> QED
  BY <1>1, <1>2, <1>3

LEMMA FocusedLike ==
    ASSUME NEW s, Numbered(s), NEW t \in Like(s), NEW w \in Int
    PROVE  Focused(t, w) \in Like(s)
<1> DEFINE f == [t EXCEPT !.focus = w]
           up == t.win[w].up
<1>1. f \in Like(s) /\ Alive(t) = Alive(s)
  BY PutFocus, LikeFields
<1>2. CASE up \in Alive(s)
  <2>1. [f EXCEPT !.win[up].last = w] \in Like(s)
    <3> HIDE DEF f, up
    <3> QED  BY <1>1, <1>2, PutLast
  <2> QED  BY <1>1, <2>1 DEF Focused
<1>3. CASE up \notin Alive(s)
  BY <1>1, <1>3 DEF Focused
<1> QED
  BY <1>2, <1>3

LEMMA CallingLike ==
    ASSUME NEW s, Numbered(s), NEW r \in Agenda(s)
    PROVE  Calling(r) \in Like(s)
<1> DEFINE n == 4 * Cardinality(Alive(r.s))
           S == Agenda(s)
           h == Calls(r, n)
<1>1. n \in Nat
  <2>1. Alive(r.s) = Alive(s)
    BY LikeFields DEF Agenda
  <2>2. Cardinality(Alive(s)) \in Nat
    BY FS_CardinalityType DEF Numbered
  <2> QED  BY <2>1, <2>2
<1>2. ASSUME NEW q \in S
      PROVE  FocusStep(q) \in S
  <2> DEFINE call == Head(q.todo)
             rest == Tail(q.todo)
  <2>1. q.s \in Like(s) /\ q.todo \in Seq(ToDos) /\ q = [s |-> q.s, todo |-> q.todo]
    BY DEF Agenda
  <2>2. CASE q.todo = <<>>
    BY <2>2 DEF FocusStep
  <2>3. CASE q.todo # <<>>
    <3>1. call \in ToDos /\ rest \in Seq(ToDos)
      BY <2>1, <2>3, HeadTailProperties
    <3>2. call.win \in Int
      BY <3>1 DEF ToDos
    <3> HIDE DEF call, rest
    <3>3. SetFocusStep(q.s, call.win, rest) \in S
      BY <2>1, <3>1, <3>2, SetFocusStepLike
    <3>4. [q EXCEPT !.todo = rest] \in S
      BY <2>1, <3>1 DEF Agenda
    <3>5. [s |-> Focused(q.s, call.win), todo |-> LastChild(Focused(q.s, call.win), call.win) \o rest] \in S
      <4>1. Focused(q.s, call.win) \in Like(s)
        BY <2>1, <3>2, FocusedLike
      <4>2. LastChild(Focused(q.s, call.win), call.win) \o rest \in Seq(ToDos)
        BY <3>1, <4>1, LastChildIs
      <4> QED  BY <4>1, <4>2 DEF Agenda
    <3> HIDE DEF S
    <3> QED  BY <2>3, <3>3, <3>4, <3>5 DEF FocusStep, call, rest
  <2> QED  BY <2>2, <2>3
<1>3. Calling(r) = h[n].s
  BY DEF Calling, Iterate, Calls
<1>4. h[n] \in S
  <2>1. r \in S
    OBVIOUS
  <2> HIDE DEF n, S, h
  <2>2. CallsStay(S, r, n)
    BY <1>1, <1>2, <2>1, CallRepeated
  <2> QED  BY <1>1, <2>2 DEF CallsStay, h
<1> QED
  BY <1>3, <1>4 DEF Agenda

LEMMA FocusLike ==
    ASSUME NEW s, Numbered(s), NEW t \in Like(s), NEW w \in Int
    PROVE  SetFocus(t, w) \in Like(s) /\ EventFocus(t, w) \in Like(s) /\ Activate(t, w) \in Like(s)
<1>0. <<>> \in Seq(ToDos)
  OBVIOUS
<1>1. [s |-> t, todo |-> ToDo("focus", w)] \in Agenda(s)
  BY <1>0, ToDoIs DEF Agenda
<1>2. [s |-> t, todo |-> LastChild(t, w)] \in Agenda(s)
  BY <1>0, LastChildIs DEF Agenda
<1>3. ActivateStep(t, w, <<>>) \in Agenda(s)
  BY <1>0, ActivateStepLike
<1>4. SetFocus(t, w) \in Like(s)
  BY <1>1, CallingLike DEF SetFocus
<1>5. EventFocus(t, w) \in Like(s)
  BY <1>2, CallingLike DEF EventFocus
<1>6. Activate(t, w) \in Like(s)
  BY <1>3, CallingLike DEF Activate
<1> QED
  BY <1>4, <1>5, <1>6

-----------------------------------------------------------------------------
(* What is true of the windows while the dialogs run[1], ..., run[n] do.   *)

Named(s) ==
    /\ Numbered(s) /\ {1, 2} \subseteq Alive(s)
    /\ \A w \in Alive(s) : w \in {1, 2} \/ (w \in Dialogs /\ w + 1 \in Alive(s)) \/ (w - 1 \in Dialogs /\ w - 1 \in Alive(s))

UnderDialog(s, w, n) ==
    /\ s.win[w].up \in {1} \cup Dialogs /\ s.win[w].up \in Alive(s) /\ s.win[w].level <= n
ElementOf(s, w, d) == s.win[w].up = d /\ s.win[w].kind = "child" /\ s.win[w].level = s.win[d].level

Parents(s, n) ==
    \A w \in Alive(s) :
        /\ s.win[w].up \in Alive(s) => s.win[s.win[w].up].level <= s.win[w].level
        /\ w - 1 \in Dialogs => ElementOf(s, w, w - 1)
        /\ w \in Dialogs => UnderDialog(s, w, n)
        /\ w \in {1, 2} => s.win[w].up \in {0, 1} /\ s.win[w].level = 0

Runs(d, n, run) == \E i \in 1..n : run[i] = d

Running(s, n, run) ==
    /\ \A i \in 1..n : run[i] \in Dialogs /\ run[i] \in Alive(s) /\ s.win[run[i]].level = i - 1
    /\ \A d \in Dialogs : d \in Alive(s) /\ ~Runs(d, n, run) => s.win[d].vis = FALSE

Blocked(s, n, run) ==
    \A w \in Alive(s) : s.win[w].by # 0 => \E i \in 1..n : s.win[w].by = run[i] /\ s.win[w].level < i

Parted(s, n, run) ==
    \A i \in 1..n : \A w \in Alive(s) :
        s.win[w].level < i => (Runs(s.win[w].by, i, run) <=> ~IsIn(s, w, run[i]))

Good(s, n, run) ==
    /\ s \in Desktops(Alive(s)) /\ Named(s) /\ Parents(s, n)
    /\ Running(s, n, run) /\ Blocked(s, n, run) /\ Parted(s, n, run)

\* Windows that come under no old one change nothing below the old ones.
LEMMA WiderTree ==
    ASSUME NEW s, NEW t, IsFiniteSet(Alive(s)), IsFiniteSet(Alive(t)), Alive(s) \subseteq Alive(t),
           \A w \in Alive(s) : t.win[w].up = s.win[w].up /\ ~(s.win[w].up \in Alive(t) \ Alive(s)),
           NEW d \in Alive(s)
    PROVE  \A w \in Alive(s) : IsIn(t, w, d) <=> IsIn(s, w, d)
<1> DEFINE T == Descend(s, {d}, Alive(s))
           U == Descend(t, {d}, Alive(t))
           X == T \cup (Alive(t) \ Alive(s))
<1>1. Below(s, {d}, Alive(s), T) /\ Below(t, {d}, Alive(t), U)
  BY DescendIs
<1> HIDE DEF T, U
<1>2. {d} \cap Alive(s) \subseteq U /\ \A w \in Alive(s) : s.win[w].up \in U => w \in U
  BY <1>1 DEF Below
<1>3. T \subseteq U
  BY <1>1, <1>2 DEF Below
<1>4. T \subseteq Alive(s) /\ d \in T /\ U \subseteq Alive(t)
  BY <1>1 DEF Below
<1>5. ASSUME NEW w \in Alive(t), t.win[w].up \in X
      PROVE  w \in X
  <2>1. CASE w \in Alive(s)
    <3>1. s.win[w].up \in T
      BY <1>4, <1>5, <2>1
    <3>2. w \in T
      BY <1>1, <2>1, <3>1 DEF Below
    <3> QED  BY <3>2
  <2> QED  BY <2>1
<1>6. {d} \cap Alive(t) \subseteq X
  BY <1>4
<1> HIDE DEF X
<1>7. U \subseteq X
  BY <1>1, <1>5, <1>6 DEF Below
<1>8. \A w \in Alive(s) : w \in U <=> w \in T
  BY <1>3, <1>7 DEF X
<1> QED
  BY <1>8 DEF T, U, IsIn

LEMMA LikeSelf ==
    ASSUME NEW s, s \in Desktops(Alive(s))
    PROVE  s \in Like(s)
BY DEF Like, SameWindow

LEMMA DialogOfElement ==
    ASSUME NEW s, NEW n, NEW run, Good(s, n, run), NEW w \in Alive(s), w - 1 \in Dialogs
    PROVE  w - 1 \in Alive(s)
BY WinTreeAssumption DEF Good, Named, Numbered

\* Wherever the focus goes, that stays true.
LEMMA LikeIsGood ==
    ASSUME NEW s, NEW n \in Nat, NEW run, Good(s, n, run), NEW t \in Like(s)
    PROVE  Good(t, n, run)
<1>1. Alive(t) = Alive(s) /\ t \in Desktops(Alive(s))
  BY LikeFields
<1>2. \A w \in Alive(s) : /\ t.win[w].up = s.win[w].up /\ t.win[w].kind = s.win[w].kind
                          /\ t.win[w].vis = s.win[w].vis /\ t.win[w].level = s.win[w].level /\ t.win[w].by = s.win[w].by
  BY LikeFields DEF SameWindow
<1>3. Named(t)
  BY <1>1 DEF Good, Named, Numbered
<1>4. Parents(t, n)
  <2> SUFFICES ASSUME NEW w \in Alive(s)
               PROVE  /\ t.win[w].up \in Alive(s) => t.win[t.win[w].up].level <= t.win[w].level
                      /\ w - 1 \in Dialogs => ElementOf(t, w, w - 1)
                      /\ w \in Dialogs => UnderDialog(t, w, n)
                      /\ w \in {1, 2} => t.win[w].up \in {0, 1} /\ t.win[w].level = 0
    BY <1>1 DEF Parents
  <2>1. /\ s.win[w].up \in Alive(s) => s.win[s.win[w].up].level <= s.win[w].level
        /\ w - 1 \in Dialogs => ElementOf(s, w, w - 1)
        /\ w \in Dialogs => UnderDialog(s, w, n)
        /\ w \in {1, 2} => s.win[w].up \in {0, 1} /\ s.win[w].level = 0
    BY DEF Good, Parents
  <2>2. w - 1 \in Dialogs => w - 1 \in Alive(s)
    BY DialogOfElement
  <2>3. w - 1 \in Dialogs => ElementOf(t, w, w - 1)
    BY <1>2, <2>1, <2>2 DEF ElementOf
  <2>4. w \in Dialogs => UnderDialog(t, w, n)
    BY <1>1, <1>2, <2>1 DEF UnderDialog
  <2> QED  BY <1>2, <2>1, <2>3, <2>4
<1>5. Running(t, n, run)
  <2>1. \A i \in 1..n : run[i] \in Dialogs /\ run[i] \in Alive(t) /\ t.win[run[i]].level = i - 1
    BY <1>1, <1>2 DEF Good, Running
  <2>2. \A d \in Dialogs : d \in Alive(t) /\ ~Runs(d, n, run) => t.win[d].vis = FALSE
    BY <1>1, <1>2 DEF Good, Running
  <2> QED  BY <2>1, <2>2 DEF Running
<1>6. Blocked(t, n, run)
  BY <1>1, <1>2 DEF Good, Blocked
<1>7. Parted(t, n, run)
  <2> SUFFICES ASSUME NEW i \in 1..n, NEW w \in Alive(s), t.win[w].level < i
               PROVE  Runs(t.win[w].by, i, run) <=> ~IsIn(t, w, run[i])
    BY <1>1 DEF Parted
  <2>1. run[i] \in Alive(s)
    BY DEF Good, Running
  <2>2. IsFiniteSet(Alive(s))
    BY DEF Good, Named, Numbered
  <2>3. IsIn(t, w, run[i]) <=> IsIn(s, w, run[i])
    BY <1>1, <1>2, <2>1, <2>2, WiderTree
  <2>4. Runs(s.win[w].by, i, run) <=> ~IsIn(s, w, run[i])
    BY <1>2 DEF Good, Parted
  <2> QED  BY <1>2, <2>3, <2>4
<1> QED
  BY <1>1, <1>3, <1>4, <1>5, <1>6, <1>7 DEF Good

\* What the invariant says of one window.
LEMMA WindowOf ==
    ASSUME NEW s, NEW n \in Nat, NEW run, Good(s, n, run), NEW w \in Alive(s)
    PROVE  /\ w \in Nat /\ s.win[w] \in Windows /\ s.win[w].up \in Nat /\ s.win[w].level \in Nat /\ s.win[w].by \in Nat
           /\ s.win[w].last \in Int /\ s.win[w].kind \in {"main", "child"} /\ s.win[w].vis \in BOOLEAN
           /\ s.win[w].level <= n
           /\ w \in {1, 2} \/ w \in Dialogs \/ (w - 1 \in Dialogs /\ w - 1 \in Alive(s))
<1>1. w \in Nat /\ (w \in {1, 2} \/ w \in Dialogs \/ (w - 1 \in Dialogs /\ w - 1 \in Alive(s)))
  BY DEF Good, Named, Numbered
<1>2. s.win[w] \in Windows
  BY DEF Good, Desktops
<1>3. \A v \in Alive(s) : v \in Dialogs => s.win[v].level <= n
  BY DEF Good, Parents, UnderDialog
<1>4. s.win[w].level <= n
  <2>1. CASE w \in {1, 2}
    BY <2>1 DEF Good, Parents
  <2>2. CASE w \in Dialogs
    BY <1>3, <2>2
  <2>3. CASE w - 1 \in Dialogs /\ w - 1 \in Alive(s)
    BY <1>3, <2>3 DEF Good, Parents, ElementOf
  <2> QED  BY <1>1, <2>1, <2>2, <2>3
<1> QED
  BY <1>1, <1>2, <1>4 DEF Windows

LEMMA RunOf ==
    ASSUME NEW s, NEW n \in Nat, NEW run, Good(s, n, run)
    PROVE  /\ \A i \in 1..n : run[i] \in Dialogs /\ run[i] \in Alive(s) /\ s.win[run[i]].level = i - 1
           /\ \A i, j \in 1..n : run[i] = run[j] => i = j
           /\ \A i \in 1..n : run[i] \in Nat /\ run[i] > 2
BY WinTreeAssumption DEF Good, Running

Wins(stack) == [i \in 1..Len(stack) |-> stack[i].win]

\* What is shown and not blocked belongs to the innermost dialog.
LEMMA GoodIsExact ==
    ASSUME Depth \in Nat, Good(sw, Depth, Wins(swStack))
    PROVE  ModalExact
<1> DEFINE n == Depth
           run == Wins(swStack)
           lit == {v \in Alive(sw) : sw.win[v].vis}
           tops == {m \in Alive(sw) : IsMain(sw, m)}
           S == Descend(sw, tops, lit)
<1>0. n \in Nat /\ Good(sw, n, run)
  OBVIOUS
<1>1. \A i \in 1..n : run[i] = swStack[i].win
  BY DEF Wins, Depth
<1>2. \A d : Runs(d, n, run) <=> d \in Modal
  BY <1>1 DEF Runs, Modal
<1> HIDE DEF run, n
<1>3. \A i \in 1..n : run[i] # 0
  <2>1. \A i \in 1..n : run[i] \in Nat /\ run[i] > 2
    BY <1>0, RunOf
  <2> QED  BY <2>1
<1>4. ASSUME NEW w \in Alive(sw), sw.win[w].by # 0
      PROVE  Runs(sw.win[w].by, n, run)
  BY <1>0, <1>4 DEF Good, Blocked, Runs
<1>5. Below(sw, tops, lit, S)
  <2>1. IsFiniteSet(Alive(sw)) /\ lit \subseteq Alive(sw)
    BY <1>0 DEF Good, Named, Numbered
  <2>2. IsFiniteSet(lit)
    BY <2>1, FS_Subset
  <2> HIDE DEF lit, tops
  <2> QED  BY <2>2, DescendIs
<1>6. \A v : OnScreen(v) <=> v \in S
  BY DEF OnScreen
<1>7. \A v \in S : v \in lit /\ (v \in tops \/ sw.win[v].up \in S)
  <2> HIDE DEF lit, tops, S
  <2> QED  BY <1>5, FromAbove
<1> HIDE DEF S
<1>8. ASSUME NEW w \in Alive(sw), n > 0, OnScreen(w)
      PROVE  sw.win[w].by = 0 <=> IsIn(sw, w, run[n])
  <2>1. sw.win[w].level \in Nat /\ sw.win[w].level <= n
    BY <1>0, WindowOf
  <2>2. CASE sw.win[w].level < n
    <3>1. Runs(sw.win[w].by, n, run) <=> ~IsIn(sw, w, run[n])
      BY <1>0, <1>8, <2>2 DEF Good, Parted
    <3>2. Runs(sw.win[w].by, n, run) <=> sw.win[w].by # 0
      BY <1>3, <1>4 DEF Runs
    <3> QED  BY <3>1, <3>2
  <2>3. CASE sw.win[w].level = n
    <3>1. \A i \in 1..n : sw.win[run[i]].level # n
      BY <1>0, RunOf
    <3>2. ASSUME NEW d \in Dialogs, d \in Alive(sw), sw.win[d].level = n, OnScreen(d)
          PROVE  FALSE
      <4>1. ~Runs(d, n, run)
        BY <3>1, <3>2 DEF Runs
      <4>2. sw.win[d].vis = FALSE
        BY <1>0, <3>2, <4>1 DEF Good, Running
      <4> QED  BY <1>6, <1>7, <3>2, <4>2
    <3>3. w \in {1, 2} \/ w \in Dialogs \/ (w - 1 \in Dialogs /\ w - 1 \in Alive(sw))
      BY <1>0, WindowOf
    <3>4. w \notin {1, 2}
      BY <1>0, <1>8, <2>3 DEF Good, Parents
    <3>5. CASE w - 1 \in Dialogs /\ w - 1 \in Alive(sw)
      <4>1. ElementOf(sw, w, w - 1)
        BY <1>0, <3>5 DEF Good, Parents
      <4>2. w \notin tops
        BY <4>1 DEF ElementOf, IsMain
      <4>3. OnScreen(w - 1)
        BY <1>6, <1>7, <1>8, <4>1, <4>2 DEF ElementOf
      <4> QED  BY <2>3, <3>2, <3>5, <4>1, <4>3 DEF ElementOf
    <3> QED  BY <1>8, <2>3, <3>2, <3>3, <3>4, <3>5
  <2>4. sw.win[w].level < n \/ sw.win[w].level = n
    BY <1>0, <2>1
  <2> QED  BY <2>2, <2>3, <2>4
<1>9. n > 0 => run[n] = swStack[Depth].win
  BY <1>0, <1>1 DEF n
<1> QED
  BY <1>2, <1>4, <1>8, <1>9 DEF ModalExact, n

\* A dialog that is constructed: it and its element are new, and not blocked.
Made(s, t, d, n) ==
    /\ t \in Desktops(Alive(t)) /\ Alive(t) = Alive(s) \cup {d, d + 1}
    /\ \A w \in Alive(s) : t.win[w] = s.win[w]
    /\ UnderDialog(t, d, n) /\ t.win[d].up \in Alive(s) /\ t.win[d].level = n /\ t.win[d].by = 0 /\ t.win[d].vis = FALSE
    /\ ElementOf(t, d + 1, d) /\ t.win[d + 1].by = 0

LEMMA MadeIsGood ==
    ASSUME NEW s, NEW n \in Nat, NEW run, Good(s, n, run), NEW d \in Dialogs, d \notin Alive(s),
           NEW t, Made(s, t, d, n)
    PROVE  Good(t, n, run)
<1>0. Alive(t) = Alive(s) \cup {d, d + 1} /\ \A w \in Alive(s) : t.win[w] = s.win[w]
  BY DEF Made
<1>1. Numbered(s) /\ Numbered(t) /\ d \in Nat /\ d > 2 /\ d + 1 \notin Dialogs
  <2>1. d \in Nat /\ d > 2 /\ d + 1 \notin Dialogs /\ d + 1 \in Nat
    BY WinTreeAssumption
  <2>2. IsFiniteSet({d, d + 1})
    <3>1. IsFiniteSet({d}) /\ IsFiniteSet({d + 1}) /\ {d, d + 1} = {d} \cup {d + 1}
      BY FS_Singleton
    <3> QED  BY <3>1, FS_Union
  <2>3. IsFiniteSet(Alive(s)) /\ Alive(s) \subseteq Nat
    BY DEF Good, Named, Numbered
  <2>4. IsFiniteSet(Alive(s) \cup {d, d + 1})
    BY <2>2, <2>3, FS_Union
  <2> QED  BY <1>0, <2>1, <2>3, <2>4 DEF Numbered
<1>2. d + 1 \notin Alive(s)
  <2> SUFFICES ASSUME d + 1 \in Alive(s) PROVE FALSE
    OBVIOUS
  <2> PICK e \in Alive(s) : e = d + 1
    OBVIOUS
  <2>1. e \in {1, 2} \/ e \in Dialogs \/ (e - 1 \in Dialogs /\ e - 1 \in Alive(s))
    BY WindowOf
  <2> QED  BY <1>1, <2>1
<1>3. \A w \in Alive(s) : s.win[w].up \notin {d, d + 1}
  <2> SUFFICES ASSUME NEW w \in Alive(s) PROVE s.win[w].up \notin {d, d + 1}
    OBVIOUS
  <2>1. w \in {1, 2} \/ w \in Dialogs \/ (w - 1 \in Dialogs /\ w - 1 \in Alive(s))
    BY WindowOf
  <2>2. CASE w \in {1, 2}
    BY <1>1, <2>2 DEF Good, Parents
  <2>3. CASE w \in Dialogs
    BY <1>2, <2>3 DEF Good, Parents, UnderDialog
  <2>4. CASE w - 1 \in Dialogs /\ w - 1 \in Alive(s)
    BY <1>2, <2>4 DEF Good, Parents, ElementOf
  <2> QED  BY <2>1, <2>2, <2>3, <2>4
<1>4. Named(t)
  <2>1. {1, 2} \subseteq Alive(t)
    BY <1>0 DEF Good, Named
  <2>2. ASSUME NEW w \in Alive(t)
        PROVE  w \in {1, 2} \/ (w \in Dialogs /\ w + 1 \in Alive(t)) \/ (w - 1 \in Dialogs /\ w - 1 \in Alive(t))
    <3>1. CASE w \in Alive(s)
      BY <1>0, <3>1 DEF Good, Named
    <3>2. CASE w = d
      BY <1>0, <3>2
    <3>3. CASE w = d + 1
      BY <1>0, <1>1, <3>3
    <3> QED  BY <1>0, <3>1, <3>2, <3>3
  <2> QED  BY <1>1, <2>1, <2>2 DEF Named
<1>5. Parents(t, n)
  <2> SUFFICES ASSUME NEW w \in Alive(t)
               PROVE  /\ t.win[w].up \in Alive(t) => t.win[t.win[w].up].level <= t.win[w].level
                      /\ w - 1 \in Dialogs => ElementOf(t, w, w - 1)
                      /\ w \in Dialogs => UnderDialog(t, w, n)
                      /\ w \in {1, 2} => t.win[w].up \in {0, 1} /\ t.win[w].level = 0
    BY DEF Parents
  <2>1. CASE w \in Alive(s)
    <3>1. /\ s.win[w].up \in Alive(s) => s.win[s.win[w].up].level <= s.win[w].level
          /\ w - 1 \in Dialogs => ElementOf(s, w, w - 1)
          /\ w \in Dialogs => UnderDialog(s, w, n)
          /\ w \in {1, 2} => s.win[w].up \in {0, 1} /\ s.win[w].level = 0
      BY <2>1 DEF Good, Parents
    <3>2. t.win[w] = s.win[w] /\ (s.win[w].up \in Alive(t) => s.win[w].up \in Alive(s))
      BY <1>0, <1>3, <2>1
    <3>3. w - 1 \in Dialogs => w - 1 \in Alive(s)
      BY <2>1, DialogOfElement
    <3>4. w - 1 \in Dialogs => ElementOf(t, w, w - 1)
      BY <1>0, <3>1, <3>2, <3>3 DEF ElementOf
    <3>5. w \in Dialogs => UnderDialog(t, w, n)
      BY <1>0, <3>1, <3>2 DEF UnderDialog
    <3> QED  BY <1>0, <3>1, <3>2, <3>4, <3>5
  <2>2. CASE w = d
    <3>1. s.win[t.win[d].up].level <= n /\ t.win[d].up \in Alive(s)
      BY WindowOf DEF Made
    <3>2. w \notin {1, 2} /\ w - 1 \notin Dialogs
      BY <1>1, <2>2, WinTreeAssumption
    <3> QED  BY <1>0, <2>2, <3>1, <3>2 DEF Made
  <2>3. CASE w = d + 1
    <3>1. ElementOf(t, d + 1, d) /\ w - 1 = d /\ w \notin Dialogs /\ w \notin {1, 2} /\ t.win[d].level = n
      BY <1>1, <2>3 DEF Made
    <3> QED  BY <2>3, <3>1 DEF ElementOf
  <2> QED  BY <1>0, <2>1, <2>2, <2>3
<1>6. Running(t, n, run)
  <2>1. \A i \in 1..n : run[i] \in Dialogs /\ run[i] \in Alive(t) /\ t.win[run[i]].level = i - 1
    BY <1>0, RunOf
  <2>2. ASSUME NEW e \in Dialogs, e \in Alive(t), ~Runs(e, n, run)
        PROVE  t.win[e].vis = FALSE
    <3>1. CASE e \in Alive(s)
      BY <1>0, <2>2, <3>1 DEF Good, Running
    <3>2. CASE e = d
      BY <3>2 DEF Made
    <3> QED  BY <1>0, <1>1, <2>2, <3>1, <3>2
  <2> QED  BY <2>1, <2>2 DEF Running
<1>7. t.win[d].by = 0 /\ t.win[d + 1].by = 0 /\ t.win[d].level = n /\ t.win[d + 1].level = n
  BY DEF Made, ElementOf
<1>8. Blocked(t, n, run)
  BY <1>0, <1>7 DEF Good, Blocked
<1>9. Parted(t, n, run)
  <2> SUFFICES ASSUME NEW i \in 1..n, NEW w \in Alive(t), t.win[w].level < i
               PROVE  Runs(t.win[w].by, i, run) <=> ~IsIn(t, w, run[i])
    BY DEF Parted
  <2>1. w \in Alive(s)
    BY <1>0, <1>7
  <2>2. run[i] \in Alive(s)
    BY RunOf
  <2>3. \A v \in Alive(s) : t.win[v].up = s.win[v].up /\ ~(s.win[v].up \in Alive(t) \ Alive(s))
    BY <1>0, <1>3
  <2>4. IsIn(t, w, run[i]) <=> IsIn(s, w, run[i])
    BY <1>0, <1>1, <2>1, <2>2, <2>3, WiderTree DEF Numbered
  <2>5. Runs(s.win[w].by, i, run) <=> ~IsIn(s, w, run[i])
    BY <1>0, <2>1 DEF Good, Parted
  <2> QED  BY <1>0, <2>1, <2>4, <2>5
<1>10. t \in Desktops(Alive(t))
  BY DEF Made
<1> QED
  BY <1>4, <1>5, <1>6, <1>8, <1>9, <1>10 DEF Good

\* Blocking and unblocking change by, and nothing else.
SameButBy(s, t) ==
    /\ t \in Desktops(Alive(t)) /\ Alive(t) = Alive(s) /\ t.kind = s.kind
    /\ \A w \in Alive(s) : /\ t.win[w].up = s.win[w].up /\ t.win[w].kind = s.win[w].kind
                           /\ t.win[w].vis = s.win[w].vis /\ t.win[w].level = s.win[w].level

LEMMA PutWins ==
    ASSUME NEW s, s \in Desktops(Alive(s)), NEW f \in [Alive(s) -> Windows]
    PROVE  /\ [s EXCEPT !.win = f] \in Desktops(Alive(s)) /\ [s EXCEPT !.win = f].win = f
           /\ Alive([s EXCEPT !.win = f]) = Alive(s) /\ [s EXCEPT !.win = f].kind = s.kind
BY DEF Desktops, Alive

LEMMA PutBy ==
    ASSUME NEW v \in Windows, NEW b \in Nat
    PROVE  /\ [v EXCEPT !.by = b] \in Windows /\ [v EXCEPT !.by = b].by = b
           /\ [v EXCEPT !.by = b].up = v.up /\ [v EXCEPT !.by = b].kind = v.kind
           /\ [v EXCEPT !.by = b].vis = v.vis /\ [v EXCEPT !.by = b].level = v.level
BY DEF Windows

LEMMA BlockIs ==
    ASSUME NEW s, s \in Desktops(Alive(s)), NEW d \in Nat
    PROVE  /\ SameButBy(s, AppBlock(s, d))
           /\ \A w \in Alive(s) : AppBlock(s, d).win[w].by = IF s.win[w].by = 0 THEN d ELSE s.win[w].by
<1> DEFINE f == [w \in Alive(s) |-> IF s.win[w].by = 0 THEN [s.win[w] EXCEPT !.by = d] ELSE s.win[w]]
           t == [s EXCEPT !.win = f]
<1>1. AppBlock(s, d) = t
  BY DEF AppBlock
<1>2. \A w \in Alive(s) : s.win[w] \in Windows
  BY DEF Desktops
<1>3. \A w \in Alive(s) : /\ f[w] \in Windows /\ f[w].up = s.win[w].up /\ f[w].kind = s.win[w].kind
                          /\ f[w].vis = s.win[w].vis /\ f[w].level = s.win[w].level
                          /\ f[w].by = IF s.win[w].by = 0 THEN d ELSE s.win[w].by
  BY <1>2, PutBy
<1>4. f \in [Alive(s) -> Windows]
  BY <1>3
<1> HIDE DEF f
<1>5. t \in Desktops(Alive(s)) /\ t.win = f /\ Alive(t) = Alive(s) /\ t.kind = s.kind
  BY <1>4, PutWins
<1> HIDE DEF t
<1> QED
  BY <1>1, <1>3, <1>5 DEF SameButBy

LEMMA UnblockIs ==
    ASSUME NEW s, s \in Desktops(Alive(s)), NEW d
    PROVE  /\ SameButBy(s, AppUnblock(s, d))
           /\ \A w \in Alive(s) : AppUnblock(s, d).win[w].by = IF s.win[w].by = d THEN 0 ELSE s.win[w].by
<1> PICK z \in Nat : z = 0
  OBVIOUS
<1> DEFINE f == [w \in Alive(s) |-> IF s.win[w].by = d THEN [s.win[w] EXCEPT !.by = z] ELSE s.win[w]]
           t == [s EXCEPT !.win = f]
<1>1. AppUnblock(s, d) = t
  BY DEF AppUnblock
<1>2. \A w \in Alive(s) : s.win[w] \in Windows
  BY DEF Desktops
<1>3. \A w \in Alive(s) : /\ f[w] \in Windows /\ f[w].up = s.win[w].up /\ f[w].kind = s.win[w].kind
                          /\ f[w].vis = s.win[w].vis /\ f[w].level = s.win[w].level
                          /\ f[w].by = IF s.win[w].by = d THEN z ELSE s.win[w].by
  BY <1>2, PutBy
<1>4. f \in [Alive(s) -> Windows]
  BY <1>3
<1> HIDE DEF f
<1>5. t \in Desktops(Alive(s)) /\ t.win = f /\ Alive(t) = Alive(s) /\ t.kind = s.kind
  BY <1>4, PutWins
<1> HIDE DEF t
<1> QED
  BY <1>1, <1>3, <1>5 DEF SameButBy

LEMMA UnblockTreeIs ==
    ASSUME NEW s, s \in Desktops(Alive(s)), NEW d
    PROVE  LET tree == Descend(s, {d}, {w \in Alive(s) : s.win[w].by = d}) IN
           /\ SameButBy(s, UnblockTree(s, d))
           /\ \A w \in Alive(s) : UnblockTree(s, d).win[w].by = IF w \in tree THEN 0 ELSE s.win[w].by
<1> PICK z \in Nat : z = 0
  OBVIOUS
<1> DEFINE tree == Descend(s, {d}, {w \in Alive(s) : s.win[w].by = d})
           f == [w \in Alive(s) |-> IF w \in tree THEN [s.win[w] EXCEPT !.by = z] ELSE s.win[w]]
           t == [s EXCEPT !.win = f]
<1>1. UnblockTree(s, d) = t
  BY DEF UnblockTree
<1> HIDE DEF tree
<1>2. \A w \in Alive(s) : s.win[w] \in Windows
  BY DEF Desktops
<1>3. \A w \in Alive(s) : /\ f[w] \in Windows /\ f[w].up = s.win[w].up /\ f[w].kind = s.win[w].kind
                          /\ f[w].vis = s.win[w].vis /\ f[w].level = s.win[w].level
                          /\ f[w].by = IF w \in tree THEN z ELSE s.win[w].by
  BY <1>2, PutBy
<1>4. f \in [Alive(s) -> Windows]
  BY <1>3
<1> HIDE DEF f
<1>5. t \in Desktops(Alive(s)) /\ t.win = f /\ Alive(t) = Alive(s) /\ t.kind = s.kind
  BY <1>4, PutWins
<1> HIDE DEF t
<1>6. SameButBy(s, UnblockTree(s, d))
  BY <1>1, <1>3, <1>5 DEF SameButBy
<1>7. \A w \in Alive(s) : UnblockTree(s, d).win[w].by = IF w \in tree THEN 0 ELSE s.win[w].by
  BY <1>1, <1>3, <1>5
<1> QED
  BY <1>6, <1>7 DEF tree

\* Showing and hiding change vis.
SameButVis(s, t, d, b) ==
    /\ t \in Desktops(Alive(t)) /\ Alive(t) = Alive(s) /\ t.kind = s.kind
    /\ \A w \in Alive(s) : /\ t.win[w].up = s.win[w].up /\ t.win[w].kind = s.win[w].kind
                           /\ t.win[w].by = s.win[w].by /\ t.win[w].level = s.win[w].level
    /\ \A w \in Alive(s) : w # d => t.win[w] = s.win[w]
    /\ t.win[d].vis = b

LEMMA PutVis ==
    ASSUME NEW s, s \in Desktops(Alive(s)), NEW d \in Alive(s), NEW b \in BOOLEAN
    PROVE  SameButVis(s, [s EXCEPT !.win[d].vis = b], d, b)
<1> DEFINE new == [s.win[d] EXCEPT !.vis = b]
           f == [s.win EXCEPT ![d] = new]
           t == [s EXCEPT !.win = f]
<1>1. s.win \in [Alive(s) -> Windows] /\ s.win[d] \in Windows
  BY DEF Desktops
<1>2. /\ new \in Windows /\ new.vis = b /\ new.up = s.win[d].up /\ new.kind = s.win[d].kind
      /\ new.by = s.win[d].by /\ new.level = s.win[d].level
  BY <1>1 DEF Windows
<1>3. [s EXCEPT !.win[d].vis = b] = t
  OBVIOUS
<1> HIDE DEF new
<1>4. f \in [Alive(s) -> Windows] /\ f[d] = new /\ \A w \in Alive(s) : w # d => f[w] = s.win[w]
  BY <1>1, <1>2
<1> HIDE DEF f
<1>5. t \in Desktops(Alive(s)) /\ t.win = f /\ Alive(t) = Alive(s) /\ t.kind = s.kind
  BY <1>4, PutWins
<1> HIDE DEF t
<1>6. /\ t \in Desktops(Alive(t)) /\ Alive(t) = Alive(s) /\ t.kind = s.kind /\ t.win[d].vis = b
      /\ \A w \in Alive(s) : w # d => t.win[w] = s.win[w]
  BY <1>2, <1>4, <1>5
<1>7. \A w \in Alive(s) : /\ t.win[w].up = s.win[w].up /\ t.win[w].kind = s.win[w].kind
                          /\ t.win[w].by = s.win[w].by /\ t.win[w].level = s.win[w].level
  BY <1>2, <1>4, <1>5
<1>8. SameButVis(s, t, d, b)
  BY <1>6, <1>7 DEF SameButVis
<1> QED
  BY <1>3, <1>8 DEF t

\* A DoModal that begins: whatever is not below d is blocked, by d unless it was already.
Begun(s, t, d) ==
    /\ t \in Desktops(Alive(t)) /\ Alive(t) = Alive(s)
    /\ \A w \in Alive(s) : /\ t.win[w].up = s.win[w].up /\ t.win[w].kind = s.win[w].kind
                           /\ t.win[w].level = s.win[w].level
                           /\ w # d => t.win[w].vis = s.win[w].vis
                           /\ IsIn(s, w, d) => t.win[w].by = 0
                           /\ ~IsIn(s, w, d) => t.win[w].by = IF s.win[w].by = 0 THEN d ELSE s.win[w].by

\* The windows below a dialog in hand are as young as it, and not blocked.
LEMMA BelowInHand ==
    ASSUME NEW s, NEW n \in Nat, NEW run, Good(s, n, run), NEW d \in Alive(s), s.win[d].level = n,
           NEW w \in Alive(s), IsIn(s, w, d)
    PROVE  s.win[w].level = n /\ s.win[w].by = 0
<1> DEFINE T == Descend(s, {d}, Alive(s))
           X == {v \in Alive(s) : s.win[v].level >= n}
<1>1. Below(s, {d}, Alive(s), T)
  BY DescendIs DEF Good, Named, Numbered
<1>2. \A v \in Alive(s) : s.win[v].level \in Nat
  BY WindowOf
<1>3. ASSUME NEW v \in Alive(s), s.win[v].up \in X
      PROVE  v \in X
  <2>1. s.win[s.win[v].up].level <= s.win[v].level
    BY <1>3 DEF Good, Parents
  <2> QED  BY <1>2, <1>3, <2>1
<1>4. {d} \cap Alive(s) \subseteq X
  OBVIOUS
<1> HIDE DEF T, X
<1>5. T \subseteq X
  BY <1>1, <1>3, <1>4 DEF Below
<1>6. w \in X
  BY <1>5 DEF IsIn, T
<1>7. s.win[w].level >= n /\ s.win[w].level <= n /\ s.win[w].level \in Nat
  BY <1>6, WindowOf DEF X
<1>8. s.win[w].level = n
  BY <1>7
<1>9. s.win[w].by = 0
  BY <1>8 DEF Good, Blocked
<1> QED
  BY <1>8, <1>9

LEMMA BegunIs ==
    ASSUME NEW s, NEW n \in Nat, NEW run, Good(s, n, run), NEW d \in Dialogs, d \in Alive(s),
           ~Runs(d, n, run), s.win[d].level = n
    PROVE  Begun(s, UnblockTree(AppBlock([s EXCEPT !.win[d].vis = TRUE], d), d), d)
<1> PICK yes \in BOOLEAN : yes = TRUE
  OBVIOUS
<1> DEFINE v == [s EXCEPT !.win[d].vis = yes]
           b == AppBlock(v, d)
           t == UnblockTree(b, d)
           I == {w \in Alive(b) : b.win[w].by = d}
           U == Descend(b, {d}, I)
           T == Descend(s, {d}, Alive(s))
<1>0. s \in Desktops(Alive(s)) /\ d \in Nat /\ d > 2 /\ IsFiniteSet(Alive(s))
  BY WinTreeAssumption DEF Good, Named, Numbered
<1>1. /\ v \in Desktops(Alive(v)) /\ Alive(v) = Alive(s)
      /\ \A w \in Alive(s) : /\ v.win[w].up = s.win[w].up /\ v.win[w].kind = s.win[w].kind
                             /\ v.win[w].by = s.win[w].by /\ v.win[w].level = s.win[w].level
      /\ \A w \in Alive(s) : w # d => v.win[w] = s.win[w]
  <2>1. SameButVis(s, v, d, yes)
    BY <1>0, PutVis
  <2> QED  BY <2>1 DEF SameButVis
<1> HIDE DEF v
<1>2. /\ SameButBy(v, b)
      /\ \A w \in Alive(v) : b.win[w].by = IF v.win[w].by = 0 THEN d ELSE v.win[w].by
  BY <1>0, <1>1, BlockIs
<1> HIDE DEF b
<1>3. b \in Desktops(Alive(b)) /\ Alive(b) = Alive(s)
  BY <1>1, <1>2 DEF SameButBy
<1>4. /\ SameButBy(b, t)
      /\ \A w \in Alive(b) : t.win[w].by = IF w \in U THEN 0 ELSE b.win[w].by
  BY <1>3, UnblockTreeIs
<1> HIDE DEF t
<1>5. \A w \in Alive(s) : s.win[w].by # d
  BY <1>0 DEF Good, Blocked, Runs
<1>6. \A w \in Alive(s) : w \in I <=> s.win[w].by = 0
  BY <1>0, <1>1, <1>2, <1>3, <1>5
<1>7. IsFiniteSet(I) /\ I \subseteq Alive(s)
  <2>1. I \subseteq Alive(s)
    BY <1>3
  <2> QED  BY <1>0, <2>1, FS_Subset
<1> HIDE DEF I
<1>8. Below(b, {d}, I, U) /\ Below(s, {d}, Alive(s), T)
  BY <1>0, <1>7, DescendIs
<1>9. \A w \in Alive(s) : w \in T => s.win[w].by = 0
  <2> HIDE DEF T
  <2>1. \A w : w \in T <=> IsIn(s, w, d)
    BY DEF IsIn, T
  <2> QED  BY <2>1, BelowInHand
<1>10. \A w \in Alive(s) : b.win[w].up = s.win[w].up
  BY <1>1, <1>2 DEF SameButBy
<1> HIDE DEF T, U
<1>11. T \subseteq U
  <2> DEFINE X == T \cap U
  <2>1. d \in T /\ T \subseteq Alive(s)
    BY <1>8 DEF Below
  <2>2. d \in U
    BY <1>6, <1>8, <1>9, <2>1 DEF Below
  <2>3. ASSUME NEW w \in Alive(s), s.win[w].up \in X
        PROVE  w \in X
    <3>1. w \in T
      BY <1>8, <2>3 DEF Below
    <3>2. w \in I
      BY <1>6, <1>9, <3>1
    <3>3. w \in U
      BY <1>8, <1>10, <2>3, <3>2 DEF Below
    <3> QED  BY <3>1, <3>3
  <2>4. {d} \cap Alive(s) \subseteq X
    BY <2>1, <2>2
  <2> HIDE DEF X
  <2>5. T \subseteq X
    BY <1>8, <2>3, <2>4 DEF Below
  <2> QED  BY <2>5 DEF X
<1>12. U \subseteq T
  <2>1. \A w \in I : b.win[w].up \in T => w \in T
    BY <1>7, <1>8, <1>10 DEF Below
  <2>2. {d} \cap I \subseteq T
    BY <1>8 DEF Below
  <2> QED  BY <1>8, <2>1, <2>2 DEF Below
<1>13. \A w : IsIn(s, w, d) <=> w \in U
  BY <1>11, <1>12 DEF IsIn, T
<1>14. t \in Desktops(Alive(t)) /\ Alive(t) = Alive(s)
  BY <1>3, <1>4 DEF SameButBy
<1>15. \A w \in Alive(s) : /\ t.win[w].up = s.win[w].up /\ t.win[w].kind = s.win[w].kind
                           /\ t.win[w].level = s.win[w].level
                           /\ w # d => t.win[w].vis = s.win[w].vis
  BY <1>1, <1>2, <1>3, <1>4 DEF SameButBy
<1>16. \A w \in Alive(s) : /\ IsIn(s, w, d) => t.win[w].by = 0
                           /\ ~IsIn(s, w, d) => t.win[w].by = IF s.win[w].by = 0 THEN d ELSE s.win[w].by
  BY <1>1, <1>2, <1>3, <1>4, <1>13
<1>17. Begun(s, t, d)
  BY <1>14, <1>15, <1>16 DEF Begun
<1> QED
  BY <1>17 DEF t, b, v

LEMMA BegunIsGood ==
    ASSUME NEW s, NEW n \in Nat, NEW run, Good(s, n, run), NEW d \in Dialogs, d \in Alive(s),
           ~Runs(d, n, run), s.win[d].level = n, NEW t, Begun(s, t, d),
           NEW next, \A i \in 1..n : next[i] = run[i], next[n + 1] = d
    PROVE  Good(t, n + 1, next)
<1> DEFINE m == n + 1
<1>0. m \in Nat /\ m \in 1..m /\ (\A i \in 1..m : i \in 1..n \/ i = m) /\ n < m /\ 1..n \subseteq 1..m
  OBVIOUS
<1>1. \A i \in 1..n : next[i] = run[i] /\ run[i] \in Dialogs /\ run[i] \in Alive(s) /\ s.win[run[i]].level = i - 1
  BY RunOf
<1>2. next[m] = d /\ m - 1 = n
  OBVIOUS
<1> HIDE DEF m
<1>3. \A w \in Alive(s) : /\ t.win[w].up = s.win[w].up /\ t.win[w].kind = s.win[w].kind
                          /\ t.win[w].level = s.win[w].level
                          /\ w # d => t.win[w].vis = s.win[w].vis
                          /\ IsIn(s, w, d) => t.win[w].by = 0
                          /\ ~IsIn(s, w, d) => t.win[w].by = IF s.win[w].by = 0 THEN d ELSE s.win[w].by
  BY DEF Begun
<1>4. Alive(t) = Alive(s) /\ t \in Desktops(Alive(t))
  BY DEF Begun
<1>5. d \in Nat /\ d > 2 /\ IsFiniteSet(Alive(s))
  BY WinTreeAssumption DEF Good, Named, Numbered
<1>6. Named(t)
  BY <1>4 DEF Good, Named, Numbered
<1>7. Parents(t, m)
  <2> SUFFICES ASSUME NEW w \in Alive(s)
               PROVE  /\ t.win[w].up \in Alive(s) => t.win[t.win[w].up].level <= t.win[w].level
                      /\ w - 1 \in Dialogs => ElementOf(t, w, w - 1)
                      /\ w \in Dialogs => UnderDialog(t, w, m)
                      /\ w \in {1, 2} => t.win[w].up \in {0, 1} /\ t.win[w].level = 0
    BY <1>4 DEF Parents
  <2>1. /\ s.win[w].up \in Alive(s) => s.win[s.win[w].up].level <= s.win[w].level
        /\ w - 1 \in Dialogs => ElementOf(s, w, w - 1)
        /\ w \in Dialogs => UnderDialog(s, w, n)
        /\ w \in {1, 2} => s.win[w].up \in {0, 1} /\ s.win[w].level = 0
    BY DEF Good, Parents
  <2>2. w - 1 \in Dialogs => w - 1 \in Alive(s)
    BY DialogOfElement
  <2>3. w - 1 \in Dialogs => ElementOf(t, w, w - 1)
    BY <1>3, <2>1, <2>2 DEF ElementOf
  <2>4. s.win[w].level \in Nat
    BY WindowOf
  <2>5. w \in Dialogs => UnderDialog(t, w, m)
    BY <1>0, <1>3, <1>4, <2>1, <2>4 DEF UnderDialog
  <2> QED  BY <1>3, <2>1, <2>3, <2>5
<1>8. Running(t, m, next)
  <2>1. ASSUME NEW i \in 1..m
        PROVE  next[i] \in Dialogs /\ next[i] \in Alive(t) /\ t.win[next[i]].level = i - 1
    <3>1. CASE i \in 1..n
      BY <1>1, <1>3, <1>4, <3>1
    <3>2. CASE i = m
      BY <1>2, <1>3, <1>4, <3>2
    <3> QED  BY <1>0, <3>1, <3>2
  <2>2. ASSUME NEW e \in Dialogs, e \in Alive(t), ~Runs(e, m, next)
        PROVE  t.win[e].vis = FALSE
    <3>1. e # d
      BY <1>0, <1>2, <2>2 DEF Runs
    <3>2. ~Runs(e, n, run)
      BY <1>0, <1>1, <2>2 DEF Runs
    <3>3. s.win[e].vis = FALSE
      BY <1>4, <2>2, <3>2 DEF Good, Running
    <3> QED  BY <1>3, <1>4, <2>2, <3>1, <3>3
  <2> QED  BY <2>1, <2>2 DEF Running
<1>9. ASSUME NEW w \in Alive(s), t.win[w].by # 0
      PROVE  \E i \in 1..m : t.win[w].by = next[i] /\ t.win[w].level < i
  <2>1. CASE s.win[w].by = 0
    <3>1. t.win[w].by = d
      BY <1>3, <1>9, <2>1
    <3>2. t.win[w].level < m
      <4>1. s.win[w].level \in Nat /\ s.win[w].level <= n
        BY WindowOf
      <4> QED  BY <1>0, <1>3, <4>1
    <3> QED  BY <1>0, <1>2, <3>1, <3>2
  <2>2. CASE s.win[w].by # 0
    <3>1. PICK i \in 1..n : s.win[w].by = run[i] /\ s.win[w].level < i
      BY <2>2 DEF Good, Blocked
    <3>2. t.win[w].by = s.win[w].by
      BY <1>3, <1>9, <2>2
    <3> QED  BY <1>0, <1>1, <1>3, <3>1, <3>2
  <2> QED  BY <2>1, <2>2
<1>10. Blocked(t, m, next)
  BY <1>4, <1>9 DEF Blocked
<1>11. ASSUME NEW i \in 1..m, NEW w \in Alive(s), s.win[w].level < i
       PROVE  Runs(t.win[w].by, i, next) <=> ~IsIn(s, w, next[i])
  <2>1. CASE i \in 1..n
    <3>1. Runs(s.win[w].by, i, run) <=> ~IsIn(s, w, run[i])
      BY <1>11, <2>1 DEF Good, Parted
    <3>2. \A j \in 1..i : j \in 1..n /\ next[j] = run[j] /\ run[j] # 0 /\ run[j] # d
      <4>1. \A j \in 1..i : j \in 1..n
        BY <2>1
      <4>2. \A j \in 1..n : run[j] # d
        BY DEF Runs
      <4>3. \A j \in 1..n : run[j] # 0
        BY <1>1, WinTreeAssumption
      <4> QED  BY <1>1, <4>1, <4>2, <4>3
    <3>3. t.win[w].by = s.win[w].by \/ (s.win[w].by = 0 /\ t.win[w].by = d) \/ (t.win[w].by = 0 /\ IsIn(s, w, d))
      BY <1>3
    <3>4. CASE t.win[w].by = s.win[w].by \/ (s.win[w].by = 0 /\ t.win[w].by = d)
      <4>1. Runs(t.win[w].by, i, next) <=> Runs(s.win[w].by, i, run)
        BY <3>2, <3>4 DEF Runs
      <4> QED  BY <1>1, <2>1, <3>1, <4>1
    <3>5. CASE IsIn(s, w, d)
      <4>1. s.win[w].level = n
        BY <3>5, BelowInHand
      <4> QED  BY <1>11, <2>1, <4>1
    <3> QED  BY <3>3, <3>4, <3>5
  <2>2. CASE i = m
    <3>1. Runs(t.win[w].by, m, next) <=> t.win[w].by # 0
      <4>1. ASSUME NEW j \in 1..m
            PROVE  next[j] # 0
        BY <1>0, <1>1, <1>2, <1>5, WinTreeAssumption
      <4>2. t.win[w].by # 0 => Runs(t.win[w].by, m, next)
        BY <1>9 DEF Runs
      <4> QED  BY <4>1, <4>2 DEF Runs
    <3>2. t.win[w].by = 0 <=> IsIn(s, w, d)
      BY <1>3, <1>5
    <3> QED  BY <1>2, <2>2, <3>1, <3>2
  <2> QED  BY <1>0, <2>1, <2>2
<1>12. Parted(t, m, next)
  <2> SUFFICES ASSUME NEW i \in 1..m, NEW w \in Alive(s), t.win[w].level < i
               PROVE  Runs(t.win[w].by, i, next) <=> ~IsIn(t, w, next[i])
    BY <1>4 DEF Parted
  <2>1. next[i] \in Alive(s)
    BY <1>4, <1>8 DEF Running
  <2>2. \A v \in Alive(s) : t.win[v].up = s.win[v].up /\ ~(s.win[v].up \in Alive(t) \ Alive(s))
    BY <1>3, <1>4
  <2>3. IsIn(t, w, next[i]) <=> IsIn(s, w, next[i])
    BY <1>4, <1>5, <2>1, <2>2, WiderTree
  <2>4. s.win[w].level < i
    BY <1>3
  <2> QED  BY <1>11, <2>3, <2>4
<1> QED
  BY <1>4, <1>6, <1>7, <1>8, <1>10, <1>12 DEF Good, m

\* The innermost DoModal ends: its dialog is hidden and blocks nothing more.
Left(s, t, d) ==
    /\ t \in Desktops(Alive(t)) /\ Alive(t) = Alive(s)
    /\ \A w \in Alive(s) : /\ t.win[w].up = s.win[w].up /\ t.win[w].kind = s.win[w].kind
                           /\ t.win[w].level = s.win[w].level
                           /\ t.win[w].by = IF s.win[w].by = d THEN 0 ELSE s.win[w].by
                           /\ w # d => t.win[w].vis = s.win[w].vis
    /\ t.win[d].vis = FALSE

LEMMA LeftIsGood ==
    ASSUME NEW s, NEW n \in Nat, NEW m \in Nat, n = m + 1, NEW run, Good(s, n, run),
           \A e \in Dialogs : e \in Alive(s) /\ ~Runs(e, n, run) => s.win[e].level # n,
           NEW t, Left(s, t, run[n])
    PROVE  Good(t, m, run)
<1> DEFINE d == run[n]
<1>0. n \in 1..n /\ (\A i \in 1..n : i \in 1..m \/ i = n) /\ m < n /\ 1..m \subseteq 1..n /\ n - 1 = m /\ n \notin 1..m
  OBVIOUS
<1>1. \A i \in 1..n : run[i] \in Dialogs /\ run[i] \in Alive(s) /\ s.win[run[i]].level = i - 1
  BY RunOf
<1>2. d \in Dialogs /\ d \in Alive(s) /\ s.win[d].level = m /\ d \in Nat /\ d > 2 /\ IsFiniteSet(Alive(s))
  BY <1>0, <1>1, WinTreeAssumption DEF Good, Named, Numbered
<1>3. \A i \in 1..m : run[i] # d
  <2> SUFFICES ASSUME NEW i \in 1..m, run[i] = run[n]
               PROVE  FALSE
    OBVIOUS
  <2>2. i \in 1..n
    BY <1>0
  <2>3. s.win[run[i]].level = i - 1 /\ s.win[run[n]].level = n - 1
    BY <1>0, <1>1, <2>2
  <2>4. i - 1 = n - 1
    BY <2>3
  <2> QED  BY <1>0, <2>4
<1>4. Alive(t) = Alive(s) /\ t \in Desktops(Alive(t)) /\ t.win[d].vis = FALSE
  BY DEF Left
<1>5. \A w \in Alive(s) : /\ t.win[w].up = s.win[w].up /\ t.win[w].kind = s.win[w].kind
                          /\ t.win[w].level = s.win[w].level
                          /\ t.win[w].by = IF s.win[w].by = d THEN 0 ELSE s.win[w].by
                          /\ w # d => t.win[w].vis = s.win[w].vis
  BY DEF Left
<1> HIDE DEF d
<1>6. Named(t)
  BY <1>4 DEF Good, Named, Numbered
<1>7. \A e \in Dialogs : e \in Alive(s) => s.win[e].level <= m
  <2> SUFFICES ASSUME NEW e \in Dialogs, e \in Alive(s) PROVE s.win[e].level <= m
    OBVIOUS
  <2>1. s.win[e].level \in Nat /\ s.win[e].level <= n
    BY WindowOf
  <2>2. s.win[e].level # n
    <3>1. CASE Runs(e, n, run)
      <4>1. PICK i \in 1..n : run[i] = e
        BY <3>1 DEF Runs
      <4>2. s.win[e].level = i - 1
        BY <1>1, <4>1
      <4> QED  BY <4>2
    <3> QED  BY <3>1
  <2> QED  BY <2>1, <2>2
<1>8. Parents(t, m)
  <2> SUFFICES ASSUME NEW w \in Alive(s)
               PROVE  /\ t.win[w].up \in Alive(s) => t.win[t.win[w].up].level <= t.win[w].level
                      /\ w - 1 \in Dialogs => ElementOf(t, w, w - 1)
                      /\ w \in Dialogs => UnderDialog(t, w, m)
                      /\ w \in {1, 2} => t.win[w].up \in {0, 1} /\ t.win[w].level = 0
    BY <1>4 DEF Parents
  <2>1. /\ s.win[w].up \in Alive(s) => s.win[s.win[w].up].level <= s.win[w].level
        /\ w - 1 \in Dialogs => ElementOf(s, w, w - 1)
        /\ w \in Dialogs => UnderDialog(s, w, n)
        /\ w \in {1, 2} => s.win[w].up \in {0, 1} /\ s.win[w].level = 0
    BY DEF Good, Parents
  <2>2. w - 1 \in Dialogs => w - 1 \in Alive(s)
    BY DialogOfElement
  <2>3. w - 1 \in Dialogs => ElementOf(t, w, w - 1)
    BY <1>5, <2>1, <2>2 DEF ElementOf
  <2>4. w \in Dialogs => UnderDialog(t, w, m)
    BY <1>4, <1>5, <1>7, <2>1 DEF UnderDialog
  <2> QED  BY <1>5, <2>1, <2>3, <2>4
<1>9. Running(t, m, run)
  <2>1. \A i \in 1..m : run[i] \in Dialogs /\ run[i] \in Alive(t) /\ t.win[run[i]].level = i - 1
    BY <1>0, <1>1, <1>4, <1>5
  <2>2. ASSUME NEW e \in Dialogs, e \in Alive(t), ~Runs(e, m, run)
        PROVE  t.win[e].vis = FALSE
    <3>1. CASE e = d
      BY <1>4, <3>1
    <3>2. CASE e # d
      <4>1. ~Runs(e, n, run)
        BY <1>0, <2>2, <3>2 DEF Runs, d
      <4>2. s.win[e].vis = FALSE
        BY <1>4, <2>2, <4>1 DEF Good, Running
      <4> QED  BY <1>4, <1>5, <2>2, <3>2, <4>2
    <3> QED  BY <3>1, <3>2
  <2> QED  BY <2>1, <2>2 DEF Running
<1>10. Blocked(t, m, run)
  <2> SUFFICES ASSUME NEW w \in Alive(s), t.win[w].by # 0
               PROVE  \E i \in 1..m : t.win[w].by = run[i] /\ t.win[w].level < i
    BY <1>4 DEF Blocked
  <2>1. s.win[w].by # d /\ t.win[w].by = s.win[w].by
    BY <1>5
  <2>2. PICK i \in 1..n : s.win[w].by = run[i] /\ s.win[w].level < i
    BY <2>1 DEF Good, Blocked
  <2>3. i \in 1..m
    BY <1>0, <2>1, <2>2 DEF d
  <2> QED  BY <1>5, <2>1, <2>2, <2>3
<1>11. Parted(t, m, run)
  <2> SUFFICES ASSUME NEW i \in 1..m, NEW w \in Alive(s), t.win[w].level < i
               PROVE  Runs(t.win[w].by, i, run) <=> ~IsIn(t, w, run[i])
    BY <1>4 DEF Parted
  <2>1. run[i] \in Alive(s) /\ i \in 1..n
    BY <1>0, <1>1
  <2>2. \A v \in Alive(s) : t.win[v].up = s.win[v].up /\ ~(s.win[v].up \in Alive(t) \ Alive(s))
    BY <1>4, <1>5
  <2>3. IsIn(t, w, run[i]) <=> IsIn(s, w, run[i])
    BY <1>2, <1>4, <2>1, <2>2, WiderTree
  <2>4. s.win[w].level < i
    BY <1>5
  <2>5. Runs(s.win[w].by, i, run) <=> ~IsIn(s, w, run[i])
    BY <2>1, <2>4 DEF Good, Parted
  <2>6. \A j \in 1..i : j \in 1..m /\ run[j] # d /\ run[j] # 0
    <3>1. \A j \in 1..i : j \in 1..m
      OBVIOUS
    <3>2. \A j \in 1..m : run[j] # 0
      BY <1>0, <1>1, WinTreeAssumption
    <3> QED  BY <1>3, <3>1, <3>2
  <2>7. Runs(t.win[w].by, i, run) <=> Runs(s.win[w].by, i, run)
    BY <1>5, <2>6 DEF Runs
  <2> QED  BY <2>3, <2>5, <2>7
<1> QED
  BY <1>4, <1>6, <1>8, <1>9, <1>10, <1>11 DEF Good

\* A dialog that is destroyed, with its element.
Dropped(s, t, d) ==
    /\ t \in Desktops(Alive(t)) /\ Alive(t) = Alive(s) \ {d, d + 1}
    /\ \A w \in Alive(t) : /\ t.win[w].up = s.win[w].up /\ t.win[w].kind = s.win[w].kind
                           /\ t.win[w].level = s.win[w].level /\ t.win[w].by = s.win[w].by
                           /\ t.win[w].vis = s.win[w].vis

LEMMA DroppedIsGood ==
    ASSUME NEW s, NEW n \in Nat, NEW run, Good(s, n, run), NEW d \in Dialogs, d \in Alive(s), ~Runs(d, n, run),
           ~\E w \in Alive(s) : s.win[w].up = d /\ w # d + 1, NEW t, Dropped(s, t, d)
    PROVE  Good(t, n, run)
<1>1. Alive(t) = Alive(s) \ {d, d + 1} /\ t \in Desktops(Alive(t))
  BY DEF Dropped
<1>2. \A w \in Alive(t) : /\ t.win[w].up = s.win[w].up /\ t.win[w].kind = s.win[w].kind
                          /\ t.win[w].level = s.win[w].level /\ t.win[w].by = s.win[w].by
                          /\ t.win[w].vis = s.win[w].vis /\ w \in Alive(s)
  BY DEF Dropped
<1>3. d \in Nat /\ d > 2 /\ d + 1 \notin Dialogs
  BY WinTreeAssumption
<1>4. Numbered(t) /\ Numbered(s)
  <2>1. IsFiniteSet(Alive(s)) /\ Alive(s) \subseteq Nat
    BY DEF Good, Named, Numbered
  <2>2. IsFiniteSet(Alive(t))
    BY <1>1, <2>1, FS_Subset
  <2> QED  BY <1>1, <2>1, <2>2 DEF Numbered
<1>5. ASSUME NEW w \in Alive(t)
      PROVE  s.win[w].up \notin {d, d + 1}
  <2>0. w \in Alive(s) /\ w \notin {d, d + 1} /\ w \in Nat
    BY <1>1, <1>4 DEF Numbered
  <2>1. w \in {1, 2} \/ w \in Dialogs \/ (w - 1 \in Dialogs /\ w - 1 \in Alive(s))
    BY <2>0, WindowOf
  <2>2. s.win[w].up # d
    BY <2>0
  <2>3. CASE w \in {1, 2}
    BY <1>3, <2>0, <2>3 DEF Good, Parents
  <2>4. CASE w \in Dialogs
    BY <1>3, <2>0, <2>2, <2>4 DEF Good, Parents, UnderDialog
  <2>5. CASE w - 1 \in Dialogs /\ w - 1 \in Alive(s)
    BY <1>3, <2>0, <2>2, <2>5 DEF Good, Parents, ElementOf
  <2> QED  BY <2>1, <2>3, <2>4, <2>5
<1>6. Named(t)
  <2>1. {1, 2} \subseteq Alive(t)
    BY <1>1, <1>3 DEF Good, Named
  <2>2. ASSUME NEW w \in Alive(t)
        PROVE  w \in {1, 2} \/ (w \in Dialogs /\ w + 1 \in Alive(t)) \/ (w - 1 \in Dialogs /\ w - 1 \in Alive(t))
    <3>1. w \in Alive(s) /\ w # d /\ w # d + 1 /\ w \in Nat
      BY <1>1, <1>4 DEF Numbered
    <3>2. w \in {1, 2} \/ (w \in Dialogs /\ w + 1 \in Alive(s)) \/ (w - 1 \in Dialogs /\ w - 1 \in Alive(s))
      BY <3>1 DEF Good, Named
    <3>3. CASE w \in Dialogs /\ w + 1 \in Alive(s)
      <4>1. w + 1 \notin Dialogs
        BY <3>3, WinTreeAssumption
      <4>2. w + 1 # d /\ w + 1 # d + 1
        BY <1>3, <3>1, <4>1
      <4> QED  BY <1>1, <3>3, <4>2
    <3>4. CASE w - 1 \in Dialogs /\ w - 1 \in Alive(s)
      <4>1. w - 1 # d /\ w - 1 # d + 1
        BY <1>3, <3>1, <3>4
      <4> QED  BY <1>1, <3>4, <4>1
    <3> QED  BY <3>2, <3>3, <3>4
  <2> QED  BY <1>4, <2>1, <2>2 DEF Named
<1>7. Parents(t, n)
  <2> SUFFICES ASSUME NEW w \in Alive(t)
               PROVE  /\ t.win[w].up \in Alive(t) => t.win[t.win[w].up].level <= t.win[w].level
                      /\ w - 1 \in Dialogs => ElementOf(t, w, w - 1)
                      /\ w \in Dialogs => UnderDialog(t, w, n)
                      /\ w \in {1, 2} => t.win[w].up \in {0, 1} /\ t.win[w].level = 0
    BY DEF Parents
  <2>0. w \in Alive(s) /\ w # d + 1 /\ w \in Nat
    BY <1>1, <1>4 DEF Numbered
  <2>1. /\ s.win[w].up \in Alive(s) => s.win[s.win[w].up].level <= s.win[w].level
        /\ w - 1 \in Dialogs => ElementOf(s, w, w - 1)
        /\ w \in Dialogs => UnderDialog(s, w, n)
        /\ w \in {1, 2} => s.win[w].up \in {0, 1} /\ s.win[w].level = 0
    BY <2>0 DEF Good, Parents
  <2>2. ASSUME w - 1 \in Dialogs
        PROVE  ElementOf(t, w, w - 1)
    <3>1. w - 1 \in Alive(s)
      BY <2>0, <2>2, DialogOfElement
    <3>2. w - 1 # d /\ w - 1 # d + 1
      BY <1>3, <2>0, <2>2
    <3>3. w - 1 \in Alive(t)
      BY <1>1, <3>1, <3>2
    <3> QED  BY <1>2, <2>1, <2>2, <3>3 DEF ElementOf
  <2>3. w \in Dialogs => UnderDialog(t, w, n)
    BY <1>1, <1>2, <1>5, <2>1 DEF UnderDialog
  <2>4. t.win[w].up \in Alive(t) => t.win[t.win[w].up].level <= t.win[w].level
    BY <1>1, <1>2, <2>1
  <2> QED  BY <1>2, <2>1, <2>2, <2>3, <2>4
<1>8. \A i \in 1..n : run[i] \in Alive(t) /\ run[i] \in Alive(s) /\ run[i] \in Dialogs /\ t.win[run[i]].level = i - 1
  <2> SUFFICES ASSUME NEW i \in 1..n
               PROVE  run[i] \in Alive(t) /\ run[i] \in Alive(s) /\ run[i] \in Dialogs /\ t.win[run[i]].level = i - 1
    OBVIOUS
  <2>1. run[i] \in Alive(s) /\ run[i] \in Dialogs /\ s.win[run[i]].level = i - 1
    BY RunOf
  <2>2. run[i] # d /\ run[i] # d + 1
    BY <1>3, <2>1 DEF Runs
  <2> QED  BY <1>1, <1>2, <2>1, <2>2
<1>9. Running(t, n, run)
  <2>1. ASSUME NEW e \in Dialogs, e \in Alive(t), ~Runs(e, n, run)
        PROVE  t.win[e].vis = FALSE
    <3>1. s.win[e].vis = FALSE
      BY <1>2, <2>1 DEF Good, Running
    <3> QED  BY <1>2, <2>1, <3>1
  <2> QED  BY <1>8, <2>1 DEF Running
<1>10. Blocked(t, n, run)
  BY <1>2 DEF Good, Blocked
<1>11. Parted(t, n, run)
  <2> SUFFICES ASSUME NEW i \in 1..n, NEW w \in Alive(t), t.win[w].level < i
               PROVE  Runs(t.win[w].by, i, run) <=> ~IsIn(t, w, run[i])
    BY DEF Parted
  <2>1. run[i] \in Alive(t)
    BY <1>8
  <2>2. \A v \in Alive(t) : s.win[v].up = t.win[v].up /\ ~(t.win[v].up \in Alive(s) \ Alive(t))
    BY <1>1, <1>2, <1>5
  <2>3. Alive(t) \subseteq Alive(s) /\ IsFiniteSet(Alive(t)) /\ IsFiniteSet(Alive(s))
    BY <1>1, <1>4 DEF Numbered
  <2>4. IsIn(s, w, run[i]) <=> IsIn(t, w, run[i])
    BY <2>1, <2>2, <2>3, WiderTree
  <2>5. s.win[w].level < i /\ w \in Alive(s)
    BY <1>2
  <2>6. Runs(s.win[w].by, i, run) <=> ~IsIn(s, w, run[i])
    BY <2>5 DEF Good, Parted
  <2> QED  BY <1>2, <2>4, <2>6
<1> QED
  BY <1>1, <1>6, <1>7, <1>9, <1>10, <1>11 DEF Good

-----------------------------------------------------------------------------
(* The steps.                                                              *)

Frames == [win : Dialogs, visibled : {FALSE}, oldActive : Int, end : BOOLEAN, lastParentFC : Int]

SwInv == swStack \in Seq(Frames) /\ swNotes \subseteq Dialogs \X BOOLEAN /\ Good(sw, Depth, Wins(swStack))

LEMMA StackIs ==
    ASSUME NEW stack \in Seq(Frames)
    PROVE  /\ Len(stack) \in Nat
           /\ \A i \in 1..Len(stack) : stack[i] \in Frames /\ Wins(stack)[i] = stack[i].win
           /\ \A f \in Frames : /\ Append(stack, f) \in Seq(Frames) /\ Len(Append(stack, f)) = Len(stack) + 1
                                /\ Wins(Append(stack, f))[Len(stack) + 1] = f.win
                                /\ \A i \in 1..Len(stack) : Wins(Append(stack, f))[i] = Wins(stack)[i]
<1>1. Len(stack) \in Nat /\ \A i \in 1..Len(stack) : stack[i] \in Frames
  OBVIOUS
<1>2. \A i \in 1..Len(stack) : Wins(stack)[i] = stack[i].win
  BY DEF Wins
<1>3. ASSUME NEW f \in Frames
      PROVE  /\ Append(stack, f) \in Seq(Frames) /\ Len(Append(stack, f)) = Len(stack) + 1
             /\ Wins(Append(stack, f))[Len(stack) + 1] = f.win
             /\ \A i \in 1..Len(stack) : Wins(Append(stack, f))[i] = Wins(stack)[i]
  <2> DEFINE a == Append(stack, f)
             n == Len(stack)
  <2>1. a \in Seq(Frames) /\ Len(a) = n + 1 /\ a[n + 1] = f /\ \A i \in 1..n : a[i] = stack[i]
    OBVIOUS
  <2> HIDE DEF a
  <2>2. n + 1 \in 1..Len(a) /\ \A i \in 1..n : i \in 1..Len(a)
    BY <1>1, <2>1
  <2>3. Wins(a)[n + 1] = f.win /\ \A i \in 1..n : Wins(a)[i] = stack[i].win
    BY <2>1, <2>2 DEF Wins
  <2> QED  BY <1>2, <2>1, <2>3 DEF a
<1> QED
  BY <1>1, <1>2, <1>3

\* What moves the focus afterwards leaves the invariant as it is.
LEMMA GoodLike ==
    ASSUME NEW s, NEW n \in Nat, NEW run, Good(s, n, run)
    PROVE  s \in Like(s) /\ Numbered(s) /\ \A t \in Like(s) : Good(t, n, run)
<1>1. s \in Like(s)
  BY LikeSelf DEF Good
<1>2. Numbered(s)
  BY DEF Good, Named
<1>3. \A t \in Like(s) : Good(t, n, run)
  BY LikeIsGood
<1> QED
  BY <1>1, <1>2, <1>3

LEMMA BeginKeeps ==
    ASSUME SwInv, NEW s, Good(s, Depth, Wins(swStack)), NEW d \in Dialogs, d \in Alive(s),
           ~Runs(d, Depth, Wins(swStack)), s.win[d].level = Depth, BeginModal(s, d)
    PROVE  SwInv'
<1> DEFINE n == Depth
           run == Wins(swStack)
           next == Wins(swStack')
           frame == [win |-> d, visibled |-> s.win[d].vis, oldActive |-> s.active, end |-> FALSE,
                     lastParentFC |-> s.win[s.win[d].up].last]
           t == UnblockTree(AppBlock([s EXCEPT !.win[d].vis = TRUE], d), d)
<1>1. swStack \in Seq(Frames) /\ n \in Nat
  BY StackIs DEF SwInv, Depth
<1>2. sw' = SetFocus(Activate(t, d), d) /\ swStack' = Append(swStack, frame)
  BY DEF BeginModal
<1>3. frame \in Frames
  <2>1. s.win[d].vis = FALSE
    BY DEF Good, Running
  <2>2. s.active \in Int
    BY DEF Good, Desktops
  <2>3. s.win[d].up \in Alive(s)
    BY DEF Good, Parents, UnderDialog
  <2>4. s.win[s.win[d].up].last \in Int
    BY <1>1, <2>3, WindowOf
  <2> QED  BY <2>1, <2>2, <2>4 DEF Frames
<1>4. frame.win = d
  OBVIOUS
<1> HIDE DEF frame
<1>5. /\ swStack' \in Seq(Frames) /\ Len(swStack') = n + 1 /\ next[n + 1] = d
      /\ \A i \in 1..n : next[i] = run[i]
  BY <1>1, <1>2, <1>3, <1>4, StackIs DEF Depth
<1>6. Good(s, n, run) /\ ~Runs(d, n, run) /\ s.win[d].level = n
  OBVIOUS
<1> HIDE DEF n, run, next
<1>7. Begun(s, t, d)
  BY <1>1, <1>6, BegunIs
<1> HIDE DEF t
<1>8. Good(t, n + 1, next)
  BY <1>1, <1>5, <1>6, <1>7, BegunIsGood
<1>9. d \in Int /\ n + 1 \in Nat
  BY <1>1, WinTreeAssumption
<1>10. Activate(t, d) \in Like(t)
  BY <1>8, <1>9, GoodLike, FocusLike
<1>11. SetFocus(Activate(t, d), d) \in Like(t)
  BY <1>8, <1>9, <1>10, GoodLike, FocusLike
<1>12. Good(sw', n + 1, next)
  BY <1>2, <1>8, <1>9, <1>11, GoodLike
<1>13. swNotes' \subseteq Dialogs \X BOOLEAN
  <2>1. <<d, TRUE>> \in Dialogs \X BOOLEAN
    OBVIOUS
  <2>2. swNotes' = swNotes \/ swNotes' = swNotes \cup {<<d, TRUE>>}
    BY DEF BeginModal
  <2>3. swNotes \subseteq Dialogs \X BOOLEAN
    BY DEF SwInv
  <2> QED  BY <2>1, <2>2, <2>3
<1> QED
  BY <1>5, <1>12, <1>13 DEF SwInv, Depth, next

LEMMA ShowKeeps ==
    ASSUME SwInv, NEW d \in Dialogs, NEW up \in {1} \cup Dialogs, ShowDialog(d, up)
    PROVE  SwInv'
<1> DEFINE n == Depth
           run == Wins(swStack)
           made == [w \in Alive(sw) \cup {d, d + 1} |->
                       CASE w = d -> NewWindow(up, sw.kind, FALSE, Depth)
                         [] w = d + 1 -> NewWindow(d, "child", TRUE, Depth)
                         [] OTHER -> sw.win[w]]
           t == [sw EXCEPT !.win = made]
           s == SetFocus(t, d + 1)
<1>1. swStack \in Seq(Frames) /\ n \in Nat /\ Good(sw, n, run) /\ sw \in Desktops(Alive(sw))
  BY StackIs DEF SwInv, Depth, Good
<1>2. d \in Nat /\ d > 2 /\ d + 1 \in Nat /\ d + 1 # d /\ up \in Nat /\ d + 1 \in Int
  BY WinTreeAssumption
<1>3. d \notin Alive(sw) /\ OnScreen(up) /\ BeginModal(s, d)
  BY DEF ShowDialog
<1>4. up \in Alive(sw)
  <2> DEFINE lit == {v \in Alive(sw) : sw.win[v].vis}
             tops == {m \in Alive(sw) : IsMain(sw, m)}
  <2>1. IsFiniteSet(Alive(sw)) /\ lit \subseteq Alive(sw)
    BY <1>1 DEF Good, Named, Numbered
  <2>2. IsFiniteSet(lit)
    BY <2>1, FS_Subset
  <2>3. OnScreen(up) <=> up \in Descend(sw, tops, lit)
    BY DEF OnScreen
  <2> HIDE DEF lit, tops
  <2>4. Descend(sw, tops, lit) \subseteq lit
    BY <2>2, DescendIs DEF Below
  <2> QED  BY <1>3, <2>1, <2>3, <2>4
<1>5. d + 1 \notin Alive(sw)
  <2> SUFFICES ASSUME d + 1 \in Alive(sw) PROVE FALSE
    OBVIOUS
  <2> PICK e \in Alive(sw) : e = d + 1
    OBVIOUS
  <2> HIDE DEF n, run
  <2>1. e \in {1, 2} \/ e \in Dialogs \/ (e - 1 \in Dialogs /\ e - 1 \in Alive(sw))
    BY <1>1, WindowOf
  <2>2. e \notin Dialogs
    BY WinTreeAssumption
  <2> QED  BY <1>2, <1>3, <2>1, <2>2
<1>6. sw.kind \in {"main", "child"} /\ \A w \in Alive(sw) : sw.win[w] \in Windows
  BY <1>1 DEF Desktops
<1>7. NewWindow(up, sw.kind, FALSE, n) \in Windows /\ NewWindow(d, "child", TRUE, n) \in Windows
  BY <1>1, <1>2, <1>6 DEF NewWindow, Windows
<1>8. /\ made[d] = NewWindow(up, sw.kind, FALSE, n) /\ made[d + 1] = NewWindow(d, "child", TRUE, n)
      /\ \A w \in Alive(sw) : made[w] = sw.win[w]
      /\ DOMAIN made = Alive(sw) \cup {d, d + 1} /\ made = [w \in Alive(sw) \cup {d, d + 1} |-> made[w]]
  BY <1>2, <1>3, <1>5
<1> HIDE DEF made
<1>9. made \in [Alive(sw) \cup {d, d + 1} -> Windows]
  BY <1>6, <1>7, <1>8
<1>10. t.win = made /\ Alive(t) = Alive(sw) \cup {d, d + 1} /\ t \in Desktops(Alive(t))
  BY <1>1, <1>8, <1>9 DEF Desktops, Alive
<1> HIDE DEF t
<1>11. UnderDialog(t, d, n)
  BY <1>1, <1>4, <1>8, <1>10 DEF UnderDialog, NewWindow
<1>12. ElementOf(t, d + 1, d) /\ t.win[d + 1].by = 0
  BY <1>8, <1>10 DEF ElementOf, NewWindow
<1>13. Made(sw, t, d, n)
  BY <1>4, <1>8, <1>10, <1>11, <1>12 DEF Made, NewWindow
<1>14. n = Depth /\ run = Wins(swStack)
  OBVIOUS
<1> HIDE DEF n, run
<1>15. Good(t, n, run)
  BY <1>1, <1>3, <1>13, MadeIsGood
<1>16. s \in Like(t)
  BY <1>1, <1>2, <1>15, GoodLike, FocusLike
<1> HIDE DEF s
<1>17. Good(s, n, run)
  BY <1>1, <1>15, <1>16, GoodLike
<1>18. d \in Alive(t) /\ t.win[d].level = n
  BY <1>10, <1>13 DEF Made
<1>19. d \in Alive(s) /\ s.win[d].level = n
  BY <1>16, <1>18, LikeFields DEF SameWindow
<1>20. ~Runs(d, n, run)
  BY <1>1, <1>3, RunOf DEF Runs
<1> QED
  BY <1>3, <1>14, <1>17, <1>19, <1>20, BeginKeeps

LEMMA InHandIs ==
    ASSUME SwInv, NEW d
    PROVE  d \in InHand <=> d \in Dialogs /\ d \in Alive(sw) /\ ~Runs(d, Depth, Wins(swStack)) /\ sw.win[d].level = Depth
<1>1. \A i \in 1..Depth : Wins(swStack)[i] = swStack[i].win
  BY StackIs DEF SwInv, Depth
<1>2. d \in Modal <=> Runs(d, Depth, Wins(swStack))
  BY <1>1 DEF Modal, Runs
<1> QED
  BY <1>2 DEF InHand

LEMMA ShowAgainKeeps ==
    ASSUME SwInv, NEW d \in Dialogs, ShowAgain(d)
    PROVE  SwInv'
<1>1. d \in Alive(sw) /\ ~Runs(d, Depth, Wins(swStack)) /\ sw.win[d].level = Depth
  BY InHandIs DEF ShowAgain
<1>2. Good(sw, Depth, Wins(swStack)) /\ BeginModal(sw, d)
  BY DEF SwInv, ShowAgain
<1> QED
  BY <1>1, <1>2, BeginKeeps

LEMMA EndKeeps ==
    ASSUME SwInv, NEW d \in Dialogs, EndModalOf(d)
    PROVE  SwInv'
<1> DEFINE n == Len(swStack)
<1>1. swStack \in Seq(Frames) /\ n \in Nat /\ \A i \in 1..n : swStack[i] \in Frames
  BY StackIs DEF SwInv
<1>2. swStack' = [i \in 1..n |-> IF swStack[i].win = d THEN [swStack[i] EXCEPT !.end = TRUE] ELSE swStack[i]]
  BY <1>1 DEF EndModalOf
<1>3. ASSUME NEW f \in Frames
      PROVE  [f EXCEPT !.end = TRUE] \in Frames /\ [f EXCEPT !.end = TRUE].win = f.win
  BY DEF Frames
<1> HIDE DEF n
<1>4. \A i \in 1..n : swStack'[i] \in Frames /\ swStack'[i].win = swStack[i].win
  BY <1>1, <1>2, <1>3
<1>5. swStack' = [i \in 1..n |-> swStack'[i]]
  BY <1>2
<1>6. swStack' \in Seq(Frames) /\ Len(swStack') = n
  BY <1>1, <1>4, <1>5
<1>7. Wins(swStack') = Wins(swStack)
  BY <1>4, <1>6 DEF Wins, n
<1>8. Good(sw', Len(swStack'), Wins(swStack'))
  BY <1>6, <1>7 DEF EndModalOf, SwInv, Depth, n
<1>9. swNotes' = swNotes
  BY DEF EndModalOf
<1> QED
  BY <1>6, <1>8, <1>9 DEF SwInv, Depth

LEMMA InnermostIs ==
    ASSUME SwInv, Depth > 0
    PROVE  /\ Front(swStack) \in Seq(Frames) /\ Len(Front(swStack)) = Depth - 1 /\ Depth - 1 \in Nat /\ Depth \in Nat
           /\ swStack[Depth] \in Frames /\ Wins(swStack)[Depth] = swStack[Depth].win
           /\ \A i \in 1..Depth - 1 : /\ Wins(Front(swStack))[i] = Wins(swStack)[i]
                                      /\ Front(swStack)[i] = swStack[i]
<1> DEFINE n == Len(swStack)
           f == Front(swStack)
<1>1. swStack \in Seq(Frames) /\ n \in Nat /\ n > 0 /\ n \in 1..n
  BY StackIs DEF SwInv, Depth
<1>2. swStack # <<>>
  BY <1>1
<1>3. f \in Seq(Frames) /\ Len(f) = n - 1 /\ \A i \in 1..n - 1 : f[i] = swStack[i]
  <2>1. f = SubSeq(swStack, 1, n - 1) /\ n - 1 \in Nat
    BY <1>1 DEF Front
  <2>2. \A i \in 1..n - 1 : i \in 1..n
    BY <1>1
  <2>3. \A i \in 1..n : swStack[i] \in Frames
    BY <1>1
  <2> HIDE DEF f, n
  <2>4. f \in Seq(Frames)
    BY <1>1, <2>1, <2>2, <2>3, SubSeqProperties
  <2>5. Len(f) = n - 1
    BY <1>1, <2>1, <2>2, <2>3, SubSeqProperties
  <2>6. \A i \in 1..n - 1 : f[i] = swStack[i]
    BY <1>1, <2>1, <2>2, <2>3, SubSeqProperties
  <2> QED  BY <2>4, <2>5, <2>6
<1> HIDE DEF f
<1>4. \A i \in 1..n - 1 : Wins(f)[i] = f[i].win /\ Wins(swStack)[i] = swStack[i].win
  BY <1>1, <1>3 DEF Wins
<1>5. swStack[n] \in Frames /\ Wins(swStack)[n] = swStack[n].win
  BY <1>1 DEF Wins
<1> QED
  BY <1>1, <1>3, <1>4, <1>5 DEF Depth, f

\* Only the part of run up to n matters.
LEMMA SameRun ==
    ASSUME NEW s, NEW n \in Nat, NEW run, Good(s, n, run), NEW next, \A i \in 1..n : next[i] = run[i]
    PROVE  Good(s, n, next)
<1>1. \A d : Runs(d, n, next) <=> Runs(d, n, run)
  BY DEF Runs
<1>2. \A i \in 1..n : \A d : Runs(d, i, next) <=> Runs(d, i, run)
  <2> SUFFICES ASSUME NEW i \in 1..n, NEW d PROVE Runs(d, i, next) <=> Runs(d, i, run)
    OBVIOUS
  <2>1. \A j \in 1..i : next[j] = run[j]
    OBVIOUS
  <2> QED  BY <2>1 DEF Runs
<1>3. Running(s, n, next)
  BY <1>1 DEF Good, Running
<1>4. Blocked(s, n, next)
  <2> SUFFICES ASSUME NEW w \in Alive(s), s.win[w].by # 0
               PROVE  \E i \in 1..n : s.win[w].by = next[i] /\ s.win[w].level < i
    BY DEF Blocked
  <2>1. PICK i \in 1..n : s.win[w].by = run[i] /\ s.win[w].level < i
    BY DEF Good, Blocked
  <2> QED  BY <2>1
<1>5. Parted(s, n, next)
  BY <1>2 DEF Good, Parted
<1> QED
  BY <1>3, <1>4, <1>5 DEF Good

\* After its loop the innermost dialog may be left: no dialog is in hand.
LEMMA HiddenIsGood ==
    ASSUME SwInv, Looping, Depth > 0,
           NEW t, t = [AppUnblock(sw, swStack[Depth].win) EXCEPT !.win[swStack[Depth].win].vis = FALSE]
    PROVE  Good(t, Depth - 1, Wins(swStack)) /\ Left(sw, t, swStack[Depth].win)
<1> DEFINE n == Depth
           m == Depth - 1
           run == Wins(swStack)
           d == swStack[Depth].win
           u == AppUnblock(sw, d)
<1>1. n \in Nat /\ m \in Nat /\ n = m + 1 /\ n \in 1..n /\ run[n] = d
  BY InnermostIs
<1>2. Good(sw, n, run) /\ sw \in Desktops(Alive(sw))
  BY DEF SwInv, Good
<1>3. \A e \in Dialogs : e \in Alive(sw) /\ ~Runs(e, n, run) => sw.win[e].level # n
  BY InHandIs DEF Looping
<1> HIDE DEF n, m, run, d
<1>4. d \in Alive(sw)
  BY <1>1, <1>2, RunOf
<1>5. /\ SameButBy(sw, u)
      /\ \A w \in Alive(sw) : u.win[w].by = IF sw.win[w].by = d THEN 0 ELSE sw.win[w].by
  BY <1>2, UnblockIs
<1>6. t = [u EXCEPT !.win[d].vis = FALSE]
  BY DEF d
<1> HIDE DEF u
<1>7. u \in Desktops(Alive(u)) /\ Alive(u) = Alive(sw) /\ d \in Alive(u)
  BY <1>4, <1>5 DEF SameButBy
<1> PICK no \in BOOLEAN : no = FALSE
  OBVIOUS
<1>8. SameButVis(u, [u EXCEPT !.win[d].vis = no], d, no)
  BY <1>7, PutVis
<1>9. t = [u EXCEPT !.win[d].vis = no]
  BY <1>6
<1>10. SameButVis(u, t, d, no)
  BY <1>8, <1>9
<1>11. Left(sw, t, d)
  BY <1>5, <1>10 DEF SameButBy, SameButVis, Left
<1>12. Good(t, m, run)
  BY <1>1, <1>2, <1>3, <1>11, LeftIsGood
<1> QED
  BY <1>11, <1>12 DEF m, run, d

LEMMA LeaveKeeps ==
    ASSUME SwInv, LeaveModal
    PROVE  SwInv'
<1> DEFINE m == Depth - 1
           run == Wins(swStack)
           f == swStack[Depth]
           u == AppUnblock(sw, f.win)
           t == [u EXCEPT !.win[f.win].vis = FALSE]
           back == FocusBack(t, f)
<1>1. Looping /\ Depth > 0 /\ swStack' = Front(swStack)
  BY DEF LeaveModal
<1>2. f \in Frames /\ m \in Nat
  BY <1>1, InnermostIs
<1>3. f.visibled = FALSE /\ f.win \in Dialogs /\ f.oldActive \in Int /\ f.lastParentFC \in Int
  BY <1>2 DEF Frames
<1>4. sw' = IfAlive(back, f.oldActive, Activate(back, f.oldActive))
  BY <1>3 DEF LeaveModal
<1>5. Good(t, m, run)
  BY <1>1, HiddenIsGood
<1>6. /\ Front(swStack) \in Seq(Frames) /\ Len(Front(swStack)) = m
      /\ \A i \in 1..m : Wins(Front(swStack))[i] = run[i]
  BY <1>1, InnermostIs
<1> HIDE DEF t, m, run, f
<1>7. t \in Like(t) /\ Numbered(t)
  BY <1>2, <1>5, GoodLike
<1>8. back \in Like(t)
  <2>1. SetFocus(t, f.lastParentFC) \in Like(t)
    BY <1>3, <1>7, FocusLike
  <2> QED  BY <1>7, <2>1 DEF FocusBack, IfAlive
<1> HIDE DEF back
<1>9. sw' \in Like(t)
  <2>1. Activate(back, f.oldActive) \in Like(t)
    BY <1>3, <1>7, <1>8, FocusLike
  <2> QED  BY <1>4, <1>8, <2>1 DEF IfAlive
<1>10. Good(sw', m, run)
  BY <1>2, <1>5, <1>9, GoodLike
<1>11. Good(sw', m, Wins(swStack'))
  BY <1>1, <1>2, <1>6, <1>10, SameRun
<1>12. swNotes' \subseteq Dialogs \X BOOLEAN
  <2>1. <<f.win, FALSE>> \in Dialogs \X BOOLEAN
    BY <1>3
  <2>2. swNotes' = swNotes \/ swNotes' = swNotes \cup {<<f.win, FALSE>>}
    BY DEF LeaveModal, f
  <2>3. swNotes \subseteq Dialogs \X BOOLEAN
    BY DEF SwInv
  <2> QED  BY <2>1, <2>2, <2>3
<1>13. swStack' \in Seq(Frames) /\ Len(swStack') = m
  BY <1>1, <1>6
<1> QED
  BY <1>11, <1>12, <1>13 DEF SwInv, Depth

LEMMA DropIs ==
    ASSUME NEW s, s \in Desktops(Alive(s)), NEW stack \in Seq(Frames), NEW d, Drop(s, stack, d)
    PROVE  /\ Dropped(s, sw', d) /\ swNotes' \subseteq swNotes
           /\ swStack' \in Seq(Frames) /\ Len(swStack') = Len(stack) /\ Wins(swStack') = Wins(stack)
           /\ ~\E w \in Alive(s) : s.win[w].up = d /\ w # d + 1
<1> DEFINE Now(w) == IF w \in {d, d + 1} THEN Gone ELSE w
           W == Alive(s) \ {d, d + 1}
           f == [w \in W |-> [s.win[w] EXCEPT !.last = Now(s.win[w].last)]]
           a == [s EXCEPT !.win = f]
           n == Len(stack)
<1>1. \A x \in Int : Now(x) \in Int
  BY DEF Gone
<1>2. s.focus \in Int /\ s.active \in Int /\ s.kind \in {"main", "child"} /\ \A w \in Alive(s) : s.win[w] \in Windows
  BY DEF Desktops
<1>3. sw' = [s EXCEPT !.win = f, !.focus = Now(s.focus), !.active = Now(s.active)]
  BY DEF Drop
<1>4. swStack' = [i \in DOMAIN stack |-> [stack[i] EXCEPT !.oldActive = Now(@), !.lastParentFC = Now(@)]]
  BY DEF Drop
<1>5. swNotes' \subseteq swNotes /\ ~\E w \in Alive(s) : s.win[w].up = d /\ w # d + 1
  BY DEF Drop
<1>6. ASSUME NEW v \in Windows
      PROVE  LET x == [v EXCEPT !.last = Now(v.last)] IN
             x \in Windows /\ x.up = v.up /\ x.kind = v.kind /\ x.level = v.level /\ x.by = v.by /\ x.vis = v.vis
  <2>1. Now(v.last) \in Int
    BY <1>1 DEF Windows
  <2> HIDE DEF Now
  <2> QED  BY <2>1 DEF Windows
<1>7. ASSUME NEW x \in Frames
      PROVE  LET y == [x EXCEPT !.oldActive = Now(@), !.lastParentFC = Now(@)] IN y \in Frames /\ y.win = x.win
  <2>1. Now(x.oldActive) \in Int /\ Now(x.lastParentFC) \in Int
    BY <1>1 DEF Frames
  <2> HIDE DEF Now
  <2> QED  BY <2>1 DEF Frames
<1> HIDE DEF Now
<1>8. \A w \in W : /\ f[w] \in Windows /\ f[w].up = s.win[w].up /\ f[w].kind = s.win[w].kind
                   /\ f[w].level = s.win[w].level /\ f[w].by = s.win[w].by /\ f[w].vis = s.win[w].vis
  BY <1>2, <1>6
<1>9. f \in [W -> Windows] /\ DOMAIN f = W
  BY <1>8
<1>10. Now(s.focus) \in Int /\ Now(s.active) \in Int
  BY <1>1, <1>2
<1> HIDE DEF f, W
<1>11. sw' \in Desktops(W) /\ sw'.win = f
  BY <1>2, <1>3, <1>9, <1>10 DEF Desktops
<1>12. Alive(sw') = W
  BY <1>9, <1>11 DEF Alive
<1>13. Dropped(s, sw', d)
  BY <1>8, <1>11, <1>12 DEF Dropped, W
<1>14. n \in Nat /\ DOMAIN stack = 1..n /\ \A i \in 1..n : stack[i] \in Frames
  OBVIOUS
<1> HIDE DEF n
<1>15. \A i \in 1..n : swStack'[i] \in Frames /\ swStack'[i].win = stack[i].win
  BY <1>4, <1>7, <1>14
<1>16. swStack' = [i \in 1..n |-> swStack'[i]]
  BY <1>4, <1>14
<1>17. swStack' \in Seq(Frames) /\ Len(swStack') = n
  BY <1>14, <1>15, <1>16
<1>18. Wins(swStack') = Wins(stack)
  BY <1>15, <1>17 DEF Wins, n
<1> QED
  BY <1>5, <1>13, <1>17, <1>18 DEF n

LEMMA DestroyKeeps ==
    ASSUME SwInv, NEW d \in Dialogs, Destroy(d)
    PROVE  SwInv'
<1> DEFINE n == Depth
           run == Wins(swStack)
<1>1. d \in Alive(sw) /\ ~Runs(d, n, run)
  BY InHandIs DEF Destroy
<1>2. Good(sw, n, run) /\ sw \in Desktops(Alive(sw)) /\ swStack \in Seq(Frames) /\ n \in Nat
  BY StackIs DEF SwInv, Good, Depth
<1>3. Drop(sw, swStack, d)
  BY DEF Destroy
<1>4. /\ Dropped(sw, sw', d) /\ swNotes' \subseteq swNotes
      /\ swStack' \in Seq(Frames) /\ Len(swStack') = n /\ Wins(swStack') = run
      /\ ~\E w \in Alive(sw) : sw.win[w].up = d /\ w # d + 1
  BY <1>2, <1>3, DropIs DEF Depth
<1>5. swNotes' \subseteq Dialogs \X BOOLEAN
  BY <1>4 DEF SwInv
<1> HIDE DEF n, run
<1>6. Good(sw', n, run)
  BY <1>1, <1>2, <1>4, DroppedIsGood
<1> QED
  BY <1>4, <1>5, <1>6 DEF SwInv, Depth

LEMMA ThrowKeeps ==
    ASSUME SwInv, ThrowModal
    PROVE  SwInv'
<1> DEFINE m == Depth - 1
           run == Wins(swStack)
           d == swStack[Depth].win
           u == AppUnblock(sw, d)
           t == [u EXCEPT !.win[d].vis = FALSE]
           stack == Front(swStack)
<1>1. Looping /\ Depth > 0 /\ Drop(u, stack, d)
  BY DEF ThrowModal
<1>2. /\ stack \in Seq(Frames) /\ Len(stack) = m /\ m \in Nat /\ Depth \in Nat /\ Depth = m + 1
      /\ \A i \in 1..m : Wins(stack)[i] = run[i]
  BY <1>1, InnermostIs
<1>3. d \in Dialogs /\ run[Depth] = d
  BY <1>1, InnermostIs DEF Frames
<1>4. Good(t, m, run) /\ Left(sw, t, d)
  BY <1>1, HiddenIsGood
<1>5. Good(sw, Depth, run) /\ sw \in Desktops(Alive(sw))
  BY DEF SwInv, Good
<1>6. /\ SameButBy(sw, u)
      /\ \A w \in Alive(sw) : u.win[w].by = IF sw.win[w].by = d THEN 0 ELSE sw.win[w].by
  BY <1>5, UnblockIs
<1> HIDE DEF u, t, stack, d, run, m
<1>7. u \in Desktops(Alive(u)) /\ Alive(u) = Alive(sw) /\ Alive(t) = Alive(sw)
  BY <1>4, <1>6 DEF SameButBy, Left
<1>8. /\ Dropped(u, sw', d) /\ swNotes' \subseteq swNotes
      /\ swStack' \in Seq(Frames) /\ Len(swStack') = m /\ Wins(swStack') = Wins(stack)
      /\ ~\E w \in Alive(u) : u.win[w].up = d /\ w # d + 1
  BY <1>1, <1>2, <1>7, DropIs
<1>9. \A w \in Alive(sw) : /\ t.win[w].up = u.win[w].up /\ t.win[w].kind = u.win[w].kind
                           /\ t.win[w].level = u.win[w].level /\ t.win[w].by = u.win[w].by
                           /\ w # d => t.win[w].vis = u.win[w].vis
  BY <1>4, <1>6 DEF SameButBy, Left
<1>10. Dropped(t, sw', d)
  BY <1>7, <1>8, <1>9 DEF Dropped
<1>11. ~\E w \in Alive(t) : t.win[w].up = d /\ w # d + 1
  BY <1>7, <1>8, <1>9
<1>12. d \in Alive(t) /\ ~Runs(d, m, run)
  <2>1. Depth \in 1..Depth /\ \A i \in 1..m : i \in 1..Depth /\ i # Depth
    BY <1>2
  <2>2. d \in Alive(sw)
    BY <1>2, <1>3, <1>5, <2>1, RunOf
  <2>3. \A i \in 1..m : run[i] # d
    BY <1>2, <1>3, <1>5, <2>1, RunOf
  <2> QED  BY <1>7, <2>2, <2>3 DEF Runs
<1>13. Good(sw', m, run)
  BY <1>2, <1>3, <1>4, <1>10, <1>11, <1>12, DroppedIsGood
<1>14. Good(sw', m, Wins(swStack'))
  BY <1>2, <1>8, <1>13, SameRun
<1>15. swNotes' \subseteq Dialogs \X BOOLEAN
  BY <1>8 DEF SwInv
<1> QED
  BY <1>8, <1>14, <1>15 DEF SwInv, Depth

\* Whatever the loops handle moves the focus, at most.
LEMMA MovesKeep ==
    ASSUME SwInv, sw' \in Like(sw), swStack' = swStack, swNotes' \subseteq swNotes
    PROVE  SwInv'
<1>1. Depth \in Nat /\ Depth' = Depth
  BY StackIs DEF SwInv, Depth
<1>2. Good(sw', Depth, Wins(swStack))
  BY <1>1, GoodLike DEF SwInv
<1> QED
  BY <1>1, <1>2 DEF SwInv

LEMMA EventsKeep ==
    ASSUME SwInv, \/ \E w \in Alive(sw) : MoveFocus(w) \/ FocusIn(w)
                  \/ FocusOut
                  \/ \E note \in swNotes : Mapped(note)
    PROVE  SwInv'
<1>1. sw \in Like(sw) /\ Numbered(sw) /\ \A w \in Alive(sw) : w \in Int
  <2>1. Depth \in Nat
    BY StackIs DEF SwInv, Depth
  <2>2. sw \in Like(sw) /\ Numbered(sw)
    BY <2>1, GoodLike DEF SwInv
  <2> QED  BY <2>2 DEF Numbered
<1> DEFINE left == [Remember(sw, sw.focus) EXCEPT !.focus = 0, !.active = 0]
<1>2. left \in Like(sw)
  <2>1. sw.focus \in Int
    BY <1>1, LikeFields
  <2>2. Remember(sw, sw.focus) \in Like(sw)
    BY <1>1, <2>1, RememberLike
  <2> PICK z \in Int : z = 0
    OBVIOUS
  <2>3. [Remember(sw, sw.focus) EXCEPT !.focus = z, !.active = z] \in Like(sw)
    BY <2>2, PutBoth
  <2> QED  BY <2>3
<1>3. ASSUME NEW w \in Alive(sw), MoveFocus(w)
      PROVE  SwInv'
  <2>1. sw' = SetFocus(sw, w) /\ swStack' = swStack /\ swNotes' = swNotes
    BY <1>3 DEF MoveFocus
  <2>2. sw' \in Like(sw)
    BY <1>1, <2>1, FocusLike
  <2> QED  BY <2>1, <2>2, MovesKeep
<1>4. ASSUME NEW w \in Alive(sw), FocusIn(w)
      PROVE  SwInv'
  <2> DEFINE by == sw.win[w].by
             mine == [left EXCEPT !.active = w, !.focus = w]
  <2>1. /\ swStack' = swStack /\ swNotes' = swNotes
        /\ sw' = CASE sw.active = w -> sw
                   [] sw.active # w /\ by = 0 -> EventFocus(mine, w)
                   [] OTHER -> IfAlive(left, by, IF sw.win[by].kind = "child" THEN SetFocus(left, by) ELSE Activate(left, by))
    BY <1>4 DEF FocusIn, LoopEvent
  <2>2. mine \in Like(sw)
    <3> HIDE DEF left
    <3> QED  BY <1>1, <1>2, PutBoth
  <2> HIDE DEF left, mine
  <2>3. EventFocus(mine, w) \in Like(sw)
    BY <1>1, <2>2, FocusLike
  <2>4. by \in Alive(sw) => SetFocus(left, by) \in Like(sw) /\ Activate(left, by) \in Like(sw)
    BY <1>1, <1>2, FocusLike
  <2>5. Alive(left) = Alive(sw)
    BY <1>2, LikeFields
  <2> HIDE DEF by
  <2>6. sw' \in Like(sw)
    <3>1. CASE sw.active = w
      BY <1>1, <2>1, <3>1
    <3>2. CASE sw.active # w /\ by = 0
      BY <2>1, <2>3, <3>2
    <3>3. CASE sw.active # w /\ by # 0
      BY <1>2, <2>1, <2>4, <2>5, <3>3 DEF IfAlive
    <3> QED  BY <3>1, <3>2, <3>3
  <2> QED  BY <2>1, <2>6, MovesKeep
<1>5. ASSUME FocusOut
      PROVE  SwInv'
  <2>1. /\ swStack' = swStack /\ swNotes' = swNotes
        /\ sw' = IF sw.active \in Alive(sw) THEN left ELSE [sw EXCEPT !.active = 0]
    BY <1>5 DEF FocusOut, LoopEvent
  <2> HIDE DEF left
  <2> PICK z \in Int : z = 0
    OBVIOUS
  <2>2. [sw EXCEPT !.active = z] \in Like(sw)
    BY <1>1, PutFocus
  <2>3. sw' \in Like(sw)
    BY <1>2, <2>1, <2>2
  <2> QED  BY <2>1, <2>3, MovesKeep
<1>6. ASSUME NEW note \in swNotes, Mapped(note)
      PROVE  SwInv'
  <2> DEFINE d == note[1]
             a == IF note[2] THEN Activate(sw, d) ELSE sw
  <2>1. swStack' = swStack /\ swNotes' \subseteq swNotes /\ sw' = SetFocus(a, d)
    BY <1>6 DEF Mapped, LoopEvent
  <2>2. d \in Int
    <3>1. note \in Dialogs \X BOOLEAN
      BY DEF SwInv
    <3> QED  BY <3>1, WinTreeAssumption
  <2> HIDE DEF d
  <2>3. a \in Like(sw)
    BY <1>1, <2>2, FocusLike
  <2> HIDE DEF a
  <2>4. sw' \in Like(sw)
    BY <1>1, <2>1, <2>2, <2>3, FocusLike
  <2> QED  BY <2>1, <2>4, MovesKeep
<1> QED
  BY <1>3, <1>4, <1>5, <1>6

LEMMA SwStart ==
    ASSUME SwInit
    PROVE  SwInv
<1> DEFINE main == [NewWindow(0, "main", TRUE, 0) EXCEPT !.last = 2]
           child == NewWindow(1, "child", TRUE, 0)
<1>1. /\ sw \in [win : {<<main, child>>}, focus : {2}, active : {1}, kind : {"child", "main"}]
      /\ swStack = <<>> /\ swNotes = {}
  BY DEF SwInit
<1>2. main \in Windows /\ child \in Windows
  <2>1. NewWindow(0, "main", TRUE, 0) \in Windows /\ NewWindow(1, "child", TRUE, 0) \in Windows
    BY DEF NewWindow, Windows
  <2>2. \A v \in Windows, l \in Int : [v EXCEPT !.last = l] \in Windows
    BY DEF Windows
  <2> PICK two \in Int : two = 2
    OBVIOUS
  <2>3. [NewWindow(0, "main", TRUE, 0) EXCEPT !.last = two] \in Windows
    BY <2>1, <2>2
  <2> QED  BY <2>1, <2>3
<1>3. main.up = 0 /\ main.level = 0 /\ main.by = 0 /\ child.up = 1 /\ child.level = 0 /\ child.by = 0
  BY DEF NewWindow
<1> HIDE DEF main, child
<1>4. sw.win = <<main, child>>
  BY <1>1
<1>5. Alive(sw) = {1, 2} /\ sw.win[1] = main /\ sw.win[2] = child /\ sw.win \in [{1, 2} -> Windows]
  <2>1. DOMAIN <<main, child>> = {1, 2} /\ <<main, child>>[1] = main /\ <<main, child>>[2] = child
    OBVIOUS
  <2>2. <<main, child>> \in [{1, 2} -> Windows]
    BY <1>2
  <2> QED  BY <1>4, <2>1, <2>2 DEF Alive
<1>6. sw \in Desktops(Alive(sw))
  BY <1>1, <1>4, <1>5 DEF Desktops
<1>7. IsFiniteSet({1, 2})
  <2>1. IsFiniteSet({1}) /\ IsFiniteSet({2}) /\ {1, 2} = {1} \cup {2}
    BY FS_Singleton
  <2> QED  BY <2>1, FS_Union
<1>8. Named(sw)
  BY <1>5, <1>7 DEF Named, Numbered
<1>9. Parents(sw, 0)
  <2> SUFFICES ASSUME NEW w \in {1, 2}
               PROVE  /\ sw.win[w].up \in {1, 2} => sw.win[sw.win[w].up].level <= sw.win[w].level
                      /\ w - 1 \notin Dialogs /\ w \notin Dialogs
                      /\ sw.win[w].up \in {0, 1} /\ sw.win[w].level = 0
    BY <1>5 DEF Parents
  <2>1. w - 1 \notin Dialogs /\ w \notin Dialogs
    BY WinTreeAssumption
  <2>2. sw.win[w].up \in {0, 1} /\ sw.win[w].level = 0
    BY <1>3, <1>5
  <2> QED  BY <1>3, <1>5, <2>1, <2>2
<1>10. Running(sw, 0, Wins(swStack)) /\ Blocked(sw, 0, Wins(swStack)) /\ Parted(sw, 0, Wins(swStack))
  <2>1. \A d \in Dialogs : d \notin Alive(sw)
    BY <1>5, WinTreeAssumption
  <2>2. \A w \in Alive(sw) : sw.win[w].by = 0
    BY <1>3, <1>5
  <2> QED  BY <2>1, <2>2 DEF Running, Blocked, Parted
<1>11. Depth = 0 /\ swStack \in Seq(Frames) /\ swNotes \subseteq Dialogs \X BOOLEAN
  BY <1>1 DEF Depth
<1> QED
  BY <1>6, <1>8, <1>9, <1>10, <1>11 DEF SwInv, Good

LEMMA SwKeeps ==
    ASSUME SwInv, [SwNext]_swVars
    PROVE  SwInv'
<1>1. ASSUME NEW d \in Dialogs, NEW up \in {1} \cup Dialogs, ShowDialog(d, up)
      PROVE  SwInv'
  BY <1>1, ShowKeeps
<1>2. ASSUME NEW d \in Dialogs, ShowAgain(d) \/ EndModalOf(d) \/ Destroy(d)
      PROVE  SwInv'
  BY <1>2, ShowAgainKeeps, EndKeeps, DestroyKeeps
<1>3. CASE LeaveModal
  BY <1>3, LeaveKeeps
<1>4. CASE ThrowModal
  BY <1>4, ThrowKeeps
<1>5. CASE UNCHANGED swVars
  BY <1>5 DEF swVars, SwInv, Depth
<1> QED
  BY <1>1, <1>2, <1>3, <1>4, <1>5, EventsKeep DEF SwNext

(***************************************************************************)
(* A window is blocked by a dialog whose DoModal runs, and those that are  *)
(* shown and not blocked are just the windows of the innermost dialog:     *)
(* blocking and unblocking (Win::DoModal, AppBlock, AppUnblock and         *)
(* UnblockTree of swl_wincore.cpp) leave the user one dialog to work in,   *)
(* however deep they are nested, by whatever window's handler they were    *)
(* shown and whichever of them an exception has left.                      *)
(***************************************************************************)
THEOREM OneDialogIsOpen == SwSpec => []ModalExact
<1>1. SwInit => SwInv
  BY SwStart
<1>2. SwInv /\ [SwNext]_swVars => SwInv'
  BY SwKeeps
<1>3. SwInv => ModalExact
  BY StackIs, GoodIsExact DEF SwInv, Depth
<1> QED
  BY <1>1, <1>2, <1>3, PTL DEF SwSpec

=============================================================================
