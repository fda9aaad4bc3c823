----------------------------- MODULE ThreadMail -----------------------------
(***************************************************************************)
(* What the window threads promise to the code that uses them: a thread    *)
(* has a mail box with room for one message to its window.  A message that *)
(* has not been taken is replaced by the next one, the last message is     *)
(* always "STOP", and every box that is not empty is eventually emptied by *)
(* the user-interface thread, in whatever state of its dialogs.            *)
(***************************************************************************)
CONSTANTS Thread, Window, Data, None

VARIABLES
    life,       \* thread -> "none", "running", "ended" or "joined"
    box,        \* thread -> None, a message, or "STOP"
    owner       \* thread -> its window, or None once that is destroyed

mailVars == <<life, box, owner>>

TypeOK ==
    /\ life \in [Thread -> {"none", "running", "ended", "joined"}]
    /\ box \in [Thread -> Data \cup {None, "STOP"}]
    /\ owner \in [Thread -> Window \cup {None}]

Init ==
    /\ life = [t \in Thread |-> "none"]
    /\ box = [t \in Thread |-> None]
    /\ owner = [t \in Thread |-> None]

Create(t, x) ==
    /\ life[t] = "none"
    /\ life' = [life EXCEPT ![t] = "running"]
    /\ owner' = [owner EXCEPT ![t] = x]
    /\ UNCHANGED box

Post(t, d) ==
    /\ life[t] = "running"
    /\ box' = [box EXCEPT ![t] = d]
    /\ UNCHANGED <<life, owner>>

Finish(t) ==
    /\ life[t] = "running"
    /\ life' = [life EXCEPT ![t] = "ended"]
    /\ box' = [box EXCEPT ![t] = "STOP"]
    /\ UNCHANGED owner

\* The window, if there is one, is told of the message.
Take(t) ==
    /\ box[t] \in Data
    /\ box' = [box EXCEPT ![t] = None]
    /\ UNCHANGED <<life, owner>>

\* The window is told that the thread has stopped; without a window nobody
\* is told, and the thread is forgotten.
TakeStop(t) ==
    /\ box[t] = "STOP"
    /\ box' = [box EXCEPT ![t] = None]
    /\ IF owner[t] = None
       THEN life' = [life EXCEPT ![t] = "none"] /\ UNCHANGED owner
       ELSE life' = [life EXCEPT ![t] = "joined"] /\ UNCHANGED owner

Forget(t) ==
    /\ life[t] = "joined"
    /\ life' = [life EXCEPT ![t] = "none"]
    /\ owner' = [owner EXCEPT ![t] = None]
    /\ UNCHANGED box

\* A window is destroyed while none of its threads is being stopped.
Destroy(x) ==
    /\ \A t \in Thread : owner[t] = x => life[t] # "joined"
    /\ owner' = [t \in Thread |-> IF owner[t] = x THEN None ELSE owner[t]]
    /\ UNCHANGED <<life, box>>

Next ==
    \/ \E t \in Thread :
          \/ \E x \in Window : Create(t, x)
          \/ \E d \in Data : Post(t, d)
          \/ Finish(t) \/ Take(t) \/ TakeStop(t) \/ Forget(t)
    \/ \E x \in Window : Destroy(x)

Spec ==
    /\ Init /\ [][Next]_mailVars
    /\ \A t \in Thread : WF_mailVars(Take(t)) /\ WF_mailVars(TakeStop(t))
=============================================================================
