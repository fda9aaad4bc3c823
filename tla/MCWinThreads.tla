--------------------------- MODULE MCWinThreads ----------------------------
(***************************************************************************)
(* The toolkit on small instances: the event loops and their threads, and  *)
(* the window tree, each from its own initial state; `part' chooses the    *)
(* one that moves.                                                         *)
(***************************************************************************)
EXTENDS WinThreads, WinTree, TLC

CONSTANT Parts  \* of {"threads", "tree"}

VARIABLE part   \* the component that moves

MCInit ==
    /\ part \in Parts
    /\ Init /\ SwInit
    /\ part = "threads" => sw.kind = "child"

MCNext ==
    \/ part = "threads" /\ Next /\ UNCHANGED <<part, swVars>>
    \/ part = "tree" /\ SwNext /\ UNCHANGED <<part, vars>>

MCSpec == MCInit /\ [][MCNext]_<<part, vars, swVars>>

MCFairSpec == MCSpec /\ Fairness

\* Nodes and dialogs are only compared, and no property names one of them.
Symmetry == Permutations(Node) \cup Permutations(Window \ {MainWin})
=============================================================================
