---------------------------- MODULE MCOperThread ----------------------------
(***************************************************************************)
(* OperThread on small instances.                                          *)
(***************************************************************************)
EXTENDS OperThread, TLC

\* Nodes are only compared; the windows differ in Askers.
NodeSymmetry == Permutations(Node)
=============================================================================
