------------------------------- MODULE MCViewer -------------------------------
(***************************************************************************)
(* Viewer on small instances; and the operations that run behind a dialog  *)
(* on a tree or on one file, and the search for a text, each from its own  *)
(* initial states: `part' chooses what moves.                              *)
(***************************************************************************)
EXTENDS Viewer, TextSearch, TreeWalk, FileLoad, TLC

VARIABLE part   \* the component that moves

\* Threads and looks are only compared, and no property names one of them.
Symmetry == Permutations(Thread) \cup Permutations(Look)

\* A tree with files, a link to a file, one to a directory, an empty directory
\* and one in another.
EntryOf(name, dir, link, size) == [name |-> name, dir |-> dir, link |-> link, size |-> size]
Tree ==
    [ r |-> << EntryOf("a", FALSE, FALSE, 1), EntryOf("d", TRUE, FALSE, 0),
               EntryOf("g", TRUE, FALSE, 0), EntryOf("l", TRUE, TRUE, 0) >>,
      d |-> << EntryOf("b", FALSE, TRUE, 2), EntryOf("c", FALSE, FALSE, 4), EntryOf("e", TRUE, FALSE, 0) >>,
      e |-> << EntryOf("f", FALSE, FALSE, 8) >>,
      g |-> << >> ]
Selected == { <<>>, <<Tree.r[1], Tree.r[2], Tree.r[4]>>, <<Tree.r[2]>>, <<Tree.r[3], Tree.r[1]>> }

\* Texts of one to three characters, in one or two character sets, with and
\* without letters whose other case is longer, by up to two bytes.
Letter(low, up) == [a |-> low, b |-> up]
X == Letter(<<"x">>, <<>>)
Y == Letter(<<"y">>, <<>>)
Searchers ==
    { << <<X, Y>> >>, << <<X, X, Y>> >>,
      << <<Letter(<<"x">>, <<"y">>), Letter(<<"x">>, <<"y", "x">>)>> >>,
      << <<Letter(<<"y">>, <<"x", "y">>)>> >>,
      << <<X>>, <<X, Y, Y>> >>,
      << <<Letter(<<"x">>, <<"y", "y", "x">>)>> >>,
      << <<Letter(<<"x">>, <<"y", "y">>)>>, <<X, Y>> >> }
Texts == BoundedSeq({"x", "y"}, 5) \cup {<<"y", "x">> \o s : s \in [1..7 -> {"x", "y"}]}
-----------------------------------------------------------------------------
MCInit ==
    /\ part \in {"viewer", "walk", "load", "text"}
    /\ Init
    /\ TwInit /\ (part # "walk" => twJob.kind = "search" /\ twJob.text /\ "d" \in twJob.mask)
    /\ FlInit /\ (part # "load" => flJob.kind = "load" /\ flJob.blocks = 0 /\ flJob.exists /\ flJob.new)
    /\ TsInit /\ (part # "text" => tsJob.file = <<>> /\ tsJob.who = "view" /\ tsJob.searchers[1] = <<X, Y>>)

\* What was begun has come to its end.
Over ==
    /\ part \in {"walk", "load"} => JobOver
    /\ part = "text" => tsPc \in {"done", "failed"}
    /\ part # "viewer"

MCNext ==
    \/ part = "viewer" /\ Next /\ UNCHANGED <<part, twVars, flOwn, tsVars>>
    \/ part = "walk" /\ TwNext /\ UNCHANGED <<part, vars, flOwn, tsVars>>
    \/ part = "load" /\ FlNext /\ UNCHANGED <<part, vars, twOwn, tsVars>>
    \/ part = "text" /\ TsNext /\ UNCHANGED <<part, vars, twVars, flOwn>>
    \/ Over /\ UNCHANGED <<part, vars, twVars, flOwn, tsVars>>

MCSpec == MCInit /\ [][MCNext]_<<part, vars, twVars, flOwn, tsVars>>
=============================================================================
