---------------------------- MODULE MCDispatcher ----------------------------
(* Small instances of Dispatcher for TLC.                                  *)
EXTENDS Dispatcher, TLC

CONSTANTS n1, n2, p1, p2, ann

\* Both placements name one persona: the duplicate the dispatcher refuses.
OneAgent == [p \in Placement |-> ann]

\* One persona per placement.
OwnAgent == [p \in Placement |-> p]

\* n1 is steady; n2 may crash, drain, stay down or hang.
SteadyNodeSpec == Init /\ [][Next]_vars /\ SteadyNodes({n1})

Symmetry == Permutations(Node) \cup Permutations(Placement)

=============================================================================
