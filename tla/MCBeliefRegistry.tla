-------------------------- MODULE MCBeliefRegistry --------------------------
(***************************************************************************)
(* Instances of BeliefRegistry for model checking: two actions, one of     *)
(* them with two observations, and one terminal state.                     *)
(***************************************************************************)
EXTENDS BeliefRegistry

CONSTANTS q1, q2, q3

MCSequences == {q1, q2, q3}
MCSymmetry == Permutations(MCSequences)
MCStates == {"s", "t"}
MCInitStates == {"s"}
MCTerminalStates == {"t"}
MCEdges == {<<"a1", "o1">>, <<"a1", "o2">>, <<"a2", "o1">>}
=============================================================================
