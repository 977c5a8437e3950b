-------------------------- MODULE MCParticleFilter --------------------------
(***************************************************************************)
(* An instance of ParticleFilter: a state that can be left by a collision, *)
(* one that can be reached with and without one, and one that planning may *)
(* have met before the filter does.                                        *)
(***************************************************************************)
EXTENDS ParticleFilter

MCStates == {"a", "b", "c"}
MCInitStates == {"a"}
MCMoves == {<<"a", "a">>, <<"a", "b">>, <<"b", "b">>, <<"b", "c">>, <<"c", "b">>}
MCColliding == {<<"a", "b">>, <<"b", "c">>}
=============================================================================
