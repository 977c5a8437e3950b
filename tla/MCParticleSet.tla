--------------------------- MODULE MCParticleSet ---------------------------
(***************************************************************************)
(* Instances of ParticleSet for model checking.                            *)
(***************************************************************************)
EXTENDS ParticleSet, TLC

MCSymmetry == Permutations(Entries)
=============================================================================
