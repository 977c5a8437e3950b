---------------------------- MODULE MCActionMap ----------------------------
(***************************************************************************)
(* Instances of ActionMap for model checking.                              *)
(***************************************************************************)
EXTENDS ActionMapText

MCBins == 0..3
MCLegalBins == 0..2
MCQDeltas == {-1, 0, 1}
=============================================================================
