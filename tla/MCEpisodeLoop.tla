--------------------------- MODULE MCEpisodeLoop ---------------------------
(***************************************************************************)
(* An instance of EpisodeLoop: two runs of at most three steps, with a     *)
(* limit of two histories or a timeout, and with and without resetting the *)
(* tree on changes.                                                        *)
(***************************************************************************)
EXTENDS EpisodeLoop

MCNRuns == 2
MCSteps == 3
MCOptions ==
    {o \in [historiesPerStep : {0, 2}, hasTimeout : BOOLEAN, resetOnChanges : BOOLEAN] :
        o.historiesPerStep # 0 \/ o.hasTimeout}
=============================================================================
