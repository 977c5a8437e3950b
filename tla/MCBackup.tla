------------------------------ MODULE MCBackup ------------------------------
(***************************************************************************)
(* An instance of Backup: a tree of depth 3 in which the root and one of   *)
(* its children branch, so that two leaves share an inner node and a       *)
(* sibling with a subtree of its own can be pruned.                        *)
(***************************************************************************)
EXTENDS Backup

MCEdges == {1, 2}
MCNodes == { <<>>, <<1>>, <<2>>, <<1, 1>>, <<1, 2>>, <<2, 1>>,
             <<1, 1, 1>> }
=============================================================================
