-------------------------- MODULE MCChangeHandling --------------------------
(***************************************************************************)
(* An instance of ChangeHandling: two states that may become invalid and   *)
(* lead to each other, and a terminal one.  The observations of one of the *)
(* two and of the terminal state share an entry of the mapping.            *)
(***************************************************************************)
EXTENDS ChangeHandling

MCStates == {"i", "a", "b", "t"}
MCMoves == [s \in MCStates |-> [a \in Actions |->
    CASE s = "i" -> {"a", "b", "t"}
      [] s = "a" -> {"b", "t"}
      [] s = "b" -> {"a", "b"}
      [] s = "t" -> {}]]
MCObserve == [s \in MCStates |->
    CASE s = "a" -> {"o1", "o2"}
      [] s = "b" -> {"o3"}
      [] s = "t" -> {"o1", "o2"}
      [] s = "i" -> {"o3"}]
MCCell == [o \in {"o1", "o2", "o3"} |-> IF o = "o3" THEN "c2" ELSE "c1"]
=============================================================================
