--------------------------- MODULE MCObservationMap ---------------------------
(* Observations on a line, one unit apart, and a reach of one unit: an      *)
(* observation may be near to two entries, and as near to one as to another. *)
EXTENDS ObservationMap, TLC

CONSTANTS Last_, q1, q2, q3

MCObservations == 0..Last_
MCDistance == [o \in MCObservations |-> [p \in MCObservations |->
                  IF o < p THEN p - o ELSE o - p]]
MCSequences == {q1, q2, q3}
MCSymmetry == Permutations(MCSequences)
===============================================================================
