------------------------------ MODULE EntrySet ------------------------------
(***************************************************************************)
(* What a belief node promises about its particles: a set of entries that  *)
(* grows and shrinks by one, and that a pruning call can empty, deleting   *)
(* the sequence of every entry once and of no other entry.                 *)
(***************************************************************************)
CONSTANT Entries

VARIABLES
    members,    \* the particles of the node
    deleting    \* a call deletes the sequences of all of them

vars == <<members, deleting>>

Init == members = {} /\ deleting = FALSE

Add(e) ==
    /\ ~deleting
    /\ members' = members \cup {e}
    /\ UNCHANGED deleting

Remove(e) ==
    /\ ~deleting
    /\ members' = members \ {e}
    /\ UNCHANGED deleting

StartDeleting == ~deleting /\ deleting' = TRUE /\ UNCHANGED members

DeleteOne ==
    /\ deleting
    /\ \E e \in members : members' = members \ {e}
    /\ UNCHANGED deleting

FinishDeleting ==
    /\ deleting
    /\ members = {}
    /\ deleting' = FALSE
    /\ UNCHANGED members

Next ==
    \/ \E e \in Entries : Add(e) \/ Remove(e)
    \/ StartDeleting
    \/ DeleteOne
    \/ FinishDeleting

Spec == Init /\ [][Next]_vars
=============================================================================
