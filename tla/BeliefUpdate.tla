---------------------------- MODULE BeliefUpdate ----------------------------
(***************************************************************************)
(* What a belief update promises the rest of the solver: either it fails,  *)
(* or it puts N particles into the next belief, each of them a state that  *)
(* some particle of the prior can move to and that the observation allows. *)
(* Particles that planning had left in the next belief may stand before    *)
(* them.                                                                   *)
(***************************************************************************)
EXTENDS Integers, Sequences

CONSTANTS
    States,     \* states of the model
    Moves,      \* the pairs of states its transition function relates
    N           \* the particles asked for

VARIABLES
    status,     \* whether an update is under way, or the last one failed
    prior,      \* the particles it started from
    likely,     \* the states its observation allows
    belief      \* the particles of the current belief, <<>> during an update

Posterior == {t \in likely : \E i \in DOMAIN prior : <<prior[i], t>> \in Moves}

Init ==
    /\ status = "idle"
    /\ prior = <<>>
    /\ likely = {}
    /\ belief = <<>>

(* Between updates, searches and changed models move the particles. *)
Plan ==
    /\ status = "idle"
    /\ belief' \in Seq(States)
    /\ UNCHANGED <<status, prior, likely>>

Begin ==
    /\ status = "idle"
    /\ status' = "updating"
    /\ prior' \in Seq(States) \ {<<>>}
    /\ likely' \in SUBSET States
    /\ belief' = <<>>

Finish ==
    /\ status = "updating"
    /\ status' = "idle"
    /\ belief' \in Seq(States)
    /\ Len(belief') >= N
    /\ \A i \in (Len(belief') - N + 1)..Len(belief') : belief'[i] \in Posterior
    /\ UNCHANGED <<prior, likely>>

Fail ==
    /\ status \in {"idle", "updating"}
    /\ status' = "failed"
    /\ belief' = <<>>
    /\ UNCHANGED <<prior, likely>>

Reset ==
    /\ status = "failed"
    /\ status' = "idle"
    /\ prior' = <<>>
    /\ likely' = {}
    /\ belief' = <<>>

Next == Plan \/ Begin \/ Finish \/ Fail \/ Reset

Spec == Init /\ [][Next]_<<status, prior, likely, belief>>
=============================================================================
