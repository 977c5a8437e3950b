--------------------------- MODULE ActionMapText ---------------------------
(***************************************************************************)
(* A policy is saved as text and loaded again: what saveActionMapping      *)
(* writes for an action mapping in any state ActionMap can reach, and what *)
(* loadActionMapping makes of it.  Words and numbers are taken as read; a  *)
(* child is one item of the text, read by a loader of its own.             *)
(*                                                                         *)
(* The writer lists every entry with a visit or a child, by falling mean.  *)
(* The reader takes as many entries as the header says were visited: it    *)
(* depends on the entries nobody visited, of mean -infinity, coming last.  *)
(***************************************************************************)
EXTENDS ActionMap

(* Bins are indices of the vector of entries, and break ties between means. *)
ASSUME IndicesAssumption == Bins \subseteq Nat

-----------------------------------------------------------------------------
(* saveActionMapping *)

Saved == {b \in Bins : visitCount_[b] > 0 \/ b \in childNode_}

HigherMean(b, c) ==
    LET m == meanQValue_[b]
        n == meanQValue_[c]
    IN  IF n = NoMean THEN m # NoMean \/ b > c
        ELSE /\ m # NoMean
             /\ \/ m[1] * n[2] > n[1] * m[2]
                \/ m[1] * n[2] = n[1] * m[2] /\ b > c

SavedAscending ==                                               \* mutant
    CHOOSE order \in [1..Cardinality(Saved) -> Saved] :
        \A i, j \in DOMAIN order : i < j => HigherMean(order[j], order[i])

(* entriesByValue, which is read from its end. *)
SavedInOrder ==
    CHOOSE order \in [1..Cardinality(Saved) -> Saved] :
        \A i, j \in DOMAIN order : i < j => HigherMean(order[i], order[j])

(* The words behind the total of an entry's line. *)
Words(b) ==
    (IF b \in LegalBins THEN <<>> ELSE <<"ILLEGAL">>)
        \o (IF b \in childNode_ THEN <<>> ELSE <<"NO", "CHILD">>)

Line(b) == [bin |-> b, mean |-> meanQValue_[b], visits |-> visitCount_[b],
            total |-> totalQValue_[b], words |-> Words(b)]

Child(b) == [childOf |-> b]

Entry(b) == IF b \in childNode_ THEN <<Line(b), Child(b)>> ELSE <<Line(b)>>

SavedEntries == FlattenSeq([i \in 1..Cardinality(Saved) |-> Entry(SavedInOrder[i])])

-----------------------------------------------------------------------------
(* loadActionMapping, into a mapping constructed without any legal bin. *)

Word(line, i) == IF i <= Len(line.words) THEN line.words[i] ELSE ""

ReadsLegal(line) == Word(line, 1) # "ILLEGAL"

ReadsChild(line) == ~(Word(line, 2) = "NO" /\ Word(line, 3) = "CHILD")

(* One round of the loop: the line, then the child the line promises.       *)
ReadEntry(r) ==
    LET line == Head(r.rest)
        rest == Tail(r.rest)
    IN  IF \/ r.misread \/ r.rest = <<>> \/ "bin" \notin DOMAIN line
           \/ ReadsChild(line) /\ (rest = <<>> \/ "childOf" \notin DOMAIN Head(rest))
        THEN [r EXCEPT !.misread = TRUE]
        ELSE [r EXCEPT !.lines = @ \cup {line},
                       !.nodes = IF ReadsChild(line) THEN @ \cup {line.bin} ELSE @,
                       !.rest = IF ReadsChild(line) THEN Tail(rest) ELSE rest]

(* What has been read after k rounds. *)
Read[k \in 0..Cardinality(Bins)] ==
    IF k = 0 THEN [rest |-> SavedEntries, lines |-> {}, nodes |-> {}, misread |-> FALSE]
             ELSE ReadEntry(Read[k - 1])

Loaded ==
    LET r == Read[numberOfVisitedEntries_]
    IN  [lines |-> r.lines, nodes |-> r.nodes, misread |-> r.misread,
         legal |-> {line.bin : line \in {l \in r.lines : ReadsLegal(l)}}
                       \cup ToSet(binSequence_)]

-----------------------------------------------------------------------------
(* What was learned survives saving and loading: the reader is never handed *)
(* a child where it expects a line or the reverse, finds exactly the        *)
(* entries somebody visited, each with its node and its numbers, and ends   *)
(* with the legal bins, although the text names no bin as legal.            *)
VisitedSurviveSaving ==
    /\ ~Loaded.misread
    /\ {line.bin : line \in Loaded.lines} = Visited
    /\ \A line \in Loaded.lines : line = Line(line.bin)
    /\ Loaded.nodes = childNode_ \cap Visited
    /\ Loaded.legal = LegalBins
=============================================================================
