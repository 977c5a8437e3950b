---------------------------- MODULE BackupProofs ----------------------------
(***************************************************************************)
(* The deferred backup, for every tree of belief nodes: no stale value is  *)
(* ever forgotten, the queue never holds a destroyed node, and doBackup    *)
(* recalculates each node at most once.                                    *)
(***************************************************************************)
EXTENDS Backup, SequenceTheorems, TLAPS

(* Every operation but those that destroy nodes may leave the queue        *)
(* filled; they run only when it is empty.                                 *)
QueueEmptyWhenIdle == phase = "idle" => nodesToBackup_ = {}

(* doBackup has moved up: all it has recalculated lies deeper than all it  *)
(* has still to do.                                                        *)
BackedUpBelow ==
    /\ BackingUp => \A n \in nodesToBackup_, b \in backedUp : Depth(n) < Depth(b)
    /\ ~BackingUp => backedUp = {}

IInv == TypeOK /\ StaleIsQueued /\ QueuedNodesExist /\ QueueEmptyWhenIdle /\ BackedUpBelow

-----------------------------------------------------------------------------
(* Facts about paths. *)

LEMMA FrontOfPath ==
    ASSUME NEW n \in Seq(Edges), n # <<>>
    PROVE  /\ Front(n) \in Seq(Edges)
           /\ Len(Front(n)) = Len(n) - 1
           /\ \A i \in 1..(Len(n) - 1) : Front(n)[i] = n[i]
<1>1. Len(n) \in Nat /\ Len(n) >= 1
  BY EmptySeq
<1>2. /\ 1 \in Int /\ Len(n) - 1 \in Int
      /\ \A i \in 1..(Len(n) - 1) : n[i] \in Edges
  BY <1>1
<1>3. /\ SubSeq(n, 1, Len(n) - 1) \in Seq(Edges)
      /\ Len(SubSeq(n, 1, Len(n) - 1)) =
            (IF 1 <= Len(n) - 1 THEN Len(n) - 1 - 1 + 1 ELSE 0)
      /\ \A i \in 1..(Len(n) - 1 - 1 + 1) :
            SubSeq(n, 1, Len(n) - 1)[i] = n[1 + i - 1]
  BY <1>2, SubSeqProperties
<1>4. Len(n) - 1 - 1 + 1 = Len(n) - 1 /\ \A i \in 1..(Len(n) - 1) : 1 + i - 1 = i
  BY <1>1
<1>5. \A k \in Nat : k >= 1 => (IF 1 <= k - 1 THEN k - 1 - 1 + 1 ELSE 0) = k - 1
  OBVIOUS
<1>6. Len(SubSeq(n, 1, Len(n) - 1)) = Len(n) - 1
  BY <1>1, <1>3, <1>5, Zenon
<1> QED
  BY <1>3, <1>4, <1>6, Zenon DEF Front

LEMMA PrefixElements ==
    ASSUME NEW s \in Seq(Edges), NEW t \in Seq(Edges)
    PROVE  IsPrefix(s, t) <=> Len(s) <= Len(t) /\ \A i \in 1..Len(s) : s[i] = t[i]
<1>1. Len(s) \in Nat /\ Len(t) \in Nat
  OBVIOUS
<1>2. ASSUME Len(s) <= Len(t)
      PROVE  /\ SubSeq(s, 1, Len(s)) = [i \in 1..Len(s) |-> s[i]]
             /\ SubSeq(t, 1, Len(s)) = [i \in 1..Len(s) |-> t[i]]
  BY <1>1, <1>2
<1> QED
  BY <1>1, <1>2 DEF IsPrefix

LEMMA PrefixOfPrefix ==
    ASSUME NEW s \in Seq(Edges), NEW t \in Seq(Edges), NEW u \in Seq(Edges),
           IsPrefix(s, t), IsPrefix(t, u)
    PROVE  IsPrefix(s, u)
<1>1. Len(s) \in Nat /\ Len(t) \in Nat /\ Len(u) \in Nat
  OBVIOUS
<1>2. Len(s) <= Len(u) /\ \A i \in 1..Len(s) : s[i] = u[i]
  BY <1>1, PrefixElements
<1> QED
  BY <1>2, PrefixElements

LEMMA FrontIsPrefix ==
    ASSUME NEW n \in Seq(Edges), n # <<>>
    PROVE  Front(n) \in Seq(Edges) /\ IsPrefix(Front(n), n)
<1>1. Len(n) \in Nat /\ Len(Front(n)) \in Nat
  BY FrontOfPath
<1> QED
  BY <1>1, FrontOfPath, PrefixElements

LEMMA SameDepthPrefix ==
    ASSUME NEW s \in Seq(Edges), NEW t \in Seq(Edges), Len(s) = Len(t), IsPrefix(s, t)
    PROVE  s = t
BY PrefixElements

LEMMA NodeIsPath ==
    ASSUME NEW n \in Nodes
    PROVE  /\ n \in Seq(Edges) /\ Depth(n) \in Nat
           /\ n # Root => /\ Parent(n) \in Nodes /\ IsPrefix(Parent(n), n)
                          /\ Depth(Parent(n)) = Depth(n) - 1
<1>1. n \in Seq(Edges)
  BY NodesAssumption
<1>2. Len(n) \in Nat
  BY <1>1
<1> QED
  BY <1>1, <1>2, NodesAssumption, FrontOfPath, FrontIsPrefix DEF Root, Parent, Depth

(* The parents of a set of nodes are nodes, one level up. *)
LEMMA ParentOfNode ==
    ASSUME NEW n \in Nodes, NEW m \in ParentOf(n)
    PROVE  m = Parent(n) /\ n # Root /\ m \in Nodes /\ Depth(m) = Depth(n) - 1
BY NodeIsPath DEF ParentOf

(* A tree that takes in all of a path still holds the parents of its nodes. *)
LEMMA GrowKeepsTree ==
    ASSUME TypeOK, NEW leaf \in Nodes, Grow(leaf)
    PROVE  /\ tree \subseteq tree' /\ tree' \subseteq Nodes
           /\ \A n \in tree' : ParentOf(n) \subseteq tree'
           /\ leaf \in tree'
<1>1. tree \subseteq tree' /\ tree' \subseteq Nodes
  BY DEF Grow, TypeOK
<1>2. leaf \in tree'
  <2>1. leaf \in Seq(Edges)
    BY NodeIsPath
  <2>2. IsPrefix(leaf, leaf)
    BY <2>1, PrefixElements
  <2> QED
    BY <2>2 DEF Grow
<1>3. ASSUME NEW n \in tree', NEW m \in ParentOf(n) PROVE m \in tree'
  <2>1. CASE n \in tree
    BY <1>1, <1>3, <2>1 DEF TypeOK
  <2>2. CASE n \notin tree
    <3>1. n \in Nodes /\ IsPrefix(n, leaf)
      BY <2>2 DEF Grow
    <3>2. m \in Nodes /\ IsPrefix(m, n) /\ m \in Seq(Edges) /\ n \in Seq(Edges)
      BY <3>1, <1>3, ParentOfNode, NodeIsPath
    <3>3. leaf \in Seq(Edges)
      BY NodeIsPath
    <3>4. IsPrefix(m, leaf)
      BY <3>1, <3>2, <3>3, PrefixOfPrefix
    <3> QED
      BY <3>2, <3>4 DEF Grow
  <2> QED
    BY <2>1, <2>2
<1> QED
  BY <1>1, <1>2, <1>3

(* What the updates of one sequence have in common: nodes may be added,    *)
(* nodes of the tree are queued and none leaves the queue.                 *)
LEMMA QueueGrows ==
    ASSUME IInv,
           tree \subseteq tree', tree' \subseteq Nodes,
           \A n \in tree' : ParentOf(n) \subseteq tree',
           current' = current, backedUp' = backedUp, ~BackingUp,
           phase' \in {"improving", "undoing", "revising", "extending"},
           stale' \subseteq nodesToBackup_',
           nodesToBackup_' \subseteq nodesToBackup_ \cup tree'
    PROVE  IInv'
<1>1. nodesToBackup_' \subseteq tree'
  BY DEF IInv, QueuedNodesExist
<1>2. TypeOK'
  BY <1>1 DEF IInv, TypeOK
<1>3. ~BackingUp' /\ backedUp' = {}
  BY DEF IInv, BackedUpBelow, BackingUp
<1> QED
  BY <1>1, <1>2, <1>3
     DEF IInv, StaleIsQueued, QueuedNodesExist, QueueEmptyWhenIdle, BackedUpBelow

(* updateSequence that propagates: the node it stops at is queued. *)
LEMMA PropagateQueues ==
    ASSUME StaleIsQueued, NEW top \in tree', NEW leaf, Propagate(top, leaf)
    PROVE  /\ stale' \subseteq nodesToBackup_'
           /\ nodesToBackup_' \subseteq nodesToBackup_ \cup tree'
<1>1. CASE top = leaf
  BY <1>1 DEF Propagate, StaleIsQueued
<1>2. CASE top # leaf
  BY <1>2 DEF Propagate, StaleIsQueued
<1> QED
  BY <1>1, <1>2

(* Deferred updates: what moved is queued. *)
LEMMA DeferQueues ==
    ASSUME StaleIsQueued, NEW queued \in SUBSET tree', NEW watched \in SUBSET tree',
           Defer(queued, watched)
    PROVE  /\ stale' \subseteq nodesToBackup_'
           /\ nodesToBackup_' \subseteq nodesToBackup_ \cup tree'
BY DEF Defer, StaleIsQueued

-----------------------------------------------------------------------------
LEMMA SearchKeepsIInv ==
    ASSUME IInv, NEW leaf \in Nodes, Search(leaf)
    PROVE  IInv'
<1>1. /\ tree \subseteq tree' /\ tree' \subseteq Nodes
      /\ \A n \in tree' : ParentOf(n) \subseteq tree'
  BY GrowKeepsTree DEF IInv, Search
<1>2. current \in tree'
  BY <1>1 DEF IInv, TypeOK
<1>3. /\ stale' \subseteq nodesToBackup_'
      /\ nodesToBackup_' \subseteq nodesToBackup_ \cup tree'
  BY <1>2, PropagateQueues DEF Search, IInv, StaleIsQueued
<1> QED
  BY <1>1, <1>3, QueueGrows DEF Search, BackingUp

LEMMA UndoKeepsIInv ==
    ASSUME IInv, NEW first \in tree, NEW leaf \in tree, Undo(first, leaf)
    PROVE  IInv'
<1>1. /\ tree' = tree /\ tree' \subseteq Nodes
      /\ \A n \in tree' : ParentOf(n) \subseteq tree'
  BY DEF IInv, TypeOK, Undo
<1>2. /\ stale' \subseteq nodesToBackup_'
      /\ nodesToBackup_' \subseteq nodesToBackup_ \cup tree'
  BY <1>1, PropagateQueues DEF Undo, IInv
<1> QED
  BY <1>1, <1>2, QueueGrows DEF Undo, BackingUp

LEMMA ReviseKeepsIInv ==
    ASSUME IInv, NEW first \in tree, NEW leaf \in tree, Revise(first, leaf)
    PROVE  IInv'
<1>1. /\ tree' = tree /\ tree' \subseteq Nodes
      /\ \A n \in tree' : ParentOf(n) \subseteq tree'
  BY DEF IInv, TypeOK, Revise
<1>2. \A d \in tree : Span(d, leaf) \subseteq tree'
  BY DEF Span
<1>3. (Span(first, leaf) \cup ParentOf(leaf)) \subseteq tree'
  BY <1>1, <1>2
<1>4. /\ stale' \subseteq nodesToBackup_'
      /\ nodesToBackup_' \subseteq nodesToBackup_ \cup tree'
  <2>1. CASE Defer({}, Span(first, leaf) \cup ParentOf(leaf))
    BY <2>1, <1>3, DeferQueues DEF IInv
  <2>2. CASE \E d \in Span(first, leaf) :
                Defer(Span(d, leaf), Span(first, leaf) \cup ParentOf(leaf))
    <3>1. PICK d \in Span(first, leaf) :
                Defer(Span(d, leaf), Span(first, leaf) \cup ParentOf(leaf))
      BY <2>2
    <3>2. Span(d, leaf) \subseteq tree'
      BY DEF Span
    <3> QED
      BY <3>1, <3>2, <1>3, DeferQueues DEF IInv
  <2> QED
    BY <2>1, <2>2 DEF Revise
<1> QED
  BY <1>1, <1>4, QueueGrows DEF Revise, BackingUp

LEMMA ExtendKeepsIInv ==
    ASSUME IInv, NEW first \in tree, NEW last \in tree, NEW leaf \in Nodes,
           Extend(first, last, leaf)
    PROVE  IInv'
<1>1. /\ tree \subseteq tree' /\ tree' \subseteq Nodes
      /\ \A n \in tree' : ParentOf(n) \subseteq tree'
  BY GrowKeepsTree DEF IInv, Extend
<1>2. /\ stale' \subseteq nodesToBackup_'
      /\ nodesToBackup_' \subseteq nodesToBackup_ \cup tree'
  <2>1. CASE UNCHANGED <<stale, nodesToBackup_>>
    BY <2>1 DEF IInv, StaleIsQueued
  <2>2. CASE \E moved \in SUBSET (ParentOf(last) \cap Span(first, leaf)), v \in {{}, {last}} :
                /\ stale' = ((stale \cup moved) \ Span(last, leaf)) \cup v
                /\ nodesToBackup_' = nodesToBackup_ \cup moved \cup {last}
    <3>1. last \in tree' /\ ParentOf(last) \subseteq tree'
      BY <1>1
    <3> QED
      BY <2>2, <3>1 DEF IInv, StaleIsQueued
  <2>3. CASE first # last /\ last = leaf /\ IsPrefix(first, last) /\ Propagate(Parent(last), last)
    <3>1. last # Root
      <4>1. SUFFICES ASSUME last = Root PROVE FALSE
        OBVIOUS
      <4>2. first \in Nodes /\ last \in Nodes
        BY DEF IInv, TypeOK
      <4>3. /\ first \in Seq(Edges) /\ Len(first) \in Nat
            /\ last \in Seq(Edges) /\ Len(last) \in Nat
        BY <4>2, NodeIsPath DEF Depth
      <4>4. Len(last) = 0
        BY <4>1, EmptySeq DEF Root
      <4>5. Len(first) <= Len(last)
        BY <2>3, <4>3, PrefixElements
      <4>6. Len(first) = Len(last)
        BY <4>3, <4>4, <4>5
      <4> QED
        BY <2>3, <4>3, <4>6, SameDepthPrefix
    <3>2. Parent(last) \in tree'
      BY <1>1, <3>1 DEF ParentOf
    <3> QED
      BY <2>3, <3>2, PropagateQueues DEF IInv
  <2> QED
    BY <2>1, <2>2, <2>3 DEF Extend
<1> QED
  BY <1>1, <1>2, QueueGrows DEF Extend, BackingUp

LEMMA UpdateBeliefKeepsIInv ==
    ASSUME IInv, NEW n \in Nodes, UpdateBelief(n)
    PROVE  IInv'
<1>1. ParentOf(n) = {current} /\ n # Root
  BY DEF UpdateBelief, ParentOf
<1>2. tree' = tree \cup {n} /\ current' = n /\ phase' = phase
      /\ stale' = stale /\ nodesToBackup_' = nodesToBackup_ /\ backedUp' = backedUp
  BY DEF UpdateBelief
<1>3. \A m \in tree' : ParentOf(m) \subseteq tree'
  <2>1. current \in tree /\ \A m \in tree : ParentOf(m) \subseteq tree
    BY DEF IInv, TypeOK
  <2> QED
    BY <1>1, <1>2, <2>1
<1>4. TypeOK'
  BY <1>2, <1>3 DEF IInv, TypeOK
<1> QED
  BY <1>2, <1>4
     DEF IInv, StaleIsQueued, QueuedNodesExist, QueueEmptyWhenIdle, BackedUpBelow, BackingUp

LEMMA ResetKeepsIInv == ASSUME IInv, ResetTree PROVE IInv'
<1>1. /\ nodesToBackup_ = {} /\ nodesToBackup_' = {} /\ stale' = {}
      /\ tree' = {Root} /\ current' = Root /\ phase' = phase /\ backedUp' = backedUp
  BY DEF ResetTree, IInv, QueueEmptyWhenIdle
<1>2. Root \in Nodes
  BY NodesAssumption DEF Root
<1>3. TypeOK'
  BY <1>1, <1>2 DEF IInv, TypeOK, ParentOf
<1> QED
  BY <1>1, <1>3
     DEF IInv, StaleIsQueued, QueuedNodesExist, QueueEmptyWhenIdle, BackedUpBelow, BackingUp

(* Pruning the siblings of a node leaves its ancestors and itself. *)
LEMMA PruningKeepsTree ==
    ASSUME TypeOK, PruneSiblings
    PROVE  /\ tree' \subseteq tree /\ Root \in tree' /\ current \in tree'
           /\ \A n \in tree' : ParentOf(n) \subseteq tree'
<1>1. /\ current \in tree /\ current # Root /\ tree \subseteq Nodes /\ Root \in tree
      /\ tree' = {n \in tree : \A m \in Siblings(current) : ~IsPrefix(m, n)}
  BY DEF TypeOK, PruneSiblings
<1>2. \A m \in Siblings(current) : /\ m \in Nodes /\ m \in Seq(Edges) /\ m # current
                                   /\ Len(m) = Len(current)
  BY <1>1, NodeIsPath DEF Siblings, Depth
<1>3. current \in Nodes /\ current \in Seq(Edges) /\ Root \in Nodes /\ Root \in Seq(Edges)
  BY <1>1, NodeIsPath
<1>4. current \in tree'
  BY <1>1, <1>2, <1>3, SameDepthPrefix
<1>5. Root \in tree'
  <2>1. SUFFICES ASSUME NEW m \in Siblings(current), IsPrefix(m, Root) PROVE FALSE
    BY <1>1
  <2>2. Len(Root) = 0 /\ Len(current) \in Nat \ {0}
    BY <1>1, <1>3, EmptySeq DEF Root
  <2>3. Len(m) <= Len(Root)
    BY <1>2, <1>3, <2>1, PrefixElements
  <2> QED
    BY <1>2, <2>2, <2>3
<1>6. ASSUME NEW n \in tree', NEW p \in ParentOf(n) PROVE p \in tree'
  <2>1. n \in Nodes /\ n \in tree /\ p \in tree
    BY <1>1, <1>6 DEF TypeOK
  <2>2. p \in Seq(Edges) /\ n \in Seq(Edges) /\ IsPrefix(p, n)
    BY <2>1, <1>6, ParentOfNode, NodeIsPath
  <2>3. ASSUME NEW m \in Siblings(current), IsPrefix(m, p) PROVE FALSE
    BY <1>1, <1>2, <2>2, <2>3, PrefixOfPrefix
  <2> QED
    BY <1>1, <2>1, <2>3
<1> QED
  BY <1>1, <1>4, <1>5, <1>6

LEMMA PruneKeepsIInv == ASSUME IInv, PruneSiblings PROVE IInv'
<1>1. /\ tree' \subseteq tree /\ Root \in tree' /\ current \in tree'
      /\ \A n \in tree' : ParentOf(n) \subseteq tree'
  BY PruningKeepsTree DEF IInv
<1>2. nodesToBackup_ = {} /\ stale = {} /\ backedUp = {}
  BY DEF IInv, QueueEmptyWhenIdle, StaleIsQueued, BackedUpBelow, BackingUp, PruneSiblings
<1>3. Parent(current) \in tree'
  BY <1>1 DEF PruneSiblings, ParentOf
<1>4. stale' \subseteq nodesToBackup_' /\ nodesToBackup_' \subseteq tree'
  BY <1>2, <1>3 DEF PruneSiblings
<1>5. phase' = "backup" /\ current' = current /\ backedUp' = {}
  BY <1>2 DEF PruneSiblings
<1>6. TypeOK'
  BY <1>1, <1>4, <1>5 DEF IInv, TypeOK
<1> QED
  BY <1>4, <1>5, <1>6
     DEF IInv, StaleIsQueued, QueuedNodesExist, QueueEmptyWhenIdle, BackedUpBelow, BackingUp

(* One round of doBackup: the deepest nodes leave the queue, and the ones  *)
(* that enter it lie one level above them.                                 *)
LEMMA BackUpDeepestKeepsIInv == ASSUME IInv, BackUpDeepest PROVE IInv'
<1>1. PICK moved \in SUBSET UNION {ParentOf(n) : n \in Deepest} :
          /\ stale' = (stale \ Deepest) \cup moved
          /\ nodesToBackup_' = (nodesToBackup_ \ Deepest) \cup moved
  BY DEF BackUpDeepest
<1>2. /\ tree' = tree /\ current' = current /\ phase' = phase /\ BackingUp
      /\ backedUp' = backedUp \cup Deepest
  BY DEF BackUpDeepest
<1>3. Deepest \subseteq nodesToBackup_ /\ nodesToBackup_ \subseteq tree /\ tree \subseteq Nodes
  BY DEF Deepest, IInv, QueuedNodesExist, TypeOK
<1>4. ASSUME NEW m \in moved
      PROVE  m \in tree /\ \E n \in Deepest : Depth(m) = Depth(n) - 1
  <2>1. PICK n \in Deepest : m \in ParentOf(n)
    BY <1>1
  <2>2. n \in tree /\ n \in Nodes
    BY <1>3
  <2> QED
    BY <2>1, <2>2, ParentOfNode DEF IInv, TypeOK
<1>5. \A n \in Nodes : Depth(n) \in Nat
  BY NodeIsPath
<1>6. nodesToBackup_' \subseteq tree /\ stale' \subseteq nodesToBackup_'
  BY <1>1, <1>3, <1>4 DEF IInv, StaleIsQueued
<1>7. backedUp' \subseteq Nodes
  BY <1>2, <1>3 DEF IInv, TypeOK
<1>8. \A n \in nodesToBackup_', b \in Deepest : Depth(n) < Depth(b)
  <2>1. \A a \in Deepest, b \in Deepest : Depth(a) = Depth(b)
    BY <1>3, <1>5 DEF Deepest
  <2>2. \A n \in nodesToBackup_ \ Deepest, b \in Deepest : Depth(n) < Depth(b)
    BY <1>3, <1>5 DEF Deepest
  <2>3. \A n \in moved, b \in Deepest : Depth(n) < Depth(b)
    BY <1>3, <1>4, <1>5, <2>1
  <2> QED
    BY <1>1, <2>2, <2>3
<1>9. \A n \in nodesToBackup_', b \in backedUp : Depth(n) < Depth(b)
  <2>1. \A n \in nodesToBackup_, b \in backedUp : Depth(n) < Depth(b)
    BY <1>2 DEF IInv, BackedUpBelow
  <2>2. ASSUME NEW n \in moved, NEW b \in backedUp PROVE Depth(n) < Depth(b)
    <3>1. PICK a \in Deepest : Depth(n) = Depth(a) - 1
      BY <1>4
    <3>2. Depth(a) < Depth(b) /\ Depth(a) \in Nat /\ Depth(b) \in Nat
      BY <1>3, <1>5, <2>1 DEF IInv, TypeOK
    <3> QED
      BY <3>1, <3>2
  <2> QED
    BY <1>1, <2>1, <2>2
<1>10. TypeOK'
  BY <1>2, <1>3, <1>6, <1>7 DEF IInv, TypeOK
<1>11. BackedUpBelow'
  BY <1>2, <1>8, <1>9 DEF BackedUpBelow, BackingUp
<1> QED
  BY <1>2, <1>6, <1>10, <1>11
     DEF IInv, StaleIsQueued, QueuedNodesExist, QueueEmptyWhenIdle, BackingUp

LEMMA EndBackupKeepsIInv == ASSUME IInv, EndBackup PROVE IInv'
<1>1. /\ phase' \in {"idle", "extending"} /\ nodesToBackup_' = {} /\ backedUp' = {}
      /\ tree' = tree /\ current' = current /\ stale' = stale /\ nodesToBackup_ = {}
  BY DEF EndBackup
<1>2. TypeOK'
  BY <1>1 DEF IInv, TypeOK
<1> QED
  BY <1>1, <1>2
     DEF IInv, StaleIsQueued, QueuedNodesExist, QueueEmptyWhenIdle, BackedUpBelow, BackingUp

(* The calls that only go from one part of an operation to the next. *)
LEMMA PhaseChangeKeepsIInv ==
    ASSUME IInv,
           StartSearches \/ StopSearches \/ StartChanges \/ BackUpRevised \/ BackUpExtended
    PROVE  IInv'
<1>1. /\ UNCHANGED <<tree, current, stale, nodesToBackup_, backedUp>>
      /\ ~BackingUp
      /\ phase' \in {"improving", "undoing", "backup revised", "backup"}
  BY DEF StartSearches, StopSearches, StartChanges, BackUpRevised, BackUpExtended, BackingUp
<1>2. backedUp' = {}
  BY <1>1 DEF IInv, BackedUpBelow
<1>3. TypeOK'
  BY <1>1 DEF IInv, TypeOK
<1> QED
  BY <1>1, <1>2, <1>3
     DEF IInv, StaleIsQueued, QueuedNodesExist, QueueEmptyWhenIdle, BackedUpBelow

-----------------------------------------------------------------------------
LEMMA InitEstablishesIInv == Init => IInv
<1> SUFFICES ASSUME Init PROVE IInv
  OBVIOUS
<1>1. Root \in Nodes
  BY NodesAssumption DEF Root
<1>2. TypeOK
  BY <1>1 DEF Init, TypeOK, ParentOf
<1> QED
  BY <1>2
     DEF Init, IInv, StaleIsQueued, QueuedNodesExist, QueueEmptyWhenIdle, BackedUpBelow,
         BackingUp

LEMMA NextKeepsIInv == IInv /\ [Next]_vars => IInv'
<1> SUFFICES ASSUME IInv, [Next]_vars PROVE IInv'
  OBVIOUS
<1>1. CASE StartSearches \/ StopSearches \/ StartChanges \/ BackUpRevised \/ BackUpExtended
  BY <1>1, PhaseChangeKeepsIInv
<1>2. CASE \E leaf \in Nodes : Search(leaf)
  BY <1>2, SearchKeepsIInv
<1>3. CASE \E n \in Nodes : UpdateBelief(n)
  BY <1>3, UpdateBeliefKeepsIInv
<1>4. CASE \E first \in Starts, leaf \in tree :
              IsPrefix(first, leaf) /\ (Undo(first, leaf) \/ Revise(first, leaf))
  BY <1>4, UndoKeepsIInv, ReviseKeepsIInv DEF Starts
<1>5. CASE \E first \in Starts, last \in tree, leaf \in Nodes : Extend(first, last, leaf)
  BY <1>5, ExtendKeepsIInv DEF Starts
<1>6. CASE ResetTree
  BY <1>6, ResetKeepsIInv
<1>7. CASE PruneSiblings
  BY <1>7, PruneKeepsIInv
<1>8. CASE BackUpDeepest
  BY <1>8, BackUpDeepestKeepsIInv
<1>9. CASE EndBackup
  BY <1>9, EndBackupKeepsIInv
<1>10. CASE UNCHANGED vars
  BY <1>10
     DEF vars, IInv, TypeOK, StaleIsQueued, QueuedNodesExist, QueueEmptyWhenIdle,
         BackedUpBelow, BackingUp, ParentOf
<1> QED
  BY <1>1, <1>2, <1>3, <1>4, <1>5, <1>6, <1>7, <1>8, <1>9, <1>10 DEF Next

(* The inductive invariant of the deferred backup. *)
THEOREM IInvHolds == Spec => []IInv
  BY InitEstablishesIInv, NextKeepsIInv, PTL DEF Spec

(* The state has its types and the tree its inner nodes. *)
THEOREM TypeCorrect == Spec => []TypeOK
  BY IInvHolds, PTL DEF IInv

(* No stale value is forgotten by the searches, revisions, prunings and    *)
(* rounds of doBackup that leave values to be recalculated.                *)
THEOREM NoStaleValueForgotten == Spec => []StaleIsQueued
  BY IInvHolds, PTL DEF IInv

(* doBackup never follows a pointer to a node that has been destroyed. *)
THEOREM QueueNeverDangles == Spec => []QueuedNodesExist
  BY IInvHolds, PTL DEF IInv

(* doBackup never recalculates a node a second time. *)
THEOREM EachNodeOnce == Spec => []BackedUpOnce
<1>1. IInv => BackedUpOnce
  <2> SUFFICES ASSUME IInv, BackingUp, NEW n \in nodesToBackup_, n \in backedUp
               PROVE  FALSE
    BY DEF BackedUpOnce
  <2>1. Depth(n) < Depth(n) /\ Depth(n) \in Nat
    BY NodeIsPath DEF IInv, BackedUpBelow, TypeOK
  <2> QED
    BY <2>1
<1> QED
  BY <1>1, IInvHolds, PTL
=============================================================================
