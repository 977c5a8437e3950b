------------------------ MODULE ChangeHandlingProofs ------------------------
(***************************************************************************)
(* Histories after a change, for any states, moves and observations, any   *)
(* number of histories and any depth: the theorems about ChangeHandling.   *)
(***************************************************************************)
EXTENDS ChangeHandling, FiniteSetTheorems, SequenceTheorems, WellFoundedInduction, TLAPS

-----------------------------------------------------------------------------
(* Nodes are named by their path from the root: one is above another if its *)
(* path is a prefix.                                                        *)

(* A prefix is one element for element. *)
LEMMA PrefixElements ==
    ASSUME NEW S, NEW s \in Seq(S), NEW t \in Seq(S)
    PROVE  IsPrefix(s, t) <=> /\ Len(s) <= Len(t)
                              /\ \A i \in 1..Len(s) : s[i] = t[i]
<1>1. CASE Len(s) <= Len(t)
  <2> DEFINE a == SubSeq(s, 1, Len(s))
             b == SubSeq(t, 1, Len(s))
  <2>1. /\ a \in Seq(S) /\ Len(a) = Len(s)
        /\ \A i \in 1..Len(s) : a[i] = s[i]
    BY SubSeqProperties
  <2>2. /\ b \in Seq(S) /\ Len(b) = Len(s)
        /\ \A i \in 1..Len(s) : b[i] = t[i]
    BY <1>1, SubSeqProperties
  <2>3. IsPrefix(s, t) <=> a = b
    BY <1>1 DEF IsPrefix
  <2> HIDE DEF a, b
  <2>4. a = b <=> \A i \in 1..Len(s) : a[i] = b[i]
    BY <2>1, <2>2, SeqEqual
  <2> QED
    BY <1>1, <2>1, <2>2, <2>3, <2>4
<1>2. CASE ~(Len(s) <= Len(t))
  BY <1>2 DEF IsPrefix
<1> QED
  BY <1>1, <1>2

(* Prefixes are ordered, and two prefixes of a path are one of the other. *)
LEMMA PrefixOrder ==
    ASSUME NEW S, NEW s \in Seq(S), NEW t \in Seq(S), NEW u \in Seq(S)
    PROVE  /\ IsPrefix(s, s)
           /\ IsPrefix(s, t) /\ IsPrefix(t, u) => IsPrefix(s, u)
           /\ IsPrefix(s, u) /\ IsPrefix(t, u) /\ Len(s) <= Len(t) => IsPrefix(s, t)
           /\ IsPrefix(s, t) /\ Len(s) = Len(t) => s = t
<1>1. IsPrefix(s, s)
  BY PrefixElements
<1>2. IsPrefix(s, t) /\ IsPrefix(t, u) => IsPrefix(s, u)
  BY PrefixElements
<1>3. IsPrefix(s, u) /\ IsPrefix(t, u) /\ Len(s) <= Len(t) => IsPrefix(s, t)
  BY PrefixElements
<1>4. IsPrefix(s, t) /\ Len(s) = Len(t) => s = t
  BY PrefixElements, SeqEqual
<1> QED
  BY <1>1, <1>2, <1>3, <1>4

-----------------------------------------------------------------------------
Steps == Actions \X Range(Cell)

(* A history is a path of entries with an action and an observation, but    *)
(* for the last.                                                            *)
HistoryTyped(h) ==
    /\ h \in Seq(EntryType) /\ Len(h) <= MaximumDepth + 1
    /\ \A i \in 1..Len(h) :
          IF i < Len(h) THEN h[i].action \in Actions /\ h[i].observation \in Observations
                        ELSE h[i].action = NoAction

StepOf(h, i) == <<h[i].action, Cell[h[i].observation]>>

(* The node of entry j is that of the first entry with the steps between.   *)
Straight(h) ==
    \A j \in DOMAIN h :
        /\ Len(h[j].node) = Len(h[1].node) + (j - 1)
        /\ \A k \in 1..Len(h[j].node) :
              h[j].node[k] = IF k <= Len(h[1].node) THEN h[1].node[k]
                                                    ELSE StepOf(h, k - Len(h[1].node))

-----------------------------------------------------------------------------
(* Histories and their nodes. *)

LEMMA EntryFields ==
    ASSUME NEW e \in EntryType
    PROVE  /\ e.state \in States /\ e.node \in Seq(Steps)
           /\ e.action \in Actions \cup {NoAction}
           /\ e.observation \in Observations \cup {NoObservation}
           /\ e.flags \in SUBSET Flags
BY DEF EntryType, Paths, Steps

(* The entries made from entries. *)
LEMMA FlaggedEntry ==
    ASSUME NEW e \in EntryType, NEW v \in SUBSET Flags, NEW x, x = [e EXCEPT !.flags = v]
    PROVE  /\ x \in EntryType /\ x.flags = v
           /\ x.state = e.state /\ x.node = e.node
           /\ x.action = e.action /\ x.observation = e.observation
           /\ x.value = e.value
<1>1. x \in EntryType /\ x.flags = v
  BY DEF EntryType
<1>2. /\ x.state = e.state /\ x.node = e.node
      /\ x.action = e.action /\ x.observation = e.observation
      /\ x.value = e.value
  BY DEF EntryType
<1> QED
  BY <1>1, <1>2

LEMMA RevisedEntryFields ==
    ASSUME NEW e \in EntryType, NEW flags, NEW o, NEW n,
           NEW x, x = RevisedEntry(e, flags, o, n)
    PROVE  x =
             [state |-> e.state, node |-> e.node, action |-> e.action, observation |-> o,
              value |-> IF "REWARD" \in flags THEN Reward(e.state, e.action, n) ELSE e.value,
              flags |-> {}]
BY DEF EntryType, RevisedEntry

LEMMA ReachedEntryFields ==
    ASSUME NEW e \in EntryType, NEW x, x = ReachedEntry(e)
    PROVE  x =
             [state |-> e.state, node |-> e.node, action |-> e.action,
              observation |-> e.observation,
              value |-> IF e.action = NoAction /\ "HEURISTIC" \in e.flags
                        THEN Heuristic(e.state) ELSE e.value,
              flags |-> {}]
BY DEF EntryType, ReachedEntry

LEMMA HistoryElements ==
    ASSUME NEW h, HistoryTyped(h)
    PROVE  /\ Len(h) \in Nat /\ DOMAIN h = 1..Len(h)
           /\ \A i \in DOMAIN h : /\ h[i] \in EntryType
                                  /\ h[i].node \in Seq(Steps) /\ Len(h[i].node) \in Nat
<1>1. h \in Seq(EntryType)
  BY DEF HistoryTyped
<1>2. Len(h) \in Nat /\ DOMAIN h = 1..Len(h) /\ \A i \in DOMAIN h : h[i] \in EntryType
  BY <1>1
<1>3. \A i \in DOMAIN h : h[i].node \in Seq(Steps)
  BY <1>2, EntryFields
<1>4. \A i \in DOMAIN h : Len(h[i].node) \in Nat
  BY <1>3
<1> QED
  BY <1>2, <1>3, <1>4

LEMMA StepTyped ==
    ASSUME NEW h, HistoryTyped(h), NEW i \in 1..(Len(h) - 1)
    PROVE  StepOf(h, i) \in Steps /\ StepOf(h, i) = <<h[i].action, Cell[h[i].observation]>>
<1>1. i \in 1..Len(h) /\ i < Len(h)
  BY HistoryElements
<1>2. h[i].action \in Actions /\ h[i].observation \in Observations
  BY <1>1 DEF HistoryTyped
<1>3. Cell[h[i].observation] \in Range(Cell)
  BY <1>2, ChangeAssumption DEF Range
<1> QED
  BY <1>2, <1>3 DEF StepOf, Steps

(* Each entry is at the child of the node before it.                        *)
LEMMA StraightSteps ==
    ASSUME NEW h, HistoryTyped(h), Straight(h), NEW i \in 1..(Len(h) - 1)
    PROVE  h[i + 1].node = Child(h[i].node, h[i].action, h[i].observation)
<1> DEFINE m == Len(h[1].node)
           c == Append(h[i].node, StepOf(h, i))
           n == h[i + 1].node
<1>1. /\ 1 \in DOMAIN h /\ i \in DOMAIN h /\ i + 1 \in DOMAIN h /\ i \in Nat
      /\ h[i].node \in Seq(Steps) /\ n \in Seq(Steps) /\ m \in Nat
      /\ Len(h[i].node) \in Nat
  BY HistoryElements
<1>2. StepOf(h, i) \in Steps
  BY StepTyped
<1>3. /\ c \in Seq(Steps) /\ Len(c) = Len(h[i].node) + 1
      /\ \A k \in 1..Len(h[i].node) : c[k] = h[i].node[k]
      /\ c[Len(h[i].node) + 1] = StepOf(h, i)
  BY <1>1, <1>2
<1>4. /\ Len(h[i].node) = m + (i - 1)
      /\ \A k \in 1..(m + (i - 1)) :
            h[i].node[k] = IF k <= m THEN h[1].node[k] ELSE StepOf(h, k - m)
  BY <1>1 DEF Straight
<1>5. /\ Len(n) = m + (i + 1 - 1)
      /\ \A k \in 1..(m + (i + 1 - 1)) :
            n[k] = IF k <= m THEN h[1].node[k] ELSE StepOf(h, k - m)
  BY <1>1 DEF Straight
<1> HIDE DEF m, c, n
<1>6. Len(n) = Len(c)
  BY <1>1, <1>3, <1>4, <1>5
<1>7. ASSUME NEW k \in 1..Len(n) PROVE n[k] = c[k]
  <2>1. CASE k = m + i
    <3>1. n[k] = StepOf(h, i)
      <4>1. k \in 1..(m + (i + 1 - 1)) /\ ~(k <= m) /\ k - m = i
        BY <1>1, <1>5, <2>1
      <4> QED
        BY <1>5, <4>1
    <3>2. c[k] = StepOf(h, i)
      <4>1. Len(h[i].node) + 1 = k
        BY <1>1, <1>4, <2>1
      <4> QED
        BY <1>3, <4>1
    <3> QED
      BY <3>1, <3>2
  <2>2. CASE k # m + i
    <3>1. k \in 1..(m + (i - 1)) /\ k \in 1..(m + (i + 1 - 1)) /\ k \in 1..Len(h[i].node)
      BY <1>1, <1>4, <1>5, <2>2
    <3> QED
      BY <1>3, <1>4, <1>5, <3>1
  <2> QED
    BY <2>1, <2>2
<1>8. n = c
  BY <1>1, <1>3, <1>6, <1>7, SeqEqual DEF n
<1> QED
  BY <1>8, StepTyped DEF n, c, Child

(* The nodes of a history are one above the other.                          *)
LEMMA StraightPrefixes ==
    ASSUME NEW h, HistoryTyped(h), Straight(h), NEW i \in DOMAIN h, NEW j \in DOMAIN h, i <= j
    PROVE  IsPrefix(h[i].node, h[j].node) /\ Len(h[j].node) = Len(h[i].node) + (j - i)
<1> DEFINE m == Len(h[1].node)
           a == h[i].node
           b == h[j].node
<1>1. /\ 1 \in DOMAIN h /\ i \in Nat /\ j \in Nat /\ i >= 1 /\ m \in Nat
      /\ a \in Seq(Steps) /\ b \in Seq(Steps)
  BY HistoryElements
<1>2. /\ Len(a) = m + (i - 1) /\ Len(b) = m + (j - 1)
      /\ \A k \in 1..Len(a) : a[k] = IF k <= m THEN h[1].node[k] ELSE StepOf(h, k - m)
      /\ \A k \in 1..Len(b) : b[k] = IF k <= m THEN h[1].node[k] ELSE StepOf(h, k - m)
  BY DEF Straight
<1> HIDE DEF a, b, m
<1>3. Len(a) <= Len(b) /\ Len(b) = Len(a) + (j - i)
  BY <1>1, <1>2
<1>4. \A k \in 1..Len(a) : k \in 1..Len(b)
  BY <1>1, <1>2
<1>5. IsPrefix(a, b)
  BY <1>1, <1>2, <1>3, <1>4, PrefixElements
<1> QED
  BY <1>3, <1>5 DEF a, b

(* Only nodes, actions and entries of observation mappings make a path.     *)
LEMMA StraightTransfers ==
    ASSUME NEW h, HistoryTyped(h), Straight(h),
           NEW n \in 1..Len(h), NEW g, DOMAIN g = 1..n,
           \A i \in 1..n : g[i].node = h[i].node,
           \A i \in 1..(n - 1) : StepOf(g, i) = StepOf(h, i)
    PROVE  Straight(g)
<1> SUFFICES ASSUME NEW j \in 1..n
             PROVE  /\ Len(g[j].node) = Len(g[1].node) + (j - 1)
                    /\ \A k \in 1..Len(g[j].node) :
                          g[j].node[k] = IF k <= Len(g[1].node) THEN g[1].node[k]
                                         ELSE StepOf(g, k - Len(g[1].node))
  BY DEF Straight
<1> DEFINE m == Len(h[1].node)
<1>1. /\ 1 \in DOMAIN h /\ j \in DOMAIN h /\ n \in Nat /\ m \in Nat
      /\ 1 \in 1..n
  BY HistoryElements
<1>2. g[j].node = h[j].node /\ g[1].node = h[1].node
  BY <1>1
<1>3. /\ Len(h[j].node) = m + (j - 1)
      /\ \A k \in 1..Len(h[j].node) :
            h[j].node[k] = IF k <= m THEN h[1].node[k] ELSE StepOf(h, k - m)
  BY <1>1 DEF Straight
<1> HIDE DEF m
<1>4. \A k \in 1..Len(h[j].node) : ~(k <= m) => k - m \in 1..(n - 1)
  BY <1>1, <1>3
<1>5. \A k \in 1..Len(h[j].node) :
          h[j].node[k] = IF k <= m THEN h[1].node[k] ELSE StepOf(g, k - m)
  BY <1>3, <1>4
<1> QED
  BY <1>2, <1>3, <1>5 DEF m

(* A history that grows by an entry, at the child of its last node.         *)
LEMMA StraightExtends ==
    ASSUME NEW h, HistoryTyped(h), Straight(h), NEW n \in Nat, n = Len(h), n > 0,
           NEW g, DOMAIN g = 1..(n + 1),
           \A i \in 1..n : g[i].node = h[i].node,
           \A i \in 1..(n - 1) : StepOf(g, i) = StepOf(h, i),
           NEW step \in Steps, step = StepOf(g, n), g[n + 1].node = Append(h[n].node, step)
    PROVE  Straight(g)
<1> DEFINE m == Len(h[1].node)
           u == g[n + 1].node
<1>1. /\ 1 \in DOMAIN h /\ n \in DOMAIN h /\ m \in Nat /\ DOMAIN h = 1..n
      /\ h[n].node \in Seq(Steps) /\ Len(h[n].node) \in Nat
  BY HistoryElements
<1>2. /\ Len(u) = Len(h[n].node) + 1
      /\ \A k \in 1..Len(h[n].node) : u[k] = h[n].node[k]
      /\ u[Len(h[n].node) + 1] = step
  BY <1>1
<1>3. g[1].node = h[1].node
  BY <1>1
<1> HIDE DEF u
<1>4. ASSUME NEW j \in 1..n
      PROVE  /\ Len(h[j].node) = m + (j - 1)
             /\ \A k \in 1..Len(h[j].node) :
                   h[j].node[k] = IF k <= m THEN h[1].node[k] ELSE StepOf(g, k - m)
  <2>1. /\ Len(h[j].node) = m + (j - 1)
        /\ \A k \in 1..Len(h[j].node) :
              h[j].node[k] = IF k <= m THEN h[1].node[k] ELSE StepOf(h, k - m)
    BY <1>1 DEF Straight
  <2> HIDE DEF m
  <2>2. \A k \in 1..Len(h[j].node) : ~(k <= m) => k - m \in 1..(n - 1)
    BY <1>1, <2>1
  <2> QED
    BY <2>1, <2>2
<1>5. Len(h[n].node) = m + (n - 1)
  BY <1>1, <1>4
<1> HIDE DEF m
<1>6. ASSUME NEW k \in 1..Len(u)
      PROVE  u[k] = IF k <= m THEN h[1].node[k] ELSE StepOf(g, k - m)
  <2>1. CASE k = m + n
    <3>1. k = Len(h[n].node) + 1 /\ ~(k <= m) /\ k - m = n
      BY <1>1, <1>5, <2>1
    <3> QED
      BY <1>2, <3>1
  <2>2. CASE k # m + n
    <3>1. k \in 1..Len(h[n].node)
      BY <1>1, <1>2, <1>5, <2>2
    <3>2. h[n].node[k] = IF k <= m THEN h[1].node[k] ELSE StepOf(g, k - m)
      BY <1>1, <1>4, <3>1
    <3> QED
      BY <1>2, <3>1, <3>2
  <2> QED
    BY <2>1, <2>2
<1>7. ASSUME NEW j \in 1..(n + 1)
      PROVE  /\ Len(g[j].node) = Len(g[1].node) + (j - 1)
             /\ \A k \in 1..Len(g[j].node) :
                   g[j].node[k] = IF k <= Len(g[1].node) THEN g[1].node[k]
                                  ELSE StepOf(g, k - Len(g[1].node))
  <2>1. CASE j = n + 1
    <3>1. Len(u) = m + (j - 1)
      BY <1>1, <1>2, <1>5, <2>1
    <3> QED
      BY <1>3, <1>6, <2>1, <3>1 DEF u, m
  <2>2. CASE j # n + 1
    <3>1. j \in 1..n
      BY <2>2
    <3>2. g[j].node = h[j].node
      BY <3>1
    <3>3. /\ Len(h[j].node) = m + (j - 1)
          /\ \A k \in 1..Len(h[j].node) :
                h[j].node[k] = IF k <= m THEN h[1].node[k] ELSE StepOf(g, k - m)
      BY <1>4, <3>1
    <3> QED
      BY <1>3, <3>2, <3>3 DEF m
  <2> QED
    BY <2>1, <2>2
<1> QED
  BY <1>7 DEF Straight

(* A history whose path has not changed is led along the path it has.       *)
LEMMA ReroutedAlongPath ==
    ASSUME NEW h, HistoryTyped(h), Straight(h), NEW i \in DOMAIN h
    PROVE  Rerouted(h, i) = h
<1> DEFINE m == Len(h[1].node)
           tail(j) == [k \in 1..(j - i) |->
                          <<h[i + k - 1].action, Cell[h[i + k - 1].observation]>>]
<1>1. /\ 1 \in DOMAIN h /\ Len(h) \in Nat /\ DOMAIN h = 1..Len(h) /\ m \in Nat
      /\ i \in Nat /\ i >= 1
      /\ h[i].node \in Seq(Steps)
      /\ \A j \in DOMAIN h : h[j] \in EntryType /\ h[j].node \in Seq(Steps)
  BY HistoryElements
<1>2. ASSUME NEW j \in DOMAIN h, i < j
      PROVE  h[i].node \o tail(j) = h[j].node
  <2> DEFINE a == h[i].node
             b == h[j].node
             t == tail(j)
  <2>1. /\ Len(a) = m + (i - 1) /\ Len(b) = m + (j - 1)
        /\ \A k \in 1..Len(a) : a[k] = IF k <= m THEN h[1].node[k] ELSE StepOf(h, k - m)
        /\ \A k \in 1..Len(b) : b[k] = IF k <= m THEN h[1].node[k] ELSE StepOf(h, k - m)
    BY DEF Straight
  <2>2. j \in Nat /\ j - i \in Nat /\ j <= Len(h)
    BY <1>1, <1>2
  <2>3. \A k \in 1..(j - i) : t[k] = StepOf(h, i + k - 1)
    BY DEF StepOf
  <2>4. \A k \in 1..(j - i) : t[k] \in Steps
    <3>1. \A k \in 1..(j - i) : i + k - 1 \in 1..(Len(h) - 1)
      BY <1>1, <2>2
    <3> QED
      BY <2>3, <3>1, StepTyped
  <2>5. t \in Seq(Steps) /\ Len(t) = j - i
    <3>1. t \in [1..(j - i) -> Steps]
      BY <2>4
    <3>2. \A n \in Nat : \A f \in [1..n -> Steps] : f \in Seq(Steps) /\ Len(f) = n
      OBVIOUS
    <3> HIDE DEF t
    <3> QED
      BY <2>2, <3>1, <3>2
  <2>6. a \in Seq(Steps) /\ b \in Seq(Steps)
    BY <1>1
  <2> HIDE DEF a, b, t, m
  <2>7. /\ a \o t \in Seq(Steps) /\ Len(a \o t) = Len(a) + Len(t)
        /\ \A k \in 1..(Len(a) + Len(t)) :
              (a \o t)[k] = IF k <= Len(a) THEN a[k] ELSE t[k - Len(a)]
    BY <2>5, <2>6, ConcatProperties
  <2>8. Len(a) + Len(t) = Len(b)
    BY <1>1, <2>1, <2>2, <2>5
  <2>9. ASSUME NEW k \in 1..Len(b) PROVE (a \o t)[k] = b[k]
    <3>1. CASE k <= Len(a)
      <4>1. k \in 1..Len(a) /\ k \in 1..(Len(a) + Len(t))
        BY <1>1, <2>1, <2>8, <3>1
      <4> QED
        BY <2>1, <2>7, <3>1, <4>1
    <3>2. CASE ~(k <= Len(a))
      <4>1. /\ k - Len(a) \in 1..(j - i) /\ ~(k <= m) /\ i + (k - Len(a)) - 1 = k - m
            /\ k \in 1..(Len(a) + Len(t))
        <5>1. k \in Nat /\ k > m + (i - 1) /\ k <= m + (j - 1)
          BY <1>1, <2>1, <2>2, <3>2
        <5>2. Len(a) = m + (i - 1) /\ Len(a) + Len(t) = m + (j - 1)
          BY <2>1, <2>8
        <5>3. i \in Nat /\ i >= 1 /\ j \in Nat /\ m \in Nat
          BY <1>1, <2>2
        <5>4. ~(k <= m) /\ k - (m + (i - 1)) \in 1..(j - i) /\ k \in 1..(m + (j - 1))
          BY <5>1, <5>3
        <5>5. i + (k - (m + (i - 1))) - 1 = k - m
          BY <5>1, <5>3
        <5> QED
          BY <5>2, <5>4, <5>5
      <4>2. (a \o t)[k] = StepOf(h, k - m)
        BY <2>3, <2>7, <3>2, <4>1
      <4> QED
        BY <2>1, <4>1, <4>2
    <3> QED
      BY <3>1, <3>2
  <2>10. a \o t = b
    BY <2>6, <2>7, <2>8, <2>9, SeqEqual
  <2> QED
    BY <2>10 DEF a, b, t
<1>3. \A j \in DOMAIN h : [h[j] EXCEPT !.node = h[j].node] = h[j]
  <2>1. \A e \in EntryType : [e EXCEPT !.node = e.node] = e
    BY DEF EntryType
  <2> QED
    BY <1>1, <2>1
<1> HIDE DEF tail
<1>4. \A j \in DOMAIN h : (IF j <= i THEN h[j] ELSE [h[j] EXCEPT !.node = h[i].node \o tail(j)])
                            = h[j]
  <2> SUFFICES ASSUME NEW j \in DOMAIN h, ~(j <= i)
               PROVE  [h[j] EXCEPT !.node = h[i].node \o tail(j)] = h[j]
    OBVIOUS
  <2>1. h[i].node \o tail(j) = h[j].node
    BY <1>1, <1>2
  <2> QED
    BY <1>3, <2>1
<1>5. Rerouted(h, i) = [j \in DOMAIN h |->
         IF j <= i THEN h[j] ELSE [h[j] EXCEPT !.node = h[i].node \o tail(j)]]
  BY DEF Rerouted, tail
<1>6. h = [j \in DOMAIN h |-> h[j]]
  BY <1>1 DEF HistoryTyped
<1> QED
  BY <1>4, <1>5, <1>6

-----------------------------------------------------------------------------
(* What a history says, and what its flags leave to be generated again. *)

(* A step not flagged is one the model may take, with its own reward.       *)
CurrentSteps(h) ==
    \A i \in 1..(Len(h) - 1) :
        /\ \/ "TRANSITION" \in h[i].flags
           \/ h[i + 1].state \in Moves[h[i].state][h[i].action]
        /\ \/ "REWARD" \in h[i].flags
           \/ h[i].value = Reward(h[i].state, h[i].action, h[i + 1].state)

CurrentEnd(h) ==
    Len(h) > 1 => \/ "HEURISTIC" \in h[Len(h)].flags
                  \/ h[Len(h)].value = Heuristic(h[Len(h)].state)

(* A terminal state inside a history was put there by a revision, which     *)
(* comes to it next.                                                        *)
LiveInside(h) ==
    \A i \in 1..(Len(h) - 1) : h[i].state \in Terminal => "TRANSITION" \in h[i].flags

Sound(h) == HistoryTyped(h) /\ Straight(h) /\ CurrentSteps(h) /\ LiveInside(h)

FlagsWithin(h, lo, hi) ==
    \A j \in DOMAIN h : h[j].flags # {} => lo <= j /\ j <= hi

(* Nothing is generated again at the change root or above.                  *)
PastKept(h, r) ==
    \A j \in 1..(Len(h) - 1) : "TRANSITION" \in h[j].flags => Len(h[j + 1].node) > Len(r)

(* Flags are added.                                                         *)
Raises(h, raised, g) ==
    g = [j \in DOMAIN h |-> [h[j] EXCEPT !.flags = @ \cup raised[j]]]

LEMMA FlaggedIsSound ==
    ASSUME NEW h, Sound(h), CurrentEnd(h),
           NEW raised, \A j \in DOMAIN h : raised[j] \subseteq Flags,
           NEW g, Raises(h, raised, g)
    PROVE  /\ Sound(g) /\ CurrentEnd(g) /\ Len(g) = Len(h) /\ DOMAIN g = DOMAIN h
           /\ \A j \in DOMAIN h : /\ g[j].flags = h[j].flags \cup raised[j]
                                  /\ g[j].node = h[j].node /\ g[j].state = h[j].state
<1>1. HistoryTyped(h) /\ Straight(h) /\ CurrentSteps(h) /\ LiveInside(h)
  BY DEF Sound
<1>2. Len(h) \in Nat /\ DOMAIN h = 1..Len(h) /\ \A j \in DOMAIN h : h[j] \in EntryType
  BY <1>1, HistoryElements
<1>3. ASSUME NEW j \in DOMAIN h
      PROVE  /\ g[j] \in EntryType
             /\ g[j].state = h[j].state /\ g[j].node = h[j].node
             /\ g[j].action = h[j].action /\ g[j].observation = h[j].observation
             /\ g[j].value = h[j].value
             /\ g[j].flags = h[j].flags \cup raised[j]
  <2> DEFINE flags == h[j].flags \cup raised[j]
  <2>1. h[j] \in EntryType /\ flags \in SUBSET Flags
    BY <1>2, EntryFields
  <2>2. g[j] = [h[j] EXCEPT !.flags = flags]
    BY DEF Raises
  <2> HIDE DEF flags
  <2>3. /\ g[j] \in EntryType /\ g[j].flags = flags
        /\ g[j].state = h[j].state /\ g[j].node = h[j].node
        /\ g[j].action = h[j].action /\ g[j].observation = h[j].observation
        /\ g[j].value = h[j].value
    BY <2>1, <2>2, FlaggedEntry
  <2> QED
    BY <2>3 DEF flags
<1>4. DOMAIN g = DOMAIN h /\ g = [j \in 1..Len(h) |-> g[j]]
  BY <1>2 DEF Raises
<1>5. g \in Seq(EntryType) /\ Len(g) = Len(h)
  <2>1. g \in [1..Len(h) -> EntryType]
    BY <1>2, <1>3, <1>4
  <2> QED
    BY <1>2, <2>1
<1>6. HistoryTyped(g)
  BY <1>1, <1>2, <1>3, <1>5 DEF HistoryTyped
<1>7. Straight(g)
  <2>1. CASE Len(h) = 0
    BY <1>2, <1>4, <2>1 DEF Straight
  <2>2. CASE Len(h) # 0
    <3>1. Len(h) \in 1..Len(h) /\ \A i \in 1..(Len(h) - 1) : i \in DOMAIN h
      BY <1>2, <2>2
    <3>2. \A i \in 1..(Len(h) - 1) : StepOf(g, i) = StepOf(h, i)
      BY <1>3, <3>1 DEF StepOf
    <3> QED
      BY <1>1, <1>2, <1>3, <1>4, <3>1, <3>2, StraightTransfers
  <2> QED
    BY <2>1, <2>2
<1>8. \A i \in 1..(Len(h) - 1) : i \in DOMAIN h /\ i + 1 \in DOMAIN h
  BY <1>2
<1>9. ASSUME NEW i \in 1..(Len(h) - 1)
      PROVE  /\ \/ "TRANSITION" \in g[i].flags
                \/ g[i + 1].state \in Moves[g[i].state][g[i].action]
             /\ \/ "REWARD" \in g[i].flags
                \/ g[i].value = Reward(g[i].state, g[i].action, g[i + 1].state)
             /\ g[i].state \in Terminal => "TRANSITION" \in g[i].flags
  <2>1. /\ \/ "TRANSITION" \in h[i].flags
           \/ h[i + 1].state \in Moves[h[i].state][h[i].action]
        /\ \/ "REWARD" \in h[i].flags
           \/ h[i].value = Reward(h[i].state, h[i].action, h[i + 1].state)
        /\ h[i].state \in Terminal => "TRANSITION" \in h[i].flags
    BY <1>1 DEF CurrentSteps, LiveInside
  <2>2. /\ g[i].state = h[i].state /\ g[i].action = h[i].action
        /\ g[i].value = h[i].value /\ g[i + 1].state = h[i + 1].state
        /\ h[i].flags \subseteq g[i].flags
    BY <1>3, <1>8
  <2> QED
    BY <2>1, <2>2
<1>10. CurrentEnd(g)
  <2>1. Len(h) > 1 => Len(h) \in DOMAIN h
    BY <1>2
  <2> QED
    BY <1>3, <1>5, <2>1 DEF CurrentEnd
<1> QED
  BY <1>3, <1>4, <1>5, <1>6, <1>7, <1>9, <1>10 DEF Sound, CurrentSteps, LiveInside

(* A round of a revision: a step is generated again as far as it is flagged, *)
(* and the observation stays with its entry of the mapping.                 *)
Moved == {"REWARD", "TRANSITION", "HEURISTIC"}

Revises(h, i, flags, kept, n, g) ==
    /\ flags = IF n # h[i + 1].state THEN h[i].flags \cup {"OBSERVATION", "REWARD"}
                                      ELSE h[i].flags
    /\ kept \in Observations /\ Cell[kept] = Cell[h[i].observation]
    /\ g = [h EXCEPT ![i] = RevisedEntry(h[i], flags, kept, n),
                     ![i + 1] = NextEntry(h[i + 1], n, h[i + 1].node)]

LEMMA RevisedIsSound ==
    ASSUME NEW h, Sound(h), CurrentEnd(h), NEW i \in 1..(Len(h) - 1),
           h[i].state \notin Terminal,
           NEW n \in States,
           IF "TRANSITION" \in h[i].flags THEN n \in Moves[h[i].state][h[i].action]
                                          ELSE n = h[i + 1].state,
           NEW flags, NEW kept, NEW g, Revises(h, i, flags, kept, n, g)
    PROVE  /\ Sound(g) /\ CurrentEnd(g) /\ Len(g) = Len(h) /\ DOMAIN g = DOMAIN h
           /\ \A j \in DOMAIN h : g[j].node = h[j].node
           /\ \A j \in DOMAIN h : j # i /\ j # i + 1 => g[j] = h[j]
           /\ g[i].state = h[i].state /\ g[i].flags = {}
           /\ g[i + 1].state = n
           /\ g[i + 1].flags = IF n = h[i + 1].state THEN h[i + 1].flags ELSE Moved
<1> DEFINE e == h[i]
           f == h[i + 1]
           value == IF "REWARD" \in flags THEN Reward(e.state, e.action, n) ELSE e.value
           raised == IF n # f.state THEN Moved ELSE f.flags
<1>1. HistoryTyped(h) /\ Straight(h) /\ CurrentSteps(h) /\ LiveInside(h)
  BY DEF Sound
<1>2. Len(h) \in Nat /\ DOMAIN h = 1..Len(h) /\ \A j \in DOMAIN h : h[j] \in EntryType
  BY <1>1, HistoryElements
<1>3. i \in DOMAIN h /\ i + 1 \in DOMAIN h /\ i \in Nat /\ i < Len(h) /\ i # i + 1
  BY <1>2
<1>4. e \in EntryType /\ f \in EntryType
  BY <1>2, <1>3
<1>5. e.action \in Actions /\ e.observation \in Observations
  BY <1>1, <1>3 DEF HistoryTyped
<1>6. /\ flags = IF n # f.state THEN e.flags \cup {"OBSERVATION", "REWARD"} ELSE e.flags
      /\ kept \in Observations /\ Cell[kept] = Cell[e.observation]
  BY DEF Revises
<1>7. g = [h EXCEPT ![i] = RevisedEntry(e, flags, kept, n), ![i + 1] = NextEntry(f, n, f.node)]
  BY DEF Revises
<1>8. /\ DOMAIN g = DOMAIN h
       /\ g[i] = RevisedEntry(e, flags, kept, n)
       /\ g[i + 1] = NextEntry(f, n, f.node)
       /\ \A j \in DOMAIN h : j # i /\ j # i + 1 => g[j] = h[j]
  <2> DEFINE x == RevisedEntry(e, flags, kept, n)
             y == NextEntry(f, n, f.node)
  <2>1. g = [h EXCEPT ![i] = x, ![i + 1] = y]
    BY <1>7
  <2> HIDE DEF x, y
  <2>2. g = [j \in DOMAIN h |-> IF j = i + 1 THEN y ELSE IF j = i THEN x ELSE h[j]]
    BY <1>3, <2>1
  <2>3. /\ DOMAIN g = DOMAIN h /\ g[i] = x /\ g[i + 1] = y
        /\ \A j \in DOMAIN h : j # i /\ j # i + 1 => g[j] = h[j]
    BY <1>3, <2>2
  <2> QED
    BY <2>3 DEF x, y
<1> HIDE DEF e, f
<1>9. g[i] = [state |-> e.state, node |-> e.node, action |-> e.action, observation |-> kept,
              value |-> value, flags |-> {}]
  BY <1>4, <1>8, RevisedEntryFields
<1>10. g[i + 1] = [state |-> n, node |-> f.node, action |-> f.action,
                  observation |-> f.observation, value |-> f.value, flags |-> raised]
  BY <1>4, <1>8 DEF NextEntry, EntryType, Moved
<1> HIDE DEF value, raised
<1>11. /\ g[i].state = e.state /\ g[i].node = e.node /\ g[i].action = e.action
      /\ g[i].observation = kept /\ g[i].flags = {} /\ g[i].value = value
  BY <1>9
<1>12. /\ g[i + 1].state = n /\ g[i + 1].node = f.node /\ g[i + 1].action = f.action
       /\ g[i + 1].observation = f.observation /\ g[i + 1].value = f.value
       /\ g[i + 1].flags = raised
  BY <1>10
<1>13. g[i] \in EntryType /\ g[i + 1] \in EntryType
  <2>1. value \in Values
    <3>1. Reward(e.state, e.action, n) \in Values
      BY <1>4, <1>5, EntryFields DEF Reward, Values
    <3>2. e.value \in Values
      BY <1>4 DEF EntryType
    <3> QED
      BY <3>1, <3>2 DEF value
  <2>2. raised \in SUBSET Flags
    BY <1>4, EntryFields DEF raised, Moved, Flags
  <2>3. e.state \in States /\ e.node \in Paths
    BY <1>4 DEF EntryType
  <2>4. /\ f.node \in Paths /\ f.action \in Actions \cup {NoAction} /\ f.value \in Values
        /\ f.observation \in Observations \cup {NoObservation}
    BY <1>4 DEF EntryType
  <2> HIDE DEF e, f
  <2>5. g[i] \in EntryType
    BY <1>5, <1>6, <1>9, <2>1, <2>3 DEF EntryType
  <2>6. g[i + 1] \in EntryType
    BY <1>10, <2>2, <2>4 DEF EntryType
  <2> QED
    BY <2>5, <2>6
<1>14. ASSUME NEW j \in DOMAIN h
       PROVE  /\ g[j] \in EntryType
              /\ g[j].node = h[j].node /\ g[j].action = h[j].action
              /\ j # i => g[j].observation = h[j].observation
              /\ j # i => g[j].value = h[j].value
              /\ j # i + 1 => g[j].state = h[j].state
  <2>1. CASE j = i
    BY <1>3, <1>11, <1>13, <2>1 DEF e
  <2>2. CASE j = i + 1
    BY <1>3, <1>12, <1>13, <2>2 DEF f
  <2>3. CASE j # i /\ j # i + 1
    BY <1>2, <1>6, <1>8, <2>3
  <2> QED
    BY <2>1, <2>2, <2>3
<1>15. g \in Seq(EntryType) /\ Len(g) = Len(h)
  <2>1. g \in [1..Len(h) -> EntryType]
    <3>1. g = [j \in 1..Len(h) |-> g[j]]
      BY <1>2, <1>7
    <3>2. \A j \in 1..Len(h) : g[j] \in EntryType
      BY <1>2, <1>14
    <3> QED
      BY <3>1, <3>2
  <2> QED
    BY <1>2, <2>1
<1>16. HistoryTyped(g)
  <2>1. ASSUME NEW j \in 1..Len(g)
        PROVE  IF j < Len(g) THEN g[j].action \in Actions /\ g[j].observation \in Observations
                             ELSE g[j].action = NoAction
    <3>1. /\ j \in DOMAIN h
          /\ IF j < Len(h) THEN h[j].action \in Actions /\ h[j].observation \in Observations
                           ELSE h[j].action = NoAction
      BY <1>1, <1>2, <1>15 DEF HistoryTyped
    <3>2. CASE j = i
      BY <1>3, <1>5, <1>6, <1>8, <1>11, <1>15, <3>2 DEF e
    <3>3. CASE j # i
      BY <1>14, <1>15, <3>1, <3>3
    <3> QED
      BY <3>2, <3>3
  <2> QED
    BY <1>1, <1>15, <2>1 DEF HistoryTyped
<1>17. Straight(g)
  <2>1. Len(h) \in 1..Len(h) /\ \A j \in 1..(Len(h) - 1) : j \in DOMAIN h
    BY <1>2, <1>3
  <2>2. ASSUME NEW j \in 1..(Len(h) - 1) PROVE StepOf(g, j) = StepOf(h, j)
    <3>1. CASE j = i
      BY <1>6, <1>8, <1>11, <3>1 DEF StepOf, e
    <3>2. CASE j # i
      BY <1>14, <2>1, <3>2 DEF StepOf
    <3> QED
      BY <3>1, <3>2
  <2>3. DOMAIN g = 1..Len(h) /\ \A j \in 1..Len(h) : g[j].node = h[j].node
    BY <1>2, <1>6, <1>8, <1>14
  <2> QED
    BY <1>1, <2>1, <2>2, <2>3, StraightTransfers
<1>18. ASSUME NEW j \in 1..(Len(h) - 1)
       PROVE  /\ \/ "TRANSITION" \in g[j].flags
                 \/ g[j + 1].state \in Moves[g[j].state][g[j].action]
              /\ \/ "REWARD" \in g[j].flags
                 \/ g[j].value = Reward(g[j].state, g[j].action, g[j + 1].state)
              /\ g[j].state \in Terminal => "TRANSITION" \in g[j].flags
  <2>1. j \in DOMAIN h /\ j + 1 \in DOMAIN h
    BY <1>2
  <2>2. /\ \/ "TRANSITION" \in h[j].flags
           \/ h[j + 1].state \in Moves[h[j].state][h[j].action]
        /\ \/ "REWARD" \in h[j].flags
           \/ h[j].value = Reward(h[j].state, h[j].action, h[j + 1].state)
        /\ h[j].state \in Terminal => "TRANSITION" \in h[j].flags
    BY <1>1 DEF CurrentSteps, LiveInside
  <2>3. CASE j = i
    <3>1. /\ g[j].state = e.state /\ g[j].action = e.action /\ g[j + 1].state = n
          /\ g[j].value = IF "REWARD" \in flags THEN Reward(e.state, e.action, n) ELSE e.value
      BY <1>11, <1>12, <2>3 DEF value
    <3>2. n \in Moves[e.state][e.action]
      BY <2>2, <2>3 DEF e
    <3>3. g[j].value = Reward(e.state, e.action, n)
      <4>1. CASE "REWARD" \in flags
        BY <3>1, <4>1
      <4>2. CASE "REWARD" \notin flags
        <5>1. n = f.state /\ "REWARD" \notin e.flags
          BY <1>6, <1>8, <4>2
        <5> QED
          BY <2>2, <2>3, <3>1, <4>2, <5>1 DEF f, e
      <4> QED
        BY <4>1, <4>2
    <3> QED
      BY <3>1, <3>2, <3>3 DEF e
  <2>4. CASE j = i + 1
    <3>1. CASE n # f.state
      BY <1>12, <2>4, <3>1 DEF raised, Moved
    <3>2. CASE n = f.state
      <4>1. /\ g[j].state = h[j].state /\ g[j].action = h[j].action
            /\ g[j].value = h[j].value /\ g[j].flags = h[j].flags
        BY <1>12, <2>4, <3>2 DEF raised, f
      <4>2. g[j + 1].state = h[j + 1].state
        BY <1>14, <1>3, <2>1, <2>4
      <4> QED
        BY <2>2, <4>1, <4>2
    <3> QED
      BY <3>1, <3>2
  <2>5. CASE j # i /\ j # i + 1
    <3>1. g[j] = h[j]
      BY <1>6, <1>8, <2>1, <2>5
    <3>2. g[j + 1].state = h[j + 1].state
      <4>1. j + 1 # i + 1
        BY <1>3, <2>1, <2>5
      <4> QED
        BY <1>14, <2>1, <4>1
    <3> QED
      BY <2>2, <3>1, <3>2
  <2> QED
    BY <2>3, <2>4, <2>5
<1>19. CurrentEnd(g)
  <2>1. Len(h) \in DOMAIN h /\ Len(h) # i
    BY <1>2, <1>3
  <2>2. CASE Len(h) = i + 1
    <3>1. CASE n # f.state
      BY <1>12, <1>15, <2>2, <3>1 DEF CurrentEnd, raised, Moved
    <3>2. CASE n = f.state
      BY <1>12, <1>15, <2>2, <3>2 DEF CurrentEnd, raised, f
    <3> QED
      BY <3>1, <3>2
  <2>3. CASE Len(h) # i + 1
    <3>1. g[Len(h)] = h[Len(h)]
      BY <1>6, <1>8, <2>1, <2>3
    <3> QED
      BY <1>15, <3>1 DEF CurrentEnd
  <2> QED
    BY <2>2, <2>3
<1>20. Sound(g)
  BY <1>15, <1>16, <1>17, <1>18 DEF Sound, CurrentSteps, LiveInside
<1>21. g[i + 1].flags = IF n = h[i + 1].state THEN h[i + 1].flags ELSE Moved
  BY <1>12 DEF raised, f
<1>22. /\ g[i].state = h[i].state /\ g[i].flags = {} /\ g[i + 1].state = n
  BY <1>11, <1>12 DEF e
<1>23. /\ DOMAIN g = DOMAIN h
       /\ \A j \in DOMAIN h : g[j].node = h[j].node
       /\ \A j \in DOMAIN h : j # i /\ j # i + 1 => g[j] = h[j]
  BY <1>8, <1>14
<1> QED
  BY <1>15, <1>19, <1>20, <1>21, <1>22, <1>23

(* An entry more. *)
LEMMA OneMore ==
    ASSUME NEW h \in Seq(EntryType), NEW x \in EntryType, NEW g, g = h \o <<x>>
    PROVE  /\ g \in Seq(EntryType) /\ Len(g) = Len(h) + 1 /\ DOMAIN g = 1..(Len(h) + 1)
           /\ \A j \in 1..Len(h) : g[j] = h[j]
           /\ g[Len(h) + 1] = x
<1>1. <<x>> \in Seq(EntryType) /\ Len(<<x>>) = 1 /\ <<x>>[1] = x
  OBVIOUS
<1> DEFINE t == <<x>>
<1>2. Len(h) \in Nat /\ t \in Seq(EntryType) /\ Len(t) = 1 /\ t[1] = x /\ g = h \o t
  BY <1>1
<1> HIDE DEF t
<1>3. /\ g \in Seq(EntryType) /\ Len(g) = Len(h) + 1
      /\ \A k \in 1..(Len(h) + 1) : g[k] = IF k <= Len(h) THEN h[k] ELSE t[k - Len(h)]
  BY <1>2, ConcatProperties
<1>4. \A j \in 1..Len(h) : g[j] = h[j]
  BY <1>2, <1>3
<1>5. g[Len(h) + 1] = x
  BY <1>2, <1>3
<1> QED
  BY <1>3, <1>4, <1>5

LEMMA LastEntryFields ==
    ASSUME NEW s \in States, NEW node \in Paths, NEW x, x = LastEntry(s, node)
    PROVE  /\ x \in EntryType
           /\ x.state = s /\ x.node = node /\ x.action = NoAction
           /\ x.observation = NoObservation /\ x.value = <<>> /\ x.flags = {}
BY DEF LastEntry, EntryType, Values

(* A history cut off at a terminal state. *)
LEMMA CutIsSound ==
    ASSUME NEW h, Sound(h), NEW i \in DOMAIN h, h[i].state \in Terminal,
           \A j \in 1..(i - 1) : h[j].flags = {},
           NEW g, g = CutOff(h, i)
    PROVE  /\ Sound(g) /\ CurrentEnd(g) /\ Len(g) = i /\ DOMAIN g = 1..i
           /\ \A j \in 1..i : /\ g[j].flags = {} /\ g[j].node = h[j].node
                              /\ g[j].state = h[j].state
<1> DEFINE x == LastEntry(h[i].state, h[i].node)
           b == SubSeq(h, 1, i - 1)
<1>1. HistoryTyped(h) /\ Straight(h) /\ CurrentSteps(h) /\ LiveInside(h)
  BY DEF Sound
<1>2. /\ Len(h) \in Nat /\ DOMAIN h = 1..Len(h) /\ \A j \in DOMAIN h : h[j] \in EntryType
      /\ i \in 1..Len(h) /\ i \in Nat /\ h \in Seq(EntryType) /\ Len(h) <= MaximumDepth + 1
  BY <1>1, HistoryElements DEF HistoryTyped
<1>3. /\ x \in EntryType /\ x.state = h[i].state /\ x.node = h[i].node
      /\ x.action = NoAction /\ x.value = <<>> /\ x.flags = {}
  <2>1. h[i].state \in States /\ h[i].node \in Paths
    BY <1>2 DEF EntryType
  <2> QED
    BY <2>1, LastEntryFields
<1>4. b \in Seq(EntryType) /\ Len(b) = i - 1 /\ \A j \in 1..(i - 1) : b[j] = h[j]
  <2>1. 1 \in 1..(Len(h) + 1) /\ i - 1 \in 0..Len(h)
    BY <1>2
  <2>2. \A k \in 1..(i - 1) : 1 + k - 1 = k
    BY <1>2
  <2> QED
    BY <1>2, <2>1, <2>2, SubSeqProperties
<1> HIDE DEF x, b
<1>5. g = b \o <<x>>
  BY DEF x, b, CutOff
<1>6. /\ g \in Seq(EntryType) /\ Len(g) = i /\ DOMAIN g = 1..i /\ g[i] = x
      /\ \A j \in 1..(i - 1) : g[j] = h[j]
  <2>1. /\ g \in Seq(EntryType) /\ Len(g) = Len(b) + 1 /\ DOMAIN g = 1..(Len(b) + 1)
        /\ \A j \in 1..Len(b) : g[j] = b[j]
        /\ g[Len(b) + 1] = x
    <3>1. b \in Seq(EntryType) /\ x \in EntryType
      BY <1>3, <1>4
    <3> QED
      BY <1>5, <3>1, OneMore
  <2>2. Len(b) + 1 = i
    BY <1>2, <1>4
  <2> QED
    BY <1>4, <2>1, <2>2
<1>7. ASSUME NEW j \in 1..i
      PROVE  /\ g[j].flags = {} /\ g[j].node = h[j].node /\ g[j].state = h[j].state
  <2>1. CASE j = i
    BY <1>3, <1>6, <2>1
  <2>2. CASE j # i
    <3>1. j \in 1..(i - 1)
      BY <1>2, <2>2
    <3> QED
      BY <1>6, <3>1
  <2> QED
    BY <2>1, <2>2
<1>8. HistoryTyped(g)
  <2>1. \A j \in 1..(i - 1) : h[j].action \in Actions /\ h[j].observation \in Observations
    <3>1. \A j \in 1..(i - 1) : j \in 1..Len(h) /\ j < Len(h)
      BY <1>2
    <3> QED
      BY <1>1, <3>1 DEF HistoryTyped
  <2>2. \A j \in 1..i : ~(j < i) => j = i
    BY <1>2
  <2>3. \A j \in 1..i : j < i => j \in 1..(i - 1)
    BY <1>2
  <2>4. \A j \in 1..i : IF j < i THEN g[j].action \in Actions /\ g[j].observation \in Observations
                                 ELSE g[j].action = NoAction
    BY <1>3, <1>6, <2>1, <2>2, <2>3
  <2>5. i <= MaximumDepth + 1
    BY <1>2, ChangeAssumption
  <2> QED
    BY <1>6, <2>4, <2>5 DEF HistoryTyped
<1>9. Straight(g)
  <2>1. \A j \in 1..(i - 1) : StepOf(g, j) = StepOf(h, j)
    BY <1>6 DEF StepOf
  <2> QED
    BY <1>1, <1>2, <1>6, <1>7, <2>1, StraightTransfers
<1>10. ASSUME NEW j \in 1..(i - 1)
       PROVE  /\ g[j + 1].state \in Moves[g[j].state][g[j].action]
              /\ g[j].value = Reward(g[j].state, g[j].action, g[j + 1].state)
              /\ g[j].state \notin Terminal
  <2>1. j \in 1..(Len(h) - 1) /\ j + 1 \in 1..i
    BY <1>2
  <2>2. /\ h[j + 1].state \in Moves[h[j].state][h[j].action]
        /\ h[j].value = Reward(h[j].state, h[j].action, h[j + 1].state)
        /\ h[j].state \notin Terminal
    BY <1>1, <2>1 DEF CurrentSteps, LiveInside
  <2>3. g[j] = h[j] /\ g[j + 1].state = h[j + 1].state
    BY <1>6, <1>7, <2>1
  <2> QED
    BY <2>2, <2>3
<1>11. CurrentSteps(g) /\ LiveInside(g)
  BY <1>6, <1>10 DEF CurrentSteps, LiveInside
<1>12. CurrentEnd(g)
  BY <1>3, <1>6 DEF CurrentEnd, Heuristic
<1> QED
  BY <1>6, <1>7, <1>8, <1>9, <1>11, <1>12 DEF Sound

(* A history of which one entry is done with. *)
LEMMA ReachedIsSound ==
    ASSUME NEW h, Sound(h), CurrentEnd(h), NEW i \in DOMAIN h,
           h[i].action = NoAction \/ h[i].flags = {},
           NEW g, g = Reached(h, i)
    PROVE  /\ Sound(g) /\ CurrentEnd(g) /\ Len(g) = Len(h) /\ DOMAIN g = DOMAIN h
           /\ \A j \in DOMAIN h : g[j].node = h[j].node /\ g[j].state = h[j].state
           /\ \A j \in DOMAIN h : g[j].flags = IF j = i THEN {} ELSE h[j].flags
<1> DEFINE e == h[i]
           x == ReachedEntry(e)
           value == IF e.action = NoAction /\ "HEURISTIC" \in e.flags
                    THEN Heuristic(e.state) ELSE e.value
<1>1. HistoryTyped(h) /\ Straight(h) /\ CurrentSteps(h) /\ LiveInside(h)
  BY DEF Sound
<1>2. /\ Len(h) \in Nat /\ DOMAIN h = 1..Len(h) /\ \A j \in DOMAIN h : h[j] \in EntryType
      /\ i \in 1..Len(h) /\ i \in Nat
  BY <1>1, HistoryElements
<1>3. e \in EntryType
  BY <1>2
<1> HIDE DEF e
<1>4. x = [state |-> e.state, node |-> e.node, action |-> e.action,
           observation |-> e.observation, value |-> value, flags |-> {}]
  BY <1>3, ReachedEntryFields
<1>5. value \in Values
  BY <1>3 DEF EntryType, Heuristic, Values
<1>6. x \in EntryType
  <2>1. /\ e.state \in States /\ e.node \in Paths /\ e.action \in Actions \cup {NoAction}
        /\ e.observation \in Observations \cup {NoObservation}
    BY <1>3 DEF EntryType
  <2> HIDE DEF x, value
  <2> QED
    BY <1>4, <1>5, <2>1 DEF EntryType
<1>7. /\ x.state = e.state /\ x.node = e.node /\ x.action = e.action
      /\ x.observation = e.observation /\ x.value = value /\ x.flags = {}
  BY <1>4
<1>8. g = [h EXCEPT ![i] = x]
  BY DEF e, Reached
<1> HIDE DEF x
<1>9. /\ DOMAIN g = DOMAIN h /\ g[i] = x /\ g = [j \in 1..Len(h) |-> g[j]]
      /\ \A j \in DOMAIN h : j # i => g[j] = h[j]
  BY <1>2, <1>8
<1>10. ASSUME NEW j \in DOMAIN h
       PROVE  /\ g[j] \in EntryType
              /\ g[j].node = h[j].node /\ g[j].state = h[j].state
              /\ g[j].action = h[j].action /\ g[j].observation = h[j].observation
              /\ g[j].flags = IF j = i THEN {} ELSE h[j].flags
  <2>1. CASE j = i
    BY <1>6, <1>7, <1>9, <2>1 DEF e
  <2>2. CASE j # i
    BY <1>2, <1>9, <2>2
  <2> QED
    BY <2>1, <2>2
<1>11. g \in Seq(EntryType) /\ Len(g) = Len(h)
  <2>1. g \in [1..Len(h) -> EntryType]
    BY <1>2, <1>9, <1>10
  <2> QED
    BY <1>2, <2>1
<1>12. HistoryTyped(g)
  BY <1>1, <1>2, <1>10, <1>11 DEF HistoryTyped
<1>13. Straight(g)
  <2>1. Len(h) \in 1..Len(h) /\ \A j \in 1..(Len(h) - 1) : j \in DOMAIN h
    BY <1>2
  <2>2. \A j \in 1..(Len(h) - 1) : StepOf(g, j) = StepOf(h, j)
    BY <1>10, <2>1 DEF StepOf
  <2> QED
    BY <1>1, <1>2, <1>9, <1>10, <2>1, <2>2, StraightTransfers
<1>14. i < Len(h) => e.flags = {} /\ e.action # NoAction /\ value = e.value
  BY <1>1, <1>2, ChangeAssumption DEF HistoryTyped, e
<1>15. ASSUME NEW j \in 1..(Len(h) - 1)
       PROVE  /\ j \in DOMAIN h /\ j + 1 \in DOMAIN h
              /\ g[j].flags = h[j].flags /\ g[j].value = h[j].value
  <2>1. j \in DOMAIN h /\ j + 1 \in DOMAIN h /\ j < Len(h)
    BY <1>2
  <2>2. CASE j = i
    BY <1>7, <1>9, <1>14, <2>1, <2>2 DEF e
  <2>3. CASE j # i
    BY <1>9, <2>1, <2>3
  <2> QED
    BY <2>1, <2>2, <2>3
<1>16. CurrentSteps(g) /\ LiveInside(g)
  <2> SUFFICES ASSUME NEW j \in 1..(Len(h) - 1)
               PROVE  /\ \/ "TRANSITION" \in g[j].flags
                         \/ g[j + 1].state \in Moves[g[j].state][g[j].action]
                      /\ \/ "REWARD" \in g[j].flags
                         \/ g[j].value = Reward(g[j].state, g[j].action, g[j + 1].state)
                      /\ g[j].state \in Terminal => "TRANSITION" \in g[j].flags
    BY <1>11 DEF CurrentSteps, LiveInside
  <2>1. /\ \/ "TRANSITION" \in h[j].flags
           \/ h[j + 1].state \in Moves[h[j].state][h[j].action]
        /\ \/ "REWARD" \in h[j].flags
           \/ h[j].value = Reward(h[j].state, h[j].action, h[j + 1].state)
        /\ h[j].state \in Terminal => "TRANSITION" \in h[j].flags
    BY <1>1 DEF CurrentSteps, LiveInside
  <2>2. /\ g[j].state = h[j].state /\ g[j].action = h[j].action
        /\ g[j + 1].state = h[j + 1].state
        /\ g[j].flags = h[j].flags /\ g[j].value = h[j].value
    BY <1>10, <1>15
  <2> QED
    BY <2>1, <2>2
<1>17. CurrentEnd(g)
  <2>1. Len(h) > 1 => Len(h) \in DOMAIN h
    BY <1>2
  <2>2. CASE i = Len(h)
    <3>1. h[Len(h)].action = NoAction
      BY <1>1, <1>2, <2>2 DEF HistoryTyped
    <3> QED
      BY <1>7, <1>9, <1>11, <2>2, <3>1 DEF CurrentEnd, e
  <2>3. CASE i # Len(h)
    BY <1>9, <1>11, <2>1, <2>3 DEF CurrentEnd
  <2> QED
    BY <2>2, <2>3
<1> QED
  BY <1>9, <1>10, <1>11, <1>12, <1>13, <1>16, <1>17 DEF Sound

-----------------------------------------------------------------------------
(* The range of what is flagged. *)

LEMMA LeastNatural ==
    ASSUME NEW T, T \subseteq Nat, T # {}
    PROVE  \E x \in T : \A y \in T : x <= y
<1> DEFINE R == OpToRel(<, Nat)
<1>1. IsWellFoundedOn(R, Nat)
  BY NatLessThanWellFounded
<1>2. PICK x \in T : \A y \in T : ~(<<y, x>> \in R)
  <2> HIDE DEF R
  <2> QED
    BY <1>1, WFMin
<1>3. \A y \in T : ~(<<y, x>> \in R) => x <= y
  BY DEF OpToRel
<1> QED
  BY <1>2, <1>3

LEMMA GreatestNatural ==
    ASSUME NEW n \in Nat, NEW T, T \subseteq 0..n, T # {}
    PROVE  \E x \in T : \A y \in T : y <= x
<1> DEFINE U == {n - y : y \in T}
<1>1. U \subseteq Nat /\ U # {}
  <2>1. \A y \in T : n - y \in Nat
    OBVIOUS
  <2> QED
    BY <2>1
<1> HIDE DEF U
<1>2. PICK x \in U : \A y \in U : x <= y
  BY <1>1, LeastNatural
<1>3. PICK t \in T : x = n - t
  BY DEF U
<1>4. \A y \in T : n - y \in U
  BY DEF U
<1>5. \A y \in T : n - t <= n - y
  BY <1>2, <1>3, <1>4
<1> QED
  BY <1>5

LEMMA MinAndMax ==
    ASSUME NEW n \in Nat, NEW T, T \subseteq 0..n, T # {}
    PROVE  /\ Min(T) \in T /\ \A y \in T : Min(T) <= y
           /\ Max(T) \in T /\ \A y \in T : y <= Max(T)
<1>1. T \subseteq Nat
  OBVIOUS
<1>2. \E x \in T : \A y \in T : x <= y
  BY <1>1, LeastNatural
<1>3. \E x \in T : \A y \in T : x >= y
  <2>1. \E x \in T : \A y \in T : y <= x
    BY GreatestNatural
  <2> QED
    BY <1>1, <2>1
<1>4. Min(T) \in T /\ \A y \in T : Min(T) <= y
  BY <1>2 DEF Min
<1>5. Max(T) \in T /\ \A y \in T : Max(T) >= y
  BY <1>3 DEF Max
<1> QED
  BY <1>1, <1>4, <1>5

(* A range that is empty, or within 1..n. *)
RangeWithin(range, n) ==
    range = NoRange \/ (range.start \in 1..n /\ range.end \in range.start..n)

RangeType == [start : 1..(MaximumDepth + 2), end : 0..(MaximumDepth + 1)]

Widens(wide, range, indices, n) ==
    /\ wide \in RangeType /\ RangeWithin(wide, n)
    /\ wide.start <= range.start /\ range.end <= wide.end
    /\ \A i \in indices : wide.start <= i /\ i <= wide.end
    /\ indices = {} => wide = range
    /\ indices # {} => wide # NoRange

LEMMA WidenedRange ==
    ASSUME NEW n \in 0..(MaximumDepth + 1), NEW range \in RangeType, RangeWithin(range, n),
           NEW indices, indices \subseteq 1..n, NEW wide, wide = Widened(range, indices)
    PROVE  Widens(wide, range, indices, n)
<1> SUFFICES /\ wide \in RangeType /\ RangeWithin(wide, n)
             /\ wide.start <= range.start /\ range.end <= wide.end
             /\ \A i \in indices : wide.start <= i /\ i <= wide.end
             /\ indices = {} => wide = range
             /\ indices # {} => wide # NoRange
  BY DEF Widens
<1> DEFINE a == range.start
           b == range.end
           low == indices \cup {a}
           high == indices \cup {b}
<1>1. /\ n \in Nat /\ MaximumDepth \in Nat /\ n <= MaximumDepth + 1
      /\ a \in 1..(MaximumDepth + 2) /\ b \in 0..(MaximumDepth + 1)
  BY ChangeAssumption DEF RangeType
<1>2. CASE indices = {}
  BY <1>1, <1>2 DEF Widened
<1>3. CASE indices # {}
  <2>1. wide = [start |-> Min(low), end |-> Max(high)]
    BY <1>3 DEF Widened
  <2>2. PICK k \in indices : TRUE
    BY <1>3
  <2>3. b <= n /\ (a <= n \/ a = MaximumDepth + 2)
    BY <1>1 DEF RangeWithin, NoRange
  <2>4. low \subseteq 0..(MaximumDepth + 2) /\ high \subseteq 0..(MaximumDepth + 2)
    <3>1. \A i \in indices : i \in 1..n
      OBVIOUS
    <3>2. \A i \in 1..n : i \in 0..(MaximumDepth + 2)
      BY <1>1
    <3>3. a \in 0..(MaximumDepth + 2) /\ b \in 0..(MaximumDepth + 2)
      BY <1>1
    <3> HIDE DEF a, b
    <3> QED
      BY <3>1, <3>2, <3>3
  <2>5. MaximumDepth + 2 \in Nat /\ low # {} /\ high # {} /\ k \in low /\ a \in low
        /\ k \in high /\ b \in high /\ indices \subseteq low /\ indices \subseteq high
    BY <1>1, <2>2
  <2>6. \A x \in low : x \in indices \/ x = a
    OBVIOUS
  <2>7. \A x \in high : x \in indices \/ x = b
    OBVIOUS
  <2> HIDE DEF low, high, a, b
  <2>8. Min(low) \in low /\ \A y \in low : Min(low) <= y
    BY <2>4, <2>5, MinAndMax
  <2>9. Max(high) \in high /\ \A y \in high : y <= Max(high)
    BY <2>4, <2>5, MinAndMax
  <2> DEFINE p == Min(low)
             q == Max(high)
  <2>10. p <= k /\ k <= q /\ p <= a /\ b <= q
    BY <2>5, <2>8, <2>9
  <2>11. p \in Nat /\ q \in Nat /\ k \in 1..n
    <3>1. p \in 0..(MaximumDepth + 2) /\ q \in 0..(MaximumDepth + 2)
      BY <2>4, <2>8, <2>9
    <3> HIDE DEF p, q
    <3> QED
      BY <2>2, <3>1
  <2>12. p >= 1 /\ q <= n
    <3>1. (p \in indices \/ p = a) /\ (q \in indices \/ q = b)
      BY <2>6, <2>7, <2>8, <2>9
    <3> HIDE DEF p, q
    <3>2. a >= 1 /\ b <= n
      BY <1>1, <2>3
    <3>3. \A i \in indices : i \in 1..n
      OBVIOUS
    <3> QED
      <4>1. \A i \in indices : i >= 1 /\ i <= n
        BY <1>1, <3>3
      <4> QED
        BY <3>1, <3>2, <4>1
  <2>13. \A i \in indices : p <= i /\ i <= q
    BY <2>5, <2>8, <2>9
  <2>14. wide = [start |-> p, end |-> q] /\ wide.start = p /\ wide.end = q
    BY <2>1
  <2> HIDE DEF p, q
  <2>15. p \in 1..n /\ q \in p..n /\ p \in 1..(MaximumDepth + 2) /\ q \in 0..(MaximumDepth + 1)
    BY <1>1, <2>10, <2>11, <2>12
  <2>16. wide \in RangeType /\ RangeWithin(wide, n)
    BY <2>14, <2>15 DEF RangeType, RangeWithin
  <2>17. wide # NoRange
    <3>1. p # MaximumDepth + 2
      BY <1>1, <2>15
    <3> QED
      BY <2>14, <3>1 DEF NoRange
  <2> QED
    BY <1>3, <2>10, <2>13, <2>14, <2>16, <2>17 DEF a, b
<1> QED
  BY <1>2, <1>3

-----------------------------------------------------------------------------
(* The invariant. *)

(* A history, the nodes it goes through, and where it starts.               *)
Placed(h, nodes, node) ==
    /\ Sound(h)
    /\ \A i \in DOMAIN h : h[i].node \in nodes
    /\ h # <<>> => AtOrBelow(node, h[1].node)

(* A history still being extended.                                          *)
Growing(h) ==
    /\ Len(h) \in 1..MaximumDepth
    /\ h[Len(h)].state \notin Terminal

Searched(q) == phase = "searching" /\ revision.seq = {q}
Revised(q) == phase = "revising" /\ revision.seq = {q}

Low(q) == IF Revised(q) THEN revision.at ELSE affectedIdx[q].start
High(q) == IF Revised(q) THEN revision.firstUnchanged - 1 ELSE affectedIdx[q].end

EndOK(q) == IF Searched(q) THEN Growing(history[q]) ELSE CurrentEnd(history[q])

RangeOK(q) ==
    /\ affectedIdx[q] \in RangeType
    /\ RangeWithin(affectedIdx[q], Len(history[q]))
    /\ q \in affected <=> affectedIdx[q] # NoRange

Through(h, r) == \E i \in DOMAIN h : h[i].node = r

PastOK(q) ==
    q \in affected => \A r \in changeRoot : PastKept(history[q], r) /\ Through(history[q], r)

HistoryOK(q) ==
    /\ Placed(history[q], Nodes, belief)
    /\ EndOK(q)
    /\ RangeOK(q)
    /\ FlagsWithin(history[q], Low(q), High(q))
    /\ PastOK(q)

HistoriesOK == DOMAIN history = Sequences /\ DOMAIN affectedIdx = Sequences
               /\ \A q \in Sequences : HistoryOK(q)

RevisionType ==
    [seq : SUBSET Sequences, at : Nat, firstUnchanged : Nat, divergingEntry : Nat]

RevisionOK ==
    /\ revision \in RevisionType
    /\ phase = "searching" => \E q \in Sequences : revision.seq = {q}
    /\ phase \notin {"searching", "revising"} => revision = NoRevision
    /\ phase = "revising" => \/ revision = NoRevision
                             \/ \E q \in affected :
                                   /\ revision.seq = {q}
                                   /\ revision.at \in DOMAIN history[q]
                                   /\ revision.at <= revision.firstUnchanged
                                   /\ revision.firstUnchanged <= Len(history[q]) + 1

ControlOK ==
    /\ options \in [areDynamic : BOOLEAN, pruneEveryStep : BOOLEAN]
    /\ phase \in {"planning", "searching", "updated", "flagging", "deleting", "revising"}
    /\ steps \in 0..NSimulationSteps
    /\ deleted \subseteq Colliding /\ toFlag \subseteq deleted /\ affected \subseteq Sequences
    /\ phase # "flagging" => toFlag = {}
    /\ ~Changing => affected = {} /\ isAffectedMap = [n \in {} |-> TRUE]

TreeOK ==
    /\ Root \in Nodes /\ belief \in Nodes /\ Nodes \subseteq Seq(Steps)
    /\ visits \in [Nodes -> Int] /\ continued \in [Nodes -> Int]
    /\ changeRoot = {} \/ \E r \in Nodes : changeRoot = {r} /\ AtOrBelow(belief, r)
    /\ Changing => changeRoot = {} \/ changeRoot = {belief}

MapOK ==
    /\ isAffectedMap \in [DOMAIN isAffectedMap -> BOOLEAN]
    /\ changeRoot = {} => DOMAIN isAffectedMap = {}
    /\ \A r \in changeRoot : \A n \in DOMAIN isAffectedMap :
          /\ n \in Seq(Steps) /\ Len(n) > Len(r)
          /\ isAffectedMap[n] <=> AtOrBelow(n, r)

IInv == ControlOK /\ RevisionOK /\ TreeOK /\ MapOK /\ HistoriesOK

LEMMA NoHistory ==
    /\ Sound(<<>>) /\ CurrentEnd(<<>>) /\ \A nodes, node : Placed(<<>>, nodes, node)
    /\ \A lo, hi : FlagsWithin(<<>>, lo, hi)
    /\ \A r : PastKept(<<>>, r)
    /\ Len(<<>>) = 0
    /\ RangeWithin(NoRange, 0) /\ NoRange \in RangeType
<1>1. /\ <<>> \in Seq(EntryType) /\ Len(<<>>) = 0 /\ DOMAIN <<>> = {}
      /\ MaximumDepth \in Nat
  BY ChangeAssumption
<1>2. Sound(<<>>)
  BY <1>1 DEF Sound, HistoryTyped, Straight, CurrentSteps, LiveInside
<1>3. NoRange \in RangeType
  BY <1>1 DEF NoRange, RangeType
<1> QED
  BY <1>1, <1>2, <1>3 DEF CurrentEnd, Placed, FlagsWithin, PastKept, RangeWithin

LEMMA InitOK == Init => IInv
<1> SUFFICES ASSUME Init PROVE IInv
  OBVIOUS
<1>1. ControlOK
  BY ChangeAssumption DEF Init, ControlOK, Changing
<1>2. RevisionOK
  BY DEF Init, RevisionOK, RevisionType, NoRevision
<1>3. TreeOK
  <2>1. Nodes = {Root} /\ belief = Root /\ changeRoot = {} /\ Root \in Seq(Steps)
    BY DEF Init, Nodes, Root
  <2>2. visits \in [{Root} -> Int] /\ continued \in [{Root} -> Int]
    BY DEF Init
  <2> QED
    BY <2>1, <2>2 DEF TreeOK
<1>4. MapOK
  <2>1. isAffectedMap = [n \in {} |-> TRUE] /\ changeRoot = {}
    BY DEF Init
  <2> QED
    BY <2>1 DEF MapOK
<1>5. ASSUME NEW q \in Sequences PROVE HistoryOK(q)
  <2>1. /\ history[q] = <<>> /\ affectedIdx[q] = NoRange /\ affected = {}
        /\ phase = "planning"
    BY DEF Init
  <2> QED
    BY <2>1, NoHistory DEF HistoryOK, EndOK, Searched, RangeOK, PastOK
<1>6. DOMAIN history = Sequences /\ DOMAIN affectedIdx = Sequences
  BY DEF Init
<1> QED
  BY <1>1, <1>2, <1>3, <1>4, <1>5, <1>6 DEF IInv, HistoriesOK

-----------------------------------------------------------------------------
(* Steps that leave the histories alone. *)

LEMMA NoRevisionFields ==
    /\ NoRevision \in RevisionType /\ NoRevision.seq = {}
    /\ revision = NoRevision => \A q : ~Searched(q) /\ ~Revised(q)
BY DEF NoRevision, RevisionType, Searched, Revised

LEMMA HistoriesUntouched ==
    ASSUME HistoriesOK, UNCHANGED <<belief, history, affectedIdx, visits, affected>>,
           revision = NoRevision, revision' = NoRevision,
           changeRoot' = changeRoot \/ affected = {}
    PROVE  HistoriesOK'
<1>1. \A q : ~Searched(q) /\ ~Revised(q) /\ ~Searched(q)' /\ ~Revised(q)'
  BY DEF NoRevision, Searched, Revised
<1>2. ASSUME NEW q \in Sequences PROVE HistoryOK(q)'
  <2>1. HistoryOK(q)
    BY DEF HistoriesOK
  <2>2. Placed(history[q], Nodes, belief)'
    BY <2>1 DEF HistoryOK, Nodes
  <2>3. EndOK(q)'
    BY <1>1, <2>1 DEF HistoryOK, EndOK
  <2>4. RangeOK(q)'
    BY <2>1 DEF HistoryOK, RangeOK
  <2>5. FlagsWithin(history[q], Low(q), High(q))'
    BY <1>1, <2>1 DEF HistoryOK, Low, High
  <2>6. PastOK(q)'
    BY <2>1 DEF HistoryOK, PastOK
  <2> QED
    BY <2>2, <2>3, <2>4, <2>5, <2>6 DEF HistoryOK
<1> QED
  BY <1>2 DEF HistoriesOK

LEMMA NoChangesStep ==
    ASSUME IInv, NoChanges PROVE IInv'
<1>1. /\ phase = "updated" /\ phase' = "planning" /\ revision = NoRevision
      /\ affected = {} /\ toFlag = {} /\ isAffectedMap = [n \in {} |-> TRUE]
  BY DEF IInv, NoChanges, RevisionOK, ControlOK, Changing
<1>2. UNCHANGED <<options, steps, belief, history, affectedIdx, treeVars, changeVars, revision>>
  BY DEF NoChanges
<1>3. ControlOK'
  BY <1>1, <1>2 DEF IInv, ControlOK, Changing, changeVars
<1>4. RevisionOK'
  BY <1>1, <1>2, NoRevisionFields DEF RevisionOK
<1>5. TreeOK' /\ MapOK'
  BY <1>1, <1>2 DEF IInv, TreeOK, MapOK, Changing, Nodes, treeVars, changeVars
<1>6. HistoriesOK'
  BY <1>1, <1>2, HistoriesUntouched DEF IInv, treeVars, changeVars
<1> QED
  BY <1>3, <1>4, <1>5, <1>6 DEF IInv

LEMMA ChangeEnvironmentStep ==
    ASSUME IInv, ChangeEnvironment PROVE IInv'
<1>1. /\ phase = "updated" /\ phase' \in {"planning", "flagging"} /\ revision = NoRevision
      /\ affected = {} /\ toFlag = {} /\ isAffectedMap = [n \in {} |-> TRUE]
      /\ changeRoot' = {} \/ changeRoot' = {belief}
      /\ deleted \subseteq Colliding
  BY DEF IInv, ChangeEnvironment, RevisionOK, ControlOK, Changing
<1>2. UNCHANGED <<options, steps, belief, history, affectedIdx, treeVars, isAffectedMap,
                  affected, revision>>
  BY DEF ChangeEnvironment
<1>3. ControlOK'
  <2>1. deleted' \subseteq Colliding /\ toFlag' \subseteq deleted'
        /\ (phase' # "flagging" => toFlag' = {})
    BY <1>1 DEF ChangeEnvironment, Flagged
  <2>2. /\ options \in [areDynamic : BOOLEAN, pruneEveryStep : BOOLEAN]
        /\ steps \in 0..NSimulationSteps
    BY DEF IInv, ControlOK
  <2> QED
    BY <1>1, <1>2, <2>1, <2>2 DEF ControlOK
<1>4. RevisionOK'
  BY <1>1, <1>2, NoRevisionFields DEF RevisionOK
<1>5. TreeOK'
  <2>1. /\ Root \in Nodes /\ belief \in Nodes /\ Nodes \subseteq Seq(Steps)
        /\ visits \in [Nodes -> Int] /\ continued \in [Nodes -> Int]
    BY DEF IInv, TreeOK
  <2>2. AtOrBelow(belief, belief)
    BY <2>1, PrefixOrder DEF AtOrBelow
  <2> QED
    BY <1>1, <1>2, <2>1, <2>2 DEF TreeOK, Nodes, treeVars
<1>6. MapOK'
  BY <1>1, <1>2 DEF MapOK
<1>7. HistoriesOK'
  BY <1>1, <1>2, HistoriesUntouched DEF IInv, treeVars
<1> QED
  BY <1>3, <1>4, <1>5, <1>6, <1>7 DEF IInv

LEMMA PhaseStep ==
    ASSUME IInv, EndFlagging \/ EndDeleting PROVE IInv'
<1>1. /\ phase \in {"flagging", "deleting"} /\ phase' \in {"deleting", "revising"}
      /\ revision = NoRevision /\ toFlag = {}
  BY DEF IInv, EndFlagging, EndDeleting, RevisionOK, ControlOK
<1>2. UNCHANGED <<options, steps, belief, history, affectedIdx, treeVars, changeVars, revision>>
  BY DEF EndFlagging, EndDeleting
<1>3. ControlOK'
  BY <1>1, <1>2 DEF IInv, ControlOK, Changing, changeVars
<1>4. RevisionOK'
  BY <1>1, <1>2, NoRevisionFields DEF RevisionOK
<1>5. TreeOK' /\ MapOK'
  BY <1>1, <1>2 DEF IInv, TreeOK, MapOK, Changing, Nodes, treeVars, changeVars
<1>6. HistoriesOK'
  BY <1>1, <1>2, HistoriesUntouched DEF IInv, treeVars, changeVars
<1> QED
  BY <1>3, <1>4, <1>5, <1>6 DEF IInv

LEMMA EndChangesStep ==
    ASSUME IInv, EndChanges PROVE IInv'
<1>1. /\ phase = "revising" /\ phase' = "planning" /\ affected = {} /\ toFlag = {}
      /\ deleted' = {} /\ isAffectedMap' = [n \in {} |-> TRUE]
  BY DEF IInv, EndChanges, ControlOK
<1>2. UNCHANGED <<options, steps, belief, history, affectedIdx, treeVars, changeRoot, toFlag,
                  affected, revision>>
  BY DEF EndChanges
<1>3. revision = NoRevision
  BY <1>1 DEF IInv, RevisionOK
<1>4. ControlOK'
  BY <1>1, <1>2 DEF IInv, ControlOK, Changing
<1>5. RevisionOK'
  BY <1>1, <1>2, <1>3, NoRevisionFields DEF RevisionOK
<1>6. TreeOK'
  BY <1>1, <1>2 DEF IInv, TreeOK, Changing, Nodes, treeVars
<1>7. MapOK'
  BY <1>1, <1>2 DEF MapOK
<1>8. HistoriesOK'
  BY <1>1, <1>2, <1>3, HistoriesUntouched DEF IInv, treeVars
<1> QED
  BY <1>4, <1>5, <1>6, <1>7, <1>8 DEF IInv

LEMMA StartRevisionStep ==
    ASSUME IInv, NEW q \in Sequences, StartRevision(q) PROVE IInv'
<1>1. /\ phase = "revising" /\ revision = NoRevision /\ q \in affected
      /\ UNCHANGED <<options, phase, steps, belief, history, affectedIdx, treeVars,
                     deleted, changeRoot, isAffectedMap, toFlag>>
  BY DEF StartRevision
<1>2. HistoryOK(q) /\ Len(history[q]) \in Nat /\ DOMAIN history[q] = 1..Len(history[q])
  <2>1. HistoryOK(q)
    BY DEF IInv, HistoriesOK
  <2> QED
    BY <2>1, HistoryElements DEF HistoryOK, Placed, Sound
<1>3. /\ affectedIdx[q].start \in 1..Len(history[q])
      /\ affectedIdx[q].end \in affectedIdx[q].start..Len(history[q])
  BY <1>1, <1>2 DEF HistoryOK, RangeOK, RangeWithin
<1>4. /\ affected' = affected
      /\ revision' = [seq |-> {q}, at |-> affectedIdx[q].start,
                      firstUnchanged |-> affectedIdx[q].end + 1, divergingEntry |-> 0]
  BY <1>2, <1>3 DEF StartRevision
<1>5. /\ revision'.seq = {q} /\ revision'.at = affectedIdx[q].start
      /\ revision'.firstUnchanged = affectedIdx[q].end + 1 /\ revision'.divergingEntry = 0
      /\ revision' \in RevisionType
  BY <1>2, <1>3, <1>4 DEF RevisionType
<1>6. ControlOK'
  BY <1>1, <1>4 DEF IInv, ControlOK, Changing
<1>7. RevisionOK'
  <2>1. /\ revision'.at \in DOMAIN history'[q] /\ revision'.at <= revision'.firstUnchanged
        /\ revision'.firstUnchanged <= Len(history'[q]) + 1
    BY <1>1, <1>2, <1>3, <1>5
  <2> QED
    BY <1>1, <1>4, <1>5, <2>1 DEF RevisionOK
<1>8. TreeOK' /\ MapOK'
  BY <1>1 DEF IInv, TreeOK, MapOK, Changing, Nodes, treeVars
<1>9. ASSUME NEW p \in Sequences PROVE HistoryOK(p)'
  <2>1. HistoryOK(p) /\ ~Searched(p) /\ ~Revised(p)
    BY <1>1, NoRevisionFields DEF IInv, HistoriesOK
  <2>2. Placed(history[p], Nodes, belief)'
    BY <1>1, <2>1 DEF HistoryOK, Nodes, treeVars
  <2>3. EndOK(p)'
    BY <1>1, <2>1 DEF HistoryOK, EndOK, Searched
  <2>4. RangeOK(p)' /\ PastOK(p)'
    BY <1>1, <1>4, <2>1 DEF HistoryOK, RangeOK, PastOK
  <2>5. Low(p)' = Low(p) /\ High(p)' = High(p)
    <3>1. CASE p = q
      BY <1>1, <1>2, <1>3, <1>5, <2>1, <3>1 DEF Low, High, Revised
    <3>2. CASE p # q
      BY <1>1, <1>5, <2>1, <3>2 DEF Low, High, Revised
    <3> QED
      BY <3>1, <3>2
  <2>6. FlagsWithin(history[p], Low(p), High(p))'
    BY <1>1, <2>1, <2>5 DEF HistoryOK
  <2> QED
    BY <2>2, <2>3, <2>4, <2>6 DEF HistoryOK
<1>10. HistoriesOK'
  BY <1>1, <1>9 DEF IInv, HistoriesOK
<1> QED
  BY <1>6, <1>7, <1>8, <1>10 DEF IInv

-----------------------------------------------------------------------------
(* Steps on one history. *)

LEMMA OtherHistories ==
    ASSUME HistoriesOK, NEW q \in Sequences,
           DOMAIN history' = Sequences, DOMAIN affectedIdx' = Sequences,
           belief' = belief, changeRoot' = changeRoot, Nodes \subseteq Nodes',
           \A p \in Sequences : p # q => /\ history'[p] = history[p]
                                         /\ affectedIdx'[p] = affectedIdx[p]
                                         /\ p \in affected' <=> p \in affected
                                         /\ ~Searched(p) /\ ~Revised(p)
                                         /\ ~Searched(p)' /\ ~Revised(p)',
           HistoryOK(q)'
    PROVE  HistoriesOK'
<1>1. ASSUME NEW p \in Sequences, p # q PROVE HistoryOK(p)'
  <2>1. HistoryOK(p) /\ history'[p] = history[p] /\ affectedIdx'[p] = affectedIdx[p]
        /\ (p \in affected' <=> p \in affected)
    BY <1>1 DEF HistoriesOK
  <2>2. Placed(history[p], Nodes, belief)'
    BY <2>1 DEF HistoryOK, Placed
  <2>3. EndOK(p)'
    BY <1>1, <2>1 DEF HistoryOK, EndOK
  <2>4. RangeOK(p)' /\ PastOK(p)'
    BY <2>1 DEF HistoryOK, RangeOK, PastOK
  <2>5. FlagsWithin(history[p], Low(p), High(p))'
    BY <1>1, <2>1 DEF HistoryOK, Low, High
  <2> QED
    BY <2>2, <2>3, <2>4, <2>5 DEF HistoryOK
<1> QED
  BY <1>1 DEF HistoriesOK

LEMMA SingleEntry ==
    ASSUME NEW s \in States, NEW node \in Seq(Steps), NEW h, h = <<LastEntry(s, node)>>
    PROVE  /\ Sound(h) /\ CurrentEnd(h) /\ Len(h) = 1 /\ DOMAIN h = {1}
           /\ h[1].node = node /\ h[1].state = s /\ h[1].flags = {}
           /\ \A lo, hi : FlagsWithin(h, lo, hi)
<1> DEFINE x == LastEntry(s, node)
<1>1. /\ x \in EntryType /\ x.state = s /\ x.node = node /\ x.action = NoAction /\ x.flags = {}
  BY LastEntryFields DEF Paths, Steps
<1> HIDE DEF x
<1>2. h = <<x>>
  BY DEF x
<1>3. /\ h \in Seq(EntryType) /\ Len(h) = 1 /\ h[1] = x /\ DOMAIN h = {1}
      /\ 1..Len(h) = {1} /\ 1..(Len(h) - 1) = {}
  BY <1>1, <1>2
<1>4. HistoryTyped(h)
  BY <1>1, <1>3, ChangeAssumption DEF HistoryTyped
<1>5. Straight(h)
  <2>1. Len(h[1].node) \in Nat
    BY <1>1, <1>3
  <2>2. \A k \in 1..Len(h[1].node) : k <= Len(h[1].node)
    BY <2>1
  <2> QED
    BY <1>3, <2>1, <2>2 DEF Straight
<1>6. CurrentSteps(h) /\ LiveInside(h) /\ CurrentEnd(h)
  BY <1>3 DEF CurrentSteps, LiveInside, CurrentEnd
<1> QED
  BY <1>1, <1>3, <1>4, <1>5, <1>6 DEF Sound, FlagsWithin

LEMMA ParticlesAreStates ==
    ASSUME HistoriesOK, NEW node PROVE Particles(node) \subseteq States
<1> SUFFICES ASSUME NEW u \in EntryIds PROVE EntryAt(u).state \in States
  BY DEF Particles
<1>1. u[1] \in Sequences /\ u[2] \in DOMAIN history[u[1]]
  BY DEF EntryIds
<1>2. history[u[1]][u[2]] \in EntryType
  BY <1>1, HistoryElements DEF HistoriesOK, HistoryOK, Placed, Sound
<1> QED
  BY <1>2, EntryFields DEF EntryAt

LEMMA StartSearchStep ==
    ASSUME IInv, NEW q \in Sequences, StartSearch(q) PROVE IInv'
<1>1. /\ phase = "planning" /\ revision = NoRevision /\ history[q] = <<>>
      /\ affected = {} /\ toFlag = {} /\ isAffectedMap = [n \in {} |-> TRUE]
      /\ UNCHANGED <<options, steps, belief, affectedIdx, treeVars, changeVars>>
  BY DEF IInv, StartSearch, Free, RevisionOK, ControlOK, Changing
<1>2. PICK s \in IF belief = Root THEN Initial ELSE Particles(belief) \ Terminal :
          /\ history' = [history EXCEPT ![q] = <<LastEntry(s, belief)>>]
          /\ IF s \in Terminal
             THEN UNCHANGED <<phase, revision>>
             ELSE phase' = "searching" /\ revision' = [NoRevision EXCEPT !.seq = {q}]
  BY DEF StartSearch
<1>3. s \in States
  BY ParticlesAreStates, ChangeAssumption DEF IInv
<1>4. belief \in Nodes /\ belief \in Seq(Steps)
  BY DEF IInv, TreeOK
<1> DEFINE h == <<LastEntry(s, belief)>>
<1>5. /\ Sound(h) /\ CurrentEnd(h) /\ Len(h) = 1 /\ DOMAIN h = {1}
      /\ h[1].node = belief /\ h[1].state = s /\ h[1].flags = {}
      /\ \A lo, hi : FlagsWithin(h, lo, hi)
  BY <1>3, <1>4, SingleEntry
<1> HIDE DEF h
<1>6. /\ history'[q] = h /\ DOMAIN history' = Sequences
      /\ \A p \in Sequences : p # q => history'[p] = history[p]
  BY <1>2 DEF IInv, HistoriesOK, h
<1>7. /\ revision' \in RevisionType /\ revision'.seq \subseteq {q}
      /\ phase' \in {"planning", "searching"}
      /\ phase' = "searching" => revision'.seq = {q} /\ s \notin Terminal
      /\ phase' # "searching" => revision' = NoRevision
  BY <1>1, <1>2 DEF NoRevision, RevisionType
<1>8. ControlOK'
  BY <1>1, <1>7 DEF IInv, ControlOK, Changing, changeVars
<1>9. RevisionOK'
  BY <1>7 DEF RevisionOK
<1>10. TreeOK' /\ MapOK'
  BY <1>1, <1>7 DEF IInv, TreeOK, MapOK, Changing, Nodes, treeVars, changeVars
<1>11. HistoryOK(q)'
  <2>1. Placed(history[q], Nodes, belief)'
    <3>1. AtOrBelow(belief, belief)
      BY <1>4, PrefixOrder DEF AtOrBelow
    <3> QED
      BY <1>1, <1>4, <1>5, <1>6, <3>1 DEF Placed, Nodes, treeVars
  <2>2. EndOK(q)'
    <3>1. CASE phase' = "searching"
      <4>1. Growing(h)
        BY <1>5, <1>7, <3>1, ChangeAssumption DEF Growing
      <4>2. Searched(q)'
        BY <1>7, <3>1 DEF Searched
      <4> QED
        BY <1>6, <4>1, <4>2 DEF EndOK
    <3>2. CASE phase' # "searching"
      BY <1>5, <1>6, <3>2 DEF EndOK, Searched
    <3> QED
      BY <3>1, <3>2
  <2>3. RangeOK(q)' /\ PastOK(q)'
    <3>1. affectedIdx[q] = NoRange /\ affectedIdx[q] \in RangeType
      BY <1>1 DEF IInv, HistoriesOK, HistoryOK, RangeOK
    <3> QED
      BY <1>1, <3>1 DEF RangeOK, RangeWithin, PastOK, changeVars
  <2>4. FlagsWithin(history[q], Low(q), High(q))'
    BY <1>5, <1>6
  <2> QED
    BY <2>1, <2>2, <2>3, <2>4 DEF HistoryOK
<1>12. \A p \in Sequences : p # q => /\ affectedIdx'[p] = affectedIdx[p]
                                     /\ p \in affected' <=> p \in affected
                                     /\ ~Searched(p) /\ ~Revised(p)
                                     /\ ~Searched(p)' /\ ~Revised(p)'
  BY <1>1, <1>7 DEF NoRevision, Searched, Revised, changeVars
<1>13. DOMAIN affectedIdx' = Sequences /\ Nodes \subseteq Nodes' /\ belief' = belief
       /\ changeRoot' = changeRoot /\ HistoriesOK
  BY <1>1 DEF IInv, HistoriesOK, Nodes, treeVars, changeVars
<1>14. HistoriesOK'
  BY <1>6, <1>11, <1>12, <1>13, OtherHistories
<1> QED
  BY <1>8, <1>9, <1>10, <1>14 DEF IInv

-----------------------------------------------------------------------------
(* Counts stay counts. *)

LEMMA PartOfRange ==
    ASSUME NEW h, Len(h) \in Nat, NEW first \in Nat, NEW T, T \subseteq Updated(h, first)
    PROVE  Cardinality(T) \in Int
<1> DEFINE a == IF first < Len(h) THEN first ELSE Len(h) - 1
           b == Len(h) - 1
<1>1. a \in Int /\ b \in Int /\ Updated(h, first) = a..b
  BY DEF Updated
<1>2. IsFiniteSet(a..b)
  BY <1>1, FS_Interval
<1>3. IsFiniteSet(T)
  BY <1>1, <1>2, FS_Subset
<1> QED
  BY <1>3, FS_CardinalityType

LEMMA CountTypes ==
    ASSUME NEW N, NEW count \in [N -> Int], NEW h, Len(h) \in Nat, NEW sgn \in Int,
           NEW first \in Nat
    PROVE  /\ CountVisits(count, h, sgn, first) \in [N -> Int]
           /\ CountContinuations(count, h, sgn, first) \in [N -> Int]
<1>1. CountVisits(count, h, sgn, first) \in [N -> Int]
  <2> DEFINE T(n) == {i \in Updated(h, first) : Child(h[i].node, h[i].action, h[i].observation) = n}
  <2>1. \A n : T(n) \subseteq Updated(h, first)
    OBVIOUS
  <2>2. \A n : Cardinality(T(n)) \in Int
    <3> HIDE DEF T
    <3> QED
      BY <2>1, PartOfRange
  <2>3. CountVisits(count, h, sgn, first)
        = IF Len(h) <= 1 THEN count ELSE [n \in DOMAIN count |-> count[n] + sgn * Cardinality(T(n))]
    BY DEF CountVisits
  <2> HIDE DEF T
  <2>4. \A n \in N : count[n] + sgn * Cardinality(T(n)) \in Int
    <3> SUFFICES ASSUME NEW n \in N PROVE count[n] + sgn * Cardinality(T(n)) \in Int
      OBVIOUS
    <3>1. sgn * Cardinality(T(n)) \in Int /\ count[n] \in Int
      BY <2>2
    <3> QED
      BY <3>1
  <2> QED
    BY <2>3, <2>4
<1>2. CountContinuations(count, h, sgn, first) \in [N -> Int]
  <2> DEFINE T(n) == {i \in Updated(h, first) : i + 1 < Len(h) /\ h[i + 1].node = n}
  <2>1. \A n : T(n) \subseteq Updated(h, first)
    OBVIOUS
  <2>2. \A n : Cardinality(T(n)) \in Int
    <3> HIDE DEF T
    <3> QED
      BY <2>1, PartOfRange
  <2>3. CountContinuations(count, h, sgn, first)
        = IF Len(h) <= 1 THEN count ELSE [n \in DOMAIN count |-> count[n] + sgn * Cardinality(T(n))]
    BY DEF CountContinuations
  <2> HIDE DEF T
  <2>4. \A n \in N : count[n] + sgn * Cardinality(T(n)) \in Int
    <3> SUFFICES ASSUME NEW n \in N PROVE count[n] + sgn * Cardinality(T(n)) \in Int
      OBVIOUS
    <3>1. sgn * Cardinality(T(n)) \in Int /\ count[n] \in Int
      BY <2>2
    <3> QED
      BY <3>1
  <2> QED
    BY <2>3, <2>4
<1> QED
  BY <1>1, <1>2

LEMMA ExtendedTypes ==
    ASSUME NEW N, NEW count \in [N -> Int], NEW h
    PROVE  Extended(count, h) \in [N \cup NodesOf(h) -> Int]
BY DEF Extended

LEMMA DeleteSequenceStep ==
    ASSUME IInv, NEW q \in Sequences, DeleteSequence(q) PROVE IInv'
<1>1. /\ phase = "deleting" /\ revision = NoRevision /\ q \in affected
      /\ UNCHANGED <<options, phase, steps, belief, deleted, changeRoot, isAffectedMap, toFlag,
                     revision>>
      /\ affected' = affected \ {q}
      /\ history' = [history EXCEPT ![q] = <<>>]
      /\ affectedIdx' = [affectedIdx EXCEPT ![q] = NoRange]
  BY DEF IInv, DeleteSequence, Doomed, RevisionOK
<1>2. /\ DOMAIN history' = Sequences /\ DOMAIN affectedIdx' = Sequences
      /\ history'[q] = <<>> /\ affectedIdx'[q] = NoRange
      /\ \A p \in Sequences : p # q => /\ history'[p] = history[p]
                                       /\ affectedIdx'[p] = affectedIdx[p]
                                       /\ p \in affected' <=> p \in affected
  BY <1>1 DEF IInv, HistoriesOK
<1>3. Nodes' = Nodes /\ visits' \in [Nodes -> Int] /\ continued' \in [Nodes -> Int]
  <2>1. /\ Len(history[q]) \in Nat /\ visits \in [Nodes -> Int] /\ continued \in [Nodes -> Int]
        /\ -1 \in Int /\ 1 \in Nat
    BY HistoryElements DEF IInv, HistoriesOK, HistoryOK, Placed, Sound, TreeOK
  <2>2. /\ visits' = CountVisits(visits, history[q], -1, 1)
        /\ continued' = CountContinuations(continued, history[q], -1, 1)
    BY DEF DeleteSequence
  <2>3. visits' \in [Nodes -> Int] /\ continued' \in [Nodes -> Int]
    BY <2>1, <2>2, CountTypes
  <2> QED
    BY <2>3 DEF Nodes
<1>4. ControlOK'
  BY <1>1 DEF IInv, ControlOK, Changing
<1>5. RevisionOK'
  BY <1>1, NoRevisionFields DEF RevisionOK
<1>6. TreeOK'
  BY <1>1, <1>3 DEF IInv, TreeOK, Changing
<1>7. MapOK'
  BY <1>1 DEF IInv, MapOK
<1>8. \A p : ~Searched(p) /\ ~Revised(p) /\ ~Searched(p)' /\ ~Revised(p)'
  BY <1>1 DEF NoRevision, Searched, Revised
<1>9. HistoryOK(q)'
  <2>1. Placed(history[q], Nodes, belief)' /\ CurrentEnd(history'[q])
    BY <1>2, NoHistory
  <2>2. EndOK(q)'
    BY <1>8, <2>1 DEF EndOK
  <2>3. RangeOK(q)' /\ PastOK(q)'
    BY <1>1, <1>2, NoHistory DEF RangeOK, PastOK
  <2>4. FlagsWithin(history[q], Low(q), High(q))'
    BY <1>2, NoHistory
  <2> QED
    BY <2>1, <2>2, <2>3, <2>4 DEF HistoryOK
<1>10. HistoriesOK'
  BY <1>1, <1>2, <1>3, <1>8, <1>9, OtherHistories DEF IInv
<1> QED
  BY <1>4, <1>5, <1>6, <1>7, <1>10 DEF IInv

(* The end of a revision. *)
EndLength(h, r) == IF EndsEarly(h, r) THEN r.at ELSE Len(h)

LEMMA EndedIsSound ==
    ASSUME NEW h, Sound(h), CurrentEnd(h),
           NEW i \in DOMAIN h, NEW u \in Nat, i <= u, FlagsWithin(h, i, u - 1),
           i < u => h[i].state \in Terminal \/ h[i].action = NoAction,
           NEW r, r.at = i, r.firstUnchanged = u,
           NEW g, g = EndedHistory(h, r)
    PROVE  /\ Sound(g) /\ CurrentEnd(g) /\ 1 \in DOMAIN g /\ DOMAIN g \subseteq DOMAIN h
           /\ Len(g) = EndLength(h, r)
           /\ \A j \in DOMAIN g : /\ g[j].flags = {} /\ g[j].node = h[j].node
                                  /\ g[j].state = h[j].state
           /\ \A j \in DOMAIN h \ DOMAIN g : j > i /\ "TRANSITION" \in h[i].flags
<1>1. HistoryTyped(h) /\ Straight(h) /\ LiveInside(h)
  BY DEF Sound
<1>2. /\ Len(h) \in Nat /\ DOMAIN h = 1..Len(h)
      /\ i \in DOMAIN h /\ i \in Nat /\ i >= 1 /\ i <= Len(h)
  BY <1>1, HistoryElements
<1>3. u \in Nat /\ i <= u
  OBVIOUS
<1>4. \A j \in DOMAIN h : h[j].flags # {} => i <= j /\ j <= u - 1
  BY DEF FlagsWithin
<1>5. CASE EndsEarly(h, r)
  <2>1. h[i].state \in Terminal /\ h[i].action # NoAction
    BY <1>5 DEF EndsEarly
  <2>2. g = CutOff(h, i)
    BY <1>5 DEF EndedHistory
  <2>3. \A j \in 1..(i - 1) : h[j].flags = {}
    <3> SUFFICES ASSUME NEW j \in 1..(i - 1) PROVE h[j].flags = {}
      OBVIOUS
    <3>1. j \in DOMAIN h /\ ~(i <= j)
      BY <1>2
    <3> QED
      BY <1>4, <3>1
  <2>4. /\ Sound(g) /\ CurrentEnd(g) /\ Len(g) = i /\ DOMAIN g = 1..i
        /\ \A j \in 1..i : /\ g[j].flags = {} /\ g[j].node = h[j].node
                           /\ g[j].state = h[j].state
    BY <2>1, <2>2, <2>3, CutIsSound
  <2>5. 1 \in 1..i /\ 1..i \subseteq DOMAIN h /\ \A j \in DOMAIN h \ 1..i : j > i
    BY <1>2
  <2>6. "TRANSITION" \in h[i].flags
    <3>1. i < Len(h)
      BY <1>1, <1>2, <2>1 DEF HistoryTyped
    <3>2. i \in 1..(Len(h) - 1)
      BY <1>2, <3>1
    <3> QED
      BY <1>1, <2>1, <3>2 DEF LiveInside
  <2> QED
    BY <1>5, <2>4, <2>5, <2>6 DEF EndLength
<1>6. CASE ~EndsEarly(h, r)
  <2> DEFINE reached == Reached(h, i)
  <2>1. g = IF r.divergingEntry # 0 THEN Rerouted(reached, i) ELSE reached
    BY <1>6 DEF EndedHistory
  <2>2. h[i].action = NoAction \/ u <= i
    BY <1>2, <1>3, <1>6 DEF EndsEarly
  <2>3. ASSUME NEW j \in DOMAIN h, j # i PROVE h[j].flags = {}
    <3>1. j \in Nat /\ 1 <= j /\ j <= Len(h)
      BY <1>2
    <3>2. CASE u <= i
      BY <1>2, <1>3, <1>4, <3>1, <3>2
    <3>3. CASE ~(u <= i)
      <4>1. i = Len(h)
        BY <1>1, <1>2, <2>2, <3>3, ChangeAssumption DEF HistoryTyped
      <4> QED
        BY <1>2, <1>3, <1>4, <2>3, <3>1, <4>1
    <3> QED
      BY <3>2, <3>3
  <2>4. h[i].action = NoAction \/ h[i].flags = {}
    <3>1. u <= i => ~(i <= u - 1)
      BY <1>2, <1>3
    <3> QED
      BY <1>2, <1>4, <2>2, <3>1
  <2>5. /\ Sound(reached) /\ CurrentEnd(reached) /\ DOMAIN reached = DOMAIN h
        /\ \A j \in DOMAIN h : reached[j].node = h[j].node /\ reached[j].state = h[j].state
        /\ \A j \in DOMAIN h : reached[j].flags = IF j = i THEN {} ELSE h[j].flags
    BY <2>4, ReachedIsSound
  <2> HIDE DEF reached
  <2>6. Rerouted(reached, i) = reached
    BY <1>2, <2>5, ReroutedAlongPath DEF Sound
  <2>7. g = reached
    BY <2>1, <2>6
  <2>8. Len(reached) = Len(h)
    <3>1. Len(reached) \in Nat /\ DOMAIN reached = 1..Len(reached)
      BY <2>5, HistoryElements DEF Sound
    <3> QED
      BY <1>2, <2>5, <3>1
  <2> QED
    BY <1>2, <1>6, <2>3, <2>5, <2>7, <2>8 DEF EndLength
<1> QED
  BY <1>5, <1>6

LEMMA RevisionFacts ==
    ASSUME IInv, NEW q \in Sequences, phase = "revising", revision.seq = {q}
    PROVE  /\ q \in affected /\ HistoryOK(q)
           /\ Sound(history[q]) /\ CurrentEnd(history[q])
           /\ Len(history[q]) \in Nat /\ DOMAIN history[q] = 1..Len(history[q])
           /\ revision \in RevisionType
           /\ revision.at \in DOMAIN history[q] /\ revision.at \in Nat
           /\ revision.firstUnchanged \in Nat /\ revision.divergingEntry \in Nat
           /\ revision.at <= revision.firstUnchanged
           /\ revision.firstUnchanged <= Len(history[q]) + 1
           /\ FlagsWithin(history[q], revision.at, revision.firstUnchanged - 1)
<1>1. revision # NoRevision
  BY DEF NoRevision
<1>2. /\ q \in affected /\ revision.at \in DOMAIN history[q]
      /\ revision.at <= revision.firstUnchanged
      /\ revision.firstUnchanged <= Len(history[q]) + 1
      /\ revision \in RevisionType
  BY <1>1 DEF IInv, RevisionOK
<1>3. revision.at \in Nat /\ revision.firstUnchanged \in Nat /\ revision.divergingEntry \in Nat
  BY <1>2 DEF RevisionType
<1>4. HistoryOK(q)
  BY DEF IInv, HistoriesOK
<1>5. /\ Sound(history[q]) /\ CurrentEnd(history[q])
      /\ FlagsWithin(history[q], revision.at, revision.firstUnchanged - 1)
  BY <1>4 DEF HistoryOK, Placed, EndOK, Searched, Low, High, Revised
<1>6. Len(history[q]) \in Nat /\ DOMAIN history[q] = 1..Len(history[q])
  BY <1>5, HistoryElements DEF Sound
<1> QED
  BY <1>2, <1>3, <1>4, <1>5, <1>6

Ending(q, h, g) ==
    /\ history' = [history EXCEPT ![q] = g]
    /\ Sound(g) /\ CurrentEnd(g) /\ 1 \in DOMAIN g /\ DOMAIN g \subseteq DOMAIN h
    /\ Len(g) = EndLength(h, revision)
    /\ \A j \in DOMAIN g : /\ g[j].flags = {} /\ g[j].node = h[j].node
                           /\ g[j].state = h[j].state
    /\ \A j \in DOMAIN h \ DOMAIN g :
          j > revision.at /\ "TRANSITION" \in h[revision.at].flags

LEMMA EndRevisionHistory ==
    ASSUME IInv, NEW q \in Sequences, EndRevision(q),
           NEW h, h = history[q], NEW g, g = EndedHistory(h, revision)
    PROVE  Ending(q, h, g)
<1> DEFINE i == revision.at
           u == revision.firstUnchanged
<1>1. phase = "revising" /\ revision.seq = {q}
  BY DEF EndRevision
<1>2. /\ Sound(h) /\ CurrentEnd(h) /\ i \in DOMAIN h /\ u \in Nat /\ i <= u
      /\ FlagsWithin(h, i, u - 1)
  BY <1>1, RevisionFacts
<1>3. /\ i < u => h[i].state \in Terminal \/ h[i].action = NoAction
      /\ history' = [history EXCEPT ![q] = g]
  BY DEF EndRevision
<1>4. revision.at = i /\ revision.firstUnchanged = u
  OBVIOUS
<1> HIDE DEF i, u
<1>5. /\ Sound(g) /\ CurrentEnd(g) /\ 1 \in DOMAIN g /\ DOMAIN g \subseteq DOMAIN h
      /\ Len(g) = EndLength(h, revision)
      /\ \A j \in DOMAIN g : /\ g[j].flags = {} /\ g[j].node = h[j].node
                             /\ g[j].state = h[j].state
      /\ \A j \in DOMAIN h \ DOMAIN g : j > i /\ "TRANSITION" \in h[i].flags
  BY <1>2, <1>3, <1>4, EndedIsSound
<1> QED
  BY <1>3, <1>5 DEF i, Ending

LEMMA EndRevisionStep ==
    ASSUME IInv, NEW q \in Sequences, EndRevision(q) PROVE IInv'
<1> DEFINE h == history[q]
           g == EndedHistory(h, revision)
           r == revision
<1>1. /\ phase = "revising" /\ revision.seq = {q}
      /\ UNCHANGED <<options, phase, steps, belief, deleted, changeRoot, isAffectedMap, toFlag>>
      /\ revision' = NoRevision
      /\ affected' = affected \ {q}
      /\ affectedIdx' = [affectedIdx EXCEPT ![q] = NoRange]
  BY DEF EndRevision
<1>2. /\ history' = [history EXCEPT ![q] = g]
      /\ Sound(g) /\ CurrentEnd(g) /\ 1 \in DOMAIN g /\ DOMAIN g \subseteq DOMAIN h
      /\ Len(g) = EndLength(h, revision)
      /\ \A j \in DOMAIN g : /\ g[j].flags = {} /\ g[j].node = h[j].node
                             /\ g[j].state = h[j].state
  <2>1. Ending(q, h, g)
    BY EndRevisionHistory
  <2> HIDE DEF h, g
  <2> QED
    BY <2>1 DEF Ending
<1>3. /\ HistoryOK(q) /\ Placed(h, Nodes, belief)
      /\ h[r.at].node \in Nodes /\ r.at \in Nat /\ r.divergingEntry \in Nat
      /\ Len(h) \in Nat
  <2>1. HistoryOK(q) /\ r.at \in DOMAIN h /\ r.at \in Nat /\ r.divergingEntry \in Nat
        /\ Len(h) \in Nat
    BY <1>1, RevisionFacts
  <2> QED
    BY <2>1 DEF HistoryOK, Placed
<1>4. visits \in [Nodes -> Int] /\ continued \in [Nodes -> Int]
  BY DEF IInv, TreeOK
<1>5. Nodes \cup NodesOf(g) = Nodes /\ Len(g) \in Nat
  <2>1. \A j \in DOMAIN g : g[j].node \in Nodes
    BY <1>2, <1>3 DEF Placed
  <2>2. Len(g) \in Nat
    BY <1>2, HistoryElements DEF Sound
  <2> HIDE DEF g
  <2> QED
    BY <2>1, <2>2 DEF NodesOf
<1>6. visits' \in [Nodes -> Int]
  <2> DEFINE negated == IF NegatesEnd(h, r) THEN CountVisits(visits, h, -1, r.at) ELSE visits
             once == Extended(negated, g)
  <2>1. visits' = IF r.divergingEntry # 0 THEN CountVisits(once, g, 1, r.divergingEntry) ELSE once
    BY DEF EndRevision
  <2> HIDE DEF g, h, r
  <2>2. CountVisits(visits, h, -1, r.at) \in [Nodes -> Int]
    BY <1>3, <1>4, CountTypes
  <2>3. negated \in [Nodes -> Int]
    BY <1>4, <2>2
  <2> HIDE DEF negated
  <2>4. once \in [Nodes -> Int]
    <3>1. once \in [Nodes \cup NodesOf(g) -> Int]
      BY <2>3, ExtendedTypes
    <3> QED
      BY <1>5, <3>1
  <2> HIDE DEF once
  <2>5. CountVisits(once, g, 1, r.divergingEntry) \in [Nodes -> Int]
    BY <1>3, <1>5, <2>4, CountTypes
  <2> QED
    BY <2>1, <2>4, <2>5
<1>7. continued' \in [Nodes -> Int]
  <2> DEFINE count == IF EndsEarly(h, r) THEN ContinuationNegated(continued, h[r.at], r)
                                         ELSE continued
             negated == IF NegatesEnd(h, r) THEN CountContinuations(count, h, -1, r.at) ELSE count
             once == Extended(negated, g)
  <2>1. continued' = IF r.divergingEntry # 0
                     THEN CountContinuations(once, g, 1, r.divergingEntry) ELSE once
    BY DEF EndRevision
  <2> HIDE DEF g, h, r
  <2>2. count \in [Nodes -> Int]
    <3>1. ContinuationNegated(continued, h[r.at], r) \in [Nodes -> Int]
      BY <1>3, <1>4 DEF ContinuationNegated
    <3> QED
      BY <1>4, <3>1
  <2> HIDE DEF count
  <2>3. CountContinuations(count, h, -1, r.at) \in [Nodes -> Int]
    BY <1>3, <2>2, CountTypes
  <2>4. negated \in [Nodes -> Int]
    BY <2>2, <2>3
  <2> HIDE DEF negated
  <2>5. once \in [Nodes -> Int]
    <3>1. once \in [Nodes \cup NodesOf(g) -> Int]
      BY <2>4, ExtendedTypes
    <3> QED
      BY <1>5, <3>1
  <2> HIDE DEF once
  <2>6. CountContinuations(once, g, 1, r.divergingEntry) \in [Nodes -> Int]
    BY <1>3, <1>5, <2>5, CountTypes
  <2> QED
    BY <2>1, <2>5, <2>6
<1>8. Nodes' = Nodes
  BY <1>6 DEF Nodes
<1>9. ControlOK'
  BY <1>1 DEF IInv, ControlOK, Changing
<1>10. RevisionOK'
  BY <1>1, NoRevisionFields DEF RevisionOK
<1>11. TreeOK' /\ MapOK'
  BY <1>1, <1>6, <1>7, <1>8 DEF IInv, TreeOK, MapOK, Changing
<1>12. /\ DOMAIN history' = Sequences /\ DOMAIN affectedIdx' = Sequences
       /\ history'[q] = g /\ affectedIdx'[q] = NoRange
       /\ \A p \in Sequences : p # q => /\ history'[p] = history[p]
                                        /\ affectedIdx'[p] = affectedIdx[p]
                                        /\ p \in affected' <=> p \in affected
  BY <1>1, <1>2 DEF IInv, HistoriesOK
<1> HIDE DEF g, h
<1>13. HistoryOK(q)'
  <2>1. Placed(history[q], Nodes, belief)'
    <3>1. \A j \in DOMAIN g : g[j].node \in Nodes
      BY <1>2, <1>3 DEF Placed
    <3>2. AtOrBelow(belief, g[1].node)
      <4>1. h # <<>>
        BY <1>2
      <4> QED
        BY <1>2, <1>3, <4>1 DEF Placed
    <3> QED
      BY <1>1, <1>2, <1>8, <1>12, <3>1, <3>2 DEF Placed
  <2>2. EndOK(q)'
    BY <1>1, <1>2, <1>12 DEF EndOK, Searched
  <2>3. RangeOK(q)' /\ PastOK(q)'
    BY <1>1, <1>12, NoHistory DEF RangeOK, PastOK, RangeWithin
  <2>4. FlagsWithin(history[q], Low(q), High(q))'
    BY <1>2, <1>12 DEF FlagsWithin
  <2> QED
    BY <2>1, <2>2, <2>3, <2>4 DEF HistoryOK
<1>14. \A p \in Sequences : p # q => ~Searched(p) /\ ~Revised(p) /\ ~Searched(p)' /\ ~Revised(p)'
  BY <1>1 DEF NoRevision, Searched, Revised
<1>15. HistoriesOK'
  BY <1>1, <1>8, <1>12, <1>13, <1>14, OtherHistories DEF IInv
<1> QED
  BY <1>9, <1>10, <1>11, <1>15 DEF IInv

-----------------------------------------------------------------------------
(* A round of a revision. *)

LEMMA NextStates ==
    ASSUME NEW s \in States, NEW a \in Actions, NEW n \in Moves[s][a]
    PROVE  n \in States /\ \A o \in Observe[n] : o \in Observations
<1>1. Moves[s] \in [Actions -> SUBSET States]
  BY ChangeAssumption
<1>2. n \in States
  BY <1>1
<1> QED
  BY <1>2, ChangeAssumption

Round(q, h, i, n, flags, kept, g) ==
    /\ i \in 1..(Len(h) - 1) /\ i < revision.firstUnchanged
    /\ h[i].state \notin Terminal
    /\ n \in States
    /\ IF "TRANSITION" \in h[i].flags THEN n \in Moves[h[i].state][h[i].action]
                                      ELSE n = h[i + 1].state
    /\ Revises(h, i, flags, kept, n, g)
    /\ \/ kept \in Observe[n]
       \/ /\ kept = h[i].observation
          /\ n # h[i + 1].state => \E p \in Observe[n] : Cell[p] # Cell[kept]
    /\ history' = [history EXCEPT ![q] = g]
    /\ revision' \in RevisionType /\ revision'.seq = {q} /\ revision'.at = i + 1
    /\ revision'.firstUnchanged =
          IF n # h[i + 1].state /\ i + 1 = revision.firstUnchanged
          THEN revision.firstUnchanged + 1 ELSE revision.firstUnchanged
    /\ \/ /\ revision'.divergingEntry = revision.divergingEntry
          /\ visits' = Extended(visits, g) /\ continued' = Extended(continued, g)
       \/ /\ revision.divergingEntry = 0 /\ revision'.divergingEntry = i
          /\ visits' = Extended(CountVisits(visits, h, -1, i), g)
          /\ continued' = Extended(CountContinuations(continued, h, -1, i), g)

LEMMA ReviseEntryHistory ==
    ASSUME IInv, NEW q \in Sequences, ReviseEntry(q)
    PROVE  \E n, flags, kept, g : Round(q, history[q], revision.at, n, flags, kept, g)
<1> DEFINE h == history[q]
           i == revision.at
<1>1. phase = "revising" /\ revision.seq = {q}
  BY DEF ReviseEntry
<1>2. /\ Sound(h) /\ DOMAIN h = 1..Len(h) /\ Len(h) \in Nat
      /\ i \in DOMAIN h /\ i \in Nat /\ revision \in RevisionType
      /\ revision.firstUnchanged \in Nat /\ revision.divergingEntry \in Nat
  BY <1>1, RevisionFacts
<1>3. i < revision.firstUnchanged /\ h[i].state \notin Terminal /\ h[i].action # NoAction
  BY DEF ReviseEntry
<1>4. i \in 1..(Len(h) - 1) /\ h[i].action \in Actions /\ h[i].observation \in Observations
  BY <1>2, <1>3 DEF Sound, HistoryTyped
<1>5. h[i + 1].node = Child(h[i].node, h[i].action, h[i].observation)
  BY <1>2, <1>4, StraightSteps DEF Sound
<1>6. PICK n \in IF "TRANSITION" \in h[i].flags THEN Moves[h[i].state][h[i].action]
                                               ELSE {h[i + 1].state} :
        LET moved == n # h[i + 1].state
            flags == IF moved THEN h[i].flags \cup {"OBSERVATION", "REWARD"} ELSE h[i].flags
        IN \E o \in IF "OBSERVATION" \in flags THEN Observe[n] ELSE {h[i].observation} :
           LET replaced == "OBSERVATION" \in flags /\ TakenForDivergence(h[i].observation, o)
               negated == replaced /\ revision.divergingEntry = 0
               diverging == IF negated THEN i ELSE revision.divergingEntry
               kept == IF replaced THEN o ELSE h[i].observation
               node == IF diverging # 0 THEN NextNode(h[i], kept) ELSE h[i + 1].node
               revised == [h EXCEPT ![i] = RevisedEntry(h[i], flags, kept, n),
                                    ![i + 1] = NextEntry(h[i + 1], n, node)]
           IN /\ history' = [history EXCEPT ![q] = revised]
              /\ visits' = Extended(IF negated THEN CountVisits(visits, h, -1, i)
                                               ELSE visits, revised)
              /\ continued' = Extended(IF negated THEN CountContinuations(continued, h, -1, i)
                                                  ELSE continued, revised)
              /\ revision' = [revision EXCEPT !.at = Advanced(i, diverging),
                                 !.divergingEntry = diverging,
                                 !.firstUnchanged = RangeEnd(revision, moved)]
  BY DEF ReviseEntry
<1>7. n \in States /\ \A o \in Observe[n] : o \in Observations
  <2>1. h[i].state \in States /\ h[i + 1].state \in States
    BY <1>2, <1>4, HistoryElements, EntryFields DEF Sound
  <2>2. CASE "TRANSITION" \in h[i].flags
    BY <1>4, <1>6, <2>1, <2>2, NextStates
  <2>3. CASE "TRANSITION" \notin h[i].flags
    BY <1>6, <2>1, <2>3, ChangeAssumption
  <2> QED
    BY <2>2, <2>3
<1> DEFINE flags == IF n # h[i + 1].state THEN h[i].flags \cup {"OBSERVATION", "REWARD"}
                                          ELSE h[i].flags
           end == IF n # h[i + 1].state /\ i + 1 = revision.firstUnchanged
                  THEN revision.firstUnchanged + 1 ELSE revision.firstUnchanged
<1>8. PICK o \in IF "OBSERVATION" \in flags THEN Observe[n] ELSE {h[i].observation} :
        LET replaced == "OBSERVATION" \in flags /\ TakenForDivergence(h[i].observation, o)
            negated == replaced /\ revision.divergingEntry = 0
            diverging == IF negated THEN i ELSE revision.divergingEntry
            kept == IF replaced THEN o ELSE h[i].observation
            node == IF diverging # 0 THEN NextNode(h[i], kept) ELSE h[i + 1].node
            revised == [h EXCEPT ![i] = RevisedEntry(h[i], flags, kept, n),
                                 ![i + 1] = NextEntry(h[i + 1], n, node)]
        IN /\ history' = [history EXCEPT ![q] = revised]
           /\ visits' = Extended(IF negated THEN CountVisits(visits, h, -1, i)
                                            ELSE visits, revised)
           /\ continued' = Extended(IF negated THEN CountContinuations(continued, h, -1, i)
                                               ELSE continued, revised)
           /\ revision' = [revision EXCEPT !.at = Advanced(i, diverging),
                              !.divergingEntry = diverging,
                              !.firstUnchanged = end]
  BY <1>6 DEF RangeEnd
<1> HIDE DEF flags, end
<1> DEFINE diverging == IF /\ "OBSERVATION" \in flags /\ TakenForDivergence(h[i].observation, o)
                           /\ revision.divergingEntry = 0
                        THEN i ELSE revision.divergingEntry
           kept == IF "OBSERVATION" \in flags /\ TakenForDivergence(h[i].observation, o)
                   THEN o ELSE h[i].observation
           node == IF diverging # 0 THEN NextNode(h[i], kept) ELSE h[i + 1].node
           g == [h EXCEPT ![i] = RevisedEntry(h[i], flags, kept, n),
                          ![i + 1] = NextEntry(h[i + 1], n, node)]
<1>9. history' = [history EXCEPT ![q] = g]
  BY <1>8
<1>10. revision' = [revision EXCEPT !.at = i + 1, !.divergingEntry = diverging,
                                    !.firstUnchanged = end]
  BY <1>8 DEF Advanced
<1> DEFINE negated == /\ "OBSERVATION" \in flags /\ TakenForDivergence(h[i].observation, o)
                      /\ revision.divergingEntry = 0
<1>11. /\ visits' = Extended(IF negated THEN CountVisits(visits, h, -1, i) ELSE visits, g)
       /\ continued' = Extended(IF negated THEN CountContinuations(continued, h, -1, i)
                                           ELSE continued, g)
  BY <1>8
<1>12. negated <=> diverging # revision.divergingEntry
  <2>1. i # 0 /\ diverging = IF negated THEN i ELSE revision.divergingEntry
    BY <1>4
  <2>2. negated => revision.divergingEntry = 0
    OBVIOUS
  <2> HIDE DEF negated, diverging, i
  <2> QED
    BY <2>1, <2>2
<1>13. kept \in Observations /\ Cell[kept] = Cell[h[i].observation]
  BY <1>4, <1>7, <1>8 DEF TakenForDivergence
<1>14. \/ kept \in Observe[n]
       \/ /\ kept = h[i].observation
          /\ n # h[i + 1].state => \E p \in Observe[n] : Cell[p] # Cell[kept]
  <2>1. CASE "OBSERVATION" \in flags
    <3>1. o \in Observe[n]
      BY <1>8, <2>1
    <3>2. kept = IF Cell[h[i].observation] = Cell[o] THEN o ELSE h[i].observation
      BY <2>1 DEF TakenForDivergence
    <3> HIDE DEF kept
    <3> QED
      BY <3>1, <3>2
  <2>2. CASE "OBSERVATION" \notin flags
    <3>1. kept = h[i].observation
      BY <2>2
    <3>2. n = h[i + 1].state
      BY <2>2 DEF flags
    <3> QED
      BY <3>1, <3>2
  <2> QED
    BY <2>1, <2>2
<1>15. /\ diverging \in Nat /\ end \in Nat
       /\ diverging # revision.divergingEntry => diverging = i /\ revision.divergingEntry = 0
  BY <1>2 DEF end
<1> HIDE DEF kept, diverging, negated
<1>16. node = h[i + 1].node
  BY <1>5, <1>13 DEF NextNode, Child
<1> HIDE DEF node
<1>17. Revises(h, i, flags, kept, n, g)
  BY <1>13, <1>16 DEF Revises, flags
<1>18. IF "TRANSITION" \in h[i].flags THEN n \in Moves[h[i].state][h[i].action]
                                      ELSE n = h[i + 1].state
  BY <1>6
<1>19. /\ revision' \in RevisionType /\ revision'.seq = {q} /\ revision'.at = i + 1
       /\ revision'.firstUnchanged = end /\ revision'.divergingEntry = diverging
  <2>1. revision \in RevisionType /\ revision.seq = {q} /\ i + 1 \in Nat
    BY <1>1, <1>2
  <2> HIDE DEF i
  <2>2. /\ revision'.seq = {q} /\ revision'.at = i + 1 /\ revision'.firstUnchanged = end
        /\ revision'.divergingEntry = diverging
        /\ revision' = [seq |-> revision.seq, at |-> i + 1, firstUnchanged |-> end,
                        divergingEntry |-> diverging]
    BY <1>10, <2>1 DEF RevisionType
  <2>3. revision' \in RevisionType
    BY <1>15, <2>1, <2>2 DEF RevisionType
  <2> QED
    BY <2>2, <2>3
<1> HIDE DEF g, h, i
<1>20. \/ /\ revision'.divergingEntry = revision.divergingEntry
          /\ visits' = Extended(visits, g) /\ continued' = Extended(continued, g)
       \/ /\ revision.divergingEntry = 0 /\ revision'.divergingEntry = i
          /\ visits' = Extended(CountVisits(visits, h, -1, i), g)
          /\ continued' = Extended(CountContinuations(continued, h, -1, i), g)
  BY <1>11, <1>12, <1>15, <1>19
<1>21. Round(q, h, i, n, flags, kept, g)
  BY <1>3, <1>4, <1>7, <1>9, <1>17, <1>18, <1>19, <1>20, <1>14 DEF end, Round
<1> QED
  BY <1>21 DEF h, i

LEMMA ReviseEntryStep ==
    ASSUME IInv, NEW q \in Sequences, ReviseEntry(q) PROVE IInv'
<1> DEFINE h == history[q]
           i == revision.at
           u == revision.firstUnchanged
           v == revision'.firstUnchanged
<1>1. /\ phase = "revising" /\ revision.seq = {q}
      /\ UNCHANGED <<options, phase, steps, belief, affectedIdx, changeVars>>
  BY DEF ReviseEntry
<1>2. PICK n, flags, kept, g : Round(q, h, i, n, flags, kept, g)
  BY ReviseEntryHistory
<1>3. /\ q \in affected /\ HistoryOK(q) /\ Sound(h) /\ CurrentEnd(h)
      /\ Len(h) \in Nat /\ DOMAIN h = 1..Len(h)
      /\ i \in Nat /\ i <= u /\ u \in Nat /\ u <= Len(h) + 1
      /\ FlagsWithin(h, i, u - 1)
  BY <1>1, RevisionFacts
<1>4. /\ i \in 1..(Len(h) - 1) /\ i < u /\ h[i].state \notin Terminal /\ n \in States
      /\ IF "TRANSITION" \in h[i].flags THEN n \in Moves[h[i].state][h[i].action]
                                        ELSE n = h[i + 1].state
      /\ Revises(h, i, flags, kept, n, g)
  BY <1>2 DEF Round
<1>5. /\ history' = [history EXCEPT ![q] = g]
      /\ revision' \in RevisionType /\ revision'.seq = {q} /\ revision'.at = i + 1
      /\ v = IF n # h[i + 1].state /\ i + 1 = u THEN u + 1 ELSE u
  <2> HIDE DEF h, i
  <2> QED
    BY <1>2 DEF Round
<1> HIDE DEF u, v
<1>6. i \in DOMAIN h /\ i + 1 \in DOMAIN h /\ i + 1 <= v /\ v <= Len(h) + 1 /\ v \in Nat /\ u <= v
  BY <1>3, <1>4, <1>5
<1>7. /\ Sound(g) /\ CurrentEnd(g) /\ Len(g) = Len(h) /\ DOMAIN g = DOMAIN h
      /\ \A j \in DOMAIN h : g[j].node = h[j].node
      /\ \A j \in DOMAIN h : j # i /\ j # i + 1 => g[j] = h[j]
      /\ g[i].state = h[i].state /\ g[i].flags = {}
      /\ g[i + 1].flags = IF n = h[i + 1].state THEN h[i + 1].flags ELSE Moved
  <2> HIDE DEF h, i
  <2>1. /\ Sound(h) /\ CurrentEnd(h) /\ i \in 1..(Len(h) - 1)
        /\ h[i].state \notin Terminal /\ n \in States
    BY <1>3, <1>4
  <2>2. /\ IF "TRANSITION" \in h[i].flags THEN n \in Moves[h[i].state][h[i].action]
                                           ELSE n = h[i + 1].state
        /\ Revises(h, i, flags, kept, n, g)
    BY <1>4
  <2> QED
    BY <2>1, <2>2, RevisedIsSound
<1>8. Nodes \cup NodesOf(g) = Nodes
  BY <1>3, <1>7 DEF HistoryOK, Placed, NodesOf
<1>9. visits \in [Nodes -> Int] /\ continued \in [Nodes -> Int]
  BY DEF IInv, TreeOK
<1>10. visits' \in [Nodes -> Int]
  <2>1. CountVisits(visits, h, -1, i) \in [Nodes -> Int]
    <3>1. Len(h) \in Nat /\ i \in Nat /\ -1 \in Int
      BY <1>3
    <3> HIDE DEF h, i
    <3> QED
      BY <1>9, <3>1, CountTypes
  <2>2. \E count : count \in {visits, CountVisits(visits, h, -1, i)} /\ visits' = Extended(count, g)
    BY <1>2 DEF Round
  <2>3. PICK count \in [Nodes -> Int] : visits' = Extended(count, g)
    BY <1>9, <2>1, <2>2
  <2>4. visits' \in [Nodes \cup NodesOf(g) -> Int]
    BY <2>3, ExtendedTypes
  <2> QED
    BY <1>8, <2>4
<1>11. continued' \in [Nodes -> Int]
  <2>1. CountContinuations(continued, h, -1, i) \in [Nodes -> Int]
    <3>1. Len(h) \in Nat /\ i \in Nat /\ -1 \in Int
      BY <1>3
    <3> HIDE DEF h, i
    <3> QED
      BY <1>9, <3>1, CountTypes
  <2>2. \E count : /\ count \in {continued, CountContinuations(continued, h, -1, i)}
                   /\ continued' = Extended(count, g)
    BY <1>2 DEF Round
  <2>3. PICK count \in [Nodes -> Int] : continued' = Extended(count, g)
    BY <1>9, <2>1, <2>2
  <2>4. continued' \in [Nodes \cup NodesOf(g) -> Int]
    BY <2>3, ExtendedTypes
  <2> QED
    BY <1>8, <2>4
<1>12. Nodes' = Nodes
  BY <1>10 DEF Nodes
<1>13. ControlOK'
  BY <1>1 DEF IInv, ControlOK, Changing, changeVars
<1>14. /\ DOMAIN history' = Sequences /\ DOMAIN affectedIdx' = Sequences /\ history'[q] = g
       /\ \A p \in Sequences : p # q => /\ history'[p] = history[p]
                                        /\ affectedIdx'[p] = affectedIdx[p]
                                        /\ p \in affected' <=> p \in affected
       /\ affectedIdx'[q] = affectedIdx[q] /\ affected' = affected /\ changeRoot' = changeRoot
  BY <1>1, <1>5 DEF IInv, HistoriesOK, changeVars
<1>15. RevisionOK'
  <2>1. /\ revision'.at \in DOMAIN history'[q] /\ revision'.at <= revision'.firstUnchanged
        /\ revision'.firstUnchanged <= Len(history'[q]) + 1
    BY <1>5, <1>6, <1>7, <1>14 DEF v
  <2> QED
    BY <1>1, <1>3, <1>5, <1>14, <2>1 DEF RevisionOK
<1>16. TreeOK' /\ MapOK'
  BY <1>1, <1>10, <1>11, <1>12 DEF IInv, TreeOK, MapOK, Changing, changeVars
<1>17. FlagsWithin(g, i + 1, v - 1)
  <2> SUFFICES ASSUME NEW j \in DOMAIN h, g[j].flags # {}
               PROVE  i + 1 <= j /\ j <= v - 1
    BY <1>7 DEF FlagsWithin
  <2> HIDE DEF h, i
  <2>1. CASE j = i
    BY <1>7, <2>1
  <2>2. CASE j = i + 1
    <3>1. CASE n = h[i + 1].state
      <4>1. h[j].flags # {}
        BY <1>7, <2>2, <3>1
      <4>2. j <= u - 1
        BY <1>3, <4>1 DEF FlagsWithin
      <4> QED
        BY <1>3, <1>5, <2>2, <3>1, <4>2
    <3>2. CASE n # h[i + 1].state
      BY <1>3, <1>4, <1>5, <2>2, <3>2
    <3> QED
      BY <3>1, <3>2
  <2>3. CASE j # i /\ j # i + 1
    <3>1. h[j].flags # {}
      BY <1>7, <2>3
    <3>2. i <= j /\ j <= u - 1 /\ j \in Nat
      BY <1>3, <3>1 DEF FlagsWithin
    <3> QED
      BY <1>3, <1>6, <2>3, <3>2
  <2> QED
    BY <2>1, <2>2, <2>3
<1>18. ASSUME NEW r \in changeRoot PROVE PastKept(g, r) /\ Through(g, r)
  <2>1. PastKept(h, r) /\ Through(h, r)
    BY <1>3, <1>18 DEF HistoryOK, PastOK
  <2>2. Through(g, r)
    BY <1>7, <2>1 DEF Through
  <2>3. Len(r) \in Nat
    BY <1>18 DEF IInv, TreeOK
  <2>4. ASSUME NEW j \in 1..(Len(h) - 1), "TRANSITION" \in g[j].flags
        PROVE  Len(g[j + 1].node) > Len(r)
    <3>1. j \in DOMAIN h /\ j + 1 \in DOMAIN h /\ j \in Nat
      BY <1>3
    <3>2. g[j + 1].node = h[j + 1].node
      BY <1>7, <3>1
    <3> HIDE DEF h, i
    <3>3. CASE "TRANSITION" \in h[j].flags
      BY <2>1, <3>2, <3>3 DEF PastKept
    <3>4. CASE "TRANSITION" \notin h[j].flags
      <4>1. j = i + 1 /\ n # h[i + 1].state
        BY <1>7, <2>4, <3>1, <3>4
      <4>2. Len(h[i + 1].node) > Len(r)
        BY <1>4, <2>1, <4>1 DEF PastKept
      <4>3. Len(h[j + 1].node) = Len(h[j].node) + (j + 1 - j)
        <5>1. j <= j + 1 /\ HistoryTyped(h) /\ Straight(h)
          BY <1>3, <3>1 DEF Sound
        <5> QED
          BY <3>1, <5>1, StraightPrefixes
      <4>4. Len(h[j].node) \in Nat
        BY <1>3, <3>1, HistoryElements DEF Sound
      <4> QED
        BY <2>3, <3>1, <3>2, <4>1, <4>2, <4>3, <4>4
    <3> QED
      BY <3>3, <3>4
  <2> QED
    BY <1>7, <2>2, <2>4 DEF PastKept
<1>19. HistoryOK(q)'
  <2>1. Placed(history[q], Nodes, belief)'
    <3>1. Placed(h, Nodes, belief)
      BY <1>3 DEF HistoryOK
    <3>2. 1 \in DOMAIN h /\ h # <<>>
      BY <1>3, <1>6
    <3> HIDE DEF h, i
    <3>3. \A j \in DOMAIN g : g[j].node \in Nodes
      BY <1>7, <3>1 DEF Placed
    <3>4. AtOrBelow(belief, g[1].node)
      BY <1>7, <3>1, <3>2 DEF Placed
    <3> QED
      BY <1>1, <1>7, <1>12, <1>14, <3>3, <3>4 DEF Placed
  <2>2. EndOK(q)'
    BY <1>1, <1>7, <1>14 DEF EndOK, Searched
  <2>3. RangeOK(q)'
    BY <1>3, <1>7, <1>14 DEF HistoryOK, RangeOK
  <2>4. PastOK(q)'
    BY <1>14, <1>18 DEF PastOK
  <2>5. FlagsWithin(history[q], Low(q), High(q))'
    BY <1>1, <1>5, <1>14, <1>17 DEF Low, High, Revised, v
  <2> QED
    BY <2>1, <2>2, <2>3, <2>4, <2>5 DEF HistoryOK
<1>20. \A p \in Sequences : p # q => ~Searched(p) /\ ~Revised(p) /\ ~Searched(p)' /\ ~Revised(p)'
  BY <1>1, <1>5 DEF Searched, Revised
<1>21. HistoriesOK'
  <2>1. belief' = belief /\ Nodes \subseteq Nodes' /\ HistoriesOK
    BY <1>1, <1>12 DEF IInv
  <2> QED
    BY <1>14, <1>19, <1>20, <2>1, OtherHistories
<1> QED
  BY <1>13, <1>15, <1>16, <1>21 DEF IInv

-----------------------------------------------------------------------------
(* A step of a search. *)

LEMMA TakenEntry ==
    ASSUME NEW e \in EntryType, NEW a \in Actions, NEW n \in States, NEW o \in Observations,
           NEW x, x = Taken(e, a, n, o)
    PROVE  /\ x \in EntryType
           /\ x.state = e.state /\ x.node = e.node /\ x.action = a /\ x.observation = o
           /\ x.value = Reward(e.state, a, n) /\ x.flags = e.flags
<1> DEFINE v == Reward(e.state, a, n)
<1>1. v \in Values
  BY EntryFields DEF Reward, Values
<1>2. x = [e EXCEPT !.action = a, !.observation = o, !.value = v]
  BY DEF Taken
<1> HIDE DEF v
<1>3. x = [state |-> e.state, node |-> e.node, action |-> a, observation |-> o, value |-> v,
           flags |-> e.flags]
  BY <1>2 DEF EntryType
<1>4. e.state \in States /\ e.node \in Paths /\ e.flags \in SUBSET Flags
  BY DEF EntryType
<1>5. x \in EntryType
  BY <1>1, <1>3, <1>4 DEF EntryType
<1> QED
  BY <1>3, <1>5 DEF v

LEMMA ArrivedEntry ==
    ASSUME NEW e \in EntryType, NEW a \in Actions, NEW n \in States, NEW o \in Observations,
           NEW v \in Values, NEW y, y = Arrived(e, a, n, o, v)
    PROVE  /\ y \in EntryType /\ y.state = n /\ y.node = Child(e.node, a, o)
           /\ y.node \in Seq(Steps) /\ y.action = NoAction /\ y.flags = {} /\ y.value = v
<1> DEFINE node == Child(e.node, a, o)
<1>1. node \in Seq(Steps)
  <2>1. <<a, Cell[o]>> \in Steps /\ e.node \in Seq(Steps)
    BY EntryFields, ChangeAssumption DEF Steps, Range
  <2> QED
    BY <2>1 DEF Child
<1>2. y = [LastEntry(n, node) EXCEPT !.value = v]
  BY DEF Arrived
<1> HIDE DEF node
<1>3. y = [state |-> n, node |-> node, action |-> NoAction, observation |-> NoObservation,
           value |-> v, flags |-> {}]
  BY <1>2 DEF LastEntry
<1>4. node \in Paths
  BY <1>1 DEF Paths, Steps
<1>5. y \in EntryType
  <2>1. /\ NoAction \in Actions \cup {NoAction} /\ {} \in SUBSET Flags
        /\ NoObservation \in Observations \cup {NoObservation}
    OBVIOUS
  <2>2. [state |-> n, node |-> node, action |-> NoAction, observation |-> NoObservation,
         value |-> v, flags |-> {}] \in EntryType
    BY <1>4, <2>1 DEF EntryType
  <2> QED
    BY <1>3, <2>2
<1> QED
  BY <1>1, <1>3, <1>5 DEF node

LEMMA Unflagged ==
    ASSUME NEW q \in Sequences, HistoryOK(q), q \notin affected, ~Revised(q)
    PROVE  /\ affectedIdx[q] = NoRange
           /\ \A j \in DOMAIN history[q] : history[q][j].flags = {}
<1>1. affectedIdx[q] = NoRange
  BY DEF HistoryOK, RangeOK
<1>2. FlagsWithin(history[q], NoRange.start, NoRange.end)
  BY <1>1 DEF HistoryOK, Low, High
<1>3. \A j \in DOMAIN history[q] : j \in Nat /\ 1 <= j
  BY HistoryElements DEF HistoryOK, Placed, Sound
<1>4. NoRange.end = 0
  BY DEF NoRange
<1> QED
  BY <1>1, <1>2, <1>3, <1>4 DEF FlagsWithin

LEMMA SearchHistory ==
    ASSUME NEW h, Sound(h), Growing(h), \A j \in DOMAIN h : h[j].flags = {},
           NEW a \in Actions, NEW n \in Moves[h[Len(h)].state][a], NEW o \in Observe[n],
           NEW v \in Values, NEW g, g = Longer(h, a, n, o, v)
    PROVE  /\ Sound(g) /\ Len(g) = Len(h) + 1 /\ DOMAIN g = 1..(Len(h) + 1) /\ Len(h) \in Nat
           /\ \A j \in 1..Len(h) : g[j].node = h[j].node
           /\ Len(h) \in DOMAIN h /\ g[Len(h) + 1].node \in Seq(Steps)
           /\ \A j \in DOMAIN g : g[j].flags = {}
           /\ v = Heuristic(n) => CurrentEnd(g)
           /\ n \notin Terminal /\ ~AtDepthLimit(h) => Growing(g)
<1> DEFINE k == Len(h)
           e == h[k]
           y == Arrived(e, a, n, o, v)
           x == Taken(e, a, n, o)
           b == [h EXCEPT ![k] = x]
<1>1. /\ k \in 1..MaximumDepth /\ k \in Nat /\ e.state \notin Terminal /\ k \in DOMAIN h
      /\ e \in EntryType /\ e.node \in Seq(Steps) /\ e.state \in States /\ e.flags = {}
  <2>1. k \in 1..MaximumDepth /\ e.state \notin Terminal
    BY DEF Growing
  <2>2. k \in DOMAIN h /\ k \in Nat
    BY <2>1, HistoryElements, ChangeAssumption DEF Sound
  <2>3. e \in EntryType /\ e.flags = {}
    BY <2>2, HistoryElements DEF Sound
  <2> QED
    BY <2>1, <2>2, <2>3, EntryFields
<1>2. n \in States /\ o \in Observations
  BY <1>1, NextStates
<1>3. k = Len(h) /\ e = h[k] /\ b = [h EXCEPT ![k] = x]
  OBVIOUS
<1>4. g = b \o <<y>>
  BY DEF Longer
<1> HIDE DEF k, e, b
<1>5. /\ y \in EntryType /\ y.state = n /\ y.node = Child(e.node, a, o)
      /\ y.node \in Seq(Steps) /\ y.action = NoAction /\ y.flags = {} /\ y.value = v
  BY <1>1, <1>2, ArrivedEntry
<1>6. /\ x \in EntryType /\ x.state = e.state /\ x.node = e.node /\ x.action = a
      /\ x.observation = o /\ x.value = Reward(e.state, a, n) /\ x.flags = e.flags
  BY <1>1, <1>2, TakenEntry
<1> HIDE DEF x, y
<1>7. /\ x \in EntryType /\ x.state = h[k].state /\ x.node = h[k].node /\ x.action = a
      /\ x.observation = o /\ x.value = Reward(h[k].state, a, n) /\ x.flags = {}
      /\ y \in EntryType /\ y.state = n /\ y.node = Child(h[k].node, a, o)
      /\ y.action = NoAction /\ y.flags = {}
      /\ n \in Moves[h[k].state][a] /\ h[k].state \notin Terminal
  BY <1>1, <1>3, <1>5, <1>6
<1>8. /\ HistoryTyped(h) /\ Straight(h) /\ CurrentSteps(h) /\ LiveInside(h)
      /\ DOMAIN h = 1..k /\ k \in Nat /\ k >= 1 /\ k <= MaximumDepth /\ MaximumDepth \in Nat
      /\ \A j \in 1..k : h[j] \in EntryType
      /\ h[k].node \in Seq(Steps)
  BY <1>1, <1>3, HistoryElements, ChangeAssumption DEF Sound
<1>9. /\ DOMAIN b = 1..k /\ b[k] = x /\ b = [j \in 1..k |-> b[j]]
      /\ \A j \in 1..k : j # k => b[j] = h[j]
  <2>1. DOMAIN h = 1..k /\ k \in DOMAIN h
    BY <1>8
  <2>2. b = [j \in DOMAIN h |-> IF j = k THEN x ELSE h[j]]
    BY <1>3
  <2>3. b = [j \in 1..k |-> IF j = k THEN x ELSE h[j]]
    BY <2>1, <2>2
  <2>4. b = [j \in 1..k |-> b[j]]
    BY <2>3
  <2> QED
    BY <2>1, <2>3, <2>4
<1>10. b \in Seq(EntryType) /\ Len(b) = k
  <2>1. b \in [1..k -> EntryType]
    BY <1>7, <1>8, <1>9
  <2> QED
    BY <1>8, <2>1
<1>11. /\ g \in Seq(EntryType) /\ Len(g) = k + 1 /\ DOMAIN g = 1..(k + 1)
      /\ \A j \in 1..k : g[j] = b[j]
      /\ g[k + 1] = y
  <2>1. /\ g \in Seq(EntryType) /\ Len(g) = Len(b) + 1 /\ DOMAIN g = 1..(Len(b) + 1)
        /\ \A j \in 1..Len(b) : g[j] = b[j]
        /\ g[Len(b) + 1] = y
    <3>1. b \in Seq(EntryType) /\ y \in EntryType /\ g = b \o <<y>>
      BY <1>4, <1>7, <1>10
    <3> QED
      BY <3>1, OneMore
  <2> QED
    BY <1>10, <2>1
<1>12. g[k] = x /\ \A j \in 1..(k - 1) : g[j] = h[j]
  <2>1. k \in 1..k /\ \A j \in 1..(k - 1) : j \in 1..k /\ j # k
    BY <1>8
  <2> QED
    BY <1>9, <1>11, <2>1
<1>13. \A j \in 1..(k + 1) : j = k + 1 \/ j = k \/ j \in 1..(k - 1)
  BY <1>8
<1>14. \A j \in 1..(k - 1) : j \in 1..k /\ j # k /\ j < k + 1 /\ j < k
  BY <1>8
<1>15. \A j \in 1..k : g[j].node = h[j].node
  <2>1. \A j \in 1..k : j = k \/ j \in 1..(k - 1)
    BY <1>8
  <2> QED
    BY <1>7, <1>12, <2>1
<1>16. \A j \in DOMAIN g : g[j].flags = {}
  BY <1>7, <1>8, <1>11, <1>12, <1>13, <1>14
<1>17. HistoryTyped(g)
  <2>1. \A j \in 1..(k - 1) : h[j].action \in Actions /\ h[j].observation \in Observations
    BY <1>8, <1>14 DEF HistoryTyped
  <2>2. ASSUME NEW j \in 1..(k + 1)
        PROVE  IF j < k + 1 THEN g[j].action \in Actions /\ g[j].observation \in Observations
                            ELSE g[j].action = NoAction
    <3>1. CASE j = k + 1
      BY <1>7, <1>8, <1>11, <3>1
    <3>2. CASE j = k
      BY <1>2, <1>7, <1>8, <1>12, <3>2
    <3>3. CASE j \in 1..(k - 1)
      BY <1>12, <1>14, <2>1, <3>3
    <3> QED
      BY <1>13, <3>1, <3>2, <3>3
  <2>3. k + 1 <= MaximumDepth + 1
    BY <1>8
  <2> QED
    BY <1>11, <2>2, <2>3 DEF HistoryTyped
<1>18. Straight(g)
  <2> DEFINE step == <<a, Cell[o]>>
  <2>1. step \in Steps /\ step = StepOf(g, k)
    <3>1. Cell[o] \in Range(Cell)
      BY <1>2, ChangeAssumption DEF Range
    <3> QED
      BY <1>7, <1>12, <3>1 DEF Steps, StepOf
  <2>2. g[k + 1].node = Append(h[k].node, step)
    <3>1. g[k + 1].node = Child(h[k].node, a, o)
      <4>1. g[k + 1] = y
        BY <1>8, <1>11
      <4> QED
        BY <1>7, <4>1
    <3> QED
      BY <3>1 DEF Child
  <2>3. \A j \in 1..(k - 1) : StepOf(g, j) = StepOf(h, j)
    BY <1>12 DEF StepOf
  <2>4. k \in Nat /\ k = Len(h) /\ k > 0
    BY <1>8
  <2> HIDE DEF step
  <2> QED
    <3>1. HistoryTyped(h) /\ Straight(h) /\ DOMAIN g = 1..(k + 1)
      BY <1>8, <1>11
    <3> QED
      BY <1>15, <2>1, <2>2, <2>3, <2>4, <3>1, StraightExtends
<1>19. ASSUME NEW j \in 1..k
       PROVE  /\ g[j + 1].state \in Moves[g[j].state][g[j].action]
              /\ g[j].value = Reward(g[j].state, g[j].action, g[j + 1].state)
              /\ g[j].state \notin Terminal
  <2>1. CASE j = k
    BY <1>7, <1>11, <1>12, <2>1
  <2>2. CASE j # k
    <3>1. j \in 1..(k - 1) /\ j + 1 \in 1..k
      BY <1>8, <2>2
    <3>2. g[j + 1].state = h[j + 1].state
      <4>1. CASE j + 1 = k
        BY <1>7, <1>12, <4>1
      <4>2. CASE j + 1 # k
        BY <1>9, <1>11, <3>1, <4>2
      <4> QED
        BY <4>1, <4>2
    <3>3. /\ h[j + 1].state \in Moves[h[j].state][h[j].action]
          /\ h[j].value = Reward(h[j].state, h[j].action, h[j + 1].state)
          /\ h[j].state \notin Terminal
      BY <1>8, <1>14, <3>1 DEF CurrentSteps, LiveInside
    <3> QED
      BY <1>12, <3>1, <3>2, <3>3
  <2> QED
    BY <2>1, <2>2
<1>20. CurrentSteps(g) /\ LiveInside(g)
  <2>1. 1..(Len(g) - 1) = 1..k
    BY <1>8, <1>11
  <2> QED
    BY <1>19, <2>1 DEF CurrentSteps, LiveInside
<1>21. v = Heuristic(n) => CurrentEnd(g)
  BY <1>5, <1>8, <1>11 DEF CurrentEnd
<1>22. n \notin Terminal /\ ~AtDepthLimit(h) => Growing(g)
  <2> SUFFICES ASSUME n \notin Terminal, ~AtDepthLimit(h) PROVE Growing(g)
    OBVIOUS
  <2>1. ~(k >= MaximumDepth)
    BY <1>3 DEF AtDepthLimit
  <2>2. k + 1 \in 1..MaximumDepth
    BY <1>1, <2>1, ChangeAssumption
  <2> QED
    <3>1. g[Len(g)].state = n
      <4>1. g[k + 1] = y /\ Len(g) = k + 1
        BY <1>8, <1>11
      <4> QED
        BY <1>7, <4>1
    <3> QED
      BY <1>11, <2>1, <2>2, <3>1 DEF Growing
<1>23. Sound(g)
  BY <1>17, <1>18, <1>20 DEF Sound
<1> QED
  BY <1>1, <1>3, <1>5, <1>11, <1>15, <1>16, <1>21, <1>22, <1>23

(* The two outcomes of a step of a search. *)
GoesOn(n, h, g) ==
    /\ n \notin Terminal /\ ~AtDepthLimit(h)
    /\ visits' = Extended(visits, g) /\ continued' = Extended(continued, g)
    /\ UNCHANGED <<phase, revision>>

ComesToEnd(n, v, g) ==
    /\ v = Heuristic(n)
    /\ visits' = CountVisits(Extended(visits, g), g, 1, 1)
    /\ continued' = CountContinuations(Extended(continued, g), g, 1, 1)
    /\ phase' = "planning" /\ revision' = NoRevision

LEMMA SearchOutcomes ==
    ASSUME NEW q, SearchStep(q), NEW h, h = history[q]
    PROVE  \E a, n, o, v, g :
                  /\ a \in Actions /\ n \in Moves[h[Len(h)].state][a] /\ o \in Observe[n]
                  /\ v \in {<<>>, Heuristic(n)} /\ g = Longer(h, a, n, o, v)
                  /\ history' = [history EXCEPT ![q] = g]
                  /\ GoesOn(n, h, g) \/ ComesToEnd(n, v, g)
<1>1. PICK a, n, o :
          /\ a \in Actions /\ n \in Moves[h[Len(h)].state][a] /\ o \in Observe[n]
          /\ \/ /\ n \notin Terminal /\ ~AtDepthLimit(h)
                /\ history' = [history EXCEPT ![q] = Longer(h, a, n, o, <<>>)]
                /\ visits' = Extended(visits, Longer(h, a, n, o, <<>>))
                /\ continued' = Extended(continued, Longer(h, a, n, o, <<>>))
                /\ UNCHANGED <<phase, revision>>
             \/ /\ history' = [history EXCEPT ![q] = Longer(h, a, n, o, Heuristic(n))]
                /\ visits' = CountVisits(Extended(visits, Longer(h, a, n, o, Heuristic(n))),
                                         Longer(h, a, n, o, Heuristic(n)), 1, 1)
                /\ continued' = CountContinuations(
                                   Extended(continued, Longer(h, a, n, o, Heuristic(n))),
                                   Longer(h, a, n, o, Heuristic(n)), 1, 1)
                /\ phase' = "planning" /\ revision' = NoRevision
  BY DEF SearchStep
<1>2. \/ /\ history' = [history EXCEPT ![q] = Longer(h, a, n, o, <<>>)]
         /\ GoesOn(n, h, Longer(h, a, n, o, <<>>))
      \/ /\ history' = [history EXCEPT ![q] = Longer(h, a, n, o, Heuristic(n))]
         /\ ComesToEnd(n, Heuristic(n), Longer(h, a, n, o, Heuristic(n)))
  BY <1>1 DEF GoesOn, ComesToEnd
<1> QED
  BY <1>1, <1>2

LEMMA SearchStepStep ==
    ASSUME IInv, NEW q \in Sequences, SearchStep(q) PROVE IInv'
<1> DEFINE h == history[q]
<1>1. /\ phase = "searching" /\ revision.seq = {q} /\ affected = {} /\ toFlag = {}
      /\ isAffectedMap = [n \in {} |-> TRUE]
      /\ UNCHANGED <<options, steps, belief, affectedIdx, changeVars>>
  BY DEF IInv, SearchStep, ControlOK, Changing
<1>2. HistoryOK(q) /\ ~Revised(q) /\ Searched(q)
  BY <1>1 DEF IInv, HistoriesOK, Revised, Searched
<1>3. Placed(h, Nodes, belief) /\ Sound(h) /\ Growing(h)
  BY <1>2 DEF HistoryOK, Placed, EndOK
<1>4. affectedIdx[q] = NoRange /\ \A j \in DOMAIN h : h[j].flags = {}
  BY <1>1, <1>2, Unflagged
<1>5. h = history[q]
  OBVIOUS
<1> HIDE DEF h
<1>6. PICK a, n, o, v, g :
          /\ a \in Actions /\ n \in Moves[h[Len(h)].state][a] /\ o \in Observe[n]
          /\ v \in {<<>>, Heuristic(n)} /\ g = Longer(h, a, n, o, v)
          /\ history' = [history EXCEPT ![q] = g]
          /\ GoesOn(n, h, g) \/ ComesToEnd(n, v, g)
  BY <1>5, SearchOutcomes
<1>7. v \in Values
  <2>1. h[Len(h)].state \in States
    <3>1. Len(h) \in DOMAIN h
      BY <1>3, HistoryElements, ChangeAssumption DEF Growing, Sound
    <3> QED
      BY <1>3, <3>1, HistoryElements, EntryFields DEF Sound
  <2>2. n \in States
    BY <1>6, <2>1, NextStates
  <2>3. <<>> \in Values /\ Heuristic(n) \in Values
    BY <2>2 DEF Heuristic, Values
  <2> QED
    BY <1>6, <2>3
<1>8. /\ Sound(g) /\ Len(g) = Len(h) + 1 /\ DOMAIN g = 1..(Len(h) + 1) /\ Len(h) \in Nat
      /\ \A j \in 1..Len(h) : g[j].node = h[j].node
      /\ Len(h) \in DOMAIN h /\ g[Len(h) + 1].node \in Seq(Steps)
      /\ \A j \in DOMAIN g : g[j].flags = {}
      /\ v = Heuristic(n) => CurrentEnd(g)
      /\ n \notin Terminal /\ ~AtDepthLimit(h) => Growing(g)
  BY <1>3, <1>4, <1>6, <1>7, SearchHistory
<1>9. DOMAIN h = 1..Len(h) /\ h # <<>> /\ 1 \in DOMAIN h
  BY <1>3, <1>8, HistoryElements DEF Sound
<1>10. /\ visits' \in [Nodes \cup NodesOf(g) -> Int]
       /\ continued' \in [Nodes \cup NodesOf(g) -> Int]
  <2>1. visits \in [Nodes -> Int] /\ continued \in [Nodes -> Int]
    BY DEF IInv, TreeOK
  <2>2. /\ Extended(visits, g) \in [Nodes \cup NodesOf(g) -> Int]
        /\ Extended(continued, g) \in [Nodes \cup NodesOf(g) -> Int]
    BY <2>1, ExtendedTypes
  <2>3. Len(g) \in Nat /\ 1 \in Int /\ 1 \in Nat
    BY <1>8
  <2>4. /\ CountVisits(Extended(visits, g), g, 1, 1) \in [Nodes \cup NodesOf(g) -> Int]
        /\ CountContinuations(Extended(continued, g), g, 1, 1) \in [Nodes \cup NodesOf(g) -> Int]
    BY <2>2, <2>3, CountTypes
  <2> QED
    BY <1>6, <2>2, <2>4 DEF GoesOn, ComesToEnd
<1>11. /\ Nodes' = Nodes \cup NodesOf(g) /\ Nodes \subseteq Nodes' /\ Nodes' \subseteq Seq(Steps)
       /\ \A j \in DOMAIN g : g[j].node \in Nodes'
  <2>1. Nodes' = Nodes \cup NodesOf(g)
    BY <1>10 DEF Nodes
  <2>2. Nodes \subseteq Seq(Steps) /\ \A j \in DOMAIN h : h[j].node \in Nodes
    BY <1>3 DEF IInv, TreeOK, Placed
  <2>3. \A j \in DOMAIN g : g[j].node \in Seq(Steps)
    <3>1. \A j \in DOMAIN g : j \in 1..Len(h) \/ j = Len(h) + 1
      BY <1>8
    <3> QED
      BY <1>8, <1>9, <2>2, <3>1
  <2> QED
    BY <2>1, <2>2, <2>3 DEF NodesOf
<1>12. \/ phase' = "searching" /\ revision' = revision /\ Growing(g)
       \/ phase' = "planning" /\ revision' = NoRevision /\ CurrentEnd(g)
  BY <1>1, <1>6, <1>8 DEF GoesOn, ComesToEnd
<1>13. ControlOK'
  BY <1>1, <1>12 DEF IInv, ControlOK, Changing, changeVars
<1>14. RevisionOK'
  BY <1>1, <1>12, NoRevisionFields DEF IInv, RevisionOK
<1>15. TreeOK'
  <2>1. visits' \in [Nodes' -> Int] /\ continued' \in [Nodes' -> Int]
    BY <1>10, <1>11
  <2>2. /\ Root \in Nodes /\ belief \in Nodes
        /\ changeRoot = {} \/ \E r \in Nodes : changeRoot = {r} /\ AtOrBelow(belief, r)
    BY DEF IInv, TreeOK
  <2>3. belief' = belief /\ changeRoot' = changeRoot /\ ~Changing'
    BY <1>1, <1>12 DEF Changing, changeVars
  <2> QED
    BY <1>11, <2>1, <2>2, <2>3 DEF TreeOK
<1>16. MapOK'
  BY <1>1 DEF IInv, MapOK, changeVars
<1>17. /\ history'[q] = g /\ DOMAIN history' = Sequences
       /\ \A p \in Sequences : p # q => history'[p] = history[p]
  BY <1>6 DEF IInv, HistoriesOK
<1>18. HistoryOK(q)'
  <2>1. Placed(history[q], Nodes, belief)'
    <3>1. AtOrBelow(belief, g[1].node)
      BY <1>3, <1>8, <1>9 DEF Placed
    <3> QED
      BY <1>1, <1>8, <1>11, <1>17, <3>1 DEF Placed
  <2>2. EndOK(q)'
    BY <1>1, <1>12, <1>17 DEF EndOK, Searched
  <2>3. RangeOK(q)' /\ PastOK(q)'
    <3>1. affectedIdx[q] \in RangeType
      BY <1>2 DEF HistoryOK, RangeOK
    <3> QED
      BY <1>1, <1>4, <3>1 DEF RangeOK, RangeWithin, PastOK, changeVars
  <2>4. FlagsWithin(history[q], Low(q), High(q))'
    BY <1>8, <1>17 DEF FlagsWithin
  <2> QED
    BY <2>1, <2>2, <2>3, <2>4 DEF HistoryOK
<1>19. \A p \in Sequences : p # q => /\ affectedIdx'[p] = affectedIdx[p]
                                     /\ p \in affected' <=> p \in affected
                                     /\ ~Searched(p) /\ ~Revised(p)
                                     /\ ~Searched(p)' /\ ~Revised(p)'
  BY <1>1, <1>12 DEF NoRevision, Searched, Revised, changeVars
<1>20. DOMAIN affectedIdx' = Sequences /\ belief' = belief
       /\ changeRoot' = changeRoot /\ HistoriesOK
  BY <1>1 DEF IInv, HistoriesOK, changeVars
<1>21. HistoriesOK'
  BY <1>11, <1>17, <1>18, <1>19, <1>20, OtherHistories
<1> QED
  BY <1>13, <1>14, <1>15, <1>16, <1>21 DEF IInv

-----------------------------------------------------------------------------
(* The agent moves on. *)

(* What a belief update does, to the belief next.                           *)
MovesOn(q, s, next) ==
    /\ q \in Free \/ q \notin HistoriesKept(next)
    /\ belief' = next
    /\ history' = HistoriesThen(next, q, s)
    /\ visits' = Remaining(visits, next) /\ continued' = Remaining(continued, next)

LEMMA BelowBelief ==
    ASSUME IInv, NEW q, UpdateBelief(q)
    PROVE  \E s \in States, next \in Seq(Steps) :
               IsPrefix(belief, next) /\ MovesOn(q, s, next)
<1>1. PICK a, p, s, o :
          /\ a \in Actions /\ p \in Particles(belief) /\ s \in Moves[p][a] /\ o \in Observe[s]
          /\ MovesOn(q, s, Child(belief, a, o))
  BY DEF UpdateBelief, MovesOn
<1>2. p \in States
  BY <1>1, ParticlesAreStates DEF IInv
<1>3. s \in States /\ o \in Observations
  BY <1>1, <1>2, NextStates
<1> DEFINE step == <<a, Cell[o]>>
           next == Append(belief, step)
<1>4. step \in Steps
  BY <1>1, <1>3, ChangeAssumption DEF Steps, Range
<1>5. belief \in Seq(Steps)
  BY DEF IInv, TreeOK
<1> HIDE DEF step
<1>6. /\ next \in Seq(Steps) /\ Len(next) = Len(belief) + 1 /\ Len(belief) \in Nat
      /\ \A k \in 1..Len(belief) : belief[k] = next[k]
  BY <1>4, <1>5
<1>7. next = Child(belief, a, o)
  BY DEF Child, step
<1> HIDE DEF next
<1>8. IsPrefix(belief, next)
  BY <1>5, <1>6, PrefixElements
<1> QED
  BY <1>1, <1>3, <1>6, <1>7, <1>8

LEMMA UpdateBeliefStep ==
    ASSUME IInv, NEW q \in Sequences, UpdateBelief(q) PROVE IInv'
<1>1. /\ phase = "planning" /\ phase' = "updated" /\ revision = NoRevision
      /\ affected = {} /\ toFlag = {} /\ isAffectedMap = [n \in {} |-> TRUE]
      /\ UNCHANGED <<options, affectedIdx, changeVars, revision>>
  BY DEF IInv, UpdateBelief, RevisionOK, ControlOK, Changing
<1>2. PICK s \in States, next \in Seq(Steps) : IsPrefix(belief, next) /\ MovesOn(q, s, next)
  BY BelowBelief
<1>3. /\ Root \in Nodes /\ belief \in Nodes /\ Nodes \subseteq Seq(Steps)
      /\ visits \in [Nodes -> Int] /\ continued \in [Nodes -> Int]
      /\ changeRoot = {} \/ \E r \in Nodes : changeRoot = {r} /\ AtOrBelow(belief, r)
  BY DEF IInv, TreeOK
<1>4. Nodes' = NodesKept(next)
  BY <1>2 DEF MovesOn, Remaining, Nodes
<1>5. /\ next \in NodesKept(next) /\ NodesKept(next) \subseteq Seq(Steps)
      /\ \A n \in Nodes : IsPrefix(n, belief) => n \in NodesKept(next)
      /\ \A n \in Nodes : IsPrefix(n, next) \/ IsPrefix(next, n) => n \in NodesKept(next)
  <2>1. next \in NodesKept(next)
    BY PrefixOrder DEF NodesKept, AtOrBelow
  <2>2. NodesKept(next) \subseteq Seq(Steps)
    BY <1>3 DEF NodesKept
  <2>3. \A n \in Nodes : IsPrefix(n, next) \/ IsPrefix(next, n) => n \in NodesKept(next)
    BY DEF NodesKept, AtOrBelow
  <2>4. \A n \in Nodes : IsPrefix(n, belief) => IsPrefix(n, next)
    BY <1>2, <1>3, PrefixOrder
  <2> QED
    BY <2>1, <2>2, <2>3, <2>4
<1>6. ControlOK'
  <2>1. steps' \in 0..NSimulationSteps
    BY ChangeAssumption DEF UpdateBelief, IInv, ControlOK
  <2> QED
    BY <1>1, <2>1 DEF IInv, ControlOK, Changing, changeVars
<1>7. RevisionOK'
  BY <1>1, NoRevisionFields DEF RevisionOK
<1>8. TreeOK'
  <2>1. IsPrefix(Root, belief)
    <3>1. Root \in Seq(Steps) /\ Len(Root) = 0 /\ belief \in Seq(Steps) /\ Len(belief) \in Nat
      BY <1>3 DEF Root
    <3>2. \A k \in 1..Len(Root) : Root[k] = belief[k]
      BY <3>1
    <3>3. Len(Root) <= Len(belief)
      BY <3>1
    <3> QED
      BY <3>1, <3>2, <3>3, PrefixElements
  <2>2. Root \in Nodes' /\ next \in Nodes' /\ Nodes' \subseteq Seq(Steps) /\ belief' = next
    BY <1>2, <1>3, <1>4, <1>5, <2>1 DEF MovesOn
  <2>3. visits' \in [Nodes' -> Int] /\ continued' \in [Nodes' -> Int]
    BY <1>2, <1>3, <1>4 DEF MovesOn, Remaining
  <2>4. ASSUME NEW r \in Nodes, changeRoot = {r}, AtOrBelow(belief, r)
        PROVE  r \in Nodes' /\ changeRoot' = {r} /\ AtOrBelow(belief', r)
    <3>1. IsPrefix(r, belief) /\ r \in Seq(Steps) /\ belief \in Seq(Steps)
      BY <1>3, <2>4 DEF AtOrBelow
    <3>2. IsPrefix(r, next)
      BY <1>2, <3>1, PrefixOrder
    <3> QED
      BY <1>1, <1>4, <1>5, <2>2, <2>4, <3>1, <3>2 DEF AtOrBelow, changeVars
  <2>5. ~Changing'
    BY <1>1 DEF Changing
  <2> QED
    <3>1. changeRoot' = {} \/ \E r \in Nodes' : changeRoot' = {r} /\ AtOrBelow(belief', r)
      BY <1>1, <1>3, <2>4 DEF changeVars
    <3> QED
      BY <2>2, <2>3, <2>5, <3>1 DEF TreeOK
<1>9. MapOK'
  BY <1>1 DEF IInv, MapOK, changeVars
<1>10. ASSUME NEW p \in Sequences
       PROVE  /\ Placed(history'[p], Nodes', next) /\ CurrentEnd(history'[p])
              /\ \A j \in DOMAIN history'[p] : history'[p][j].flags = {}
  <2> DEFINE h == history[p]
  <2>1. /\ HistoryOK(p) /\ p \notin affected /\ ~Revised(p) /\ ~Searched(p)
    BY <1>1, NoRevisionFields DEF IInv, HistoriesOK
  <2>2. /\ Placed(h, Nodes, belief) /\ Sound(h) /\ CurrentEnd(h)
        /\ \A j \in DOMAIN h : h[j].flags = {}
    BY <2>1, Unflagged DEF HistoryOK, EndOK, Placed
  <2>3. CASE p = q
    <3> DEFINE g == <<LastEntry(s, next)>>
    <3>1. /\ Sound(g) /\ CurrentEnd(g) /\ DOMAIN g = {1}
          /\ g[1].node = next /\ g[1].flags = {}
      BY SingleEntry
    <3>2. history'[p] = g
      BY <1>2, <2>3 DEF MovesOn, HistoriesThen
    <3> HIDE DEF g
    <3>3. AtOrBelow(next, next)
      BY PrefixOrder DEF AtOrBelow
    <3> QED
      BY <1>4, <1>5, <3>1, <3>2, <3>3 DEF Placed
  <2>4. CASE p # q /\ p \in HistoriesKept(next)
    <3>1. history'[p] = h
      BY <1>2, <2>4 DEF MovesOn, HistoriesThen
    <3>2. ASSUME NEW j \in DOMAIN h PROVE h[j].node \in Nodes'
      <4>1. h[j].node \in Nodes
        BY <2>2 DEF Placed
      <4>2. CASE ~options.pruneEveryStep
        BY <1>4, <4>1, <4>2 DEF NodesKept
      <4>3. CASE options.pruneEveryStep
        <5>1. PICK k \in DOMAIN h : h[k].node = next
          BY <2>4, <4>3 DEF HistoriesKept, NodesOf
        <5>2. j \in Nat /\ k \in Nat
          BY <2>2, HistoryElements DEF Sound
        <5>3. j <= k => IsPrefix(h[j].node, h[k].node)
          BY <2>2, StraightPrefixes DEF Sound
        <5>4. k <= j => IsPrefix(h[k].node, h[j].node)
          BY <2>2, StraightPrefixes DEF Sound
        <5> HIDE DEF h
        <5> QED
          BY <1>4, <1>5, <4>1, <5>1, <5>2, <5>3, <5>4
      <4> QED
        BY <4>2, <4>3
    <3>3. h # <<>> => AtOrBelow(next, h[1].node)
      <4> SUFFICES ASSUME h # <<>> PROVE IsPrefix(h[1].node, next)
        BY DEF AtOrBelow
      <4>1. IsPrefix(h[1].node, belief)
        BY <2>2 DEF Placed, AtOrBelow
      <4>2. h[1].node \in Seq(Steps) /\ belief \in Seq(Steps)
        <5>1. 1 \in DOMAIN h
          <6>1. h \in Seq(EntryType)
            BY <2>2 DEF Sound, HistoryTyped
          <6> QED
            BY <6>1
        <5> QED
          BY <1>3, <2>2, <5>1, HistoryElements DEF Sound
      <4> QED
        BY <1>2, <4>1, <4>2, PrefixOrder
    <3> HIDE DEF h
    <3> QED
      BY <2>2, <3>1, <3>2, <3>3 DEF Placed
  <2>5. CASE p # q /\ p \notin HistoriesKept(next)
    <3>1. history'[p] = <<>>
      BY <1>2, <2>5 DEF MovesOn, HistoriesThen
    <3> QED
      BY <3>1, NoHistory
  <2> QED
    BY <2>3, <2>4, <2>5
<1>11. ASSUME NEW p \in Sequences PROVE HistoryOK(p)'
  <2>1. ~Searched(p)' /\ ~Revised(p)' /\ p \notin affected' /\ affectedIdx'[p] = NoRange
    <3>1. affectedIdx[p] = NoRange
      BY <1>1 DEF IInv, HistoriesOK, HistoryOK, RangeOK
    <3> QED
      BY <1>1, <3>1 DEF Searched, Revised, changeVars
  <2>2. Placed(history[p], Nodes, belief)'
    BY <1>2, <1>10 DEF MovesOn
  <2>3. EndOK(p)'
    BY <1>10, <2>1 DEF EndOK
  <2>4. RangeOK(p)' /\ PastOK(p)'
    BY <2>1, NoHistory DEF RangeOK, RangeWithin, PastOK
  <2>5. FlagsWithin(history[p], Low(p), High(p))'
    BY <1>10 DEF FlagsWithin
  <2> QED
    BY <2>2, <2>3, <2>4, <2>5 DEF HistoryOK
<1>12. HistoriesOK'
  <2>1. DOMAIN history' = Sequences /\ DOMAIN affectedIdx' = Sequences
    BY <1>1, <1>2 DEF MovesOn, HistoriesThen, IInv, HistoriesOK
  <2> QED
    BY <1>11, <2>1 DEF HistoriesOK
<1> QED
  BY <1>6, <1>7, <1>8, <1>9, <1>12 DEF IInv

-----------------------------------------------------------------------------
(* A state is flagged. *)

LEMMA PrefixOfPart ==
    ASSUME NEW r \in Seq(Steps), NEW node \in Seq(Steps), NEW k \in Nat,
           Len(r) <= k, k <= Len(node)
    PROVE  /\ SubSeq(node, 1, k) \in Seq(Steps) /\ Len(SubSeq(node, 1, k)) = k
           /\ IsPrefix(r, SubSeq(node, 1, k)) <=> IsPrefix(r, node)
<1> DEFINE part == SubSeq(node, 1, k)
<1>1. /\ part \in Seq(Steps) /\ Len(part) = k
      /\ \A i \in 1..k : part[i] = node[i]
  <2>1. 1 \in Int /\ k \in Int /\ \A i \in 1..k : i \in 1..Len(node)
    OBVIOUS
  <2>2. \A i \in 1..k : node[i] \in Steps
    BY <2>1
  <2>3. SubSeq(node, 1, k) = [i \in 1..k |-> node[i]]
    BY <2>1
  <2>4. \A f \in [1..k -> Steps] : f \in Seq(Steps) /\ Len(f) = k
    OBVIOUS
  <2>5. [i \in 1..k |-> node[i]] \in [1..k -> Steps]
    BY <2>2
  <2> QED
    BY <2>3, <2>4, <2>5
<1> HIDE DEF part
<1>2. \A i \in 1..Len(r) : i \in 1..k
  OBVIOUS
<1>3. Len(r) <= Len(part) /\ Len(r) <= Len(node)
  BY <1>1
<1>4. IsPrefix(r, part) <=> \A i \in 1..Len(r) : r[i] = part[i]
  BY <1>1, <1>3, PrefixElements
<1>5. IsPrefix(r, node) <=> \A i \in 1..Len(r) : r[i] = node[i]
  BY <1>3, PrefixElements
<1>6. IsPrefix(r, part) <=> IsPrefix(r, node)
  BY <1>1, <1>2, <1>4, <1>5
<1> QED
  BY <1>1, <1>6 DEF part

(* The map agrees with the tree: affected is what is at the root or below.  *)
LEMMA AffectedNode ==
    ASSUME MapOK, NEW r \in Seq(Steps), changeRoot = {r}, NEW node \in Seq(Steps)
    PROVE  IsAffected(node) <=> AtOrBelow(node, r)
<1>1. RootDepth = Len(r) /\ Len(r) \in Nat /\ Len(node) \in Nat
  BY DEF RootDepth
<1>2. CASE node = r
  BY <1>2, PrefixOrder DEF IsAffected, AtOrBelow
<1>3. CASE node # r /\ ~(Len(node) > Len(r))
  <2>1. ~IsAffected(node)
    BY <1>1, <1>3 DEF IsAffected
  <2>2. IsPrefix(r, node) => Len(r) <= Len(node)
    BY PrefixElements
  <2>3. ~IsPrefix(r, node)
    <3>1. Len(r) <= Len(node) => Len(r) = Len(node)
      BY <1>1, <1>3
    <3> QED
      BY <1>3, <2>2, <3>1, PrefixOrder
  <2> QED
    BY <2>1, <2>3 DEF AtOrBelow
<1>4. CASE node # r /\ Len(node) > Len(r)
  <2>1. CASE Known(node) = {}
    <3>1. IsAffected(node) <=> \E x \in changeRoot : AtOrBelow(node, x)
      BY <1>1, <1>4, <2>1 DEF IsAffected
    <3> QED
      BY <3>1
  <2>2. CASE Known(node) # {}
    <3> DEFINE k == CHOOSE k \in Known(node) : \A j \in Known(node) : j <= k
               part == SubSeq(node, 1, k)
    <3>1. Known(node) \subseteq 0..Len(node)
      BY <1>1 DEF Known
    <3>2. \E x \in Known(node) : \A j \in Known(node) : j <= x
      BY <1>1, <2>2, <3>1, GreatestNatural
    <3>3. k \in Known(node)
      BY <3>2
    <3>4. IsAffected(node) <=> isAffectedMap[part]
      BY <1>1, <1>4, <2>2 DEF IsAffected
    <3> HIDE DEF k
    <3>5. k \in (Len(r) + 1)..Len(node) /\ part \in DOMAIN isAffectedMap
      BY <1>1, <3>3 DEF Known
    <3>6. k \in Nat /\ Len(r) <= k /\ k <= Len(node)
      BY <1>1, <3>5
    <3>7. IsPrefix(r, part) <=> IsPrefix(r, node)
      BY <3>6, PrefixOfPart
    <3> HIDE DEF part
    <3>8. isAffectedMap[part] <=> AtOrBelow(part, r)
      BY <3>5 DEF MapOK
    <3> QED
      BY <3>4, <3>7, <3>8 DEF AtOrBelow
  <2> QED
    BY <2>1, <2>2
<1> QED
  BY <1>2, <1>3, <1>4

(* A history that starts above the root and has an affected entry goes      *)
(* through the root.                                                        *)
LEMMA GoesThroughRoot ==
    ASSUME NEW h, Sound(h), NEW r \in Seq(Steps), IsPrefix(h[1].node, r),
           NEW i \in DOMAIN h, IsPrefix(r, h[i].node)
    PROVE  Through(h, r)
<1>1. /\ HistoryTyped(h) /\ Straight(h) /\ 1 \in DOMAIN h /\ i \in Nat /\ i >= 1
      /\ DOMAIN h = 1..Len(h) /\ Len(h) \in Nat
      /\ \A j \in DOMAIN h : h[j].node \in Seq(Steps)
  BY HistoryElements DEF Sound
<1> DEFINE m == Len(h[1].node)
           j == Len(r) - m + 1
<1>2. /\ m \in Nat /\ Len(r) \in Nat /\ m <= Len(r)
      /\ Len(h[i].node) = m + (i - 1) /\ Len(r) <= Len(h[i].node)
  <2>1. m <= Len(r) /\ Len(r) <= Len(h[i].node)
    BY <1>1, PrefixElements
  <2>2. Len(h[i].node) = m + (i - 1)
    BY <1>1 DEF Straight
  <2> QED
    BY <1>1, <2>1, <2>2
<1> HIDE DEF m
<1>3. j \in 1..Len(h) /\ j <= i /\ m + (j - 1) = Len(r)
  BY <1>1, <1>2
<1> HIDE DEF j
<1>4. Len(h[j].node) = Len(r)
  <2>1. Len(h[j].node) = m + (j - 1)
    BY <1>1, <1>3 DEF Straight, m
  <2> QED
    BY <1>3, <2>1
<1>5. IsPrefix(h[j].node, h[i].node)
  BY <1>1, <1>3, StraightPrefixes
<1>6. h[j].node = r
  <2>1. /\ h[j].node \in Seq(Steps) /\ h[i].node \in Seq(Steps)
        /\ Len(h[j].node) <= Len(r)
    BY <1>1, <1>2, <1>3, <1>4
  <2>2. IsPrefix(h[j].node, r)
    BY <1>5, <2>1, PrefixOrder
  <2> QED
    BY <1>4, <2>1, <2>2, PrefixOrder
<1> QED
  BY <1>1, <1>3, <1>6 DEF Through

(* What is used is in a history, at the root or below. *)
LEMMA UsesAreAffected ==
    ASSUME MapOK, HistoriesOK, NEW s, NEW q, NEW i, <<q, i>> \in Uses(s),
           NEW r \in Seq(Steps), changeRoot = {r}
    PROVE  q \in Sequences /\ i \in DOMAIN history[q] /\ IsPrefix(r, history[q][i].node)
<1> DEFINE u == <<q, i>>
<1>1. u \in EntryIds /\ IsAffected(EntryAt(u).node)
  BY DEF Uses, EntriesOf
<1>2. /\ q \in Sequences /\ i \in DOMAIN history[q] /\ EntryAt(u) = history[q][i]
  BY <1>1 DEF EntryIds, EntryAt
<1>3. history[q][i].node \in Seq(Steps)
  BY <1>2, HistoryElements DEF HistoriesOK, HistoryOK, Placed, Sound
<1>4. AtOrBelow(history[q][i].node, r)
  BY <1>1, <1>2, <1>3, AffectedNode
<1> QED
  BY <1>2, <1>4 DEF AtOrBelow

LEMMA FlagHistory ==
    ASSUME IInv, phase = "flagging", NEW s, NEW q \in Sequences,
           NEW uses, uses = Uses(s), NEW h, h = history[q],
           NEW g, g = WithFlags(q, uses), NEW T, T = Raised(q, uses)
    PROVE  /\ Sound(g) /\ CurrentEnd(g) /\ Len(g) = Len(h) /\ DOMAIN g = DOMAIN h
           /\ \A j \in DOMAIN h : /\ g[j].flags = h[j].flags \cup FlagsRaised(q, j, uses)
                                  /\ g[j].node = h[j].node /\ g[j].state = h[j].state
           /\ T \subseteq DOMAIN h
           /\ T = {} => g = h
           /\ \A r \in changeRoot :
                 /\ T # {} => Through(h, r)
                 /\ \A j \in 1..(Len(h) - 1) :
                       "TRANSITION" \in FlagsRaised(q, j, uses) => Len(h[j + 1].node) > Len(r)
<1> DEFINE raised == [j \in DOMAIN h |-> FlagsRaised(q, j, uses)]
<1>1. HistoryOK(q) /\ Placed(h, Nodes, belief) /\ Sound(h) /\ CurrentEnd(h)
  BY DEF IInv, HistoriesOK, HistoryOK, Placed, EndOK, Searched
<1>2. \A j \in DOMAIN h : raised[j] = FlagsRaised(q, j, uses) /\ raised[j] \subseteq Flags
  BY DEF FlagsRaised, Flags
<1>3. g = [j \in DOMAIN h |-> [h[j] EXCEPT !.flags = @ \cup FlagsRaised(q, j, uses)]]
  BY DEF WithFlags
<1>4. Raises(h, raised, g)
  <2>1. \A j \in DOMAIN h : [h[j] EXCEPT !.flags = @ \cup raised[j]]
                            = [h[j] EXCEPT !.flags = @ \cup FlagsRaised(q, j, uses)]
    BY <1>2
  <2> HIDE DEF raised
  <2>2. [j \in DOMAIN h |-> [h[j] EXCEPT !.flags = @ \cup raised[j]]]
        = [j \in DOMAIN h |-> [h[j] EXCEPT !.flags = @ \cup FlagsRaised(q, j, uses)]]
    BY <2>1
  <2> QED
    BY <1>3, <2>2 DEF Raises
<1> HIDE DEF raised
<1>5. /\ Sound(g) /\ CurrentEnd(g) /\ Len(g) = Len(h) /\ DOMAIN g = DOMAIN h
      /\ \A j \in DOMAIN h : /\ g[j].flags = h[j].flags \cup raised[j]
                             /\ g[j].node = h[j].node /\ g[j].state = h[j].state
  BY <1>1, <1>2, <1>4, FlaggedIsSound
<1>6. T \subseteq DOMAIN h /\ \A j \in DOMAIN h : j \in T <=> FlagsRaised(q, j, uses) # {}
  BY DEF Raised
<1>7. T = {} => g = h
  <2> SUFFICES ASSUME T = {} PROVE g = h
    OBVIOUS
  <2>1. /\ DOMAIN h = 1..Len(h) /\ h = [j \in 1..Len(h) |-> h[j]]
        /\ \A j \in DOMAIN h : h[j] \in EntryType
    BY <1>1, HistoryElements DEF Sound, HistoryTyped
  <2>2. \A e \in EntryType : [e EXCEPT !.flags = @ \cup {}] = e
    BY DEF EntryType
  <2>3. \A j \in DOMAIN h : [h[j] EXCEPT !.flags = @ \cup FlagsRaised(q, j, uses)] = h[j]
    BY <1>6, <2>1, <2>2
  <2>4. g = [j \in DOMAIN h |-> h[j]]
    BY <1>3, <2>3
  <2> QED
    BY <2>1, <2>4
<1>8. ASSUME NEW r \in changeRoot
      PROVE  /\ T # {} => Through(h, r)
             /\ \A j \in 1..(Len(h) - 1) :
                   "TRANSITION" \in FlagsRaised(q, j, uses) => Len(h[j + 1].node) > Len(r)
  <2>1. changeRoot = {r} /\ r = belief /\ r \in Seq(Steps)
    BY DEF IInv, TreeOK, Changing
  <2>2. \A i : <<q, i>> \in uses => i \in DOMAIN h /\ IsPrefix(r, h[i].node)
    BY <2>1, UsesAreAffected DEF IInv
  <2>3. ASSUME T # {} PROVE Through(h, r)
    <3>1. PICK j \in DOMAIN h : FlagsRaised(q, j, uses) # {}
      BY <1>6, <2>3
    <3>2. PICK i : <<q, i>> \in uses
      BY <3>1 DEF FlagsRaised
    <3>3. i \in DOMAIN h /\ IsPrefix(r, h[i].node)
      BY <2>2, <3>2
    <3>4. IsPrefix(h[1].node, r)
      <4>1. h # <<>>
        BY <3>3
      <4> QED
        BY <1>1, <2>1, <4>1 DEF Placed, AtOrBelow
    <3> QED
      BY <1>1, <2>1, <3>3, <3>4, GoesThroughRoot
  <2>4. ASSUME NEW j \in 1..(Len(h) - 1), "TRANSITION" \in FlagsRaised(q, j, uses)
        PROVE  Len(h[j + 1].node) > Len(r)
    <3>1. <<q, j + 1>> \in uses /\ h[j + 1].node \notin changeRoot
      BY <2>4 DEF FlagsRaised
    <3>2. j + 1 \in DOMAIN h /\ IsPrefix(r, h[j + 1].node) /\ h[j + 1].node # r
      BY <2>1, <2>2, <3>1
    <3>3. h[j + 1].node \in Seq(Steps)
      BY <1>1, <3>2, HistoryElements DEF Sound
    <3>4. Len(r) <= Len(h[j + 1].node)
      BY <2>1, <3>2, <3>3, PrefixElements
    <3>5. Len(r) # Len(h[j + 1].node)
      BY <2>1, <3>2, <3>3, PrefixOrder
    <3>6. Len(r) \in Nat /\ Len(h[j + 1].node) \in Nat
      BY <2>1, <3>3
    <3> QED
      BY <3>4, <3>5, <3>6
  <2> QED
    BY <2>3, <2>4
<1> QED
  BY <1>2, <1>5, <1>6, <1>7, <1>8

LEMMA FlagStateStep ==
    ASSUME IInv, NEW s, FlagState(s) PROVE IInv'
<1>1. /\ phase = "flagging" /\ phase' = "flagging" /\ revision = NoRevision
      /\ toFlag' = toFlag \ {s}
      /\ UNCHANGED <<options, phase, steps, belief, treeVars, deleted, changeRoot, revision>>
  BY DEF IInv, FlagState, RevisionOK
<1>2. PICK uses : uses = Uses(s)
  OBVIOUS
<1>3. /\ history' = [q \in Sequences |-> WithFlags(q, uses)]
      /\ affectedIdx' = [q \in Sequences |-> Widened(affectedIdx[q], Raised(q, uses))]
      /\ affected' = affected \cup {q \in Sequences : Raised(q, uses) # {}}
      /\ isAffectedMap' = [n \in DOMAIN isAffectedMap \cup Asked(s) |-> IsAffected(n)]
  BY <1>2 DEF FlagState
<1>4. ControlOK'
  BY <1>1, <1>3 DEF IInv, ControlOK, Changing
<1>5. RevisionOK'
  BY <1>1, NoRevisionFields DEF RevisionOK
<1>6. TreeOK'
  BY <1>1 DEF IInv, TreeOK, Changing, Nodes, treeVars
<1>7. MapOK'
  <2>1. isAffectedMap' \in [DOMAIN isAffectedMap' -> BOOLEAN]
    <3>1. \A n : IsAffected(n) \in BOOLEAN
      BY DEF IsAffected
    <3> QED
      BY <1>3, <3>1
  <2>2. changeRoot = {} => DOMAIN isAffectedMap' = {}
    <3>1. changeRoot = {} => DOMAIN isAffectedMap = {} /\ Asked(s) = {}
      BY DEF IInv, MapOK, Asked
    <3> QED
      BY <1>3, <3>1
  <2>3. ASSUME NEW r \in changeRoot, NEW n \in DOMAIN isAffectedMap'
        PROVE  /\ n \in Seq(Steps) /\ Len(n) > Len(r)
               /\ isAffectedMap'[n] <=> AtOrBelow(n, r)
    <3>1. changeRoot = {r} /\ r \in Seq(Steps) /\ MapOK /\ HistoriesOK
      BY DEF IInv, TreeOK
    <3>2. n \in Seq(Steps) /\ Len(n) > Len(r)
      <4>1. CASE n \in DOMAIN isAffectedMap
        BY <3>1, <4>1 DEF MapOK
      <4>2. CASE n \in Asked(s)
        <5>1. PICK u \in EntriesOf(s) :
                  \E k \in (RootDepth + 1)..Len(EntryAt(u).node) :
                      n = SubSeq(EntryAt(u).node, 1, k)
          BY <4>2 DEF Asked
        <5>2. PICK k \in (RootDepth + 1)..Len(EntryAt(u).node) :
                  n = SubSeq(EntryAt(u).node, 1, k)
          BY <5>1
        <5>3. u[1] \in Sequences /\ u[2] \in DOMAIN history[u[1]]
              /\ EntryAt(u) = history[u[1]][u[2]]
          BY DEF EntriesOf, EntryIds, EntryAt
        <5>4. EntryAt(u).node \in Seq(Steps)
          BY <3>1, <5>3, HistoryElements DEF HistoriesOK, HistoryOK, Placed, Sound
        <5>5. RootDepth = Len(r) /\ Len(r) \in Nat /\ Len(EntryAt(u).node) \in Nat
          BY <3>1, <5>4 DEF RootDepth
        <5> DEFINE node == EntryAt(u).node
        <5> HIDE DEF node
        <5>6. k \in Nat /\ Len(r) <= k /\ k <= Len(node) /\ k > Len(r)
          BY <5>5 DEF node
        <5>7. node \in Seq(Steps) /\ n = SubSeq(node, 1, k)
          BY <5>2, <5>4 DEF node
        <5>8. SubSeq(node, 1, k) \in Seq(Steps) /\ Len(SubSeq(node, 1, k)) = k
          BY <3>1, <5>6, <5>7, PrefixOfPart
        <5> QED
          BY <5>6, <5>7, <5>8
      <4> QED
        BY <1>3, <4>1, <4>2
    <3>3. IsAffected(n) <=> AtOrBelow(n, r)
      BY <3>1, <3>2, AffectedNode
    <3>4. isAffectedMap'[n] = IsAffected(n)
      BY <1>3
    <3> QED
      BY <3>2, <3>3, <3>4
  <2> QED
    BY <1>1, <2>1, <2>2, <2>3 DEF MapOK
<1>8. ASSUME NEW q \in Sequences PROVE HistoryOK(q)'
  <2> DEFINE h == history[q]
             g == WithFlags(q, uses)
             T == Raised(q, uses)
  <2>1. h = history[q] /\ g = WithFlags(q, uses) /\ T = Raised(q, uses)
    OBVIOUS
  <2> HIDE DEF h, g, T
  <2>2. /\ Sound(g) /\ CurrentEnd(g) /\ Len(g) = Len(h) /\ DOMAIN g = DOMAIN h
        /\ \A j \in DOMAIN h : /\ g[j].flags = h[j].flags \cup FlagsRaised(q, j, uses)
                               /\ g[j].node = h[j].node /\ g[j].state = h[j].state
        /\ T \subseteq DOMAIN h
        /\ \A r \in changeRoot :
              /\ T # {} => Through(h, r)
              /\ \A j \in 1..(Len(h) - 1) :
                    "TRANSITION" \in FlagsRaised(q, j, uses) => Len(h[j + 1].node) > Len(r)
    BY <1>1, <1>2, <2>1, FlagHistory
  <2>3. /\ HistoryOK(q) /\ ~Searched(q) /\ ~Revised(q) /\ ~Searched(q)' /\ ~Revised(q)'
    BY <1>1 DEF IInv, HistoriesOK, Searched, Revised
  <2>4. /\ Placed(h, Nodes, belief)
        /\ affectedIdx[q] \in RangeType /\ RangeWithin(affectedIdx[q], Len(h))
        /\ (q \in affected <=> affectedIdx[q] # NoRange)
        /\ FlagsWithin(h, affectedIdx[q].start, affectedIdx[q].end)
    BY <2>1, <2>3 DEF HistoryOK, RangeOK, Low, High
  <2>5. DOMAIN h = 1..Len(h) /\ Len(h) \in 0..(MaximumDepth + 1) /\ Len(h) \in Nat
    BY <2>4, HistoryElements, ChangeAssumption DEF Placed, Sound, HistoryTyped
  <2>6. /\ history'[q] = g /\ affectedIdx'[q] = Widened(affectedIdx[q], T)
        /\ (q \in affected' <=> q \in affected \/ T # {})
    BY <1>3, <2>1
  <2> DEFINE old == affectedIdx[q]
             wide == affectedIdx'[q]
  <2>7. /\ old \in RangeType /\ RangeWithin(old, Len(h)) /\ T \subseteq 1..Len(h)
        /\ wide = Widened(old, T)
    BY <2>2, <2>4, <2>5, <2>6
  <2>8. old = affectedIdx[q] /\ wide = affectedIdx'[q]
    OBVIOUS
  <2> HIDE DEF old, wide
  <2>9. /\ wide \in RangeType /\ RangeWithin(wide, Len(h))
        /\ wide.start <= old.start /\ old.end <= wide.end
        /\ \A i \in T : wide.start <= i /\ i <= wide.end
        /\ T = {} => wide = old
        /\ T # {} => wide # NoRange
    <3> HIDE DEF h, T
    <3>1. PICK n : n = Len(h) /\ n \in 0..(MaximumDepth + 1)
      BY <2>5
    <3>2. old \in RangeType /\ RangeWithin(old, n) /\ T \subseteq 1..n /\ wide = Widened(old, T)
      BY <2>7, <3>1
    <3>3. Widens(wide, old, T, n)
      BY <3>1, <3>2, WidenedRange
    <3> QED
      BY <3>1, <3>3 DEF Widens
  <2>10. Placed(history[q], Nodes, belief)'
    <3>1. \A j \in DOMAIN g : g[j].node \in Nodes
      BY <2>2, <2>4 DEF Placed
    <3>2. ASSUME g # <<>> PROVE AtOrBelow(belief, g[1].node)
      <4>1. g \in Seq(EntryType)
        BY <2>2 DEF Sound, HistoryTyped
      <4>2. 1 \in DOMAIN g
        BY <3>2, <4>1
      <4>3. h # <<>>
        BY <2>2, <4>2
      <4> QED
        BY <2>2, <2>4, <4>2, <4>3 DEF Placed
    <3> QED
      BY <1>1, <2>2, <2>6, <3>1, <3>2 DEF Placed, Nodes, treeVars
  <2>11. EndOK(q)'
    BY <2>2, <2>3, <2>6 DEF EndOK
  <2>12. RangeOK(q)'
    BY <2>2, <2>4, <2>6, <2>8, <2>9 DEF RangeOK
  <2>13. FlagsWithin(history[q], Low(q), High(q))'
    <3>1. ASSUME NEW j \in DOMAIN g, g[j].flags # {} PROVE wide.start <= j /\ j <= wide.end
      <4>1. j \in T \/ h[j].flags # {}
        BY <2>1, <2>2, <3>1 DEF Raised
      <4>2. CASE j \in T
        BY <2>9, <4>2
      <4>3. CASE h[j].flags # {}
        <5>1. old.start <= j /\ j <= old.end
          BY <2>2, <2>4, <2>8, <4>3 DEF FlagsWithin
        <5>2. /\ old.start \in Int /\ old.end \in Int /\ wide.start \in Int /\ wide.end \in Int
              /\ j \in Int
          BY <2>2, <2>5, <2>7, <2>9, ChangeAssumption DEF RangeType
        <5> QED
          BY <2>9, <5>1, <5>2
      <4> QED
        BY <4>1, <4>2, <4>3
    <3> QED
      BY <2>3, <2>6, <2>8, <3>1 DEF FlagsWithin, Low, High
  <2>14. PastOK(q)'
    <3>1. ASSUME NEW r \in changeRoot, q \in affected'
          PROVE  PastKept(g, r) /\ Through(g, r)
      <4>1. q \in affected => PastKept(h, r) /\ Through(h, r)
        BY <2>1, <2>3 DEF HistoryOK, PastOK
      <4>2. Through(g, r)
        BY <2>2, <2>6, <3>1, <4>1 DEF Through
      <4>3. ASSUME NEW j \in 1..(Len(h) - 1), "TRANSITION" \in g[j].flags
            PROVE  Len(g[j + 1].node) > Len(r)
        <5>1. j \in DOMAIN h /\ j + 1 \in DOMAIN h
          BY <2>5
        <5>2. "TRANSITION" \in h[j].flags \/ "TRANSITION" \in FlagsRaised(q, j, uses)
          BY <2>2, <4>3, <5>1
        <5>3. "TRANSITION" \in h[j].flags => q \in affected
          BY <2>1, <2>3, <5>1, Unflagged
        <5>4. Len(h[j + 1].node) > Len(r)
          BY <2>2, <4>1, <5>2, <5>3 DEF PastKept
        <5> QED
          BY <2>2, <5>1, <5>4
      <4> QED
        BY <2>2, <4>2, <4>3 DEF PastKept
    <3> QED
      BY <1>1, <2>6, <3>1 DEF PastOK
  <2> QED
    BY <2>10, <2>11, <2>12, <2>13, <2>14 DEF HistoryOK
<1>9. DOMAIN history' = Sequences /\ DOMAIN affectedIdx' = Sequences
  BY <1>3
<1>10. HistoriesOK'
  BY <1>8, <1>9 DEF HistoriesOK
<1> QED
  BY <1>4, <1>5, <1>6, <1>7, <1>10 DEF IInv

-----------------------------------------------------------------------------
(* The invariant holds. *)

LEMMA NextOK == IInv /\ [Next]_vars => IInv'
<1> SUFFICES ASSUME IInv, [Next]_vars PROVE IInv'
  OBVIOUS
<1>1. CASE NoChanges \/ ChangeEnvironment \/ EndFlagging \/ EndDeleting \/ EndChanges
  BY <1>1, NoChangesStep, ChangeEnvironmentStep, PhaseStep, EndChangesStep
<1>2. CASE \E s \in States : FlagState(s)
  BY <1>2, FlagStateStep
<1>3. ASSUME NEW q \in Sequences,
             \/ StartSearch(q) \/ SearchStep(q) \/ UpdateBelief(q)
             \/ DeleteSequence(q)
             \/ StartRevision(q) \/ ReviseEntry(q) \/ EndRevision(q)
      PROVE  IInv'
  BY <1>3, StartSearchStep, SearchStepStep, UpdateBeliefStep, DeleteSequenceStep,
     StartRevisionStep, ReviseEntryStep, EndRevisionStep
<1>4. CASE UNCHANGED vars
  <2>1. UNCHANGED <<options, phase, steps, belief, history, affectedIdx, visits, continued,
                    deleted, changeRoot, isAffectedMap, toFlag, affected, revision>>
    BY <1>4 DEF vars, treeVars, changeVars
  <2>2. ControlOK' /\ RevisionOK' /\ TreeOK' /\ MapOK'
    BY <2>1 DEF IInv, ControlOK, RevisionOK, TreeOK, MapOK, Changing, Nodes
  <2>3. ASSUME NEW q \in Sequences PROVE HistoryOK(q)'
    <3>1. HistoryOK(q)
      BY DEF IInv, HistoriesOK
    <3>2. /\ Low(q)' = Low(q) /\ High(q)' = High(q)
          /\ (Searched(q)' <=> Searched(q)) /\ Nodes' = Nodes
      BY <2>1 DEF Low, High, Revised, Searched, Nodes
    <3>3. EndOK(q)' /\ RangeOK(q)' /\ PastOK(q)'
      BY <2>1, <3>1, <3>2 DEF HistoryOK, EndOK, RangeOK, PastOK
    <3>4. Placed(history[q], Nodes, belief)' /\ FlagsWithin(history[q], Low(q), High(q))'
      BY <2>1, <3>1, <3>2 DEF HistoryOK
    <3> QED
      BY <3>3, <3>4 DEF HistoryOK
  <2>4. HistoriesOK'
    BY <2>1, <2>3 DEF IInv, HistoriesOK
  <2> QED
    BY <2>2, <2>4 DEF IInv
<1> QED
  BY <1>1, <1>2, <1>3, <1>4 DEF Next

(* The inductive invariant: histories are sound, their flags lie within     *)
(* the range reviseSequence goes through, and nothing up to the change root *)
(* is to be generated again.                                                *)
THEOREM InvariantHolds == Spec => []IInv
BY InitOK, NextOK, PTL DEF Spec

(* The types, the depth limit and the entry a revision is at.               *)
THEOREM TypeCorrect == Spec => []TypeOK
<1>1. IInv => TypeOK
  <2> SUFFICES ASSUME IInv PROVE TypeOK
    OBVIOUS
  <2>1. ASSUME NEW q \in Sequences
        PROVE  /\ Len(history[q]) \in 0..(MaximumDepth + 1)
               /\ \A i \in DOMAIN history[q] : history[q][i] \in EntryType
               /\ affectedIdx[q] \in RangeType
    <3>1. HistoryTyped(history[q]) /\ affectedIdx[q] \in RangeType
      BY DEF IInv, HistoriesOK, HistoryOK, Placed, Sound, RangeOK
    <3> QED
      BY <3>1, HistoryElements, ChangeAssumption DEF HistoryTyped
  <2>2. changeRoot \subseteq Nodes /\ Cardinality(changeRoot) <= 1
    <3>1. CASE changeRoot = {}
      BY <3>1, FS_EmptySet
    <3>2. CASE changeRoot # {}
      <4>1. PICK r \in Nodes : changeRoot = {r}
        BY <3>2 DEF IInv, TreeOK
      <4>2. Cardinality(changeRoot) = 1
        BY <4>1, FS_Singleton
      <4> QED
        BY <4>1, <4>2
    <3> QED
      BY <3>1, <3>2
  <2>3. /\ revision.seq \subseteq Sequences
        /\ phase = "revising" => \A q \in revision.seq : revision.at \in DOMAIN history[q]
    <3>1. revision \in RevisionType
      BY DEF IInv, RevisionOK
    <3>2. revision.seq \subseteq Sequences
      BY <3>1 DEF RevisionType
    <3>3. ASSUME phase = "revising", NEW q \in revision.seq
          PROVE  revision.at \in DOMAIN history[q]
      <4>1. revision # NoRevision
        BY NoRevisionFields
      <4> QED
        BY <3>3, <4>1 DEF IInv, RevisionOK
    <3> QED
      BY <3>2, <3>3
  <2>4. /\ options \in [areDynamic : BOOLEAN, pruneEveryStep : BOOLEAN]
        /\ phase \in {"planning", "searching", "updated", "flagging", "deleting", "revising"}
        /\ steps \in 0..NSimulationSteps
        /\ deleted \subseteq Colliding /\ toFlag \subseteq deleted /\ affected \subseteq Sequences
    BY DEF IInv, ControlOK
  <2>5. /\ belief \in Nodes /\ Root \in Nodes
        /\ visits \in [Nodes -> Int] /\ continued \in [Nodes -> Int]
        /\ isAffectedMap \in [DOMAIN isAffectedMap -> BOOLEAN]
        /\ DOMAIN history = Sequences /\ DOMAIN affectedIdx = Sequences
    BY DEF IInv, TreeOK, MapOK, HistoriesOK
  <2> QED
    BY <2>1, <2>2, <2>3, <2>4, <2>5 DEF TypeOK, RangeType
<1> QED
  BY <1>1, InvariantHolds, PTL

(* Every entry stands at the node its history leads to, and the tree has    *)
(* it, in all phases of a change: what the updates dereference exists.      *)
THEOREM PathsCorrect == Spec => []PathsFollowObservations
<1>1. IInv => PathsFollowObservations
  <2> SUFFICES ASSUME IInv, NEW q \in Sequences, NEW i \in DOMAIN history[q],
                      i < Len(history[q])
               PROVE  LET e == history[q][i]
                      IN /\ history[q][i + 1].node = Child(e.node, e.action, e.observation)
                         /\ history[q][i + 1].node \in Nodes
    BY DEF PathsFollowObservations
  <2> DEFINE h == history[q]
  <2>1. Placed(h, Nodes, belief) /\ HistoryTyped(h) /\ Straight(h)
    BY DEF IInv, HistoriesOK, HistoryOK, Placed, Sound
  <2>2. i \in 1..(Len(h) - 1) /\ i + 1 \in DOMAIN h
    BY <2>1, HistoryElements
  <2> HIDE DEF h
  <2>3. h[i + 1].node = Child(h[i].node, h[i].action, h[i].observation)
    BY <2>1, <2>2, StraightSteps
  <2>4. h[i + 1].node \in Nodes
    BY <2>1, <2>2 DEF Placed
  <2> QED
    BY <2>3, <2>4 DEF h
<1> QED
  BY <1>1, InvariantHolds, PTL

(* Between changes nothing is flagged. *)
LEMMA AtRest ==
    ASSUME IInv, phase \in {"planning", "updated"}, NEW q \in Sequences
    PROVE  /\ affected = {} /\ isAffectedMap = [n \in {} |-> TRUE]
           /\ affectedIdx[q] = NoRange
           /\ \A j \in DOMAIN history[q] : history[q][j].flags = {}
           /\ Sound(history[q]) /\ CurrentEnd(history[q])
<1>1. affected = {} /\ isAffectedMap = [n \in {} |-> TRUE] /\ ~Revised(q) /\ ~Searched(q)
  BY DEF IInv, ControlOK, Changing, Revised, Searched
<1>2. HistoryOK(q)
  BY DEF IInv, HistoriesOK
<1>3. affectedIdx[q] = NoRange /\ \A j \in DOMAIN history[q] : history[q][j].flags = {}
  BY <1>1, <1>2, Unflagged
<1> QED
  BY <1>1, <1>2, <1>3 DEF HistoryOK, Placed, EndOK

(* Once changes are applied, or while none occur, every history is one the  *)
(* model may generate and its values are those of its states.               *)
THEOREM HistoriesAreCurrent == Spec => []HistoriesCurrent
<1>1. IInv => HistoriesCurrent
  <2> SUFFICES ASSUME IInv, phase \in {"planning", "updated"},
                      NEW q \in Sequences, NEW h, h = history[q], NEW i \in DOMAIN h
               PROVE  IF i < Len(h)
                      THEN /\ h[i + 1].state \in Moves[h[i].state][h[i].action]
                           /\ h[i].value = Reward(h[i].state, h[i].action, h[i + 1].state)
                      ELSE h[i].action = NoAction /\ (i > 1 => h[i].value = Heuristic(h[i].state))
    BY DEF HistoriesCurrent
  <2>1. Sound(h) /\ CurrentEnd(h) /\ \A j \in DOMAIN h : h[j].flags = {}
    BY AtRest
  <2>2. HistoryTyped(h) /\ CurrentSteps(h) /\ Len(h) \in Nat /\ DOMAIN h = 1..Len(h)
    BY <2>1, HistoryElements DEF Sound
  <2>3. CASE i < Len(h)
    <3>1. i \in 1..(Len(h) - 1) /\ h[i].flags = {}
      BY <2>1, <2>2, <2>3
    <3> QED
      BY <2>2, <2>3, <3>1 DEF CurrentSteps
  <2>4. CASE ~(i < Len(h))
    <3>1. i = Len(h) /\ h[i].flags = {} /\ i \in 1..Len(h)
      BY <2>1, <2>2, <2>4
    <3> QED
      BY <2>1, <2>2, <2>4, <3>1 DEF CurrentEnd, HistoryTyped
  <2> QED
    BY <2>3, <2>4
<1> QED
  BY <1>1, InvariantHolds, PTL

(* No flag of an entry, range or map entry outlives the changes it was     *)
(* made for.                                                               *)
THEOREM FlagsAreSpent == Spec => []FlagsSpent
<1>1. IInv => FlagsSpent
  <2> SUFFICES ASSUME IInv, phase \in {"planning", "updated"}
               PROVE  /\ affected = {} /\ isAffectedMap = [n \in {} |-> TRUE]
                      /\ \A q \in Sequences :
                            /\ affectedIdx[q] = NoRange
                            /\ \A i \in DOMAIN history[q] : history[q][i].flags = {}
    BY DEF FlagsSpent
  <2>1. affected = {} /\ isAffectedMap = [n \in {} |-> TRUE]
    BY DEF IInv, ControlOK, Changing
  <2> QED
    BY <2>1, AtRest
<1> QED
  BY <1>1, InvariantHolds, PTL

-----------------------------------------------------------------------------
(* The past is kept. *)

(* An action on one history leaves the others as they are.                  *)
LEMMA OnlyOneChanges ==
    ASSUME NEW q \in Sequences, NEW g, history' = [history EXCEPT ![q] = g],
           DOMAIN history = Sequences, NEW p \in Sequences, history'[p] # history[p]
    PROVE  p = q /\ history'[p] = g
OBVIOUS

LEMMA FlaggingKeepsStates ==
    ASSUME IInv, NEW s, FlagState(s), NEW q \in Sequences, NEW r \in changeRoot,
           history'[q] # history[q]
    PROVE  KeptUpTo(r, history[q], history'[q])
<1> DEFINE uses == Uses(s)
           h == history[q]
           g == WithFlags(q, uses)
           T == Raised(q, uses)
<1>1. phase = "flagging" /\ history'[q] = g
  BY DEF FlagState
<1>2. uses = Uses(s) /\ h = history[q] /\ g = WithFlags(q, uses) /\ T = Raised(q, uses)
  OBVIOUS
<1> HIDE DEF uses, h, g, T
<1>3. /\ \A j \in DOMAIN h : g[j].state = h[j].state
      /\ T = {} => g = h
      /\ T # {} => Through(h, r)
  BY <1>1, <1>2, FlagHistory
<1> QED
  BY <1>1, <1>2, <1>3 DEF KeptUpTo, Through

LEMMA DeletingIsThroughRoot ==
    ASSUME IInv, NEW q \in Sequences, DeleteSequence(q), NEW p \in Sequences,
           NEW r \in changeRoot, history'[p] # history[p]
    PROVE  KeptUpTo(r, history[p], history'[p])
<1>1. history' = [history EXCEPT ![q] = <<>>] /\ q \in affected
  BY DEF DeleteSequence, Doomed
<1>2. p = q /\ history'[p] = <<>>
  BY <1>1, OnlyOneChanges DEF IInv, HistoriesOK
<1>3. Through(history[p], r)
  BY <1>1, <1>2 DEF IInv, HistoriesOK, HistoryOK, PastOK
<1> QED
  BY <1>2, <1>3 DEF KeptUpTo, Through

(* What is generated again, or cut off, is below the root.                  *)
LEMMA GeneratedBelow ==
    ASSUME NEW h, Sound(h), NEW r \in Seq(Steps), PastKept(h, r),
           NEW i \in 1..(Len(h) - 1), "TRANSITION" \in h[i].flags,
           NEW j \in DOMAIN h, j > i
    PROVE  ~AtOrBelow(r, h[j].node)
<1>1. /\ HistoryTyped(h) /\ Straight(h) /\ i + 1 \in DOMAIN h /\ i \in Nat /\ j \in Nat
      /\ Len(h) \in Nat /\ Len(r) \in Nat
      /\ h[j].node \in Seq(Steps) /\ Len(h[j].node) \in Nat /\ Len(h[i + 1].node) \in Nat
  BY HistoryElements DEF Sound
<1>2. Len(h[i + 1].node) > Len(r)
  BY DEF PastKept
<1>3. Len(h[j].node) = Len(h[i + 1].node) + (j - (i + 1))
  <2>1. i + 1 <= j
    BY <1>1
  <2> QED
    BY <1>1, <2>1, StraightPrefixes
<1>4. Len(h[j].node) > Len(r)
  BY <1>1, <1>2, <1>3
<1>5. IsPrefix(h[j].node, r) => Len(h[j].node) <= Len(r)
  BY <1>1, PrefixElements
<1>6. ~IsPrefix(h[j].node, r)
  BY <1>1, <1>4, <1>5
<1> QED
  BY <1>6 DEF AtOrBelow

LEMMA RevisingKeepsStates ==
    ASSUME IInv, NEW q \in Sequences, ReviseEntry(q), NEW p \in Sequences,
           NEW r \in changeRoot, history'[p] # history[p]
    PROVE  KeptUpTo(r, history[p], history'[p])
<1> DEFINE h == history[q]
           i == revision.at
<1>1. phase = "revising" /\ revision.seq = {q}
  BY DEF ReviseEntry
<1>2. PICK n, flags, kept, g : Round(q, h, i, n, flags, kept, g)
  BY ReviseEntryHistory
<1>3. /\ q \in affected /\ HistoryOK(q) /\ Sound(h) /\ CurrentEnd(h)
      /\ DOMAIN h = 1..Len(h) /\ i \in Nat
  BY <1>1, RevisionFacts
<1>4. r \in Seq(Steps) /\ PastKept(h, r) /\ Through(h, r)
  BY <1>3 DEF HistoryOK, PastOK, IInv, TreeOK
<1>5. /\ i \in 1..(Len(h) - 1) /\ h[i].state \notin Terminal /\ n \in States
      /\ IF "TRANSITION" \in h[i].flags THEN n \in Moves[h[i].state][h[i].action]
                                        ELSE n = h[i + 1].state
      /\ Revises(h, i, flags, kept, n, g)
      /\ history' = [history EXCEPT ![q] = g]
  BY <1>2 DEF Round
<1>6. p = q /\ history'[p] = g
  BY <1>5, OnlyOneChanges DEF IInv, HistoriesOK
<1>7. h = history[p]
  BY <1>6
<1> HIDE DEF h, i
<1>8. /\ \A j \in DOMAIN h : j # i /\ j # i + 1 => g[j] = h[j]
      /\ g[i].state = h[i].state /\ g[i + 1].state = n
  BY <1>3, <1>5, RevisedIsSound
<1>9. ASSUME NEW j \in DOMAIN h, AtOrBelow(r, h[j].node) PROVE g[j].state = h[j].state
  <2>1. CASE j = i + 1
    <3>1. "TRANSITION" \notin h[i].flags
      <4>1. j > i
        BY <1>3, <2>1
      <4> QED
        BY <1>3, <1>4, <1>5, <1>9, <4>1, GeneratedBelow
    <3> QED
      BY <1>5, <1>8, <2>1, <3>1
  <2>2. CASE j # i + 1
    BY <1>8, <2>2
  <2> QED
    BY <2>1, <2>2
<1> QED
  BY <1>4, <1>6, <1>7, <1>9 DEF KeptUpTo, Through

LEMMA EndingKeepsStates ==
    ASSUME IInv, NEW q \in Sequences, EndRevision(q), NEW p \in Sequences,
           NEW r \in changeRoot, history'[p] # history[p]
    PROVE  KeptUpTo(r, history[p], history'[p])
<1> DEFINE h == history[q]
           i == revision.at
           g == EndedHistory(h, revision)
<1>1. phase = "revising" /\ revision.seq = {q}
  BY DEF EndRevision
<1>2. /\ q \in affected /\ HistoryOK(q) /\ Sound(h) /\ i \in DOMAIN h
      /\ DOMAIN h = 1..Len(h) /\ i \in Nat /\ Len(h) \in Nat
  BY <1>1, RevisionFacts
<1>3. r \in Seq(Steps) /\ PastKept(h, r) /\ Through(h, r)
  BY <1>2 DEF HistoryOK, PastOK, IInv, TreeOK
<1>4. h = history[q] /\ g = EndedHistory(h, revision) /\ i = revision.at
  OBVIOUS
<1> HIDE DEF h, g, i
<1>5. /\ history' = [history EXCEPT ![q] = g]
      /\ \A j \in DOMAIN g : g[j].state = h[j].state
      /\ \A j \in DOMAIN h \ DOMAIN g : j > i /\ "TRANSITION" \in h[i].flags
  BY <1>4, EndRevisionHistory DEF Ending
<1>6. p = q /\ history'[p] = g
  BY <1>5, OnlyOneChanges DEF IInv, HistoriesOK
<1>7. ASSUME NEW j \in DOMAIN h, AtOrBelow(r, h[j].node) PROVE g[j].state = h[j].state
  <2> SUFFICES ASSUME j \notin DOMAIN g PROVE FALSE
    BY <1>5
  <2>1. j > i /\ "TRANSITION" \in h[i].flags
    BY <1>5
  <2>2. i \in 1..(Len(h) - 1)
    BY <1>2, <2>1
  <2> QED
    BY <1>2, <1>3, <1>7, <2>1, <2>2, GeneratedBelow
<1> QED
  BY <1>3, <1>4, <1>6, <1>7 DEF KeptUpTo, Through

(* While changes are applied only histories through the change root are     *)
(* touched, and up to there they keep their states or are deleted.          *)
THEOREM PastIsKept == Spec => OnlyTheFutureChanges
<1>1. ASSUME IInv, [Next]_vars, Changing, NEW q \in Sequences, NEW r \in changeRoot,
             history'[q] # history[q]
      PROVE  KeptUpTo(r, history[q], history'[q])
  <2>1. CASE NoChanges \/ ChangeEnvironment \/ EndFlagging \/ EndDeleting \/ EndChanges
    BY <1>1, <2>1 DEF NoChanges, ChangeEnvironment, EndFlagging, EndDeleting, EndChanges
  <2>2. CASE \E s \in States : FlagState(s)
    BY <1>1, <2>2, FlaggingKeepsStates
  <2>3. ASSUME NEW p \in Sequences, StartSearch(p) \/ SearchStep(p) \/ UpdateBelief(p)
        PROVE  KeptUpTo(r, history[q], history'[q])
    BY <1>1, <2>3 DEF Changing, StartSearch, SearchStep, UpdateBelief
  <2>4. ASSUME NEW p \in Sequences, StartRevision(p)
        PROVE  KeptUpTo(r, history[q], history'[q])
    BY <1>1, <2>4 DEF StartRevision
  <2>5. ASSUME NEW p \in Sequences, DeleteSequence(p) \/ ReviseEntry(p) \/ EndRevision(p)
        PROVE  KeptUpTo(r, history[q], history'[q])
    BY <1>1, <2>5, DeletingIsThroughRoot, RevisingKeepsStates, EndingKeepsStates
  <2>6. CASE UNCHANGED vars
    BY <1>1, <2>6 DEF vars
  <2> QED
    BY <1>1, <2>1, <2>2, <2>3, <2>4, <2>5, <2>6 DEF Next
<1>2. IInv /\ [Next]_vars =>
        [Changing => \A q \in Sequences, r \in changeRoot :
            history'[q] # history[q] => KeptUpTo(r, history[q], history'[q])]_vars
  BY <1>1
<1> QED
  BY <1>2, InvariantHolds, PTL DEF Spec, OnlyTheFutureChanges

-----------------------------------------------------------------------------
(* Counting entries. *)

(* The entries of a history from lo to hi that stand at a node.             *)
Stops(h, lo, hi, n) == {j \in lo..hi : h[j].node = n}

LEMMA StopsFinite ==
    ASSUME NEW h, NEW lo \in Int, NEW hi \in Int, NEW n
    PROVE  /\ IsFiniteSet(Stops(h, lo, hi, n)) /\ Cardinality(Stops(h, lo, hi, n)) \in Nat
           /\ hi < lo => Cardinality(Stops(h, lo, hi, n)) = 0
<1>1. IsFiniteSet(lo..hi)
  BY FS_Interval
<1>2. IsFiniteSet(Stops(h, lo, hi, n))
  BY <1>1, FS_Subset DEF Stops
<1>3. hi < lo => Stops(h, lo, hi, n) = {}
  BY DEF Stops
<1> QED
  BY <1>2, <1>3, FS_CardinalityType, FS_EmptySet

LEMMA StopsSplit ==
    ASSUME NEW h, NEW lo \in Int, NEW mid \in Int, NEW hi \in Int, lo <= mid + 1, mid <= hi, NEW n
    PROVE  Cardinality(Stops(h, lo, hi, n))
             = Cardinality(Stops(h, lo, mid, n)) + Cardinality(Stops(h, mid + 1, hi, n))
<1> DEFINE A == Stops(h, lo, mid, n)
           B == Stops(h, mid + 1, hi, n)
<1>1. Stops(h, lo, hi, n) = A \cup B /\ A \cap B = {}
  BY DEF Stops
<1>2. /\ IsFiniteSet(A) /\ Cardinality(A) \in Nat
      /\ IsFiniteSet(B) /\ Cardinality(B) \in Nat
  BY StopsFinite
<1> HIDE DEF A, B
<1>3. Cardinality(A \cup B) = Cardinality(A) + Cardinality(B) - Cardinality(A \cap B)
  BY <1>2, FS_Union
<1>4. Cardinality(A \cap B) = 0
  BY <1>1, FS_EmptySet
<1> QED
  BY <1>1, <1>2, <1>3, <1>4 DEF A, B

LEMMA StopsSame ==
    ASSUME NEW h, NEW g, NEW lo, NEW hi, \A j \in lo..hi : g[j].node = h[j].node, NEW n
    PROVE  Stops(g, lo, hi, n) = Stops(h, lo, hi, n)
BY DEF Stops

(* The same of all histories, from the second entry of each to the one it   *)
(* is counted to.                                                           *)
AllStops(hs, upto, n) ==
    {u \in Sequences \X Nat : u[2] \in Stops(hs[u[1]], 2, upto[u[1]], n)}

Lasts == -1..(MaximumDepth + 1)

LEMMA AllStopsFinite ==
    ASSUME NEW hs, NEW upto, \A p \in Sequences : upto[p] \in Lasts, NEW n
    PROVE  IsFiniteSet(AllStops(hs, upto, n)) /\ Cardinality(AllStops(hs, upto, n)) \in Nat
<1> DEFINE D == 2..(MaximumDepth + 1)
<1>1. IsFiniteSet(Sequences) /\ MaximumDepth \in Nat
  BY ChangeAssumption
<1>2. IsFiniteSet(D)
  BY <1>1, FS_Interval
<1>3. AllStops(hs, upto, n) \subseteq Sequences \X D
  <2> SUFFICES ASSUME NEW u \in AllStops(hs, upto, n) PROVE u \in Sequences \X D
    OBVIOUS
  <2>1. u \in Sequences \X Nat /\ u[1] \in Sequences /\ u[2] \in 2..upto[u[1]]
    BY DEF AllStops, Stops
  <2>2. u[2] \in D
    BY <1>1, <2>1 DEF Lasts
  <2> QED
    BY <2>1, <2>2
<1>4. IsFiniteSet(Sequences \X D)
  BY <1>1, <1>2, FS_Product
<1> QED
  BY <1>3, <1>4, FS_Subset, FS_CardinalityType

(* One history takes the place of another.                                  *)
Replaces(hs, gs, a, b, q) ==
    /\ \A p \in Sequences : a[p] \in Lasts /\ b[p] \in Lasts
    /\ \A p \in Sequences : p # q => gs[p] = hs[p] /\ b[p] = a[p]

(* A count without the stops of h up to i, and with those of g up to j.     *)
Recount(count, h, i, g, j, n) ==
    count - Cardinality(Stops(h, 2, i, n)) + Cardinality(Stops(g, 2, j, n))

LEMMA StopsMove ==
    ASSUME NEW hs, NEW gs, NEW a, NEW b, NEW q \in Sequences, NEW n, Replaces(hs, gs, a, b, q)
    PROVE  /\ Cardinality(AllStops(hs, a, n)) \in Nat
           /\ Cardinality(Stops(hs[q], 2, a[q], n)) \in Nat
           /\ Cardinality(Stops(gs[q], 2, b[q], n)) \in Nat
           /\ Cardinality(AllStops(gs, b, n))
                = Recount(Cardinality(AllStops(hs, a, n)), hs[q], a[q], gs[q], b[q], n)
<1> DEFINE A == Stops(hs[q], 2, a[q], n)
           B == Stops(gs[q], 2, b[q], n)
           R == {u \in AllStops(hs, a, n) : u[1] # q}
<1>0. /\ \A p \in Sequences : a[p] \in Lasts /\ b[p] \in Lasts
      /\ \A p \in Sequences : p # q => gs[p] = hs[p] /\ b[p] = a[p]
  BY DEF Replaces
<1>1. /\ IsFiniteSet(A) /\ Cardinality(A) \in Nat /\ IsFiniteSet(B) /\ Cardinality(B) \in Nat
      /\ A \subseteq Nat /\ B \subseteq Nat
  <2>1. a[q] \in Int /\ b[q] \in Int /\ 2 \in Int
    BY <1>0, ChangeAssumption DEF Lasts
  <2>2. A \subseteq Nat /\ B \subseteq Nat
    BY <2>1 DEF Stops
  <2> QED
    BY <2>1, <2>2, StopsFinite
<1>2. IsFiniteSet(R) /\ Cardinality(R) \in Nat /\ Cardinality(AllStops(hs, a, n)) \in Nat
  <2>1. IsFiniteSet(AllStops(hs, a, n)) /\ Cardinality(AllStops(hs, a, n)) \in Nat
    BY <1>0, AllStopsFinite
  <2> QED
    BY <2>1, FS_Subset, FS_CardinalityType
<1>3. \A u \in Sequences \X Nat : u = <<u[1], u[2]>> /\ u[1] \in Sequences /\ u[2] \in Nat
  OBVIOUS
<1>4. AllStops(hs, a, n) = R \cup ({q} \X A)
  <2>1. ASSUME NEW u \in AllStops(hs, a, n), u[1] = q PROVE u \in {q} \X A
    <3>1. u \in Sequences \X Nat /\ u[2] \in A
      BY <2>1 DEF AllStops
    <3>2. u = <<q, u[2]>>
      BY <1>3, <2>1, <3>1
    <3> QED
      BY <3>1, <3>2
  <2>2. ASSUME NEW j \in A PROVE <<q, j>> \in AllStops(hs, a, n)
    BY <1>1 DEF AllStops
  <2> HIDE DEF A
  <2> QED
    BY <2>1, <2>2
<1>5. AllStops(gs, b, n) = R \cup ({q} \X B)
  <2>1. ASSUME NEW u \in AllStops(gs, b, n), u[1] = q PROVE u \in {q} \X B
    <3>1. u \in Sequences \X Nat /\ u[2] \in B
      BY <2>1 DEF AllStops
    <3>2. u = <<q, u[2]>>
      BY <1>3, <2>1, <3>1
    <3> QED
      BY <3>1, <3>2
  <2>2. ASSUME NEW j \in B PROVE <<q, j>> \in AllStops(gs, b, n)
    BY <1>1 DEF AllStops
  <2>3. ASSUME NEW u \in Sequences \X Nat, u[1] # q
        PROVE  u \in AllStops(gs, b, n) <=> u \in AllStops(hs, a, n)
    <3>1. gs[u[1]] = hs[u[1]] /\ b[u[1]] = a[u[1]]
      BY <1>0, <2>3
    <3> QED
      BY <3>1 DEF AllStops
  <2>4. AllStops(gs, b, n) \subseteq Sequences \X Nat /\ AllStops(hs, a, n) \subseteq Sequences \X Nat
    BY DEF AllStops
  <2> HIDE DEF B
  <2> QED
    BY <2>1, <2>2, <2>3, <2>4
<1>6. R \cap ({q} \X A) = {} /\ R \cap ({q} \X B) = {}
  OBVIOUS
<1> HIDE DEF A, B, R
<1>7. ASSUME NEW C, IsFiniteSet(C), Cardinality(C) \in Nat, R \cap ({q} \X C) = {}
      PROVE  Cardinality(R \cup ({q} \X C)) = Cardinality(R) + Cardinality(C)
  <2>1. IsFiniteSet({q}) /\ Cardinality({q}) = 1
    BY FS_Singleton
  <2>2. IsFiniteSet({q} \X C) /\ Cardinality({q} \X C) = 1 * Cardinality(C)
    BY <1>7, <2>1, FS_Product
  <2>3. Cardinality(R \cup ({q} \X C))
          = Cardinality(R) + Cardinality({q} \X C) - Cardinality(R \cap ({q} \X C))
    BY <1>2, <2>2, FS_Union
  <2>4. Cardinality(R \cap ({q} \X C)) = 0
    BY <1>7, FS_EmptySet
  <2> QED
    BY <1>2, <1>7, <2>2, <2>3, <2>4
<1>8. /\ Cardinality(AllStops(hs, a, n)) = Cardinality(R) + Cardinality(A)
      /\ Cardinality(AllStops(gs, b, n)) = Cardinality(R) + Cardinality(B)
  BY <1>1, <1>4, <1>5, <1>6, <1>7
<1> QED
  BY <1>1, <1>2, <1>8 DEF A, B, Recount

-----------------------------------------------------------------------------
(* What an update adds to the counts. *)

LEMMA Shifted ==
    ASSUME NEW T, T \subseteq Int, IsFiniteSet(T), NEW U, U = {i + 1 : i \in T}
    PROVE  Cardinality(U) = Cardinality(T)
<1> DEFINE f == [i \in T |-> i + 1]
<1>1. f \in [T -> U]
  OBVIOUS
<1>2. \A i, j \in T : f[i] = f[j] => i = j
  OBVIOUS
<1>3. \A u \in U : \E i \in T : f[i] = u
  OBVIOUS
<1> HIDE DEF f
<1>4. f \in Bijection(T, U)
  BY <1>1, <1>2, <1>3 DEF Bijection, Injection, Surjection, IsInjective
<1> QED
  BY <1>4, FS_Bijection DEF ExistsBijection

(* The stops of a history from lo to hi, added to a count or taken from it. *)
Counted(count, sgn, h, lo, hi, n) ==
    IF sgn = 1 THEN count + Cardinality(Stops(h, lo, hi, n))
               ELSE count - Cardinality(Stops(h, lo, hi, n))

LEMMA UpdateCounts ==
    ASSUME NEW h, HistoryTyped(h), Straight(h), NEW first \in Nat, first >= 1,
           first < Len(h) \/ Len(h) <= 1,
           NEW N, NEW count \in [N -> Int], NEW sgn \in {-1, 1}, NEW n \in N
    PROVE  /\ DOMAIN CountVisits(count, h, sgn, first) = N
           /\ DOMAIN CountContinuations(count, h, sgn, first) = N
           /\ CountVisits(count, h, sgn, first)[n]
                = Counted(count[n], sgn, h, first + 1, Len(h), n)
           /\ CountContinuations(count, h, sgn, first)[n]
                = Counted(count[n], sgn, h, first + 1, Len(h) - 1, n)
<1>1. Len(h) \in Nat /\ DOMAIN h = 1..Len(h) /\ count[n] \in Int /\ DOMAIN count = N
  BY HistoryElements
<1>2. /\ Cardinality(Stops(h, first + 1, Len(h), n)) \in Nat
      /\ Cardinality(Stops(h, first + 1, Len(h) - 1, n)) \in Nat
      /\ Len(h) <= 1 => /\ Cardinality(Stops(h, first + 1, Len(h), n)) = 0
                        /\ Cardinality(Stops(h, first + 1, Len(h) - 1, n)) = 0
  BY <1>1, StopsFinite
<1>3. CASE Len(h) <= 1
  <2>1. /\ CountVisits(count, h, sgn, first) = count
        /\ CountContinuations(count, h, sgn, first) = count
    BY <1>3 DEF CountVisits, CountContinuations
  <2> QED
    BY <1>1, <1>2, <1>3, <2>1 DEF Counted
<1>4. CASE ~(Len(h) <= 1)
  <2> DEFINE V == {i \in Updated(h, first) : Child(h[i].node, h[i].action, h[i].observation) = n}
             C == {i \in Updated(h, first) : i + 1 < Len(h) /\ h[i + 1].node = n}
  <2>1. Updated(h, first) = first..(Len(h) - 1) /\ IsFiniteSet(Updated(h, first))
    <3>1. Updated(h, first) = first..(Len(h) - 1)
      BY <1>1, <1>4 DEF Updated
    <3> QED
      BY <1>1, <3>1, FS_Interval
  <2>2. \A i \in Updated(h, first) :
            h[i + 1].node = Child(h[i].node, h[i].action, h[i].observation)
    <3>1. \A i \in Updated(h, first) : i \in 1..(Len(h) - 1)
      BY <2>1
    <3> QED
      BY <3>1, StraightSteps
  <2>3. /\ V \subseteq Int /\ C \subseteq Int
        /\ Stops(h, first + 1, Len(h), n) = {i + 1 : i \in V}
        /\ Stops(h, first + 1, Len(h) - 1, n) = {i + 1 : i \in C}
    <3>1. V = {i \in first..(Len(h) - 1) : h[i + 1].node = n}
      BY <2>1, <2>2
    <3>2. C = {i \in first..(Len(h) - 1) : i + 1 < Len(h) /\ h[i + 1].node = n}
      BY <2>1
    <3> HIDE DEF V, C
    <3>3. V \subseteq Int /\ C \subseteq Int
      BY <3>1, <3>2
    <3>4. ASSUME NEW j \in Stops(h, first + 1, Len(h), n)
          PROVE  \E i \in V : j = i + 1
      <4>1. j \in (first + 1)..Len(h) /\ h[j].node = n
        BY DEF Stops
      <4>2. j - 1 \in first..(Len(h) - 1) /\ (j - 1) + 1 = j
        BY <1>1, <4>1
      <4> QED
        BY <3>1, <4>1, <4>2
    <3>5. ASSUME NEW j \in Stops(h, first + 1, Len(h) - 1, n)
          PROVE  \E i \in C : j = i + 1
      <4>1. j \in (first + 1)..(Len(h) - 1) /\ h[j].node = n
        BY DEF Stops
      <4>2. j - 1 \in first..(Len(h) - 1) /\ (j - 1) + 1 = j /\ j < Len(h)
        BY <1>1, <4>1
      <4> QED
        BY <3>2, <4>1, <4>2
    <3>6. \A i \in V : i + 1 \in Stops(h, first + 1, Len(h), n)
      BY <1>1, <3>1 DEF Stops
    <3>7. \A i \in C : i + 1 \in Stops(h, first + 1, Len(h) - 1, n)
      BY <1>1, <3>2 DEF Stops
    <3> QED
      BY <3>3, <3>4, <3>5, <3>6, <3>7
  <2>4. /\ CountVisits(count, h, sgn, first)[n] = count[n] + sgn * Cardinality(V)
        /\ CountContinuations(count, h, sgn, first)[n] = count[n] + sgn * Cardinality(C)
        /\ DOMAIN CountVisits(count, h, sgn, first) = N
        /\ DOMAIN CountContinuations(count, h, sgn, first) = N
    BY <1>1, <1>4 DEF CountVisits, CountContinuations
  <2>5. IsFiniteSet(V) /\ IsFiniteSet(C)
    <3>1. V \subseteq Updated(h, first) /\ C \subseteq Updated(h, first)
      OBVIOUS
    <3> HIDE DEF V, C
    <3> QED
      BY <2>1, <3>1, FS_Subset
  <2> HIDE DEF V, C
  <2>6. /\ Cardinality(Stops(h, first + 1, Len(h), n)) = Cardinality(V)
        /\ Cardinality(Stops(h, first + 1, Len(h) - 1, n)) = Cardinality(C)
    BY <2>3, <2>5, Shifted
  <2>7. CASE sgn = 1
    BY <1>1, <1>2, <2>4, <2>6, <2>7 DEF Counted
  <2>8. CASE sgn = -1
    BY <1>1, <1>2, <2>4, <2>6, <2>8 DEF Counted
  <2> QED
    BY <2>7, <2>8
<1> QED
  BY <1>3, <1>4

-----------------------------------------------------------------------------
(* The counts, in all phases. *)

(* What is counted of a history: nothing before its search ends, and the    *)
(* nodes up to the entry it diverged at while a revision goes on.           *)
CountedTo ==
    [p \in Sequences |->
        IF Searched(p) THEN 0
        ELSE IF Revised(p) /\ revision.divergingEntry # 0 THEN revision.divergingEntry
        ELSE Len(history[p])]

ContinuedTo ==
    [p \in Sequences |->
        IF Searched(p) THEN 0
        ELSE IF Revised(p) /\ revision.divergingEntry # 0 THEN revision.divergingEntry
        ELSE Len(history[p]) - 1]

Counts ==
    \A n \in Nodes : Trusted(n) =>
        /\ visits[n] = Cardinality(AllStops(history, CountedTo, n))
        /\ continued[n] <= Cardinality(AllStops(history, ContinuedTo, n))

DivergedBefore == \A q \in Sequences : Revised(q) => revision.divergingEntry < revision.at

CInv == Counts /\ DivergedBefore

(* A history is counted as far as it goes, at most.                         *)
CountedWithin ==
    \A p \in Sequences :
        /\ CountedTo[p] \in Lasts /\ ContinuedTo[p] \in Lasts
        /\ CountedTo[p] <= Len(history[p]) /\ ContinuedTo[p] <= Len(history[p])
        /\ DOMAIN history[p] = 1..Len(history[p]) /\ Len(history[p]) \in Nat

LEMMA CountsAreWithin == IInv /\ DivergedBefore => CountedWithin
<1> SUFFICES ASSUME IInv, DivergedBefore, NEW p \in Sequences
             PROVE  /\ CountedTo[p] \in Lasts /\ ContinuedTo[p] \in Lasts
                    /\ CountedTo[p] <= Len(history[p]) /\ ContinuedTo[p] <= Len(history[p])
                    /\ DOMAIN history[p] = 1..Len(history[p]) /\ Len(history[p]) \in Nat
  BY DEF CountedWithin
<1> DEFINE l == Len(history[p])
<1>1. l \in Nat /\ l <= MaximumDepth + 1 /\ MaximumDepth \in Nat /\ DOMAIN history[p] = 1..l
  <2>1. HistoryTyped(history[p])
    BY DEF IInv, HistoriesOK, HistoryOK, Placed, Sound
  <2> QED
    BY <2>1, HistoryElements, ChangeAssumption DEF HistoryTyped
<1>2. Revised(p) => /\ revision.divergingEntry \in Nat /\ revision.divergingEntry < l
  <2> SUFFICES ASSUME Revised(p) PROVE /\ revision.divergingEntry \in Nat /\ revision.divergingEntry < l
    OBVIOUS
  <2>1. revision.divergingEntry \in Nat /\ revision.at \in 1..l
    BY <1>1, RevisionFacts DEF Revised
  <2>2. revision.divergingEntry < revision.at
    BY DEF DivergedBefore
  <2> QED
    BY <1>1, <2>1, <2>2
<1>3. CountedTo[p] \in {0, l} \/ (Revised(p) /\ CountedTo[p] = revision.divergingEntry)
  BY DEF CountedTo
<1>4. ContinuedTo[p] \in {0, l - 1} \/ (Revised(p) /\ ContinuedTo[p] = revision.divergingEntry)
  BY DEF ContinuedTo
<1> HIDE DEF l
<1>5. CountedTo[p] \in Lasts /\ CountedTo[p] <= l
  BY <1>1, <1>2, <1>3 DEF Lasts
<1>6. ContinuedTo[p] \in Lasts /\ ContinuedTo[p] <= l
  BY <1>1, <1>2, <1>4 DEF Lasts
<1> QED
  BY <1>1, <1>5, <1>6 DEF l

LEMMA CountsAreWithinThen == IInv' /\ DivergedBefore' => CountedWithin'
BY CountsAreWithin, PTL

(* Histories go through nodes of the tree.                                  *)
LEMMA NoStops ==
    ASSUME IInv, CountedWithin, NEW n, n \notin Nodes
    PROVE  /\ \A p \in Sequences : \A hi \in Int : hi <= Len(history[p]) => Stops(history[p], 2, hi, n) = {}
           /\ AllStops(history, CountedTo, n) = {} /\ AllStops(history, ContinuedTo, n) = {}
<1>1. ASSUME NEW p \in Sequences, NEW hi \in Int, hi <= Len(history[p])
      PROVE  Stops(history[p], 2, hi, n) = {}
  <2>1. \A j \in 2..hi : j \in DOMAIN history[p]
    BY <1>1 DEF CountedWithin
  <2>2. \A j \in DOMAIN history[p] : history[p][j].node \in Nodes
    BY DEF IInv, HistoriesOK, HistoryOK, Placed
  <2> QED
    BY <2>1, <2>2 DEF Stops
<1>2. \A p \in Sequences : Stops(history[p], 2, CountedTo[p], n) = {}
                           /\ Stops(history[p], 2, ContinuedTo[p], n) = {}
  <2>1. \A p \in Sequences : /\ CountedTo[p] \in Int /\ CountedTo[p] <= Len(history[p])
                             /\ ContinuedTo[p] \in Int /\ ContinuedTo[p] <= Len(history[p])
    BY ChangeAssumption DEF CountedWithin, Lasts
  <2> QED
    BY <1>1, <2>1
<1> QED
  BY <1>1, <1>2 DEF AllStops

Before(count, n) == IF n \in DOMAIN count THEN count[n] ELSE 0

LEMMA CountsBefore ==
    ASSUME IInv, CInv, CountedWithin, NEW n, Trusted(n)
    PROVE  /\ Before(visits, n) \in Int /\ Before(continued, n) \in Int
           /\ Before(visits, n) = Cardinality(AllStops(history, CountedTo, n))
           /\ Before(continued, n) <= Cardinality(AllStops(history, ContinuedTo, n))
<1>1. visits \in [Nodes -> Int] /\ continued \in [Nodes -> Int]
  BY DEF IInv, TreeOK
<1>2. CASE n \in Nodes
  BY <1>1, <1>2 DEF CInv, Counts, Before
<1>3. CASE n \notin Nodes
  <2>1. AllStops(history, CountedTo, n) = {} /\ AllStops(history, ContinuedTo, n) = {}
    BY <1>3, NoStops
  <2>2. Cardinality({}) = 0
    BY FS_EmptySet
  <2>3. Before(visits, n) = 0 /\ Before(continued, n) = 0
    BY <1>1, <1>3 DEF Before
  <2> QED
    BY <2>1, <2>2, <2>3
<1> QED
  BY <1>2, <1>3

(* One history changes, and with it the counts.                             *)
LEMMA HistoryReplaced ==
    ASSUME NEW q \in Sequences, NEW n,
           Replaces(history, history', CountedTo, CountedTo', q),
           Replaces(history, history', ContinuedTo, ContinuedTo', q)
    PROVE  /\ Cardinality(AllStops(history', CountedTo', n))
                = Recount(Cardinality(AllStops(history, CountedTo, n)),
                          history[q], CountedTo[q], history'[q], CountedTo'[q], n)
           /\ Cardinality(AllStops(history', ContinuedTo', n))
                = Recount(Cardinality(AllStops(history, ContinuedTo, n)),
                          history[q], ContinuedTo[q], history'[q], ContinuedTo'[q], n)
           /\ Cardinality(AllStops(history, ContinuedTo, n)) \in Nat
           /\ Cardinality(Stops(history[q], 2, ContinuedTo[q], n)) \in Nat
           /\ Cardinality(Stops(history'[q], 2, ContinuedTo'[q], n)) \in Nat
<1>1. Cardinality(AllStops(history', CountedTo', n))
        = Recount(Cardinality(AllStops(history, CountedTo, n)),
                  history[q], CountedTo[q], history'[q], CountedTo'[q], n)
  BY StopsMove
<1>2. Cardinality(AllStops(history', ContinuedTo', n))
        = Recount(Cardinality(AllStops(history, ContinuedTo, n)),
                  history[q], ContinuedTo[q], history'[q], ContinuedTo'[q], n)
  BY StopsMove
<1>3. /\ Cardinality(AllStops(history, ContinuedTo, n)) \in Nat
      /\ Cardinality(Stops(history[q], 2, ContinuedTo[q], n)) \in Nat
      /\ Cardinality(Stops(history'[q], 2, ContinuedTo'[q], n)) \in Nat
  BY StopsMove
<1> QED
  BY <1>1, <1>2, <1>3

LEMMA OneCounted ==
    ASSUME IInv, CInv, CountedWithin, CountedWithin',
           NEW q \in Sequences, NEW h, h = history[q], NEW g, history' = [history EXCEPT ![q] = g],
           UNCHANGED <<belief, options>>,
           \A p \in Sequences : p # q => /\ CountedTo'[p] = CountedTo[p]
                                         /\ ContinuedTo'[p] = ContinuedTo[p],
           \A n \in Nodes' :
               /\ visits'[n] = Recount(Before(visits, n), h, CountedTo[q], g, CountedTo'[q], n)
               /\ continued'[n] \in Int
               /\ continued'[n] <= Recount(Before(continued, n), h, ContinuedTo[q],
                                           g, ContinuedTo'[q], n)
    PROVE  Counts'
<1> SUFFICES ASSUME NEW n \in Nodes', Trusted(n)'
             PROVE  /\ visits'[n] = Cardinality(AllStops(history', CountedTo', n))
                    /\ continued'[n] <= Cardinality(AllStops(history', ContinuedTo', n))
  BY DEF Counts, AllStops
<1>1. Trusted(n)
  BY DEF Trusted
<1>2. /\ Before(visits, n) \in Int /\ Before(continued, n) \in Int
      /\ Before(visits, n) = Cardinality(AllStops(history, CountedTo, n))
      /\ Before(continued, n) <= Cardinality(AllStops(history, ContinuedTo, n))
  BY <1>1, CountsBefore
<1>3. /\ history'[q] = g /\ \A p \in Sequences : p # q => history'[p] = history[p]
  BY DEF IInv, HistoriesOK
<1>4. \A p \in Sequences : /\ CountedTo[p] \in Lasts /\ CountedTo'[p] \in Lasts
                           /\ ContinuedTo[p] \in Lasts /\ ContinuedTo'[p] \in Lasts
  BY DEF CountedWithin
<1>5. /\ Replaces(history, history', CountedTo, CountedTo', q)
      /\ Replaces(history, history', ContinuedTo, ContinuedTo', q)
  BY <1>3, <1>4 DEF Replaces
<1>6. /\ Cardinality(AllStops(history', CountedTo', n))
           = Recount(Cardinality(AllStops(history, CountedTo, n)),
                     h, CountedTo[q], g, CountedTo'[q], n)
      /\ Cardinality(AllStops(history', ContinuedTo', n))
           = Recount(Cardinality(AllStops(history, ContinuedTo, n)),
                     h, ContinuedTo[q], g, ContinuedTo'[q], n)
      /\ Cardinality(AllStops(history, ContinuedTo, n)) \in Nat
      /\ Cardinality(Stops(h, 2, ContinuedTo[q], n)) \in Nat
      /\ Cardinality(Stops(g, 2, ContinuedTo'[q], n)) \in Nat
  BY <1>3, <1>5, HistoryReplaced
<1>7. visits'[n] = Cardinality(AllStops(history', CountedTo', n))
  BY <1>2, <1>6
<1>8. continued'[n] <= Cardinality(AllStops(history', ContinuedTo', n))
  <2> DEFINE x == Before(continued, n)
             y == Cardinality(AllStops(history, ContinuedTo, n))
             l == Cardinality(Stops(h, 2, ContinuedTo[q], n))
             m == Cardinality(Stops(g, 2, ContinuedTo'[q], n))
  <2>1. /\ continued'[n] \in Int /\ x \in Int /\ x <= y
        /\ y \in Nat /\ l \in Nat /\ m \in Nat
    BY <1>2, <1>6
  <2>2. continued'[n] <= x - l + m
    BY DEF Recount
  <2>3. Cardinality(AllStops(history', ContinuedTo', n)) = y - l + m
    BY <1>6 DEF Recount
  <2> HIDE DEF x, y, l, m
  <2> QED
    BY <2>1, <2>2, <2>3
<1> QED
  BY <1>7, <1>8

(* Nothing is counted, and no history goes another way.                     *)
LEMMA NoneCounted ==
    ASSUME IInv, CInv, CountedWithin,
           UNCHANGED <<belief, options, visits, continued>>,
           \A p \in Sequences : /\ CountedTo'[p] = CountedTo[p] /\ ContinuedTo'[p] = ContinuedTo[p]
                                /\ \A j \in DOMAIN history[p] : history'[p][j].node = history[p][j].node
    PROVE  Counts'
<1> SUFFICES ASSUME NEW n \in Nodes, Trusted(n)
             PROVE  /\ visits[n] = Cardinality(AllStops(history', CountedTo', n))
                    /\ continued[n] <= Cardinality(AllStops(history', ContinuedTo', n))
  BY DEF Counts, AllStops, Trusted, Nodes
<1>1. ASSUME NEW p \in Sequences, NEW hi \in Lasts, hi <= Len(history[p])
      PROVE  Stops(history'[p], 2, hi, n) = Stops(history[p], 2, hi, n)
  <2>1. \A j \in 2..hi : j \in DOMAIN history[p]
    BY <1>1, ChangeAssumption DEF CountedWithin, Lasts
  <2> QED
    BY <2>1, StopsSame
<1>2. \A p \in Sequences :
          /\ Stops(history'[p], 2, CountedTo'[p], n) = Stops(history[p], 2, CountedTo[p], n)
          /\ Stops(history'[p], 2, ContinuedTo'[p], n) = Stops(history[p], 2, ContinuedTo[p], n)
  BY <1>1 DEF CountedWithin
<1>3. /\ AllStops(history', CountedTo', n) = AllStops(history, CountedTo, n)
      /\ AllStops(history', ContinuedTo', n) = AllStops(history, ContinuedTo, n)
  BY <1>2 DEF AllStops
<1> QED
  BY <1>3 DEF CInv, Counts

-----------------------------------------------------------------------------
(* Steps that count nothing. *)

LEMMA WholeCounted ==
    /\ \A p \in Sequences : ~Searched(p) /\ (Revised(p) => revision.divergingEntry = 0) =>
          CountedTo[p] = Len(history[p]) /\ ContinuedTo[p] = Len(history[p]) - 1
    /\ \A p \in Sequences : ~Searched(p)' /\ (Revised(p)' => revision'.divergingEntry = 0) =>
          CountedTo'[p] = Len(history'[p]) /\ ContinuedTo'[p] = Len(history'[p]) - 1
BY DEF CountedTo, ContinuedTo

LEMMA NothingCounted ==
    ASSUME IInv, CInv, UNCHANGED <<options, belief, history, visits, continued>>,
           \A p \in Sequences : CountedTo'[p] = CountedTo[p] /\ ContinuedTo'[p] = ContinuedTo[p],
           DivergedBefore'
    PROVE  CInv'
<1>1. CountedWithin
  BY CountsAreWithin DEF CInv
<1>2. \A p \in Sequences : \A j \in DOMAIN history[p] : history'[p][j].node = history[p][j].node
  OBVIOUS
<1>3. Counts'
  BY <1>1, <1>2, NoneCounted
<1> QED
  BY <1>3 DEF CInv

LEMMA QuietCounts ==
    ASSUME IInv, CInv,
           NoChanges \/ ChangeEnvironment \/ EndFlagging \/ EndDeleting \/ EndChanges
    PROVE  CInv'
<1>1. /\ UNCHANGED <<options, belief, history, visits, continued, revision>>
      /\ phase \in {"updated", "flagging", "deleting", "revising"}
      /\ phase' \in {"planning", "flagging", "deleting", "revising"}
  BY DEF NoChanges, ChangeEnvironment, EndFlagging, EndDeleting, EndChanges, treeVars
<1>2. revision = NoRevision
  <2>1. phase = "revising" => EndChanges
    BY DEF NoChanges, ChangeEnvironment, EndFlagging, EndDeleting
  <2>2. phase = "revising" => affected = {}
    BY <2>1 DEF EndChanges
  <2>3. phase # "searching"
    BY <1>1
  <2> QED
    BY <2>2, <2>3 DEF IInv, RevisionOK
<1>3. \A p : ~Searched(p) /\ ~Revised(p) /\ ~Searched(p)' /\ ~Revised(p)'
  BY <1>1, <1>2 DEF NoRevision, Searched, Revised
<1>4. \A p \in Sequences : CountedTo'[p] = CountedTo[p] /\ ContinuedTo'[p] = ContinuedTo[p]
  BY <1>1, <1>3, WholeCounted
<1>5. DivergedBefore'
  BY <1>3 DEF DivergedBefore
<1> QED
  BY <1>1, <1>4, <1>5, NothingCounted

LEMMA StutterCounts ==
    ASSUME IInv, CInv, UNCHANGED vars PROVE CInv'
<1>1. UNCHANGED <<options, belief, history, visits, continued, revision, phase>>
  BY DEF vars, treeVars
<1>2. \A p : (Searched(p)' <=> Searched(p)) /\ (Revised(p)' <=> Revised(p))
  BY <1>1 DEF Searched, Revised
<1>3. \A p \in Sequences : CountedTo'[p] = CountedTo[p] /\ ContinuedTo'[p] = ContinuedTo[p]
  BY <1>1, <1>2 DEF CountedTo, ContinuedTo
<1>4. DivergedBefore'
  BY <1>1, <1>2 DEF CInv, DivergedBefore
<1> QED
  BY <1>1, <1>3, <1>4, NothingCounted

LEMMA StartRevisionCounts ==
    ASSUME IInv, CInv, NEW q \in Sequences, StartRevision(q) PROVE CInv'
<1>1. /\ phase = "revising" /\ phase' = "revising" /\ revision = NoRevision
      /\ UNCHANGED <<options, belief, history, visits, continued>>
      /\ \/ revision' = NoRevision
         \/ /\ ~(affectedIdx[q].end < affectedIdx[q].start)
            /\ revision' = [seq |-> {q}, at |-> affectedIdx[q].start,
                            firstUnchanged |-> affectedIdx[q].end + 1, divergingEntry |-> 0]
  BY DEF StartRevision, treeVars
<1>2. affectedIdx[q].start \in Nat /\ affectedIdx[q].start > 0
  <2>1. affectedIdx[q] \in RangeType
    BY DEF IInv, HistoriesOK, HistoryOK, RangeOK
  <2> QED
    BY <2>1, ChangeAssumption DEF RangeType
<1>3. \A p : ~Searched(p) /\ ~Revised(p) /\ ~Searched(p)'
  BY <1>1 DEF NoRevision, Searched, Revised
<1>4. revision'.divergingEntry = 0
  BY <1>1 DEF NoRevision
<1>5. \A p \in Sequences : CountedTo'[p] = CountedTo[p] /\ ContinuedTo'[p] = ContinuedTo[p]
  BY <1>1, <1>3, <1>4, WholeCounted
<1>6. DivergedBefore'
  BY <1>1, <1>2, <1>4 DEF DivergedBefore, Revised, NoRevision
<1> QED
  BY <1>1, <1>5, <1>6, NothingCounted

LEMMA FlagStateCounts ==
    ASSUME IInv, CInv, NEW s, FlagState(s) PROVE CInv'
<1>1. /\ phase = "flagging" /\ phase' = "flagging" /\ revision = NoRevision
      /\ UNCHANGED <<options, belief, visits, continued, revision>>
  BY DEF IInv, FlagState, RevisionOK, treeVars
<1>2. PICK uses : uses = Uses(s)
  OBVIOUS
<1>3. history' = [q \in Sequences |-> WithFlags(q, uses)]
  BY <1>2 DEF FlagState
<1>4. ASSUME NEW p \in Sequences
      PROVE  /\ Len(history'[p]) = Len(history[p])
             /\ \A j \in DOMAIN history[p] : history'[p][j].node = history[p][j].node
  <2>1. PICK h, g, T : h = history[p] /\ g = WithFlags(p, uses) /\ T = Raised(p, uses)
    OBVIOUS
  <2>2. Len(g) = Len(h) /\ \A j \in DOMAIN h : g[j].node = h[j].node
    BY <1>1, <1>2, <2>1, FlagHistory
  <2> QED
    BY <1>3, <2>1, <2>2
<1>5. \A p : ~Searched(p) /\ ~Revised(p) /\ ~Searched(p)' /\ ~Revised(p)'
  BY <1>1 DEF NoRevision, Searched, Revised
<1>6. \A p \in Sequences : CountedTo'[p] = CountedTo[p] /\ ContinuedTo'[p] = ContinuedTo[p]
  BY <1>4, <1>5, WholeCounted
<1>7. CountedWithin
  BY CountsAreWithin DEF CInv
<1>8. Counts'
  BY <1>1, <1>4, <1>6, <1>7, NoneCounted
<1> QED
  BY <1>5, <1>8 DEF CInv, DivergedBefore

-----------------------------------------------------------------------------
(* Steps that count one history. *)

LEMMA OthersCounted ==
    ASSUME HistoriesOK, NEW q, NEW g, history' = [history EXCEPT ![q] = g],
           \A p \in Sequences : p # q => ~Searched(p) /\ ~Revised(p) /\ ~Searched(p)' /\ ~Revised(p)'
    PROVE  \A p \in Sequences : p # q => /\ CountedTo'[p] = CountedTo[p]
                                         /\ ContinuedTo'[p] = ContinuedTo[p]
<1>1. \A p \in Sequences : p # q => history'[p] = history[p]
  BY DEF HistoriesOK
<1> QED
  BY <1>1, WholeCounted

LEMMA OnlyOne ==
    ASSUME NEW q, revision.seq \subseteq {q}, revision'.seq \subseteq {q}
    PROVE  \A p : p # q => ~Searched(p) /\ ~Revised(p) /\ ~Searched(p)' /\ ~Revised(p)'
BY DEF Searched, Revised

LEMMA NoneToRecount ==
    ASSUME NEW x \in Int, NEW h, NEW g, NEW i \in Int, i < 2, NEW j \in Int, j < 2, NEW n
    PROVE  Recount(x, h, i, g, j, n) = x
<1>1. Cardinality(Stops(h, 2, i, n)) = 0 /\ Cardinality(Stops(g, 2, j, n)) = 0
  BY StopsFinite
<1> QED
  BY <1>1 DEF Recount

LEMMA StartSearchCounts ==
    ASSUME IInv, IInv', CInv, NEW q \in Sequences, StartSearch(q) PROVE CInv'
<1>1. /\ phase = "planning" /\ revision = NoRevision /\ history[q] = <<>>
      /\ UNCHANGED <<options, belief, visits, continued>>
  BY DEF IInv, StartSearch, Free, RevisionOK, treeVars
<1>2. PICK s :
          /\ history' = [history EXCEPT ![q] = <<LastEntry(s, belief)>>]
          /\ IF s \in Terminal
             THEN UNCHANGED <<phase, revision>>
             ELSE phase' = "searching" /\ revision' = [NoRevision EXCEPT !.seq = {q}]
  BY DEF StartSearch
<1>3. PICK h, g : h = history[q] /\ g = <<LastEntry(s, belief)>>
  OBVIOUS
<1>4. Len(h) = 0 /\ Len(g) = 1
  BY <1>1, <1>3
<1>5. /\ revision.seq \subseteq {q} /\ revision'.seq \subseteq {q}
      /\ ~Revised(q) /\ ~Searched(q) /\ \A p : ~Revised(p)'
  BY <1>1, <1>2 DEF NoRevision, Revised, Searched
<1>6. \A p \in Sequences : p # q => /\ CountedTo'[p] = CountedTo[p]
                                    /\ ContinuedTo'[p] = ContinuedTo[p]
  <2>1. history' = [history EXCEPT ![q] = g] /\ HistoriesOK
    BY <1>2, <1>3 DEF IInv
  <2> QED
    BY <1>5, <2>1, OnlyOne, OthersCounted
<1>7. DivergedBefore'
  BY <1>5 DEF DivergedBefore
<1>8. CountedWithin /\ CountedWithin'
  BY <1>7, CountsAreWithin, CountsAreWithinThen DEF CInv
<1>9. /\ CountedTo[q] = 0 /\ ContinuedTo[q] = -1
      /\ CountedTo'[q] \in {0, 1} /\ ContinuedTo'[q] \in {0}
  <2>1. history'[q] = g
    BY <1>2, <1>3 DEF IInv, HistoriesOK
  <2> QED
    BY <1>3, <1>4, <1>5, <2>1 DEF CountedTo, ContinuedTo
<1>10. ASSUME NEW n \in Nodes'
       PROVE  /\ visits'[n] = Recount(Before(visits, n), h, CountedTo[q], g, CountedTo'[q], n)
              /\ continued'[n] \in Int
              /\ continued'[n] <= Recount(Before(continued, n), h, ContinuedTo[q],
                                          g, ContinuedTo'[q], n)
  <2>1. /\ Before(visits, n) = visits[n] /\ Before(continued, n) = continued[n]
        /\ visits[n] \in Int /\ continued[n] \in Int
        /\ visits'[n] = visits[n] /\ continued'[n] = continued[n]
    <3>1. n \in Nodes /\ visits \in [Nodes -> Int] /\ continued \in [Nodes -> Int]
      BY <1>1 DEF IInv, TreeOK, Nodes
    <3> QED
      BY <1>1, <3>1 DEF Before
  <2>2. Recount(visits[n], h, CountedTo[q], g, CountedTo'[q], n) = visits[n]
    BY <1>9, <2>1, NoneToRecount
  <2>3. Recount(continued[n], h, ContinuedTo[q], g, ContinuedTo'[q], n) = continued[n]
    BY <1>9, <2>1, NoneToRecount
  <2> QED
    BY <2>1, <2>2, <2>3
<1>11. Counts'
  BY <1>1, <1>2, <1>3, <1>6, <1>8, <1>10, OneCounted
<1> QED
  BY <1>7, <1>11 DEF CInv

LEMMA DeleteSequenceCounts ==
    ASSUME IInv, IInv', CInv, NEW q \in Sequences, DeleteSequence(q) PROVE CInv'
<1>1. /\ phase = "deleting" /\ phase' = "deleting" /\ revision = NoRevision
      /\ UNCHANGED <<options, belief, revision>>
      /\ visits' = CountVisits(visits, history[q], -1, 1)
      /\ continued' = CountContinuations(continued, history[q], -1, 1)
      /\ history' = [history EXCEPT ![q] = <<>>]
  BY DEF IInv, DeleteSequence, RevisionOK
<1>2. PICK h, g : h = history[q] /\ g = <<>>
  OBVIOUS
<1>3. /\ HistoryTyped(h) /\ Straight(h) /\ Len(h) \in Nat /\ Len(g) = 0
  BY <1>2, HistoryElements DEF IInv, HistoriesOK, HistoryOK, Placed, Sound
<1>4. /\ revision.seq \subseteq {q} /\ revision'.seq \subseteq {q}
      /\ \A p : ~Revised(p) /\ ~Searched(p) /\ ~Revised(p)' /\ ~Searched(p)'
  BY <1>1 DEF NoRevision, Revised, Searched
<1>5. \A p \in Sequences : p # q => /\ CountedTo'[p] = CountedTo[p]
                                    /\ ContinuedTo'[p] = ContinuedTo[p]
  <2>1. history' = [history EXCEPT ![q] = g] /\ HistoriesOK
    BY <1>1, <1>2 DEF IInv
  <2> QED
    BY <1>4, <2>1, OthersCounted
<1>6. DivergedBefore'
  BY <1>4 DEF DivergedBefore
<1>7. CountedWithin /\ CountedWithin'
  BY <1>6, CountsAreWithin, CountsAreWithinThen DEF CInv
<1>8. /\ CountedTo[q] = Len(h) /\ ContinuedTo[q] = Len(h) - 1
      /\ CountedTo'[q] = 0 /\ ContinuedTo'[q] = -1
  <2>1. history'[q] = g
    BY <1>1, <1>2 DEF IInv, HistoriesOK
  <2> QED
    BY <1>2, <1>3, <1>4, <2>1, WholeCounted
<1>9. visits \in [Nodes -> Int] /\ continued \in [Nodes -> Int]
  BY DEF IInv, TreeOK
<1>10. ASSUME NEW n \in Nodes'
       PROVE  /\ visits'[n] = Recount(Before(visits, n), h, CountedTo[q], g, CountedTo'[q], n)
              /\ continued'[n] \in Int
              /\ continued'[n] <= Recount(Before(continued, n), h, ContinuedTo[q],
                                          g, ContinuedTo'[q], n)
  <2>1. n \in Nodes
    <3>1. visits' \in [Nodes -> Int]
      BY <1>1, <1>2, <1>3, <1>9, CountTypes
    <3> QED
      BY <3>1 DEF Nodes
  <2>2. /\ Before(visits, n) = visits[n] /\ Before(continued, n) = continued[n]
        /\ visits[n] \in Int /\ continued[n] \in Int
    BY <1>9, <2>1 DEF Before
  <2>3. /\ visits'[n] = visits[n] - Cardinality(Stops(h, 2, Len(h), n))
        /\ continued'[n] = continued[n] - Cardinality(Stops(h, 2, Len(h) - 1, n))
    <3>1. 1 < Len(h) \/ Len(h) <= 1
      BY <1>3
    <3>2. /\ CountVisits(visits, h, -1, 1)[n] = Counted(visits[n], -1, h, 1 + 1, Len(h), n)
          /\ CountContinuations(continued, h, -1, 1)[n]
               = Counted(continued[n], -1, h, 1 + 1, Len(h) - 1, n)
      BY <1>3, <1>9, <2>1, <3>1, UpdateCounts
    <3>3. Counted(visits[n], -1, h, 1 + 1, Len(h), n) = visits[n] - Cardinality(Stops(h, 2, Len(h), n))
      BY DEF Counted
    <3>4. Counted(continued[n], -1, h, 1 + 1, Len(h) - 1, n)
            = continued[n] - Cardinality(Stops(h, 2, Len(h) - 1, n))
      BY DEF Counted
    <3> QED
      BY <1>1, <1>2, <3>2, <3>3, <3>4
  <2>4. /\ Cardinality(Stops(h, 2, Len(h), n)) \in Nat
        /\ Cardinality(Stops(h, 2, Len(h) - 1, n)) \in Nat
        /\ Cardinality(Stops(g, 2, 0, n)) = 0 /\ Cardinality(Stops(g, 2, -1, n)) = 0
    BY <1>3, StopsFinite
  <2>5. Recount(visits[n], h, Len(h), g, 0, n) = visits'[n]
    BY <2>2, <2>3, <2>4 DEF Recount
  <2>6. Recount(continued[n], h, Len(h) - 1, g, -1, n) = continued'[n] /\ continued'[n] \in Int
    BY <2>2, <2>3, <2>4 DEF Recount
  <2> QED
    BY <1>8, <2>2, <2>5, <2>6
<1>11. Counts'
  BY <1>1, <1>2, <1>5, <1>7, <1>10, OneCounted
<1> QED
  BY <1>6, <1>11 DEF CInv

LEMMA SearchStepCounts ==
    ASSUME IInv, IInv', CInv, NEW q \in Sequences, SearchStep(q) PROVE CInv'
<1> DEFINE h == history[q]
<1>1. /\ phase = "searching" /\ revision.seq = {q} /\ affected = {}
      /\ UNCHANGED <<options, belief>>
  BY DEF IInv, SearchStep, ControlOK, Changing
<1>2. HistoryOK(q) /\ ~Revised(q) /\ Searched(q)
  BY <1>1 DEF IInv, HistoriesOK, Revised, Searched
<1>3. Placed(h, Nodes, belief) /\ Sound(h) /\ Growing(h) /\ \A j \in DOMAIN h : h[j].flags = {}
  BY <1>1, <1>2, Unflagged DEF HistoryOK, Placed, EndOK
<1>4. h = history[q]
  OBVIOUS
<1> HIDE DEF h
<1>5. PICK a, n, o, v, g :
          /\ a \in Actions /\ n \in Moves[h[Len(h)].state][a] /\ o \in Observe[n]
          /\ v \in {<<>>, Heuristic(n)} /\ g = Longer(h, a, n, o, v)
          /\ history' = [history EXCEPT ![q] = g]
          /\ GoesOn(n, h, g) \/ ComesToEnd(n, v, g)
  BY <1>4, SearchOutcomes
<1>6. history'[q] = g
  BY <1>5 DEF IInv, HistoriesOK
<1>7. HistoryTyped(g) /\ Straight(g) /\ Len(g) \in Nat
  BY <1>6, HistoryElements DEF IInv, HistoriesOK, HistoryOK, Placed, Sound
<1>8. /\ revision'.seq \subseteq {q}
      /\ \A p : ~Revised(p)'
      /\ GoesOn(n, h, g) => Searched(q)'
      /\ ComesToEnd(n, v, g) => \A p : ~Searched(p)'
  BY <1>1, <1>5 DEF GoesOn, ComesToEnd, NoRevision, Revised, Searched
<1>9. \A p \in Sequences : p # q => /\ CountedTo'[p] = CountedTo[p]
                                    /\ ContinuedTo'[p] = ContinuedTo[p]
  <2>1. \A p \in Sequences : p # q => history'[p] = history[p]
    BY <1>5 DEF IInv, HistoriesOK
  <2>2. \A p \in Sequences : p # q => /\ ~Searched(p) /\ ~Revised(p)
                                       /\ ~Searched(p)' /\ ~Revised(p)'
    BY <1>1, <1>8, OnlyOne
  <2> QED
    BY <2>1, <2>2, WholeCounted
<1>10. DivergedBefore'
  BY <1>8 DEF DivergedBefore
<1>11. CountedWithin /\ CountedWithin'
  BY <1>10, CountsAreWithin, CountsAreWithinThen DEF CInv
<1>12. /\ CountedTo[q] = 0 /\ ContinuedTo[q] = 0
       /\ GoesOn(n, h, g) => CountedTo'[q] = 0 /\ ContinuedTo'[q] = 0
       /\ ComesToEnd(n, v, g) => CountedTo'[q] = Len(g) /\ ContinuedTo'[q] = Len(g) - 1
  BY <1>2, <1>6, <1>8 DEF CountedTo, ContinuedTo
<1>13. visits \in [Nodes -> Int] /\ continued \in [Nodes -> Int]
  BY DEF IInv, TreeOK
<1>14. PICK N : N = Nodes \cup NodesOf(g)
  OBVIOUS
<1>15. /\ Extended(visits, g) \in [N -> Int] /\ Extended(continued, g) \in [N -> Int]
       /\ \A m \in N : /\ Extended(visits, g)[m] = Before(visits, m)
                       /\ Extended(continued, g)[m] = Before(continued, m)
                       /\ Before(visits, m) \in Int /\ Before(continued, m) \in Int
  BY <1>13, <1>14 DEF Extended, Before
<1>16. ASSUME NEW m \in Nodes'
       PROVE  /\ visits'[m] = Recount(Before(visits, m), h, CountedTo[q], g, CountedTo'[q], m)
              /\ continued'[m] \in Int
              /\ continued'[m] <= Recount(Before(continued, m), h, ContinuedTo[q],
                                          g, ContinuedTo'[q], m)
  <2>1. CASE GoesOn(n, h, g)
    <3>1. visits' = Extended(visits, g) /\ continued' = Extended(continued, g) /\ m \in N
      BY <1>15, <2>1 DEF GoesOn, Nodes
    <3>2. /\ Recount(Before(visits, m), h, 0, g, 0, m) = Before(visits, m)
          /\ Recount(Before(continued, m), h, 0, g, 0, m) = Before(continued, m)
      BY <1>15, <3>1, NoneToRecount
    <3> QED
      BY <1>12, <1>15, <2>1, <3>1, <3>2
  <2>2. CASE ComesToEnd(n, v, g)
    <3>1. /\ visits' = CountVisits(Extended(visits, g), g, 1, 1)
          /\ continued' = CountContinuations(Extended(continued, g), g, 1, 1)
      BY <2>2 DEF ComesToEnd
    <3>2. m \in N
      <4>1. visits' \in [N -> Int]
        BY <1>7, <1>15, <3>1, CountTypes
      <4> QED
        BY <4>1 DEF Nodes
    <3>3. /\ visits'[m] = Before(visits, m) + Cardinality(Stops(g, 2, Len(g), m))
          /\ continued'[m] = Before(continued, m) + Cardinality(Stops(g, 2, Len(g) - 1, m))
      <4>1. 1 < Len(g) \/ Len(g) <= 1
        BY <1>7
      <4>2. /\ visits'[m] = Counted(Extended(visits, g)[m], 1, g, 1 + 1, Len(g), m)
            /\ continued'[m] = Counted(Extended(continued, g)[m], 1, g, 1 + 1, Len(g) - 1, m)
        BY <1>7, <1>15, <3>1, <3>2, <4>1, UpdateCounts
      <4> QED
        BY <1>15, <3>2, <4>2 DEF Counted
    <3>4. /\ Cardinality(Stops(g, 2, Len(g), m)) \in Nat
          /\ Cardinality(Stops(g, 2, Len(g) - 1, m)) \in Nat
          /\ Cardinality(Stops(h, 2, 0, m)) = 0
          /\ Before(visits, m) \in Int /\ Before(continued, m) \in Int
      BY <1>7, <1>15, <3>2, StopsFinite
    <3>5. Recount(Before(visits, m), h, 0, g, Len(g), m) = visits'[m]
      BY <3>3, <3>4 DEF Recount
    <3>6. Recount(Before(continued, m), h, 0, g, Len(g) - 1, m) = continued'[m] /\ continued'[m] \in Int
      BY <3>3, <3>4 DEF Recount
    <3> QED
      BY <1>12, <2>2, <3>5, <3>6
  <2> QED
    BY <1>5, <2>1, <2>2
<1>17. Counts'
  BY <1>1, <1>4, <1>5, <1>9, <1>11, <1>16, OneCounted
<1> QED
  BY <1>10, <1>17 DEF CInv

(* Two histories go through the same nodes up to an entry.                  *)
Alike(h, g, i) == \A j \in 2..i : g[j].node = h[j].node

LEMMA RecountSame ==
    ASSUME NEW x \in Int, NEW h, NEW g, NEW i \in Int,
           Alike(h, g, i), NEW n
    PROVE  Recount(x, h, i, g, i, n) = x
<1>1. Stops(g, 2, i, n) = Stops(h, 2, i, n)
  BY StopsSame DEF Alike
<1>2. Cardinality(Stops(h, 2, i, n)) \in Nat
  BY StopsFinite
<1> QED
  BY <1>1, <1>2 DEF Recount

(* A count without what comes after i.                                      *)
LEMMA RecountCut ==
    ASSUME NEW x \in Int, NEW h, NEW g, NEW i \in Int, 1 <= i, NEW hi \in Int, i <= hi,
           Alike(h, g, i), NEW n
    PROVE  /\ Recount(x, h, hi, g, i, n) = Counted(x, -1, h, i + 1, hi, n)
           /\ Recount(x, h, hi, g, i, n) \in Int
<1>1. Stops(g, 2, i, n) = Stops(h, 2, i, n)
  BY StopsSame DEF Alike
<1>2. Cardinality(Stops(h, 2, hi, n))
        = Cardinality(Stops(h, 2, i, n)) + Cardinality(Stops(h, i + 1, hi, n))
  BY StopsSplit
<1>3. Cardinality(Stops(h, 2, i, n)) \in Nat /\ Cardinality(Stops(h, i + 1, hi, n)) \in Nat
  BY StopsFinite
<1> QED
  BY <1>1, <1>2, <1>3 DEF Recount, Counted

(* A count with what comes after i.                                         *)
LEMMA RecountOn ==
    ASSUME NEW x \in Int, NEW h, NEW g, NEW i \in Int, 1 <= i, NEW hi \in Int, i <= hi,
           Alike(h, g, i), NEW n
    PROVE  /\ Recount(x, h, i, g, hi, n) = Counted(x, 1, g, i + 1, hi, n)
           /\ Recount(x, h, i, g, hi, n) \in Int
<1>1. Stops(g, 2, i, n) = Stops(h, 2, i, n)
  BY StopsSame DEF Alike
<1>2. Cardinality(Stops(g, 2, hi, n))
        = Cardinality(Stops(g, 2, i, n)) + Cardinality(Stops(g, i + 1, hi, n))
  BY StopsSplit
<1>3. Cardinality(Stops(g, 2, i, n)) \in Nat /\ Cardinality(Stops(g, i + 1, hi, n)) \in Nat
  BY StopsFinite
<1> QED
  BY <1>1, <1>2, <1>3 DEF Recount, Counted

(* A continuation less at i, if there is a node before it, and those after. *)
LEMMA RecountEnd ==
    ASSUME NEW x \in Int, NEW h, NEW g, NEW i \in Int, 1 <= i, NEW hi \in Int, i <= hi,
           Alike(h, g, i), NEW n,
           NEW y, y = IF i > 1 /\ n = h[i].node THEN x - 1 ELSE x
    PROVE  /\ Recount(x, h, hi, g, i - 1, n) = Counted(y, -1, h, i + 1, hi, n)
           /\ Recount(x, h, hi, g, i - 1, n) \in Int
<1>1. Stops(g, 2, i - 1, n) = Stops(h, 2, i - 1, n)
  BY StopsSame DEF Alike
<1>2. /\ Cardinality(Stops(h, 2, i - 1, n)) \in Nat
      /\ Cardinality(Stops(h, i + 1, hi, n)) \in Nat
      /\ i - 1 < 2 => Cardinality(Stops(h, 2, i - 1, n)) = 0
  BY StopsFinite
<1>3. CASE i = 1
  BY <1>1, <1>2, <1>3 DEF Recount, Counted
<1>4. CASE i > 1
  <2>1. Cardinality(Stops(h, 2, hi, n))
          = Cardinality(Stops(h, 2, i, n)) + Cardinality(Stops(h, i + 1, hi, n))
    BY StopsSplit
  <2>2. PICK k : k \in Int /\ k = i - 1
    OBVIOUS
  <2>3. Cardinality(Stops(h, 2, i, n))
          = Cardinality(Stops(h, 2, k, n)) + Cardinality(Stops(h, k + 1, i, n))
    BY <1>4, <2>2, StopsSplit
  <2>4. Cardinality(Stops(h, k + 1, i, n)) = IF n = h[i].node THEN 1 ELSE 0
    <3>1. (k + 1)..i = {i}
      BY <2>2
    <3>2. Stops(h, k + 1, i, n) = IF n = h[i].node THEN {i} ELSE {}
      BY <3>1 DEF Stops
    <3>3. Cardinality({i}) = 1 /\ Cardinality({}) = 0
      BY FS_Singleton, FS_EmptySet
    <3> QED
      BY <3>2, <3>3
  <2> QED
    BY <1>1, <1>2, <1>4, <2>1, <2>2, <2>3, <2>4 DEF Recount, Counted
<1> QED
  BY <1>3, <1>4

LEMMA ReviseEntryCounts ==
    ASSUME IInv, IInv', CInv, NEW q \in Sequences, ReviseEntry(q) PROVE CInv'
<1>1. /\ phase = "revising" /\ phase' = "revising" /\ revision.seq = {q}
      /\ UNCHANGED <<options, belief>>
  BY DEF ReviseEntry
<1>2. PICK h, i, d, l : /\ h = history[q] /\ i = revision.at /\ d = revision.divergingEntry
                        /\ l = Len(h)
  OBVIOUS
<1>3. /\ HistoryOK(q) /\ Sound(h) /\ CurrentEnd(h)
      /\ l \in Nat /\ DOMAIN h = 1..l /\ i \in Nat /\ i \in 1..l /\ d \in Nat
  BY <1>1, <1>2, RevisionFacts
<1>4. PICK n, flags, kept, g : Round(q, h, i, n, flags, kept, g)
  BY <1>2, ReviseEntryHistory
<1>5. /\ i \in 1..(l - 1) /\ h[i].state \notin Terminal /\ n \in States
      /\ IF "TRANSITION" \in h[i].flags THEN n \in Moves[h[i].state][h[i].action]
                                        ELSE n = h[i + 1].state
      /\ Revises(h, i, flags, kept, n, g)
      /\ history' = [history EXCEPT ![q] = g]
      /\ revision'.seq = {q} /\ revision'.at = i + 1
  BY <1>2, <1>4 DEF Round
<1>6. \/ /\ revision'.divergingEntry = d
         /\ visits' = Extended(visits, g) /\ continued' = Extended(continued, g)
      \/ /\ d = 0 /\ revision'.divergingEntry = i
         /\ visits' = Extended(CountVisits(visits, h, -1, i), g)
         /\ continued' = Extended(CountContinuations(continued, h, -1, i), g)
  BY <1>2, <1>4 DEF Round
<1>7. Len(g) = l /\ DOMAIN g = DOMAIN h /\ \A j \in DOMAIN h : g[j].node = h[j].node
  BY <1>2, <1>3, <1>5, RevisedIsSound
<1>8. /\ history'[q] = g
      /\ \A p \in Sequences : p # q => history'[p] = history[p]
  BY <1>5 DEF IInv, HistoriesOK
<1>9. /\ Revised(q) /\ Revised(q)' /\ ~Searched(q) /\ ~Searched(q)'
      /\ \A p : p # q => ~Searched(p) /\ ~Revised(p) /\ ~Searched(p)' /\ ~Revised(p)'
  BY <1>1, <1>5 DEF Searched, Revised
<1>10. \A p \in Sequences : p # q => /\ CountedTo'[p] = CountedTo[p]
                                     /\ ContinuedTo'[p] = ContinuedTo[p]
  BY <1>8, <1>9, WholeCounted
<1>11. DivergedBefore'
  <2>1. d < i
    BY <1>2, <1>9 DEF CInv, DivergedBefore
  <2>2. revision'.divergingEntry < revision'.at
    BY <1>3, <1>5, <1>6, <2>1
  <2>3. \A p : Revised(p)' => p = q
    BY <1>9
  <2> QED
    BY <2>2 DEF DivergedBefore
<1>12. CountedWithin /\ CountedWithin'
  BY <1>11, CountsAreWithin, CountsAreWithinThen DEF CInv
<1>13. /\ CountedTo[q] = (IF d = 0 THEN l ELSE d) /\ ContinuedTo[q] = (IF d = 0 THEN l - 1 ELSE d)
       /\ CountedTo'[q] = (IF revision'.divergingEntry = 0 THEN l ELSE revision'.divergingEntry)
       /\ ContinuedTo'[q] = (IF revision'.divergingEntry = 0 THEN l - 1
                                                             ELSE revision'.divergingEntry)
  BY <1>2, <1>7, <1>8, <1>9 DEF CountedTo, ContinuedTo
<1>14. visits \in [Nodes -> Int] /\ continued \in [Nodes -> Int]
  BY DEF IInv, TreeOK
<1>15. NodesOf(g) \subseteq Nodes
  BY <1>2, <1>3, <1>7 DEF HistoryOK, Placed, NodesOf
<1>16. ASSUME NEW m \in Nodes'
       PROVE  /\ visits'[m] = Recount(Before(visits, m), h, CountedTo[q], g, CountedTo'[q], m)
              /\ continued'[m] \in Int
              /\ continued'[m] <= Recount(Before(continued, m), h, ContinuedTo[q],
                                          g, ContinuedTo'[q], m)
  <2>1. CASE /\ revision'.divergingEntry = d
             /\ visits' = Extended(visits, g) /\ continued' = Extended(continued, g)
    <3>1. /\ m \in Nodes /\ visits'[m] = visits[m] /\ continued'[m] = continued[m]
          /\ visits[m] \in Int /\ continued[m] \in Int
          /\ Before(visits, m) = visits[m] /\ Before(continued, m) = continued[m]
      BY <1>14, <1>15, <2>1 DEF Nodes, Extended, Before
    <3>2. /\ CountedTo'[q] = CountedTo[q] /\ ContinuedTo'[q] = ContinuedTo[q]
      BY <1>13, <2>1
    <3>3. /\ CountedTo[q] \in Int /\ ContinuedTo[q] \in Int
          /\ Alike(h, g, CountedTo[q]) /\ Alike(h, g, ContinuedTo[q])
      <4>1. /\ CountedTo[q] \in Int /\ CountedTo[q] <= l
            /\ ContinuedTo[q] \in Int /\ ContinuedTo[q] <= l
        BY <1>2, <1>12, ChangeAssumption DEF CountedWithin, Lasts
      <4> QED
        BY <1>3, <1>7, <4>1 DEF Alike
    <3>4. Recount(visits[m], h, CountedTo[q], g, CountedTo[q], m) = visits[m]
      BY <3>1, <3>3, RecountSame
    <3>5. Recount(continued[m], h, ContinuedTo[q], g, ContinuedTo[q], m) = continued[m]
      BY <3>1, <3>3, RecountSame
    <3> QED
      BY <3>1, <3>2, <3>4, <3>5
  <2>2. CASE /\ d = 0 /\ revision'.divergingEntry = i
             /\ visits' = Extended(CountVisits(visits, h, -1, i), g)
             /\ continued' = Extended(CountContinuations(continued, h, -1, i), g)
    <3>1. /\ CountVisits(visits, h, -1, i) \in [Nodes -> Int]
          /\ CountContinuations(continued, h, -1, i) \in [Nodes -> Int]
      <4>1. Len(h) \in Nat /\ i \in Nat /\ -1 \in Int
        BY <1>2, <1>3
      <4> QED
        BY <1>14, <4>1, CountTypes
    <3>2. /\ m \in Nodes
          /\ visits'[m] = CountVisits(visits, h, -1, i)[m]
          /\ continued'[m] = CountContinuations(continued, h, -1, i)[m]
          /\ visits[m] \in Int /\ continued[m] \in Int
          /\ Before(visits, m) = visits[m] /\ Before(continued, m) = continued[m]
      BY <1>14, <1>15, <2>2, <3>1 DEF Nodes, Extended, Before
    <3>3. /\ CountedTo[q] = l /\ ContinuedTo[q] = l - 1 /\ CountedTo'[q] = i /\ ContinuedTo'[q] = i
      BY <1>3, <1>13, <2>2
    <3>4. Alike(h, g, i)
      BY <1>3, <1>7 DEF Alike
    <3>5. HistoryTyped(h) /\ Straight(h) /\ i < Len(h) /\ i >= 1 /\ i <= l - 1
      BY <1>2, <1>3, <1>5 DEF Sound
    <3>6. /\ CountVisits(visits, h, -1, i)[m] = Counted(visits[m], -1, h, i + 1, Len(h), m)
          /\ CountContinuations(continued, h, -1, i)[m]
               = Counted(continued[m], -1, h, i + 1, Len(h) - 1, m)
      BY <1>3, <1>14, <3>2, <3>5, UpdateCounts
    <3>7. /\ Recount(visits[m], h, l, g, i, m) = Counted(visits[m], -1, h, i + 1, l, m)
          /\ Recount(visits[m], h, l, g, i, m) \in Int
      BY <1>3, <3>2, <3>4, <3>5, RecountCut
    <3>8. /\ Recount(continued[m], h, l - 1, g, i, m) = Counted(continued[m], -1, h, i + 1, l - 1, m)
          /\ Recount(continued[m], h, l - 1, g, i, m) \in Int
      BY <1>3, <3>2, <3>4, <3>5, RecountCut
    <3> QED
      BY <1>2, <3>2, <3>3, <3>6, <3>7, <3>8
  <2> QED
    BY <1>6, <2>1, <2>2
<1>17. Counts'
  BY <1>1, <1>2, <1>5, <1>10, <1>12, <1>16, OneCounted
<1> QED
  BY <1>11, <1>17 DEF CInv

(* The counts the end of a revision leaves.                                 *)
Recounting(h, g, a, d, v, c) ==
    /\ v = IF NegatesEnd(h, revision) THEN CountVisits(visits, h, -1, a) ELSE visits
    /\ \E y : /\ y = IF EndsEarly(h, revision)
                     THEN ContinuationNegated(continued, h[a], revision) ELSE continued
              /\ c = IF NegatesEnd(h, revision) THEN CountContinuations(y, h, -1, a) ELSE y
    /\ visits' = IF d # 0 THEN CountVisits(Extended(v, g), g, 1, d) ELSE Extended(v, g)
    /\ continued' = IF d # 0 THEN CountContinuations(Extended(c, g), g, 1, d) ELSE Extended(c, g)

LEMMA EndRevisionRecounts ==
    ASSUME NEW q, EndRevision(q), NEW h, h = history[q], NEW g, g = EndedHistory(h, revision),
           NEW a, a = revision.at, NEW d, d = revision.divergingEntry
    PROVE  \E v, c : Recounting(h, g, a, d, v, c)
<1> DEFINE v == IF NegatesEnd(h, revision) THEN CountVisits(visits, h, -1, a) ELSE visits
           y == IF EndsEarly(h, revision)
                THEN ContinuationNegated(continued, h[a], revision) ELSE continued
           c == IF NegatesEnd(h, revision) THEN CountContinuations(y, h, -1, a) ELSE y
<1>1. visits' = IF d # 0 THEN CountVisits(Extended(v, g), g, 1, d) ELSE Extended(v, g)
  BY DEF EndRevision
<1>2. continued' = IF d # 0 THEN CountContinuations(Extended(c, g), g, 1, d) ELSE Extended(c, g)
  BY DEF EndRevision
<1>3. \E x : /\ x = IF EndsEarly(h, revision)
                    THEN ContinuationNegated(continued, h[a], revision) ELSE continued
             /\ c = IF NegatesEnd(h, revision) THEN CountContinuations(x, h, -1, a) ELSE x
  OBVIOUS
<1>4. v = IF NegatesEnd(h, revision) THEN CountVisits(visits, h, -1, a) ELSE visits
  OBVIOUS
<1> HIDE DEF v, c, y
<1> QED
  BY <1>1, <1>2, <1>3, <1>4 DEF Recounting

(* What an update takes from counts after an entry.                         *)
TakesBack(h, a, x, n) ==
    /\ CountVisits(x, h, -1, a)[n] = Counted(x[n], -1, h, a + 1, Len(h), n)
    /\ CountContinuations(x, h, -1, a)[n] = Counted(x[n], -1, h, a + 1, Len(h) - 1, n)

LEMMA TakenBack ==
    ASSUME NEW h, HistoryTyped(h), Straight(h), NEW a \in Nat, 1 <= a, a < Len(h),
           NEW N, NEW x \in [N -> Int], NEW n \in N
    PROVE  TakesBack(h, a, x, n)
<1>1. PICK s : s \in {-1, 1} /\ s = -1
  OBVIOUS
<1>2. /\ CountVisits(x, h, s, a)[n] = Counted(x[n], s, h, a + 1, Len(h), n)
      /\ CountContinuations(x, h, s, a)[n] = Counted(x[n], s, h, a + 1, Len(h) - 1, n)
  BY <1>1, UpdateCounts
<1> QED
  BY <1>1, <1>2 DEF TakesBack

(* What is left of the counts of a node up to entry a, if the history did   *)
(* not diverge; if it did, no more continuations than there were.           *)
LeftOver(N, h, a, d, v, c, n) ==
    /\ v \in [N -> Int] /\ c \in [N -> Int]
    /\ d = 0 /\ EndsEarly(h, revision) =>
          /\ v[n] = Counted(visits[n], -1, h, a + 1, Len(h), n)
          /\ c[n] = Counted(IF a > 1 /\ n = h[a].node THEN continued[n] - 1 ELSE continued[n],
                            -1, h, a + 1, Len(h) - 1, n)
    /\ ~(d = 0 /\ EndsEarly(h, revision)) => v = visits /\ c[n] <= continued[n]
    /\ ~EndsEarly(h, revision) => c = continued

LEMMA Negations ==
    ASSUME NEW h, HistoryTyped(h), Straight(h), NEW N,
           visits \in [N -> Int], continued \in [N -> Int],
           NEW a \in Nat, 1 <= a, a <= Len(h), EndsEarly(h, revision) => a < Len(h),
           revision.at = a, h[a].node \in N, NEW d, d = revision.divergingEntry,
           NEW g, NEW v, NEW c, Recounting(h, g, a, d, v, c), NEW n \in N
    PROVE  LeftOver(N, h, a, d, v, c, n)
<1>1. PICK y : /\ y = IF EndsEarly(h, revision)
                      THEN ContinuationNegated(continued, h[a], revision) ELSE continued
               /\ c = IF NegatesEnd(h, revision) THEN CountContinuations(y, h, -1, a) ELSE y
  BY DEF Recounting
<1>2. v = IF NegatesEnd(h, revision) THEN CountVisits(visits, h, -1, a) ELSE visits
  BY DEF Recounting
<1>3. NegatesEnd(h, revision) <=> EndsEarly(h, revision) /\ d = 0
  BY DEF NegatesEnd
<1>4. ContinuationNegated(continued, h[a], revision)
        = IF a > 1 THEN [continued EXCEPT ![h[a].node] = @ - 1] ELSE continued
  BY DEF ContinuationNegated
<1>5. PICK m : m = h[a].node /\ m \in N
  OBVIOUS
<1>6. /\ y \in [N -> Int] /\ y[n] <= continued[n]
      /\ EndsEarly(h, revision) =>
            y[n] = IF a > 1 /\ n = m THEN continued[n] - 1 ELSE continued[n]
      /\ ~EndsEarly(h, revision) => y = continued
  <2>1. continued[n] \in Int /\ continued[m] \in Int
    BY <1>5
  <2> QED
    BY <1>1, <1>4, <1>5, <2>1
<1>7. Len(h) \in Nat /\ -1 \in Int
  BY HistoryElements
<1>8. /\ CountVisits(visits, h, -1, a) \in [N -> Int]
      /\ CountContinuations(y, h, -1, a) \in [N -> Int]
  BY <1>6, <1>7, CountTypes
<1>9. ASSUME EndsEarly(h, revision)
      PROVE  /\ CountVisits(visits, h, -1, a)[n] = Counted(visits[n], -1, h, a + 1, Len(h), n)
             /\ CountContinuations(y, h, -1, a)[n] = Counted(y[n], -1, h, a + 1, Len(h) - 1, n)
  <2>1. PICK k : k = a /\ k \in Nat /\ 1 <= k /\ k < Len(h)
    BY <1>7, <1>9
  <2>2. PICK x : x = visits /\ x \in [N -> Int]
    OBVIOUS
  <2>3. y \in [N -> Int]
    BY <1>6
  <2>4. TakesBack(h, k, x, n)
    BY <2>1, <2>2, TakenBack
  <2>5. TakesBack(h, k, y, n)
    BY <2>1, <2>3, TakenBack
  <2>6. CountVisits(visits, h, -1, a)[n] = Counted(visits[n], -1, h, a + 1, Len(h), n)
    <3>1. a = k /\ visits = x
      BY <2>1, <2>2
    <3> QED
      BY <2>4, <3>1 DEF TakesBack
  <2>7. CountContinuations(y, h, -1, a)[n] = Counted(y[n], -1, h, a + 1, Len(h) - 1, n)
    <3>1. a = k
      BY <2>1
    <3> QED
      BY <2>5, <3>1 DEF TakesBack
  <2> QED
    BY <2>6, <2>7
<1>10. CASE d = 0 /\ EndsEarly(h, revision)
  <2>1. v = CountVisits(visits, h, -1, a) /\ c = CountContinuations(y, h, -1, a)
    BY <1>1, <1>2, <1>3, <1>10
  <2> QED
    BY <1>5, <1>6, <1>8, <1>9, <1>10, <2>1 DEF LeftOver
<1>11. CASE ~(d = 0 /\ EndsEarly(h, revision))
  <2>1. v = visits /\ c = y
    BY <1>1, <1>2, <1>3, <1>11
  <2> QED
    BY <1>6, <1>11, <2>1 DEF LeftOver
<1> QED
  BY <1>10, <1>11

(* What an update adds to counts after an entry.                            *)
Goes(h, a, l) == HistoryTyped(h) /\ Straight(h) /\ Len(h) = l /\ a \in 1..(l - 1) /\ l \in Nat

LEMMA AddedOn ==
    ASSUME NEW h, NEW a, NEW l, Goes(h, a, l), NEW N, NEW x \in [N -> Int], NEW n \in N
    PROVE  /\ CountVisits(x, h, 1, a)[n] = Counted(x[n], 1, h, a + 1, l, n)
           /\ CountContinuations(x, h, 1, a)[n] = Counted(x[n], 1, h, a + 1, l - 1, n)
<1>1. PICK s : s \in {-1, 1} /\ s = 1
  OBVIOUS
<1>2. a \in Nat /\ a >= 1 /\ a < Len(h) /\ HistoryTyped(h) /\ Straight(h)
  BY DEF Goes
<1>3. /\ CountVisits(x, h, s, a)[n] = Counted(x[n], s, h, a + 1, Len(h), n)
      /\ CountContinuations(x, h, s, a)[n] = Counted(x[n], s, h, a + 1, Len(h) - 1, n)
  BY <1>1, <1>2, UpdateCounts
<1> QED
  BY <1>1, <1>3 DEF Goes

LEMMA NothingExtended ==
    ASSUME NEW N, NEW x \in [N -> Int], NEW h, NodesOf(h) \subseteq N
    PROVE  Extended(x, h) = x
BY DEF Extended

LEMMA CountedInOrder ==
    ASSUME NEW x \in Int, NEW y \in Int, x <= y, NEW h, NEW lo \in Int, NEW hi \in Int, NEW n
    PROVE  /\ Counted(x, 1, h, lo, hi, n) <= Counted(y, 1, h, lo, hi, n)
           /\ Counted(x, 1, h, lo, hi, n) \in Int
<1>1. Cardinality(Stops(h, lo, hi, n)) \in Nat
  BY StopsFinite
<1> QED
  BY <1>1 DEF Counted

(* What is known of a revision that ends, at entry a, and of its history.   *)
Ended(N, h, g, a, d, l, k) ==
    /\ HistoryTyped(h) /\ Straight(h) /\ HistoryTyped(g) /\ Straight(g)
    /\ l = Len(h) /\ k = Len(g) /\ k <= l /\ Alike(h, g, k)
    /\ NodesOf(g) \subseteq N /\ h[a].node \in N
    /\ 1 <= a /\ a <= k /\ d < a
    /\ IF EndsEarly(h, revision) THEN k = a /\ a < l ELSE k = l
    /\ revision.at = a /\ revision.divergingEntry = d

LEMMA EndedCounts ==
    ASSUME NEW N, NEW h, NEW g, NEW a \in Nat, NEW d \in Nat, NEW l \in Nat, NEW k \in Nat,
           Ended(N, h, g, a, d, l, k),
           visits \in [N -> Int], continued \in [N -> Int],
           NEW v, NEW c, Recounting(h, g, a, d, v, c), NEW n \in N
    PROVE  /\ visits'[n] = Recount(visits[n], h, IF d = 0 THEN l ELSE d, g, k, n)
           /\ continued'[n] \in Int
           /\ continued'[n] <= Recount(continued[n], h, IF d = 0 THEN l - 1 ELSE d, g, k - 1, n)
<1>1. /\ v \in [N -> Int] /\ c \in [N -> Int]
      /\ d = 0 /\ EndsEarly(h, revision) =>
            /\ v[n] = Counted(visits[n], -1, h, a + 1, l, n)
            /\ c[n] = Counted(IF a > 1 /\ n = h[a].node THEN continued[n] - 1 ELSE continued[n],
                              -1, h, a + 1, l - 1, n)
      /\ ~(d = 0 /\ EndsEarly(h, revision)) => v = visits /\ c[n] <= continued[n]
      /\ ~EndsEarly(h, revision) => c = continued
  <2>1. /\ HistoryTyped(h) /\ Straight(h) /\ 1 <= a /\ a <= Len(h)
        /\ EndsEarly(h, revision) => a < Len(h)
        /\ revision.at = a /\ h[a].node \in N /\ d = revision.divergingEntry
    BY DEF Ended
  <2>2. LeftOver(N, h, a, d, v, c, n)
    BY <2>1, Negations
  <2>3. l = Len(h)
    BY DEF Ended
  <2> QED
    BY <2>2, <2>3 DEF LeftOver
<1>2. /\ visits' = IF d # 0 THEN CountVisits(v, g, 1, d) ELSE v
      /\ continued' = IF d # 0 THEN CountContinuations(c, g, 1, d) ELSE c
  <2>1. Extended(v, g) = v /\ Extended(c, g) = c
    BY <1>1, NothingExtended DEF Ended
  <2> QED
    BY <2>1 DEF Recounting
<1>3. PICK x, y : x = visits[n] /\ x \in Int /\ y = continued[n] /\ y \in Int
  OBVIOUS
<1>4. CASE d = 0 /\ ~EndsEarly(h, revision)
  <2>1. visits'[n] = x /\ continued'[n] = y /\ k = l
    BY <1>1, <1>2, <1>3, <1>4 DEF Ended
  <2>2. Alike(h, g, k) /\ Recount(x, h, k, g, k, n) = x
    BY <1>3, RecountSame DEF Ended
  <2>3. Recount(y, h, k - 1, g, k - 1, n) = y
    <3>1. PICK i : i = k - 1 /\ i \in Int
      OBVIOUS
    <3>2. Alike(h, g, i)
      BY <2>2, <3>1 DEF Alike
    <3> QED
      BY <1>3, <3>1, <3>2, RecountSame
  <2> QED
    BY <1>3, <1>4, <2>1, <2>2, <2>3
<1>5. CASE d = 0 /\ EndsEarly(h, revision)
  <2>1. k = a /\ a < l /\ visits'[n] = v[n] /\ continued'[n] = c[n]
        /\ Alike(h, g, a) /\ 1 <= a
    BY <1>2, <1>5 DEF Ended
  <2>2. /\ Recount(x, h, l, g, a, n) = Counted(x, -1, h, a + 1, l, n)
        /\ Recount(x, h, l, g, a, n) \in Int
    BY <1>3, <2>1, RecountCut
  <2>3. PICK z : z = IF a > 1 /\ n = h[a].node THEN y - 1 ELSE y
    OBVIOUS
  <2>4. PICK i : i = l - 1 /\ i \in Int /\ a <= i
    BY <2>1
  <2>5. /\ Recount(y, h, i, g, a - 1, n) = Counted(z, -1, h, a + 1, i, n)
        /\ Recount(y, h, i, g, a - 1, n) \in Int
    <3>1. PICK b : /\ b = a /\ b \in Int /\ 1 <= b /\ b <= i /\ Alike(h, g, b)
                   /\ z = IF b > 1 /\ n = h[b].node THEN y - 1 ELSE y
      BY <2>1, <2>3, <2>4
    <3>2. /\ Recount(y, h, i, g, b - 1, n) = Counted(z, -1, h, b + 1, i, n)
          /\ Recount(y, h, i, g, b - 1, n) \in Int
      BY <1>3, <2>4, <3>1, RecountEnd
    <3> QED
      BY <3>1, <3>2
  <2>6. visits'[n] = Counted(x, -1, h, a + 1, l, n) /\ continued'[n] = Counted(z, -1, h, a + 1, i, n)
    BY <1>1, <1>3, <1>5, <2>1, <2>3, <2>4
  <2> QED
    BY <1>3, <1>5, <2>1, <2>2, <2>4, <2>5, <2>6
<1>6. CASE d # 0
  <2>0. v \in [N -> Int] /\ c \in [N -> Int]
    BY <1>1
  <2>1. v = visits /\ c[n] <= y /\ c[n] \in Int
    BY <1>1, <1>3, <1>6
  <2>2. d \in Nat /\ 1 <= d /\ d < Len(g) /\ d <= k /\ Alike(h, g, d)
    BY <1>6 DEF Ended, Alike
  <2>3. /\ CountVisits(v, g, 1, d)[n] = Counted(v[n], 1, g, d + 1, k, n)
        /\ CountContinuations(c, g, 1, d)[n] = Counted(c[n], 1, g, d + 1, k - 1, n)
    <3>1. Goes(g, d, k)
      BY <2>2 DEF Ended, Goes
    <3>2. CountVisits(v, g, 1, d)[n] = Counted(v[n], 1, g, d + 1, k, n)
      BY <2>0, <3>1, AddedOn
    <3>3. CountContinuations(c, g, 1, d)[n] = Counted(c[n], 1, g, d + 1, k - 1, n)
      BY <2>0, <3>1, AddedOn
    <3> QED
      BY <3>2, <3>3
  <2>4. PICK i : i = k - 1 /\ i \in Int /\ d <= i
    BY <2>2 DEF Ended
  <2>5. Alike(h, g, d) /\ 1 <= d
    BY <2>2
  <2>6. Recount(x, h, d, g, k, n) = Counted(x, 1, g, d + 1, k, n)
    BY <1>3, <2>2, RecountOn
  <2>7. Recount(y, h, d, g, i, n) = Counted(y, 1, g, d + 1, i, n)
    BY <1>3, <2>5, <2>4, RecountOn
  <2>8. PICK j, z : j = d + 1 /\ j \in Int /\ z = c[n] /\ z \in Int /\ z <= y
    BY <2>1
  <2>9. Counted(z, 1, g, j, i, n) <= Counted(y, 1, g, j, i, n) /\ Counted(z, 1, g, j, i, n) \in Int
    BY <1>3, <2>4, <2>8, CountedInOrder
  <2>10. visits'[n] = Recount(x, h, d, g, k, n)
    BY <1>2, <1>3, <1>6, <2>1, <2>3, <2>6
  <2>11. continued'[n] = Counted(z, 1, g, j, i, n)
    BY <1>2, <1>6, <2>3, <2>4, <2>8
  <2>12. continued'[n] \in Int /\ continued'[n] <= Recount(y, h, d, g, i, n)
    BY <2>7, <2>8, <2>9, <2>11
  <2> QED
    BY <1>3, <1>6, <2>4, <2>10, <2>12
<1> QED
  BY <1>4, <1>5, <1>6

LEMMA EndRevisionCounts ==
    ASSUME IInv, IInv', CInv, NEW q \in Sequences, EndRevision(q) PROVE CInv'
<1>1. /\ phase = "revising" /\ phase' = "revising" /\ revision.seq = {q}
      /\ revision' = NoRevision /\ UNCHANGED <<options, belief>>
  BY DEF EndRevision
<1>2. PICK h, g, a, d, l, k :
          /\ h = history[q] /\ g = EndedHistory(h, revision) /\ a = revision.at
          /\ d = revision.divergingEntry /\ l = Len(h) /\ k = Len(g)
  OBVIOUS
<1>3. /\ HistoryOK(q) /\ Sound(h) /\ l \in Nat /\ DOMAIN h = 1..l
      /\ a \in 1..l /\ a \in Nat /\ d \in Nat
  BY <1>1, <1>2, RevisionFacts
<1>4. /\ history' = [history EXCEPT ![q] = g]
      /\ Sound(g) /\ DOMAIN g \subseteq DOMAIN h /\ k = EndLength(h, revision)
      /\ \A j \in DOMAIN g : g[j].node = h[j].node
  <2>1. Ending(q, h, g)
    BY <1>2, EndRevisionHistory
  <2> QED
    BY <1>2, <2>1 DEF Ending
<1>5. k \in Nat /\ DOMAIN g = 1..k
  BY <1>2, <1>4, HistoryElements DEF Sound
<1>6. d < a
  BY <1>1, <1>2 DEF CInv, DivergedBefore, Revised
<1>7. IF EndsEarly(h, revision) THEN k = a /\ a < l ELSE k = l
  <2>1. EndsEarly(h, revision) => h[a].action # NoAction
    BY <1>2 DEF EndsEarly
  <2>2. h[a].action # NoAction => a < l
    BY <1>2, <1>3 DEF Sound, HistoryTyped
  <2> QED
    BY <1>2, <1>4, <2>1, <2>2 DEF EndLength
<1>8. NodesOf(g) \subseteq Nodes /\ h[a].node \in Nodes
  BY <1>2, <1>3, <1>4 DEF HistoryOK, Placed, NodesOf
<1>9. Alike(h, g, k)
  BY <1>4, <1>5 DEF Alike
<1>10. Ended(Nodes, h, g, a, d, l, k)
  <2>1. k <= l /\ 1 <= a /\ a <= k
    BY <1>3, <1>5, <1>7
  <2> QED
    BY <1>2, <1>3, <1>4, <1>6, <1>7, <1>8, <1>9, <2>1 DEF Ended, Sound
<1>11. PICK v, c : Recounting(h, g, a, d, v, c)
  BY <1>2, EndRevisionRecounts
<1>12. visits \in [Nodes -> Int] /\ continued \in [Nodes -> Int]
  BY DEF IInv, TreeOK
<1>13. Nodes' = Nodes
  <2>1. a \in Nat /\ -1 \in Int /\ 1 \in Int /\ Len(h) \in Nat /\ Len(g) \in Nat
    BY <1>2, <1>3, <1>5
  <2>2. v \in [Nodes -> Int]
    BY <1>11, <1>12, <2>1, CountTypes DEF Recounting
  <2>3. Extended(v, g) = v
    BY <1>8, <2>2, NothingExtended
  <2>4. CountVisits(v, g, 1, d) \in [Nodes -> Int]
    BY <1>3, <2>1, <2>2, CountTypes
  <2> QED
    BY <1>11, <2>2, <2>3, <2>4 DEF Recounting, Nodes
<1>14. /\ history'[q] = g
       /\ \A p \in Sequences : p # q => history'[p] = history[p]
  BY <1>4 DEF IInv, HistoriesOK
<1>15. /\ Revised(q) /\ ~Searched(q)
       /\ \A p : ~Searched(p)' /\ ~Revised(p)'
       /\ \A p : p # q => ~Searched(p) /\ ~Revised(p)
  BY <1>1 DEF Searched, Revised, NoRevision
<1>16. \A p \in Sequences : p # q => /\ CountedTo'[p] = CountedTo[p]
                                     /\ ContinuedTo'[p] = ContinuedTo[p]
  BY <1>14, <1>15, WholeCounted
<1>17. DivergedBefore'
  BY <1>15 DEF DivergedBefore
<1>18. CountedWithin /\ CountedWithin'
  BY <1>17, CountsAreWithin, CountsAreWithinThen DEF CInv
<1>19. /\ CountedTo[q] = (IF d = 0 THEN l ELSE d) /\ ContinuedTo[q] = (IF d = 0 THEN l - 1 ELSE d)
       /\ CountedTo'[q] = k /\ ContinuedTo'[q] = k - 1
  BY <1>2, <1>14, <1>15 DEF CountedTo, ContinuedTo
<1>20. ASSUME NEW m \in Nodes'
       PROVE  /\ visits'[m] = Recount(Before(visits, m), h, CountedTo[q], g, CountedTo'[q], m)
              /\ continued'[m] \in Int
              /\ continued'[m] <= Recount(Before(continued, m), h, ContinuedTo[q],
                                          g, ContinuedTo'[q], m)
  <2>1. m \in Nodes /\ Before(visits, m) = visits[m] /\ Before(continued, m) = continued[m]
    BY <1>12, <1>13 DEF Before
  <2>2. /\ visits'[m] = Recount(visits[m], h, IF d = 0 THEN l ELSE d, g, k, m)
        /\ continued'[m] \in Int
        /\ continued'[m] <= Recount(continued[m], h, IF d = 0 THEN l - 1 ELSE d, g, k - 1, m)
    BY <1>3, <1>5, <1>10, <1>11, <1>12, <2>1, EndedCounts
  <2> QED
    BY <1>19, <2>1, <2>2
<1>21. Counts'
  BY <1>1, <1>2, <1>4, <1>16, <1>18, <1>20, OneCounted
<1> QED
  BY <1>17, <1>21 DEF CInv

-----------------------------------------------------------------------------
(* The agent moves on: what pruning deletes did not reach the new belief.   *)

LEMMA NeverReached ==
    ASSUME NEW h, HistoryTyped(h), Straight(h), NEW node \in Seq(Steps),
           NEW next \in Seq(Steps), IsPrefix(node, next),
           h # <<>> => IsPrefix(h[1].node, node),
           next \notin NodesOf(h), NEW n \in Seq(Steps), IsPrefix(next, n),
           NEW hi \in Int, hi <= Len(h)
    PROVE  Stops(h, 2, hi, n) = {}
<1> SUFFICES ASSUME NEW j \in 2..hi, h[j].node = n PROVE FALSE
  BY DEF Stops
<1>1. /\ Len(h) \in Nat /\ DOMAIN h = 1..Len(h) /\ j \in DOMAIN h /\ 1 \in DOMAIN h
      /\ h[1].node \in Seq(Steps) /\ Len(h[1].node) \in Nat /\ h # <<>>
      /\ Len(n) \in Nat /\ Len(next) \in Nat /\ Len(node) \in Nat
  <2>1. Len(h) \in Nat /\ DOMAIN h = 1..Len(h)
    BY HistoryElements
  <2>2. j \in DOMAIN h /\ 1 \in DOMAIN h
    BY <2>1
  <2>3. h[1].node \in Seq(Steps) /\ Len(h[1].node) \in Nat
    BY <2>2, HistoryElements
  <2>4. h # <<>>
    BY <2>2
  <2> QED
    BY <2>1, <2>2, <2>3, <2>4
<1>2. Len(h[1].node) <= Len(next) /\ Len(next) <= Len(n)
  <2>1. Len(h[1].node) <= Len(node)
    BY <1>1, PrefixElements
  <2>2. Len(node) <= Len(next) /\ Len(next) <= Len(n)
    BY PrefixElements
  <2> QED
    BY <1>1, <2>1, <2>2
<1>3. Len(n) = Len(h[1].node) + (j - 1)
  BY <1>1 DEF Straight
<1>4. PICK i : i = Len(next) - Len(h[1].node) + 1
  OBVIOUS
<1>5. i \in 1..j /\ i \in DOMAIN h /\ i <= j
  BY <1>1, <1>2, <1>3, <1>4
<1>6. Len(h[i].node) = Len(next)
  <2>1. Len(h[i].node) = Len(h[1].node) + (i - 1)
    BY <1>5 DEF Straight
  <2> QED
    BY <1>1, <1>4, <2>1
<1>7. h[i].node \in Seq(Steps) /\ IsPrefix(h[i].node, n)
  <2>1. IsPrefix(h[i].node, h[j].node)
    BY <1>1, <1>5, StraightPrefixes
  <2> QED
    BY <1>5, <2>1, HistoryElements
<1>8. PICK m : m = h[i].node
  OBVIOUS
<1>9. m = next
  <2>1. m \in Seq(Steps) /\ IsPrefix(m, n) /\ Len(m) = Len(next) /\ Len(m) <= Len(next)
    BY <1>1, <1>6, <1>7, <1>8
  <2>2. IsPrefix(m, next)
    BY <2>1, PrefixOrder
  <2> QED
    BY <2>1, <2>2, PrefixOrder
<1> QED
  BY <1>5, <1>8, <1>9 DEF NodesOf

LEMMA Shorter ==
    ASSUME NEW k \in Nat, NEW d \in Nat
    PROVE  k - d \in Int /\ k - d <= k /\ (k <= 1 => 2..(k - d) = {})
OBVIOUS

LEMMA UpdateBeliefCounts ==
    ASSUME IInv, IInv', CInv, NEW q \in Sequences, UpdateBelief(q) PROVE CInv'
<1>1. /\ phase = "planning" /\ phase' = "updated" /\ revision = NoRevision
      /\ options' = options /\ revision' = revision
  BY DEF IInv, UpdateBelief, RevisionOK
<1>2. PICK s \in States, next \in Seq(Steps) : IsPrefix(belief, next) /\ MovesOn(q, s, next)
  BY BelowBelief
<1>3. \A p : ~Searched(p) /\ ~Revised(p) /\ ~Searched(p)' /\ ~Revised(p)'
  BY <1>1 DEF NoRevision, Searched, Revised
<1>4. \A p \in Sequences :
          /\ CountedTo[p] = Len(history[p]) /\ ContinuedTo[p] = Len(history[p]) - 1
          /\ CountedTo'[p] = Len(history'[p]) /\ ContinuedTo'[p] = Len(history'[p]) - 1
  BY <1>3, WholeCounted
<1>5. DivergedBefore'
  BY <1>3 DEF DivergedBefore
<1>6. CountedWithin
  BY CountsAreWithin DEF CInv
<1>7. belief \in Seq(Steps) /\ Nodes' \subseteq Seq(Steps)
  BY DEF IInv, TreeOK
<1>8. visits' = Remaining(visits, next) /\ continued' = Remaining(continued, next)
      /\ belief' = next /\ Nodes' = NodesKept(next)
  BY <1>2 DEF MovesOn, Remaining, Nodes
<1>9. ASSUME NEW p \in Sequences, p \notin HistoriesKept(next), NEW n \in Nodes', Trusted(n)',
             NEW hi \in Int, hi <= Len(history[p])
      PROVE  Stops(history[p], 2, hi, n) = {}
  <2>1. PICK h : h = history[p]
    OBVIOUS
  <2>2. /\ HistoryTyped(h) /\ Straight(h)
        /\ h # <<>> => IsPrefix(h[1].node, belief)
    BY <2>1 DEF IInv, HistoriesOK, HistoryOK, Placed, Sound, AtOrBelow
  <2>3. next \notin NodesOf(h) /\ options.pruneEveryStep
    BY <1>9, <2>1 DEF HistoriesKept
  <2>4. n \in Seq(Steps) /\ IsPrefix(next, n)
    BY <1>1, <1>7, <1>8, <1>9, <2>3 DEF Trusted, AtOrBelow
  <2> QED
    <3>1. PICK b : b = belief /\ b \in Seq(Steps) /\ IsPrefix(b, next)
                   /\ (h # <<>> => IsPrefix(h[1].node, b))
      BY <1>2, <1>7, <2>2
    <3>2. hi <= Len(h)
      BY <1>9, <2>1
    <3>3. Stops(h, 2, hi, n) = {}
      BY <2>2, <2>3, <2>4, <3>1, <3>2, NeverReached
    <3> QED
      BY <2>1, <3>3
<1>10. ASSUME NEW p \in Sequences, NEW n \in Nodes', Trusted(n)', NEW d \in Nat, d = 0 \/ d = 1
       PROVE  Stops(history'[p], 2, Len(history'[p]) - d, n) = Stops(history[p], 2, Len(history[p]) - d, n)
  <2>0. history'[p] = IF p = q THEN <<LastEntry(s, next)>>
                      ELSE IF p \in HistoriesKept(next) THEN history[p] ELSE <<>>
    BY <1>2 DEF MovesOn, HistoriesThen
  <2>1. CASE p # q /\ p \in HistoriesKept(next)
    BY <2>0, <2>1
  <2>2. CASE p = q \/ p \notin HistoriesKept(next)
    <3>1. PICK k : k = Len(history'[p]) /\ k \in Nat /\ k <= 1
      BY <2>0, <2>2
    <3>2. Stops(history'[p], 2, Len(history'[p]) - d, n) = {}
      <4>1. 2..(Len(history'[p]) - d) = {}
        BY <3>1, Shorter
      <4> QED
        BY <4>1 DEF Stops
    <3>3. Stops(history[p], 2, Len(history[p]) - d, n) = {}
      <4>1. Len(history[p]) \in Nat
        BY <1>6 DEF CountedWithin
      <4>2. PICK hi : hi \in Int /\ hi = Len(history[p]) - d /\ hi <= Len(history[p])
        <5>1. PICK len : len = Len(history[p]) /\ len \in Nat
          BY <4>1
        <5> QED
          BY <5>1, Shorter
      <4>3. CASE p \notin HistoriesKept(next)
        BY <1>9, <1>10, <4>2, <4>3
      <4>4. CASE p = q /\ q \in Free
        <5>1. Len(history[p]) = 0
          BY <4>4 DEF Free
        <5> QED
          BY <5>1 DEF Stops
      <4> QED
        BY <1>2, <2>2, <4>3, <4>4 DEF MovesOn
    <3> QED
      BY <3>2, <3>3
  <2> QED
    BY <2>1, <2>2
<1>11. ASSUME NEW n \in Nodes', Trusted(n)'
       PROVE  /\ visits'[n] = Cardinality(AllStops(history', CountedTo', n))
              /\ continued'[n] <= Cardinality(AllStops(history', ContinuedTo', n))
  <2>1. Trusted(n)
    <3>1. options.pruneEveryStep => IsPrefix(next, n) /\ n \in Seq(Steps)
      BY <1>1, <1>7, <1>8, <1>11 DEF Trusted, AtOrBelow
    <3>2. options.pruneEveryStep => IsPrefix(belief, n)
      BY <1>2, <1>7, <3>1, PrefixOrder
    <3> QED
      BY <1>11, <3>2 DEF Trusted, AtOrBelow
  <2>2. \A p \in Sequences :
            /\ Stops(history'[p], 2, Len(history'[p]) - 0, n) = Stops(history[p], 2, Len(history[p]) - 0, n)
            /\ Stops(history'[p], 2, Len(history'[p]) - 1, n) = Stops(history[p], 2, Len(history[p]) - 1, n)
    BY <1>10, <1>11
  <2>3. \A p \in Sequences : Len(history'[p]) - 0 = Len(history'[p]) /\ Len(history[p]) - 0 = Len(history[p])
    <3>1. \A p \in Sequences : Len(history[p]) \in Nat
      BY <1>6 DEF CountedWithin
    <3>2. \A p \in Sequences : Len(history'[p]) \in Nat
      <4>1. CountedWithin'
        BY <1>5, CountsAreWithinThen
      <4> QED
        BY <4>1 DEF CountedWithin
    <3> QED
      BY <3>1, <3>2
  <2>4. \A p \in Sequences :
            /\ Stops(history'[p], 2, CountedTo'[p], n) = Stops(history[p], 2, CountedTo[p], n)
            /\ Stops(history'[p], 2, ContinuedTo'[p], n) = Stops(history[p], 2, ContinuedTo[p], n)
    BY <1>4, <2>2, <2>3
  <2>5. /\ AllStops(history', CountedTo', n) = AllStops(history, CountedTo, n)
        /\ AllStops(history', ContinuedTo', n) = AllStops(history, ContinuedTo, n)
    BY <2>4 DEF AllStops
  <2>6. visits'[n] = Before(visits, n) /\ continued'[n] = Before(continued, n)
    <3>1. Nodes = DOMAIN visits /\ Nodes = DOMAIN continued /\ n \in NodesKept(next)
      BY <1>8, <1>11 DEF IInv, TreeOK, Nodes
    <3> QED
      BY <1>8, <3>1 DEF Remaining, Before
  <2> QED
    BY <1>6, <2>1, <2>5, <2>6, CountsBefore
<1>12. Counts'
  BY <1>11 DEF Counts, AllStops
<1> QED
  BY <1>5, <1>12 DEF CInv

-----------------------------------------------------------------------------
(* The counts of all steps. *)

LEMMA CountsInit == Init => CInv
<1> SUFFICES ASSUME Init PROVE CInv
  OBVIOUS
<1>1. Nodes = {Root} /\ phase = "planning"
  BY DEF Init, Nodes
<1>2. Counts
  BY <1>1 DEF Counts, Trusted
<1>3. DivergedBefore
  BY <1>1 DEF DivergedBefore, Revised
<1> QED
  BY <1>2, <1>3 DEF CInv

LEMMA CountsNext == IInv /\ IInv' /\ CInv /\ [Next]_vars => CInv'
<1> SUFFICES ASSUME IInv, IInv', CInv, [Next]_vars PROVE CInv'
  OBVIOUS
<1>1. CASE NoChanges \/ ChangeEnvironment \/ EndFlagging \/ EndDeleting \/ EndChanges
  BY <1>1, QuietCounts
<1>2. CASE \E s \in States : FlagState(s)
  BY <1>2, FlagStateCounts
<1>3. ASSUME NEW q \in Sequences,
             \/ StartSearch(q) \/ SearchStep(q) \/ UpdateBelief(q)
             \/ DeleteSequence(q)
             \/ StartRevision(q) \/ ReviseEntry(q) \/ EndRevision(q)
      PROVE  CInv'
  BY <1>3, StartSearchCounts, SearchStepCounts, UpdateBeliefCounts, DeleteSequenceCounts,
     StartRevisionCounts, ReviseEntryCounts, EndRevisionCounts
<1>4. CASE UNCHANGED vars
  BY <1>4, StutterCounts
<1> QED
  BY <1>1, <1>2, <1>3, <1>4 DEF Next

(* In every phase, a node from the agent's belief on has a visit for each   *)
(* entry that is counted, and no more continuations than go on from it.     *)
THEOREM CountsHold == Spec => []CInv
<1>1. IInv /\ IInv' /\ CInv /\ [Next]_vars => CInv'
  BY CountsNext
<1> QED
  BY <1>1, CountsInit, InvariantHolds, PTL DEF Spec

(* While nothing is searched or revised the entries counted are those that  *)
(* reach the node, and the continued ones are those with an action.         *)
LEMMA SettledCounts ==
    ASSUME IInv, CInv, Settled, NEW n
    PROVE  /\ AllStops(history, CountedTo, n) = Reaching(n)
           /\ AllStops(history, ContinuedTo, n)
                = {u \in Reaching(n) : EntryAt(u).action # NoAction}
<1>1. \A p : ~Searched(p) /\ ~Revised(p)
  BY DEF Settled, Searched, Revised, NoRevision
<1>2. ASSUME NEW p \in Sequences
      PROVE  /\ CountedTo[p] = Len(history[p]) /\ ContinuedTo[p] = Len(history[p]) - 1
             /\ HistoryTyped(history[p])
             /\ Len(history[p]) \in Nat /\ Len(history[p]) <= MaximumDepth + 1
             /\ DOMAIN history[p] = 1..Len(history[p])
             /\ \A j \in 1..Len(history[p]) : history[p][j].action # NoAction <=> j < Len(history[p])
  <2>1. CountedTo[p] = Len(history[p]) /\ ContinuedTo[p] = Len(history[p]) - 1
    BY <1>1, WholeCounted
  <2>2. HistoryTyped(history[p])
    BY DEF IInv, HistoriesOK, HistoryOK, Placed, Sound
  <2>3. Len(history[p]) \in Nat /\ DOMAIN history[p] = 1..Len(history[p])
    BY <2>2, HistoryElements
  <2>4. \A j \in 1..Len(history[p]) : history[p][j].action # NoAction <=> j < Len(history[p])
    BY <2>2, ChangeAssumption DEF HistoryTyped
  <2>5. Len(history[p]) <= MaximumDepth + 1
    BY <2>2 DEF HistoryTyped
  <2> QED
    BY <2>1, <2>2, <2>3, <2>4, <2>5
<1>3. ASSUME NEW p \in Sequences, NEW j \in Nat
      PROVE  /\ j \in Stops(history[p], 2, CountedTo[p], n) <=>
                    /\ j \in 1..(MaximumDepth + 1) /\ j \in DOMAIN history[p]
                    /\ j > 1 /\ history[p][j].node = n
             /\ j \in Stops(history[p], 2, ContinuedTo[p], n) <=>
                    /\ j \in 1..(MaximumDepth + 1) /\ j \in DOMAIN history[p]
                    /\ j > 1 /\ history[p][j].node = n
                    /\ history[p][j].action # NoAction
  <2>1. PICK h, l : h = history[p] /\ l = Len(h) /\ l \in Nat /\ l <= MaximumDepth + 1
                    /\ CountedTo[p] = l /\ ContinuedTo[p] = l - 1 /\ DOMAIN h = 1..l
                    /\ \A i \in 1..l : h[i].action # NoAction <=> i < l
    BY <1>2
  <2>2. MaximumDepth \in Nat
    BY ChangeAssumption
  <2>3. j \in Stops(h, 2, l, n) <=>
            /\ j \in 1..(MaximumDepth + 1) /\ j \in DOMAIN h /\ j > 1 /\ h[j].node = n
    BY <2>1, <2>2 DEF Stops
  <2>4. j \in Stops(h, 2, l - 1, n) <=>
            /\ j \in 1..(MaximumDepth + 1) /\ j \in DOMAIN h /\ j > 1 /\ h[j].node = n
            /\ h[j].action # NoAction
    BY <2>1, <2>2 DEF Stops
  <2> QED
    BY <2>1, <2>3, <2>4
<1>4. Reaching(n) = {u \in Sequences \X Nat : u[2] \in Stops(history[u[1]], 2, CountedTo[u[1]], n)}
  <2>1. ASSUME NEW u
        PROVE  u \in Reaching(n) <=>
                 /\ u \in Sequences \X Nat
                 /\ u[2] \in Stops(history[u[1]], 2, CountedTo[u[1]], n)
    <3>1. u \in Sequences \X (1..MaximumDepth + 1) <=>
              u \in Sequences \X Nat /\ u[2] \in 1..(MaximumDepth + 1)
      BY ChangeAssumption
    <3>2. u \in Sequences \X Nat => u[1] \in Sequences /\ u[2] \in Nat
      OBVIOUS
    <3> QED
      BY <1>3, <3>1, <3>2 DEF Reaching, EntryIds, EntryAt
  <2> QED
    BY <2>1
<1>5. {u \in Reaching(n) : EntryAt(u).action # NoAction}
        = {u \in Sequences \X Nat : u[2] \in Stops(history[u[1]], 2, ContinuedTo[u[1]], n)}
  <2>1. ASSUME NEW u
        PROVE  (u \in Reaching(n) /\ EntryAt(u).action # NoAction) <=>
                 /\ u \in Sequences \X Nat
                 /\ u[2] \in Stops(history[u[1]], 2, ContinuedTo[u[1]], n)
    <3>1. u \in Sequences \X (1..MaximumDepth + 1) <=>
              u \in Sequences \X Nat /\ u[2] \in 1..(MaximumDepth + 1)
      BY ChangeAssumption
    <3>2. u \in Sequences \X Nat => u[1] \in Sequences /\ u[2] \in Nat
      OBVIOUS
    <3> QED
      BY <1>3, <3>1, <3>2 DEF Reaching, EntryIds, EntryAt
  <2> QED
    BY <2>1
<1> QED
  BY <1>4, <1>5 DEF AllStops

(* Whatever is searched, revised, deleted or pruned, the visits of a node   *)
(* are those of the histories there are.                                    *)
THEOREM CountsAreExact == Spec => []CountsExact
<1>1. IInv /\ CInv => CountsExact
  <2> SUFFICES ASSUME IInv, CInv, Settled, NEW n \in Nodes, Trusted(n)
               PROVE  visits[n] = Cardinality(Reaching(n))
    BY DEF CountsExact
  <2>1. AllStops(history, CountedTo, n) = Reaching(n)
    BY SettledCounts
  <2> QED
    BY <2>1 DEF CInv, Counts
<1> QED
  BY <1>1, InvariantHolds, CountsHold, PTL

(* No value is passed up for a continuation there is not, also where a      *)
(* history ended early after it had diverged.                               *)
THEOREM ContinuationsBound == Spec => []NoValueWithoutContinuation
<1>1. IInv /\ CInv => NoValueWithoutContinuation
  <2> SUFFICES ASSUME IInv, CInv, Settled, NEW n \in Nodes, Trusted(n)
               PROVE  continued[n] <= Cardinality({u \in Reaching(n) : EntryAt(u).action # NoAction})
    BY DEF NoValueWithoutContinuation
  <2>1. AllStops(history, ContinuedTo, n) = {u \in Reaching(n) : EntryAt(u).action # NoAction}
    BY SettledCounts
  <2> QED
    BY <2>1 DEF CInv, Counts
<1> QED
  BY <1>1, InvariantHolds, CountsHold, PTL

-----------------------------------------------------------------------------
(* Which observations are not current, finding 4. *)

(* The observation of a step may have come with the state the step leads    *)
(* to, or else that state gives one of another entry of the mapping, which  *)
(* is what the revision does not put in its place.                          *)
ObservationExplained(h, i) ==
    \/ h[i].observation \in Observe[h[i + 1].state]
    \/ \E o \in Observe[h[i + 1].state] : Cell[o] # Cell[h[i].observation]

Explained(h) == \A i \in 1..(Len(h) - 1) : ObservationExplained(h, i)

StaleOnlyAcrossEntries == \A q \in Sequences : Explained(history[q])

LEMMA ExplainedTransfers ==
    ASSUME NEW h, NEW g, Explained(h),
           Len(h) \in Nat, Len(g) \in Nat, Len(g) <= Len(h),
           \A j \in 1..Len(g) : g[j].state = h[j].state,
           \A j \in 1..(Len(g) - 1) : g[j].observation = h[j].observation
    PROVE  Explained(g)
<1> SUFFICES ASSUME NEW i \in 1..(Len(g) - 1) PROVE ObservationExplained(g, i)
  BY DEF Explained
<1>1. i \in 1..(Len(h) - 1) /\ i + 1 \in 1..Len(g)
  OBVIOUS
<1>2. ObservationExplained(h, i)
  BY <1>1 DEF Explained
<1>3. g[i].observation = h[i].observation /\ g[i + 1].state = h[i + 1].state
  BY <1>1
<1> QED
  BY <1>2, <1>3 DEF ObservationExplained

LEMMA ShortIsExplained ==
    ASSUME NEW h, Len(h) = 0 \/ Len(h) = 1 PROVE Explained(h)
<1>1. 1..(0 - 1) = {} /\ 1..(1 - 1) = {}
  OBVIOUS
<1> QED
  BY <1>1 DEF Explained

(* One history changes. *)
LEMMA OneIsExplained ==
    ASSUME StaleOnlyAcrossEntries, DOMAIN history = Sequences,
           NEW q \in Sequences, NEW g, history' = [history EXCEPT ![q] = g], Explained(g)
    PROVE  StaleOnlyAcrossEntries'
<1> SUFFICES ASSUME NEW p \in Sequences PROVE Explained(history'[p])
  BY DEF StaleOnlyAcrossEntries, Explained, ObservationExplained
<1>1. CASE p = q
  BY <1>1
<1>2. CASE p # q
  <2>1. history'[p] = history[p]
    BY <1>2
  <2> QED
    BY <2>1 DEF StaleOnlyAcrossEntries
<1> QED
  BY <1>1, <1>2

LEMMA StartSearchExplained ==
    ASSUME IInv, StaleOnlyAcrossEntries, NEW q \in Sequences, StartSearch(q)
    PROVE  StaleOnlyAcrossEntries'
<1>1. PICK s : history' = [history EXCEPT ![q] = <<LastEntry(s, belief)>>]
  BY DEF StartSearch
<1> DEFINE g == <<LastEntry(s, belief)>>
<1>2. history' = [history EXCEPT ![q] = g] /\ Len(g) = 1
  BY <1>1
<1> HIDE DEF g
<1>3. Explained(g)
  BY <1>2, ShortIsExplained
<1> QED
  BY <1>2, <1>3, OneIsExplained DEF IInv, HistoriesOK

LEMMA DeleteSequenceExplained ==
    ASSUME IInv, StaleOnlyAcrossEntries, NEW q \in Sequences, DeleteSequence(q)
    PROVE  StaleOnlyAcrossEntries'
<1>1. history' = [history EXCEPT ![q] = <<>>]
  BY DEF DeleteSequence
<1>2. Len(<<>>) = 0
  OBVIOUS
<1>3. Explained(<<>>)
  BY <1>2, ShortIsExplained
<1> QED
  BY <1>1, <1>3, OneIsExplained DEF IInv, HistoriesOK

(* A search takes an observation of the state it comes to. *)
LEMMA SearchStepExplained ==
    ASSUME IInv, StaleOnlyAcrossEntries, NEW q \in Sequences, SearchStep(q)
    PROVE  StaleOnlyAcrossEntries'
<1> DEFINE h == history[q]
           k == Len(h)
<1>1. HistoryOK(q) /\ Searched(q)
  BY DEF IInv, HistoriesOK, SearchStep, Searched
<1>2. Sound(h) /\ Growing(h)
  BY <1>1 DEF HistoryOK, Placed, EndOK
<1>3. /\ k \in Nat /\ k \in DOMAIN h /\ DOMAIN h = 1..k
      /\ h = [j \in 1..k |-> h[j]] /\ h[k] \in EntryType /\ h[k].state \in States
      /\ \A j \in 1..k : h[j] \in EntryType
  <2>1. HistoryTyped(h) /\ Len(h) \in 1..MaximumDepth /\ h \in Seq(EntryType)
    BY <1>2 DEF Sound, Growing, HistoryTyped
  <2>2. k \in Nat /\ k >= 1 /\ DOMAIN h = 1..k /\ \A j \in 1..k : h[j] \in EntryType
    BY <2>1, HistoryElements
  <2>3. h = [j \in 1..k |-> h[j]]
    BY <2>1
  <2>4. k \in DOMAIN h /\ h[k] \in EntryType
    BY <2>2
  <2>5. h[k].state \in States
    BY <2>4, EntryFields
  <2> HIDE DEF h, k
  <2> QED
    BY <2>2, <2>3, <2>4, <2>5
<1>4. PICK a, n, o, v, g :
          /\ a \in Actions /\ n \in Moves[h[k].state][a] /\ o \in Observe[n]
          /\ v \in {<<>>, Heuristic(n)} /\ g = Longer(h, a, n, o, v)
          /\ history' = [history EXCEPT ![q] = g]
  BY SearchOutcomes
<1>5. n \in States /\ o \in Observations /\ v \in Values
  BY <1>3, <1>4, NextStates DEF Heuristic, Values
<1> DEFINE x == Taken(h[k], a, n, o)
           y == Arrived(h[k], a, n, o, v)
           b == [h EXCEPT ![k] = x]
<1>6. /\ x \in EntryType /\ x.state = h[k].state /\ x.observation = o
      /\ y \in EntryType /\ y.state = n
  BY <1>3, <1>4, <1>5, TakenEntry, ArrivedEntry
<1>7. g = b \o <<y>>
  BY <1>4 DEF Longer
<1>8. Explained(h)
  BY DEF StaleOnlyAcrossEntries
<1> HIDE DEF x, y, h
<1>9. b \in Seq(EntryType) /\ Len(b) = k /\ b[k] = x
      /\ \A j \in 1..k : j # k => b[j] = h[j]
  <2>1. b = [j \in 1..k |-> IF j = k THEN x ELSE h[j]]
    BY <1>3
  <2>2. b \in [1..k -> EntryType]
    BY <1>3, <1>6, <2>1
  <2> QED
    BY <1>3, <2>1, <2>2
<1> HIDE DEF b, k
<1>10. /\ Len(g) = k + 1 /\ g[k + 1] = y
       /\ \A j \in 1..k : g[j] = b[j]
  <2>1. <<y>> \in Seq(EntryType) /\ Len(<<y>>) = 1 /\ <<y>>[1] = y
    BY <1>6
  <2> QED
    BY <1>3, <1>7, <1>9, <2>1, ConcatProperties
<1>11. ASSUME NEW i \in 1..(Len(g) - 1) PROVE ObservationExplained(g, i)
  <2>1. CASE i = k
    <3>1. g[i].observation = o /\ g[i + 1].state = n
      BY <1>3, <1>6, <1>9, <1>10, <2>1
    <3> QED
      BY <1>4, <3>1 DEF ObservationExplained
  <2>2. CASE i # k
    <3>1. i \in 1..(k - 1) /\ i \in 1..k /\ i + 1 \in 1..k
      BY <1>3, <1>10, <2>2
    <3>2. g[i] = h[i]
      BY <1>9, <1>10, <2>2, <3>1
    <3>3. g[i + 1].state = h[i + 1].state
      BY <1>6, <1>9, <1>10, <3>1
    <3>4. ObservationExplained(h, i)
      BY <1>8, <3>1 DEF Explained, k
    <3> QED
      BY <3>2, <3>3, <3>4 DEF ObservationExplained
  <2> QED
    BY <2>1, <2>2
<1>12. Explained(g)
  BY <1>11 DEF Explained
<1> QED
  BY <1>4, <1>12, OneIsExplained DEF IInv, HistoriesOK

(* Moving on only takes histories away, or starts one. *)
LEMMA UpdateBeliefExplained ==
    ASSUME IInv, StaleOnlyAcrossEntries, NEW q \in Sequences, UpdateBelief(q)
    PROVE  StaleOnlyAcrossEntries'
<1>1. PICK s, next : MovesOn(q, s, next)
  BY BelowBelief
<1>2. history' = HistoriesThen(next, q, s)
  BY <1>1 DEF MovesOn
<1> SUFFICES ASSUME NEW p \in Sequences PROVE Explained(history'[p])
  BY DEF StaleOnlyAcrossEntries, Explained, ObservationExplained
<1>3. \/ history'[p] = <<LastEntry(s, next)>>
      \/ history'[p] = history[p]
      \/ history'[p] = <<>>
  BY <1>2 DEF HistoriesThen
<1>4. history'[p] = history[p] \/ Len(history'[p]) = 1 \/ Len(history'[p]) = 0
  <2>1. \A e : Len(<<e>>) = 1
    OBVIOUS
  <2>2. Len(<<>>) = 0
    OBVIOUS
  <2> QED
    BY <1>3, <2>1, <2>2
<1>5. Explained(history[p])
  BY DEF StaleOnlyAcrossEntries
<1> QED
  BY <1>4, <1>5, ShortIsExplained

(* Flags are not observations. *)
LEMMA FlagStateExplained ==
    ASSUME IInv, StaleOnlyAcrossEntries, NEW s, FlagState(s)
    PROVE  StaleOnlyAcrossEntries'
<1> SUFFICES ASSUME NEW p \in Sequences PROVE Explained(history'[p])
  BY DEF StaleOnlyAcrossEntries, Explained, ObservationExplained
<1> DEFINE h == history[p]
           g == WithFlags(p, Uses(s))
<1>1. history'[p] = g
  BY DEF FlagState
<1>2. Sound(h) /\ Explained(h)
  BY DEF IInv, HistoriesOK, HistoryOK, Placed, StaleOnlyAcrossEntries
<1>3. Len(h) \in Nat /\ DOMAIN h = 1..Len(h) /\ \A j \in DOMAIN h : h[j] \in EntryType
  BY <1>2, HistoryElements DEF Sound
<1>4. g = [j \in 1..Len(h) |-> [h[j] EXCEPT !.flags = @ \cup FlagsRaised(p, j, Uses(s))]]
  BY <1>3 DEF WithFlags
<1>5. ASSUME NEW j \in 1..Len(h)
      PROVE  g[j].state = h[j].state /\ g[j].observation = h[j].observation
  <2>1. h[j] \in EntryType
    BY <1>3
  <2>2. g[j] = [h[j] EXCEPT !.flags = @ \cup FlagsRaised(p, j, Uses(s))]
    BY <1>4
  <2> HIDE DEF h, g
  <2> QED
    BY <2>1, <2>2 DEF EntryType
<1>6. Len(g) = Len(h)
  BY <1>3, <1>4
<1> HIDE DEF h, g
<1>7. Explained(g)
  BY <1>2, <1>3, <1>5, <1>6, ExplainedTransfers
<1> QED
  BY <1>1, <1>7

(* A revised step has an observation of its new state, of the same entry,   *)
(* or keeps the old one because the new state gives one of another entry.   *)
LEMMA ReviseEntryExplained ==
    ASSUME IInv, StaleOnlyAcrossEntries, NEW q \in Sequences, ReviseEntry(q)
    PROVE  StaleOnlyAcrossEntries'
<1> DEFINE h == history[q]
           i == revision.at
<1>1. phase = "revising" /\ revision.seq = {q}
  BY DEF ReviseEntry
<1>2. PICK n, flags, kept, g : Round(q, h, i, n, flags, kept, g)
  BY ReviseEntryHistory
<1>3. /\ Sound(h) /\ CurrentEnd(h) /\ Len(h) \in Nat /\ DOMAIN h = 1..Len(h) /\ i \in Nat
      /\ \A j \in DOMAIN h : h[j] \in EntryType
  BY <1>1, RevisionFacts, HistoryElements DEF Sound
<1>4. /\ i \in 1..(Len(h) - 1) /\ h[i].state \notin Terminal /\ n \in States
      /\ IF "TRANSITION" \in h[i].flags THEN n \in Moves[h[i].state][h[i].action]
                                        ELSE n = h[i + 1].state
      /\ Revises(h, i, flags, kept, n, g)
      /\ \/ kept \in Observe[n]
         \/ /\ kept = h[i].observation
            /\ n # h[i + 1].state => \E o \in Observe[n] : Cell[o] # Cell[kept]
      /\ history' = [history EXCEPT ![q] = g]
  BY <1>2 DEF Round
<1>5. Explained(h)
  BY DEF StaleOnlyAcrossEntries
<1> HIDE DEF h, i
<1>6. /\ \A j \in DOMAIN h : j # i /\ j # i + 1 => g[j] = h[j]
      /\ g[i].state = h[i].state /\ g[i + 1].state = n /\ Len(g) = Len(h)
  BY <1>3, <1>4, RevisedIsSound
<1>7. i \in DOMAIN h /\ i + 1 \in DOMAIN h /\ i # i + 1
  BY <1>3, <1>4
<1>8. g[i].observation = kept /\ g[i + 1].observation = h[i + 1].observation
  <2>1. g = [h EXCEPT ![i] = RevisedEntry(h[i], flags, kept, n),
                      ![i + 1] = NextEntry(h[i + 1], n, h[i + 1].node)]
    BY <1>4 DEF Revises
  <2>2. /\ g[i] = RevisedEntry(h[i], flags, kept, n)
        /\ g[i + 1] = NextEntry(h[i + 1], n, h[i + 1].node)
    BY <1>7, <2>1
  <2>3. h[i] \in EntryType /\ h[i + 1] \in EntryType
    BY <1>3, <1>7
  <2>4. RevisedEntry(h[i], flags, kept, n).observation = kept
    BY <2>3, RevisedEntryFields
  <2>5. \A e \in EntryType : NextEntry(e, n, e.node).observation = e.observation
    BY DEF NextEntry, EntryType
  <2> QED
    BY <2>2, <2>3, <2>4, <2>5
<1>9. ASSUME NEW j \in 1..(Len(g) - 1) PROVE ObservationExplained(g, j)
  <2>1. j \in 1..(Len(h) - 1) /\ j \in DOMAIN h /\ j + 1 \in DOMAIN h
    BY <1>3, <1>6
  <2>2. ObservationExplained(h, j)
    BY <1>5, <2>1 DEF Explained
  <2>3. CASE j = i
    <3>1. g[j].observation = kept /\ g[j + 1].state = n
      BY <1>6, <1>8, <2>3
    <3>2. kept \in Observe[n] \/ \E o \in Observe[n] : Cell[o] # Cell[kept]
      BY <1>4, <2>2, <2>3 DEF ObservationExplained
    <3> QED
      BY <3>1, <3>2 DEF ObservationExplained
  <2>4. CASE j # i
    <3>1. g[j].observation = h[j].observation
      BY <1>6, <1>8, <2>1, <2>4
    <3>2. g[j + 1].state = h[j + 1].state
      <4>1. CASE j + 1 = i
        BY <1>6, <4>1
      <4>2. CASE j + 1 # i
        <5>1. j + 1 # i + 1
          BY <1>4, <2>1, <2>4
        <5> QED
          BY <1>6, <2>1, <4>2, <5>1
      <4> QED
        BY <4>1, <4>2
    <3> QED
      BY <2>2, <3>1, <3>2 DEF ObservationExplained
  <2> QED
    BY <2>3, <2>4
<1>10. Explained(g)
  BY <1>9 DEF Explained
<1> QED
  BY <1>4, <1>10, OneIsExplained DEF IInv, HistoriesOK

LEMMA EndKeepsObservations ==
    ASSUME NEW h, Sound(h), NEW r, r.at \in DOMAIN h, NEW g, g = EndedHistory(h, r)
    PROVE  \A j \in 1..(Len(g) - 1) : j \in DOMAIN h => g[j].observation = h[j].observation
<1> DEFINE i == r.at
<1>1. /\ HistoryTyped(h) /\ h \in Seq(EntryType) /\ Len(h) \in Nat /\ DOMAIN h = 1..Len(h)
      /\ i \in 1..Len(h) /\ i \in Nat /\ \A j \in DOMAIN h : h[j] \in EntryType
  BY HistoryElements DEF Sound, HistoryTyped
<1>2. CASE EndsEarly(h, r)
  <2> DEFINE b == SubSeq(h, 1, i - 1)
             x == LastEntry(h[i].state, h[i].node)
  <2>1. g = b \o <<x>>
    BY <1>2 DEF EndedHistory, CutOff
  <2>2. x \in EntryType
    <3>1. h[i].state \in States /\ h[i].node \in Paths
      BY <1>1 DEF EntryType
    <3> QED
      BY <3>1, LastEntryFields
  <2>3. b \in Seq(EntryType) /\ Len(b) = i - 1 /\ \A j \in 1..(i - 1) : b[j] = h[j]
    <3>1. 1 \in 1..(Len(h) + 1) /\ i - 1 \in 0..Len(h)
      BY <1>1
    <3>2. \A k \in 1..(i - 1) : 1 + k - 1 = k
      BY <1>1
    <3> HIDE DEF i
    <3> QED
      BY <1>1, <3>1, <3>2, SubSeqProperties
  <2> HIDE DEF b, x, i
  <2>4. Len(g) = i /\ \A j \in 1..(i - 1) : g[j] = h[j]
    <3>1. <<x>> \in Seq(EntryType) /\ Len(<<x>>) = 1
      BY <2>2
    <3>2. Len(b) + 1 = i /\ Len(b) \in Nat
      BY <1>1, <2>3
    <3> QED
      BY <1>1, <2>1, <2>3, <3>1, <3>2, ConcatProperties
  <2> QED
    BY <2>4
<1>3. CASE ~EndsEarly(h, r)
  <2> DEFINE reached == Reached(h, i)
  <2>1. g = Rerouted(reached, i) \/ g = reached
    BY <1>3 DEF EndedHistory
  <2>2. reached = [j \in DOMAIN h |-> IF j = i THEN ReachedEntry(h[i]) ELSE h[j]]
    BY <1>1 DEF Reached
  <2>3. ASSUME NEW j \in DOMAIN h
        PROVE  reached[j].observation = h[j].observation /\ "observation" \in DOMAIN reached[j]
    <3>1. h[j] \in EntryType /\ h[i] \in EntryType
      BY <1>1
    <3>2. CASE j = i
      <4>1. reached[j] = ReachedEntry(h[i])
        BY <2>2, <3>2
      <4> HIDE DEF reached
      <4> QED
        BY <3>1, <3>2, <4>1, ReachedEntryFields
    <3>3. CASE j # i
      <4>1. reached[j] = h[j]
        BY <2>2, <3>3
      <4> HIDE DEF reached
      <4> QED
        BY <3>1, <4>1 DEF EntryType
    <3> QED
      BY <3>2, <3>3
  <2>4. DOMAIN reached = DOMAIN h
    BY <2>2
  <2> HIDE DEF reached
  <2>5. CASE g = reached
    BY <2>3, <2>5
  <2>6. CASE g = Rerouted(reached, i)
    <3>1. ASSUME NEW j \in DOMAIN h PROVE g[j].observation = reached[j].observation
      <4>1. \E path : g[j] = IF j <= i THEN reached[j] ELSE [reached[j] EXCEPT !.node = path]
        BY <2>4, <2>6 DEF Rerouted
      <4>2. PICK path :
              g[j] = IF j <= i THEN reached[j] ELSE [reached[j] EXCEPT !.node = path]
        BY <4>1
      <4>3. [reached[j] EXCEPT !.node = path].observation = reached[j].observation
        BY <2>3
      <4> QED
        BY <4>2, <4>3
    <3> QED
      BY <2>3, <3>1
  <2> QED
    BY <2>1, <2>5, <2>6
<1> QED
  BY <1>2, <1>3

LEMMA EndRevisionExplained ==
    ASSUME IInv, StaleOnlyAcrossEntries, NEW q \in Sequences, EndRevision(q)
    PROVE  StaleOnlyAcrossEntries'
<1> DEFINE h == history[q]
           g == EndedHistory(h, revision)
<1>1. phase = "revising" /\ revision.seq = {q}
  BY DEF EndRevision
<1>2. Sound(h) /\ Len(h) \in Nat /\ DOMAIN h = 1..Len(h) /\ revision.at \in DOMAIN h
  BY <1>1, RevisionFacts
<1>3. Explained(h)
  BY DEF StaleOnlyAcrossEntries
<1>4. Ending(q, h, g)
  BY EndRevisionHistory
<1>5. \A j \in 1..(Len(g) - 1) : j \in DOMAIN h => g[j].observation = h[j].observation
  BY <1>2, EndKeepsObservations
<1> HIDE DEF h, g
<1>6. /\ history' = [history EXCEPT ![q] = g] /\ Sound(g) /\ DOMAIN g \subseteq DOMAIN h
      /\ \A j \in DOMAIN g : g[j].state = h[j].state
  BY <1>4 DEF Ending
<1>7. Len(g) \in Nat /\ DOMAIN g = 1..Len(g)
  BY <1>6, HistoryElements DEF Sound
<1>8. Len(g) <= Len(h)
  <2>1. Len(g) # 0 => Len(g) \in DOMAIN h
    BY <1>6, <1>7
  <2> QED
    BY <1>2, <1>7, <2>1
<1>9. \A j \in 1..(Len(g) - 1) : g[j].observation = h[j].observation
  <2>1. \A j \in 1..(Len(g) - 1) : j \in DOMAIN h
    BY <1>2, <1>7, <1>8
  <2> QED
    BY <1>5, <2>1
<1>10. Explained(g)
  BY <1>2, <1>3, <1>6, <1>7, <1>8, <1>9, ExplainedTransfers
<1> QED
  BY <1>6, <1>10, OneIsExplained DEF IInv, HistoriesOK

LEMMA ExplainedInit == Init => StaleOnlyAcrossEntries
<1> SUFFICES ASSUME Init, NEW q \in Sequences PROVE Explained(history[q])
  BY DEF StaleOnlyAcrossEntries
<1>1. history[q] = <<>> /\ Len(<<>>) = 0
  BY DEF Init
<1> QED
  BY <1>1, ShortIsExplained

LEMMA ExplainedNext ==
    IInv /\ StaleOnlyAcrossEntries /\ [Next]_vars => StaleOnlyAcrossEntries'
<1> SUFFICES ASSUME IInv, StaleOnlyAcrossEntries, [Next]_vars PROVE StaleOnlyAcrossEntries'
  OBVIOUS
<1>1. CASE UNCHANGED history
  BY <1>1 DEF StaleOnlyAcrossEntries, Explained, ObservationExplained
<1>2. CASE \E s \in States : FlagState(s)
  BY <1>2, FlagStateExplained
<1>3. ASSUME NEW q \in Sequences,
             \/ StartSearch(q) \/ SearchStep(q) \/ UpdateBelief(q)
             \/ DeleteSequence(q) \/ ReviseEntry(q) \/ EndRevision(q)
      PROVE  StaleOnlyAcrossEntries'
  BY <1>3, StartSearchExplained, SearchStepExplained, UpdateBeliefExplained,
     DeleteSequenceExplained, ReviseEntryExplained, EndRevisionExplained
<1>4. /\ NoChanges \/ ChangeEnvironment \/ EndFlagging \/ EndDeleting \/ EndChanges
         => UNCHANGED history
      /\ \A q \in Sequences : StartRevision(q) => UNCHANGED history
      /\ UNCHANGED vars => UNCHANGED history
  BY DEF NoChanges, ChangeEnvironment, EndFlagging, EndDeleting, EndChanges, StartRevision,
         vars
<1> QED
  BY <1>1, <1>2, <1>3, <1>4 DEF Next

(* At any time, revision or not, where a history has an observation that    *)
(* the next state may not give, that state gives some observation of        *)
(* another entry: a condition necessary for finding 4, and the case in      *)
(* which reviseSequence keeps the old observation.                          *)
THEOREM StaleObservationsExplained == Spec => []StaleOnlyAcrossEntries
<1>1. IInv /\ StaleOnlyAcrossEntries /\ [Next]_vars => StaleOnlyAcrossEntries'
  BY ExplainedNext
<1> QED
  BY <1>1, ExplainedInit, InvariantHolds, PTL DEF Spec

(* So with a mapping of a single entry observations stay current, however   *)
(* states change: finding 4 takes two entries.                              *)
THEOREM ObservationsCurrentInOneEntry ==
    ASSUME \A o, p \in Observations : Cell[o] = Cell[p]
    PROVE  Spec => []ObservationsCurrent
<1>1. IInv /\ StaleOnlyAcrossEntries => ObservationsCurrent
  <2> SUFFICES ASSUME IInv, StaleOnlyAcrossEntries,
                      NEW q \in Sequences, NEW i \in DOMAIN history[q], i < Len(history[q])
               PROVE  history[q][i].observation \in Observe[history[q][i + 1].state]
    BY DEF ObservationsCurrent
  <2> DEFINE h == history[q]
  <2>1. Sound(h) /\ Explained(h)
    BY DEF IInv, HistoriesOK, HistoryOK, Placed, StaleOnlyAcrossEntries
  <2>2. Len(h) \in Nat /\ DOMAIN h = 1..Len(h) /\ \A j \in DOMAIN h : h[j] \in EntryType
    BY <2>1, HistoryElements DEF Sound
  <2>3. i \in 1..(Len(h) - 1) /\ i + 1 \in DOMAIN h
    BY <2>2
  <2>4. h[i].observation \in Observations
    BY <2>1, <2>2 DEF Sound, HistoryTyped
  <2>5. Observe[h[i + 1].state] \subseteq Observations
    <3>1. h[i + 1].state \in States
      BY <2>2, <2>3, EntryFields
    <3> QED
      BY <3>1, ChangeAssumption
  <2>6. ObservationExplained(h, i)
    BY <2>1, <2>3 DEF Explained
  <2> QED
    BY <2>4, <2>5, <2>6 DEF ObservationExplained
<1> QED
  BY <1>1, InvariantHolds, StaleObservationsExplained, PTL
=============================================================================
