----------------------- MODULE BeliefRegistryProofs -----------------------
(***************************************************************************)
(* No pointer dangles, for any number of sequences, states, actions and    *)
(* observations and any depth: the theorems about BeliefRegistry.          *)
(***************************************************************************)
EXTENDS BeliefRegistry, FiniteSetTheorems, SequenceTheorems, TLAPS

-----------------------------------------------------------------------------
(* Nodes are named by their path from the root: one is above another if its *)
(* path is a prefix.                                                        *)

(* A prefix is one element for element. *)
LEMMA PrefixElements ==
    ASSUME NEW S, NEW s \in Seq(S), NEW t \in Seq(S)
    PROVE  IsPrefix(s, t) <=> /\ Len(s) <= Len(t)
                              /\ \A i \in 1..Len(s) : s[i] = t[i]
<1>1. CASE Len(s) <= Len(t)
  <2> DEFINE a == SubSeq(s, 1, Len(s))
             b == SubSeq(t, 1, Len(s))
  <2>1. /\ a \in Seq(S) /\ Len(a) = Len(s)
        /\ \A i \in 1..Len(s) : a[i] = s[i]
    BY SubSeqProperties
  <2>2. /\ b \in Seq(S) /\ Len(b) = Len(s)
        /\ \A i \in 1..Len(s) : b[i] = t[i]
    BY <1>1, SubSeqProperties
  <2>3. IsPrefix(s, t) <=> a = b
    BY <1>1 DEF IsPrefix
  <2> HIDE DEF a, b
  <2>4. a = b <=> \A i \in 1..Len(s) : a[i] = b[i]
    BY <2>1, <2>2, SeqEqual
  <2> QED
    BY <1>1, <2>1, <2>2, <2>3, <2>4
<1>2. CASE ~(Len(s) <= Len(t))
  BY <1>2 DEF IsPrefix
<1> QED
  BY <1>1, <1>2

(* Prefixes are ordered, and two prefixes of a path are one of the other. *)
LEMMA PrefixOrder ==
    ASSUME NEW S, NEW s \in Seq(S), NEW t \in Seq(S), NEW u \in Seq(S)
    PROVE  /\ IsPrefix(s, s)
           /\ IsPrefix(s, t) /\ IsPrefix(t, u) => IsPrefix(s, u)
           /\ IsPrefix(s, u) /\ IsPrefix(t, u) /\ Len(s) <= Len(t) => IsPrefix(s, t)
           /\ IsPrefix(s, t) /\ Len(s) = Len(t) => s = t
<1>1. IsPrefix(s, s)
  BY PrefixElements
<1>2. IsPrefix(s, t) /\ IsPrefix(t, u) => IsPrefix(s, u)
  BY PrefixElements
<1>3. IsPrefix(s, u) /\ IsPrefix(t, u) /\ Len(s) <= Len(t) => IsPrefix(s, t)
  BY PrefixElements
<1>4. IsPrefix(s, t) /\ Len(s) = Len(t) => s = t
  BY PrefixElements, SeqEqual
<1> QED
  BY <1>1, <1>2, <1>3, <1>4

-----------------------------------------------------------------------------
HistoryEntries == [node : Seq(Edges), state : States]

(* What the types add: a freed address holds no entries, an owned one does. *)
EntriesOfOwned ==
    /\ entries \in [Sequences -> Seq(HistoryEntries)]
    /\ \A q \in Sequences : q \in Owned <=> entries[q] # <<>>

-----------------------------------------------------------------------------
(* The vector of owned sequences. *)

(* Ids and places agree, on a vector and an assignment of ids.              *)
IdsOf(seq, ids) ==
    /\ \A i \in DOMAIN seq : ids[seq[i]] = i - 1
    /\ IsInjective(seq)

(* A new sequence is appended and takes the next id.                        *)
LEMMA AppendKeepsIds ==
    ASSUME NEW S, NEW seq \in Seq(S), NEW ids \in [S -> Nat], IdsOf(seq, ids),
           NEW q \in S \ ToSet(seq)
    PROVE  /\ Append(seq, q) \in Seq(S)
           /\ ToSet(Append(seq, q)) = ToSet(seq) \cup {q}
           /\ [ids EXCEPT ![q] = Len(seq)] \in [S -> Nat]
           /\ IdsOf(Append(seq, q), [ids EXCEPT ![q] = Len(seq)])
<1> DEFINE t == Append(seq, q)
           new == [ids EXCEPT ![q] = Len(seq)]
<1>1. /\ t \in Seq(S)
      /\ DOMAIN t = 1..(Len(seq) + 1)
      /\ \A i \in 1..Len(seq) : t[i] = seq[i]
      /\ t[Len(seq) + 1] = q
      /\ Len(seq) \in Nat /\ DOMAIN seq = 1..Len(seq)
  OBVIOUS
<1>2. new \in [S -> Nat] /\ new[q] = Len(seq) /\ \A p \in S \ {q} : new[p] = ids[p]
  OBVIOUS
<1>3. \A i \in 1..Len(seq) : seq[i] \in S \ {q}
  BY DEF ToSet
<1> HIDE DEF t, new
<1>4. ToSet(t) = ToSet(seq) \cup {q}
  BY <1>1 DEF ToSet
<1>5. IdsOf(t, new)
  <2>1. ASSUME NEW i \in 1..(Len(seq) + 1) PROVE new[t[i]] = i - 1
    <3>1. CASE i = Len(seq) + 1
      BY <3>1, <1>1, <1>2
    <3>2. CASE i # Len(seq) + 1
      <4>1. i \in 1..Len(seq) /\ t[i] = seq[i] /\ seq[i] \in S \ {q}
        BY <3>2, <1>1, <1>3
      <4>2. ids[seq[i]] = i - 1
        BY <4>1, <1>1 DEF IdsOf
      <4> QED
        BY <4>1, <4>2, <1>2
    <3> QED
      BY <3>1, <3>2
  <2>2. IsInjective(t)
    BY <1>1, <1>3 DEF IdsOf, IsInjective
  <2> QED
    BY <1>1, <2>1, <2>2 DEF IdsOf
<1> QED
  BY <1>1, <1>2, <1>4, <1>5 DEF t, new

(* The last sequence takes the place and the id of the deleted one.         *)
Deletion(seq, ids, q, t, new) ==
    /\ t = Front([seq EXCEPT ![ids[q] + 1] = Last(seq)])
    /\ new = [ids EXCEPT ![Last(seq)] = ids[q], ![q] = 0]

LEMMA DeleteKeepsIds ==
    ASSUME NEW S, NEW seq \in Seq(S), NEW ids \in [S -> Nat], IdsOf(seq, ids),
           NEW q \in ToSet(seq),
           NEW t, NEW new, Deletion(seq, ids, q, t, new)
    PROVE  /\ t \in Seq(S)
           /\ ToSet(t) = ToSet(seq) \ {q}
           /\ new \in [S -> Nat]
           /\ IdsOf(t, new)
<1> DEFINE n == Len(seq)
           p == ids[q] + 1
           moved == [seq EXCEPT ![p] = Last(seq)]
<1>1. /\ n \in Nat /\ DOMAIN seq = 1..n /\ \A i \in 1..n : seq[i] \in S
  OBVIOUS
<1>2. PICK k \in 1..n : seq[k] = q
  BY <1>1 DEF ToSet
<1>3. p = k /\ n > 0 /\ q \in S
  BY <1>1, <1>2 DEF IdsOf
<1>4. Last(seq) = seq[n] /\ seq[n] \in S
  BY <1>1, <1>3 DEF Last
<1> HIDE DEF p, n
<1>5. /\ moved \in Seq(S) /\ Len(moved) = n
      /\ \A i \in 1..n : moved[i] = IF i = k THEN seq[n] ELSE seq[i]
  BY <1>1, <1>3, <1>4, ExceptSeq DEF n
<1> HIDE DEF moved
<1>6. /\ t \in Seq(S) /\ DOMAIN t = 1..(n - 1)
      /\ \A i \in 1..(n - 1) : t[i] = IF i = k THEN seq[n] ELSE seq[i]
  <2>1. t = SubSeq(moved, 1, n - 1)
    BY <1>5 DEF Deletion, Front, moved, p
  <2> QED
    BY <1>1, <1>3, <1>5, <2>1, SubSeqProperties
<1>7. \A i, j \in 1..n : seq[i] = seq[j] => i = j
  BY <1>1 DEF IdsOf, IsInjective
<1>8. ToSet(t) = ToSet(seq) \ {q}
  <2>1. ASSUME NEW i \in 1..(n - 1) PROVE t[i] \in ToSet(seq) \ {q}
    <3>1. CASE i = k
      <4>1. t[i] = seq[n] /\ n \in 1..n /\ n # k
        BY <3>1, <1>1, <1>3, <1>6
      <4>2. seq[n] # q
        BY <4>1, <1>2, <1>7
      <4> QED
        BY <4>1, <4>2, <1>1 DEF ToSet
    <3>2. CASE i # k
      <4>1. t[i] = seq[i] /\ i \in 1..n
        BY <3>2, <1>1, <1>6
      <4>2. seq[i] # q
        BY <3>2, <4>1, <1>2, <1>7
      <4> QED
        BY <4>1, <4>2, <1>1 DEF ToSet
    <3> QED
      BY <3>1, <3>2
  <2>2. ASSUME NEW i \in 1..n, seq[i] # q PROVE seq[i] \in ToSet(t)
    <3>1. CASE i = n
      <4>1. k \in 1..(n - 1) /\ k \in DOMAIN t
        BY <3>1, <2>2, <1>1, <1>2, <1>6
      <4>2. t[k] = seq[i]
        BY <3>1, <4>1, <1>6
      <4> QED
        BY <4>1, <4>2 DEF ToSet
    <3>2. CASE i # n
      <4>1. i \in 1..(n - 1) /\ i # k /\ i \in DOMAIN t
        BY <3>2, <2>2, <1>1, <1>2, <1>6
      <4>2. t[i] = seq[i]
        BY <4>1, <1>6
      <4> QED
        BY <4>1, <4>2 DEF ToSet
    <3> QED
      BY <3>1, <3>2
  <2>3. ToSet(t) \subseteq ToSet(seq) \ {q}
    BY <2>1, <1>6 DEF ToSet
  <2>4. ToSet(seq) \ {q} \subseteq ToSet(t)
    <3>1. \A e \in ToSet(seq) : \E i \in 1..n : e = seq[i]
      BY <1>1 DEF ToSet
    <3> QED
      BY <3>1, <2>2
  <2> QED
    BY <2>3, <2>4
<1>9. /\ new \in [S -> Nat]
      /\ \A e \in S \ {q} : new[e] = IF e = seq[n] THEN ids[q] ELSE ids[e]
  BY <1>3, <1>4 DEF Deletion
<1>10. \A i \in DOMAIN t : new[t[i]] = i - 1
  <2> SUFFICES ASSUME NEW i \in 1..(n - 1) PROVE new[t[i]] = i - 1
    BY <1>6
  <2>1. t[i] # q /\ t[i] \in S
    BY <1>1, <1>2, <1>6, <1>7
  <2>2. new[t[i]] = IF t[i] = seq[n] THEN ids[q] ELSE ids[t[i]]
    BY <2>1, <1>9
  <2>3. CASE i = k
    <3>1. t[i] = seq[n] /\ ids[q] = k - 1
      BY <2>3, <1>2, <1>6, <1>1 DEF IdsOf
    <3> QED
      BY <2>2, <2>3, <3>1
  <2>4. CASE i # k
    <3>1. t[i] = seq[i] /\ seq[i] # seq[n]
      BY <2>4, <1>1, <1>6, <1>7
    <3>2. ids[seq[i]] = i - 1
      BY <1>1 DEF IdsOf
    <3> QED
      BY <2>2, <3>1, <3>2
  <2> QED
    BY <2>3, <2>4
<1>11. IsInjective(t)
  <2> SUFFICES ASSUME NEW i \in 1..(n - 1), NEW j \in 1..(n - 1), t[i] = t[j]
               PROVE  i = j
    BY <1>6 DEF IsInjective
  <2>1. /\ t[i] = IF i = k THEN seq[n] ELSE seq[i]
        /\ t[j] = IF j = k THEN seq[n] ELSE seq[j]
    BY <1>6
  <2>2. i \in 1..n /\ j \in 1..n /\ n \in 1..n /\ i # n /\ j # n
    BY <1>1, <1>2
  <2>3. seq[i] # seq[n] /\ seq[j] # seq[n] /\ (seq[i] = seq[j] => i = j)
    BY <1>1, <1>7, <2>2
  <2> QED
    BY <2>1, <2>3
<1> QED
  BY <1>6, <1>8, <1>9, <1>10, <1>11 DEF IdsOf

(* Cleaning keeps some of the sequences, in their order, with new ids.      *)
Cleaning(S, seq, kept, staying, t, new) ==
    /\ \A i, j \in DOMAIN staying : i < j => staying[i] < staying[j]
    /\ {seq[staying[i]] : i \in DOMAIN staying} = kept
    /\ t = [i \in DOMAIN staying |-> seq[staying[i]]]
    /\ new = [q \in S |-> IF q \in kept
                   THEN (CHOOSE i \in DOMAIN t : t[i] = q) - 1 ELSE 0]

LEMMA CleanKeepsIds ==
    ASSUME NEW S, NEW seq \in Seq(S), IsInjective(seq), NEW kept,
           NEW n \in Nat, NEW staying \in [1..n -> DOMAIN seq],
           NEW t, NEW new, Cleaning(S, seq, kept, staying, t, new)
    PROVE  /\ t \in Seq(S)
           /\ ToSet(t) = kept
           /\ new \in [S -> Nat]
           /\ IdsOf(t, new)
<1>1. /\ DOMAIN t = 1..n
      /\ \A i \in 1..n : t[i] = seq[staying[i]] /\ staying[i] \in DOMAIN seq
      /\ \A i, j \in 1..n : i < j => staying[i] < staying[j]
      /\ DOMAIN seq = 1..Len(seq)
      /\ \A i \in DOMAIN seq : seq[i] \in S
  <2>1. DOMAIN staying = 1..n
    OBVIOUS
  <2>2. t = [i \in 1..n |-> seq[staying[i]]]
    BY <2>1 DEF Cleaning
  <2>3. \A i, j \in 1..n : i < j => staying[i] < staying[j]
    BY <2>1 DEF Cleaning
  <2>4. DOMAIN seq = 1..Len(seq) /\ \A i \in DOMAIN seq : seq[i] \in S
    OBVIOUS
  <2>5. \A i \in 1..n : staying[i] \in DOMAIN seq
    OBVIOUS
  <2> QED
    BY <2>2, <2>3, <2>4, <2>5
<1>2. t \in Seq(S)
  <2>1. t \in [1..n -> S]
    BY <1>1 DEF Cleaning
  <2> QED
    BY <2>1
<1>3. ToSet(t) = kept
  <2>1. {seq[staying[i]] : i \in 1..n} = kept
    BY DEF Cleaning
  <2> QED
    BY <1>1, <2>1 DEF ToSet
<1>4. IsInjective(t)
  <2> SUFFICES ASSUME NEW i \in 1..n, NEW j \in 1..n, t[i] = t[j] PROVE i = j
    BY <1>1 DEF IsInjective
  <2>1. staying[i] = staying[j]
    BY <1>1 DEF IsInjective
  <2>2. staying[i] \in Int
    BY <1>1
  <2> QED
    BY <2>1, <2>2, <1>1
<1>5. \A q \in S : new[q] = IF q \in kept
                           THEN (CHOOSE i \in DOMAIN t : t[i] = q) - 1 ELSE 0
  BY DEF Cleaning
<1>6. ASSUME NEW q \in S PROVE new[q] \in Nat
  <2> DEFINE place == CHOOSE j \in DOMAIN t : t[j] = q
  <2>1. new[q] = IF q \in kept THEN place - 1 ELSE 0
    BY <1>5
  <2>2. q \in kept => place \in 1..n
    <3>1. q \in kept => \E i \in 1..n : t[i] = q
      BY <1>1, <1>3 DEF ToSet
    <3> QED
      BY <3>1, <1>1
  <2> HIDE DEF place
  <2>3. CASE q \in kept
    BY <2>1, <2>2, <2>3
  <2>4. CASE q \notin kept
    BY <2>1, <2>4
  <2> QED
    BY <2>3, <2>4
<1>7. ASSUME NEW i \in DOMAIN t PROVE new[t[i]] = i - 1
  <2>1. t[i] \in kept /\ t[i] \in S
    BY <1>1, <1>3 DEF ToSet
  <2>2. (CHOOSE j \in DOMAIN t : t[j] = t[i]) = i
    BY <1>4 DEF IsInjective
  <2> QED
    BY <2>1, <2>2, <1>5
<1>8. new \in [S -> Nat]
  <2>1. new = [q \in S |-> new[q]]
    BY DEF Cleaning
  <2> QED
    BY <2>1, <1>6
<1> QED
  BY <1>2, <1>3, <1>4, <1>7, <1>8 DEF IdsOf

-----------------------------------------------------------------------------
(* Entries come and go with their sequences. *)

LEMMA EntryIdsMembers ==
    \A e : e \in EntryIds <=> \E q \in Owned : \E i \in DOMAIN entries[q] : e = <<q, i>>
BY DEF EntryIds

NewEntries(q, list) == {<<q, i>> : i \in DOMAIN list}

(* A sequence that registers adds its entries and changes no other.         *)
LEMMA RegisteredEntries ==
    ASSUME EntriesOfOwned, sequencesById \in Seq(Sequences),
           NEW q \in Sequences, NEW list \in Seq(HistoryEntries), list # <<>>,
           NEW first, RegisterSequence(q, list, first)
    PROVE  /\ Owned' = Owned \cup {q} /\ q \notin Owned
           /\ EntriesOfOwned'
           /\ EntryIds' = EntryIds \cup NewEntries(q, list)
           /\ \A e \in EntryIds : e[1] # q /\ EntryAt(e)' = EntryAt(e)
           /\ \A i \in DOMAIN list : EntryAt(<<q, i>>)' = list[i]
<1>1. /\ q \notin Owned
      /\ sequencesById' = Append(sequencesById, q)
      /\ entries' = [entries EXCEPT ![q] = list]
  BY DEF RegisterSequence
<1>2. Owned' = Owned \cup {q}
  <2>1. /\ DOMAIN sequencesById' = 1..(Len(sequencesById) + 1)
        /\ DOMAIN sequencesById = 1..Len(sequencesById)
        /\ Len(sequencesById) \in Nat
        /\ \A i \in 1..Len(sequencesById) : sequencesById'[i] = sequencesById[i]
        /\ sequencesById'[Len(sequencesById) + 1] = q
    BY <1>1
  <2> QED
    BY <2>1 DEF Owned, ToSet
<1>3. /\ entries' \in [Sequences -> Seq(HistoryEntries)]
      /\ entries'[q] = list
      /\ \A p \in Sequences \ {q} : entries'[p] = entries[p]
  BY <1>1 DEF EntriesOfOwned
<1>4. Owned \subseteq Sequences
  BY DEF Owned, ToSet
<1>5. EntriesOfOwned'
  <2>1. \A p \in Sequences : p \in Owned' <=> entries'[p] # <<>>
    BY <1>2, <1>3 DEF EntriesOfOwned
  <2> QED
    BY <1>3, <2>1 DEF EntriesOfOwned
<1>6. EntryIds' = EntryIds \cup NewEntries(q, list)
  <2>1. \A e : e \in EntryIds' <=>
           \E p \in Owned' : \E i \in DOMAIN entries'[p] : e = <<p, i>>
    BY DEF EntryIds
  <2>2. \A e : e \in EntryIds' <=>
           \/ \E p \in Owned : \E i \in DOMAIN entries[p] : e = <<p, i>>
           \/ \E i \in DOMAIN list : e = <<q, i>>
    BY <2>1, <1>1, <1>2, <1>3, <1>4
  <2> QED
    BY <2>2, EntryIdsMembers DEF NewEntries
<1>7. \A e \in EntryIds : e[1] # q /\ EntryAt(e)' = EntryAt(e)
  BY <1>1, <1>3, <1>4, EntryIdsMembers DEF EntryAt
<1>8. \A i \in DOMAIN list : EntryAt(<<q, i>>)' = list[i]
  BY <1>3 DEF EntryAt
<1> QED
  BY <1>1, <1>2, <1>5, <1>6, <1>7, <1>8

(* Erasing the sequences of dead removes their entries and changes no other *)
(* one: its caller takes them out of the vector.                            *)
LEMMA ErasedEntries ==
    ASSUME EntriesOfOwned, sequencesById \in Seq(Sequences),
           NEW dead \in SUBSET Owned, Erase(dead), Owned' = Owned \ dead
    PROVE  /\ EntriesOfOwned'
           /\ EntryIds' = {e \in EntryIds : e[1] \notin dead}
           /\ \A e \in EntryIds' : EntryAt(e)' = EntryAt(e)
<1>1. entries' = [q \in Sequences |-> IF q \in dead THEN <<>> ELSE entries[q]]
  BY DEF Erase
<1>2. Owned \subseteq Sequences
  BY DEF Owned, ToSet
<1>3. \A q \in Sequences : entries'[q] = IF q \in dead THEN <<>> ELSE entries[q]
  BY <1>1
<1>4. EntriesOfOwned'
  <2>1. entries' \in [Sequences -> Seq(HistoryEntries)]
    <3>1. <<>> \in Seq(HistoryEntries)
      OBVIOUS
    <3> QED
      BY <1>1, <3>1 DEF EntriesOfOwned
  <2>2. \A q \in Sequences : q \in Owned' <=> entries'[q] # <<>>
    BY <1>3 DEF EntriesOfOwned
  <2> QED
    BY <2>1, <2>2 DEF EntriesOfOwned
<1>5. \A e : e \in EntryIds' <=>
         \E q \in Owned' : \E i \in DOMAIN entries'[q] : e = <<q, i>>
  BY DEF EntryIds
<1>6. EntryIds' = {e \in EntryIds : e[1] \notin dead}
  <2>1. \A e : e \in EntryIds' <=>
           \E q \in Owned : \E i \in DOMAIN entries[q] : e = <<q, i>> /\ q \notin dead
    BY <1>2, <1>3, <1>5
  <2> QED
    BY <2>1, EntryIdsMembers
<1>7. \A e \in EntryIds' : EntryAt(e)' = EntryAt(e)
  BY <1>2, <1>3, <1>5 DEF EntryAt
<1> QED
  BY <1>4, <1>6, <1>7

-----------------------------------------------------------------------------
(* The entries that use a state, and the counter of beliefs containing it. *)

UsersOf(s) == {e \in EntryIds : EntryAt(e).state = s}

PoolKnowsUsers ==
    /\ DOMAIN usedIn = States
    /\ containedInBeliefs = [s \in States |-> containedInBeliefs[s]]
    /\ \A s \in States : /\ usedIn[s] = UsersOf(s)
                         /\ IsFiniteSet(usedIn[s])
                         /\ containedInBeliefs[s] = Cardinality(usedIn[s])

(* A new sequence is counted once for each of its entries.                  *)
LEMMA RegisterKeepsPool ==
    ASSUME EntriesOfOwned, sequencesById \in Seq(Sequences), PoolKnowsUsers,
           NEW q \in Sequences, NEW list \in Seq(HistoryEntries), list # <<>>,
           NEW first, RegisterSequence(q, list, first)
    PROVE  PoolKnowsUsers'
<1> DEFINE places(s) == {j \in DOMAIN list : list[j].state = s}
           new(s) == {<<q, i>> : i \in places(s)}
<1>1. /\ usedIn' = [s \in States |-> usedIn[s] \cup new(s)]
      /\ containedInBeliefs' =
            [s \in States |-> containedInBeliefs[s] + Cardinality(places(s))]
  BY DEF RegisterSequence, CountedIn
<1>2. ASSUME NEW s \in States
      PROVE  /\ usedIn'[s] = UsersOf(s)'
             /\ IsFiniteSet(usedIn'[s])
             /\ containedInBeliefs'[s] = Cardinality(usedIn'[s])
  <2>1. usedIn'[s] = usedIn[s] \cup new(s)
    BY <1>1
  <2>2. containedInBeliefs'[s] = containedInBeliefs[s] + Cardinality(places(s))
    BY <1>1
  <2>3. UsersOf(s)' = UsersOf(s) \cup new(s) /\ UsersOf(s) \cap new(s) = {}
    <3>1. /\ EntryIds' = EntryIds \cup NewEntries(q, list)
          /\ \A e \in EntryIds : e[1] # q /\ EntryAt(e)' = EntryAt(e)
          /\ \A i \in DOMAIN list : EntryAt(<<q, i>>)' = list[i]
      BY RegisteredEntries
    <3> QED
      BY <3>1 DEF UsersOf, NewEntries
  <2>4. IsFiniteSet(places(s))
    <3>1. DOMAIN list = 1..Len(list) /\ Len(list) \in Nat
      OBVIOUS
    <3>2. IsFiniteSet(1..Len(list))
      BY <3>1, FS_Interval
    <3>3. places(s) \in SUBSET (1..Len(list))
      BY <3>1
    <3> HIDE DEF places
    <3> QED
      BY <3>2, <3>3, FS_Subset
  <2>5. IsFiniteSet(new(s)) /\ Cardinality(new(s)) = Cardinality(places(s))
    <3>1. new(s) = {q} \X places(s)
      OBVIOUS
    <3> HIDE DEF new, places
    <3>2. IsFiniteSet({q}) /\ Cardinality({q}) = 1
      BY FS_Singleton
    <3>3. IsFiniteSet(new(s)) /\ Cardinality(new(s)) = 1 * Cardinality(places(s))
      BY <2>4, <3>1, <3>2, FS_Product
    <3>4. Cardinality(places(s)) \in Nat
      BY <2>4, FS_CardinalityType
    <3> QED
      BY <3>3, <3>4
  <2> HIDE DEF new, places
  <2>6. /\ usedIn[s] = UsersOf(s)
        /\ IsFiniteSet(usedIn[s])
        /\ containedInBeliefs[s] = Cardinality(usedIn[s])
    BY DEF PoolKnowsUsers
  <2>7. /\ IsFiniteSet(usedIn[s] \cup new(s))
        /\ Cardinality(usedIn[s] \cup new(s))
              = Cardinality(usedIn[s]) + Cardinality(new(s)) - Cardinality({})
    <3>1. usedIn[s] \cap new(s) = {}
      BY <2>3, <2>6
    <3>2. IsFiniteSet(usedIn[s]) /\ IsFiniteSet(new(s))
      BY <2>5, <2>6
    <3> QED
      BY <3>1, <3>2, FS_Union
  <2>8. Cardinality(usedIn[s]) \in Nat /\ Cardinality(new(s)) \in Nat /\ Cardinality({}) = 0
    BY <2>5, <2>6, FS_CardinalityType, FS_EmptySet
  <2> QED
    BY <2>1, <2>2, <2>3, <2>5, <2>6, <2>7, <2>8
<1>3. /\ DOMAIN usedIn' = States
      /\ containedInBeliefs' = [s \in States |-> containedInBeliefs'[s]]
  BY <1>1
<1> QED
  BY <1>2, <1>3 DEF PoolKnowsUsers

(* Erasing lowers the counter once for each entry erased.                   *)
LEMMA EraseKeepsPool ==
    ASSUME EntriesOfOwned, sequencesById \in Seq(Sequences), PoolKnowsUsers,
           NEW dead \in SUBSET Owned, Erase(dead), Owned' = Owned \ dead
    PROVE  PoolKnowsUsers'
<1> DEFINE freeing(s) == {e \in {x \in EntryIds : x[1] \in dead} : EntryAt(e).state = s}
<1>1. /\ usedIn' = [s \in States |-> usedIn[s] \ freeing(s)]
      /\ containedInBeliefs' =
            [s \in States |-> containedInBeliefs[s] - Cardinality(freeing(s))]
  BY DEF Erase
<1>2. ASSUME NEW s \in States
      PROVE  /\ usedIn'[s] = UsersOf(s)'
             /\ IsFiniteSet(usedIn'[s])
             /\ containedInBeliefs'[s] = Cardinality(usedIn'[s])
  <2>1. /\ usedIn'[s] = usedIn[s] \ freeing(s)
        /\ containedInBeliefs'[s] = containedInBeliefs[s] - Cardinality(freeing(s))
    BY <1>1
  <2>2. UsersOf(s)' = UsersOf(s) \ freeing(s) /\ UsersOf(s) \cap freeing(s) = freeing(s)
    <3>1. /\ EntryIds' = {e \in EntryIds : e[1] \notin dead}
          /\ \A e \in EntryIds' : EntryAt(e)' = EntryAt(e)
      BY ErasedEntries
    <3> QED
      BY <3>1 DEF UsersOf
  <2> HIDE DEF freeing
  <2>3. /\ usedIn[s] = UsersOf(s)
        /\ IsFiniteSet(usedIn[s])
        /\ containedInBeliefs[s] = Cardinality(usedIn[s])
    BY DEF PoolKnowsUsers
  <2>4. /\ IsFiniteSet(usedIn[s] \ freeing(s))
        /\ Cardinality(usedIn[s] \ freeing(s))
              = Cardinality(usedIn[s]) - Cardinality(usedIn[s] \cap freeing(s))
    BY <2>3, FS_Difference
  <2> QED
    BY <2>1, <2>2, <2>3, <2>4
<1>3. /\ DOMAIN usedIn' = States
      /\ containedInBeliefs' = [s \in States |-> containedInBeliefs'[s]]
  BY <1>1
<1> QED
  BY <1>2, <1>3 DEF PoolKnowsUsers

(* What is known of the users makes the counter a natural number, 0 only    *)
(* for a state nobody uses.                                                 *)
LEMMA CountersOfPool ==
    ASSUME PoolKnowsUsers
    PROVE  /\ containedInBeliefs \in [States -> Nat]
           /\ \A s \in States : containedInBeliefs[s] = 0 <=> UsersOf(s) = {}
<1>1. ASSUME NEW s \in States
      PROVE  containedInBeliefs[s] \in Nat /\ (containedInBeliefs[s] = 0 <=> UsersOf(s) = {})
  BY FS_CardinalityType, FS_EmptySet DEF PoolKnowsUsers
<1> QED
  BY <1>1 DEF PoolKnowsUsers

-----------------------------------------------------------------------------
(* Particles, entries and the nodes and states they point at. *)

LEMMA RegisterKeepsPointers ==
    ASSUME EntriesOfOwned, sequencesById \in Seq(Sequences),
           DOMAIN particles = nodes, NothingDangles,
           NEW q \in Sequences, NEW list \in Seq(HistoryEntries), list # <<>>,
           NEW first, RegisterSequence(q, list, first)
    PROVE  NothingDangles' /\ DOMAIN particles' = nodes'
<1> DEFINE listed(n) == {<<q, i>> : i \in {j \in DOMAIN list :
                              list[j].node = n /\ (j = 1 => first)}}
<1>1. /\ nodes' = nodes \cup {list[i].node : i \in DOMAIN list}
      /\ particles' = [n \in nodes' |-> At(particles, n, {}) \cup listed(n)]
      /\ pool' = pool \cup {list[i].state : i \in DOMAIN list}
  BY DEF RegisterSequence
<1>2. /\ EntryIds' = EntryIds \cup NewEntries(q, list)
      /\ \A e \in EntryIds : e[1] # q /\ EntryAt(e)' = EntryAt(e)
      /\ \A i \in DOMAIN list : EntryAt(<<q, i>>)' = list[i]
  BY RegisteredEntries
<1>3. /\ \A n \in nodes : particles'[n] = particles[n] \cup listed(n)
      /\ \A n \in nodes' \ nodes : particles'[n] = listed(n)
  BY <1>1 DEF At
<1>4. ASSUME NEW n \in nodes', NEW e \in particles'[n]
      PROVE  e \in EntryIds' /\ EntryAt(e)'.node = n
  <2>1. CASE e \in listed(n)
    <3>1. PICK i \in DOMAIN list : e = <<q, i>> /\ list[i].node = n
      BY <2>1
    <3> QED
      BY <3>1, <1>2 DEF NewEntries
  <2>2. CASE e \notin listed(n)
    <3>1. n \in nodes /\ e \in particles[n]
      BY <2>2, <1>3, <1>4
    <3>2. e \in EntryIds /\ EntryAt(e).node = n
      BY <3>1 DEF NothingDangles
    <3> QED
      BY <3>2, <1>2
  <2> QED
    BY <2>1, <2>2
<1>5. ASSUME NEW e \in EntryIds'
      PROVE  /\ EntryAt(e)'.node \in nodes'
             /\ EntryAt(e)'.state \in pool'
             /\ ~Starts(e) => e \in particles'[EntryAt(e)'.node]
  <2>1. CASE e \in EntryIds
    <3>1. /\ EntryAt(e).node \in nodes
          /\ EntryAt(e).state \in pool
          /\ ~Starts(e) => e \in particles[EntryAt(e).node]
      BY <2>1 DEF NothingDangles
    <3>2. EntryAt(e)' = EntryAt(e)
      BY <2>1, <1>2
    <3> QED
      BY <3>1, <3>2, <1>1, <1>3
  <2>2. CASE e \in NewEntries(q, list)
    <3>1. PICK i \in DOMAIN list : e = <<q, i>> /\ EntryAt(e)' = list[i]
      BY <2>2, <1>2 DEF NewEntries
    <3>2. list[i].node \in nodes' /\ list[i].state \in pool'
      BY <1>1
    <3>3. i # 1 => e \in listed(list[i].node)
      BY <3>1
    <3>4. listed(list[i].node) \subseteq particles'[list[i].node]
      BY <3>2, <1>3
    <3> QED
      BY <3>1, <3>2, <3>3, <3>4 DEF Starts
  <2> QED
    BY <2>1, <2>2, <1>2
<1>6. NothingDangles'
  BY <1>4, <1>5 DEF NothingDangles
<1> QED
  BY <1>1, <1>6

LEMMA EraseKeepsPointers ==
    ASSUME EntriesOfOwned, sequencesById \in Seq(Sequences),
           DOMAIN particles = nodes, NothingDangles,
           NEW dead \in SUBSET Owned, Erase(dead), Owned' = Owned \ dead,
           UNCHANGED <<nodes, pool>>
    PROVE  NothingDangles' /\ DOMAIN particles' = nodes'
<1> DEFINE leaving(n) == {e \in {x \in EntryIds : x[1] \in dead} : EntryAt(e).node = n}
<1>1. particles' = [n \in nodes |-> particles[n] \ leaving(n)]
  BY DEF Erase
<1>2. /\ EntryIds' = {e \in EntryIds : e[1] \notin dead}
      /\ \A e \in EntryIds' : EntryAt(e)' = EntryAt(e)
  BY ErasedEntries
<1>3. ASSUME NEW n \in nodes', NEW e \in particles'[n]
      PROVE  e \in EntryIds' /\ EntryAt(e)'.node = n
  <2>1. n \in nodes /\ e \in particles[n] /\ e \notin leaving(n)
    BY <1>1, <1>3
  <2>2. e \in EntryIds /\ EntryAt(e).node = n
    BY <2>1 DEF NothingDangles
  <2> QED
    BY <2>1, <2>2, <1>2
<1>4. ASSUME NEW e \in EntryIds'
      PROVE  /\ EntryAt(e)'.node \in nodes'
             /\ EntryAt(e)'.state \in pool'
             /\ ~Starts(e) => e \in particles'[EntryAt(e)'.node]
  <2>1. e \in EntryIds /\ EntryAt(e)' = EntryAt(e) /\ e[1] \notin dead
    BY <1>2
  <2>2. /\ EntryAt(e).node \in nodes
        /\ EntryAt(e).state \in pool
        /\ ~Starts(e) => e \in particles[EntryAt(e).node]
    BY <2>1 DEF NothingDangles
  <2> QED
    BY <2>1, <2>2, <1>1
<1>5. NothingDangles'
  BY <1>3, <1>4 DEF NothingDangles
<1> QED
  BY <1>1, <1>5

-----------------------------------------------------------------------------
(* The invariant, in parts. *)

ControlTyped ==
    /\ keepsHistories \in BOOLEAN /\ pruneEveryStep \in BOOLEAN
    /\ pool \subseteq States
    /\ phase \in {"planning", "dropping", "adding", "pruning", "cleaning", "sweeping",
                   "stopped"}
    /\ toAdd \in 0..MinParticles

TreeTyped ==
    /\ Root \in nodes /\ currentBelief \in nodes
    /\ \A n \in nodes : n \in Seq(Edges) /\ Len(n) <= MaxDepth
    /\ DOMAIN particles = nodes
    /\ nStartingSequences \in [nodes -> Int]

HistoriesTyped ==
    /\ sequencesById \in Seq(Sequences)
    /\ id \in [Sequences -> Nat]
    /\ EntriesOfOwned

(* A sequence follows a path of the tree downwards, one level at a time.    *)
IsChain(list) ==
    \A i, j \in DOMAIN list : i <= j =>
        /\ IsPrefix(list[i].node, list[j].node)
        /\ Len(list[j].node) = Len(list[i].node) + (j - i)

Chains == \A q \in Owned : IsChain(entries[q])

(* It starts where the agent is or was, so never below a pruned sibling.    *)
StartsAbove == \A q \in Owned : IsPrefix(entries[q][1].node, currentBelief)

(* The tree holds the ancestors of its nodes.                               *)
NodesClosed == \A n \in nodes : \A p \in Seq(Edges) : IsPrefix(p, n) => p \in nodes

Comparable(n, m) == IsPrefix(n, m) \/ IsPrefix(m, n)

(* With pruneEveryStep, what lies beside the path to the agent's belief is  *)
(* at most beside its last step, and only until that is pruned.             *)
PrunedAbove ==
    /\ phase \notin {"planning", "stopped"} => currentBelief # Root
    /\ pruneEveryStep /\ phase \in {"dropping", "adding", "pruning"} =>
          \A n \in nodes : Comparable(n, Parent(currentBelief))
    /\ pruneEveryStep /\ phase \in {"planning", "cleaning", "sweeping"} =>
          \A n \in nodes : Comparable(n, currentBelief)

SequencesThrough ==
    pruneEveryStep /\ phase \in {"planning", "sweeping"} /\ currentBelief # Root =>
        \A q \in Owned : \E i \in DOMAIN entries[q] : entries[q][i].node = currentBelief

StatesOfEntries == {EntryAt(e).state : e \in EntryIds}

PoolUsed ==
    /\ pruneEveryStep /\ phase = "planning" /\ currentBelief # Root /\ ~keepsHistories
    => pool = StatesOfEntries

IInv ==
    /\ ControlTyped /\ TreeTyped /\ HistoriesTyped
    /\ IdsMatchIndex
    /\ PoolKnowsUsers
    /\ NothingDangles
    /\ Chains /\ StartsAbove /\ NodesClosed
    /\ PrunedAbove /\ SequencesThrough /\ PoolUsed

-----------------------------------------------------------------------------
(* A sequence registers: at the current belief, and on from there. *)

PathFromBelief(list) ==
    /\ list \in Seq(HistoryEntries) /\ list # <<>>
    /\ IsChain(list)
    /\ list[1].node = currentBelief
    /\ \A i \in DOMAIN list : Len(list[i].node) <= MaxDepth

LEMMA RegisterKeepsHistories ==
    ASSUME HistoriesTyped, IdsMatchIndex,
           NEW q \in Sequences, NEW list, PathFromBelief(list),
           NEW first, RegisterSequence(q, list, first)
    PROVE  HistoriesTyped' /\ IdsMatchIndex'
<1>1. EntriesOfOwned'
  BY RegisteredEntries DEF HistoriesTyped, PathFromBelief
<1>2. /\ q \in Sequences \ ToSet(sequencesById)
      /\ sequencesById' = Append(sequencesById, q)
      /\ id' = [id EXCEPT ![q] = Len(sequencesById)]
  BY DEF RegisterSequence, Owned
<1>3. /\ sequencesById' \in Seq(Sequences)
      /\ id' \in [Sequences -> Nat]
      /\ IdsOf(sequencesById', id')
  <2>1. IdsOf(sequencesById, id)
    BY DEF IdsMatchIndex, IdsOf
  <2> QED
    BY <1>2, <2>1, AppendKeepsIds DEF HistoriesTyped
<1> QED
  BY <1>1, <1>3 DEF HistoriesTyped, IdsMatchIndex, IdsOf

LEMMA RegisterKeepsTree ==
    ASSUME TreeTyped, HistoriesTyped, NodesClosed,
           NEW q \in Sequences, NEW list, PathFromBelief(list),
           NEW first, RegisterSequence(q, list, first), currentBelief' = currentBelief,
           DOMAIN particles' = nodes'
    PROVE  TreeTyped' /\ NodesClosed'
<1> DEFINE listed(n) == {<<q, i>> : i \in {j \in DOMAIN list :
                              list[j].node = n /\ (j = 1 => first)}}
           starting(n) == {e \in listed(n) : Starts(e)}
<1>1. /\ nodes' = nodes \cup {list[i].node : i \in DOMAIN list}
      /\ nStartingSequences' =
            [n \in nodes' |-> At(nStartingSequences, n, 0) + Cardinality(starting(n))]
  BY DEF RegisterSequence
<1>2. \A i \in DOMAIN list : list[i].node \in Seq(Edges) /\ Len(list[i].node) <= MaxDepth
  <2>1. \A i \in DOMAIN list : list[i] \in HistoryEntries
    BY DEF PathFromBelief
  <2> QED
    BY <2>1 DEF PathFromBelief, HistoryEntries
<1>3. \A n \in nodes' : n \in Seq(Edges) /\ Len(n) <= MaxDepth
  BY <1>1, <1>2 DEF TreeTyped
<1>4. ASSUME NEW n PROVE Cardinality(starting(n)) \in Nat
  <2>1. starting(n) \in SUBSET {<<q, 1>>}
    BY DEF Starts
  <2>2. IsFiniteSet({<<q, 1>>})
    BY FS_Singleton
  <2> HIDE DEF starting
  <2> QED
    BY <2>1, <2>2, FS_Subset, FS_CardinalityType
<1> HIDE DEF starting
<1>5. nStartingSequences' \in [nodes' -> Int]
  <2>1. \A n \in nodes' : At(nStartingSequences, n, 0) \in Int
    BY DEF At, TreeTyped
  <2>2. \A n \in nodes' : At(nStartingSequences, n, 0) + Cardinality(starting(n)) \in Int
    BY <2>1, <1>4
  <2> QED
    BY <1>1, <2>2
<1>6. TreeTyped'
  BY <1>1, <1>3, <1>5 DEF TreeTyped
<1>7. ASSUME NEW i \in DOMAIN list, NEW p \in Seq(Edges), IsPrefix(p, list[i].node)
      PROVE  p \in nodes'
  <2> DEFINE c == Len(list[1].node)
  <2>1. /\ DOMAIN list = 1..Len(list) /\ Len(list) \in Nat /\ 1 \in DOMAIN list
        /\ list[1].node = currentBelief /\ currentBelief \in Seq(Edges)
    BY <1>7 DEF PathFromBelief, TreeTyped
  <2>0. ASSUME NEW k \in DOMAIN list
        PROVE  /\ IsPrefix(list[1].node, list[k].node)
               /\ Len(list[k].node) = c + (k - 1)
    <3>1. IsChain(list)
      BY DEF PathFromBelief
    <3>2. 1 \in DOMAIN list /\ 1 <= k
      BY <2>0, <2>1
    <3> QED
      BY <2>0, <3>1, <3>2 DEF IsChain
  <2>2. /\ IsPrefix(list[1].node, list[i].node)
        /\ Len(list[i].node) = c + (i - 1)
    BY <1>7, <2>0
  <2>3. Len(p) <= Len(list[i].node) /\ Len(p) \in Nat /\ c \in Nat
    BY <1>7, <2>1 DEF IsPrefix
  <2>4. CASE Len(p) <= c
    <3>1. IsPrefix(p, list[1].node)
      BY <1>2, <1>7, <2>1, <2>2, <2>4, PrefixOrder
    <3> QED
      BY <3>1, <2>1, <1>1 DEF NodesClosed, TreeTyped
  <2>5. CASE Len(p) > c
    <3> DEFINE j == Len(p) - c + 1
    <3>1. j \in DOMAIN list /\ j <= i
      BY <2>1, <2>2, <2>3, <2>5
    <3>2. IsPrefix(list[j].node, list[i].node)
      BY <3>1 DEF PathFromBelief, IsChain
    <3>3. Len(list[j].node) = c + (j - 1)
      BY <2>0, <3>1
    <3>4. Len(list[j].node) = Len(p)
      BY <2>3, <3>3
    <3> HIDE DEF j
    <3>5. IsPrefix(p, list[j].node)
      BY <1>2, <1>7, <2>3, <3>1, <3>2, <3>4, PrefixOrder
    <3>6. p = list[j].node
      BY <1>2, <3>1, <3>4, <3>5, PrefixOrder
    <3> QED
      BY <3>1, <3>6, <1>1
  <2> QED
    BY <2>3, <2>4, <2>5
<1>8. NodesClosed'
  BY <1>1, <1>7 DEF NodesClosed
<1> QED
  BY <1>6, <1>8

LEMMA RegisterKeepsPaths ==
    ASSUME TreeTyped, HistoriesTyped, Chains, StartsAbove,
           NEW q \in Sequences, NEW list, PathFromBelief(list),
           NEW first, RegisterSequence(q, list, first), currentBelief' = currentBelief
    PROVE  Chains' /\ StartsAbove'
<1>1. Owned' = Owned \cup {q} /\ Owned \subseteq Sequences /\ q \notin Owned
  <2>1. Owned' = Owned \cup {q} /\ q \notin Owned
    BY RegisteredEntries DEF HistoriesTyped, PathFromBelief
  <2> QED
    BY <2>1 DEF HistoriesTyped, Owned, ToSet
<1>2. entries' = [entries EXCEPT ![q] = list] /\ entries \in [Sequences -> Seq(HistoryEntries)]
  BY DEF RegisterSequence, HistoriesTyped, EntriesOfOwned
<1>3. entries'[q] = list /\ \A p \in Owned : entries'[p] = entries[p]
  BY <1>1, <1>2
<1>4. Chains'
  BY <1>1, <1>3 DEF Chains, PathFromBelief
<1>5. IsPrefix(currentBelief, currentBelief)
  BY PrefixOrder DEF TreeTyped
<1>6. StartsAbove'
  BY <1>1, <1>3, <1>5 DEF StartsAbove, PathFromBelief
<1> QED
  BY <1>4, <1>6

LEMMA RegisterKeepsPruned ==
    ASSUME TreeTyped, HistoriesTyped, NothingDangles,
           PrunedAbove, SequencesThrough, PoolUsed,
           NEW q \in Sequences, NEW list, PathFromBelief(list),
           NEW first, RegisterSequence(q, list, first),
           UNCHANGED <<optionVars, currentBelief, phase>>,
           phase = "planning" \/ Len(list) = 1
    PROVE  PrunedAbove' /\ SequencesThrough' /\ PoolUsed'
<1>1. /\ Owned' = Owned \cup {q} /\ q \notin Owned /\ Owned \subseteq Sequences
      /\ EntryIds' = EntryIds \cup NewEntries(q, list)
      /\ \A e \in EntryIds : EntryAt(e)' = EntryAt(e)
      /\ \A i \in DOMAIN list : EntryAt(<<q, i>>)' = list[i]
  <2>1. /\ Owned' = Owned \cup {q} /\ q \notin Owned
        /\ EntryIds' = EntryIds \cup NewEntries(q, list)
        /\ \A e \in EntryIds : EntryAt(e)' = EntryAt(e)
        /\ \A i \in DOMAIN list : EntryAt(<<q, i>>)' = list[i]
    BY RegisteredEntries DEF HistoriesTyped, PathFromBelief
  <2>2. Owned \subseteq Sequences
    BY DEF HistoriesTyped, Owned, ToSet
  <2> QED
    BY <2>1, <2>2
<1>2. entries' = [entries EXCEPT ![q] = list] /\ entries \in [Sequences -> Seq(HistoryEntries)]
  BY DEF RegisterSequence, HistoriesTyped, EntriesOfOwned
<1>3. entries'[q] = list /\ \A p \in Owned : entries'[p] = entries[p]
  BY <1>1, <1>2
<1>4. /\ nodes' = nodes \cup {list[i].node : i \in DOMAIN list}
      /\ pool' = pool \cup {list[i].state : i \in DOMAIN list}
  BY DEF RegisterSequence
<1>5. 1 \in DOMAIN list /\ list[1].node = currentBelief /\ DOMAIN list = 1..Len(list)
  BY DEF PathFromBelief
<1>6. PrunedAbove'
  <2>1. CASE phase = "planning"
    <3>1. \A i \in DOMAIN list : IsPrefix(currentBelief, list[i].node)
      BY <1>5 DEF PathFromBelief, IsChain
    <3> QED
      BY <2>1, <3>1, <1>4 DEF PrunedAbove, Comparable, optionVars
  <2>2. CASE phase # "planning"
    <3>1. nodes' = nodes
      BY <2>2, <1>4, <1>5 DEF TreeTyped
    <3> QED
      BY <3>1 DEF PrunedAbove, optionVars
  <2> QED
    BY <2>1, <2>2
<1>7. SequencesThrough'
  BY <1>1, <1>3, <1>5 DEF SequencesThrough, optionVars
<1>8. PoolUsed'
  <2>1. StatesOfEntries' = StatesOfEntries \cup {list[i].state : i \in DOMAIN list}
    BY <1>1 DEF StatesOfEntries, NewEntries
  <2> QED
    BY <2>1, <1>4 DEF PoolUsed, optionVars
<1> QED
  BY <1>6, <1>7, <1>8

LEMMA RegisterStep ==
    ASSUME IInv, NEW q \in Sequences, NEW list, PathFromBelief(list),
           NEW first, RegisterSequence(q, list, first),
           UNCHANGED <<optionVars, currentBelief, phase>>,
           phase = "planning" \/ Len(list) = 1,
           toAdd' \in 0..MinParticles
    PROVE  IInv'
<1>1. list \in Seq(HistoryEntries) /\ list # <<>>
  BY DEF PathFromBelief
<1>2. NothingDangles' /\ DOMAIN particles' = nodes'
  BY <1>1, RegisterKeepsPointers DEF IInv, HistoriesTyped, TreeTyped
<1>3. PoolKnowsUsers'
  BY <1>1, RegisterKeepsPool DEF IInv, HistoriesTyped
<1>4. HistoriesTyped' /\ IdsMatchIndex'
  BY RegisterKeepsHistories DEF IInv
<1>5. TreeTyped' /\ NodesClosed'
  BY <1>2, RegisterKeepsTree DEF IInv
<1>6. Chains' /\ StartsAbove'
  BY RegisterKeepsPaths DEF IInv
<1>7. PrunedAbove' /\ SequencesThrough' /\ PoolUsed'
  BY RegisterKeepsPruned DEF IInv
<1>8. ControlTyped'
  <2>1. \A i \in DOMAIN list : list[i].state \in States
    <3>1. \A i \in DOMAIN list : list[i] \in HistoryEntries
      BY <1>1
    <3> QED
      BY <3>1 DEF HistoryEntries
  <2>2. pool' = pool \cup {list[i].state : i \in DOMAIN list}
    BY DEF RegisterSequence
  <2> QED
    BY <2>1, <2>2 DEF IInv, ControlTyped, optionVars
<1> QED
  BY <1>2, <1>3, <1>4, <1>5, <1>6, <1>7, <1>8 DEF IInv

-----------------------------------------------------------------------------
(* Sequences are erased: one that is deleted, or those not marked. *)

LEMMA EraseKeepsTheRest ==
    ASSUME IInv, NEW dead \in SUBSET Owned, Erase(dead), Owned' = Owned \ dead,
           sequencesById' \in Seq(Sequences), id' \in [Sequences -> Nat],
           UNCHANGED <<nodes, pool, optionVars, currentBelief>>
    PROVE  /\ HistoriesTyped' /\ PoolKnowsUsers' /\ NothingDangles'
           /\ TreeTyped' /\ Chains' /\ StartsAbove' /\ NodesClosed'
<1>1. EntriesOfOwned' /\ HistoriesTyped'
  BY ErasedEntries DEF IInv, HistoriesTyped
<1>2. PoolKnowsUsers'
  BY EraseKeepsPool DEF IInv, HistoriesTyped
<1>3. NothingDangles' /\ DOMAIN particles' = nodes'
  BY EraseKeepsPointers DEF IInv, HistoriesTyped, TreeTyped
<1>4. TreeTyped'
  <2> DEFINE starting(n) == {e \in {x \in EntryIds : x[1] \in dead} :
                                EntryAt(e).node = n /\ Starts(e)}
  <2>1. nStartingSequences' = [n \in nodes |->
            nStartingSequences[n] - Cardinality(starting(n))]
    <3>1. \A n \in nodes :
              {e \in {e \in {x \in EntryIds : x[1] \in dead} : EntryAt(e).node = n} : Starts(e)}
                 = starting(n)
      OBVIOUS
    <3>2. nStartingSequences' = [n \in nodes |-> nStartingSequences[n] - Cardinality(
              {e \in {e \in {x \in EntryIds : x[1] \in dead} : EntryAt(e).node = n}
                  : Starts(e)})]
      BY DEF Erase
    <3> HIDE DEF starting
    <3> QED
      BY <3>1, <3>2
  <2>2. ASSUME NEW n \in nodes PROVE Cardinality(starting(n)) \in Nat
    <3>1. IsFiniteSet(Sequences \X {1})
      BY RegistryAssumption, FS_Singleton, FS_Product
    <3>2. starting(n) \in SUBSET (Sequences \X {1})
      <4>1. \A e \in EntryIds : Starts(e) => e \in Sequences \X {1}
        BY EntryIdsMembers DEF Starts, Owned, ToSet, IInv, HistoriesTyped
      <4> QED
        BY <4>1
    <3> HIDE DEF starting
    <3> QED
      BY <3>1, <3>2, FS_Subset, FS_CardinalityType
  <2> HIDE DEF starting
  <2>3. nStartingSequences' \in [nodes' -> Int]
    BY <2>1, <2>2 DEF IInv, TreeTyped
  <2> QED
    BY <1>3, <2>3 DEF IInv, TreeTyped
<1>5. \A q \in Owned' : q \in Owned /\ entries'[q] = entries[q]
  <2>1. entries' = [q \in Sequences |-> IF q \in dead THEN <<>> ELSE entries[q]]
    BY DEF Erase
  <2>2. Owned \subseteq Sequences
    BY DEF IInv, HistoriesTyped, Owned, ToSet
  <2> QED
    BY <2>1, <2>2
<1>6. Chains' /\ StartsAbove'
  BY <1>5 DEF IInv, Chains, StartsAbove
<1>7. NodesClosed'
  BY DEF IInv, NodesClosed
<1> QED
  BY <1>1, <1>2, <1>3, <1>4, <1>6, <1>7

LEMMA DeleteStep ==
    ASSUME IInv, NEW q \in Owned, DeleteSequence(q),
           phase \in {"dropping", "pruning"},
           UNCHANGED <<nodes, optionVars, currentBelief, phase, toAdd>>
    PROVE  IInv'
<1>1. /\ Erase({q}) /\ UNCHANGED pool
      /\ Deletion(sequencesById, id, q, sequencesById', id')
  BY DEF DeleteSequence, Deletion, IdsWithout
<1>2. IdsOf(sequencesById, id)
  BY DEF IInv, IdsMatchIndex, IdsOf
<1>3. /\ sequencesById' \in Seq(Sequences)
      /\ Owned' = Owned \ {q}
      /\ id' \in [Sequences -> Nat]
      /\ IdsOf(sequencesById', id')
  BY <1>1, <1>2, DeleteKeepsIds DEF IInv, HistoriesTyped, Owned
<1>4. /\ HistoriesTyped' /\ PoolKnowsUsers' /\ NothingDangles'
      /\ TreeTyped' /\ Chains' /\ StartsAbove' /\ NodesClosed'
  BY <1>1, <1>3, EraseKeepsTheRest
<1>5. IdsMatchIndex'
  BY <1>3 DEF IdsMatchIndex, IdsOf
<1>6. ControlTyped' /\ PrunedAbove' /\ SequencesThrough' /\ PoolUsed'
  BY <1>1 DEF IInv, ControlTyped, PrunedAbove, SequencesThrough, PoolUsed, optionVars
<1> QED
  BY <1>4, <1>5, <1>6 DEF IInv

LEMMA ParticlesAreOwned ==
    ASSUME IInv, NEW n \in nodes, NEW e \in particles[n]
    PROVE  /\ e[1] \in Owned /\ e[2] \in DOMAIN entries[e[1]]
           /\ entries[e[1]][e[2]].node = n
<1>1. e \in EntryIds /\ EntryAt(e).node = n
  BY DEF IInv, NothingDangles
<1> QED
  BY <1>1, EntryIdsMembers DEF EntryAt

LEMMA CleanHistoriesStep ==
    ASSUME IInv, CleanHistories
    PROVE  IInv'
<1>1. currentBelief \in nodes /\ Marked \subseteq Owned /\ Owned \subseteq Sequences
  <2>1. currentBelief \in nodes /\ currentBelief \in DOMAIN particles
    BY DEF IInv, TreeTyped
  <2>2. Marked = {e[1] : e \in particles[currentBelief]}
    BY <2>1 DEF Marked, Through, At
  <2>3. Owned \subseteq Sequences
    BY DEF IInv, HistoriesTyped, Owned, ToSet
  <2> QED
    BY <2>1, <2>2, <2>3, ParticlesAreOwned
<1>2. Cardinality(Marked) \in Nat
  BY <1>1, RegistryAssumption, FS_Subset, FS_CardinalityType
<1>3. PICK staying \in [1..Cardinality(Marked) -> DOMAIN sequencesById] :
         Cleaning(Sequences, sequencesById, Marked, staying, sequencesById', id')
  BY DEF CleanHistories, Cleaning
<1>4. /\ sequencesById' \in Seq(Sequences)
      /\ Owned' = Marked
      /\ id' \in [Sequences -> Nat]
      /\ IdsOf(sequencesById', id')
  <2>1. sequencesById \in Seq(Sequences) /\ IsInjective(sequencesById)
    BY DEF IInv, HistoriesTyped, IdsMatchIndex
  <2> QED
    BY <1>2, <1>3, <2>1, CleanKeepsIds DEF Owned
<1>5. Erase(Owned \ Marked) /\ UNCHANGED <<nodes, pool, optionVars, currentBelief, toAdd>>
  BY DEF CleanHistories
<1>6. Owned' = Owned \ (Owned \ Marked)
  BY <1>1, <1>4
<1>7. /\ HistoriesTyped' /\ PoolKnowsUsers' /\ NothingDangles'
      /\ TreeTyped' /\ Chains' /\ StartsAbove' /\ NodesClosed'
  BY <1>4, <1>5, <1>6, EraseKeepsTheRest
<1>8. IdsMatchIndex'
  BY <1>4 DEF IdsMatchIndex, IdsOf
<1>9. phase = "cleaning" /\ phase' = IF keepsHistories THEN "planning" ELSE "sweeping"
  BY DEF CleanHistories
<1>10. ControlTyped' /\ PrunedAbove' /\ PoolUsed'
  BY <1>5, <1>9 DEF IInv, ControlTyped, PrunedAbove, PoolUsed, optionVars
<1>11. SequencesThrough'
  <2>1. entries' = [q \in Sequences |-> IF q \in Owned \ Marked THEN <<>> ELSE entries[q]]
    BY <1>5 DEF Erase
  <2>2. ASSUME NEW q \in Marked
        PROVE  \E i \in DOMAIN entries[q] : entries[q][i].node = currentBelief
    <3>1. PICK e \in particles[currentBelief] : e[1] = q
      BY DEF Marked, Through, At, IInv, TreeTyped
    <3> QED
      BY <1>1, <3>1, ParticlesAreOwned
  <2> QED
    BY <1>1, <1>4, <1>5, <2>1, <2>2 DEF SequencesThrough
<1> QED
  BY <1>7, <1>8, <1>10, <1>11 DEF IInv

-----------------------------------------------------------------------------
(* Nodes come and go. *)

(* An entry below a sibling of the agent's belief has, in its sequence, an  *)
(* entry at that sibling, which is among its particles: a sibling whose     *)
(* particles are gone has no entries left below it.                         *)
LEMMA NoEntryBelowEmptySibling ==
    ASSUME IInv, NEW n \in nodes, n # currentBelief, Len(n) = Len(currentBelief),
           particles[n] = {}, NEW e \in EntryIds
    PROVE  ~IsPrefix(n, EntryAt(e).node)
<1> SUFFICES ASSUME IsPrefix(n, EntryAt(e).node) PROVE FALSE
  OBVIOUS
<1>1. PICK q \in Owned : \E i \in DOMAIN entries[q] : e = <<q, i>>
  BY EntryIdsMembers
<1>2. PICK i \in DOMAIN entries[q] : e = <<q, i>>
  BY <1>1
<1> DEFINE list == entries[q]
           s == list[1].node
           m == list[i].node
<1>3. /\ list \in Seq(HistoryEntries) /\ list # <<>>
      /\ EntryAt(e) = list[i]
  <2>1. q \in Sequences
    BY DEF IInv, HistoriesTyped, Owned, ToSet
  <2> QED
    BY <2>1, <1>2 DEF IInv, HistoriesTyped, EntriesOfOwned, EntryAt
<1> HIDE DEF list
<1>4. /\ DOMAIN list = 1..Len(list) /\ Len(list) \in Nat /\ 1 \in DOMAIN list
      /\ \A j \in DOMAIN list : list[j].node \in Seq(Edges)
  <2>1. DOMAIN list = 1..Len(list) /\ Len(list) \in Nat /\ 1 \in DOMAIN list
    BY <1>3
  <2>2. \A j \in DOMAIN list : list[j] \in HistoryEntries
    BY <1>3
  <2> QED
    BY <2>1, <2>2 DEF HistoryEntries
<1>5. i \in DOMAIN list /\ i \in Nat /\ i >= 1
  <2>1. i \in DOMAIN list
    BY <1>2 DEF list
  <2> QED
    BY <2>1, <1>4
<1>6. n \in Seq(Edges) /\ currentBelief \in Seq(Edges)
  BY DEF IInv, TreeTyped
<1>7. /\ IsPrefix(s, currentBelief)
      /\ \A j, k \in DOMAIN list : j <= k =>
            /\ IsPrefix(list[j].node, list[k].node)
            /\ Len(list[k].node) = Len(list[j].node) + (k - j)
  BY DEF IInv, Chains, StartsAbove, IsChain, list
<1>8. IsPrefix(n, m)
  BY <1>3
<1>9. /\ s \in Seq(Edges) /\ m \in Seq(Edges)
      /\ Len(m) = Len(s) + (i - 1)
      /\ IsPrefix(s, m)
  <2>1. s \in Seq(Edges) /\ m \in Seq(Edges)
    BY <1>4, <1>5
  <2>2. 1 \in DOMAIN list /\ i \in DOMAIN list /\ 1 <= i
    BY <1>4, <1>5
  <2> QED
    BY <1>7, <2>1, <2>2
<1>10. /\ Len(s) <= Len(n) /\ Len(n) <= Len(m)
       /\ Len(s) \in Nat /\ Len(n) \in Nat /\ Len(m) \in Nat
  <2>1. Len(s) <= Len(currentBelief) /\ Len(n) <= Len(m)
    BY <1>7, <1>8 DEF IsPrefix
  <2> QED
    BY <1>6, <1>9, <2>1
<1>11. \A j \in DOMAIN list : /\ Len(list[j].node) = Len(s) + (j - 1)
                              /\ j <= i => IsPrefix(list[j].node, m)
  <2> SUFFICES ASSUME NEW j \in DOMAIN list
               PROVE  /\ Len(list[j].node) = Len(s) + (j - 1)
                      /\ j <= i => IsPrefix(list[j].node, m)
    OBVIOUS
  <2>1. 1 <= j /\ 1 \in DOMAIN list
    BY <1>4
  <2>2. Len(list[j].node) = Len(s) + (j - 1)
    BY <1>7, <2>1
  <2>3. j <= i => IsPrefix(list[j].node, m)
    BY <1>5, <1>7
  <2> QED
    BY <2>2, <2>3
<1>12. IsPrefix(s, currentBelief)
  BY <1>7
<1> HIDE DEF s, m
<1>13. CASE Len(s) = Len(n)
  <2>1. s = currentBelief
    BY <1>6, <1>9, <1>12, <1>13, PrefixOrder
  <2>2. IsPrefix(n, s)
    BY <1>6, <1>8, <1>9, <1>10, <1>13, PrefixOrder
  <2>3. n = s
    BY <1>6, <1>9, <1>13, <2>2, PrefixOrder
  <2> QED
    BY <2>1, <2>3
<1>14. CASE Len(s) < Len(n)
  <2> DEFINE j == Len(n) - Len(s) + 1
  <2>1. /\ j \in 1..Len(list) /\ j <= i /\ j > 1
        /\ Len(n) = Len(s) + (j - 1)
    BY <1>4, <1>5, <1>9, <1>10, <1>14
  <2> HIDE DEF j
  <2>2. Len(list[j].node) = Len(n) /\ IsPrefix(list[j].node, m)
    BY <1>4, <1>11, <2>1
  <2>3. list[j].node \in Seq(Edges)
    BY <1>4, <2>1
  <2>4. IsPrefix(n, list[j].node)
    BY <1>6, <1>8, <1>9, <1>10, <2>2, <2>3, PrefixOrder
  <2>5. n = list[j].node
    BY <1>6, <2>2, <2>3, <2>4, PrefixOrder
  <2>6. <<q, j>> \in EntryIds /\ EntryAt(<<q, j>>) = list[j] /\ ~Starts(<<q, j>>)
    BY <1>1, <1>4, <2>1, EntryIdsMembers DEF EntryAt, Starts, list
  <2>7. <<q, j>> \in particles[n]
    BY <2>5, <2>6 DEF IInv, NothingDangles
  <2> QED
    BY <2>7
<1> QED
  BY <1>10, <1>13, <1>14

LEMMA PruneNodeStep ==
    ASSUME IInv, PruneNode
    PROVE  IInv'
<1>1. PICK n \in Siblings(currentBelief) :
         particles[n] = {} /\ nodes' = {m \in nodes : ~IsPrefix(n, m)}
  BY DEF PruneNode
<1>2. /\ particles' = [m \in nodes' |-> particles[m]]
      /\ nStartingSequences' = [m \in nodes' |-> nStartingSequences[m]]
      /\ UNCHANGED <<historyVars, poolVars, optionVars, currentBelief, phase, toAdd>>
      /\ phase = "pruning"
  BY DEF PruneNode, Restrict
<1>3. /\ n \in nodes /\ n \in Seq(Edges) /\ n # currentBelief
      /\ Len(n) = Len(currentBelief) /\ currentBelief \in Seq(Edges)
      /\ \A m \in nodes : m \in Seq(Edges)
  BY <1>1 DEF Siblings, IInv, TreeTyped
<1>4. ~IsPrefix(n, currentBelief)
  BY <1>3, PrefixOrder
<1>5. ~IsPrefix(n, Root)
  <2>1. Root \in Seq(Edges) /\ Len(Root) = 0 /\ Len(n) \in Nat
    BY <1>3 DEF Root
  <2>2. IsPrefix(n, Root) => Len(n) = 0
    BY <2>1 DEF IsPrefix
  <2>3. Len(n) = 0 => n = currentBelief
    BY <1>3, EmptySeq
  <2> QED
    BY <2>2, <2>3, <1>3
<1>6. /\ EntryIds' = EntryIds /\ Owned' = Owned
      /\ \A e \in EntryIds : EntryAt(e)' = EntryAt(e)
  BY <1>2 DEF historyVars, EntryIds, Owned, EntryAt
<1>7. \A e \in EntryIds : EntryAt(e).node \in nodes'
  BY <1>1, <1>3, NoEntryBelowEmptySibling DEF IInv, NothingDangles
<1>8. TreeTyped'
  BY <1>1, <1>2, <1>3, <1>4, <1>5 DEF IInv, TreeTyped
<1>9. HistoriesTyped' /\ IdsMatchIndex'
  BY <1>2 DEF historyVars, IInv, HistoriesTyped, EntriesOfOwned, IdsMatchIndex, Owned
<1>10. PoolKnowsUsers'
  BY <1>2, <1>6 DEF poolVars, IInv, PoolKnowsUsers, UsersOf
<1>11. NothingDangles'
  <2>1. \A m \in nodes' : m \in nodes /\ particles'[m] = particles[m]
    BY <1>1, <1>2
  <2>2. pool' = pool
    BY <1>2 DEF poolVars
  <2> QED
    BY <1>6, <1>7, <2>1, <2>2 DEF IInv, NothingDangles
<1>12. Chains' /\ StartsAbove'
  BY <1>2, <1>6 DEF historyVars, IInv, Chains, StartsAbove
<1>13. NodesClosed'
  <2> SUFFICES ASSUME NEW m \in nodes', NEW p \in Seq(Edges), IsPrefix(p, m)
               PROVE  p \in nodes'
    BY DEF NodesClosed
  <2>1. m \in nodes /\ ~IsPrefix(n, m) /\ m \in Seq(Edges)
    BY <1>1, <1>3
  <2>2. p \in nodes
    BY <2>1 DEF IInv, NodesClosed
  <2>3. ~IsPrefix(n, p)
    BY <1>3, <2>1, PrefixOrder
  <2> QED
    BY <1>1, <2>2, <2>3
<1>14. ControlTyped'
  BY <1>2 DEF poolVars, optionVars, IInv, ControlTyped
<1>15. PrunedAbove' /\ SequencesThrough' /\ PoolUsed'
  BY <1>1, <1>2 DEF optionVars, IInv, PrunedAbove, SequencesThrough, PoolUsed
<1> QED
  BY <1>8, <1>9, <1>10, <1>11, <1>12, <1>13, <1>14, <1>15 DEF IInv

(* A node comparable with the parent is comparable with the agent's belief, *)
(* once this has no siblings.                                               *)
LEMMA ComparableWithBelief ==
    ASSUME IInv, currentBelief # Root, Siblings(currentBelief) = {},
           NEW n \in nodes, Comparable(n, Parent(currentBelief))
    PROVE  Comparable(n, currentBelief)
<1> DEFINE c == currentBelief
           p == Parent(c)
<1>1. c \in Seq(Edges) /\ n \in Seq(Edges) /\ Len(c) \in Nat /\ Len(c) > 0
  BY EmptySeq DEF IInv, TreeTyped, Root
<1> HIDE DEF c
<1>2. /\ p \in Seq(Edges) /\ Len(p) = Len(c) - 1
      /\ \A i \in 1..(Len(c) - 1) : p[i] = c[i]
  <2>1. p = SubSeq(c, 1, Len(c) - 1)
    BY DEF Parent, Front
  <2> HIDE DEF p
  <2>2. Len(c) - 1 \in Int /\ \A i \in 1..(Len(c) - 1) : c[i] \in Edges
    BY <1>1
  <2>3. /\ p \in Seq(Edges)
        /\ Len(p) = IF 1 <= Len(c) - 1 THEN Len(c) - 1 - 1 + 1 ELSE 0
        /\ \A i \in 1..(Len(c) - 1 - 1 + 1) : p[i] = c[1 + i - 1]
    BY <2>1, <2>2, SubSeqProperties
  <2>4. \A i \in 1..(Len(c) - 1) : p[i] = c[i]
    BY <1>1, <2>3
  <2>5. Len(p) = Len(c) - 1
    <3>1. CASE Len(c) = 1
      BY <1>1, <2>3, <3>1
    <3>2. CASE Len(c) # 1
      <4> DEFINE n1 == Len(c)
      <4>1. n1 \in Nat /\ n1 > 0 /\ n1 # 1
        BY <1>1, <3>2
      <4>2. Len(p) = IF 1 <= n1 - 1 THEN n1 - 1 - 1 + 1 ELSE 0
        BY <2>3
      <4> HIDE DEF n1
      <4>3. Len(p) = n1 - 1
        BY <4>1, <4>2
      <4> QED
        BY <4>3 DEF n1
    <3> QED
      BY <3>1, <3>2
  <2> QED
    BY <2>3, <2>4, <2>5
<1> HIDE DEF p
<1>3. IsPrefix(p, c)
  BY <1>1, <1>2, PrefixElements
<1>4. CASE IsPrefix(n, p)
  <2>1. IsPrefix(n, c)
    BY <1>1, <1>2, <1>3, <1>4, PrefixOrder
  <2> QED
    BY <2>1 DEF Comparable, c
<1>5. CASE IsPrefix(p, n)
  <2>1. /\ Len(p) <= Len(n) /\ Len(n) \in Nat
        /\ \A i \in 1..Len(p) : p[i] = n[i]
    BY <1>1, <1>2, <1>5, PrefixElements
  <2>2. CASE Len(n) = Len(p)
    <3>1. n = p
      BY <1>1, <1>2, <1>5, <2>2, PrefixOrder
    <3> QED
      BY <3>1, <1>3 DEF Comparable, c
  <2>3. CASE Len(n) # Len(p)
    <3> DEFINE m == SubSeq(n, 1, Len(c))
    <3>1. /\ m \in Seq(Edges) /\ Len(m) = Len(c)
          /\ \A i \in 1..Len(c) : m[i] = n[i]
      BY <1>1, <1>2, <2>1, <2>3, SubSeqProperties
    <3> HIDE DEF m
    <3>2. Len(m) <= Len(n)
      BY <1>1, <1>2, <2>1, <2>3, <3>1
    <3>3. IsPrefix(m, n)
      <4>1. \A i \in 1..Len(m) : m[i] = n[i]
        BY <3>1
      <4> QED
        BY <1>1, <3>1, <3>2, <4>1, PrefixElements
    <3>4. m \in nodes
      BY <3>1, <3>3 DEF IInv, NodesClosed
    <3>5. Parent(m) = p
      <4>1. /\ Parent(m) \in Seq(Edges) /\ Len(Parent(m)) = Len(c) - 1
            /\ \A i \in 1..(Len(c) - 1) : Parent(m)[i] = m[i]
        BY <1>1, <3>1, SubSeqProperties DEF Parent, Front
      <4>2. \A i \in 1..(Len(c) - 1) : Parent(m)[i] = p[i]
        BY <1>1, <1>2, <2>1, <3>1, <4>1
      <4> QED
        BY <1>2, <4>1, <4>2, SeqEqual
    <3>6. m = c
      BY <3>1, <3>4, <3>5 DEF Siblings, p, c
    <3> QED
      BY <3>3, <3>6 DEF Comparable, c
  <2> QED
    BY <2>2, <2>3
<1> QED
  BY <1>4, <1>5 DEF Comparable, p, c

-----------------------------------------------------------------------------
(* The steps of the plugin. *)

(* What a search registers is a path that starts at the current belief.     *)
LEMMA SearchedPath ==
    ASSUME IInv, NEW s \in States, NEW k \in 0..(MaxDepth - Len(currentBelief)),
           NEW path \in [1..k -> Edges], NEW next \in [1..k -> States],
           NEW list, list = <<Entry(currentBelief, s)>> \o
               [i \in 1..k |-> Entry(currentBelief \o SubSeq(path, 1, i), next[i])]
    PROVE  PathFromBelief(list)
<1> DEFINE c == currentBelief
           tail == [i \in 1..k |-> Entry(c \o SubSeq(path, 1, i), next[i])]
<1>1. /\ c \in Seq(Edges) /\ Len(c) \in Nat /\ MaxDepth \in Nat
      /\ k \in Nat /\ Len(c) + k <= MaxDepth
  BY RegistryAssumption DEF IInv, TreeTyped
<1>2. path \in Seq(Edges) /\ Len(path) = k
  BY <1>1
<1> HIDE DEF c
<1>3. ASSUME NEW i \in 1..k
      PROVE  /\ c \o SubSeq(path, 1, i) \in Seq(Edges)
             /\ Len(c \o SubSeq(path, 1, i)) = Len(c) + i
             /\ \A j \in 1..(Len(c) + i) : (c \o SubSeq(path, 1, i))[j]
                    = IF j <= Len(c) THEN c[j] ELSE path[j - Len(c)]
  <2> DEFINE p == SubSeq(path, 1, i)
  <2>1. /\ p \in Seq(Edges) /\ Len(p) = i
        /\ \A j \in 1..i : p[j] = path[j]
    BY <1>1, <1>2, SubSeqProperties
  <2> HIDE DEF p
  <2>2. /\ c \o p \in Seq(Edges) /\ Len(c \o p) = Len(c) + i
        /\ \A j \in 1..(Len(c) + i) : (c \o p)[j]
                = IF j <= Len(c) THEN c[j] ELSE p[j - Len(c)]
    <3>1. c \in Seq(Edges) /\ p \in Seq(Edges)
      BY <1>1, <2>1
    <3>2. /\ c \o p \in Seq(Edges) /\ Len(c \o p) = Len(c) + Len(p)
          /\ \A j \in 1..(Len(c) + Len(p)) : (c \o p)[j]
                = IF j <= Len(c) THEN c[j] ELSE p[j - Len(c)]
      BY <3>1, ConcatProperties
    <3> QED
      BY <2>1, <3>2
  <2>3. \A j \in 1..(Len(c) + i) : j > Len(c) => j - Len(c) \in 1..i
    BY <1>1
  <2>4. \A j \in 1..(Len(c) + i) : (c \o p)[j]
                = IF j <= Len(c) THEN c[j] ELSE path[j - Len(c)]
    BY <1>1, <2>1, <2>2, <2>3
  <2> QED
    BY <2>2, <2>4 DEF p
<1>4. tail \in Seq(HistoryEntries) /\ Len(tail) = k
      /\ \A i \in 1..k : tail[i] = Entry(c \o SubSeq(path, 1, i), next[i])
  <2>1. \A i \in 1..k : Entry(c \o SubSeq(path, 1, i), next[i]) \in HistoryEntries
    BY <1>3 DEF Entry, HistoryEntries
  <2>2. tail \in [1..k -> HistoryEntries]
    BY <2>1
  <2> QED
    BY <1>1, <2>2
<1>5. list = <<Entry(c, s)>> \o tail
  BY DEF c
<1> HIDE DEF tail
<1>6. Entry(c, s) \in HistoryEntries
  BY <1>1 DEF Entry, HistoryEntries
<1>7. /\ list \in Seq(HistoryEntries) /\ Len(list) = k + 1 /\ DOMAIN list = 1..(k + 1)
      /\ list[1] = Entry(c, s)
      /\ \A i \in 2..(k + 1) : list[i] = tail[i - 1]
  <2>1. <<Entry(c, s)>> \in Seq(HistoryEntries) /\ Len(<<Entry(c, s)>>) = 1
        /\ <<Entry(c, s)>>[1] = Entry(c, s)
    BY <1>6
  <2> DEFINE head == <<Entry(c, s)>>
  <2> HIDE DEF head
  <2>2. /\ list \in Seq(HistoryEntries) /\ Len(list) = 1 + k
        /\ \A i \in 1..(1 + k) : list[i] = IF i <= 1 THEN head[i] ELSE tail[i - 1]
    <3>1. /\ head \in Seq(HistoryEntries) /\ tail \in Seq(HistoryEntries)
          /\ Len(head) = 1 /\ Len(tail) = k
      BY <1>4, <2>1 DEF head
    <3>2. list = head \o tail
      BY <1>5 DEF head
    <3>3. /\ head \o tail \in Seq(HistoryEntries)
          /\ Len(head \o tail) = Len(head) + Len(tail)
          /\ \A i \in 1..(Len(head) + Len(tail)) : (head \o tail)[i]
                = IF i <= Len(head) THEN head[i] ELSE tail[i - Len(head)]
      BY <3>1, ConcatProperties
    <3> QED
      BY <3>1, <3>2, <3>3
  <2>3. Len(list) = k + 1 /\ DOMAIN list = 1..Len(list)
    BY <1>1, <2>2
  <2>4. list[1] = Entry(c, s)
    <3>1. 1 \in 1..(1 + k) /\ 1 <= 1
      BY <1>1
    <3>2. list[1] = head[1]
      BY <2>2, <3>1
    <3> QED
      BY <2>1, <3>2 DEF head
  <2>5. \A i \in 2..(k + 1) : list[i] = tail[i - 1]
    <3>1. \A i \in 2..(k + 1) : i \in 1..(1 + k) /\ ~(i <= 1)
      BY <1>1
    <3> QED
      BY <2>2, <3>1
  <2> QED
    BY <2>2, <2>3, <2>4, <2>5
<1>8. ASSUME NEW i \in 1..(k + 1)
      PROVE  /\ list[i].node \in Seq(Edges)
             /\ Len(list[i].node) = Len(c) + (i - 1)
             /\ \A j \in 1..(Len(c) + (i - 1)) : list[i].node[j]
                    = IF j <= Len(c) THEN c[j] ELSE path[j - Len(c)]
  <2>1. CASE i = 1
    <3>1. list[i].node = c
      BY <1>7, <2>1 DEF Entry
    <3> QED
      BY <1>1, <2>1, <3>1
  <2>2. CASE i # 1
    <3>1. i - 1 \in 1..k /\ i \in 2..(k + 1)
      BY <1>1, <2>2
    <3>2. list[i].node = c \o SubSeq(path, 1, i - 1)
      <4>1. list[i] = Entry(c \o SubSeq(path, 1, i - 1), next[i - 1])
        BY <1>4, <1>7, <3>1
      <4>2. \A n, t : Entry(n, t).node = n
        BY DEF Entry
      <4> QED
        BY <4>1, <4>2
    <3> QED
      BY <1>3, <3>1, <3>2
  <2> QED
    BY <2>1, <2>2
<1>9. IsChain(list)
  <2> SUFFICES ASSUME NEW i \in 1..(k + 1), NEW j \in 1..(k + 1), i <= j
               PROVE  /\ IsPrefix(list[i].node, list[j].node)
                      /\ Len(list[j].node) = Len(list[i].node) + (j - i)
    BY <1>7 DEF IsChain
  <2> DEFINE a == list[i].node
             b == list[j].node
  <2>1. /\ a \in Seq(Edges) /\ Len(a) = Len(c) + (i - 1)
        /\ b \in Seq(Edges) /\ Len(b) = Len(c) + (j - 1)
    BY <1>8
  <2>2. \A x \in 1..(Len(c) + (i - 1)) : a[x] = b[x]
    <3>1. \A x \in 1..(Len(c) + (i - 1)) : x \in 1..(Len(c) + (j - 1))
      BY <1>1
    <3> QED
      BY <1>8, <3>1
  <2> HIDE DEF a, b
  <2>3. Len(a) <= Len(b) /\ Len(b) = Len(a) + (j - i)
    BY <1>1, <2>1
  <2>4. IsPrefix(a, b)
    BY <2>1, <2>2, <2>3, PrefixElements
  <2> QED
    BY <2>3, <2>4 DEF a, b
<1>10. \A i \in DOMAIN list : Len(list[i].node) <= MaxDepth
  <2> SUFFICES ASSUME NEW i \in 1..(k + 1) PROVE Len(list[i].node) <= MaxDepth
    BY <1>7
  <2>1. Len(list[i].node) = Len(c) + (i - 1)
    BY <1>8
  <2> QED
    BY <1>1, <2>1
<1>11. list[1].node = c
  BY <1>7 DEF Entry
<1>12. list # <<>>
  BY <1>1, <1>7
<1> QED
  BY <1>7, <1>9, <1>10, <1>11, <1>12 DEF PathFromBelief, c

(* The sequence that a search registers follows a path from the belief. *)
LEMMA SearchRegisters ==
    ASSUME IInv, Search
    PROVE  \E q \in Sequences : \E list :
              PathFromBelief(list) /\ RegisterSequence(q, list, currentBelief = Root)
<1> DEFINE walked(s, k, path, next) == <<Entry(currentBelief, s)>> \o
               [i \in 1..k |-> Entry(currentBelief \o SubSeq(path, 1, i), next[i])]
<1>1. \E q \in Sequences, s \in Samples(currentBelief) :
      \E k \in 0..(MaxDepth - Len(currentBelief)) :
      \E path \in [1..k -> Edges], next \in [1..k -> States] :
         /\ s \in TerminalStates => k = 0
         /\ \A i \in 1..(k - 1) : next[i] \notin TerminalStates
         /\ RegisterSequence(q, walked(s, k, path, next), currentBelief = Root)
  BY Zenon DEF Search
<1> HIDE DEF walked
<1>2. PICK q \in Sequences, s \in Samples(currentBelief) :
      \E k \in 0..(MaxDepth - Len(currentBelief)) :
      \E path \in [1..k -> Edges], next \in [1..k -> States] :
         RegisterSequence(q, walked(s, k, path, next), currentBelief = Root)
  BY <1>1, Zenon
<1>3. PICK k \in 0..(MaxDepth - Len(currentBelief)) :
      \E path \in [1..k -> Edges], next \in [1..k -> States] :
         RegisterSequence(q, walked(s, k, path, next), currentBelief = Root)
  BY <1>2, Zenon
<1>4. PICK path \in [1..k -> Edges], next \in [1..k -> States] :
         RegisterSequence(q, walked(s, k, path, next), currentBelief = Root)
  BY <1>3, Zenon
<1>5. s \in States
  <2>1. CASE currentBelief = Root
    BY <2>1, RegistryAssumption DEF Samples
  <2>2. CASE currentBelief # Root
    <3>1. PICK e \in particles[currentBelief] : s = EntryAt(e).state
      BY <2>2 DEF Samples
    <3>2. e \in EntryIds
      BY <3>1 DEF IInv, NothingDangles, TreeTyped
    <3> QED
      BY <3>1, <3>2 DEF IInv, NothingDangles, ControlTyped
  <2> QED
    BY <2>1, <2>2
<1>6. PathFromBelief(walked(s, k, path, next))
  BY <1>5, SearchedPath DEF walked
<1> QED
  BY <1>4, <1>6

LEMMA SearchStep ==
    ASSUME IInv, Search
    PROVE  IInv'
<1>0. PICK q \in Sequences : \E list :
         PathFromBelief(list) /\ RegisterSequence(q, list, currentBelief = Root)
  BY SearchRegisters
<1>1. PICK list : PathFromBelief(list) /\ RegisterSequence(q, list, currentBelief = Root)
  BY <1>0
<1>2. /\ UNCHANGED <<optionVars, currentBelief, phase>>
      /\ phase = "planning" /\ toAdd' \in 0..MinParticles
  BY DEF Search, IInv, ControlTyped
<1> DEFINE first == currentBelief = Root
<1>3. RegisterSequence(q, list, first)
  BY <1>1
<1> HIDE DEF first
<1> QED
  BY <1>1, <1>2, <1>3, RegisterStep

LEMMA AddParticleStep ==
    ASSUME IInv, AddParticle
    PROVE  IInv'
<1>1. PICK q \in Sequences, s \in States :
         RegisterSequence(q, <<Entry(currentBelief, s)>>, TRUE)
  BY DEF AddParticle
<1> DEFINE list == <<Entry(currentBelief, s)>>
<1>2. currentBelief \in Seq(Edges) /\ Len(currentBelief) <= MaxDepth
  BY DEF IInv, TreeTyped
<1>3. list \in Seq(HistoryEntries) /\ Len(list) = 1 /\ DOMAIN list = 1..1
  <2>1. Entry(currentBelief, s) \in HistoryEntries
    BY <1>2 DEF Entry, HistoryEntries
  <2> QED
    BY <2>1
<1>4. list[1].node = currentBelief /\ Len(currentBelief) \in Nat
  BY <1>2 DEF Entry
<1>5. RegisterSequence(q, list, TRUE)
  BY <1>1
<1> HIDE DEF list
<1>6. IsPrefix(currentBelief, currentBelief)
  BY <1>2, PrefixOrder
<1>7. PathFromBelief(list)
  <2>1. \A i, j \in DOMAIN list : i = 1 /\ j = 1
    BY <1>3
  <2>2. IsChain(list)
    BY <1>4, <1>6, <2>1 DEF IsChain
  <2> QED
    <3>1. \A i \in DOMAIN list : Len(list[i].node) <= MaxDepth
      BY <1>2, <1>4, <2>1
    <3>2. list # <<>>
      BY <1>3
    <3> QED
      BY <1>3, <1>4, <2>2, <3>1, <3>2 DEF PathFromBelief
<1>8. /\ UNCHANGED <<optionVars, currentBelief, phase>>
      /\ toAdd' \in 0..MinParticles
  BY RegistryAssumption DEF AddParticle, IInv, ControlTyped
<1> QED
  BY <1>3, <1>5, <1>7, <1>8, RegisterStep

LEMMA UpdateBeliefStep ==
    ASSUME IInv, NEW edge \in Edges, UpdateBelief(edge)
    PROVE  IInv'
<1> DEFINE c == currentBelief
           next == Append(c, edge)
<1>1. /\ nodes' = nodes \cup {next}
      /\ particles' = [n \in nodes' |-> At(particles, n, {})]
      /\ nStartingSequences' = [n \in nodes' |-> At(nStartingSequences, n, 0)]
      /\ currentBelief' = next
      /\ toAdd' = MinParticles
      /\ UNCHANGED <<historyVars, poolVars, optionVars>>
      /\ phase = "planning" /\ phase' \in {"adding", "dropping", "stopped"}
      /\ Len(c) < MaxDepth
  BY DEF UpdateBelief
<1>2. c \in Seq(Edges) /\ Len(c) \in Nat /\ c \in nodes /\ MaxDepth \in Nat
      /\ \A n \in nodes : n \in Seq(Edges)
  BY RegistryAssumption DEF IInv, TreeTyped
<1> HIDE DEF c
<1>3. /\ next \in Seq(Edges) /\ Len(next) = Len(c) + 1
      /\ \A i \in 1..Len(c) : next[i] = c[i]
      /\ next # <<>>
  BY <1>2
<1> HIDE DEF next
<1>4. IsPrefix(c, next)
  <2>1. Len(c) <= Len(next)
    BY <1>2, <1>3
  <2> QED
    BY <1>2, <1>3, <2>1, PrefixElements
<1>5. /\ EntryIds' = EntryIds /\ Owned' = Owned
      /\ \A e \in EntryIds : EntryAt(e)' = EntryAt(e)
  BY <1>1 DEF historyVars, EntryIds, Owned, EntryAt
<1>6. TreeTyped'
  <2>1. \A n \in nodes' : At(nStartingSequences, n, 0) \in Int
    BY DEF At, IInv, TreeTyped
  <2>2. nStartingSequences' \in [nodes' -> Int]
    BY <1>1, <2>1
  <2>3. \A n \in nodes' : n \in Seq(Edges) /\ Len(n) <= MaxDepth
    BY <1>1, <1>2, <1>3 DEF IInv, TreeTyped
  <2> QED
    BY <1>1, <2>2, <2>3 DEF IInv, TreeTyped
<1>7. HistoriesTyped' /\ IdsMatchIndex'
  BY <1>1 DEF historyVars, IInv, HistoriesTyped, EntriesOfOwned, IdsMatchIndex, Owned
<1>8. PoolKnowsUsers'
  BY <1>1, <1>5 DEF poolVars, IInv, PoolKnowsUsers, UsersOf
<1>9. NothingDangles'
  <2>1. /\ \A n \in nodes : n \in nodes' /\ particles'[n] = particles[n]
        /\ \A n \in nodes' \ nodes : particles'[n] = {}
    BY <1>1 DEF At, IInv, TreeTyped
  <2>2. pool' = pool
    BY <1>1 DEF poolVars
  <2> QED
    BY <1>5, <2>1, <2>2 DEF IInv, NothingDangles
<1>10. Chains'
  BY <1>1, <1>5 DEF historyVars, IInv, Chains
<1>11. StartsAbove'
  <2> SUFFICES ASSUME NEW q \in Owned PROVE IsPrefix(entries[q][1].node, next)
    BY <1>1, <1>5 DEF StartsAbove, historyVars
  <2>1. entries[q] \in Seq(HistoryEntries) /\ entries[q] # <<>>
    BY DEF IInv, HistoriesTyped, EntriesOfOwned, Owned, ToSet
  <2>2. entries[q][1] \in HistoryEntries
    BY <2>1
  <2>3. entries[q][1].node \in Seq(Edges)
    BY <2>2 DEF HistoryEntries
  <2>4. IsPrefix(entries[q][1].node, c)
    BY DEF IInv, StartsAbove, c
  <2> QED
    BY <1>2, <1>3, <1>4, <2>3, <2>4, PrefixOrder
<1>12. NodesClosed'
  <2> SUFFICES ASSUME NEW p \in Seq(Edges), IsPrefix(p, next) PROVE p \in nodes'
    BY <1>1 DEF IInv, NodesClosed
  <2>1. Len(p) <= Len(next) /\ Len(p) \in Nat
    BY DEF IsPrefix
  <2>2. CASE Len(p) = Len(next)
    BY <1>1, <1>3, <2>2, PrefixOrder
  <2>3. CASE Len(p) # Len(next)
    <3>1. Len(p) <= Len(c)
      BY <1>2, <1>3, <2>1, <2>3
    <3>2. IsPrefix(p, c)
      BY <1>2, <1>3, <1>4, <3>1, PrefixOrder
    <3> QED
      BY <1>1, <1>2, <3>2 DEF IInv, NodesClosed
  <2> QED
    BY <2>2, <2>3
<1>13. ControlTyped'
  BY <1>1, RegistryAssumption DEF poolVars, optionVars, IInv, ControlTyped
<1>14. PrunedAbove'
  <2>1. Parent(next) = c
    <3>1. /\ Parent(next) \in Seq(Edges) /\ Len(Parent(next)) = Len(c)
          /\ \A i \in 1..Len(c) : Parent(next)[i] = next[i]
      <4>1. Parent(next) = SubSeq(next, 1, Len(c))
        BY <1>2, <1>3 DEF Parent, Front
      <4> QED
        BY <1>2, <1>3, <4>1, SubSeqProperties
    <3> QED
      BY <1>2, <1>3, <3>1, SeqEqual
  <2>2. \A n \in nodes' : pruneEveryStep => Comparable(n, c)
    BY <1>1, <1>4 DEF IInv, PrunedAbove, Comparable, c
  <2> QED
    BY <1>1, <1>3, <2>1, <2>2 DEF PrunedAbove, optionVars, Root
<1>15. SequencesThrough' /\ PoolUsed'
  BY <1>1 DEF SequencesThrough, PoolUsed
<1> QED
  BY <1>6, <1>7, <1>8, <1>9, <1>10, <1>11, <1>12, <1>13, <1>14, <1>15 DEF IInv

(* Nothing but the phase and the particles still to come changes.           *)
LEMMA SamePointers ==
    ASSUME IInv, UNCHANGED <<treeVars, historyVars, poolVars, optionVars, currentBelief>>
    PROVE  /\ TreeTyped' /\ HistoriesTyped' /\ IdsMatchIndex' /\ PoolKnowsUsers'
           /\ NothingDangles' /\ Chains' /\ StartsAbove' /\ NodesClosed'
<1>1. /\ EntryIds' = EntryIds /\ Owned' = Owned
      /\ \A e : EntryAt(e)' = EntryAt(e)
  BY DEF historyVars, EntryIds, Owned, EntryAt
<1>2. TreeTyped' /\ NodesClosed'
  BY DEF treeVars, IInv, TreeTyped, NodesClosed
<1>3. HistoriesTyped' /\ IdsMatchIndex'
  BY DEF historyVars, IInv, HistoriesTyped, EntriesOfOwned, IdsMatchIndex, Owned
<1>4. PoolKnowsUsers'
  BY <1>1 DEF poolVars, IInv, PoolKnowsUsers, UsersOf
<1>5. NothingDangles'
  BY <1>1 DEF treeVars, poolVars, IInv, NothingDangles
<1>6. Chains' /\ StartsAbove'
  BY <1>1 DEF historyVars, IInv, Chains, StartsAbove
<1> QED
  BY <1>2, <1>3, <1>4, <1>5, <1>6

LEMMA AllDroppedStep ==
    ASSUME IInv, AllDropped
    PROVE  IInv'
<1>1. /\ phase = "dropping" /\ phase' = "adding"
      /\ UNCHANGED <<treeVars, historyVars, poolVars, optionVars, currentBelief, toAdd>>
  BY DEF AllDropped
<1>2. ControlTyped' /\ PrunedAbove' /\ SequencesThrough' /\ PoolUsed'
  BY <1>1 DEF treeVars, poolVars, optionVars,
              IInv, ControlTyped, PrunedAbove, SequencesThrough, PoolUsed
<1> QED
  BY <1>1, <1>2, SamePointers DEF IInv

LEMMA AllAddedStep ==
    ASSUME IInv, AllAdded
    PROVE  IInv'
<1>1. /\ phase = "adding"
      /\ phase' = IF pruneEveryStep THEN "pruning" ELSE "planning"
      /\ UNCHANGED <<treeVars, historyVars, poolVars, optionVars, currentBelief, toAdd>>
  BY DEF AllAdded
<1>2. ControlTyped' /\ PrunedAbove' /\ SequencesThrough' /\ PoolUsed'
  BY <1>1 DEF treeVars, poolVars, optionVars,
              IInv, ControlTyped, PrunedAbove, SequencesThrough, PoolUsed
<1> QED
  BY <1>1, <1>2, SamePointers DEF IInv

LEMMA AllPrunedStep ==
    ASSUME IInv, AllPruned
    PROVE  IInv'
<1>1. /\ phase = "pruning" /\ phase' = "cleaning" /\ Siblings(currentBelief) = {}
      /\ UNCHANGED <<treeVars, historyVars, poolVars, optionVars, currentBelief, toAdd>>
  BY DEF AllPruned
<1>2. ASSUME pruneEveryStep, NEW n \in nodes
      PROVE  Comparable(n, currentBelief)
  <2>1. currentBelief # Root /\ Comparable(n, Parent(currentBelief))
    BY <1>1, <1>2 DEF IInv, PrunedAbove
  <2> QED
    BY <1>1, <2>1, ComparableWithBelief
<1>3. PrunedAbove'
  BY <1>1, <1>2 DEF treeVars, optionVars, IInv, PrunedAbove
<1>4. ControlTyped' /\ SequencesThrough' /\ PoolUsed'
  BY <1>1 DEF poolVars, optionVars, IInv, ControlTyped, SequencesThrough, PoolUsed
<1> QED
  BY <1>1, <1>3, <1>4, SamePointers DEF IInv

(* Destroying the states no belief contains destroys those no entry uses.   *)
LEMMA CleanupStep ==
    ASSUME IInv, Cleanup
    PROVE  IInv'
<1>1. /\ phase = "sweeping" /\ phase' = "planning"
      /\ pool' = {s \in pool : containedInBeliefs[s] # 0}
      /\ usedIn' = [s \in States |-> IF s \in pool' THEN usedIn[s] ELSE {}]
      /\ UNCHANGED <<treeVars, historyVars, containedInBeliefs, optionVars,
                     currentBelief, toAdd>>
  BY DEF Cleanup
<1>2. /\ EntryIds' = EntryIds /\ Owned' = Owned
      /\ \A e : EntryAt(e)' = EntryAt(e)
  BY <1>1 DEF historyVars, EntryIds, Owned, EntryAt
<1>3. \A s \in pool : s \in pool' <=> UsersOf(s) # {}
  <2>1. pool \subseteq States
    BY DEF IInv, ControlTyped
  <2>2. \A s \in States : containedInBeliefs[s] = 0 <=> UsersOf(s) = {}
    BY CountersOfPool DEF IInv
  <2> QED
    BY <1>1, <2>1, <2>2
<1>4. \A s : s \in StatesOfEntries <=> UsersOf(s) # {}
  BY DEF StatesOfEntries, UsersOf
<1>5. StatesOfEntries \subseteq pool
  BY DEF StatesOfEntries, IInv, NothingDangles
<1>6. pool' = StatesOfEntries
  <2>1. pool' \subseteq pool
    BY <1>1
  <2> QED
    BY <1>3, <1>4, <1>5, <2>1
<1>7. PoolKnowsUsers'
  <2>1. \A s \in States : UsersOf(s)' = UsersOf(s)
    BY <1>2 DEF UsersOf
  <2>2. ASSUME NEW s \in States PROVE usedIn'[s] = usedIn[s]
    <3>1. CASE s \in pool'
      BY <1>1, <3>1
    <3>2. CASE s \notin pool'
      <4>1. UsersOf(s) = {} /\ usedIn[s] = UsersOf(s)
        BY <1>4, <1>6, <3>2 DEF IInv, PoolKnowsUsers
      <4>2. usedIn'[s] = {}
        BY <1>1, <3>2
      <4> QED
        BY <4>1, <4>2
    <3> QED
      BY <3>1, <3>2
  <2>3. DOMAIN usedIn' = States
    BY <1>1
  <2>4. containedInBeliefs' = containedInBeliefs
    BY <1>1
  <2> HIDE DEF UsersOf
  <2> QED
    BY <2>1, <2>2, <2>3, <2>4 DEF IInv, PoolKnowsUsers
<1>8. NothingDangles'
  <2>1. \A e \in EntryIds : EntryAt(e).state \in pool'
    BY <1>6 DEF StatesOfEntries
  <2> QED
    BY <1>1, <1>2, <2>1 DEF treeVars, IInv, NothingDangles
<1>9. TreeTyped' /\ NodesClosed'
  BY <1>1 DEF treeVars, IInv, TreeTyped, NodesClosed
<1>10. HistoriesTyped' /\ IdsMatchIndex' /\ Chains' /\ StartsAbove'
  BY <1>1, <1>2 DEF historyVars, IInv, HistoriesTyped, EntriesOfOwned, IdsMatchIndex,
                    Chains, StartsAbove
<1>11. ControlTyped'
  BY <1>1 DEF optionVars, IInv, ControlTyped
<1>12. PrunedAbove' /\ SequencesThrough'
  BY <1>1, <1>2 DEF treeVars, historyVars, optionVars, IInv, PrunedAbove, SequencesThrough
<1>13. PoolUsed'
  BY <1>2, <1>6 DEF PoolUsed, StatesOfEntries
<1> QED
  BY <1>7, <1>8, <1>9, <1>10, <1>11, <1>12, <1>13 DEF IInv

LEMMA DropSequenceStep ==
    ASSUME IInv, DropSequence
    PROVE  IInv'
<1>1. PICK e \in particles[currentBelief] : DeleteSequence(e[1])
  BY DEF DropSequence
<1>2. /\ phase = "dropping"
      /\ UNCHANGED <<nodes, optionVars, currentBelief, phase, toAdd>>
  BY DEF DropSequence
<1>3. e[1] \in Owned
  BY ParticlesAreOwned DEF IInv, TreeTyped
<1> QED
  BY <1>1, <1>2, <1>3, DeleteStep

LEMMA PruneSequenceStep ==
    ASSUME IInv, PruneSequence
    PROVE  IInv'
<1>1. PICK n \in Siblings(currentBelief) : \E e \in particles[n] : DeleteSequence(e[1])
  BY DEF PruneSequence
<1>2. PICK e \in particles[n] : DeleteSequence(e[1])
  BY <1>1
<1>3. /\ phase = "pruning"
      /\ UNCHANGED <<nodes, optionVars, currentBelief, phase, toAdd>>
  BY DEF PruneSequence
<1>4. e[1] \in Owned
  <2>1. n \in nodes
    BY DEF Siblings
  <2> QED
    BY <2>1, ParticlesAreOwned
<1> QED
  BY <1>2, <1>3, <1>4, DeleteStep

-----------------------------------------------------------------------------
(* A solver that has just been made or reset. *)

LEMMA FreshFields ==
    ASSUME NEW s \in States
    PROVE  /\ Fresh(s).nodes = {Root}
           /\ Fresh(s).particles = [n \in {Root} |-> {}]
           /\ Fresh(s).starting = [n \in {Root} |-> 0]
           /\ Fresh(s).ids = [q \in Sequences |-> 0]
           /\ Fresh(s).entries = [q \in Sequences |-> <<>>]
           /\ Fresh(s).pool = {s}
           /\ Fresh(s).usedIn = [t \in States |-> {}]
           /\ Fresh(s).contained = [t \in States |-> 0]
BY DEF Fresh

(* The root is the only node, and no path but the empty one leads to it.    *)
LEMMA RootAlone ==
    /\ Root \in Seq(Edges) /\ Len(Root) = 0 /\ Len(Root) <= MaxDepth
    /\ \A p \in Seq(Edges) : IsPrefix(p, Root) => p = Root
    /\ IsPrefix(Root, Root)
<1>1. Root \in Seq(Edges) /\ Len(Root) = 0
  BY DEF Root
<1>2. \A p \in Seq(Edges) : IsPrefix(p, Root) => p = Root
  <2> SUFFICES ASSUME NEW p \in Seq(Edges), IsPrefix(p, Root) PROVE p = Root
    OBVIOUS
  <2>1. Len(p) = 0
    BY <1>1 DEF IsPrefix
  <2> QED
    BY <2>1, EmptySeq DEF Root
<1>3. IsPrefix(Root, Root)
  BY <1>1, PrefixOrder
<1>4. Len(Root) <= MaxDepth
  BY <1>1, RegistryAssumption
<1> QED
  BY <1>1, <1>2, <1>3, <1>4

LEMMA InitEstablishesIInv == Init => IInv
<1> SUFFICES ASSUME Init PROVE IInv
  OBVIOUS
<1>1. PICK s \in InitStates :
         /\ nodes = {Root}
         /\ particles = [n \in {Root} |-> {}]
         /\ nStartingSequences = [n \in {Root} |-> 0]
         /\ id = [q \in Sequences |-> 0]
         /\ entries = [q \in Sequences |-> <<>>]
         /\ pool = {s}
         /\ usedIn = [t \in States |-> {}]
         /\ containedInBeliefs = [t \in States |-> 0]
  <2>1. PICK s \in InitStates :
           /\ nodes = Fresh(s).nodes
           /\ particles = Fresh(s).particles
           /\ nStartingSequences = Fresh(s).starting
           /\ id = Fresh(s).ids
           /\ entries = Fresh(s).entries
           /\ pool = Fresh(s).pool
           /\ usedIn = Fresh(s).usedIn
           /\ containedInBeliefs = Fresh(s).contained
    BY DEF Init
  <2>2. s \in States
    BY RegistryAssumption
  <2> QED
    BY <2>1, <2>2, FreshFields
<1>2. /\ sequencesById = <<>> /\ currentBelief = Root /\ phase = "planning" /\ toAdd = 0
      /\ keepsHistories \in BOOLEAN /\ pruneEveryStep \in BOOLEAN
  BY DEF Init
<1>3. Owned = {} /\ EntryIds = {}
  BY <1>2 DEF Owned, ToSet, EntryIds
<1>4. TreeTyped
  BY <1>1, <1>2, RootAlone DEF TreeTyped
<1>5. HistoriesTyped
  <2>1. <<>> \in Seq(HistoryEntries) /\ <<>> \in Seq(Sequences)
    OBVIOUS
  <2>2. EntriesOfOwned
    BY <1>1, <1>3, <2>1 DEF EntriesOfOwned
  <2> QED
    BY <1>1, <1>2, <2>1, <2>2 DEF HistoriesTyped
<1>6. IdsMatchIndex
  BY <1>2 DEF IdsMatchIndex, IsInjective
<1>7. PoolKnowsUsers
  BY <1>1, <1>3, FS_EmptySet DEF PoolKnowsUsers, UsersOf
<1>8. NothingDangles
  BY <1>1, <1>3 DEF NothingDangles
<1>9. Chains /\ StartsAbove
  BY <1>3 DEF Chains, StartsAbove
<1>10. NodesClosed
  BY <1>1, RootAlone DEF NodesClosed
<1>11. ControlTyped
  BY <1>1, <1>2, RegistryAssumption DEF ControlTyped
<1>12. PrunedAbove /\ SequencesThrough /\ PoolUsed
  BY <1>1, <1>2, RootAlone DEF PrunedAbove, Comparable, SequencesThrough, PoolUsed
<1> QED
  BY <1>4, <1>5, <1>6, <1>7, <1>8, <1>9, <1>10, <1>11, <1>12 DEF IInv

LEMMA ResetStep ==
    ASSUME IInv, Reset
    PROVE  IInv'
<1>1. PICK s \in InitStates :
         /\ nodes' = {Root}
         /\ particles' = [n \in {Root} |-> {}]
         /\ nStartingSequences' = [n \in {Root} |-> 0]
         /\ id' = [q \in Sequences |-> 0]
         /\ entries' = [q \in Sequences |-> <<>>]
         /\ pool' = {s}
         /\ usedIn' = [t \in States |-> {}]
         /\ containedInBeliefs' = [t \in States |-> 0]
  <2>1. PICK s \in InitStates :
           /\ nodes' = Fresh(s).nodes
           /\ particles' = Fresh(s).particles
           /\ nStartingSequences' = Fresh(s).starting
           /\ id' = Fresh(s).ids
           /\ entries' = Fresh(s).entries
           /\ pool' = Fresh(s).pool
           /\ usedIn' = Fresh(s).usedIn
           /\ containedInBeliefs' = Fresh(s).contained
    BY DEF Reset
  <2>2. s \in States
    BY RegistryAssumption
  <2> QED
    BY <2>1, <2>2, FreshFields
<1>2. /\ sequencesById' = <<>> /\ currentBelief' = Root
      /\ phase' = "planning" /\ toAdd' = 0
      /\ UNCHANGED optionVars
  BY DEF Reset
<1>3. Owned' = {} /\ EntryIds' = {}
  BY <1>2 DEF Owned, ToSet, EntryIds
<1>4. TreeTyped'
  BY <1>1, <1>2, RootAlone DEF TreeTyped
<1>5. HistoriesTyped'
  <2>1. <<>> \in Seq(HistoryEntries) /\ <<>> \in Seq(Sequences)
    OBVIOUS
  <2>2. EntriesOfOwned'
    BY <1>1, <1>3, <2>1 DEF EntriesOfOwned
  <2> QED
    BY <1>1, <1>2, <2>1, <2>2 DEF HistoriesTyped
<1>6. IdsMatchIndex'
  BY <1>2 DEF IdsMatchIndex, IsInjective
<1>7. PoolKnowsUsers'
  BY <1>1, <1>3, FS_EmptySet DEF PoolKnowsUsers, UsersOf
<1>8. NothingDangles'
  BY <1>1, <1>3 DEF NothingDangles
<1>9. Chains' /\ StartsAbove'
  BY <1>3 DEF Chains, StartsAbove
<1>10. NodesClosed'
  BY <1>1, RootAlone DEF NodesClosed
<1>11. ControlTyped'
  BY <1>1, <1>2, RegistryAssumption DEF optionVars, IInv, ControlTyped
<1>12. PrunedAbove' /\ SequencesThrough' /\ PoolUsed'
  BY <1>1, <1>2, RootAlone DEF PrunedAbove, Comparable, SequencesThrough, PoolUsed
<1> QED
  BY <1>4, <1>5, <1>6, <1>7, <1>8, <1>9, <1>10, <1>11, <1>12 DEF IInv

-----------------------------------------------------------------------------
LEMMA NextPreservesIInv == IInv /\ [Next]_vars => IInv'
<1> SUFFICES ASSUME IInv, [Next]_vars PROVE IInv'
  OBVIOUS
<1>1. ASSUME Next PROVE IInv'
  BY <1>1, ResetStep, SearchStep, UpdateBeliefStep, DropSequenceStep, AllDroppedStep,
     AddParticleStep, AllAddedStep, PruneSequenceStep, PruneNodeStep, AllPrunedStep,
     CleanHistoriesStep, CleanupStep DEF Next
<1>2. ASSUME UNCHANGED vars PROVE IInv'
  <2>1. UNCHANGED <<treeVars, historyVars, poolVars, optionVars, currentBelief>>
        /\ UNCHANGED <<phase, toAdd>>
    BY <1>2 DEF vars
  <2>2. ControlTyped' /\ PrunedAbove' /\ SequencesThrough' /\ PoolUsed'
    BY <2>1 DEF treeVars, historyVars, poolVars, optionVars, IInv, ControlTyped,
                PrunedAbove, SequencesThrough, PoolUsed, Owned,
                StatesOfEntries, EntryIds, EntryAt
  <2> QED
    BY <2>1, <2>2, SamePointers DEF IInv
<1> QED
  BY <1>1, <1>2

(* The invariant all the theorems below follow from. *)
THEOREM IInvHolds == Spec => []IInv
BY InitEstablishesIInv, NextPreservesIInv, PTL DEF Spec

(* Every variable keeps its type, and no counter of beliefs is negative.    *)
THEOREM TypeCorrect == Spec => []TypeOK
<1>1. IInv => TypeOK
  <2> SUFFICES ASSUME IInv PROVE TypeOK
    OBVIOUS
  <2>1. containedInBeliefs \in [States -> Nat]
    BY CountersOfPool DEF IInv
  <2>2. \A q \in Sequences : entries[q] \in Seq([node : Seq(Edges), state : States])
    BY DEF IInv, HistoriesTyped, EntriesOfOwned, HistoryEntries
  <2>3. DOMAIN usedIn = States
    BY DEF IInv, PoolKnowsUsers
  <2> QED
    BY <2>1, <2>2, <2>3 DEF TypeOK, IInv, ControlTyped, TreeTyped, HistoriesTyped
<1> QED
  BY <1>1, IInvHolds, PTL

(* No particle, entry, node or state that something points at is gone:      *)
(* registration and erasure in any order, whatever was pruned between.      *)
THEOREM PointersValid == Spec => []NothingDangles
<1>1. IInv => NothingDangles
  BY DEF IInv
<1> QED
  BY <1>1, IInvHolds, PTL

(* What deleteSequence indexes by is right after any deletions and cleaning. *)
THEOREM IdsAreIndices == Spec => []IdsMatchIndex
<1>1. IInv => IdsMatchIndex
  BY DEF IInv
<1> QED
  BY <1>1, IInvHolds, PTL

(* OPPTStatePool::cleanup destroys exactly the states no entry uses.        *)
THEOREM CountsExact == Spec => []PoolCountsExact
<1>1. IInv => PoolCountsExact
  BY DEF IInv, PoolKnowsUsers, UsersOf, PoolCountsExact
<1> QED
  BY <1>1, IInvHolds, PTL

(* Without a reset of the tree for changes the states in the pool refer to  *)
(* entries of owned sequences only: ResetTree is the one step that violates *)
(* what resetTree promises of them.                                         *)
THEOREM UsersOwnedUnlessReset == Spec => []UsersAreOwned
<1>1. IInv => UsersAreOwned
  <2> SUFFICES ASSUME IInv, NEW s \in pool PROVE usedIn[s] \subseteq EntryIds
    BY DEF UsersAreOwned
  <2>1. s \in States
    BY DEF IInv, ControlTyped
  <2> QED
    BY <2>1 DEF IInv, PoolKnowsUsers, UsersOf
<1> QED
  BY <1>1, IInvHolds, PTL

(* With pruneEveryStep, planning after a step has the current belief's tree, *)
(* sequences and states, and nothing else.                                  *)
THEOREM PruningComplete == Spec => []PrunedToBelief
<1>1. IInv => PrunedToBelief
  BY DEF IInv, PrunedAbove, Comparable, SequencesThrough, PoolUsed, StatesOfEntries,
         PrunedToBelief
<1> QED
  BY <1>1, IInvHolds, PTL

-----------------------------------------------------------------------------
(* What the counter of starting sequences still says, finding 1. *)

StartersAt(n) == {q \in Owned : entries[q][1].node = n}

(* It is never above the number of sequences that start at the node, and it *)
(* is that number at the root, where each of them has been counted.         *)
StartsNeverOvercounted ==
    \A n \in nodes :
        /\ nStartingSequences[n] <= Cardinality(StartersAt(n))
        /\ n = Root => nStartingSequences[n] = Cardinality(StartersAt(n))

LEMMA StartersFinite ==
    ASSUME HistoriesTyped
    PROVE  /\ Owned \subseteq Sequences
           /\ \A n : IsFiniteSet(StartersAt(n)) /\ Cardinality(StartersAt(n)) \in Nat
<1>1. Owned \subseteq Sequences
  BY DEF HistoriesTyped, Owned, ToSet
<1>2. ASSUME NEW n PROVE IsFiniteSet(StartersAt(n)) /\ Cardinality(StartersAt(n)) \in Nat
  <2>1. StartersAt(n) \in SUBSET Sequences
    BY <1>1 DEF StartersAt
  <2> QED
    BY <2>1, RegistryAssumption, FS_Subset, FS_CardinalityType
<1> QED
  BY <1>1, <1>2

(* A sequence that starts at the root is counted there. *)
LEMMA RegisterKeepsStarts ==
    ASSUME IInv, StartsNeverOvercounted,
           NEW q \in Sequences, NEW list \in Seq(HistoryEntries), list # <<>>,
           NEW first, list[1].node = Root => first, RegisterSequence(q, list, first)
    PROVE  StartsNeverOvercounted'
<1> DEFINE listed(n) == {<<q, i>> : i \in {j \in DOMAIN list :
                              list[j].node = n /\ (j = 1 => first)}}
           starting(n) == {e \in listed(n) : Starts(e)}
           added(n) == IF list[1].node = n /\ first THEN 1 ELSE 0
           new(n) == IF list[1].node = n THEN {q} ELSE {}
<1>1. /\ Owned' = Owned \cup {q} /\ q \notin Owned
      /\ entries' = [entries EXCEPT ![q] = list]
      /\ nStartingSequences' =
            [n \in nodes' |-> At(nStartingSequences, n, 0) + Cardinality(starting(n))]
  <2>1. Owned' = Owned \cup {q} /\ q \notin Owned
    BY RegisteredEntries DEF IInv, HistoriesTyped
  <2> QED
    BY <2>1 DEF RegisterSequence
<1>2. /\ entries'[q] = list
      /\ \A p \in Owned : entries'[p] = entries[p]
  BY <1>1, StartersFinite DEF IInv, HistoriesTyped, EntriesOfOwned
<1>3. \A n : StartersAt(n)' = StartersAt(n) \cup new(n) /\ q \notin StartersAt(n)
  BY <1>1, <1>2 DEF StartersAt
<1>4. ASSUME NEW n PROVE Cardinality(starting(n)) = added(n)
  <2>1. 1 \in DOMAIN list
    OBVIOUS
  <2>2. starting(n) = IF list[1].node = n /\ first THEN {<<q, 1>>} ELSE {}
    BY <2>1 DEF Starts
  <2> HIDE DEF starting
  <2> QED
    BY <2>2, FS_Singleton, FS_EmptySet
<1> HIDE DEF starting
<1>5. ASSUME NEW n \in nodes'
      PROVE  /\ nStartingSequences'[n] = At(nStartingSequences, n, 0) + added(n)
             /\ Cardinality(StartersAt(n)') = Cardinality(StartersAt(n)) + Cardinality(new(n))
             /\ Cardinality(new(n)) = IF list[1].node = n THEN 1 ELSE 0
             /\ Cardinality(StartersAt(n)) \in Nat
  <2>1. nStartingSequences'[n] = At(nStartingSequences, n, 0) + added(n)
    BY <1>1, <1>4
  <2>2. IsFiniteSet(StartersAt(n)) /\ Cardinality(StartersAt(n)) \in Nat
    BY StartersFinite DEF IInv
  <2>3. StartersAt(n)' = IF list[1].node = n THEN StartersAt(n) \cup {q} ELSE StartersAt(n)
    BY <1>3
  <2>4. Cardinality(new(n)) = IF list[1].node = n THEN 1 ELSE 0
    BY FS_Singleton, FS_EmptySet
  <2>5. Cardinality(StartersAt(n) \cup {q}) = Cardinality(StartersAt(n)) + 1
    BY <1>3, <2>2, FS_AddElement
  <2> HIDE DEF new, added
  <2> QED
    BY <2>1, <2>2, <2>3, <2>4, <2>5
<1>6. ASSUME NEW n \in nodes'
      PROVE  /\ nStartingSequences'[n] <= Cardinality(StartersAt(n)')
             /\ n = Root => nStartingSequences'[n] = Cardinality(StartersAt(n)')
  <2> DEFINE old == At(nStartingSequences, n, 0)
             number == Cardinality(StartersAt(n))
  <2>1. /\ old \in Int /\ old <= number /\ number \in Nat
        /\ n = Root => old = number
    <3>1. CASE n \in nodes
      BY <1>5, <3>1 DEF At, IInv, TreeTyped, StartsNeverOvercounted
    <3>2. CASE n \notin nodes
      BY <1>5, <3>2 DEF At, IInv, TreeTyped
    <3> QED
      BY <3>1, <3>2
  <2> HIDE DEF old, number
  <2>2. /\ nStartingSequences'[n] = old + added(n)
        /\ Cardinality(StartersAt(n)') = number + (IF list[1].node = n THEN 1 ELSE 0)
    BY <1>5 DEF old, number
  <2> QED
    BY <2>1, <2>2
<1> QED
  BY <1>6 DEF StartsNeverOvercounted

(* An erased sequence is taken off the counter of its node, counted or not. *)
LEMMA EraseKeepsStarts ==
    ASSUME IInv, StartsNeverOvercounted,
           NEW dead \in SUBSET Owned, Erase(dead), Owned' = Owned \ dead, UNCHANGED nodes
    PROVE  StartsNeverOvercounted'
<1> DEFINE starting(n) == {e \in {x \in EntryIds : x[1] \in dead} :
                                EntryAt(e).node = n /\ Starts(e)}
           lost(n) == StartersAt(n) \cap dead
<1>1. nStartingSequences' = [n \in nodes |-> nStartingSequences[n] - Cardinality(starting(n))]
  <2>1. \A n \in nodes :
            {e \in {e \in {x \in EntryIds : x[1] \in dead} : EntryAt(e).node = n} : Starts(e)}
               = starting(n)
    OBVIOUS
  <2>2. nStartingSequences' = [n \in nodes |-> nStartingSequences[n] - Cardinality(
            {e \in {e \in {x \in EntryIds : x[1] \in dead} : EntryAt(e).node = n}
                : Starts(e)})]
    BY DEF Erase
  <2> HIDE DEF starting
  <2> QED
    BY <2>1, <2>2
<1>2. Owned \subseteq Sequences /\ \A q \in Owned : 1 \in DOMAIN entries[q]
  <2>1. Owned \subseteq Sequences
    BY StartersFinite DEF IInv
  <2>2. \A q \in Owned : entries[q] \in Seq(HistoryEntries) /\ entries[q] # <<>>
    BY <2>1 DEF IInv, HistoriesTyped, EntriesOfOwned
  <2>3. \A s \in Seq(HistoryEntries) : s # <<>> => 1 \in DOMAIN s
    OBVIOUS
  <2> QED
    BY <2>1, <2>2, <2>3
<1>3. ASSUME NEW n PROVE starting(n) = lost(n) \X {1}
  <2>1. \A e : e \in starting(n) <=>
           \E q \in Owned : \E i \in DOMAIN entries[q] :
              e = <<q, i>> /\ q \in dead /\ entries[q][i].node = n /\ i = 1
    BY EntryIdsMembers DEF EntryAt, Starts
  <2>2. \A e : e \in starting(n) <=> \E q \in lost(n) : e = <<q, 1>>
    BY <1>2, <2>1 DEF StartersAt
  <2>3. \A e : e \in lost(n) \X {1} <=> \E q \in lost(n) : e = <<q, 1>>
    OBVIOUS
  <2> HIDE DEF starting, lost
  <2> QED
    BY <2>2, <2>3
<1>4. \A q \in Owned' : entries'[q] = entries[q]
  <2>1. entries' = [q \in Sequences |-> IF q \in dead THEN <<>> ELSE entries[q]]
    BY DEF Erase
  <2> QED
    BY <1>2, <2>1
<1>5. \A n : StartersAt(n)' = StartersAt(n) \ dead
  BY <1>4 DEF StartersAt
<1> HIDE DEF starting
<1>6. ASSUME NEW n
      PROVE  /\ Cardinality(starting(n)) = Cardinality(lost(n))
             /\ Cardinality(StartersAt(n)') = Cardinality(StartersAt(n)) - Cardinality(lost(n))
             /\ Cardinality(StartersAt(n)) \in Nat /\ Cardinality(lost(n)) \in Nat
  <2>1. IsFiniteSet(StartersAt(n)) /\ Cardinality(StartersAt(n)) \in Nat
    BY StartersFinite DEF IInv
  <2>2. IsFiniteSet(lost(n)) /\ Cardinality(lost(n)) \in Nat
    BY <2>1, FS_Intersection, FS_CardinalityType
  <2>3. Cardinality(StartersAt(n) \ dead) = Cardinality(StartersAt(n)) - Cardinality(lost(n))
    BY <2>1, FS_Difference
  <2> HIDE DEF lost
  <2>4. IsFiniteSet({1}) /\ Cardinality({1}) = 1
    BY FS_Singleton
  <2>5. Cardinality(lost(n) \X {1}) = Cardinality(lost(n)) * Cardinality({1})
    BY <2>2, <2>4, FS_Product
  <2>6. Cardinality(starting(n)) = Cardinality(lost(n) \X {1})
    BY <1>3
  <2>7. Cardinality(starting(n)) = Cardinality(lost(n))
    BY <2>2, <2>4, <2>5, <2>6
  <2>8. Cardinality(StartersAt(n)') = Cardinality(StartersAt(n)) - Cardinality(lost(n))
    <3>1. StartersAt(n)' = StartersAt(n) \ dead
      BY <1>5
    <3> QED
      BY <2>3, <3>1
  <2> QED
    BY <2>1, <2>2, <2>7, <2>8
<1> HIDE DEF lost
<1>7. ASSUME NEW n \in nodes'
      PROVE  /\ nStartingSequences'[n] <= Cardinality(StartersAt(n)')
             /\ n = Root => nStartingSequences'[n] = Cardinality(StartersAt(n)')
  <2>1. n \in nodes /\ nStartingSequences[n] \in Int
    BY DEF IInv, TreeTyped
  <2>2. /\ nStartingSequences[n] <= Cardinality(StartersAt(n))
        /\ n = Root => nStartingSequences[n] = Cardinality(StartersAt(n))
    BY <2>1 DEF StartsNeverOvercounted
  <2>3. nStartingSequences'[n] = nStartingSequences[n] - Cardinality(lost(n))
    BY <1>1, <1>6, <2>1
  <2> QED
    BY <1>6, <2>1, <2>2, <2>3
<1> QED
  BY <1>7 DEF StartsNeverOvercounted

LEMMA DeleteKeepsStarts ==
    ASSUME IInv, StartsNeverOvercounted, NEW q \in Owned, DeleteSequence(q), UNCHANGED nodes
    PROVE  StartsNeverOvercounted'
<1>1. /\ Erase({q})
      /\ Deletion(sequencesById, id, q, sequencesById', id')
  BY DEF DeleteSequence, Deletion, IdsWithout
<1>2. IdsOf(sequencesById, id)
  BY DEF IInv, IdsMatchIndex, IdsOf
<1>3. Owned' = Owned \ {q}
  BY <1>1, <1>2, DeleteKeepsIds DEF IInv, HistoriesTyped, Owned
<1> QED
  BY <1>1, <1>3, EraseKeepsStarts

LEMMA CleanKeepsStarts ==
    ASSUME IInv, StartsNeverOvercounted, CleanHistories
    PROVE  StartsNeverOvercounted'
<1>1. Marked \subseteq Owned /\ Owned \subseteq Sequences
  <2>1. currentBelief \in nodes /\ currentBelief \in DOMAIN particles
    BY DEF IInv, TreeTyped
  <2>2. Marked = {e[1] : e \in particles[currentBelief]}
    BY <2>1 DEF Marked, Through, At
  <2> QED
    BY <2>1, <2>2, ParticlesAreOwned, StartersFinite DEF IInv
<1>2. Cardinality(Marked) \in Nat
  BY <1>1, RegistryAssumption, FS_Subset, FS_CardinalityType
<1>3. PICK staying \in [1..Cardinality(Marked) -> DOMAIN sequencesById] :
         Cleaning(Sequences, sequencesById, Marked, staying, sequencesById', id')
  BY DEF CleanHistories, Cleaning
<1>4. Owned' = Marked
  <2>1. sequencesById \in Seq(Sequences) /\ IsInjective(sequencesById)
    BY DEF IInv, HistoriesTyped, IdsMatchIndex
  <2> QED
    BY <1>2, <1>3, <2>1, CleanKeepsIds DEF Owned
<1>5. Erase(Owned \ Marked) /\ Owned' = Owned \ (Owned \ Marked) /\ UNCHANGED nodes
  BY <1>1, <1>4 DEF CleanHistories
<1> QED
  BY <1>5, EraseKeepsStarts

(* A search from the root makes its first entry a particle. *)
LEMMA SearchKeepsStarts ==
    ASSUME IInv, StartsNeverOvercounted, Search
    PROVE  StartsNeverOvercounted'
<1>0. PICK q \in Sequences : \E list :
         PathFromBelief(list) /\ RegisterSequence(q, list, currentBelief = Root)
  BY SearchRegisters
<1>1. PICK list : PathFromBelief(list) /\ RegisterSequence(q, list, currentBelief = Root)
  BY <1>0
<1> DEFINE first == currentBelief = Root
<1>2. list \in Seq(HistoryEntries) /\ list # <<>> /\ (list[1].node = Root => first)
  BY <1>1 DEF PathFromBelief
<1>3. RegisterSequence(q, list, first)
  BY <1>1
<1> HIDE DEF first
<1> QED
  BY <1>2, <1>3, RegisterKeepsStarts

LEMMA AddParticleKeepsStarts ==
    ASSUME IInv, StartsNeverOvercounted, AddParticle
    PROVE  StartsNeverOvercounted'
<1>1. PICK q \in Sequences, s \in States :
         RegisterSequence(q, <<Entry(currentBelief, s)>>, TRUE)
  BY DEF AddParticle
<1> DEFINE list == <<Entry(currentBelief, s)>>
<1>2. list \in Seq(HistoryEntries) /\ list # <<>>
  <2>1. Entry(currentBelief, s) \in HistoryEntries
    BY DEF Entry, HistoryEntries, IInv, TreeTyped
  <2> QED
    BY <2>1
<1>3. RegisterSequence(q, list, TRUE)
  BY <1>1
<1> HIDE DEF list
<1> QED
  BY <1>2, <1>3, RegisterKeepsStarts

(* Nodes come without sequences, or go. *)
LEMMA NodesKeepStarts ==
    ASSUME IInv, StartsNeverOvercounted, UNCHANGED historyVars,
           nStartingSequences' = [n \in nodes' |-> At(nStartingSequences, n, 0)]
    PROVE  StartsNeverOvercounted'
<1>1. \A n : StartersAt(n)' = StartersAt(n) /\ Cardinality(StartersAt(n)) \in Nat
  BY StartersFinite DEF historyVars, StartersAt, Owned, IInv
<1>2. ASSUME NEW n \in nodes'
      PROVE  /\ nStartingSequences'[n] <= Cardinality(StartersAt(n))
             /\ n = Root => nStartingSequences'[n] = Cardinality(StartersAt(n))
  <2>1. nStartingSequences'[n] = At(nStartingSequences, n, 0)
    OBVIOUS
  <2>2. CASE n \in nodes
    BY <2>1, <2>2 DEF At, IInv, TreeTyped, StartsNeverOvercounted
  <2>3. CASE n \notin nodes
    BY <1>1, <2>1, <2>3 DEF At, IInv, TreeTyped
  <2> QED
    BY <2>2, <2>3
<1> QED
  BY <1>1, <1>2 DEF StartsNeverOvercounted

LEMMA PruneNodeKeepsStarts ==
    ASSUME IInv, StartsNeverOvercounted, PruneNode
    PROVE  StartsNeverOvercounted'
<1>1. nodes' \subseteq nodes /\ UNCHANGED historyVars
  BY DEF PruneNode
<1>2. nStartingSequences' = [n \in nodes' |-> nStartingSequences[n]]
  BY DEF PruneNode, Restrict
<1>3. nStartingSequences' = [n \in nodes' |-> At(nStartingSequences, n, 0)]
  <2>1. \A n \in nodes' : At(nStartingSequences, n, 0) = nStartingSequences[n]
    BY <1>1 DEF At, IInv, TreeTyped
  <2> QED
    BY <1>2, <2>1
<1> QED
  BY <1>1, <1>3, NodesKeepStarts

LEMMA FreshStarts ==
    /\ Init => StartsNeverOvercounted
    /\ Reset => StartsNeverOvercounted'
<1>1. ASSUME Init PROVE StartsNeverOvercounted
  <2>1. nodes = {Root} /\ nStartingSequences = [n \in {Root} |-> 0] /\ sequencesById = <<>>
    BY <1>1, FreshFields, RegistryAssumption DEF Init
  <2>2. \A n : StartersAt(n) = {}
    BY <2>1 DEF StartersAt, Owned, ToSet
  <2> QED
    BY <2>1, <2>2, FS_EmptySet DEF StartsNeverOvercounted
<1>2. ASSUME Reset PROVE StartsNeverOvercounted'
  <2>1. nodes' = {Root} /\ nStartingSequences' = [n \in {Root} |-> 0] /\ sequencesById' = <<>>
    BY <1>2, FreshFields, RegistryAssumption DEF Reset
  <2>2. \A n : StartersAt(n)' = {}
    BY <2>1 DEF StartersAt, Owned, ToSet
  <2> QED
    BY <2>1, <2>2, FS_EmptySet DEF StartsNeverOvercounted
<1> QED
  BY <1>1, <1>2

LEMMA NextKeepsStarts ==
    IInv /\ StartsNeverOvercounted /\ [Next]_vars => StartsNeverOvercounted'
<1> SUFFICES ASSUME IInv, StartsNeverOvercounted, [Next]_vars PROVE StartsNeverOvercounted'
  OBVIOUS
<1>1. CASE UNCHANGED <<treeVars, historyVars>>
  BY <1>1 DEF treeVars, historyVars, StartsNeverOvercounted, StartersAt, Owned
<1>2. ASSUME NEW edge \in Edges, UpdateBelief(edge) PROVE StartsNeverOvercounted'
  <2>1. /\ UNCHANGED historyVars
        /\ nStartingSequences' = [n \in nodes' |-> At(nStartingSequences, n, 0)]
    BY <1>2 DEF UpdateBelief
  <2> QED
    BY <2>1, NodesKeepStarts
<1>3. CASE DropSequence
  <2>1. PICK e \in particles[currentBelief] : DeleteSequence(e[1])
    BY <1>3 DEF DropSequence
  <2>2. e[1] \in Owned
    BY ParticlesAreOwned DEF IInv, TreeTyped
  <2>3. UNCHANGED nodes
    BY <1>3 DEF DropSequence
  <2> QED
    BY <2>1, <2>2, <2>3, DeleteKeepsStarts
<1>4. CASE PruneSequence
  <2>1. PICK n \in Siblings(currentBelief) : \E e \in particles[n] : DeleteSequence(e[1])
    BY <1>4 DEF PruneSequence
  <2>2. PICK e \in particles[n] : DeleteSequence(e[1])
    BY <2>1
  <2>3. n \in nodes
    BY DEF Siblings
  <2>4. e[1] \in Owned
    BY <2>3, ParticlesAreOwned
  <2>5. UNCHANGED nodes
    BY <1>4 DEF PruneSequence
  <2> QED
    BY <2>2, <2>4, <2>5, DeleteKeepsStarts
<1>5. AllDropped \/ AllAdded \/ AllPruned \/ Cleanup \/ UNCHANGED vars
         => UNCHANGED <<treeVars, historyVars>>
  BY DEF AllDropped, AllAdded, AllPruned, Cleanup, vars
<1> QED
  BY <1>1, <1>2, <1>3, <1>4, <1>5, FreshStarts, SearchKeepsStarts, AddParticleKeepsStarts,
     PruneNodeKeepsStarts, CleanKeepsStarts DEF Next

(* nStartingSequences_ errs on one side: erasing may lower it for a         *)
(* sequence it never counted, but never counts one that is not there.  At   *)
(* the root, where searches make their first entries particles, it is right. *)
THEOREM StartsBounded == Spec => []StartsNeverOvercounted
<1>1. Init => StartsNeverOvercounted
  BY FreshStarts
<1> QED
  BY <1>1, NextKeepsStarts, IInvHolds, PTL DEF Spec
=============================================================================
