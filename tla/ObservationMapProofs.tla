------------------------ MODULE ObservationMapProofs ------------------------
(***************************************************************************)
(* The observation mapping for any observations, any distance between them *)
(* and any number of histories: the theorems about ObservationMap.         *)
(***************************************************************************)
EXTENDS ObservationMap, FiniteSetTheorems, SequenceTheorems, WellFoundedInduction, TLAPS

EntryType == [observation : Observations, visitCount : Int]
Entries == Seq(EntryType)
VisitType == [observation : Observations, node : Observations]

(* The entries of a mapping have different observations. *)
Distinct(list) ==
    \A i, j \in DOMAIN list : list[i].observation = list[j].observation => i = j

(* The node a visit went to is that of an entry near to its observation. *)
Placed(list, visit) ==
    \E i \in Near(list, visit.observation) : list[i].observation = visit.node

(* Two lists have the same observations, entry by entry. *)
SameObservations(list, m) ==
    DOMAIN m = DOMAIN list /\ \A i \in DOMAIN list : m[i].observation = list[i].observation

-----------------------------------------------------------------------------
(* Sets of naturals. *)

LEMMA LeastNatural ==
    ASSUME NEW T, T \subseteq Nat, T # {}
    PROVE  \E x \in T : \A y \in T : x <= y
<1> DEFINE R == OpToRel(<, Nat)
<1>1. IsWellFoundedOn(R, Nat)
  BY NatLessThanWellFounded
<1>2. PICK x \in T : \A y \in T : ~(<<y, x>> \in R)
  <2> HIDE DEF R
  <2> QED
    BY <1>1, WFMin
<1>3. \A y \in T : ~(<<y, x>> \in R) => x <= y
  BY DEF OpToRel
<1> QED
  BY <1>2, <1>3

LEMMA GreatestNatural ==
    ASSUME NEW n \in Nat, NEW T, T \subseteq 0..n, T # {}
    PROVE  \E x \in T : \A y \in T : y <= x
<1> DEFINE U == {n - y : y \in T}
<1>1. U \subseteq Nat /\ U # {}
  <2>1. \A y \in T : n - y \in Nat
    OBVIOUS
  <2> QED
    BY <2>1
<1> HIDE DEF U
<1>2. PICK x \in U : \A y \in U : x <= y
  BY <1>1, LeastNatural
<1>3. PICK t \in T : x = n - t
  BY DEF U
<1>4. \A y \in T : n - y \in U
  BY DEF U
<1>5. \A y \in T : n - t <= n - y
  BY <1>2, <1>3, <1>4
<1> QED
  BY <1>5

-----------------------------------------------------------------------------
(* Finding an entry. *)

LEMMA EntryFields ==
    ASSUME NEW list \in Entries
    PROVE  /\ Len(list) \in Nat /\ DOMAIN list = 1..Len(list)
           /\ \A i \in DOMAIN list : /\ list[i] \in EntryType
                                     /\ list[i].observation \in Observations
                                     /\ list[i].visitCount \in Int
<1>1. Len(list) \in Nat /\ DOMAIN list = 1..Len(list) /\ \A i \in DOMAIN list : list[i] \in EntryType
  BY DEF Entries
<1>2. \A e \in EntryType : e.observation \in Observations /\ e.visitCount \in Int
  BY DEF EntryType
<1> QED
  BY <1>1, <1>2

(* getEntry finds an entry that is near, if there is one. *)
LEMMA GetEntryFinds ==
    ASSUME NEW list \in Entries, NEW o \in Observations
    PROVE  /\ Near(list, o) = {} => GetEntry(list, o) = 0
           /\ Near(list, o) # {} => GetEntry(list, o) \in Near(list, o)
           /\ GetEntry(list, o) # 0 <=> Near(list, o) # {}
<1> DEFINE To(i) == Distance[list[i].observation][o]
           N == Near(list, o)
           B == {i \in N : \A j \in N : To(i) <= To(j)}
<1>1. Len(list) \in Nat /\ DOMAIN list = 1..Len(list) /\ N \subseteq 1..Len(list)
  BY EntryFields DEF Near
<1>2. \A i \in N : To(i) \in Nat
  <2>1. \A i \in N : list[i].observation \in Observations
    BY EntryFields DEF Near
  <2> QED
    BY <2>1, DistanceAssumption
<1>3. GetEntry(list, o) = IF N = {} THEN 0 ELSE Max(B)
  BY DEF GetEntry
<1> HIDE DEF N, To
<1>4. ASSUME N # {} PROVE Max(B) \in B
  <2> DEFINE T == {To(i) : i \in N}
  <2>1. T \subseteq Nat /\ T # {}
    BY <1>2, <1>4
  <2>2. PICK t \in T : \A u \in T : t <= u
    <3> HIDE DEF T
    <3> QED
      BY <2>1, LeastNatural
  <2>3. PICK i \in N : t = To(i)
    OBVIOUS
  <2>4. i \in B
    BY <2>2, <2>3
  <2>5. B \subseteq N
    OBVIOUS
  <2> HIDE DEF B
  <2>6. B \subseteq 0..Len(list) /\ B # {} /\ B \subseteq Nat
    BY <1>1, <2>4, <2>5
  <2>7. \E x \in B : \A y \in B : x >= y
    <3>1. \E x \in B : \A y \in B : y <= x
      BY <1>1, <2>6, GreatestNatural
    <3> QED
      BY <2>6, <3>1
  <2> QED
    BY <2>7 DEF Max
<1>5. B \subseteq N
  OBVIOUS
<1> DEFINE best == Max(B)
<1>6. /\ GetEntry(list, o) = IF N = {} THEN 0 ELSE best
      /\ N # {} => best \in B
  BY <1>3, <1>4
<1> HIDE DEF B, best
<1>7. N # {} => GetEntry(list, o) \in N /\ GetEntry(list, o) # 0
  <2> SUFFICES ASSUME N # {} PROVE GetEntry(list, o) \in N /\ GetEntry(list, o) # 0
    OBVIOUS
  <2>1. GetEntry(list, o) = best /\ best \in N
    BY <1>5, <1>6
  <2>2. \A i \in 1..Len(list) : i # 0
    BY <1>1
  <2> QED
    BY <1>1, <2>1, <2>2
<1>8. /\ N = {} => GetEntry(list, o) = 0
      /\ N # {} => GetEntry(list, o) \in N
      /\ GetEntry(list, o) # 0 <=> N # {}
  BY <1>6, <1>7
<1>9. N = Near(list, o)
  BY DEF N
<1> QED
  BY <1>8, <1>9, Zenon

(* What getEntry finds depends on the observations of the entries only. *)
LEMMA SameEntryFound ==
    ASSUME NEW list, NEW m, SameObservations(list, m), NEW o
    PROVE  Near(m, o) = Near(list, o) /\ GetEntry(m, o) = GetEntry(list, o)
<1> DEFINE N == Near(list, o)
           B(l) == {i \in N : \A j \in N : Distance[l[i].observation][o]
                                              <= Distance[l[j].observation][o]}
           X == B(list)
           Y == B(m)
<1>1. Near(m, o) = N
  BY DEF SameObservations, Near
<1>2. \A i \in N : m[i].observation = list[i].observation
  BY DEF SameObservations, Near
<1>3. /\ GetEntry(m, o) = IF N = {} THEN 0 ELSE Max(Y)
      /\ GetEntry(list, o) = IF N = {} THEN 0 ELSE Max(X)
  BY <1>1 DEF GetEntry
<1> HIDE DEF N
<1>4. X = Y
  BY <1>2
<1> HIDE DEF X, Y
<1>5. Max(X) = Max(Y)
  BY <1>4
<1> DEFINE x == Max(X)
           y == Max(Y)
<1>6. GetEntry(m, o) = (IF N = {} THEN 0 ELSE y) /\ GetEntry(list, o) = (IF N = {} THEN 0 ELSE x)
  BY <1>3
<1> HIDE DEF x, y
<1>7. GetEntry(m, o) = GetEntry(list, o)
  BY <1>5, <1>6 DEF x, y
<1> QED
  BY <1>1, <1>7 DEF N

-----------------------------------------------------------------------------
(* The sum of the visit counts. *)

(* The sums of the first entries of a list: of none, of one, and so on. *)
PartialSums(list, n, f) ==
    /\ f \in [0..n -> Int]
    /\ f[0] = 0
    /\ \A k \in 1..n : f[k] = f[k - 1] + list[k].visitCount

LEMMA PartialSumsExist ==
    ASSUME NEW list \in Entries, NEW n \in 0..Len(list)
    PROVE  \E f : PartialSums(list, n, f)
<1> DEFINE T == {k \in 0..Len(list) : ~ \E f : PartialSums(list, k, f)}
<1> SUFFICES ASSUME T # {} PROVE FALSE
  OBVIOUS
<1>1. Len(list) \in Nat
  BY EntryFields
<1>2. PICK k \in T : \A j \in T : k <= j
  <2>1. T \subseteq Nat
    BY <1>1
  <2> HIDE DEF T
  <2> QED
    BY <2>1, LeastNatural
<1>3. k \in 0..Len(list) /\ ~ \E f : PartialSums(list, k, f)
  OBVIOUS
<1>4. k # 0
  <2>1. PartialSums(list, 0, [j \in 0..0 |-> 0])
    BY DEF PartialSums
  <2> QED
    BY <1>3, <2>1
<1>5. k - 1 \in 0..Len(list) /\ k - 1 \notin T
  BY <1>1, <1>2, <1>3, <1>4
<1>6. PICK f : PartialSums(list, k - 1, f)
  BY <1>5
<1> DEFINE g == [j \in 0..k |-> IF j = k THEN f[k - 1] + list[k].visitCount ELSE f[j]]
<1>7. list[k].visitCount \in Int
  BY <1>1, <1>3, <1>4, EntryFields
<1>8. \A j \in 0..k : j # k => j \in 0..(k - 1)
  BY <1>1, <1>3
<1>9. f \in [0..(k - 1) -> Int] /\ f[0] = 0
      /\ \A j \in 1..(k - 1) : f[j] = f[j - 1] + list[j].visitCount
  BY <1>6 DEF PartialSums
<1>10. \A j \in 0..k : g[j] = IF j = k THEN f[k - 1] + list[k].visitCount ELSE f[j]
  OBVIOUS
<1>11. g \in [0..k -> Int]
  <2>1. k - 1 \in 0..(k - 1)
    BY <1>1, <1>3, <1>4
  <2> QED
    BY <1>7, <1>8, <1>9, <2>1
<1> HIDE DEF g
<1>12. ASSUME NEW j \in 1..k PROVE g[j] = g[j - 1] + list[j].visitCount
  <2>1. j \in 0..k /\ j - 1 \in 0..k /\ j - 1 # k
    BY <1>1, <1>3
  <2>2. CASE j = k
    BY <1>10, <2>1, <2>2
  <2>3. CASE j # k
    <3>1. j \in 1..(k - 1)
      BY <1>1, <1>3, <2>3
    <3> QED
      BY <1>9, <1>10, <2>1, <2>3, <3>1
  <2> QED
    BY <2>2, <2>3
<1>13. g[0] = 0
  <2>1. 0 \in 0..k
    BY <1>1, <1>3
  <2> QED
    BY <1>4, <1>9, <1>10, <2>1
<1>14. PartialSums(list, k, g)
  BY <1>11, <1>12, <1>13 DEF PartialSums
<1> QED
  BY <1>3, <1>14

(* Two lists differ by d in the count of entry i, as far as entry n. *)
DifferBy(list, m, n, i, d) ==
    \A k \in 1..n : /\ list[k].visitCount \in Int
                    /\ m[k].visitCount = list[k].visitCount + (IF k = i THEN d ELSE 0)

LEMMA SumsDiffer ==
    ASSUME NEW n \in Nat, NEW list, NEW m, NEW f, NEW g,
           PartialSums(list, n, f), PartialSums(m, n, g),
           NEW i \in Nat \ {0}, NEW d \in Int, DifferBy(list, m, n, i, d)
    PROVE  \A k \in 0..n : g[k] = f[k] + (IF i <= k THEN d ELSE 0)
<1> DEFINE T == {k \in 0..n : g[k] # f[k] + (IF i <= k THEN d ELSE 0)}
<1> SUFFICES ASSUME T # {} PROVE FALSE
  OBVIOUS
<1>1. PICK k \in T : \A j \in T : k <= j
  <2>1. T \subseteq Nat
    OBVIOUS
  <2> HIDE DEF T
  <2> QED
    BY <2>1, LeastNatural
<1>2. k \in 0..n /\ g[k] # f[k] + (IF i <= k THEN d ELSE 0)
  OBVIOUS
<1>3. /\ f[0] = 0 /\ \A j \in 1..n : f[j] = f[j - 1] + list[j].visitCount
      /\ g[0] = 0 /\ \A j \in 1..n : g[j] = g[j - 1] + m[j].visitCount
      /\ \A j \in 0..n : f[j] \in Int
  BY DEF PartialSums
<1>4. k # 0
  BY <1>2, <1>3
<1>5. k - 1 \in 0..n /\ k - 1 \notin T /\ k \in 1..n
  BY <1>1, <1>2, <1>4
<1>6. g[k - 1] = f[k - 1] + (IF i <= k - 1 THEN d ELSE 0)
  BY <1>5
<1> HIDE DEF T
<1>7. /\ f[k] = f[k - 1] + list[k].visitCount
      /\ g[k] = g[k - 1] + (list[k].visitCount + (IF k = i THEN d ELSE 0))
      /\ f[k - 1] \in Int /\ list[k].visitCount \in Int
  BY <1>3, <1>5 DEF DifferBy
<1>8. CASE k < i
  <2>1. ~(i <= k - 1) /\ k # i /\ ~(i <= k)
    BY <1>5, <1>8
  <2> QED
    BY <1>2, <1>6, <1>7, <2>1
<1>9. CASE k = i
  <2>1. ~(i <= k - 1) /\ i <= k
    BY <1>5, <1>9
  <2> QED
    BY <1>2, <1>6, <1>7, <1>9, <2>1
<1>10. CASE i < k
  <2>1. i <= k - 1 /\ k # i /\ i <= k
    BY <1>5, <1>10
  <2> QED
    BY <1>2, <1>6, <1>7, <2>1
<1> QED
  BY <1>5, <1>8, <1>9, <1>10

(* The sum is the last of the partial sums. *)
LEMMA VisitsInIsSum ==
    ASSUME NEW list \in Entries, NEW f, PartialSums(list, Len(list), f)
    PROVE  VisitsIn(list) = f[Len(list)] /\ VisitsIn(list) \in Int
<1> DEFINE n == Len(list)
           s == CHOOSE x : x = [k \in 0..n |-> IF k = 0 THEN 0 ELSE x[k - 1] + list[k].visitCount]
<1>1. n \in Nat
  BY EntryFields
<1>2. VisitsIn(list) = s[n]
  BY DEF VisitsIn
<1>3. /\ f \in [0..n -> Int] /\ f[0] = 0
      /\ \A k \in 1..n : f[k] = f[k - 1] + list[k].visitCount
  BY DEF PartialSums
<1>4. f = [k \in 0..n |-> IF k = 0 THEN 0 ELSE f[k - 1] + list[k].visitCount]
  <2>1. \A k \in 0..n : k # 0 => k \in 1..n
    BY <1>1
  <2>2. \A k \in 0..n : f[k] = IF k = 0 THEN 0 ELSE f[k - 1] + list[k].visitCount
    BY <1>3, <2>1
  <2>3. f = [k \in 0..n |-> f[k]]
    BY <1>3
  <2> QED
    BY <2>2, <2>3
<1>5. s = [k \in 0..n |-> IF k = 0 THEN 0 ELSE s[k - 1] + list[k].visitCount]
  BY <1>4
<1> HIDE DEF s
<1>6. /\ \A k \in 0..n : s[k] = IF k = 0 THEN 0 ELSE s[k - 1] + list[k].visitCount
  BY <1>5
<1> DEFINE T == {k \in 0..n : s[k] # f[k]}
<1>7. T = {}
  <2> SUFFICES ASSUME T # {} PROVE FALSE
    OBVIOUS
  <2>1. PICK k \in T : \A j \in T : k <= j
    <3>1. T \subseteq Nat
      BY <1>1
    <3> HIDE DEF T
    <3> QED
      BY <3>1, LeastNatural
  <2>2. k \in 0..n /\ s[k] # f[k]
    OBVIOUS
  <2>3. k # 0
    BY <1>1, <1>3, <1>6
  <2>4. k \in 1..n /\ k - 1 \in 0..n /\ k - 1 \notin T
    BY <1>1, <2>1, <2>2, <2>3
  <2>5. s[k - 1] = f[k - 1]
    BY <2>4
  <2> QED
    BY <1>3, <1>6, <2>2, <2>3, <2>4, <2>5
<1>8. n \in 0..n
  BY <1>1
<1>9. s[n] = f[n] /\ f[n] \in Int
  BY <1>3, <1>7, <1>8
<1> QED
  BY <1>2, <1>9

(* The sums of lists that differ in the count of one entry. *)
LEMMA SumOfUpdated ==
    ASSUME NEW list \in Entries, NEW m \in Entries, Len(m) = Len(list),
           NEW i \in 1..Len(list), NEW d \in Int,
           \A k \in 1..Len(list) :
              m[k].visitCount = list[k].visitCount + (IF k = i THEN d ELSE 0)
    PROVE  VisitsIn(m) = VisitsIn(list) + d
<1> DEFINE n == Len(list)
<1>1. n \in Nat /\ n \in 0..n /\ i \in Nat \ {0} /\ i <= n
  BY EntryFields
<1>2. PICK f : PartialSums(list, n, f)
  BY <1>1, PartialSumsExist
<1>3. PICK g : PartialSums(m, n, g)
  BY <1>1, PartialSumsExist
<1>4. VisitsIn(list) = f[n] /\ VisitsIn(m) = g[n]
  BY <1>2, <1>3, VisitsInIsSum
<1>5. \A k \in 1..n : list[k].visitCount \in Int
  BY EntryFields
<1> HIDE DEF n
<1>6. \A k \in 1..n : m[k].visitCount = list[k].visitCount + (IF k = i THEN d ELSE 0)
  BY DEF n
<1>7. \A k \in 0..n : g[k] = f[k] + (IF i <= k THEN d ELSE 0)
  <2>1. DifferBy(list, m, n, i, d)
    BY <1>5, <1>6 DEF DifferBy
  <2> QED
    BY <1>1, <1>2, <1>3, <2>1, SumsDiffer
<1>8. g[n] = f[n] + d
  BY <1>1, <1>7
<1> QED
  BY <1>4, <1>8

(* The sum of a list with an entry more, or with another entry in place of i. *)
LEMMA SumOfShorter ==
    ASSUME NEW list \in Entries, Len(list) > 0, NEW m \in Entries,
           Len(m) = Len(list) - 1,
           NEW i \in 1..Len(list),
           \A k \in 1..Len(m) :
              m[k].visitCount = IF k = i THEN list[Len(list)].visitCount ELSE list[k].visitCount
    PROVE  VisitsIn(m) = VisitsIn(list) - list[i].visitCount
<1> DEFINE n == Len(m)
           c == list[Len(list)].visitCount
           d == c - list[i].visitCount
<1>1. /\ n \in Nat /\ Len(list) = n + 1 /\ n + 1 \in 0..Len(list) /\ n \in 0..n
      /\ i \in Nat \ {0} /\ i \in 1..(n + 1)
  BY EntryFields
<1>2. PICK f : PartialSums(list, n + 1, f)
  BY <1>1, PartialSumsExist
<1>3. PICK g : PartialSums(m, n, g)
  BY <1>1, PartialSumsExist
<1>4. VisitsIn(list) = f[n + 1] /\ VisitsIn(m) = g[n]
  BY <1>1, <1>2, <1>3, VisitsInIsSum
<1>5. /\ \A k \in 1..(n + 1) : list[k].visitCount \in Int
      /\ list[i].visitCount \in Int /\ c \in Int /\ d \in Int /\ c = list[n + 1].visitCount
  BY <1>1, EntryFields
<1>6. /\ f \in [0..(n + 1) -> Int] /\ f[0] = 0
      /\ \A k \in 1..(n + 1) : f[k] = f[k - 1] + list[k].visitCount
  BY <1>2 DEF PartialSums
<1>7. \A k \in 1..n : k \in 1..(n + 1) /\ (k = i => i <= n)
  BY <1>1
<1> DEFINE e == [k \in 0..n |-> f[k]]
<1>8. PartialSums(list, n, e)
  <2>1. \A k \in 0..n : k \in 0..(n + 1)
    BY <1>1
  <2>2. e \in [0..n -> Int]
    BY <1>6, <2>1
  <2>3. 0 \in 0..n /\ \A k \in 1..n : k \in 0..n /\ k - 1 \in 0..n
    BY <1>1
  <2> QED
    BY <1>6, <1>7, <2>2, <2>3 DEF PartialSums
<1>9. f[n + 1] = e[n] + c /\ e[n] \in Int
  <2>1. n + 1 \in 1..(n + 1) /\ (n + 1) - 1 = n /\ n \in 0..(n + 1)
    BY <1>1
  <2> QED
    BY <1>1, <1>5, <1>6, <2>1
<1> HIDE DEF e
<1>10. \A k \in 1..n :
          m[k].visitCount = list[k].visitCount + (IF k = i THEN d ELSE 0)
  BY <1>1, <1>5, <1>7
<1> HIDE DEF n, d
<1>11. \A k \in 0..n : g[k] = e[k] + (IF i <= k THEN d ELSE 0)
  <2>1. DifferBy(list, m, n, i, d)
    BY <1>5, <1>7, <1>10 DEF DifferBy
  <2> QED
    BY <1>1, <1>3, <1>5, <1>8, <2>1, SumsDiffer
<1>12. g[n] = e[n] + (IF i <= n THEN d ELSE 0)
  BY <1>1, <1>11
<1>13. g[n] = f[n + 1] - list[i].visitCount
  <2>1. CASE i <= n
    BY <1>5, <1>9, <1>12, <2>1 DEF d
  <2>2. CASE ~(i <= n)
    <3>1. i = n + 1
      BY <1>1, <2>2
    <3> QED
      BY <1>5, <1>9, <1>12, <2>2, <3>1
  <2> QED
    BY <2>1, <2>2
<1> QED
  BY <1>4, <1>13

LEMMA SumOfNone ==
    VisitsIn(<<>>) = 0
<1>1. <<>> \in Entries /\ Len(<<>>) = 0
  BY DEF Entries
<1>2. PartialSums(<<>>, 0, [k \in 0..0 |-> 0])
  BY DEF PartialSums
<1> DEFINE f == [k \in 0..0 |-> 0]
<1>3. f[0] = 0
  OBVIOUS
<1>4. PartialSums(<<>>, Len(<<>>), f)
  BY <1>1, <1>2
<1> HIDE DEF f
<1>5. VisitsIn(<<>>) = f[Len(<<>>)]
  BY <1>1, <1>4, VisitsInIsSum
<1> QED
  BY <1>1, <1>3, <1>5

-----------------------------------------------------------------------------
(* The operations of the mapping. *)

LEMMA WithChildFacts ==
    ASSUME NEW list \in Entries, Distinct(list), NEW o \in Observations,
           NEW m, m = WithChild(list, o)
    PROVE  /\ m \in Entries /\ Distinct(m)
           /\ VisitsIn(m) = VisitsIn(list)
           /\ Near(m, o) # {}
           /\ DOMAIN list \subseteq DOMAIN m
           /\ \A i \in DOMAIN list : m[i] = list[i]
           /\ \A i \in DOMAIN m \ DOMAIN list :
                 m[i] = NewEntry(o) /\ o \notin NodesOf(list)
<1>1. CASE Near(list, o) # {}
  <2>1. m = list
    BY <1>1, GetEntryFinds DEF WithChild
  <2> QED
    BY <1>1, <2>1
<1>2. CASE Near(list, o) = {}
  <2> DEFINE n == Len(list)
             e == NewEntry(o)
  <2>1. m = Append(list, e)
    BY <1>2, GetEntryFinds DEF WithChild
  <2>2. /\ e \in EntryType /\ e.observation = o /\ e.visitCount = 0
    BY DEF NewEntry, EntryType
  <2>3. n \in Nat /\ DOMAIN list = 1..n
    BY EntryFields
  <2> HIDE DEF e
  <2>4. /\ m \in Entries /\ Len(m) = n + 1 /\ DOMAIN m = 1..(n + 1)
        /\ \A i \in 1..n : m[i] = list[i]
        /\ m[n + 1] = e
    BY <2>1, <2>2, <2>3 DEF Entries
  <2>5. \A i \in DOMAIN list : list[i].observation # o
    <3> SUFFICES ASSUME NEW i \in DOMAIN list, list[i].observation = o PROVE FALSE
      OBVIOUS
    <3>1. Distance[o][o] = 0 /\ 0 <= MaxDistance
      BY DistanceAssumption
    <3>2. i \in Near(list, o)
      BY <3>1 DEF Near
    <3> QED
      BY <1>2, <3>2
  <2>6. Distinct(m)
    <3> SUFFICES ASSUME NEW i \in DOMAIN m, NEW j \in DOMAIN m,
                        m[i].observation = m[j].observation
                 PROVE  i = j
      BY DEF Distinct
    <3>1. \A k \in DOMAIN m : k = n + 1 \/ k \in 1..n
      BY <2>3, <2>4
    <3> QED
      BY <2>2, <2>3, <2>4, <2>5, <3>1 DEF Distinct
  <2>7. Near(m, o) # {}
    <3>1. Distance[o][o] = 0 /\ 0 <= MaxDistance
      BY DistanceAssumption
    <3>2. n + 1 \in DOMAIN m
      BY <2>3, <2>4
    <3>3. n + 1 \in Near(m, o)
      BY <2>2, <2>4, <3>1, <3>2 DEF Near
    <3> QED
      BY <3>3
  <2>8. VisitsIn(list) = VisitsIn(m) - e.visitCount
    <3>1. /\ Len(m) > 0 /\ Len(list) = Len(m) - 1 /\ n + 1 \in 1..Len(m)
          /\ \A k \in 1..n : k # n + 1
      BY <2>3, <2>4
    <3>2. \A k \in 1..Len(list) :
              list[k].visitCount = IF k = n + 1 THEN m[Len(m)].visitCount ELSE m[k].visitCount
      BY <2>4, <3>1
    <3>3. VisitsIn(list) = VisitsIn(m) - m[n + 1].visitCount
      BY <2>4, <3>1, <3>2, SumOfShorter
    <3> QED
      BY <2>4, <3>3
  <2>9. VisitsIn(m) \in Int
    <3>1. Len(m) \in 0..Len(m)
      BY <2>3, <2>4
    <3> QED
      BY <2>4, <3>1, PartialSumsExist, VisitsInIsSum
  <2>10. VisitsIn(m) = VisitsIn(list)
    BY <2>2, <2>8, <2>9
  <2>11. DOMAIN list \subseteq DOMAIN m /\ \A i \in DOMAIN m \ DOMAIN list : i = n + 1
    BY <2>3, <2>4
  <2>12. o \notin NodesOf(list)
    BY <2>5 DEF NodesOf
  <2> QED
    BY <2>3, <2>4, <2>6, <2>7, <2>10, <2>11, <2>12 DEF e
<1> QED
  BY <1>1, <1>2

(* updateVisitCount changes the count of the entry that getEntry finds. *)
LEMMA UpdatedFacts ==
    ASSUME NEW list \in Entries, Distinct(list), NEW o \in Observations,
           Near(list, o) # {}, NEW d \in Int, NEW m, m = Updated(list, o, d)
    PROVE  /\ m \in Entries /\ Distinct(m) /\ SameObservations(list, m)
           /\ VisitsIn(m) = VisitsIn(list) + d
           /\ \A i \in DOMAIN list : m[i].visitCount
                 = list[i].visitCount + (IF i = GetEntry(list, o) THEN d ELSE 0)
<1> DEFINE g == GetEntry(list, o)
           e == [list[g] EXCEPT !.visitCount = @ + d]
<1>1. g \in DOMAIN list
  BY GetEntryFinds DEF Near
<1>2. /\ Len(list) \in Nat /\ DOMAIN list = 1..Len(list)
      /\ \A i \in DOMAIN list : /\ list[i] \in EntryType
                                /\ list[i].observation \in Observations
                                /\ list[i].visitCount \in Int
  BY EntryFields
<1>3. /\ e \in EntryType /\ e.observation = list[g].observation
      /\ e.visitCount = list[g].visitCount + d
  BY <1>1, <1>2 DEF EntryType
<1>4. m = [list EXCEPT ![g] = e]
  BY DEF Updated
<1> HIDE DEF g, e
<1>5. /\ DOMAIN m = DOMAIN list /\ m[g] = e /\ \A i \in DOMAIN list : i # g => m[i] = list[i]
  BY <1>1, <1>4
<1>6. m \in Entries /\ Len(m) = Len(list)
  BY <1>1, <1>3, <1>4 DEF Entries
<1>7. SameObservations(list, m)
  BY <1>3, <1>5 DEF SameObservations
<1>8. \A i \in DOMAIN list : m[i].visitCount
          = list[i].visitCount + (IF i = g THEN d ELSE 0)
  BY <1>1, <1>2, <1>3, <1>5
<1>9. VisitsIn(m) = VisitsIn(list) + d
  BY <1>1, <1>2, <1>6, <1>8, SumOfUpdated
<1>10. Distinct(m)
  BY <1>7 DEF Distinct, SameObservations
<1> QED
  BY <1>6, <1>7, <1>8, <1>9, <1>10 DEF g

(* deleteChild leaves the other entries, one of them perhaps elsewhere. *)
LEMMA DeletedFacts ==
    ASSUME NEW list \in Entries, Distinct(list), NEW i \in DOMAIN list,
           NEW m, m = Deleted(list, i)
    PROVE  /\ m \in Entries /\ Distinct(m)
           /\ VisitsIn(m) = VisitsIn(list) - list[i].visitCount
           /\ \A j \in DOMAIN list : j # i => \E k \in DOMAIN m : m[k] = list[j]
<1> DEFINE n == Len(list) - 1
           front == Front(list)
<1>1. /\ Len(list) \in Nat /\ DOMAIN list = 1..Len(list) /\ i \in 1..Len(list)
      /\ n \in Nat /\ Len(list) = n + 1 /\ Len(list) > 0 /\ n <= Len(list)
  BY EntryFields
<1>2. front \in Entries /\ Len(front) = n /\ \A k \in 1..n : front[k] = list[k]
  <2>1. 1 \in 1..(Len(list) + 1) /\ n \in 0..Len(list) /\ \A k \in 1..n : 1 + k - 1 = k
    BY <1>1
  <2>2. list \in Seq(EntryType) /\ front = SubSeq(list, 1, n)
    BY DEF Entries, Front
  <2>3. front \in Seq(EntryType) /\ Len(front) = n /\ \A k \in 1..n : front[k] = list[k]
    <3> HIDE DEF front, n
    <3> QED
      BY <1>1, <2>1, <2>2, SubSeqProperties
  <2> QED
    BY <2>3 DEF Entries
<1>3. Last(list) = list[n + 1] /\ list[n + 1] \in EntryType
  BY <1>1, EntryFields DEF Last
<1> HIDE DEF front, n
<1>4. DOMAIN front = 1..n
  BY <1>2, EntryFields
<1>5. /\ m \in Entries /\ Len(m) = n /\ DOMAIN m = 1..n
      /\ \A k \in 1..n : m[k] = IF k = i THEN list[n + 1] ELSE list[k]
  <2>1. CASE i = n + 1
    <3>1. m = front /\ \A k \in 1..n : k # i
      BY <1>1, <2>1 DEF Deleted, front
    <3> QED
      BY <1>2, <1>4, <3>1
  <2>2. CASE i # n + 1
    <3>1. i \in 1..n /\ m = [front EXCEPT ![i] = list[n + 1]]
      BY <1>1, <1>3, <2>2 DEF Deleted, front
    <3>2. m \in Entries /\ Len(m) = n
      BY <1>2, <1>3, <3>1 DEF Entries
    <3> QED
      BY <1>2, <1>4, <3>1, <3>2
  <2> QED
    BY <2>1, <2>2
<1>6. \A k \in 1..n : k \in DOMAIN list /\ k # n + 1 /\ n + 1 \in DOMAIN list
  BY <1>1
<1>7. Distinct(m)
  BY <1>5, <1>6 DEF Distinct
<1>8. VisitsIn(m) = VisitsIn(list) - list[i].visitCount
  <2>1. Len(m) = Len(list) - 1
    BY <1>1, <1>5
  <2>2. \A k \in 1..Len(m) :
            m[k].visitCount = IF k = i THEN list[Len(list)].visitCount ELSE list[k].visitCount
    BY <1>1, <1>5
  <2> QED
    BY <1>1, <1>5, <2>1, <2>2, SumOfShorter
<1>9. ASSUME NEW j \in DOMAIN list, j # i PROVE \E k \in DOMAIN m : m[k] = list[j]
  <2>1. CASE j = n + 1
    <3>1. i \in 1..n
      BY <1>1, <1>9, <2>1
    <3> QED
      BY <1>5, <2>1, <3>1
  <2>2. CASE j # n + 1
    <3>1. j \in 1..n
      BY <1>1, <2>2
    <3> QED
      BY <1>5, <1>9, <3>1
  <2> QED
    BY <2>1, <2>2
<1> QED
  BY <1>5, <1>7, <1>8, <1>9

-----------------------------------------------------------------------------
(* The invariant, over a list of entries and the histories here. *)

Histories == [Sequences -> {<<>>} \cup {<<v>> : v \in VisitType}]
Present(h) == {q \in Sequences : h[q] # <<>>}
WithNode(h, node) == {q \in Present(h) : h[q][1].node = node}

AllPlaced(list, h) == \A q \in Present(h) : Placed(list, h[q][1])

NearOneOnly(list) == \A o \in Observations : Cardinality(Near(list, o)) <= 1

CountsOf(list, h) ==
    \A i \in DOMAIN list : list[i].visitCount = Cardinality(WithNode(h, list[i].observation))

(* While histories come and go no entry is deleted, so a mapping in which   *)
(* observations are near to one entry only has always been one.             *)
IInv ==
    /\ entries \in Entries /\ Distinct(entries)
    /\ history \in Histories
    /\ pruned \in BOOLEAN
    /\ toPrune \subseteq NodesOf(entries)
    /\ toPrune # {} => pruned
    /\ AllPlaced(entries, history)
    /\ totalVisitCount = VisitsIn(entries)
    /\ ~pruned => totalVisitCount = Cardinality(Present(history))
    /\ ~pruned /\ NearOneOnly(entries) => CountsOf(entries, history)

LEMMA PresentVisits ==
    ASSUME NEW h \in Histories, NEW q \in Present(h)
    PROVE  h[q][1] \in VisitType /\ h[q][1].observation \in Observations
                                /\ h[q][1].node \in Observations
<1>1. PICK v \in VisitType : h[q] = <<v>>
  BY DEF Histories, Present
<1>2. h[q][1] = v
  BY <1>1
<1> QED
  BY <1>2 DEF VisitType

LEMMA VisitFields ==
    ASSUME NEW o \in Observations, NEW node \in Observations, NEW x, x = Visit(o, node)
    PROVE  /\ x \in {<<v>> : v \in VisitType} /\ x # <<>>
           /\ x[1].observation = o /\ x[1].node = node
<1> DEFINE v == [observation |-> o, node |-> node]
<1>1. v \in VisitType /\ v.observation = o /\ v.node = node
  BY DEF VisitType
<1>2. x = <<v>>
  BY DEF Visit
<1> HIDE DEF v
<1>3. x # <<>> /\ x[1] = v
  BY <1>2
<1> QED
  BY <1>1, <1>2, <1>3

LEMMA PresentFinite ==
    ASSUME NEW h
    PROVE  /\ IsFiniteSet(Present(h)) /\ Cardinality(Present(h)) \in Nat
           /\ \A node : /\ IsFiniteSet(WithNode(h, node))
                        /\ Cardinality(WithNode(h, node)) \in Nat
<1>1. IsFiniteSet(Present(h))
  BY FinitenessAssumption, FS_Subset DEF Present
<1>2. \A node : IsFiniteSet(WithNode(h, node))
  BY <1>1, FS_Subset DEF WithNode
<1> QED
  BY <1>1, <1>2, FS_CardinalityType

(* What is near stays near to the entries that keep their observations. *)
LEMMA StaysPlaced ==
    ASSUME NEW list, NEW m, NEW visit, Placed(list, visit),
           \A i \in DOMAIN list : list[i].observation = visit.node =>
              \E k \in DOMAIN m : m[k].observation = list[i].observation
    PROVE  Placed(m, visit)
<1>1. PICK i \in DOMAIN list : /\ Distance[list[i].observation][visit.observation] <= MaxDistance
                              /\ list[i].observation = visit.node
  BY DEF Placed, Near
<1>2. PICK k \in DOMAIN m : m[k].observation = list[i].observation
  BY <1>1
<1>3. k \in Near(m, visit.observation)
  BY <1>1, <1>2 DEF Near
<1> QED
  BY <1>1, <1>2, <1>3 DEF Placed

LEMMA NearFinite ==
    ASSUME NEW list \in Entries, NEW o
    PROVE  IsFiniteSet(Near(list, o))
<1>1. Len(list) \in Nat /\ DOMAIN list = 1..Len(list)
  BY EntryFields
<1>2. IsFiniteSet(1..Len(list))
  BY <1>1, FS_Interval
<1>3. Near(list, o) \subseteq 1..Len(list)
  BY <1>1 DEF Near
<1> QED
  BY <1>2, <1>3, FS_Subset

LEMMA NearOneBefore ==
    ASSUME NEW list \in Entries, NEW m \in Entries,
           \A o \in Observations : Near(list, o) \subseteq Near(m, o),
           NearOneOnly(m)
    PROVE  NearOneOnly(list)
<1> SUFFICES ASSUME NEW o \in Observations PROVE Cardinality(Near(list, o)) <= 1
  BY DEF NearOneOnly
<1>1. IsFiniteSet(Near(m, o)) /\ IsFiniteSet(Near(list, o)) /\ Near(list, o) \in SUBSET Near(m, o)
  BY NearFinite
<1>2. Cardinality(Near(list, o)) <= Cardinality(Near(m, o)) /\ Cardinality(Near(m, o)) <= 1
  BY <1>1, FS_Subset DEF NearOneOnly
<1>3. Cardinality(Near(list, o)) \in Nat /\ Cardinality(Near(m, o)) \in Nat
  BY <1>1, FS_CardinalityType
<1> QED
  BY <1>2, <1>3

LEMMA NearTheSame ==
    ASSUME NEW list \in Entries, NearOneOnly(list), NEW o \in Observations,
           NEW i \in Near(list, o), NEW j \in Near(list, o)
    PROVE  i = j
<1>1. IsFiniteSet(Near(list, o)) /\ Cardinality(Near(list, o)) <= 1
  BY NearFinite DEF NearOneOnly
<1>2. Cardinality(Near(list, o)) \in Nat
  BY <1>1, FS_CardinalityType
<1>3. Cardinality(Near(list, o)) # 0
  BY <1>1, FS_EmptySet
<1>4. Cardinality(Near(list, o)) = 1
  BY <1>1, <1>2, <1>3
<1>5. PICK x : Near(list, o) = {x}
  BY <1>1, <1>4, FS_Singleton
<1> QED
  BY <1>5

(* The entry an observation belongs to is that of the node it was sent to,  *)
(* if it is near to no other.                                               *)
LEMMA PlacedAtEntryFound ==
    ASSUME NEW list \in Entries, NEW visit, visit.observation \in Observations,
           Placed(list, visit)
    PROVE  /\ Near(list, visit.observation) # {}
           /\ GetEntry(list, visit.observation) # 0
           /\ GetEntry(list, visit.observation) \in DOMAIN list
           /\ NearOneOnly(list) =>
                 list[GetEntry(list, visit.observation)].observation = visit.node
<1>1. PICK i \in Near(list, visit.observation) : list[i].observation = visit.node
  BY DEF Placed
<1>2. /\ GetEntry(list, visit.observation) \in Near(list, visit.observation)
      /\ GetEntry(list, visit.observation) # 0
  BY <1>1, GetEntryFinds
<1>3. GetEntry(list, visit.observation) \in DOMAIN list
  BY <1>2 DEF Near
<1> QED
  BY <1>1, <1>2, <1>3, NearTheSame

(* A history that comes, and one that goes. *)
Comes(h, q, o, node, g) == g = [h EXCEPT ![q] = Visit(o, node)]
Goes(h, q, g) == g = [h EXCEPT ![q] = <<>>]

LEMMA OneComes ==
    ASSUME NEW h \in Histories, NEW q \in Sequences \ Present(h),
           NEW o \in Observations, NEW node \in Observations,
           NEW g, Comes(h, q, o, node, g)
    PROVE  /\ g \in Histories /\ Present(g) = Present(h) \cup {q}
           /\ Cardinality(Present(g)) = Cardinality(Present(h)) + 1
           /\ g[q][1].observation = o /\ g[q][1].node = node
           /\ \A r \in Present(h) : g[r] = h[r]
           /\ \A n : Cardinality(WithNode(g, n))
                     = Cardinality(WithNode(h, n)) + (IF n = node THEN 1 ELSE 0)
<1> DEFINE x == Visit(o, node)
<1>1. /\ x \in {<<v>> : v \in VisitType} /\ x # <<>>
      /\ x[1].observation = o /\ x[1].node = node
  BY VisitFields
<1> HIDE DEF x
<1>2. g = [h EXCEPT ![q] = x]
  BY DEF x, Comes
<1>3. g \in Histories /\ g[q] = x /\ \A r \in Sequences : r # q => g[r] = h[r]
  BY <1>1, <1>2 DEF Histories
<1>4. Present(g) = Present(h) \cup {q}
  BY <1>1, <1>3 DEF Present
<1>5. \A r \in Present(h) : r # q /\ r \in Sequences
  BY DEF Present
<1>6. Cardinality(Present(g)) = Cardinality(Present(h)) + 1
  BY <1>4, PresentFinite, FS_AddElement
<1>7. ASSUME NEW n
      PROVE  Cardinality(WithNode(g, n)) = Cardinality(WithNode(h, n)) + (IF n = node THEN 1 ELSE 0)
  <2>1. IsFiniteSet(WithNode(h, n)) /\ q \notin WithNode(h, n) /\ Cardinality(WithNode(h, n)) \in Nat
    BY PresentFinite DEF WithNode
  <2>2. /\ q \in Present(g) /\ g[q][1].node = node
        /\ \A r \in Present(g) : r # q => r \in Present(h) /\ g[r] = h[r]
        /\ \A r \in Present(h) : r # q /\ r \in Present(g) /\ g[r] = h[r]
    BY <1>1, <1>3, <1>4, <1>5
  <2>3. CASE n = node
    <3>1. WithNode(g, n) = WithNode(h, n) \cup {q}
      BY <2>2, <2>3 DEF WithNode
    <3>2. Cardinality(WithNode(h, n) \cup {q}) = Cardinality(WithNode(h, n)) + 1
      BY <2>1, FS_AddElement
    <3> QED
      BY <2>3, <3>1, <3>2
  <2>4. CASE n # node
    <3>1. WithNode(g, n) = WithNode(h, n)
      BY <2>2, <2>4 DEF WithNode
    <3> QED
      BY <2>1, <2>4, <3>1
  <2> QED
    BY <2>3, <2>4
<1> QED
  BY <1>1, <1>3, <1>4, <1>5, <1>6, <1>7

LEMMA OneGoes ==
    ASSUME NEW h \in Histories, NEW q \in Present(h),
           NEW g, Goes(h, q, g)
    PROVE  /\ g \in Histories /\ Present(g) = Present(h) \ {q}
           /\ Cardinality(Present(g)) = Cardinality(Present(h)) - 1
           /\ \A r \in Present(g) : g[r] = h[r]
           /\ \A n : Cardinality(WithNode(g, n))
                     = Cardinality(WithNode(h, n)) + (IF n = h[q][1].node THEN -1 ELSE 0)
<1>1. q \in Sequences
  BY DEF Present
<1>2. g \in Histories /\ g[q] = <<>> /\ \A r \in Sequences : r # q => g[r] = h[r]
  BY <1>1 DEF Histories, Goes
<1>3. Present(g) = Present(h) \ {q}
  BY <1>1, <1>2 DEF Present
<1>4. \A r \in Present(g) : g[r] = h[r]
  BY <1>2, <1>3 DEF Present
<1>5. Cardinality(Present(g)) = Cardinality(Present(h)) - 1
  BY <1>3, PresentFinite, FS_RemoveElement
<1>6. ASSUME NEW n
      PROVE  Cardinality(WithNode(g, n))
               = Cardinality(WithNode(h, n)) + (IF n = h[q][1].node THEN -1 ELSE 0)
  <2>1. IsFiniteSet(WithNode(h, n)) /\ Cardinality(WithNode(h, n)) \in Nat
    BY PresentFinite
  <2>2. WithNode(g, n) = WithNode(h, n) \ {q}
    BY <1>3, <1>4 DEF WithNode
  <2>3. q \in WithNode(h, n) <=> n = h[q][1].node
    BY DEF WithNode
  <2>4. Cardinality(WithNode(h, n) \ {q})
          = IF q \in WithNode(h, n) THEN Cardinality(WithNode(h, n)) - 1
                                    ELSE Cardinality(WithNode(h, n))
    BY <2>1, FS_RemoveElement
  <2>5. CASE n = h[q][1].node
    <3>1. Cardinality(WithNode(g, n)) = Cardinality(WithNode(h, n)) - 1
      BY <2>2, <2>3, <2>4, <2>5
    <3> QED
      BY <2>1, <2>5, <3>1
  <2>6. CASE n # h[q][1].node
    <3>1. Cardinality(WithNode(g, n)) = Cardinality(WithNode(h, n))
      BY <2>2, <2>3, <2>4, <2>6
    <3> QED
      BY <2>1, <2>6, <3>1
  <2> QED
    BY <2>5, <2>6
<1> QED
  BY <1>2, <1>3, <1>4, <1>5, <1>6

-----------------------------------------------------------------------------
(* The steps. *)

LEMMA InitOK == Init => IInv
<1> SUFFICES ASSUME Init PROVE IInv
  OBVIOUS
<1>1. entries = <<>> /\ totalVisitCount = 0 /\ pruned = FALSE /\ toPrune = {}
      /\ history = [q \in Sequences |-> <<>>]
  BY DEF Init
<1>2. entries \in Entries /\ DOMAIN entries = {}
  BY <1>1 DEF Entries
<1>3. Present(history) = {} /\ history \in Histories
  BY <1>1 DEF Present, Histories
<1>4. Cardinality(Present(history)) = 0
  BY <1>3, FS_EmptySet
<1>5. Distinct(entries) /\ AllPlaced(entries, history) /\ CountsOf(entries, history)
  BY <1>2, <1>3 DEF Distinct, AllPlaced, CountsOf
<1>6. totalVisitCount = VisitsIn(entries)
  BY <1>1, SumOfNone
<1> QED
  BY <1>1, <1>2, <1>3, <1>4, <1>5, <1>6 DEF IInv

(* An entry more, if the observation is near to none.                       *)
LEMMA EntriesGrow ==
    ASSUME NEW list \in Entries, Distinct(list), NEW o \in Observations,
           NEW h \in Histories, AllPlaced(list, h),
           NEW m, m = WithChild(list, o)
    PROVE  /\ m \in Entries /\ Distinct(m) /\ VisitsIn(m) = VisitsIn(list)
           /\ Near(m, o) # {} /\ GetEntry(m, o) \in DOMAIN m
           /\ NodeOf(m, o) \in Observations
           /\ NodesOf(list) \subseteq NodesOf(m)
           /\ AllPlaced(m, h)
           /\ NearOneOnly(m) => NearOneOnly(list)
           /\ CountsOf(list, h) => CountsOf(m, h)
<1>1. /\ m \in Entries /\ Distinct(m) /\ VisitsIn(m) = VisitsIn(list) /\ Near(m, o) # {}
      /\ DOMAIN list \subseteq DOMAIN m /\ \A i \in DOMAIN list : m[i] = list[i]
      /\ \A i \in DOMAIN m \ DOMAIN list : m[i] = NewEntry(o) /\ o \notin NodesOf(list)
  BY WithChildFacts
<1>2. GetEntry(m, o) \in DOMAIN m
  BY <1>1, GetEntryFinds DEF Near
<1>3. NodeOf(m, o) \in Observations
  BY <1>1, <1>2, EntryFields DEF NodeOf
<1>4. NodesOf(list) \subseteq NodesOf(m)
  BY <1>1 DEF NodesOf
<1>5. AllPlaced(m, h)
  <2> SUFFICES ASSUME NEW q \in Present(h) PROVE Placed(m, h[q][1])
    BY DEF AllPlaced
  <2>1. Placed(list, h[q][1])
    BY DEF AllPlaced
  <2>2. \A i \in DOMAIN list : \E k \in DOMAIN m : m[k].observation = list[i].observation
    BY <1>1
  <2> QED
    BY <2>1, <2>2, StaysPlaced
<1>6. \A p \in Observations : Near(list, p) \subseteq Near(m, p)
  BY <1>1 DEF Near
<1>7. NearOneOnly(m) => NearOneOnly(list)
  BY <1>1, <1>6, NearOneBefore
<1>8. ASSUME CountsOf(list, h), NEW i \in DOMAIN m
      PROVE  m[i].visitCount = Cardinality(WithNode(h, m[i].observation))
  <2>1. CASE i \in DOMAIN list
    BY <1>1, <1>8, <2>1 DEF CountsOf
  <2>2. CASE i \notin DOMAIN list
    <3>1. m[i].observation = o /\ m[i].visitCount = 0 /\ o \notin NodesOf(list)
      BY <1>1, <2>2 DEF NewEntry
    <3>2. \A q \in Present(h) : h[q][1].node \in NodesOf(list)
      BY DEF AllPlaced, Placed, Near, NodesOf
    <3>3. WithNode(h, o) = {}
      BY <3>1, <3>2 DEF WithNode
    <3>4. Cardinality(WithNode(h, o)) = 0
      BY <3>3, FS_EmptySet
    <3> QED
      BY <3>1, <3>4
  <2> QED
    BY <2>1, <2>2
<1> QED
  BY <1>1, <1>2, <1>3, <1>4, <1>5, <1>7, <1>8 DEF CountsOf

(* A visit more or less of an entry. *)
LEMMA EntriesCounted ==
    ASSUME NEW list \in Entries, Distinct(list), NEW o \in Observations,
           Near(list, o) # {}, NEW d \in Int, NEW m, m = Updated(list, o, d)
    PROVE  /\ m \in Entries /\ Distinct(m) /\ VisitsIn(m) = VisitsIn(list) + d
           /\ DOMAIN m = DOMAIN list
           /\ NodesOf(m) = NodesOf(list)
           /\ \A visit : Placed(list, visit) => Placed(m, visit)
           /\ \A p : Near(m, p) = Near(list, p) /\ GetEntry(m, p) = GetEntry(list, p)
           /\ NearOneOnly(m) => NearOneOnly(list)
           /\ \A i \in DOMAIN list :
                 /\ m[i].observation = list[i].observation
                 /\ m[i].visitCount = list[i].visitCount
                        + (IF list[i].observation = NodeOf(list, o) THEN d ELSE 0)
<1>1. /\ m \in Entries /\ Distinct(m) /\ SameObservations(list, m)
      /\ VisitsIn(m) = VisitsIn(list) + d
      /\ \A i \in DOMAIN list : m[i].visitCount
            = list[i].visitCount + (IF i = GetEntry(list, o) THEN d ELSE 0)
  BY UpdatedFacts
<1>2. GetEntry(list, o) \in DOMAIN list
  BY GetEntryFinds DEF Near
<1>3. \A i \in DOMAIN list : i = GetEntry(list, o) <=> list[i].observation = NodeOf(list, o)
  BY <1>2 DEF NodeOf, Distinct
<1>4. DOMAIN m = DOMAIN list /\ \A i \in DOMAIN list : m[i].observation = list[i].observation
  BY <1>1 DEF SameObservations
<1>5. NodesOf(m) = NodesOf(list)
  BY <1>4 DEF NodesOf
<1>6. \A visit : Placed(list, visit) => Placed(m, visit)
  BY <1>4, StaysPlaced
<1>7. \A p : Near(m, p) = Near(list, p) /\ GetEntry(m, p) = GetEntry(list, p)
  BY <1>1, SameEntryFound
<1>8. NearOneOnly(m) => NearOneOnly(list)
  BY <1>7 DEF NearOneOnly
<1>9. ASSUME NEW i \in DOMAIN list
      PROVE  m[i].visitCount = list[i].visitCount
                + (IF list[i].observation = NodeOf(list, o) THEN d ELSE 0)
  BY <1>1, <1>3
<1> QED
  BY <1>1, <1>4, <1>5, <1>6, <1>7, <1>8, <1>9

LEMMA SearchStep ==
    ASSUME IInv, NEW q \in Sequences, NEW o \in Observations, Search(q, o)
    PROVE  IInv'
<1> DEFINE m == WithChild(entries, o)
           node == NodeOf(m, o)
<1>1. /\ entries \in Entries /\ Distinct(entries) /\ history \in Histories
      /\ AllPlaced(entries, history) /\ totalVisitCount = VisitsIn(entries)
      /\ totalVisitCount = Cardinality(Present(history))
      /\ NearOneOnly(entries) => CountsOf(entries, history)
      /\ toPrune \subseteq NodesOf(entries) /\ pruned = FALSE /\ toPrune = {}
  BY DEF IInv, Search
<1>2. /\ q \in Sequences \ Present(history)
      /\ entries' = Updated(m, o, 1)
      /\ history' = [history EXCEPT ![q] = Visit(o, node)]
      /\ totalVisitCount' = totalVisitCount + 1
      /\ pruned' = pruned /\ toPrune' = toPrune
  BY DEF Search, Here, Present
<1>3. /\ m \in Entries /\ Distinct(m) /\ VisitsIn(m) = VisitsIn(entries)
      /\ Near(m, o) # {} /\ GetEntry(m, o) \in DOMAIN m /\ node \in Observations
      /\ NodesOf(entries) \subseteq NodesOf(m) /\ AllPlaced(m, history)
      /\ NearOneOnly(m) => NearOneOnly(entries)
      /\ CountsOf(entries, history) => CountsOf(m, history)
  BY <1>1, EntriesGrow
<1>4. m[GetEntry(m, o)].observation = node /\ GetEntry(m, o) \in Near(m, o)
  BY <1>3, GetEntryFinds DEF NodeOf
<1> HIDE DEF m, node
<1>5. /\ entries' \in Entries /\ Distinct(entries')
      /\ VisitsIn(entries') = VisitsIn(m) + 1
      /\ DOMAIN entries' = DOMAIN m /\ NodesOf(entries') = NodesOf(m)
      /\ \A visit : Placed(m, visit) => Placed(entries', visit)
      /\ NearOneOnly(entries') => NearOneOnly(m)
      /\ \A i \in DOMAIN m :
            /\ entries'[i].observation = m[i].observation
            /\ entries'[i].visitCount = m[i].visitCount
                   + (IF m[i].observation = node THEN 1 ELSE 0)
  BY <1>2, <1>3, EntriesCounted DEF node
<1>6. /\ history' \in Histories /\ Present(history') = Present(history) \cup {q}
      /\ Cardinality(Present(history')) = Cardinality(Present(history)) + 1
      /\ history'[q][1].observation = o /\ history'[q][1].node = node
      /\ \A r \in Present(history) : history'[r] = history[r]
      /\ \A n : Cardinality(WithNode(history', n))
                = Cardinality(WithNode(history, n)) + (IF n = node THEN 1 ELSE 0)
  <2>1. /\ history \in Histories /\ q \in Sequences \ Present(history)
        /\ o \in Observations /\ node \in Observations
        /\ Comes(history, q, o, node, history')
    BY <1>1, <1>2, <1>3 DEF Comes
  <2> QED
    BY <2>1, OneComes
<1>7. AllPlaced(entries', history')
  <2> SUFFICES ASSUME NEW r \in Present(history') PROVE Placed(entries', history'[r][1])
    BY DEF AllPlaced
  <2>1. CASE r \in Present(history)
    BY <1>3, <1>5, <1>6, <2>1 DEF AllPlaced
  <2>2. CASE r = q
    <3>1. Placed(m, history'[q][1])
      BY <1>4, <1>6 DEF Placed
    <3> QED
      BY <1>5, <2>2, <3>1
  <2> QED
    BY <1>6, <2>1, <2>2
<1>8. NearOneOnly(entries') => CountsOf(entries', history')
  BY <1>1, <1>3, <1>5, <1>6 DEF CountsOf
<1>9. totalVisitCount' = VisitsIn(entries') /\ totalVisitCount' = Cardinality(Present(history'))
  BY <1>1, <1>2, <1>3, <1>5, <1>6
<1>10. toPrune' \subseteq NodesOf(entries') /\ pruned' \in BOOLEAN /\ (toPrune' # {} => pruned')
  BY <1>1, <1>2, <1>3, <1>5
<1> QED
  BY <1>5, <1>6, <1>7, <1>8, <1>9, <1>10 DEF IInv

LEMMA NegateStep ==
    ASSUME IInv, NEW q \in Sequences, Negate(q)
    PROVE  IInv'
<1> DEFINE visit == history[q][1]
           o == visit.observation
<1>1. /\ entries \in Entries /\ Distinct(entries) /\ history \in Histories
      /\ AllPlaced(entries, history) /\ totalVisitCount = VisitsIn(entries)
      /\ ~pruned => totalVisitCount = Cardinality(Present(history))
      /\ ~pruned /\ NearOneOnly(entries) => CountsOf(entries, history)
      /\ toPrune \subseteq NodesOf(entries) /\ pruned \in BOOLEAN
  BY DEF IInv
<1>2. /\ q \in Present(history)
      /\ entries' = Updated(entries, o, -1)
      /\ history' = [history EXCEPT ![q] = <<>>]
      /\ totalVisitCount' = totalVisitCount - 1
      /\ pruned' = pruned /\ toPrune' = toPrune /\ toPrune = {}
  BY DEF Negate, Here, Present
<1>3. o \in Observations /\ Placed(entries, visit)
  BY <1>1, <1>2, PresentVisits DEF AllPlaced
<1> HIDE DEF visit
<1>4. Near(entries, o) # {} /\ (NearOneOnly(entries) => NodeOf(entries, o) = visit.node)
  BY <1>1, <1>3, PlacedAtEntryFound DEF NodeOf
<1>5. /\ entries' \in Entries /\ Distinct(entries')
      /\ VisitsIn(entries') = VisitsIn(entries) + -1
      /\ DOMAIN entries' = DOMAIN entries /\ NodesOf(entries') = NodesOf(entries)
      /\ \A v : Placed(entries, v) => Placed(entries', v)
      /\ NearOneOnly(entries') => NearOneOnly(entries)
      /\ \A i \in DOMAIN entries :
            /\ entries'[i].observation = entries[i].observation
            /\ entries'[i].visitCount = entries[i].visitCount
                   + (IF entries[i].observation = NodeOf(entries, o) THEN -1 ELSE 0)
  BY <1>1, <1>2, <1>3, <1>4, EntriesCounted
<1>6. /\ history' \in Histories /\ Present(history') = Present(history) \ {q}
      /\ Cardinality(Present(history')) = Cardinality(Present(history)) - 1
      /\ \A r \in Present(history') : history'[r] = history[r]
      /\ \A n : Cardinality(WithNode(history', n))
                = Cardinality(WithNode(history, n)) + (IF n = visit.node THEN -1 ELSE 0)
  <2>1. /\ history \in Histories /\ q \in Present(history)
        /\ Goes(history, q, history')
    BY <1>1, <1>2 DEF Goes
  <2> QED
    BY <2>1, OneGoes DEF visit
<1>7. AllPlaced(entries', history')
  <2> SUFFICES ASSUME NEW r \in Present(history') PROVE Placed(entries', history'[r][1])
    BY DEF AllPlaced
  <2>1. r \in Present(history) /\ history'[r] = history[r]
    BY <1>6
  <2>2. Placed(entries, history[r][1])
    BY <1>1, <2>1 DEF AllPlaced
  <2> QED
    BY <1>5, <2>1, <2>2
<1>8. ASSUME ~pruned', NearOneOnly(entries')
      PROVE  CountsOf(entries', history')
  <2>1. CountsOf(entries, history) /\ NodeOf(entries, o) = visit.node
    BY <1>1, <1>2, <1>4, <1>5, <1>8
  <2> SUFFICES ASSUME NEW i \in DOMAIN entries
               PROVE  entries'[i].visitCount
                        = Cardinality(WithNode(history', entries'[i].observation))
    BY <1>5 DEF CountsOf
  <2> DEFINE n == entries[i].observation
             one == IF n = visit.node THEN -1 ELSE 0
  <2>2. entries'[i].observation = n /\ entries'[i].visitCount = entries[i].visitCount + one
    BY <1>5, <2>1
  <2>3. Cardinality(WithNode(history', n)) = Cardinality(WithNode(history, n)) + one
    BY <1>6
  <2>4. entries[i].visitCount = Cardinality(WithNode(history, n))
    BY <2>1 DEF CountsOf
  <2> HIDE DEF n, one
  <2> QED
    BY <2>2, <2>3, <2>4
<1>9. VisitsIn(entries) \in Int
  <2>1. Len(entries) \in 0..Len(entries)
    BY <1>1, EntryFields
  <2> QED
    BY <1>1, <2>1, PartialSumsExist, VisitsInIsSum
<1>10. totalVisitCount' = VisitsIn(entries')
       /\ (~pruned' => totalVisitCount' = Cardinality(Present(history')))
  BY <1>1, <1>2, <1>5, <1>6, <1>9
<1>11. toPrune' \subseteq NodesOf(entries') /\ pruned' \in BOOLEAN /\ (toPrune' # {} => pruned')
  BY <1>1, <1>2, <1>5
<1> QED
  BY <1>5, <1>6, <1>7, <1>8, <1>10, <1>11 DEF IInv

(* A history is undone, and counted again at the entry where it was. *)
LEMMA ReviseStep ==
    ASSUME IInv, NEW q \in Sequences, NEW o \in Observations, Revise(q, o)
    PROVE  IInv'
<1> DEFINE visit == history[q][1]
           old == visit.observation
           node == NodeOf(entries, o)
           without == Updated(entries, old, -1)
           gone == [history EXCEPT ![q] = <<>>]
<1>1. /\ entries \in Entries /\ Distinct(entries) /\ history \in Histories
      /\ AllPlaced(entries, history) /\ totalVisitCount = VisitsIn(entries)
      /\ ~pruned => totalVisitCount = Cardinality(Present(history))
      /\ ~pruned /\ NearOneOnly(entries) => CountsOf(entries, history)
      /\ toPrune \subseteq NodesOf(entries) /\ pruned \in BOOLEAN
  BY DEF IInv
<1>2. /\ q \in Present(history) /\ GetEntry(entries, o) = GetEntry(entries, old)
      /\ entries' = Updated(without, o, 1)
      /\ history' = [history EXCEPT ![q] = Visit(o, node)]
      /\ totalVisitCount' = totalVisitCount
      /\ pruned' = pruned /\ toPrune' = toPrune /\ toPrune = {}
  BY DEF Revise, Here, Present
<1>3. old \in Observations /\ Placed(entries, visit)
  BY <1>1, <1>2, PresentVisits DEF AllPlaced
<1> HIDE DEF visit
<1>4. /\ Near(entries, old) # {} /\ GetEntry(entries, old) # 0
      /\ NearOneOnly(entries) => NodeOf(entries, old) = visit.node
  BY <1>1, <1>3, PlacedAtEntryFound DEF NodeOf
<1>5. /\ Near(entries, o) # {} /\ GetEntry(entries, o) \in Near(entries, o)
      /\ NodeOf(entries, old) = node
  <2>1. GetEntry(entries, o) # 0
    BY <1>2, <1>4
  <2> QED
    BY <1>1, <1>2, <2>1, GetEntryFinds DEF NodeOf
<1>6. node \in Observations /\ Placed(entries, [observation |-> o, node |-> node])
  <2>1. GetEntry(entries, o) \in DOMAIN entries
    BY <1>5 DEF Near
  <2>2. node = entries[GetEntry(entries, o)].observation
    BY DEF NodeOf
  <2>3. node \in Observations
    BY <1>1, <2>1, <2>2, EntryFields
  <2>4. \A x : x.observation = o /\ x.node = node => Placed(entries, x)
    BY <1>5, <2>2 DEF Placed
  <2> QED
    BY <2>3, <2>4
<1> HIDE DEF node, without, gone, old
<1>7. /\ without \in Entries /\ Distinct(without)
      /\ VisitsIn(without) = VisitsIn(entries) + -1
      /\ DOMAIN without = DOMAIN entries /\ NodesOf(without) = NodesOf(entries)
      /\ \A v : Placed(entries, v) => Placed(without, v)
      /\ \A p : Near(without, p) = Near(entries, p) /\ GetEntry(without, p) = GetEntry(entries, p)
      /\ NearOneOnly(without) => NearOneOnly(entries)
      /\ \A i \in DOMAIN entries :
            /\ without[i].observation = entries[i].observation
            /\ without[i].visitCount = entries[i].visitCount
                   + (IF entries[i].observation = node THEN -1 ELSE 0)
  <2>1. without = Updated(entries, old, -1) /\ -1 \in Int
    BY DEF without
  <2> QED
    BY <1>1, <1>3, <1>4, <1>5, <2>1, EntriesCounted
<1>8. NodeOf(without, o) = node
  <2>1. GetEntry(entries, o) \in DOMAIN entries
    BY <1>5 DEF Near
  <2> QED
    BY <1>7, <2>1 DEF NodeOf, node
<1>9. /\ entries' \in Entries /\ Distinct(entries')
      /\ VisitsIn(entries') = VisitsIn(without) + 1
      /\ DOMAIN entries' = DOMAIN entries /\ NodesOf(entries') = NodesOf(entries)
      /\ \A v : Placed(entries, v) => Placed(entries', v)
      /\ NearOneOnly(entries') => NearOneOnly(entries)
      /\ \A i \in DOMAIN entries :
            /\ entries'[i].observation = entries[i].observation
            /\ entries'[i].visitCount = without[i].visitCount
                   + (IF entries[i].observation = node THEN 1 ELSE 0)
  <2>1. /\ entries' \in Entries /\ Distinct(entries')
        /\ VisitsIn(entries') = VisitsIn(without) + 1
        /\ DOMAIN entries' = DOMAIN without
        /\ NodesOf(entries') = NodesOf(without)
        /\ \A v : Placed(without, v) => Placed(entries', v)
        /\ NearOneOnly(entries') => NearOneOnly(without)
        /\ \A i \in DOMAIN without :
              /\ entries'[i].observation = without[i].observation
              /\ entries'[i].visitCount = without[i].visitCount
                     + (IF without[i].observation = node THEN 1 ELSE 0)
    <3>1. Near(without, o) # {}
      BY <1>5, <1>7
    <3> QED
      BY <1>2, <1>7, <1>8, <3>1, EntriesCounted
  <2> QED
    BY <1>7, <2>1
<1>10. VisitsIn(entries') = VisitsIn(entries)
  <2>1. Len(entries) \in 0..Len(entries)
    BY <1>1, EntryFields
  <2>2. VisitsIn(entries) \in Int
    BY <1>1, <2>1, PartialSumsExist, VisitsInIsSum
  <2> QED
    BY <1>7, <1>9, <2>2
<1>11. \A i \in DOMAIN entries : entries'[i].visitCount = entries[i].visitCount
  <2> SUFFICES ASSUME NEW i \in DOMAIN entries
               PROVE  entries'[i].visitCount = entries[i].visitCount
    OBVIOUS
  <2>1. entries[i].visitCount \in Int
    BY <1>1, EntryFields
  <2>2. CASE entries[i].observation = node
    BY <1>7, <1>9, <2>1, <2>2
  <2>3. CASE entries[i].observation # node
    BY <1>7, <1>9, <2>1, <2>3
  <2> QED
    BY <2>2, <2>3
<1>12. /\ gone \in Histories /\ Present(gone) = Present(history) \ {q}
       /\ Cardinality(Present(gone)) = Cardinality(Present(history)) - 1
       /\ \A r \in Present(gone) : gone[r] = history[r]
       /\ \A n : Cardinality(WithNode(gone, n))
                 = Cardinality(WithNode(history, n)) + (IF n = visit.node THEN -1 ELSE 0)
  <2>1. Goes(history, q, gone)
    BY DEF Goes, gone
  <2> QED
    BY <1>1, <1>2, <2>1, OneGoes DEF visit
<1>13. /\ history' \in Histories /\ Present(history') = Present(gone) \cup {q}
       /\ Cardinality(Present(history')) = Cardinality(Present(gone)) + 1
       /\ history'[q][1].observation = o /\ history'[q][1].node = node
       /\ \A r \in Present(gone) : history'[r] = gone[r]
       /\ \A n : Cardinality(WithNode(history', n))
                 = Cardinality(WithNode(gone, n)) + (IF n = node THEN 1 ELSE 0)
  <2>1. history' = [gone EXCEPT ![q] = Visit(o, node)]
    <3>1. history \in [Sequences -> {<<>>} \cup {<<v>> : v \in VisitType}] /\ q \in Sequences
      BY <1>1 DEF Histories
    <3> QED
      BY <1>2, <3>1 DEF gone
  <2>2. q \in Sequences \ Present(gone)
    BY <1>12
  <2>3. gone \in Histories /\ node \in Observations /\ Comes(gone, q, o, node, history')
    BY <1>6, <1>12, <2>1 DEF Comes
  <2> QED
    BY <2>2, <2>3, OneComes
<1>14. AllPlaced(entries', history')
  <2> SUFFICES ASSUME NEW r \in Present(history') PROVE Placed(entries', history'[r][1])
    BY DEF AllPlaced
  <2>1. CASE r = q
    <3>1. Placed(entries, history'[q][1])
      BY <1>6, <1>13 DEF Placed
    <3> QED
      BY <1>9, <2>1, <3>1
  <2>2. CASE r # q
    <3>1. r \in Present(history) /\ history'[r] = history[r]
      BY <1>12, <1>13, <2>2
    <3>2. Placed(entries, history[r][1])
      BY <1>1, <3>1 DEF AllPlaced
    <3> QED
      BY <1>9, <3>1, <3>2
  <2> QED
    BY <2>1, <2>2
<1>15. Cardinality(Present(history')) = Cardinality(Present(history))
  BY <1>12, <1>13, PresentFinite
<1>16. ASSUME ~pruned', NearOneOnly(entries')
       PROVE  CountsOf(entries', history')
  <2>1. CountsOf(entries, history) /\ visit.node = node
    BY <1>1, <1>2, <1>4, <1>5, <1>9, <1>16
  <2>2. \A n : Cardinality(WithNode(history', n)) = Cardinality(WithNode(history, n))
    <3> SUFFICES ASSUME NEW n
                 PROVE  Cardinality(WithNode(history', n)) = Cardinality(WithNode(history, n))
      OBVIOUS
    <3>1. Cardinality(WithNode(history, n)) \in Nat
      BY PresentFinite
    <3>2. CASE n = node
      BY <1>12, <1>13, <2>1, <3>1, <3>2
    <3>3. CASE n # node
      BY <1>12, <1>13, <2>1, <3>1, <3>3
    <3> QED
      BY <3>2, <3>3
  <2> QED
    BY <1>9, <1>11, <2>1, <2>2 DEF CountsOf
<1>17. totalVisitCount' = VisitsIn(entries')
       /\ (~pruned' => totalVisitCount' = Cardinality(Present(history')))
  BY <1>1, <1>2, <1>10, <1>15
<1>18. toPrune' \subseteq NodesOf(entries') /\ pruned' \in BOOLEAN /\ (toPrune' # {} => pruned')
  BY <1>1, <1>2, <1>9
<1> QED
  BY <1>9, <1>13, <1>14, <1>16, <1>17, <1>18 DEF IInv

LEMMA UpdateBeliefStep ==
    ASSUME IInv, NEW o \in Observations, UpdateBelief(o)
    PROVE  IInv'
<1>1. /\ entries \in Entries /\ Distinct(entries) /\ history \in Histories
      /\ AllPlaced(entries, history) /\ totalVisitCount = VisitsIn(entries)
      /\ ~pruned => totalVisitCount = Cardinality(Present(history))
      /\ ~pruned /\ NearOneOnly(entries) => CountsOf(entries, history)
      /\ toPrune \subseteq NodesOf(entries) /\ pruned \in BOOLEAN
      /\ toPrune # {} => pruned
  BY DEF IInv
<1>2. /\ entries' = WithChild(entries, o) /\ history' = history
      /\ totalVisitCount' = totalVisitCount /\ pruned' = pruned /\ toPrune' = toPrune
  BY DEF UpdateBelief
<1>3. /\ entries' \in Entries /\ Distinct(entries') /\ VisitsIn(entries') = VisitsIn(entries)
      /\ NodesOf(entries) \subseteq NodesOf(entries')
      /\ AllPlaced(entries', history)
      /\ NearOneOnly(entries') => NearOneOnly(entries)
      /\ CountsOf(entries, history) => CountsOf(entries', history)
  BY <1>1, <1>2, EntriesGrow
<1> QED
  BY <1>1, <1>2, <1>3 DEF IInv

LEMMA PruneSiblingsStep ==
    ASSUME IInv, PruneSiblings
    PROVE  IInv'
<1>1. /\ entries' = entries /\ history' = history /\ totalVisitCount' = totalVisitCount
      /\ pruned' = TRUE /\ toPrune' \subseteq NodesOf(entries)
  BY DEF PruneSiblings, mapVars
<1> QED
  BY <1>1 DEF IInv

(* The entry of the child goes, and with it the histories that went there: *)
(* the others went to nodes that are still there.                          *)
LEMMA PruneSubtreeStep ==
    ASSUME IInv, NEW node \in Observations, PruneSubtree(node)
    PROVE  IInv'
<1> DEFINE i == EntryOf(entries, node)
<1>1. /\ entries \in Entries /\ Distinct(entries) /\ history \in Histories
      /\ AllPlaced(entries, history) /\ totalVisitCount = VisitsIn(entries)
      /\ toPrune \subseteq NodesOf(entries) /\ pruned \in BOOLEAN
      /\ toPrune # {} => pruned
  BY DEF IInv
<1>2. /\ node \in toPrune
      /\ entries' = Deleted(entries, i)
      /\ totalVisitCount' = totalVisitCount - entries[i].visitCount
      /\ history' = [q \in Sequences |-> IF q \in Through(node) THEN <<>> ELSE history[q]]
      /\ toPrune' = toPrune \ {node} /\ pruned' = pruned
  BY DEF PruneSubtree, TotalWithout
<1>3. i \in DOMAIN entries /\ entries[i].observation = node
  <2>1. \E j \in DOMAIN entries : entries[j].observation = node
    BY <1>1, <1>2 DEF NodesOf
  <2> QED
    BY <2>1 DEF EntryOf
<1> HIDE DEF i
<1>4. /\ entries' \in Entries /\ Distinct(entries')
      /\ VisitsIn(entries') = VisitsIn(entries) - entries[i].visitCount
      /\ \A j \in DOMAIN entries : j # i => \E k \in DOMAIN entries' : entries'[k] = entries[j]
  BY <1>1, <1>2, <1>3, DeletedFacts
<1>5. \A j \in DOMAIN entries : entries[j].observation # node =>
          \E k \in DOMAIN entries' : entries'[k].observation = entries[j].observation
  BY <1>3, <1>4
<1>6. toPrune' \subseteq NodesOf(entries') /\ pruned'
  <2>1. \A n \in NodesOf(entries) : n # node => n \in NodesOf(entries')
    BY <1>5 DEF NodesOf
  <2> QED
    BY <1>1, <1>2, <2>1
<1>7. history' \in Histories
  BY <1>1, <1>2 DEF Histories
<1>8. AllPlaced(entries', history')
  <2> SUFFICES ASSUME NEW q \in Present(history') PROVE Placed(entries', history'[q][1])
    BY DEF AllPlaced
  <2>1. /\ q \in Sequences /\ history'[q] = history[q] /\ q \in Present(history)
        /\ history[q][1].node # node
    BY <1>2 DEF Present, Through, Here
  <2>2. Placed(entries, history[q][1])
    BY <1>1, <2>1 DEF AllPlaced
  <2>3. \A j \in DOMAIN entries : entries[j].observation = history[q][1].node =>
            \E k \in DOMAIN entries' : entries'[k].observation = entries[j].observation
    BY <1>5, <2>1
  <2> QED
    BY <2>1, <2>2, <2>3, StaysPlaced
<1>9. totalVisitCount' = VisitsIn(entries')
  BY <1>1, <1>2, <1>4
<1> QED
  BY <1>4, <1>6, <1>7, <1>8, <1>9 DEF IInv

LEMMA NextOK == IInv /\ [Next]_vars => IInv'
<1> SUFFICES ASSUME IInv, [Next]_vars PROVE IInv'
  OBVIOUS
<1>1. CASE PruneSiblings
  BY <1>1, PruneSiblingsStep
<1>2. ASSUME NEW o \in Observations, UpdateBelief(o) PROVE IInv'
  BY <1>2, UpdateBeliefStep
<1>3. ASSUME NEW o \in Observations, PruneSubtree(o) PROVE IInv'
  BY <1>3, PruneSubtreeStep
<1>4. ASSUME NEW q \in Sequences, Negate(q) PROVE IInv'
  BY <1>4, NegateStep
<1>5. ASSUME NEW q \in Sequences, NEW o \in Observations, Search(q, o) PROVE IInv'
  BY <1>5, SearchStep
<1>6. ASSUME NEW q \in Sequences, NEW o \in Observations, Revise(q, o) PROVE IInv'
  BY <1>6, ReviseStep
<1>7. CASE UNCHANGED vars
  BY <1>7 DEF IInv, vars
<1> QED
  BY <1>1, <1>2, <1>3, <1>4, <1>5, <1>6, <1>7 DEF Next

-----------------------------------------------------------------------------
(* The entries, the counts and the histories of a mapping agree in every   *)
(* reachable state (the invariant).                                        *)
THEOREM InvariantHolds == Spec => []IInv
<1>1. Init => IInv
  BY InitOK
<1>2. IInv /\ [Next]_vars => IInv'
  BY NextOK
<1> QED
  BY <1>1, <1>2, PTL DEF Spec

(* Whatever entries are added and deleted meanwhile, getEntry finds an     *)
(* entry for each history that is still here, and the node it went to is   *)
(* there, near to its observation: the updates of a history always have an *)
(* entry to dereference.                                                   *)
THEOREM EntriesFound == Spec => []HistoriesFindEntries
<1>1. IInv => HistoriesFindEntries
  <2> SUFFICES ASSUME IInv, NEW q \in Here
               PROVE  /\ GetEntry(entries, history[q][1].observation) # 0
                      /\ \E i \in Near(entries, history[q][1].observation) :
                            entries[i].observation = history[q][1].node
    BY DEF HistoriesFindEntries
  <2>1. /\ entries \in Entries /\ history \in Histories
        /\ AllPlaced(entries, history) /\ q \in Present(history)
    BY DEF IInv, Here, Present
  <2>2. history[q][1].observation \in Observations /\ Placed(entries, history[q][1])
    BY <2>1, PresentVisits DEF AllPlaced
  <2> QED
    BY <2>1, <2>2, PlacedAtEntryFound DEF Placed
<1> QED
  BY <1>1, InvariantHolds, PTL

(* The total is the sum of the counts, it is the number of histories until *)
(* siblings are pruned, and each count is that of the histories through    *)
(* the node as long as no observation is near to two entries.              *)
THEOREM VisitsAreCounted == Spec => []VisitsFollowHistories
<1>1. IInv => VisitsFollowHistories
  <2> SUFFICES ASSUME IInv PROVE VisitsFollowHistories
    OBVIOUS
  <2>1. /\ totalVisitCount = VisitsIn(entries)
        /\ ~pruned => totalVisitCount = Cardinality(Present(history))
        /\ ~pruned /\ NearOneOnly(entries) => CountsOf(entries, history)
    BY DEF IInv
  <2>2. Here = Present(history) /\ \A n : Through(n) = WithNode(history, n)
    BY DEF Here, Present, Through, WithNode
  <2>3. Unambiguous <=> NearOneOnly(entries)
    BY DEF Unambiguous, NearOneOnly
  <2> QED
    BY <2>1, <2>2, <2>3 DEF VisitsFollowHistories, CountsOf
<1> QED
  BY <1>1, InvariantHolds, PTL
=============================================================================
