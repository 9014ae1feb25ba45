------------------------ MODULE ContainerScanProofs ------------------------
(***************************************************************************)
(* Proofs about ContainerScan for every cluster, every set of specs and    *)
(* every bound: what pruning while ranging does to a list, types, alerts,  *)
(* and the queue.                                                          *)
(***************************************************************************)
EXTENDS ContainerScan, InductionLemmas, SequenceTheorems, FiniteSetTheorems

(***************************************************************************)
(* The list of affected pods                                               *)
(***************************************************************************)

LEMMA MinOfNaturals ==
  ASSUME NEW T, T \subseteq Nat, T # {}
  PROVE  Min(T) \in T /\ \A y \in T : Min(T) <= y
<1>1. \E x \in T : \A y \in T : x <= y
  BY LeastNatural
<1> QED
  BY <1>1, Zenon DEF Min

\* The first a.len places of an array.
LivePart(a) == {a.array[j] : j \in 1..a.len}

\* What holds at each turn of the loop: the front of the array names each pod once,
\* only listed ones, and every listed pod that is not gone.
PassStates(list, gone) ==
  {a \in [array : [1..Len(list) -> Pod], len : 0..Len(list)] :
     /\ \A j, k \in 1..a.len : a.array[j] = a.array[k] => j = k
     /\ ToSet(list) \ gone \subseteq LivePart(a)
     /\ LivePart(a) \subseteq ToSet(list)}

LEMMA VisitKeepsPassStates ==
  ASSUME NEW list \in Seq(Pod), NEW gone, NEW a \in PassStates(list, gone),
         NEW i \in 1..Len(list)
  PROVE  /\ Visit(a, gone, i) \in PassStates(list, gone)
         /\ Visit(a, gone, i) = a \/ Visit(a, gone, i).len < a.len
<1> DEFINE L == Len(list)
           p == a.array[i]
           at == {j \in 1..a.len : a.array[j] = p}
<1>a. /\ a.array \in [1..L -> Pod] /\ a.len \in 0..L /\ L \in Nat
      /\ \A j, k \in 1..a.len : a.array[j] = a.array[k] => j = k
      /\ ToSet(list) \ gone \subseteq LivePart(a) /\ LivePart(a) \subseteq ToSet(list)
      /\ a = [array |-> a.array, len |-> a.len]
  BY DEF PassStates
<1>1. CASE p \notin gone \/ at = {}
  <2>1. Visit(a, gone, i) = a
    BY <1>1 DEF Visit
  <2> QED
    BY <2>1
<1>2. CASE p \in gone /\ at # {}
  <2> DEFINE m == Min(at)
             arr == [j \in 1..L |-> IF m <= j /\ j < a.len THEN a.array[j + 1] ELSE a.array[j]]
             b == [array |-> arr, len |-> a.len - 1]
  <2>1. Visit(a, gone, i) = b
    BY <1>2, <1>a DEF Visit
  <2>2. m \in at
    <3>1. at \subseteq Nat
      OBVIOUS
    <3> HIDE DEF at
    <3> QED
      BY <1>2, <3>1, MinOfNaturals
  <2> HIDE DEF m
  <2>3. m \in 1..a.len /\ a.array[m] = p /\ a.len >= 1 /\ a.len - 1 \in 0..L
    BY <2>2, <1>a
  <2>4. \A j \in 1..L : (m <= j /\ j < a.len) => j + 1 \in 1..L
    BY <1>a
  <2>5. arr \in [1..L -> Pod]
    BY <1>a, <2>4
  <2>6. b \in [array : [1..L -> Pod], len : 0..L]
    BY <2>3, <2>5
  <2> DEFINE src(j) == IF m <= j THEN j + 1 ELSE j
  <2>7. \A j \in 1..(a.len - 1) : arr[j] = a.array[src(j)]
    BY <1>a
  <2> HIDE DEF arr, p, at
  <2>s. \A j \in 1..(a.len - 1) :
          /\ src(j) \in 1..a.len /\ src(j) # m
          /\ \A k \in 1..(a.len - 1) : src(j) = src(k) => j = k
    BY <1>a, <2>3
  <2>t. \A k \in 1..a.len : k # m => \E j \in 1..(a.len - 1) : src(j) = k
    <3> TAKE k \in 1..a.len
    <3> HAVE k # m
    <3>1. CASE k < m
      <4>1. k \in 1..(a.len - 1) /\ src(k) = k
        BY <1>a, <2>3, <3>1
      <4> QED
        BY <4>1
    <3>2. CASE k > m
      <4>1. k - 1 \in 1..(a.len - 1) /\ src(k - 1) = k
        BY <1>a, <2>3, <3>2
      <4> QED
        BY <4>1
    <3> QED
      BY <1>a, <2>3, <3>1, <3>2
  <2> HIDE DEF src
  <2>8. \A j, k \in 1..(a.len - 1) : arr[j] = arr[k] => j = k
    BY <1>a, <2>s, <2>7
  <2>9. LivePart(b) = LivePart(a) \ {p}
    <3>1. LivePart(b) = {arr[j] : j \in 1..(a.len - 1)}
      BY DEF LivePart
    <3>2. ASSUME NEW j \in 1..(a.len - 1) PROVE arr[j] \in LivePart(a) /\ arr[j] # p
      BY <1>a, <2>3, <2>7, <2>s DEF LivePart
    <3>3. ASSUME NEW q \in LivePart(a), q # p PROVE \E j \in 1..(a.len - 1) : arr[j] = q
      <4>1. PICK k \in 1..a.len : a.array[k] = q
        BY DEF LivePart
      <4>2. k # m
        BY <2>3, <3>3, <4>1
      <4> QED
        BY <2>t, <2>7, <4>1, <4>2
    <3> QED
      BY <3>1, <3>2, <3>3
  <2>10. /\ ToSet(list) \ gone \subseteq LivePart(b) /\ LivePart(b) \subseteq ToSet(list)
    BY <1>2, <1>a, <2>9
  <2>11. b.array = arr /\ b.len = a.len - 1
    OBVIOUS
  <2> HIDE DEF b
  <2>12. b \in PassStates(list, gone)
    BY <2>6, <2>8, <2>10, <2>11 DEF PassStates
  <2> QED
    BY <2>1, <2>11, <2>12, <1>a
<1> QED
  BY <1>1, <1>2

\* The loop of PruneWhileRanging as an iteration.
LEMMA PassExists ==
  ASSUME NEW list \in Seq(Pod), IsInjective(list), NEW gone
  PROVE  \E pass \in [0..Len(list) -> PassStates(list, gone)] :
           /\ pass[0] = [array |-> list, len |-> Len(list)]
           /\ \A i \in 1..Len(list) : pass[i] = Visit(pass[i - 1], gone, i)
           /\ PruneWhileRanging(list, gone) =
                SubSeq(pass[Len(list)].array, 1, pass[Len(list)].len)
<1> DEFINE L == Len(list)
           S == PassStates(list, gone)
           start == [array |-> list, len |-> L]
           step == [x \in S \X (1..L) |-> Visit(x[1], gone, x[2])]
           Eq(g) == g = [i \in 0..L |-> IF i = 0 THEN start ELSE Visit(g[i - 1], gone, i)]
           pass == CHOOSE g : Eq(g)
<1>1. L \in Nat /\ list \in [1..L -> Pod]
  OBVIOUS
<1>2. start \in S
  <2>1. start \in [array : [1..L -> Pod], len : 0..L]
    BY <1>1
  <2>2. LivePart(start) = ToSet(list)
    BY <1>1 DEF LivePart, ToSet
  <2>3. \A j, k \in 1..start.len : start.array[j] = start.array[k] => j = k
    BY <1>1 DEF IsInjective
  <2> QED
    BY <2>1, <2>2, <2>3 DEF PassStates
<1>3. \A a \in S, i \in 1..L : Visit(a, gone, i) \in S
  BY VisitKeepsPassStates
<1>4. Eq(pass)
  <2> HIDE DEF start, S
  <2>1. step \in [S \X (1..L) -> S]
    BY <1>3
  <2>2. \A a \in S, i \in 1..L : step[<<a, i>>] = Visit(a, gone, i)
    OBVIOUS
  <2> HIDE DEF step
  <2>3. PICK g : Iterates(g, start, step, L)
    BY <1>1, <1>2, <2>1, IterationExists
  <2>4. g \in [0..L -> S]
    BY <1>1, <1>2, <2>1, <2>3, IterationType
  <2>5. \A i \in 0..L : (IF i = 0 THEN start ELSE step[<<g[i - 1], i>>]) =
                          (IF i = 0 THEN start ELSE Visit(g[i - 1], gone, i))
    <3> TAKE i \in 0..L
    <3>1. CASE i # 0
      <4>1. i - 1 \in 0..L /\ i \in 1..L
        BY <1>1, <3>1
      <4> QED
        BY <2>2, <2>4, <4>1
    <3> QED
      BY <3>1
  <2>6. Eq(g)
    BY <2>3, <2>5 DEF Iterates
  <2> HIDE DEF Eq
  <2> QED
    BY <2>6
<1>5. PruneWhileRanging(list, gone) = SubSeq(pass[L].array, 1, pass[L].len)
  BY DEF PruneWhileRanging
<1> HIDE DEF pass
<1>6. /\ pass[0] = start
      /\ \A i \in 1..L : pass[i] = Visit(pass[i - 1], gone, i)
      /\ DOMAIN pass = 0..L /\ pass = [i \in 0..L |-> pass[i]]
  <2> HIDE DEF start
  <2>1. 0 \in 0..L /\ \A i \in 1..L : i \in 0..L /\ i # 0
    BY <1>1
  <2> QED
    BY <1>4, <2>1
<1>7. \A i \in 0..L : pass[i] \in S
  <2> HIDE DEF S, start
  <2> DEFINE T == {n \in Nat : n <= L => pass[n] \in S}
  <2>1. 0 \in T
    BY <1>2, <1>6
  <2>2. ASSUME NEW n \in Nat, n \in T PROVE n + 1 \in T
    <3> SUFFICES ASSUME n + 1 <= L PROVE pass[n + 1] \in S
      OBVIOUS
    <3>1. pass[n] \in S /\ n + 1 \in 1..L /\ (n + 1) - 1 = n
      BY <1>1, <2>2
    <3> QED
      BY <1>3, <1>6, <3>1
  <2>3. Nat \subseteq T
    <3> HIDE DEF T
    <3> QED
      BY <2>1, <2>2, NatInductionSet
  <2> QED
    BY <1>1, <2>3
<1> QED
  BY <1>5, <1>6, <1>7

\* Pruning keeps every pod that is not gone, adds none, and names none twice; a list
\* with a pod that is gone gets shorter, so that repeated passes end with an exact list.
THEOREM PruningIsSafe ==
  ASSUME NEW list \in Seq(Pod), IsInjective(list), NEW gone
  PROVE  LET kept == PruneWhileRanging(list, gone)
         IN /\ kept \in Seq(Pod) /\ IsInjective(kept)
            /\ ToSet(list) \ gone \subseteq ToSet(kept)
            /\ ToSet(kept) \subseteq ToSet(list)
            /\ ToSet(list) \cap gone # {} => Len(kept) < Len(list)
<1> DEFINE L == Len(list)
           kept == PruneWhileRanging(list, gone)
<1>1. PICK pass \in [0..L -> PassStates(list, gone)] :
        /\ pass[0] = [array |-> list, len |-> L]
        /\ \A i \in 1..L : pass[i] = Visit(pass[i - 1], gone, i)
        /\ kept = SubSeq(pass[L].array, 1, pass[L].len)
  BY PassExists
<1> DEFINE a == pass[L]
<1>2. L \in Nat /\ list \in [1..L -> Pod] /\ a \in PassStates(list, gone)
  BY <1>1
<1>3. /\ a.array \in [1..L -> Pod] /\ a.len \in 0..L
      /\ \A j, k \in 1..a.len : a.array[j] = a.array[k] => j = k
      /\ ToSet(list) \ gone \subseteq LivePart(a) /\ LivePart(a) \subseteq ToSet(list)
  BY <1>2 DEF PassStates
<1> HIDE DEF a, kept
<1>4. /\ Len(kept) = a.len /\ \A j \in 1..a.len : kept[j] = a.array[j]
      /\ kept \in Seq(Pod) /\ DOMAIN kept = 1..a.len
  <2>1. kept = SubSeq(a.array, 1, a.len) /\ a.array \in Seq(Pod) /\ Len(a.array) = L
    <3>1. a.array \in Seq(Pod)
      BY <1>2, <1>3
    <3>2. Len(a.array) = L
      BY <1>2, <1>3, <3>1
    <3> QED
      BY <1>1, <3>1, <3>2 DEF a
  <2> QED
    BY <1>2, <1>3, <2>1
<1>5. IsInjective(kept)
  BY <1>3, <1>4 DEF IsInjective
<1>6. ToSet(kept) = LivePart(a)
  BY <1>4 DEF ToSet, LivePart
<1>7. ASSUME ToSet(list) \cap gone # {} PROVE Len(kept) < L
  <2>1. PICK i \in 1..L : list[i] \in gone
    BY <1>2, <1>7 DEF ToSet
  <2> DEFINE T == {n \in Nat : n <= L => \/ pass[n].len < L
                                         \/ n < i /\ pass[n] = [array |-> list, len |-> L]}
  <2>2. 0 \in T
    BY <1>1, <1>2
  <2>3. ASSUME NEW n \in Nat, n \in T PROVE n + 1 \in T
    <3> SUFFICES ASSUME n + 1 <= L
                 PROVE  \/ pass[n + 1].len < L
                        \/ n + 1 < i /\ pass[n + 1] = [array |-> list, len |-> L]
      OBVIOUS
    <3>1. n + 1 \in 1..L /\ n \in 0..L /\ pass[n] \in PassStates(list, gone)
      BY <1>1, <1>2
    <3>2. /\ pass[n + 1] = Visit(pass[n], gone, n + 1)
          /\ pass[n + 1] = pass[n] \/ pass[n + 1].len < pass[n].len
          /\ pass[n].len \in 0..L /\ pass[n + 1].len \in 0..L
      <4>1. pass[n + 1] = Visit(pass[n], gone, n + 1)
        <5>1. (n + 1) - 1 = n
          OBVIOUS
        <5> QED
          BY <1>1, <3>1, <5>1
      <4>2. pass[n + 1] \in PassStates(list, gone)
        BY <1>1, <3>1
      <4>3. pass[n + 1] = pass[n] \/ pass[n + 1].len < pass[n].len
        BY <3>1, <4>1, VisitKeepsPassStates
      <4> QED
        BY <3>1, <4>1, <4>2, <4>3 DEF PassStates
    <3>3. CASE pass[n].len < L
      BY <3>2, <3>3
    <3>4. CASE n < i /\ pass[n] = [array |-> list, len |-> L]
      <4>1. CASE n + 1 = i
        <5>1. list[n + 1] \in gone /\ n + 1 \in {j \in 1..L : list[j] = list[n + 1]}
          BY <2>1, <3>1, <4>1
        <5>2. Visit(pass[n], gone, n + 1).len = L - 1
          BY <3>4, <5>1 DEF Visit
        <5> QED
          BY <1>2, <3>2, <5>2
      <4>2. CASE n + 1 # i
        BY <1>2, <3>2, <3>4, <4>2
      <4> QED
        BY <4>1, <4>2
    <3> QED
      BY <2>3, <3>1, <3>3, <3>4
  <2>4. Nat \subseteq T
    <3> HIDE DEF T
    <3> QED
      BY <2>2, <2>3, NatInductionSet
  <2> QED
    BY <1>2, <1>4, <2>4 DEF a
<1> QED
  BY <1>3, <1>4, <1>5, <1>6, <1>7 DEF kept

\* RemoveFirst takes a pod off a list that names it at most once.
LEMMA RemoveFirstEffect ==
  ASSUME NEW list \in Seq(Pod), IsInjective(list), NEW p
  PROVE  /\ RemoveFirst(list, p) \in Seq(Pod) /\ IsInjective(RemoveFirst(list, p))
         /\ ToSet(RemoveFirst(list, p)) = ToSet(list) \ {p}
<1> DEFINE L == Len(list)
           at == {i \in 1..L : list[i] = p}
           kept == RemoveFirst(list, p)
<1>0. L \in Nat /\ list \in [1..L -> Pod]
  OBVIOUS
<1>1. CASE at = {}
  <2>1. kept = list
    BY <1>1 DEF RemoveFirst
  <2> QED
    BY <1>0, <1>1, <2>1 DEF ToSet
<1>2. CASE at # {}
  <2> DEFINE m == Min(at)
  <2>1. kept = SubSeq(list, 1, m - 1) \o SubSeq(list, m + 1, L)
    BY <1>2 DEF RemoveFirst, RemoveAt, SelectInSeq
  <2>2. m \in at
    <3>1. at \subseteq Nat
      OBVIOUS
    <3> HIDE DEF at
    <3> QED
      BY <1>2, <3>1, MinOfNaturals
  <2> HIDE DEF m
  <2>3. m \in 1..L /\ list[m] = p
    BY <2>2
  <2> HIDE DEF at, kept
  <2> DEFINE src(j) == IF m <= j THEN j + 1 ELSE j
  <2>4. /\ kept \in Seq(Pod) /\ Len(kept) = L - 1
        /\ \A j \in 1..(L - 1) : kept[j] = list[src(j)]
    <3> DEFINE x == SubSeq(list, 1, m - 1)
               y == SubSeq(list, m + 1, L)
    <3>1. /\ x \in Seq(Pod) /\ Len(x) = m - 1
          /\ \A j \in 1..(m - 1) : x[j] = list[j]
      BY <1>0, <2>3
    <3>2. /\ y \in Seq(Pod) /\ Len(y) = L - m
          /\ \A j \in 1..(L - m) : y[j] = list[m + j]
      <4>1. /\ y \in Seq(Pod) /\ Len(y) = IF m + 1 <= L THEN L - (m + 1) + 1 ELSE 0
            /\ \A j \in 1..(L - (m + 1) + 1) : y[j] = list[(m + 1) + j - 1]
        <5>1. m + 1 \in Int /\ L \in Int /\ \A j \in (m + 1)..L : list[j] \in Pod
          BY <1>0, <2>3
        <5> QED
          BY <5>1, SubSeqProperties
      <4> HIDE DEF y
      <4>2. L - (m + 1) + 1 = L - m /\ \A j \in 1..(L - m) : (m + 1) + j - 1 = m + j
        BY <1>0, <2>3
      <4>3. Len(y) = L - m
        <5>1. L \in Int /\ m \in Int /\ m <= L
          BY <1>0, <2>3
        <5> HIDE DEF L
        <5>2. L - m = IF m + 1 <= L THEN L - (m + 1) + 1 ELSE 0
          BY <5>1
        <5> QED
          BY <4>1, <5>2
      <4> QED
        BY <4>1, <4>2, <4>3
    <3>3. /\ kept \in Seq(Pod) /\ Len(kept) = L - 1
          /\ \A j \in 1..(L - 1) : kept[j] = IF j <= m - 1 THEN x[j] ELSE y[j - (m - 1)]
      <4>1. kept = x \o y
        BY <2>1
      <4> HIDE DEF x, y
      <4>2. /\ kept \in Seq(Pod) /\ Len(kept) = Len(x) + Len(y)
            /\ \A j \in 1..(Len(x) + Len(y)) :
                 kept[j] = IF j <= Len(x) THEN x[j] ELSE y[j - Len(x)]
        BY <3>1, <3>2, <4>1, ConcatProperties
      <4>3. Len(x) + Len(y) = L - 1
        BY <1>0, <2>3, <3>1, <3>2
      <4> QED
        BY <3>1, <4>2, <4>3
    <3> HIDE DEF x, y
    <3>4. ASSUME NEW j \in 1..(L - 1) PROVE kept[j] = list[src(j)]
      <4>1. CASE j <= m - 1
        BY <2>3, <3>1, <3>3, <4>1
      <4>2. CASE ~(j <= m - 1)
        <5>1. j - (m - 1) \in 1..(L - m) /\ m + (j - (m - 1)) = j + 1
          BY <1>0, <2>3, <4>2
        <5>2. src(j) = j + 1
          BY <1>0, <2>3, <4>2
        <5>3. kept[j] = y[j - (m - 1)] /\ y[j - (m - 1)] = list[m + (j - (m - 1))]
          BY <3>2, <3>3, <4>2, <5>1
        <5> QED
          BY <5>1, <5>2, <5>3
      <4> QED
        BY <4>1, <4>2
    <3> QED
      BY <3>3, <3>4
  <2>5. \A j \in 1..(L - 1) :
          /\ src(j) \in 1..L /\ src(j) # m
          /\ \A k \in 1..(L - 1) : src(j) = src(k) => j = k
    BY <1>0, <2>3
  <2>6. \A k \in 1..L : k # m => \E j \in 1..(L - 1) : src(j) = k
    <3> TAKE k \in 1..L
    <3> HAVE k # m
    <3>1. CASE k < m
      <4>1. k \in 1..(L - 1) /\ src(k) = k
        BY <1>0, <2>3, <3>1
      <4> QED
        BY <4>1
    <3>2. CASE k > m
      <4>1. k - 1 \in 1..(L - 1) /\ src(k - 1) = k
        BY <1>0, <2>3, <3>2
      <4> QED
        BY <4>1
    <3> QED
      BY <1>0, <2>3, <3>1, <3>2
  <2> HIDE DEF src
  <2>7. DOMAIN kept = 1..(L - 1)
    BY <2>4
  <2>8. IsInjective(kept)
    BY <1>0, <2>4, <2>5, <2>7 DEF IsInjective
  <2>9. ToSet(kept) = ToSet(list) \ {p}
    <3>1. ASSUME NEW j \in 1..(L - 1) PROVE kept[j] \in ToSet(list) \ {p}
      BY <1>0, <2>3, <2>4, <2>5 DEF ToSet, IsInjective
    <3>2. ASSUME NEW q \in ToSet(list) \ {p} PROVE \E j \in 1..(L - 1) : kept[j] = q
      <4>1. PICK k \in 1..L : list[k] = q
        BY <1>0 DEF ToSet
      <4> QED
        BY <2>3, <2>4, <2>6, <4>1
    <3> QED
      BY <2>7, <3>1, <3>2 DEF ToSet
  <2> QED
    BY <2>4, <2>8, <2>9 DEF kept
<1> QED
  BY <1>1, <1>2

LEMMA AppendEffect ==
  ASSUME NEW list \in Seq(Pod), IsInjective(list), NEW p \in Pod \ ToSet(list)
  PROVE  /\ Append(list, p) \in Seq(Pod) /\ IsInjective(Append(list, p))
         /\ ToSet(Append(list, p)) = ToSet(list) \cup {p}
<1> DEFINE L == Len(list)
           new == Append(list, p)
<1>1. /\ L \in Nat /\ DOMAIN list = 1..L /\ DOMAIN new = 1..(L + 1) /\ new \in Seq(Pod)
      /\ new[L + 1] = p /\ \A i \in 1..L : new[i] = list[i]
  OBVIOUS
<1> HIDE DEF new
<1>2. \A i \in 1..(L + 1) : i \in 1..L \/ i = L + 1
  BY <1>1
<1>3. \A i \in 1..L : list[i] # p /\ i # L + 1 /\ i \in 1..(L + 1)
  BY <1>1 DEF ToSet
<1>4. IsInjective(new)
  BY <1>1, <1>2, <1>3 DEF IsInjective
<1>5. ToSet(new) = ToSet(list) \cup {p}
  <2>1. L + 1 \in 1..(L + 1)
    BY <1>1
  <2> HIDE DEF L
  <2> QED
    BY <1>1, <1>2, <1>3, <2>1 DEF ToSet
<1> QED
  BY <1>1, <1>4, <1>5 DEF new

(***************************************************************************)
(* Type correctness                                                        *)
(***************************************************************************)

TypeInv == TypeOK /\ DistinctInv

LEMMA EmptyObjectType ==
  /\ EmptyStatus \in Status /\ Nothing \in Object
  /\ IsInjective(EmptyStatus.affected) /\ IsInjective(Nothing.st.affected)
<1>1. <<>> \in Seq(Pod) /\ DOMAIN <<>> = {}
  OBVIOUS
<1>2. IsInjective(<<>>)
  BY <1>1 DEF IsInjective
<1>3. EmptyStatus \in Status
  BY <1>1 DEF EmptyStatus, Status
<1>4. Nothing \in Object
  BY <1>3 DEF Nothing, Object, Conf
<1> QED
  BY <1>2, <1>3, <1>4 DEF EmptyStatus, Nothing

LEMMA InitType == Init => TypeInv
<1> SUFFICES ASSUME Init PROVE TypeInv
  OBVIOUS
<1>1. obj \in Object /\ obj.st = EmptyStatus
  BY ConstantsAssumption, EmptyObjectType DEF Init, Object
<1>2. cache = obj /\ mem = Nothing /\ IsInjective(obj.st.affected)
  BY <1>1, EmptyObjectType DEF Init
<1>3. /\ pods \in [DOMAIN pods -> States] /\ todo \subseteq DOMAIN pods
      /\ todo \in SUBSET Container
  BY DEF Init
<1>4. ns \in 0..M
  BY ConstantsAssumption DEF Init
<1>5. TypeOK
  BY <1>1, <1>2, <1>3, <1>4, EmptyObjectType DEF Init, TypeOK
<1>6. DistinctInv
  BY <1>2, EmptyObjectType DEF DistinctInv
<1> QED
  BY <1>5, <1>6 DEF TypeInv

\* The end of a call of Reconcile.
LEMMA ExitType ==
  ASSUME Exit
  PROVE  /\ pc' = "idle" /\ mem' \in Object /\ IsInjective(mem'.st.affected)
         /\ memFresh' \in BOOLEAN /\ verdict' = "again"
         /\ first' \in BOOLEAN /\ ns' \in 0..M /\ failing' \in BOOLEAN
         /\ todo' \in SUBSET Container /\ checked' \in SUBSET Container
         /\ todo' \subseteq DOMAIN pods' /\ pods' \in [DOMAIN pods' -> States]
<1>1. ns' \in 0..M
  BY ConstantsAssumption DEF Exit
<1>2. pods' \in [DOMAIN pods' -> States]
  BY DEF Exit
<1> QED
  BY <1>1, <1>2, EmptyObjectType DEF Exit

\* Updates of the copy of the resource.
LEMMA UpdateTypes ==
  ASSUME NEW o \in Object
  PROVE  /\ o.st \in Status /\ o.conf \in Conf /\ o.st.affected \in Seq(Pod)
         /\ o.st.incidents \in SUBSET ((File \X Nat) \cup {Stray})
         /\ \A st \in Status : /\ [o EXCEPT !.st = st] \in Object
                               /\ [o EXCEPT !.st = st].st = st
                               /\ [o EXCEPT !.st = st].conf = o.conf
         /\ \A c \in Conf : /\ [o EXCEPT !.conf = c] \in Object
                            /\ [o EXCEPT !.conf = c].st = o.st
                            /\ [o EXCEPT !.conf = c].conf = c
         /\ Aged(o) \in Object /\ Aged(o).conf = o.conf
         /\ Aged(o).st.affected = o.st.affected /\ Aged(o).st.ready = o.st.ready
         /\ Aged(o).st.poll # "recent"
  BY DEF Object, Status, Aged

LEMMA StatusTypes ==
  ASSUME NEW st \in Status
  PROVE  /\ \A r \in {"none", "Unknown", "True", "False"} :
              /\ SetReadyCondition(st, r) \in Status
              /\ SetReadyCondition(st, r).affected = st.affected
              /\ SetReadyCondition(st, r).poll = st.poll
              /\ SetReadyCondition(st, r).ready = r
         /\ Stamped(st) \in Status /\ Stamped(st).affected = st.affected
         /\ Stamped(st).poll = "recent" /\ Stamped(st).ready = st.ready
  BY DEF Status, SetReadyCondition, Stamped

LEMMA FailType == ASSUME TypeOK, NEW n \in Nat, Fail(n) PROVE faults' \in Nat
  BY DEF TypeOK, Fail

\* The copy of the resource with another list, and nothing else that is compared.
Relisted(new, o, list) ==
  /\ new \in Object /\ new.st.affected = list /\ new.conf = o.conf
  /\ new.st.poll = o.st.poll /\ new.st.ready = o.st.ready

LEMMA ListTypes ==
  ASSUME NEW o \in Object, NEW list \in Seq(Pod),
         NEW inc \in SUBSET ((File \X Nat) \cup {Stray}), NEW b \in BOOLEAN
  PROVE  /\ Relisted([o EXCEPT !.st.affected = list], o, list)
         /\ Relisted([o EXCEPT !.st.affected = list, !.st.incidents = inc], o, list)
         /\ Relisted([o EXCEPT !.st.affected = list, !.st.notified = b,
                               !.st.incidents = inc], o, list)
<1>1. Relisted([o EXCEPT !.st.affected = list], o, list)
  BY DEF Object, Status, Relisted
<1>2. Relisted([o EXCEPT !.st.affected = list, !.st.incidents = inc], o, list)
  BY DEF Object, Status, Relisted
<1>3. Relisted([o EXCEPT !.st.affected = list, !.st.notified = b, !.st.incidents = inc],
               o, list)
  BY DEF Object, Status, Relisted
<1> QED
  BY <1>1, <1>2, <1>3

\* The copy of the resource and its list.
LEMMA MemType ==
  ASSUME TypeInv
  PROVE  /\ mem \in Object /\ mem.st.affected \in Seq(Pod) /\ IsInjective(mem.st.affected)
         /\ mem.st.incidents \in SUBSET ((File \X Nat) \cup {Stray})
<1>1. mem \in Object /\ IsInjective(mem.st.affected)
  BY DEF TypeInv, TypeOK, DistinctInv
<1> QED
  BY <1>1, UpdateTypes

LEMMA SetupType ==
  ASSUME TypeInv,
         Get \/ SecretMissing \/ FirstSeen \/ NoClient \/ Suspended \/ StartScan
  PROVE  TypeInv'
<1> USE DEF api, wq, scan, ext, cluster
<1>1. CASE Get
  BY <1>1 DEF Get, TypeInv, TypeOK, DistinctInv
<1>2. CASE SecretMissing \/ NoClient
  BY <1>2, FailType DEF SecretMissing, NoClient, Prelude, Return, TypeInv, TypeOK, DistinctInv
<1>3. CASE FirstSeen
  <2>1. mem' \in Object /\ mem'.st.affected = mem.st.affected
    BY <1>3, UpdateTypes, StatusTypes DEF FirstSeen, TypeInv, TypeOK
  <2> QED
    BY <1>3, <2>1 DEF FirstSeen, Prelude, Return, TypeInv, TypeOK, DistinctInv
<1>4. CASE Suspended
  BY <1>4 DEF Suspended, Prelude, Return, TypeInv, TypeOK, DistinctInv
<1>5. CASE StartScan
  <2>1. pc' \in {"namespace", "commit"} /\ ns' \in 0..M /\ first' \in BOOLEAN
        /\ verdict' \in {verdict, "again"}
    <3>1. CASE mem.st.poll # "recent" /\ M > 0
      <4>1. pc' = "namespace" /\ ns' = 1 /\ first' = (mem.st.poll = "never") /\ verdict' = verdict
        BY <1>5, <3>1 DEF StartScan
      <4>2. first' \in BOOLEAN
        BY <4>1, Zenon
      <4> QED
        BY <3>1, <4>1, <4>2, ConstantsAssumption
    <3>2. CASE ~(mem.st.poll # "recent" /\ M > 0)
      BY <1>5, <3>2 DEF StartScan, Return, TypeInv, TypeOK
    <3> QED
      BY <3>1, <3>2
  <2> QED
    BY <1>5, <2>1 DEF StartScan, Prelude, TypeInv, TypeOK, DistinctInv
<1> QED
  BY <1>1, <1>2, <1>3, <1>4, <1>5

LEMMA ListPodsType ==
  ASSUME TypeInv, NamespaceMissing \/ ListPods \/ ListPodsFails
  PROVE  TypeInv'
<1> USE DEF api, wq, ext, cluster
<1>1. CASE NamespaceMissing \/ ListPodsFails
  BY <1>1, FailType DEF NamespaceMissing, ListPodsFails, Scanning, Return, TypeInv, TypeOK,
     DistinctInv
<1>2. CASE ListPods
  <2>1. todo' \subseteq Container /\ DOMAIN pods' = todo' /\ pods' \in [todo' -> States]
    BY <1>2 DEF ListPods, TypeInv, TypeOK
  <2> QED
    BY <1>2, <2>1 DEF ListPods, Scanning, TypeInv, TypeOK, DistinctInv
<1> QED
  BY <1>1, <1>2

LEMMA RemoveFilesType ==
  ASSUME TypeOK, NEW fs, RemoveFiles(fs)
  PROVE  extFile' \in [File -> Nat \cup {NoFile}] /\ cleared' \in [File -> Nat]
  BY DEF TypeOK, RemoveFiles

\* What Prune does to the list of the copy.
LEMMA PruneEffect ==
  ASSUME TypeInv, Prune
  PROVE  /\ mem' \in Object /\ IsInjective(mem'.st.affected)
         /\ mem'.conf = mem.conf /\ mem'.st.poll = mem.st.poll
         /\ \A p \in Pod : NsOf[p] # ns => (Listed(p)' <=> Listed(p))
         /\ faults' \in Nat
         /\ \E fs : RemoveFiles(fs)
<1> DEFINE list == mem.st.affected
           gone(unread) == {p \in ToSet(list) : NsOf[p] = ns /\ (p \notin podUp \/ p \in unread)}
           kept(unread) == PruneWhileRanging(list, gone(unread))
<1>1. PICK unread \in SUBSET {p \in podUp \cap ToSet(mem.st.affected) : NsOf[p] = ns} :
        /\ Fail(Cardinality(unread))
        /\ mem' = [mem EXCEPT !.st.affected = kept(unread)]
        /\ \E fs : RemoveFiles(fs)
  BY DEF Prune
<1>2. mem \in Object /\ list \in Seq(Pod) /\ IsInjective(list)
  BY MemType
<1>3. /\ kept(unread) \in Seq(Pod) /\ IsInjective(kept(unread))
      /\ ToSet(list) \ gone(unread) \subseteq ToSet(kept(unread))
      /\ ToSet(kept(unread)) \subseteq ToSet(list)
  <2> HIDE DEF gone, list
  <2> QED
    BY <1>2, PruningIsSafe
<1> HIDE DEF kept
<1>4. /\ mem' \in Object /\ mem'.st.affected = kept(unread)
      /\ mem'.conf = mem.conf /\ mem'.st.poll = mem.st.poll
  <2>1. {} \in SUBSET ((File \X Nat) \cup {Stray})
    OBVIOUS
  <2>2. Relisted(mem', mem, kept(unread))
    BY <1>1, <1>2, <1>3, <2>1, ListTypes
  <2> QED
    BY <2>2 DEF Relisted
<1>5. \A p \in Pod : NsOf[p] # ns => (Listed(p)' <=> Listed(p))
  BY <1>3, <1>4 DEF Listed
<1>6. faults' \in Nat
  <2>1. IsFiniteSet(unread)
    <3>1. Len(list) \in Nat /\ DOMAIN list = 1..Len(list)
      BY <1>2
    <3>2. list \in Surjection(1..Len(list), ToSet(list))
      BY <1>2, <3>1 DEF Surjection, ToSet
    <3>3. IsFiniteSet(1..Len(list))
      BY <3>1, FS_Interval
    <3>4. IsFiniteSet(ToSet(list))
      BY <3>2, <3>3, FS_Surjection
    <3> QED
      BY <3>4, FS_Subset
  <2> QED
    BY <1>1, <2>1, FS_CardinalityType, FailType DEF TypeInv
<1> QED
  BY <1>1, <1>3, <1>4, <1>5, <1>6

LEMMA PruneType == ASSUME TypeInv, Prune PROVE TypeInv'
<1>1. /\ mem' \in Object /\ IsInjective(mem'.st.affected) /\ faults' \in Nat
      /\ extFile' \in [File -> Nat \cup {NoFile}] /\ cleared' \in [File -> Nat]
  BY PruneEffect, RemoveFilesType DEF TypeInv
<1> QED
  BY <1>1 DEF Prune, Scanning, TypeInv, TypeOK, DistinctInv, api, wq, ext, cluster

LEMMA FileOfType == ASSUME NEW c \in Container PROVE FileOf(c) \in File /\ c \in File
  BY ConstantsAssumption DEF FileOf, File

LEMMA NotifyType ==
  ASSUME TypeOK, NEW f \in File, NEW outcome, NotifyExternalSystem(f, outcome)
  PROVE  /\ extFile' \in [File -> Nat \cup {NoFile}]
         /\ fired' \in [File -> Nat] /\ lost' \in [File -> Nat]
<1>t. /\ extFile \in [File -> Nat \cup {NoFile}]
      /\ fired \in [File -> Nat] /\ lost \in [File -> Nat]
  BY DEF TypeOK
<1>1. CASE extFile[f] # NoFile
  BY <1>t, <1>1 DEF NotifyExternalSystem
<1>2. CASE extFile[f] = NoFile
  <2>0. PostFiring(f, outcome)
    BY <1>2 DEF NotifyExternalSystem
  <2>1. fired' \in [File -> Nat]
    BY <1>t, <2>0 DEF PostFiring
  <2>2. lost' \in [File -> Nat]
    BY <1>t, <2>0 DEF PostFiring
  <2>3. extFile' \in [File -> Nat \cup {NoFile}]
    BY <1>t, <2>0 DEF PostFiring
  <2> QED
    BY <2>1, <2>2, <2>3
<1> QED
  BY <1>1, <1>2

LEMMA IncidentType ==
  ASSUME NEW f \in File, NEW content \in Nat \cup {NoFile}, NEW found
  PROVE  SetIncidentID(f, content, found) \in SUBSET ((File \X Nat) \cup {Stray})
  BY DEF SetIncidentID

\* A failed container puts its pod on the list and perhaps posts an alert.
LEMMA FailedEffect ==
  ASSUME TypeInv, NEW c \in Container, ContainerFailed(c)
  PROVE  /\ mem' \in Object /\ IsInjective(mem'.st.affected)
         /\ mem'.conf = mem.conf
         /\ mem'.st.poll = mem.st.poll /\ mem'.st.ready = mem.st.ready
         /\ ToSet(mem'.st.affected) = ToSet(mem.st.affected) \cup {PodOf[c]}
         /\ faults' \in Nat
         /\ \/ \E outcome \in {"ok", "failed", "lost"} : NotifyExternalSystem(FileOf(c), outcome)
            \/ UNCHANGED <<extFile, fired, lost>>
<1> DEFINE f == FileOf(c)
           list == IF Listed(PodOf[c]) THEN mem.st.affected
                                       ELSE Append(mem.st.affected, PodOf[c])
<1>0. /\ mem \in Object /\ mem.st.affected \in Seq(Pod) /\ IsInjective(mem.st.affected)
      /\ mem.st.incidents \in SUBSET ((File \X Nat) \cup {Stray})
      /\ PodOf[c] \in Pod /\ f \in File /\ c \in File
  BY MemType, FileOfType, ConstantsAssumption
<1>1. /\ list \in Seq(Pod) /\ IsInjective(list)
      /\ ToSet(list) = ToSet(mem.st.affected) \cup {PodOf[c]}
  <2>1. CASE Listed(PodOf[c])
    BY <1>0, <2>1 DEF Listed
  <2>2. CASE ~Listed(PodOf[c])
    BY <1>0, <2>2, AppendEffect DEF Listed
  <2> QED
    BY <2>1, <2>2
<1>2. CASE mem.conf.notify
  <2>1. PICK outcome \in {"ok", "failed", "lost"}, found \in BOOLEAN :
          /\ NotifyExternalSystem(f, outcome)
          /\ Fail(IF outcome = "ok" THEN 0 ELSE 1)
          /\ mem' = [mem EXCEPT
                       !.st.affected = list, !.st.notified = TRUE,
                       !.st.incidents = @ \cup SetIncidentID(f,
                          IF f = c THEN extFile'[f] ELSE NoFile, found)]
    BY <1>2 DEF ContainerFailed
  <2> DEFINE inc == mem.st.incidents \cup SetIncidentID(f,
                       IF f = c THEN extFile'[f] ELSE NoFile, found)
  <2>2. (IF f = c THEN extFile'[f] ELSE NoFile) \in Nat \cup {NoFile}
    BY <1>0, <2>1, NotifyType DEF TypeInv
  <2>3. inc \in SUBSET ((File \X Nat) \cup {Stray})
    BY <1>0, <2>2, IncidentType
  <2>4. mem' = [mem EXCEPT !.st.affected = list, !.st.notified = TRUE, !.st.incidents = inc]
    BY <2>1
  <2> HIDE DEF inc, list
  <2>5. /\ mem' \in Object /\ mem'.st.affected = list /\ mem'.conf = mem.conf
        /\ mem'.st.poll = mem.st.poll /\ mem'.st.ready = mem.st.ready
    <3>1. Relisted(mem', mem, list)
      BY <1>0, <1>1, <2>3, <2>4, ListTypes
    <3> QED
      BY <3>1 DEF Relisted
  <2>6. faults' \in Nat
    BY <2>1, FailType DEF TypeInv
  <2> QED
    BY <1>1, <2>1, <2>5, <2>6
<1>3. CASE ~mem.conf.notify
  <2>1. mem' = [mem EXCEPT !.st.affected = list] /\ UNCHANGED <<extFile, fired, lost, faults>>
    BY <1>3 DEF ContainerFailed
  <2> HIDE DEF list
  <2>2. /\ mem' \in Object /\ mem'.st.affected = list /\ mem'.conf = mem.conf
        /\ mem'.st.poll = mem.st.poll /\ mem'.st.ready = mem.st.ready
    <3>1. Relisted(mem', mem, list)
      BY <1>0, <1>1, <2>1, ListTypes
    <3> QED
      BY <3>1 DEF Relisted
  <2>3. faults' \in Nat
    BY <2>1 DEF TypeInv, TypeOK
  <2> QED
    BY <1>1, <2>1, <2>2, <2>3
<1> QED
  BY <1>2, <1>3

\* A completed container takes its pod off the list and perhaps resolves its alert.
LEMMA CompletedEffect ==
  ASSUME TypeInv, NEW c \in Container, ContainerCompleted(c)
  PROVE  /\ mem' \in Object /\ IsInjective(mem'.st.affected)
         /\ mem'.conf = mem.conf
         /\ mem'.st.poll = mem.st.poll /\ mem'.st.ready = mem.st.ready
         /\ ToSet(mem'.st.affected) = ToSet(mem.st.affected) \ {PodOf[c]}
         /\ faults' \in Nat
         /\ resolved' \subseteq resolved \cup ResolvedFingerprint(c)
<1> DEFINE f == FileOf(c)
           list == RemoveFirst(mem.st.affected, PodOf[c])
<1>0. /\ mem \in Object /\ mem.st.affected \in Seq(Pod) /\ IsInjective(mem.st.affected)
      /\ mem.st.incidents \in SUBSET ((File \X Nat) \cup {Stray})
  BY MemType
<1>1. /\ list \in Seq(Pod) /\ IsInjective(list)
      /\ ToSet(list) = ToSet(mem.st.affected) \ {PodOf[c]}
  BY <1>0, RemoveFirstEffect
<1>2. CASE mem.conf.notify /\ mem.st.notified
  <2>1. PICK posted \in BOOLEAN, found \in BOOLEAN :
          /\ resolved' = resolved \cup (IF posted THEN ResolvedFingerprint(c) ELSE {})
          /\ Fail(IF posted THEN 0 ELSE 1)
          /\ mem' = [mem EXCEPT
                       !.st.affected = list,
                       !.st.incidents = @ \ SetIncidentID(f, extFile[f], found)]
    BY <1>2 DEF ContainerCompleted
  <2> DEFINE inc == mem.st.incidents \ SetIncidentID(f, extFile[f], found)
  <2>2. inc \in SUBSET ((File \X Nat) \cup {Stray})
    BY <1>0
  <2>3. mem' = [mem EXCEPT !.st.affected = list, !.st.incidents = inc]
    BY <2>1
  <2> HIDE DEF inc, list
  <2>4. /\ mem' \in Object /\ mem'.st.affected = list /\ mem'.conf = mem.conf
        /\ mem'.st.poll = mem.st.poll /\ mem'.st.ready = mem.st.ready
    <3>1. Relisted(mem', mem, list)
      BY <1>0, <1>1, <2>2, <2>3, ListTypes
    <3> QED
      BY <3>1 DEF Relisted
  <2>5. faults' \in Nat
    BY <2>1, FailType DEF TypeInv
  <2> QED
    BY <1>1, <2>1, <2>4, <2>5
<1>3. CASE ~(mem.conf.notify /\ mem.st.notified)
  <2>1. mem' = [mem EXCEPT !.st.affected = list] /\ UNCHANGED <<resolved, faults>>
    BY <1>3 DEF ContainerCompleted
  <2> HIDE DEF list
  <2>2. /\ mem' \in Object /\ mem'.st.affected = list /\ mem'.conf = mem.conf
        /\ mem'.st.poll = mem.st.poll /\ mem'.st.ready = mem.st.ready
    <3>1. Relisted(mem', mem, list)
      BY <1>0, <1>1, <2>1, ListTypes
    <3> QED
      BY <3>1 DEF Relisted
  <2>3. faults' \in Nat
    BY <2>1 DEF TypeInv, TypeOK
  <2> QED
    BY <1>1, <2>1, <2>2, <2>3
<1> QED
  BY <1>2, <1>3

LEMMA ScanContainerType ==
  ASSUME TypeInv, NEW c \in Container, ScanContainer(c)
  PROVE  TypeInv'
<1> USE DEF api, wq, ext, cluster, Take, Scanning
<1>1. CASE ContainerFailed(c)
  <2>1. mem' \in Object /\ IsInjective(mem'.st.affected) /\ faults' \in Nat
    BY <1>1, FailedEffect
  <2>2. /\ extFile' \in [File -> Nat \cup {NoFile}]
        /\ fired' \in [File -> Nat] /\ lost' \in [File -> Nat]
    BY <1>1, FailedEffect, NotifyType, FileOfType DEF TypeInv, TypeOK
  <2>3. failing' \in BOOLEAN /\ checked' \in SUBSET Container
    BY <1>1 DEF ContainerFailed, TypeInv, TypeOK
  <2> QED
    BY <1>1, <2>1, <2>2, <2>3 DEF ContainerFailed, TypeInv, TypeOK, DistinctInv
<1>2. CASE ContainerCompleted(c)
  <2>1. mem' \in Object /\ IsInjective(mem'.st.affected) /\ faults' \in Nat
    BY <1>2, CompletedEffect
  <2>2. ResolvedFingerprint(c) \subseteq Container \X Nat
    BY FileOfType DEF ResolvedFingerprint, TypeInv, TypeOK
  <2>3. resolved' \in SUBSET (Container \X Nat)
    BY <1>2, <2>2, CompletedEffect DEF TypeInv, TypeOK
  <2> QED
    BY <1>2, <2>1, <2>3 DEF ContainerCompleted, TypeInv, TypeOK, DistinctInv
<1>3. CASE ContainerIgnored(c)
  BY <1>3 DEF ContainerIgnored, TypeInv, TypeOK, DistinctInv
<1> QED
  BY <1>1, <1>2, <1>3 DEF ScanContainer

\* A namespace without a failed container renews the stamp of the copy.
LEMMA HealthyEffect ==
  ASSUME TypeInv, NamespaceHealthy \/ NilAggregatePanic
  PROVE  /\ mem' \in Object /\ mem'.st.affected = mem.st.affected
         /\ mem'.conf = mem.conf
<1>1. mem \in Object /\ mem.st \in Status
  BY UpdateTypes DEF TypeInv, TypeOK
<1>2. /\ Stamped(mem.st) \in Status
      /\ SetReadyCondition(Stamped(mem.st), "True") \in Status
      /\ Stamped(mem.st).affected = mem.st.affected
      /\ SetReadyCondition(Stamped(mem.st), "True").affected = mem.st.affected
  BY <1>1, StatusTypes
<1>3. CASE NamespaceHealthy
  BY <1>1, <1>2, <1>3, UpdateTypes DEF NamespaceHealthy
<1>4. CASE NilAggregatePanic
  BY <1>1, <1>2, <1>4, UpdateTypes DEF NilAggregatePanic
<1> QED
  BY <1>3, <1>4

LEMMA NamespaceEndType ==
  ASSUME TypeInv, NamespaceFailed \/ NamespaceHealthy \/ NilAggregatePanic
  PROVE  TypeInv'
<1> USE DEF api, wq, ext, cluster, Scanning
<1>1. CASE NamespaceFailed
  BY <1>1 DEF NamespaceFailed, Return, TypeInv, TypeOK, DistinctInv
<1>2. CASE NamespaceHealthy
  <2>1. mem' \in Object /\ IsInjective(mem'.st.affected)
    BY <1>2, HealthyEffect DEF TypeInv, DistinctInv
  <2>2. extFile' \in [File -> Nat \cup {NoFile}] /\ cleared' \in [File -> Nat]
    BY <1>2, RemoveFilesType DEF NamespaceHealthy, TypeInv
  <2>3. faults' \in Nat
    BY <1>2, FailType DEF NamespaceHealthy, TypeInv
  <2>4. /\ pc' \in {"commit", "namespace"} /\ ns' \in 0..M
        /\ verdict' \in {"again", "done", "error", "panic"}
    BY <1>2, ConstantsAssumption DEF NamespaceHealthy, Return, TypeInv, TypeOK
  <2> QED
    BY <1>2, <2>1, <2>2, <2>3, <2>4 DEF NamespaceHealthy, TypeInv, TypeOK, DistinctInv
<1>3. CASE NilAggregatePanic
  <2>1. mem' \in Object /\ IsInjective(mem'.st.affected)
    BY <1>3, HealthyEffect DEF TypeInv, DistinctInv
  <2> QED
    BY <1>3, <2>1 DEF NilAggregatePanic, Return, TypeInv, TypeOK, DistinctInv
<1> QED
  BY <1>1, <1>2, <1>3

\* What Commit stores.
LEMMA CommitEffect ==
  ASSUME TypeInv, Commit
  PROVE  /\ obj' \in Object /\ obj'.conf = obj.conf
         /\ obj'.st.affected = mem.st.affected /\ obj'.st.poll = mem.st.poll
         /\ obj'.st.ready = IF verdict = "error" THEN "False" ELSE mem.st.ready
         /\ cacheFresh' \in BOOLEAN /\ (cacheFresh' => obj' = obj /\ cacheFresh)
         /\ timer' \in BOOLEAN /\ (timer' <=> timer \/ verdict # "done")
<1>1. mem.st \in Status /\ obj \in Object
  BY UpdateTypes DEF TypeInv, TypeOK
<1>2. /\ Reported \in Status /\ Reported.affected = mem.st.affected
      /\ Reported.poll = mem.st.poll
      /\ Reported.ready = IF verdict = "error" THEN "False" ELSE mem.st.ready
  <2>1. CASE verdict = "error"
    BY <1>1, <2>1, StatusTypes DEF Reported
  <2>2. CASE verdict # "error"
    BY <1>1, <2>2 DEF Reported
  <2> QED
    BY <2>1, <2>2
<1>3. obj' = [obj EXCEPT !.st = Reported]
  BY DEF Commit
<1>4. obj' \in Object /\ obj'.conf = obj.conf /\ obj'.st = Reported
  BY <1>1, <1>2, <1>3, UpdateTypes
<1>5. /\ cacheFresh' \in BOOLEAN /\ (cacheFresh' => obj' = obj /\ cacheFresh)
      /\ timer' \in BOOLEAN /\ (timer' <=> timer \/ verdict # "done")
  BY Zenon DEF Commit, TypeInv, TypeOK
<1> QED
  BY <1>2, <1>4, <1>5

LEMMA CommitType ==
  ASSUME TypeInv, Commit \/ CommitFails
  PROVE  TypeInv'
<1> USE DEF api, wq, ext, cluster
<1>1. CASE Commit
  <2>1. /\ obj' \in Object /\ IsInjective(obj'.st.affected)
        /\ cacheFresh' \in BOOLEAN /\ timer' \in BOOLEAN
    BY <1>1, CommitEffect DEF TypeInv, DistinctInv
  <2> QED
    BY <1>1, <2>1, ExitType DEF Commit, TypeInv, TypeOK, DistinctInv
<1>2. CASE CommitFails
  <2>1. faults' \in Nat
    BY <1>2, FailType DEF CommitFails, TypeInv, TypeOK
  <2> QED
    BY <1>2, <2>1, ExitType DEF CommitFails, TypeInv, TypeOK, DistinctInv
<1> QED
  BY <1>1, <1>2

LEMMA EnvironmentType ==
  ASSUME TypeInv, Environment
  PROVE  TypeInv'
<1> USE DEF api, wq, scan, worker, ext, cluster
<1>1. CASE TimerFires
  BY <1>1 DEF TimerFires, TypeInv, TypeOK, DistinctInv
<1>2. CASE WatchEvent
  BY <1>2 DEF WatchEvent, TypeInv, TypeOK, DistinctInv
<1>3. CASE Elapse
  <2>1. \A o \in {obj, cache, mem} : Aged(o) \in Object /\ Aged(o).st.affected = o.st.affected
    BY UpdateTypes DEF TypeInv, TypeOK
  <2> QED
    BY <1>3, <2>1 DEF Elapse, TypeInv, TypeOK, DistinctInv
<1>4. ASSUME NEW c \in Confs, Edit(c) PROVE TypeInv'
  <2>1. obj' \in Object /\ obj'.st = obj.st
    BY <1>4, UpdateTypes, ConstantsAssumption DEF Edit, TypeInv, TypeOK
  <2>2. edits' \in Nat
    <3>1. edits \in Nat /\ edits' = edits + 1
      BY <1>4 DEF Edit, TypeInv, TypeOK
    <3> QED
      BY <3>1
  <2>3. cacheFresh' \in BOOLEAN /\ memFresh' \in BOOLEAN
    BY <1>4, Zenon DEF Edit
  <2> QED
    <3>1. TypeOK'
      <4>1. UNCHANGED <<cache, queue, timer, pc, mem, verdict, first, ns, pods, todo, failing,
                        checked, extFile, cleared, fired, lost, resolved, podUp, state,
                        restarts, changes, faults>>
        BY <1>4 DEF Edit
      <4> QED
        BY <2>1, <2>2, <2>3, <4>1 DEF TypeInv, TypeOK
    <3>2. DistinctInv'
      BY <1>4, <2>1 DEF Edit, TypeInv, DistinctInv
    <3> QED
      BY <3>1, <3>2 DEF TypeInv
<1>5. ASSUME NEW c \in Container, NEW s \in States, ContainerChanges(c, s) PROVE TypeInv'
  BY <1>5 DEF ContainerChanges, Changes, TypeInv, TypeOK, DistinctInv
<1>6. ASSUME NEW p \in Pod, PodDeleted(p) \/ PodCreated(p) PROVE TypeInv'
  <2>1. podUp' \in SUBSET Pod
    BY <1>6 DEF PodDeleted, PodCreated, TypeInv, TypeOK
  <2>2. state' \in [Container -> States]
    BY <1>6 DEF PodDeleted, PodCreated, TypeInv, TypeOK, States
  <2>3. Changes
    BY <1>6 DEF PodDeleted, PodCreated
  <2> QED
    BY <2>1, <2>2, <2>3 DEF Changes, TypeInv, TypeOK, DistinctInv
<1>7. CASE Crash
  <2>1. extFile' \in [File -> Nat \cup {NoFile}] /\ faults' \in Nat
    BY <1>7, FailType DEF Crash, TypeInv
  <2> QED
    <3>1. Exit
      BY <1>7 DEF Crash
    <3>2. TypeOK'
      <4>1. timer' \in BOOLEAN /\ queue' \in BOOLEAN /\ cacheFresh' \in BOOLEAN
        BY <1>7, Zenon DEF Crash
      <4>2. restarts' \in Nat
        <5>1. restarts \in Nat /\ restarts' = restarts + 1
          BY <1>7 DEF Crash, TypeInv, TypeOK
        <5> QED
          BY <5>1
      <4>3. /\ cache' = obj
            /\ UNCHANGED <<obj, cleared, fired, lost, resolved, podUp, state, changes, edits>>
        BY <1>7 DEF Crash
      <4> QED
        BY <2>1, <3>1, <4>1, <4>2, <4>3, ExitType DEF TypeInv, TypeOK
    <3>3. DistinctInv'
      BY <1>7, <3>1, ExitType DEF Crash, TypeInv, DistinctInv
    <3> QED
      BY <3>2, <3>3 DEF TypeInv
<1> QED
  BY <1>1, <1>2, <1>3, <1>4, <1>5, <1>6, <1>7 DEF Environment

LEMMA NextType == TypeInv /\ [Next]_vars => TypeInv'
<1> SUFFICES ASSUME TypeInv, [Next]_vars PROVE TypeInv'
  OBVIOUS
<1>1. CASE Reconcile
  BY <1>1, SetupType, ListPodsType, PruneType, ScanContainerType, NamespaceEndType, CommitType
     DEF Reconcile
<1>2. CASE Environment
  BY <1>2, EnvironmentType
<1>3. CASE UNCHANGED vars
  BY <1>3 DEF vars, api, wq, scan, worker, ext, cluster, TypeInv, TypeOK, DistinctInv
<1> QED
  BY <1>1, <1>2, <1>3 DEF Next

LEMMA TypeInvHolds == Spec => []TypeInv
<1>1. Init => TypeInv
  BY InitType
<1>2. TypeInv /\ [Next]_vars => TypeInv'
  BY NextType
<1> QED
  BY <1>1, <1>2, PTL DEF Spec

\* Every variable keeps its type; the list of affected pods stays a list of pods although
\* the loop that prunes it ranges over an array it is changing.
THEOREM TypeCorrect == Spec => []TypeOK
<1>1. TypeInv => TypeOK
  BY DEF TypeInv
<1> QED
  BY <1>1, TypeInvHolds, PTL

\* No status ever lists a pod twice.
THEOREM PodsAreListedOnce == Spec => []DistinctInv
<1>1. TypeInv => DistinctInv
  BY DEF TypeInv
<1> QED
  BY <1>1, TypeInvHolds, PTL

(***************************************************************************)
(* Alerts                                                                  *)
(***************************************************************************)

\* The part of AlertInv about one file.
FileInv(f) ==
  /\ fired[f] <= cleared[f] + lost[f] + restarts + Open(extFile, f)
  /\ extFile[f] # NoFile => extFile[f] = fired[f] /\ fired[f] > 0

LEMMA InitAlert == Init => AlertInv
  BY DEF Init, AlertInv, Open

\* Nothing the alert invariant is about changes.
LEMMA AlertFrame ==
  ASSUME AlertInv, UNCHANGED <<extFile, cleared, ext, restarts>>
  PROVE  AlertInv'
  BY DEF AlertInv, Open, ext

\* Files that go while nothing is posted: what was open is counted as cleared.
LEMMA RemovalKeepsAlertInv ==
  ASSUME TypeOK, AlertInv, NEW fs, RemoveFiles(fs), UNCHANGED <<ext, restarts>>
  PROVE  AlertInv'
<1>1. ASSUME NEW f \in File PROVE FileInv(f)'
  <2>0. /\ fired[f] \in Nat /\ cleared[f] \in Nat /\ lost[f] \in Nat /\ restarts \in Nat
        /\ FileInv(f)
    BY DEF TypeOK, AlertInv, FileInv
  <2>1. /\ extFile'[f] = IF f \in fs THEN NoFile ELSE extFile[f]
        /\ cleared'[f] = IF f \in fs /\ extFile[f] # NoFile THEN cleared[f] + 1 ELSE cleared[f]
        /\ fired' = fired /\ lost' = lost /\ restarts' = restarts
    BY DEF RemoveFiles, ext
  <2>2. CASE f \in fs /\ extFile[f] # NoFile
    BY <2>0, <2>1, <2>2 DEF FileInv, Open
  <2>3. CASE ~(f \in fs /\ extFile[f] # NoFile)
    BY <2>0, <2>1, <2>3 DEF FileInv, Open
  <2> QED
    BY <2>2, <2>3
<1> QED
  BY <1>1 DEF AlertInv, FileInv, ext

\* An alert is posted only where no fingerprint is on file.
LEMMA NotifyKeepsAlertInv ==
  ASSUME TypeOK, AlertInv, NEW g \in File, NEW outcome \in {"ok", "failed", "lost"},
         NotifyExternalSystem(g, outcome), UNCHANGED <<cleared, resolved, restarts>>
  PROVE  AlertInv'
<1>t. /\ fired \in [File -> Nat] /\ lost \in [File -> Nat] /\ cleared \in [File -> Nat]
      /\ extFile \in [File -> Nat \cup {NoFile}] /\ restarts \in Nat
      /\ resolved \subseteq Container \X Nat
  BY DEF TypeOK
<1>1. CASE extFile[g] # NoFile
  BY <1>1, AlertFrame DEF NotifyExternalSystem, ext
<1>2. CASE extFile[g] = NoFile
  <2>0. PostFiring(g, outcome)
    BY <1>2 DEF NotifyExternalSystem
  <2>1. ASSUME NEW f \in File PROVE FileInv(f)' /\ fired[f] <= fired'[f] /\ fired'[f] \in Nat
    <3>0. /\ fired[f] \in Nat /\ cleared[f] \in Nat /\ lost[f] \in Nat /\ FileInv(f)
      BY <1>t DEF AlertInv, FileInv
    <3>1. CASE f # g
      <4>1. fired'[f] = fired[f] /\ lost'[f] = lost[f] /\ extFile'[f] = extFile[f]
        BY <1>t, <2>0, <3>1 DEF PostFiring
      <4> QED
        BY <3>0, <4>1 DEF FileInv, Open
    <3>2. CASE f = g
      <4>1. /\ fired'[f] = IF outcome = "failed" THEN fired[f] ELSE fired[f] + 1
            /\ lost'[f] = IF outcome = "lost" THEN lost[f] + 1 ELSE lost[f]
            /\ extFile'[f] = IF outcome = "ok" THEN fired[f] + 1 ELSE NoFile
        BY <1>2, <1>t, <2>0, <3>2 DEF PostFiring
      <4>2. fired[f] <= cleared[f] + lost[f] + restarts
        BY <1>2, <1>t, <3>0, <3>2 DEF FileInv, Open
      <4>3. CASE outcome = "ok"
        BY <1>t, <3>0, <4>1, <4>2, <4>3, ConstantsAssumption DEF FileInv, Open
      <4>4. CASE outcome = "failed"
        BY <1>t, <3>0, <4>1, <4>2, <4>4 DEF FileInv, Open
      <4>5. CASE outcome = "lost"
        BY <1>t, <3>0, <4>1, <4>2, <4>5 DEF FileInv, Open
      <4> QED
        BY <4>3, <4>4, <4>5
    <3> QED
      BY <3>1, <3>2
  <2>2. ASSUME NEW r \in resolved PROVE r[2] \in 1..fired'[r[1]]
    <3>1. r[1] \in File /\ r[2] \in 1..fired[r[1]]
      BY <1>t, FileOfType DEF AlertInv
    <3>2. fired[r[1]] <= fired'[r[1]] /\ fired'[r[1]] \in Nat /\ fired[r[1]] \in Nat
      BY <1>t, <2>1, <3>1
    <3> QED
      BY <3>1, <3>2
  <2> QED
    BY <2>1, <2>2 DEF AlertInv, FileInv
<1> QED
  BY <1>1, <1>2

\* What a "resolved" message says is what the container's own file holds.
LEMMA ResolveKeepsAlertInv ==
  ASSUME TypeInv, AlertInv, NEW c \in Container, ContainerCompleted(c)
  PROVE  AlertInv'
<1>1. UNCHANGED <<extFile, cleared, fired, lost, restarts>>
  BY DEF ContainerCompleted, Take, Scanning
<1>2. \A r \in ResolvedFingerprint(c) : r[2] \in 1..fired[r[1]]
  <2>1. CASE extFile[c] = NoFile
    BY <2>1 DEF ResolvedFingerprint
  <2>2. CASE extFile[c] # NoFile
    <3>1. extFile[c] = fired[c] /\ fired[c] > 0 /\ fired[c] \in Nat
      BY <2>2, FileOfType DEF AlertInv, TypeInv, TypeOK
    <3> QED
      BY <2>2, <3>1 DEF ResolvedFingerprint
  <2> QED
    BY <2>1, <2>2
<1>3. resolved' \subseteq resolved \cup ResolvedFingerprint(c)
  BY CompletedEffect
<1> QED
  BY <1>1, <1>2, <1>3 DEF AlertInv, Open

\* A restart takes every file away and is counted once.
LEMMA CrashKeepsAlertInv ==
  ASSUME TypeOK, AlertInv, Crash
  PROVE  AlertInv'
<1>1. UNCHANGED <<cleared, ext>> /\ restarts' = restarts + 1
      /\ extFile' = [f \in File |-> NoFile]
  BY DEF Crash
<1>2. ASSUME NEW f \in File PROVE FileInv(f)'
  <2>1. /\ fired[f] \in Nat /\ cleared[f] \in Nat /\ lost[f] \in Nat /\ restarts \in Nat
        /\ fired[f] <= cleared[f] + lost[f] + restarts + 1
    BY DEF TypeOK, AlertInv, Open
  <2> QED
    BY <1>1, <2>1 DEF FileInv, Open, ext
<1> QED
  BY <1>1, <1>2 DEF AlertInv, FileInv, ext

LEMMA NextAlert == TypeInv /\ AlertInv /\ [Next]_vars => AlertInv'
<1> SUFFICES ASSUME TypeInv, AlertInv, [Next]_vars PROVE AlertInv'
  OBVIOUS
<1>t. TypeOK
  BY DEF TypeInv
<1>1. ASSUME NEW c \in Container, ContainerFailed(c) PROVE AlertInv'
  <2>1. UNCHANGED <<cleared, resolved, restarts>>
    BY <1>1 DEF ContainerFailed, Take, Scanning
  <2>2. CASE UNCHANGED <<extFile, fired, lost>>
    BY <2>1, <2>2, AlertFrame DEF ext
  <2>3. ASSUME NEW outcome \in {"ok", "failed", "lost"},
               NotifyExternalSystem(FileOf(c), outcome)
        PROVE  AlertInv'
    BY <1>t, <2>1, <2>3, FileOfType, NotifyKeepsAlertInv
  <2> QED
    BY <1>1, <2>2, <2>3, FailedEffect
<1>2. ASSUME NEW c \in Container, ContainerCompleted(c) PROVE AlertInv'
  BY <1>2, ResolveKeepsAlertInv
<1>3. CASE Prune
  <2>1. UNCHANGED <<ext, restarts>>
    BY <1>3 DEF Prune, Scanning
  <2> QED
    BY <1>3, <1>t, <2>1, PruneEffect, RemovalKeepsAlertInv
<1>4. CASE NamespaceHealthy
  <2>1. UNCHANGED <<ext, restarts>> /\ \E fs : RemoveFiles(fs)
    BY <1>4 DEF NamespaceHealthy, Scanning
  <2> QED
    BY <1>t, <2>1, RemovalKeepsAlertInv
<1>5. CASE Crash
  BY <1>5, <1>t, CrashKeepsAlertInv
<1>6. CASE Get \/ SecretMissing \/ FirstSeen \/ NoClient \/ Suspended \/ StartScan
             \/ NamespaceMissing \/ ListPods \/ ListPodsFails
             \/ (\E c \in Container : ContainerIgnored(c))
  BY <1>6, AlertFrame DEF Get, SecretMissing, FirstSeen, NoClient, Suspended, StartScan,
     Prelude, NamespaceMissing, ListPods, ListPodsFails, ContainerIgnored, Take, Scanning
<1>7. CASE NamespaceFailed \/ NilAggregatePanic \/ Commit \/ CommitFails
  BY <1>7, AlertFrame DEF NamespaceFailed, NilAggregatePanic, Commit, CommitFails, Scanning
<1>8. CASE TimerFires \/ WatchEvent \/ Elapse \/ (\E c \in Confs : Edit(c))
             \/ (\E c \in Container, s \in States : ContainerChanges(c, s))
             \/ (\E p \in Pod : PodDeleted(p) \/ PodCreated(p))
  BY <1>8, AlertFrame DEF TimerFires, WatchEvent, Elapse, Edit, ContainerChanges, PodDeleted,
     PodCreated, Changes
<1>9. CASE UNCHANGED vars
  BY <1>9, AlertFrame DEF vars
<1> QED
  BY <1>1, <1>2, <1>3, <1>4, <1>5, <1>6, <1>7, <1>8, <1>9
     DEF Next, Reconcile, Environment, ScanContainer

LEMMA AlertInvHolds == Spec => [](TypeInv /\ AlertInv)
<1>1. Init => TypeInv /\ AlertInv
  BY InitType, InitAlert
<1>2. TypeInv /\ AlertInv /\ [Next]_vars => TypeInv' /\ AlertInv'
  BY NextType, NextAlert
<1> QED
  BY <1>1, <1>2, PTL DEF Spec

\* No alert storm, for any cluster: each accepted alert is paid for by a removal of its
\* file, a restart or a lost answer, although the files of pods that may be failing again
\* are removed.
THEOREM NoAlertStorm == Spec => []FiringsAccounted
<1>1. TypeInv /\ AlertInv => FiringsAccounted
  <2> SUFFICES ASSUME TypeInv, AlertInv, NEW f \in File
               PROVE  fired[f] <= cleared[f] + lost[f] + restarts + 1
    BY DEF FiringsAccounted
  <2>1. /\ fired[f] \in Nat /\ cleared[f] \in Nat /\ lost[f] \in Nat /\ restarts \in Nat
    BY DEF TypeInv, TypeOK
  <2> QED
    BY <2>1 DEF AlertInv, Open
<1> QED
  BY <1>1, AlertInvHolds, PTL

\* A "resolved" message closes an alert that was accepted for that very container.
THEOREM ResolvedMeansFired == Spec => []ResolvedWasFired
<1>1. AlertInv => ResolvedWasFired
  BY DEF AlertInv, ResolvedWasFired
<1> QED
  BY <1>1, AlertInvHolds, PTL

(***************************************************************************)
(* The queue                                                               *)
(***************************************************************************)

LEMMA InitWorker == Init => WorkerInv
  BY DEF Init, WorkerInv

\* A step within a reconcile that asks for a requeue, or does not end it.
LEMMA WorkerFrame ==
  ASSUME WorkerInv, UNCHANGED <<obj, cache, cacheFresh, queue, timer, memFresh>>,
         mem'.conf = mem.conf, pc # "idle", pc' \notin {"idle", "setup"},
         pc' = "commit" /\ memFresh /\ verdict' = "done" =>
           mem'.conf.suspend \/ (obj.st.ready = "none" /\ mem'.st.ready = "Unknown")
  PROVE  WorkerInv'
  BY DEF WorkerInv

LEMMA NextWorker == TypeInv /\ WorkerInv /\ [Next]_vars => WorkerInv'
<1> SUFFICES ASSUME TypeInv, WorkerInv, [Next]_vars PROVE WorkerInv'
  OBVIOUS
<1>t. obj \in Object /\ cache \in Object /\ mem \in Object
  BY DEF TypeInv, TypeOK
<1>1. CASE Get
  BY <1>1 DEF Get, WorkerInv, api
<1>2. CASE SecretMissing \/ NoClient \/ NamespaceMissing \/ ListPodsFails \/ NamespaceFailed
  BY <1>2, WorkerFrame DEF SecretMissing, NoClient, NamespaceMissing, ListPodsFails,
     NamespaceFailed, Prelude, Scanning, Return, api, wq
<1>3. CASE FirstSeen
  <2>1. mem'.conf = mem.conf /\ mem'.st.ready = "Unknown"
    BY <1>3, <1>t, UpdateTypes, StatusTypes DEF FirstSeen
  <2>2. memFresh => obj.st.ready = "none"
    BY <1>3 DEF FirstSeen, Prelude, WorkerInv
  <2>3. /\ UNCHANGED <<obj, cache, cacheFresh, queue, timer, memFresh>>
        /\ pc = "setup" /\ pc' = "commit"
    BY <1>3 DEF FirstSeen, Prelude, Return, api, wq
  <2> QED
    BY <2>1, <2>2, <2>3, WorkerFrame
<1>4. CASE Suspended
  BY <1>4, WorkerFrame DEF Suspended, Prelude, Return, api, wq
<1>5. CASE StartScan
  BY <1>5, WorkerFrame DEF StartScan, Prelude, Return, api, wq
<1>6. CASE Prune
  BY <1>6, PruneEffect, WorkerFrame DEF Prune, Scanning, api, wq
<1>7. CASE ListPods
  BY <1>7, WorkerFrame DEF ListPods, Scanning, api, wq
<1>8. ASSUME NEW c \in Container, ScanContainer(c) PROVE WorkerInv'
  <2>1. Take(c) /\ mem'.conf = mem.conf
    BY <1>8, FailedEffect, CompletedEffect
       DEF ScanContainer, ContainerFailed, ContainerCompleted, ContainerIgnored
  <2> QED
    BY <2>1, WorkerFrame DEF Take, Scanning, api, wq
<1>9. CASE NamespaceHealthy \/ NilAggregatePanic
  BY <1>9, HealthyEffect, WorkerFrame DEF NamespaceHealthy, NilAggregatePanic, Return,
     Scanning, api, wq
<1>10. CASE Commit
  <2>1. /\ obj'.conf = obj.conf /\ (cacheFresh' => obj' = obj /\ cacheFresh)
        /\ (timer' <=> timer \/ verdict # "done")
        /\ obj'.st.ready = IF verdict = "error" THEN "False" ELSE mem.st.ready
    BY <1>10, CommitEffect
  <2>2. pc = "commit" /\ memFresh /\ UNCHANGED <<cache, queue>> /\ pc' = "idle" /\ ~memFresh'
    BY <1>10 DEF Commit, Exit
  <2>3. ASSUME ~obj'.conf.suspend, cacheFresh', ~timer' PROVE FALSE
    <3>1. verdict = "done" /\ obj' = obj
      BY <2>1, <2>3
    <3>2. obj.st.ready = "none" /\ mem.st.ready = "Unknown"
      BY <2>1, <2>2, <2>3, <3>1 DEF WorkerInv
    <3> QED
      BY <2>1, <3>1, <3>2
  <2> QED
    BY <2>1, <2>2, <2>3 DEF WorkerInv
<1>11. CASE CommitFails
  BY <1>11 DEF CommitFails, Exit, WorkerInv, api
<1>12. CASE TimerFires
  BY <1>12 DEF TimerFires, WorkerInv, api, worker
<1>13. CASE WatchEvent
  BY <1>13 DEF WatchEvent, WorkerInv, worker
<1>14. CASE Elapse
  <2>1. \A o \in {obj, cache, mem} : Aged(o).conf = o.conf /\ Aged(o).st.ready = o.st.ready
    BY <1>t, UpdateTypes
  <2>2. /\ obj' = Aged(obj) /\ cache' = Aged(cache) /\ mem' = Aged(mem)
        /\ UNCHANGED <<cacheFresh, queue, timer, pc, memFresh, verdict>>
    BY <1>14 DEF Elapse, wq
  <2>3. /\ obj'.conf = obj.conf /\ obj'.st.ready = obj.st.ready
        /\ mem'.conf = mem.conf /\ mem'.st.ready = mem.st.ready
        /\ (cache = obj => cache' = obj') /\ (mem = obj => mem' = obj')
    BY <2>1, <2>2
  <2> QED
    BY <2>2, <2>3 DEF WorkerInv
<1>15. ASSUME NEW c \in Confs, Edit(c) PROVE WorkerInv'
  BY <1>15 DEF Edit, WorkerInv
<1>16. CASE \/ \E c \in Container, s \in States : ContainerChanges(c, s)
            \/ \E p \in Pod : PodDeleted(p) \/ PodCreated(p)
  BY <1>16 DEF ContainerChanges, PodDeleted, PodCreated, Changes, WorkerInv, api, wq, worker
<1>17. CASE Crash
  BY <1>17 DEF Crash, Exit, WorkerInv
<1>18. CASE UNCHANGED vars
  BY <1>18 DEF vars, api, wq, worker, WorkerInv
<1> QED
  BY <1>1, <1>2, <1>3, <1>4, <1>5, <1>6, <1>7, <1>8, <1>9, <1>10, <1>11, <1>12, <1>13,
     <1>14, <1>15, <1>16, <1>17, <1>18 DEF Next, Reconcile, Environment

LEMMA WorkerInvHolds == Spec => [](TypeInv /\ WorkerInv)
<1>1. Init => TypeInv /\ WorkerInv
  BY InitType, InitWorker
<1>2. TypeInv /\ WorkerInv /\ [Next]_vars => TypeInv' /\ WorkerInv'
  BY NextType, NextWorker
<1> QED
  BY <1>1, <1>2, PTL DEF Spec

\* While no reconcile runs, the key of a resource that is not suspended is queued, its
\* timer runs, or its watch event is on the way: a suspended one that is resumed while
\* it is being looked at is not lost.
THEOREM ResourceIsNeverForgotten == Spec => []NeverForgotten
<1>1. WorkerInv => NeverForgotten
  BY DEF WorkerInv, NeverForgotten
<1> QED
  BY <1>1, WorkerInvHolds, PTL
=============================================================================
