------------------------- MODULE MetallbScanProofs -------------------------
(***************************************************************************)
(* Proofs about MetallbScan for any number of services, nodes and          *)
(* endpoints: the slice operations and the loops over the list, types, how *)
(* often a check is mailed and alerted, and the queue.                     *)
(***************************************************************************)
EXTENDS MetallbScan, InductionLemmas, SequenceTheorems, FiniteSetTheorems

(***************************************************************************)
(* FailedChecks: headers and backing arrays                                *)
(***************************************************************************)

\* What a list with a readable header is.
Slice == {l \in [arrays : Seq(Seq(Entry)), at : Nat, len : Nat] : Points(l, Header(l))}

\* No write makes an array shorter, so that headers read before stay readable.
Grows(l, m) ==
  /\ Len(l.arrays) <= Len(m.arrays)
  /\ \A i \in 1..Len(l.arrays) : Len(l.arrays[i]) <= Len(m.arrays[i])

LEMMA HeaderType ==
  ASSUME NEW l \in Slice
  PROVE  Header(l) \in [at : Nat, len : Nat] /\ Points(l, Header(l))
  BY DEF Slice, Header

LEMMA PointsKept ==
  ASSUME NEW l \in Slice, NEW m \in Slice, Grows(l, m),
         NEW h \in [at : Nat, len : Nat], Points(l, h)
  PROVE  Points(m, h)
<1>1. l.arrays \in Seq(Seq(Entry)) /\ m.arrays \in Seq(Seq(Entry))
  BY DEF Slice
<1>2. h.at \in 1..Len(l.arrays) /\ h.at \in 1..Len(m.arrays)
  BY <1>1 DEF Points, Grows
<1>3. l.arrays[h.at] \in Seq(Entry) /\ m.arrays[h.at] \in Seq(Entry)
  BY <1>1, <1>2
<1>4. h.len \in 0..Len(m.arrays[h.at])
  BY <1>2, <1>3 DEF Points, Grows
<1> QED
  BY <1>1, <1>2, <1>4 DEF Points

LEMMA ArrayOfHeader ==
  ASSUME NEW l \in Slice, NEW h \in [at : Nat, len : Nat], Points(l, h)
  PROVE  /\ h.at \in 1..Len(l.arrays) /\ l.arrays[h.at] \in Seq(Entry)
         /\ h.len \in 0..Len(l.arrays[h.at])
<1>1. l.arrays \in Seq(Seq(Entry))
  BY DEF Slice
<1> QED
  BY <1>1 DEF Points

LEMMA WholeType ==
  ASSUME NEW s \in Seq(Entry)
  PROVE  Whole(s) \in Slice
<1>1. <<s>> \in Seq(Seq(Entry)) /\ Len(<<s>>) = 1 /\ <<s>>[1] = s
  OBVIOUS
<1>2. Len(s) \in Nat
  OBVIOUS
<1> QED
  BY <1>1, <1>2 DEF Whole, Slice, Points, Header

LEMMA ContentType ==
  ASSUME NEW l \in Slice
  PROVE  Content(l) \in Seq(Entry) /\ Len(Content(l)) = l.len
<1>1. l.arrays[l.at] \in Seq(Entry) /\ l.len \in 0..Len(l.arrays[l.at])
  BY HeaderType, ArrayOfHeader DEF Header
<1>2. \A i \in 1..l.len : l.arrays[l.at][i] \in Entry
  BY <1>1
<1> QED
  BY <1>1, <1>2, SubSeqProperties DEF Content

\* Writing an array that is not shorter through a readable header.
LEMMA WriteType ==
  ASSUME NEW l \in Slice, NEW h \in [at : Nat, len : Nat], Points(l, h),
         NEW a \in Seq(Entry), Len(l.arrays[h.at]) <= Len(a), NEW n \in 0..Len(a)
  PROVE  LET m == [arrays |-> [l.arrays EXCEPT ![h.at] = a], at |-> h.at, len |-> n]
         IN m \in Slice /\ Grows(l, m)
<1> DEFINE b == [l.arrays EXCEPT ![h.at] = a]
           m == [arrays |-> b, at |-> h.at, len |-> n]
<1>1. l.arrays \in Seq(Seq(Entry))
  BY DEF Slice
<1>2. h.at \in 1..Len(l.arrays)
  BY ArrayOfHeader
<1>3. b \in Seq(Seq(Entry)) /\ Len(b) = Len(l.arrays) /\ b[h.at] = a
  BY <1>1, <1>2
<1>4. \A i \in 1..Len(l.arrays) : i # h.at => b[i] = l.arrays[i]
  BY <1>1
<1>5. \A i \in 1..Len(l.arrays) : Len(l.arrays[i]) <= Len(b[i])
  <2> TAKE i \in 1..Len(l.arrays)
  <2>1. l.arrays[i] \in Seq(Entry)
    BY <1>1
  <2>2. Len(l.arrays[i]) \in Nat
    BY <2>1
  <2> QED
    BY <1>3, <1>4, <2>2
<1> HIDE DEF b
<1>6. n \in Nat
  OBVIOUS
<1>7. m \in [arrays : Seq(Seq(Entry)), at : Nat, len : Nat]
  BY <1>3, <1>6
<1>8. Points(m, Header(m))
  BY <1>2, <1>3 DEF Points, Header
<1>9. Grows(l, m)
  <2>1. Len(l.arrays) \in Nat
    BY <1>1
  <2> QED
    BY <1>3, <1>5, <2>1 DEF Grows
<1> QED
  BY <1>7, <1>8, <1>9 DEF Slice, b

LEMMA AppendedType ==
  ASSUME NEW l \in Slice, NEW h \in [at : Nat, len : Nat], Points(l, h),
         NEW e \in Entry, NEW room \in BOOLEAN
  PROVE  Appended(l, h, e, room) \in Slice /\ Grows(l, Appended(l, h, e, room))
<1> DEFINE a == l.arrays[h.at]
           kept == SubSeq(a, 1, h.len)
           over == SubSeq(a, h.len + 2, Len(a))
<1>1. l.arrays \in Seq(Seq(Entry))
  BY DEF Slice
<1>2. h.at \in 1..Len(l.arrays) /\ a \in Seq(Entry) /\ h.len \in 0..Len(a)
  BY ArrayOfHeader
<1>3. kept \in Seq(Entry) /\ Len(kept) = h.len
  <2>1. \A i \in 1..h.len : a[i] \in Entry
    BY <1>2
  <2> HIDE DEF a
  <2>2. h.len \in Int
    BY <1>2
  <2> QED
    BY <1>2, <2>1, <2>2, SubSeqProperties
<1>4. over \in Seq(Entry)
      /\ Len(over) = IF h.len + 2 <= Len(a) THEN Len(a) - h.len - 1 ELSE 0
  <2>1. \A i \in (h.len + 2)..Len(a) : a[i] \in Entry
    BY <1>2
  <2>2. h.len + 2 \in Int /\ Len(a) \in Int /\ Len(a) \in Nat /\ h.len \in Nat
    BY <1>2
  <2> HIDE DEF a
  <2>3. /\ SubSeq(a, h.len + 2, Len(a)) \in Seq(Entry)
        /\ Len(SubSeq(a, h.len + 2, Len(a))) =
             IF h.len + 2 <= Len(a) THEN Len(a) - (h.len + 2) + 1 ELSE 0
    BY <2>1, <2>2, SubSeqProperties
  <2> QED
    BY <2>2, <2>3
<1>5. CASE room
  <2> DEFINE one == <<e>>
             w == kept \o one \o over
  <2>1. one \in Seq(Entry) /\ Len(one) = 1
    OBVIOUS
  <2> HIDE DEF one, kept, over
  <2>2. kept \o one \in Seq(Entry) /\ Len(kept \o one) = Len(kept) + Len(one)
    BY <1>3, <2>1, ConcatProperties
  <2>3. w \in Seq(Entry) /\ Len(w) = Len(kept \o one) + Len(over)
    BY <1>4, <2>2, ConcatProperties
  <2> HIDE DEF w
  <2>5. Len(a) <= Len(w) /\ h.len + 1 \in 0..Len(w)
    <3>1. Len(a) \in Nat /\ h.len \in Nat /\ h.len <= Len(a)
      BY <1>2
    <3>2. Len(w) = h.len + 1 + (IF h.len + 2 <= Len(a) THEN Len(a) - h.len - 1 ELSE 0)
      BY <1>3, <1>4, <2>1, <2>2, <2>3
    <3> HIDE DEF a
    <3> QED
      BY <3>1, <3>2
  <2>4. Appended(l, h, e, room)
          = [arrays |-> [l.arrays EXCEPT ![h.at] = w], at |-> h.at, len |-> h.len + 1]
    BY <1>5 DEF Appended, w, one, kept, over
  <2> QED
    BY <2>3, <2>4, <2>5, WriteType
<1>6. CASE ~room
  <2> DEFINE b == Append(kept, e)
             c == Append(l.arrays, b)
             m == [arrays |-> c, at |-> Len(l.arrays) + 1, len |-> h.len + 1]
  <2>1. b \in Seq(Entry) /\ Len(b) = h.len + 1
    <3> HIDE DEF kept
    <3> QED
      BY <1>3
  <2> HIDE DEF b
  <2>2. /\ c \in Seq(Seq(Entry)) /\ Len(c) = Len(l.arrays) + 1
        /\ c[Len(l.arrays) + 1] = b
        /\ \A i \in 1..Len(l.arrays) : c[i] = l.arrays[i]
    BY <1>1, <2>1
  <2>3. Len(l.arrays) \in Nat /\ h.len \in Nat
    BY <1>1, <1>2
  <2>4. Appended(l, h, e, room) = m
    BY <1>6 DEF Appended, b
  <2> HIDE DEF c
  <2>5. m \in [arrays : Seq(Seq(Entry)), at : Nat, len : Nat]
    BY <2>2, <2>3
  <2>6. Points(m, Header(m))
    BY <2>1, <2>2, <2>3 DEF Points, Header
  <2>7. Grows(l, m)
    <3>1. \A i \in 1..Len(l.arrays) : l.arrays[i] \in Seq(Entry)
      BY <1>1
    <3>2. \A i \in 1..Len(l.arrays) : Len(l.arrays[i]) \in Nat
      BY <3>1
    <3> QED
      BY <2>2, <2>3, <3>2 DEF Grows
  <2> HIDE DEF m
  <2> QED
    BY <2>4, <2>5, <2>6, <2>7 DEF Slice
<1> QED
  BY <1>5, <1>6

LEMMA DeletedType ==
  ASSUME NEW l \in Slice, NEW h \in [at : Nat, len : Nat], Points(l, h), h.len > 0,
         NEW i \in Nat
  PROVE  /\ Deleted(l, h, i) \in Slice /\ Grows(l, Deleted(l, h, i))
         /\ Deleted(l, h, i).at = h.at
<1> DEFINE a == l.arrays[h.at]
           w == [j \in 1..Len(a) |-> IF i <= j /\ j < h.len THEN a[j + 1] ELSE a[j]]
<1>1. h.at \in 1..Len(l.arrays) /\ a \in Seq(Entry) /\ h.len \in 0..Len(a)
  BY ArrayOfHeader
<1>2. Len(a) \in Nat /\ h.len \in Nat /\ \A j \in 1..Len(a) : a[j] \in Entry
  BY <1>1
<1>3. w \in Seq(Entry) /\ Len(w) = Len(a)
  <2> HIDE DEF a
  <2>1. \A j \in 1..Len(a) :
          (IF i <= j /\ j < h.len THEN a[j + 1] ELSE a[j]) \in Entry
    <3> TAKE j \in 1..Len(a)
    <3>1. CASE i <= j /\ j < h.len
      <4>1. j + 1 \in 1..Len(a)
        BY <1>1, <1>2, <3>1
      <4> QED
        BY <1>2, <3>1, <4>1
    <3>2. CASE ~(i <= j /\ j < h.len)
      BY <1>2, <3>2
    <3> QED
      BY <3>1, <3>2
  <2>2. w \in [1..Len(a) -> Entry]
    BY <2>1
  <2> HIDE DEF w
  <2>3. w \in Seq(Entry)
    BY <1>2, <2>2
  <2>4. Len(w) = Len(a)
    BY <1>2, <2>2, <2>3
  <2> QED
    BY <2>3, <2>4
<1>4. h.len - 1 \in 0..Len(w) /\ Len(a) <= Len(w)
  <2> HIDE DEF a, w
  <2> QED
    BY <1>1, <1>2, <1>3
<1>5. Deleted(l, h, i)
        = [arrays |-> [l.arrays EXCEPT ![h.at] = w], at |-> h.at, len |-> h.len - 1]
  <2>1. l.arrays \in Seq(Seq(Entry))
    BY DEF Slice
  <2> QED
    BY <1>1, <2>1 DEF Deleted
<1> HIDE DEF w
<1> QED
  BY <1>3, <1>4, <1>5, WriteType

LEMMA MinOfNaturals ==
  ASSUME NEW T, T \subseteq Nat, T # {}
  PROVE  Min(T) \in T /\ \A y \in T : Min(T) <= y
<1>1. \E x \in T : \A y \in T : x <= y
  BY LeastNatural
<1> QED
  BY <1>1, Zenon DEF Min

LEMMA IndexType ==
  ASSUME NEW s \in Seq(Entry), NEW e
  PROVE  Index(s, e) \in 0..Len(s)
<1> DEFINE T == {i \in 1..Len(s) : s[i] = e}
<1>1. Index(s, e) = IF T # {} THEN Min(T) ELSE 0
  BY DEF Index, SelectInSeq
<1>2. T # {} => Min(T) \in T
  <2>1. T \subseteq Nat
    OBVIOUS
  <2> HIDE DEF T
  <2> QED
    BY <2>1, MinOfNaturals
<1> QED
  BY <1>1, <1>2

LEMMA WithoutType ==
  ASSUME NEW s \in Seq(Entry), NEW e
  PROVE  Without(s, e) \in Seq(Entry)
<1>1. CASE Contains(s, e)
  <2> DEFINE k == Index(s, e)
  <2>1. k \in 0..Len(s) /\ Len(s) \in Nat
    BY IndexType
  <2> HIDE DEF k
  <2>2. SubSeq(s, 1, k - 1) \in Seq(Entry)
    <3>1. \A i \in 1..(k - 1) : s[i] \in Entry
      BY <2>1
    <3> QED
      BY <2>1, <3>1, SubSeqProperties
  <2>3. SubSeq(s, k + 1, Len(s)) \in Seq(Entry)
    <3>1. \A i \in (k + 1)..Len(s) : s[i] \in Entry
      BY <2>1
    <3> QED
      BY <2>1, <3>1, SubSeqProperties
  <2>4. SubSeq(s, 1, k - 1) \o SubSeq(s, k + 1, Len(s)) \in Seq(Entry)
    BY <2>2, <2>3, ConcatProperties
  <2> QED
    BY <1>1, <2>4 DEF Without, RemoveAt, k
<1>2. CASE ~Contains(s, e)
  BY <1>2 DEF Without
<1> QED
  BY <1>1, <1>2

(***************************************************************************)
(* The loops that delete from the list they range over                     *)
(***************************************************************************)

\* What holds at each turn: the array the loop reads from is still long enough.
ServiceTurns == {a \in [l : Slice, n : Nat, panic : BOOLEAN] : Points(a.l, Header(list))}

HopTurns ==
  {a \in [l : Slice, n : Nat, panic : BOOLEAN, worker : Node \cup {"none"},
          healed : SUBSET Entry, added : SUBSET Node] : Points(a.l, Header(list))}

LEMMA EntryRead ==
  ASSUME list \in Slice, NEW l \in Slice, Points(l, Header(list)), NEW i \in 1..list.len
  PROVE  l.arrays[list.at][i] \in Entry
<1>1. Header(list) \in [at : Nat, len : Nat]
  BY HeaderType
<1>2. l.arrays[list.at] \in Seq(Entry) /\ list.len \in 0..Len(l.arrays[list.at])
  BY <1>1, ArrayOfHeader DEF Header
<1> QED
  BY <1>2

\* A deletion through the current header.
LEMMA DeletionType ==
  ASSUME list \in Slice, NEW l \in Slice, Points(l, Header(list)), l.len > 0, NEW i \in Nat
  PROVE  Deleted(l, Header(l), i) \in Slice
         /\ Points(Deleted(l, Header(l), i), Header(list))
<1>1. Header(list) \in [at : Nat, len : Nat] /\ Header(l) \in [at : Nat, len : Nat]
      /\ Points(l, Header(l)) /\ Header(l).len > 0
  BY HeaderType DEF Header
<1>2. Deleted(l, Header(l), i) \in Slice /\ Grows(l, Deleted(l, Header(l), i))
  BY <1>1, DeletedType
<1> QED
  BY <1>1, <1>2, PointsKept

LEMMA AdditionType ==
  ASSUME list \in Slice, NEW l \in Slice, Points(l, Header(list)), NEW e \in Entry,
         NEW room \in BOOLEAN
  PROVE  LET m == Appended(l, Header(l), e, room)
         IN m \in Slice /\ Points(m, Header(list))
<1>1. Header(list) \in [at : Nat, len : Nat] /\ Header(l) \in [at : Nat, len : Nat]
      /\ Points(l, Header(l))
  BY HeaderType
<1>2. Appended(l, Header(l), e, room) \in Slice
      /\ Grows(l, Appended(l, Header(l), e, room))
  BY <1>1, AppendedType
<1>3. Points(Appended(l, Header(l), e, room), Header(list))
  BY <1>1, <1>2, PointsKept
<1> QED
  BY <1>2, <1>3

LEMMA VisitServiceType ==
  ASSUME list \in Slice, NEW a \in ServiceTurns, NEW i \in 1..list.len, NEW there
  PROVE  VisitService(a, i, there) \in ServiceTurns
<1>1. /\ a.l \in Slice /\ a.n \in Nat /\ a.panic \in BOOLEAN
      /\ Points(a.l, Header(list)) /\ a = [l |-> a.l, n |-> a.n, panic |-> a.panic]
  BY DEF ServiceTurns
<1>2. i \in Nat
  BY DEF Slice
<1> DEFINE emptied == [a EXCEPT !.l = [@ EXCEPT !.len = 0], !.n = @ + 1]
<1>3. emptied \in ServiceTurns
  <2> DEFINE m == [a.l EXCEPT !.len = 0]
  <2>1. a.l.arrays \in Seq(Seq(Entry)) /\ a.l.at \in 1..Len(a.l.arrays)
        /\ a.l.arrays[a.l.at] \in Seq(Entry)
    BY <1>1, HeaderType, ArrayOfHeader DEF Slice, Header
  <2>2. m \in Slice
    <3>1. m = [arrays |-> a.l.arrays, at |-> a.l.at, len |-> 0]
      BY <1>1 DEF Slice
    <3>2. a.l.at \in Nat /\ Len(a.l.arrays[a.l.at]) \in Nat
      BY <2>1
    <3>3. m \in [arrays : Seq(Seq(Entry)), at : Nat, len : Nat]
      BY <2>1, <3>1, <3>2
    <3>4. Points(m, Header(m))
      BY <2>1, <3>1, <3>2 DEF Points, Header
    <3> HIDE DEF m
    <3> QED
      BY <3>3, <3>4 DEF Slice
  <2>3. Points(m, Header(list))
    BY <1>1 DEF Points, Slice
  <2>5. emptied = [a EXCEPT !.l = m, !.n = @ + 1]
    OBVIOUS
  <2> HIDE DEF m, emptied
  <2>4. emptied = [l |-> m, n |-> a.n + 1, panic |-> a.panic]
    BY <1>1, <2>5
  <2> QED
    BY <1>1, <2>2, <2>3, <2>4 DEF ServiceTurns
<1>4. DeleteAt(a, i) \in ServiceTurns
  <2>1. CASE InRange(Header(a.l), i)
    <3>1. a.l.len > 0
      BY <1>1, <2>1 DEF InRange, Header, Slice
    <3> DEFINE m == Deleted(a.l, Header(a.l), i)
    <3>2. m \in Slice /\ Points(m, Header(list))
      BY <1>1, <1>2, <3>1, DeletionType
    <3>3. DeleteAt(a, i) = [l |-> m, n |-> a.n + 1, panic |-> a.panic]
      BY <1>1, <2>1 DEF DeleteAt
    <3> HIDE DEF m
    <3> QED
      BY <1>1, <3>2, <3>3 DEF ServiceTurns
  <2>2. CASE ~InRange(Header(a.l), i)
    <3> DEFINE yes == TRUE
    <3>1. yes \in BOOLEAN /\ DeleteAt(a, i) = [a EXCEPT !.panic = yes]
      BY <2>2 DEF DeleteAt
    <3> HIDE DEF yes
    <3>2. DeleteAt(a, i) = [l |-> a.l, n |-> a.n, panic |-> yes]
      BY <1>1, <3>1
    <3> QED
      BY <1>1, <3>1, <3>2 DEF ServiceTurns
  <2> QED
    BY <2>1, <2>2
<1>5. VisitService(a, i, there) \in {a, emptied, DeleteAt(a, i)}
  BY DEF VisitService
<1> QED
  BY <1>3, <1>4, <1>5

LEMMA VisitHopType ==
  ASSUME list \in Slice, NEW a \in HopTurns, NEW i \in 1..list.len, NEW silent, NEW unread, NEW room \in BOOLEAN
  PROVE  VisitHop(a, i, silent, unread, room) \in HopTurns
<1>1. /\ a.l \in Slice /\ a.n \in Nat /\ a.panic \in BOOLEAN
      /\ a.worker \in Node \cup {"none"} /\ a.healed \in SUBSET Entry
      /\ a.added \in SUBSET Node /\ Points(a.l, Header(list))
      /\ a = [l |-> a.l, n |-> a.n, panic |-> a.panic, worker |-> a.worker,
              healed |-> a.healed, added |-> a.added]
  BY DEF HopTurns
<1>2. i \in Nat
  BY DEF Slice
<1> DEFINE check  == a.l.arrays[list.at][i]
           worker == IF Kind(check) = "down" THEN check[2] ELSE a.worker
           e      == <<"nospeaker", worker>>
           b      == [a EXCEPT !.worker = worker]
           found  == Contains(Content(b.l), e)
           c      == IF found
                       THEN [b EXCEPT !.l = Deleted(@, Header(@), Index(Content(@), e)),
                                      !.n = @ + 1, !.healed = @ \cup {e}]
                       ELSE b
           d      == [b EXCEPT !.l = Appended(@, Header(@), e, room \/ HasRoom(@, Header(@))),
                               !.added = @ \cup {worker}]
<1>3. worker \in Node \cup {"none"}
  <2>1. check \in Entry
    BY <1>1, EntryRead
  <2> HIDE DEF check
  <2>2. Kind(check) = "down" => check[2] \in Node
    BY <2>1 DEF Entry, MCP, ServiceKind, Kind
  <2> QED
    BY <1>1, <2>2
<1>4. worker # "none" => e \in Entry
  <2> HIDE DEF worker
  <2> QED
    BY <1>3 DEF Entry, NodeKind
<1> HIDE DEF worker
<1>5. b = [l |-> a.l, n |-> a.n, panic |-> a.panic, worker |-> worker,
           healed |-> a.healed, added |-> a.added]
  BY <1>1
<1>6. b \in HopTurns /\ b.l = a.l
  BY <1>1, <1>3, <1>5 DEF HopTurns
<1> HIDE DEF b, e
<1>7. ASSUME worker # "none" PROVE c \in HopTurns
  <2>1. CASE found
    <3> DEFINE k == Index(Content(a.l), e)
               m == Deleted(a.l, Header(a.l), k)
    <3>1. Content(a.l) \in Seq(Entry) /\ Len(Content(a.l)) = a.l.len
      BY <1>1, ContentType
    <3>2. k \in Nat
      BY <3>1, IndexType
    <3>3. a.l.len > 0
      <4>1. \E j \in 1..a.l.len : TRUE
        BY <1>6, <2>1, <3>1 DEF Contains
      <4>2. a.l.len \in Nat
        BY <1>1 DEF Slice
      <4> QED
        BY <4>1, <4>2
    <3> HIDE DEF k
    <3>4. m \in Slice /\ Points(m, Header(list))
      BY <1>1, <3>2, <3>3, DeletionType
    <3>5. c = [l |-> m, n |-> a.n + 1, panic |-> a.panic, worker |-> worker,
               healed |-> a.healed \cup {e}, added |-> a.added]
      BY <1>5, <1>6, <2>1 DEF k
    <3> HIDE DEF c, m
    <3> QED
      BY <1>1, <1>3, <1>4, <1>7, <3>4, <3>5 DEF HopTurns
  <2>2. CASE ~found
    BY <1>6, <2>2
  <2> QED
    BY <2>1, <2>2
<1>8. ASSUME worker # "none" PROVE d \in HopTurns
  <2> DEFINE fits == room \/ HasRoom(b.l, Header(b.l))
             m == Appended(b.l, Header(b.l), e, fits)
  <2>0. fits \in BOOLEAN
    BY DEF HasRoom
  <2> HIDE DEF fits
  <2>1. m \in Slice /\ Points(m, Header(list))
    BY <1>1, <1>4, <1>6, <1>8, <2>0, AdditionType
  <2> USE DEF fits
  <2>2. d = [b EXCEPT !.l = m, !.added = @ \cup {worker}]
    OBVIOUS
  <2> HIDE DEF d, m, fits
  <2>3. d = [l |-> m, n |-> a.n, panic |-> a.panic, worker |-> worker,
             healed |-> a.healed, added |-> a.added \cup {worker}]
    BY <1>5, <2>2
  <2> QED
    BY <1>1, <1>3, <1>4, <1>8, <2>1, <2>3 DEF HopTurns
<1>9. ASSUME NEW x \in HopTurns PROVE DeleteAt(x, i) \in HopTurns
  <2>0. /\ x.l \in Slice /\ x.n \in Nat /\ x.panic \in BOOLEAN
        /\ x.worker \in Node \cup {"none"} /\ x.healed \in SUBSET Entry
        /\ x.added \in SUBSET Node /\ Points(x.l, Header(list))
        /\ x = [l |-> x.l, n |-> x.n, panic |-> x.panic, worker |-> x.worker,
                healed |-> x.healed, added |-> x.added]
    BY DEF HopTurns
  <2>1. CASE InRange(Header(x.l), i)
    <3>1. x.l.len > 0
      BY <2>0, <2>1 DEF InRange, Header, Slice
    <3> DEFINE m == Deleted(x.l, Header(x.l), i)
    <3>2. m \in Slice /\ Points(m, Header(list))
      BY <1>2, <2>0, <3>1, DeletionType
    <3>3. DeleteAt(x, i) = [l |-> m, n |-> x.n + 1, panic |-> x.panic, worker |-> x.worker,
                            healed |-> x.healed, added |-> x.added]
      BY <2>0, <2>1 DEF DeleteAt
    <3> HIDE DEF m
    <3> QED
      BY <2>0, <3>2, <3>3 DEF HopTurns
  <2>2. CASE ~InRange(Header(x.l), i)
    <3> DEFINE yes == TRUE
    <3>1. yes \in BOOLEAN /\ DeleteAt(x, i) = [x EXCEPT !.panic = yes]
      BY <2>2 DEF DeleteAt
    <3> HIDE DEF yes
    <3>2. DeleteAt(x, i) = [l |-> x.l, n |-> x.n, panic |-> yes, worker |-> x.worker,
                            healed |-> x.healed, added |-> x.added]
      BY <2>0, <3>1
    <3> QED
      BY <2>0, <3>1, <3>2 DEF HopTurns
  <2> QED
    BY <2>1, <2>2
<1>10. \/ VisitHop(a, i, silent, unread, room) \in {a, b}
       \/ worker # "none" /\ VisitHop(a, i, silent, unread, room) \in {c, d, DeleteAt(c, i)}
  BY DEF VisitHop, worker, b, e
<1> HIDE DEF c, d
<1> QED
  BY <1>6, <1>7, <1>8, <1>9, <1>10

LEMMA ServicesLoopType ==
  ASSUME list \in Slice, NEW there
  PROVE  ServicesThatAreGone(there) \in ServiceTurns
<1> DEFINE L == list.len
           no == FALSE
           start == [l |-> list, n |-> 0, panic |-> no]
           step == [x \in ServiceTurns \X (1..L) |-> VisitService(x[1], x[2], there)]
           turn(z, i) == CHOOSE b \in {VisitService(a, i, there) : a \in {z}} : TRUE
           Eq(g) == g = [i \in 0..L |-> IF i = 0 THEN start ELSE turn(g[i - 1], i)]
           done == CHOOSE g : Eq(g)
<1>1. L \in Nat
  BY DEF Slice
<1>2. start \in ServiceTurns
  <2>1. no \in BOOLEAN
    OBVIOUS
  <2> HIDE DEF no
  <2>2. start \in [l : Slice, n : Nat, panic : BOOLEAN]
    BY <2>1
  <2> QED
    BY <2>2, HeaderType DEF ServiceTurns
<1>3. \A a \in ServiceTurns, i \in 1..L : VisitService(a, i, there) \in ServiceTurns
  BY VisitServiceType
<1>4. \E g : Eq(g)
  <2> HIDE DEF start
  <2>1. step \in [ServiceTurns \X (1..L) -> ServiceTurns]
    BY <1>3
  <2>2. \A a \in ServiceTurns, i \in 1..L : step[<<a, i>>] = VisitService(a, i, there)
    OBVIOUS
  <2> HIDE DEF step, L
  <2>3. PICK g : Iterates(g, start, step, L)
    BY <1>1, <1>2, <2>1, IterationExists
  <2>4. g \in [0..L -> ServiceTurns]
    BY <1>1, <1>2, <2>1, <2>3, IterationType
  <2>5. \A i \in 0..L : (IF i = 0 THEN start ELSE step[<<g[i - 1], i>>]) =
                          (IF i = 0 THEN start ELSE turn(g[i - 1], i))
    <3> TAKE i \in 0..L
    <3>1. CASE i # 0
      <4>1. i - 1 \in 0..L /\ i \in 1..L
        BY <1>1, <3>1
      <4>2. step[<<g[i - 1], i>>] = VisitService(g[i - 1], i, there)
        BY <2>2, <2>4, <4>1
      <4>3. turn(g[i - 1], i) = VisitService(g[i - 1], i, there)
        OBVIOUS
      <4> QED
        BY <3>1, <4>2, <4>3
    <3> QED
      BY <3>1
  <2> HIDE DEF turn
  <2> QED
    BY <2>3, <2>5 DEF Iterates
<1>5. Eq(done)
  <2> HIDE DEF Eq
  <2> QED
    BY <1>4
<1>6. ServicesThatAreGone(there) = done[L]
  BY DEF ServicesThatAreGone, Loops
<1> HIDE DEF done, start, L
<1>7. done[0] = start /\ \A i \in 1..L : done[i] = VisitService(done[i - 1], i, there)
  <2>1. 0 \in 0..L /\ \A i \in 1..L : i \in 0..L /\ i # 0
    BY <1>1
  <2>2. \A i \in 1..L : done[i] = turn(done[i - 1], i)
    BY <1>5, <2>1
  <2>3. ASSUME NEW i \in 1..L
        PROVE  turn(done[i - 1], i) = VisitService(done[i - 1], i, there)
    OBVIOUS
  <2> QED
    BY <1>5, <2>1, <2>2, <2>3
<1>8. \A n \in Nat : n \in {m \in Nat : m <= L => done[m] \in ServiceTurns}
  <2> DEFINE T == {m \in Nat : m <= L => done[m] \in ServiceTurns}
  <2>1. 0 \in T
    BY <1>2, <1>7
  <2>2. ASSUME NEW n \in Nat, n \in T PROVE n + 1 \in T
    <3> SUFFICES ASSUME n + 1 <= L PROVE done[n + 1] \in ServiceTurns
      OBVIOUS
    <3>1. done[n] \in ServiceTurns /\ n + 1 \in 1..L /\ n + 1 \in 0..L /\ (n + 1) - 1 = n
      BY <1>1, <2>2
    <3>2. done[n + 1] = VisitService(done[n], n + 1, there)
      BY <1>7, <3>1
    <3> QED
      BY <1>3, <3>1, <3>2
  <2> HIDE DEF T
  <2>3. Nat \subseteq T
    BY <2>1, <2>2, NatInductionSet
  <2> QED
    BY <2>3 DEF T
<1> QED
  BY <1>1, <1>6, <1>8

LEMMA HopsLoopType ==
  ASSUME list \in Slice, NEW silent, NEW unread, NEW room \in BOOLEAN
  PROVE  HopsThatAreGone(silent, unread, room) \in HopTurns
<1> DEFINE L == list.len
           no == FALSE
           start == [l |-> list, n |-> 0, panic |-> no, worker |-> "none", healed |-> {}, added |-> {}]
           step == [x \in HopTurns \X (1..L) |-> VisitHop(x[1], x[2], silent, unread, room)]
           turn(z, i) == CHOOSE b \in {VisitHop(a, i, silent, unread, room) : a \in {z}} : TRUE
           Eq(g) == g = [i \in 0..L |-> IF i = 0 THEN start ELSE turn(g[i - 1], i)]
           done == CHOOSE g : Eq(g)
<1>1. L \in Nat
  BY DEF Slice
<1>2. start \in HopTurns
  <2>1. no \in BOOLEAN
    OBVIOUS
  <2> HIDE DEF no
  <2>2. start \in [l : Slice, n : Nat, panic : BOOLEAN, worker : Node \cup {"none"},
                   healed : SUBSET Entry, added : SUBSET Node]
    BY <2>1
  <2> QED
    BY <2>2, HeaderType DEF HopTurns
<1>3. \A a \in HopTurns, i \in 1..L : VisitHop(a, i, silent, unread, room) \in HopTurns
  BY VisitHopType
<1>4. \E g : Eq(g)
  <2> HIDE DEF start
  <2>1. step \in [HopTurns \X (1..L) -> HopTurns]
    BY <1>3
  <2>2. \A a \in HopTurns, i \in 1..L : step[<<a, i>>] = VisitHop(a, i, silent, unread, room)
    OBVIOUS
  <2> HIDE DEF step, L
  <2>3. PICK g : Iterates(g, start, step, L)
    BY <1>1, <1>2, <2>1, IterationExists
  <2>4. g \in [0..L -> HopTurns]
    BY <1>1, <1>2, <2>1, <2>3, IterationType
  <2>5. \A i \in 0..L : (IF i = 0 THEN start ELSE step[<<g[i - 1], i>>]) =
                          (IF i = 0 THEN start ELSE turn(g[i - 1], i))
    <3> TAKE i \in 0..L
    <3>1. CASE i # 0
      <4>1. i - 1 \in 0..L /\ i \in 1..L
        BY <1>1, <3>1
      <4>2. step[<<g[i - 1], i>>] = VisitHop(g[i - 1], i, silent, unread, room)
        BY <2>2, <2>4, <4>1
      <4>3. turn(g[i - 1], i) = VisitHop(g[i - 1], i, silent, unread, room)
        OBVIOUS
      <4> QED
        BY <3>1, <4>2, <4>3
    <3> QED
      BY <3>1
  <2> HIDE DEF turn
  <2> QED
    BY <2>3, <2>5 DEF Iterates
<1>5. Eq(done)
  <2> HIDE DEF Eq
  <2> QED
    BY <1>4
<1>6. HopsThatAreGone(silent, unread, room) = done[L]
  BY DEF HopsThatAreGone, Loops
<1> HIDE DEF done, start, L
<1>7. done[0] = start /\ \A i \in 1..L : done[i] = VisitHop(done[i - 1], i, silent, unread, room)
  <2>1. 0 \in 0..L /\ \A i \in 1..L : i \in 0..L /\ i # 0
    BY <1>1
  <2>2. \A i \in 1..L : done[i] = turn(done[i - 1], i)
    BY <1>5, <2>1
  <2>3. ASSUME NEW i \in 1..L
        PROVE  turn(done[i - 1], i) = VisitHop(done[i - 1], i, silent, unread, room)
    OBVIOUS
  <2> QED
    BY <1>5, <2>1, <2>2, <2>3
<1>8. \A n \in Nat : n \in {m \in Nat : m <= L => done[m] \in HopTurns}
  <2> DEFINE T == {m \in Nat : m <= L => done[m] \in HopTurns}
  <2>1. 0 \in T
    BY <1>2, <1>7
  <2>2. ASSUME NEW n \in Nat, n \in T PROVE n + 1 \in T
    <3> SUFFICES ASSUME n + 1 <= L PROVE done[n + 1] \in HopTurns
      OBVIOUS
    <3>1. done[n] \in HopTurns /\ n + 1 \in 1..L /\ n + 1 \in 0..L /\ (n + 1) - 1 = n
      BY <1>1, <2>2
    <3>2. done[n + 1] = VisitHop(done[n], n + 1, silent, unread, room)
      BY <1>7, <3>1
    <3> QED
      BY <1>3, <3>1, <3>2
  <2> HIDE DEF T
  <2>3. Nat \subseteq T
    BY <2>1, <2>2, NatInductionSet
  <2> QED
    BY <2>3 DEF T
<1> QED
  BY <1>1, <1>6, <1>8

(***************************************************************************)
(* The jobs of the goroutines                                              *)
(***************************************************************************)

\* SetToSeq lists each element of a finite set once.
LEMMA SetToSeqType ==
  ASSUME NEW S, IsFiniteSet(S)
  PROVE  /\ Cardinality(S) \in Nat
         /\ SetToSeq(S) \in [1..Cardinality(S) -> S] /\ SetToSeq(S) \in Seq(S)
         /\ Len(SetToSeq(S)) = Cardinality(S)
<1>1. Cardinality(S) \in Nat /\ ExistsBijection(1..Cardinality(S), S)
  BY FS_CardinalityType
<1>2. \E f \in [1..Cardinality(S) -> S] : IsInjective(f)
  BY <1>1 DEF ExistsBijection, Bijection, Injection
<1>3. SetToSeq(S) \in [1..Cardinality(S) -> S]
  BY <1>2, Zenon DEF SetToSeq
<1> DEFINE q == SetToSeq(S)
           n == Cardinality(S)
<1> HIDE DEF q, n
<1>4. n \in Nat /\ q \in [1..n -> S]
  BY <1>1, <1>3 DEF q, n
<1>5. q \in Seq(S) /\ Len(q) = n
  BY <1>4
<1> QED
  BY <1>4, <1>5 DEF q, n

\* A goroutine gets no check its job does not have.
LEMMA HandledType ==
  ASSUME NEW X, NEW job \in Seq(X)
  PROVE  Handled(job) \in Seq(X)
<1> DEFINE L == Len(job)
           step == [x \in Seq(X) \X (1..L) |->
                      IF Handles(job[x[2]]) THEN Append(x[1], job[x[2]]) ELSE x[1]]
           Eq(g) == g = [i \in 0..L |->
                           IF i = 0 THEN <<>>
                           ELSE IF Handles(job[i]) THEN Append(g[i - 1], job[i])
                                                   ELSE g[i - 1]]
           kept == CHOOSE g : Eq(g)
<1>1. L \in Nat /\ \A i \in 1..L : job[i] \in X
  OBVIOUS
<1>2. step \in [Seq(X) \X (1..L) -> Seq(X)]
  <2>1. \A q \in Seq(X), i \in 1..L :
          (IF Handles(job[i]) THEN Append(q, job[i]) ELSE q) \in Seq(X)
    BY <1>1
  <2> QED
    BY <2>1
<1>3. \A q \in Seq(X), i \in 1..L :
        step[<<q, i>>] = IF Handles(job[i]) THEN Append(q, job[i]) ELSE q
  OBVIOUS
<1>4. PICK g : Iterates(g, <<>>, step, L)
  <2> HIDE DEF step, L
  <2>1. <<>> \in Seq(X)
    OBVIOUS
  <2> QED
    BY <1>1, <1>2, <2>1, IterationExists
<1>5. g \in [0..L -> Seq(X)]
  <2> HIDE DEF step, L
  <2>1. <<>> \in Seq(X)
    OBVIOUS
  <2> QED
    BY <1>1, <1>2, <1>4, <2>1, IterationType
<1>6. Eq(g)
  <2> HIDE DEF step, L
  <2>1. \A i \in 0..L : (IF i = 0 THEN <<>> ELSE step[<<g[i - 1], i>>]) =
          (IF i = 0 THEN <<>>
           ELSE IF Handles(job[i]) THEN Append(g[i - 1], job[i]) ELSE g[i - 1])
    <3> TAKE i \in 0..L
    <3>1. CASE i # 0
      <4>1. i - 1 \in 0..L /\ i \in 1..L /\ g[i - 1] \in Seq(X)
        BY <1>1, <1>5, <3>1
      <4> QED
        BY <1>3, <3>1, <4>1
    <3> QED
      BY <3>1
  <2> QED
    BY <1>4, <2>1 DEF Iterates
<1>7. Eq(kept)
  <2> HIDE DEF Eq
  <2> QED
    BY <1>6
<1>8. Handled(job) = kept[L]
  BY DEF Handled
<1> HIDE DEF kept, L
<1>9. /\ kept[0] = <<>>
      /\ \A i \in 1..L : kept[i] = IF Handles(job[i]) THEN Append(kept[i - 1], job[i])
                                                      ELSE kept[i - 1]
  <2>1. 0 \in 0..L /\ \A i \in 1..L : i \in 0..L /\ i # 0
    BY <1>1
  <2> QED
    BY <1>7, <2>1
<1> DEFINE T == {n \in Nat : n <= L => kept[n] \in Seq(X)}
<1>10. 0 \in T
  <2> DEFINE none == <<>>
  <2>1. none \in Seq(X) /\ kept[0] = none
    BY <1>9
  <2> HIDE DEF none
  <2> QED
    BY <2>1
<1>11. ASSUME NEW n \in Nat, n \in T PROVE n + 1 \in T
  <2> SUFFICES ASSUME n + 1 <= L PROVE kept[n + 1] \in Seq(X)
    OBVIOUS
  <2>1. kept[n] \in Seq(X) /\ n + 1 \in 1..L /\ (n + 1) - 1 = n
    BY <1>1, <1>11
  <2>2. job[n + 1] \in X
    BY <1>1, <2>1
  <2>3. kept[n + 1] = IF Handles(job[n + 1]) THEN Append(kept[n], job[n + 1]) ELSE kept[n]
    BY <1>9, <2>1
  <2> QED
    BY <2>1, <2>2, <2>3
<1>12. Nat \subseteq T
  <2> HIDE DEF T
  <2> QED
    BY <1>10, <1>11, NatInductionSet
<1> QED
  BY <1>1, <1>8, <1>12

LEMMA FlattenType ==
  ASSUME NEW X, NEW seqs \in Seq(Seq(X))
  PROVE  FlattenSeq(seqs) \in Seq(X)
<1> DEFINE L == Len(seqs)
           step == [x \in Seq(X) \X (1..L) |->
                      IF x[2] = 1 THEN seqs[x[2]] ELSE x[1] \o seqs[x[2]]]
           Eq(g) == g = [i \in 1..L |-> IF i = 1 THEN seqs[i] ELSE g[i - 1] \o seqs[i]]
           flatten == CHOOSE g : Eq(g)
<1>1. L \in Nat /\ \A i \in 1..L : seqs[i] \in Seq(X)
  OBVIOUS
<1>2. step \in [Seq(X) \X (1..L) -> Seq(X)]
  <2>1. \A q \in Seq(X), i \in 1..L : (IF i = 1 THEN seqs[i] ELSE q \o seqs[i]) \in Seq(X)
    BY <1>1, ConcatProperties
  <2> QED
    BY <2>1
<1>3. \A q \in Seq(X), i \in 1..L :
        step[<<q, i>>] = IF i = 1 THEN seqs[i] ELSE q \o seqs[i]
  OBVIOUS
<1>0. <<>> \in Seq(X)
  OBVIOUS
<1>9. PICK g : Iterates(g, <<>>, step, L)
  <2> HIDE DEF step, L
  <2> QED
    BY <1>0, <1>1, <1>2, IterationExists
<1>4. g \in [0..L -> Seq(X)]
  <2> HIDE DEF step, L
  <2> QED
    BY <1>0, <1>1, <1>2, <1>9, IterationType
<1>5. Eq([i \in 1..L |-> g[i]])
  <2> HIDE DEF step, L
  <2> DEFINE h == [i \in 1..L |-> g[i]]
  <2>1. \A i \in 1..L : h[i] = (IF i = 1 THEN seqs[i] ELSE h[i - 1] \o seqs[i])
    <3> TAKE i \in 1..L
    <3>1. i - 1 \in 0..L /\ i \in 0..L /\ i # 0 /\ g[i - 1] \in Seq(X)
      BY <1>1, <1>4
    <3>2. g[i] = step[<<g[i - 1], i>>]
      BY <1>9, <3>1 DEF Iterates
    <3>3. g[i] = IF i = 1 THEN seqs[i] ELSE g[i - 1] \o seqs[i]
      BY <1>3, <3>1, <3>2
    <3>4. i # 1 => i - 1 \in 1..L /\ h[i - 1] = g[i - 1]
      BY <1>1
    <3> HIDE DEF h
    <3>5. h[i] = g[i]
      BY DEF h
    <3> QED
      BY <3>3, <3>4, <3>5
  <2> QED
    BY <2>1
<1>6. Eq(flatten)
  <2> HIDE DEF Eq
  <2> QED
    BY <1>5
<1>7. CASE L = 0
  BY <1>7 DEF FlattenSeq
<1>8. CASE L # 0
  <2>1. FlattenSeq(seqs) = flatten[L]
    BY <1>8 DEF FlattenSeq
  <2> HIDE DEF flatten, L
  <2>2. \A i \in 1..L : flatten[i] = IF i = 1 THEN seqs[i] ELSE flatten[i - 1] \o seqs[i]
    BY <1>6
  <2> DEFINE T == {n \in Nat : n \in 1..L => flatten[n] \in Seq(X)}
  <2>3. 0 \in T
    BY <1>1
  <2>4. ASSUME NEW n \in Nat, n \in T PROVE n + 1 \in T
    <3> SUFFICES ASSUME n + 1 \in 1..L PROVE flatten[n + 1] \in Seq(X)
      OBVIOUS
    <3>1. CASE n = 0
      BY <1>1, <2>2, <3>1
    <3>2. CASE n # 0
      <4>1. n \in 1..L /\ (n + 1) - 1 = n /\ n + 1 # 1
        BY <1>1, <3>2
      <4>2. flatten[n] \in Seq(X)
        BY <2>4, <4>1
      <4>3. flatten[n + 1] = flatten[n] \o seqs[n + 1]
        BY <2>2, <4>1
      <4>4. seqs[n + 1] \in Seq(X)
        BY <1>1
      <4> QED
        BY <4>2, <4>3, <4>4, ConcatProperties
    <3> QED
      BY <3>1, <3>2
  <2>5. Nat \subseteq T
    <3> HIDE DEF T
    <3> QED
      BY <2>3, <2>4, NatInductionSet
  <2> QED
    BY <1>1, <1>8, <2>1, <2>5
<1> QED
  BY <1>7, <1>8

(***************************************************************************)
(* What the steps leave alone                                              *)
(***************************************************************************)

ScanPhase ==
  \/ Gate \/ ListServices \/ FetchPools \/ FetchAds \/ FetchEndpoints
  \/ CheckNoEndpoints \/ FetchHops \/ CheckHops \/ Cleanup \/ FetchRoutes \/ CheckRoutes
  \/ CleanServices \/ Conclude

FetchPhase ==
  \/ ListServices \/ FetchPools \/ FetchAds \/ FetchEndpoints \/ CheckNoEndpoints
  \/ FetchHops \/ CheckHops \/ FetchRoutes \/ CheckRoutes

ThreadStep(t) ==
  \/ Test(t) \/ Mail(t) \/ FindIndex(t) \/ Load(t) \/ StoreAppend(t) \/ Post(t)
  \/ StoreDelete(t)

ClusterChange ==
  \/ \E C \in Events : Toggle(C)
  \/ \E s \in Svc : ServiceDeleted(s) \/ ServiceCreated(s)
  \/ Rolls

LEMMA PhaseFrame == ASSUME ScanPhase PROVE Phase
  BY DEF ScanPhase, Gate, ListServices, FetchPools, FetchAds, FetchEndpoints,
     CheckNoEndpoints, FetchHops, CheckHops, Cleanup, FetchRoutes, CheckRoutes,
     CleanServices, Conclude, Fetch

LEMMA FetchFrame == ASSUME FetchPhase PROVE Fetch
  BY DEF FetchPhase, ListServices, FetchPools, FetchAds, FetchEndpoints,
     CheckNoEndpoints, FetchHops, CheckHops, FetchRoutes, CheckRoutes

LEMMA WorkFrame == ASSUME NEW t, ThreadStep(t) PROVE Working /\ pc = "threads"
  BY DEF ThreadStep, Test, Mail, FindIndex, Load, StoreAppend, Post, StoreDelete, At

LEMMA ChangeFrame == ASSUME ClusterChange PROVE Changes
  BY DEF ClusterChange, Toggle, ServiceDeleted, ServiceCreated, Rolls

\* The steps, by what they leave alone.
LEMMA NextCases ==
  ASSUME [Next]_vars
  PROVE  \/ Get \/ SecretMissing \/ FirstSeen \/ NoClient \/ NotDue \/ StartScan
         \/ ScanPhase
         \/ \E t \in DOMAIN thread : ThreadStep(t) \/ ThreadPanics(t)
         \/ Join \/ Commit \/ CommitFails
         \/ TimerFires \/ WatchEvent \/ Elapse \/ (\E c \in Confs : Edit(c))
         \/ ClusterChange \/ Crash \/ UNCHANGED vars
  BY DEF Next, Reconcile, Environment, Step, ScanPhase, ThreadStep, ClusterChange

\* In a scan, by what it does to the list.
LEMMA PhaseCases ==
  ASSUME ScanPhase
  PROVE  FetchPhase \/ Gate \/ Cleanup \/ CleanServices \/ Conclude
  BY DEF ScanPhase, FetchPhase

LEMMA DieCases ==
  ASSUME (\E t \in DOMAIN thread : ThreadPanics(t)) \/ Crash
  PROVE  Die /\ (UNCHANGED faults \/ Fail(1))
  BY DEF ThreadPanics, Crash

(***************************************************************************)
(* Type correctness                                                        *)
(***************************************************************************)

Phases == {"idle", "setup", "services", "pools", "ads", "endpoints", "noeps", "nodes",
           "hops", "cleanup", "routes", "announced", "clean", "verdict", "threads",
           "commit", "gate1", "gate2", "gate3", "gate4"}

AfterThreads == {"pools", "ads", "gate2", "noeps", "gate3", "hops", "cleanup", "gate4",
                 "announced", "clean", "verdict", "commit"}

ObjectsOK == obj \in Object /\ cache \in Object /\ mem \in Object

FlagsOK ==
  /\ cacheFresh \in BOOLEAN /\ memFresh \in BOOLEAN
  /\ queue \in BOOLEAN /\ timer \in BOOLEAN /\ first \in BOOLEAN
  /\ rolling \in BOOLEAN /\ disturbed \in BOOLEAN /\ skipped \in BOOLEAN

ControlOK == pc \in Phases /\ verdict \in {"again", "done", "error", "panic"}

ReadsOK ==
  /\ lbsvcs \in SUBSET Svc /\ pooled \in SUBSET lbsvcs /\ eps \in SUBSET lbsvcs
  /\ hops \in SUBSET Node /\ seen \in SUBSET Condition
  /\ ScopeInv

ListOK == list \in Slice

ThreadOK ==
  /\ DOMAIN thread \subseteq Thread /\ ThreadInv
  /\ \A t \in DOMAIN thread : thread[t].at = "store" => Points(list, thread[t].hdr)

FilesOK ==
  /\ alerted \in SUBSET Entry
  /\ mails \in [Entry -> Nat] /\ alerts \in [Entry -> Nat] /\ lost \in [Entry -> Nat]

WorldOK ==
  /\ svcs \in SUBSET Svc /\ bad \in SUBSET CanFail
  /\ steady \in SUBSET ever /\ ever \in SUBSET CanFail

BoundsOK == changes \in 0..MaxChanges /\ faults \in 0..MaxFaults

LEMMA AfterGateType ==
  /\ DOMAIN AfterGate = {"gate1", "gate2", "gate3", "gate4"}
  /\ AfterGate["gate1"] = "services" /\ AfterGate["gate2"] = "endpoints"
  /\ AfterGate["gate3"] = "nodes" /\ AfterGate["gate4"] = "routes"
  BY DEF AfterGate

LEMMA TypeParts ==
  TypeInv <=> /\ ObjectsOK /\ FlagsOK /\ ControlOK /\ ReadsOK /\ ListOK /\ ThreadOK
              /\ FilesOK /\ WorldOK /\ BoundsOK
<1>1. ListOK => /\ \A i \in DOMAIN list.arrays : list.arrays[i] \in Seq(Entry)
                /\ list.at \in DOMAIN list.arrays
                /\ list.len \in 0..Len(list.arrays[list.at])
  BY DEF ListOK, Slice, Points, Header
<1>2. ListOK <=> /\ list \in [arrays : Seq(Seq(Entry)), at : Nat, len : Nat]
                 /\ Points(list, Header(list))
  BY DEF ListOK, Slice
<1>3. ThreadInv => \A t \in DOMAIN thread : thread[t] \in Work
  BY DEF ThreadInv
<1>4. ControlOK <=>
        /\ pc \in {"idle", "setup", "services", "pools", "ads", "endpoints", "noeps",
                   "nodes", "hops", "cleanup", "routes", "announced", "clean", "verdict",
                   "threads", "commit"} \cup DOMAIN AfterGate
        /\ verdict \in {"again", "done", "error", "panic"}
  BY AfterGateType DEF ControlOK, Phases
<1> QED
  BY <1>1, <1>2, <1>3, <1>4
     DEF TypeInv, TypeOK, ListInv, ObjectsOK, FlagsOK, ReadsOK, ThreadOK, FilesOK,
         WorldOK, BoundsOK

LEMMA UpdateTypes ==
  ASSUME NEW o \in Object
  PROVE  /\ o.st \in Status /\ o.conf \in Conf
         /\ \A s \in Status : /\ [o EXCEPT !.st = s] \in Object
                              /\ [o EXCEPT !.st = s].st = s
         /\ \A f \in Seq(Entry) : /\ [o EXCEPT !.st.failed = f] \in Object
                                  /\ [o EXCEPT !.st.failed = f].st.ready = o.st.ready
         /\ \A c \in Conf : /\ [o EXCEPT !.conf = c] \in Object
                            /\ [o EXCEPT !.conf = c].st = o.st
         /\ Aged(o) \in Object /\ Aged(o).st.ready = o.st.ready
  BY DEF Object, Status, Aged

LEMMA StatusTypes ==
  ASSUME NEW st \in Status
  PROVE  /\ \A r \in {"none", "Unknown", "True", "False"} :
              /\ SetReadyCondition(st, r) \in Status
              /\ SetReadyCondition(st, r).ready = r
         /\ \A f \in Seq(Entry) : /\ [st EXCEPT !.failed = f] \in Status
                                  /\ [st EXCEPT !.failed = f].ready = st.ready
         /\ \A h \in BOOLEAN : [st EXCEPT !.run = "recent", !.healthy = h] \in Status
  BY DEF Status, SetReadyCondition

LEMMA NothingType == Nothing \in Object
<1> DEFINE no == FALSE
           empty == <<>>
<1>1. no \in BOOLEAN /\ empty \in Seq(Entry)
  OBVIOUS
<1>2. Nothing = [conf |-> [notify |-> no, mail |-> no, suspend |-> no, ignore |-> {}],
                 st |-> [ready |-> "none", run |-> "never", healthy |-> no,
                         failed |-> empty]]
  BY DEF Nothing, EmptyStatus
<1> HIDE DEF no, empty
<1>3. [notify |-> no, mail |-> no, suspend |-> no, ignore |-> {}] \in Conf
  BY <1>1 DEF Conf
<1> QED
  BY <1>1, <1>2, <1>3 DEF Object, Status

LEMMA ReportedType ==
  ASSUME ObjectsOK, ListOK
  PROVE  /\ Reported \in Status /\ [obj EXCEPT !.st = Reported] \in Object
         /\ Reported.ready = IF verdict = "error" THEN "False" ELSE mem.st.ready
<1> DEFINE f == Content(list)
           s == [mem.st EXCEPT !.failed = f]
<1>1. f \in Seq(Entry) /\ mem.st \in Status
  BY ContentType, UpdateTypes DEF ListOK, ObjectsOK
<1> HIDE DEF f
<1>2. s \in Status /\ s.ready = mem.st.ready
  BY <1>1, StatusTypes
<1>3. Reported = IF verdict = "error" THEN SetReadyCondition(s, "False") ELSE s
  BY DEF Reported, f
<1> HIDE DEF s
<1>4. /\ Reported \in Status
      /\ Reported.ready = IF verdict = "error" THEN "False" ELSE mem.st.ready
  BY <1>2, <1>3, StatusTypes
<1> QED
  BY <1>4, UpdateTypes DEF ObjectsOK

LEMMA ObjectsKept ==
  ASSUME TypeInv, [Next]_vars
  PROVE  ObjectsOK'
<1> USE DEF ObjectsOK
<1>0. ObjectsOK /\ ListOK /\ FlagsOK
  BY TypeParts
<1>1. CASE Get
  <2> DEFINE empty == <<>>
  <2>1. empty \in Seq(Entry)
    OBVIOUS
  <2>2. mem' = [cache EXCEPT !.st.failed = empty]
    BY <1>1 DEF Get
  <2> HIDE DEF empty
  <2>4. mem' \in Object
    BY <1>0, <2>1, <2>2, UpdateTypes
  <2> QED
    BY <1>0, <1>1, <2>4 DEF Get, api
<1>2. CASE SecretMissing \/ CommitFails
  BY <1>0, <1>2, NothingType DEF SecretMissing, CommitFails, Prelude, Exit, api
<1>3. CASE FirstSeen
  <2>1. mem' = [mem EXCEPT !.st = SetReadyCondition(mem.st, "Unknown")]
    BY <1>3 DEF FirstSeen
  <2>2. mem' \in Object
    BY <1>0, <2>1, UpdateTypes, StatusTypes
  <2> QED
    BY <1>0, <1>3, <2>2 DEF FirstSeen, Prelude, api
<1>4. CASE NoClient \/ NotDue \/ StartScan
  BY <1>0, <1>4 DEF NoClient, NotDue, StartScan, Prelude, api
<1>5. CASE ScanPhase
  <2>1. obj' = obj /\ cache' = cache
    BY <1>5, PhaseFrame DEF Phase, api
  <2>2. CASE Conclude
    <3> DEFINE empty == list.len = 0
               rd == IF empty THEN "True" ELSE "False"
    <3>1. /\ empty \in BOOLEAN
          /\ mem' = [mem EXCEPT !.st = SetReadyCondition([@ EXCEPT !.run = "recent",
                                                                !.healthy = empty], rd)]
      BY <2>2 DEF Conclude
    <3>2. rd \in {"True", "False"}
      OBVIOUS
    <3> HIDE DEF empty, rd
    <3>3. [mem.st EXCEPT !.run = "recent", !.healthy = empty] \in Status
      BY <1>0, <3>1, UpdateTypes, StatusTypes
    <3>4. mem' \in Object
      BY <1>0, <3>1, <3>2, <3>3, UpdateTypes, StatusTypes
    <3> QED
      BY <1>0, <2>1, <3>4
  <2>3. CASE FetchPhase
    BY <1>0, <2>1, <2>3, FetchFrame DEF Fetch
  <2>4. CASE Gate \/ Cleanup \/ CleanServices
    BY <1>0, <2>1, <2>4 DEF Gate, Cleanup, CleanServices
  <2> QED
    BY <1>5, <2>2, <2>3, <2>4, PhaseCases
<1>6. CASE \E t \in DOMAIN thread : ThreadStep(t)
  BY <1>0, <1>6, WorkFrame DEF Working, api, control
<1>7. CASE (\E t \in DOMAIN thread : ThreadPanics(t)) \/ Crash
  BY <1>0, <1>7, DieCases, NothingType DEF Die, Exit
<1>8. CASE Join
  BY <1>0, <1>8 DEF Join, api
<1>9. CASE Commit
  BY <1>0, <1>9, NothingType, ReportedType DEF Commit, Exit
<1>10. CASE TimerFires \/ WatchEvent
  BY <1>0, <1>10 DEF TimerFires, WatchEvent, api, control
<1>11. CASE Elapse
  BY <1>0, <1>11, UpdateTypes DEF Elapse
<1>12. CASE \E c \in Confs : Edit(c)
  <2>1. PICK c \in Confs : Edit(c)
    BY <1>12
  <2>3. obj' \in Object
    BY <1>0, <2>1, UpdateTypes, ConstantsAssumption DEF Edit
  <2> QED
    BY <1>0, <2>1, <2>3 DEF Edit
<1>13. CASE ClusterChange
  BY <1>0, <1>13, ChangeFrame DEF Changes, api, control
<1>14. CASE UNCHANGED vars
  BY <1>0, <1>14 DEF vars, api, control
<1> QED
  BY <1>1, <1>2, <1>3, <1>4, <1>5, <1>6, <1>7, <1>8, <1>9, <1>10, <1>11, <1>12, <1>13,
     <1>14, NextCases

LEMMA FlagsKept ==
  ASSUME TypeInv, [Next]_vars
  PROVE  FlagsOK'
<1> USE DEF FlagsOK
<1>0. FlagsOK
  BY TypeParts
<1>1. CASE Get
  BY <1>0, <1>1 DEF Get, api, world, scan
<1>2. CASE SecretMissing
  BY <1>0, <1>2 DEF SecretMissing, Prelude, Exit, api, world
<1>3. CASE FirstSeen \/ NoClient \/ NotDue
  BY <1>0, <1>3 DEF FirstSeen, NoClient, NotDue, Prelude, Leave, api, world, scan
<1>4. CASE StartScan
  <2>1. UNCHANGED <<cacheFresh, memFresh, queue, timer, rolling, disturbed, skipped>>
    BY <1>4 DEF StartScan, Prelude, api, world
  <2>2. first' \in BOOLEAN
    BY <1>4, Zenon DEF StartScan
  <2> QED
    BY <1>0, <2>1, <2>2
<1>5. CASE ScanPhase
  <2>1. UNCHANGED <<cacheFresh, memFresh, queue, timer, first, rolling>>
    BY <1>5, PhaseFrame DEF Phase, api, wq, world
  <2>2. disturbed' \in BOOLEAN
    <3>1. CASE FetchPhase
      BY <1>0, <3>1, FetchFrame DEF Fetch
    <3>2. CASE Gate \/ Conclude
      BY <1>0, <3>2 DEF Gate, Conclude
    <3>3. CASE Cleanup
      <4>1. PICK end : Looped(end, "gate4")
        BY <3>3 DEF Cleanup
      <4> QED
        BY <4>1, Zenon DEF Looped
    <3>4. CASE CleanServices
      <4>1. disturbed' = disturbed \/ \E end : Looped(end, "verdict")
        BY <3>4 DEF CleanServices
      <4>2. CASE disturbed' = disturbed
        BY <1>0, <4>2
      <4>3. CASE \E end : Looped(end, "verdict")
        BY <4>3, Zenon DEF Looped
      <4> QED
        BY <4>1, <4>2, <4>3
    <3> QED
      BY <1>5, <3>1, <3>2, <3>3, <3>4, PhaseCases
  <2>3. skipped' \in BOOLEAN
    <3>1. CASE Gate \/ Conclude \/ CheckNoEndpoints \/ CheckHops \/ CheckRoutes
      BY <1>0, <3>1 DEF Gate, Conclude, CheckNoEndpoints, CheckHops, CheckRoutes
    <3>2. CASE ListServices
      BY <3>2, Zenon DEF ListServices
    <3>3. CASE FetchPools
      BY <3>3, Zenon DEF FetchPools
    <3>4. CASE FetchAds
      BY <3>4, Zenon DEF FetchAds
    <3>5. CASE FetchEndpoints
      BY <3>5, Zenon DEF FetchEndpoints
    <3>6. CASE FetchHops
      BY <3>6, Zenon DEF FetchHops
    <3>7. CASE FetchRoutes
      BY <3>7, Zenon DEF FetchRoutes
    <3>8. CASE Cleanup
      BY <3>8, Zenon DEF Cleanup
    <3>9. CASE CleanServices
      BY <3>9, Zenon DEF CleanServices
    <3> QED
      BY <1>5, <3>1, <3>2, <3>3, <3>4, <3>5, <3>6, <3>7, <3>8, <3>9 DEF ScanPhase
  <2> QED
    BY <1>0, <2>1, <2>2, <2>3
<1>6. CASE \E t \in DOMAIN thread : ThreadStep(t)
  <2>1. PICK t \in DOMAIN thread : ThreadStep(t)
    BY <1>6
  <2>2. UNCHANGED <<cacheFresh, memFresh, queue, timer, first, rolling, skipped>>
    BY <2>1, WorkFrame DEF Working, api, wq, control, world
  <2>3. disturbed' \in BOOLEAN
    <3>1. CASE Test(t) \/ Mail(t) \/ FindIndex(t) \/ Load(t) \/ Post(t)
      BY <1>0, <3>1 DEF Test, Mail, FindIndex, Load, Post
    <3>2. CASE StoreAppend(t)
      BY <3>2, Zenon DEF StoreAppend
    <3>3. CASE StoreDelete(t)
      BY <3>3, Zenon DEF StoreDelete
    <3> QED
      BY <2>1, <3>1, <3>2, <3>3 DEF ThreadStep
  <2> QED
    BY <1>0, <2>2, <2>3
<1>7. CASE (\E t \in DOMAIN thread : ThreadPanics(t)) \/ Crash
  BY <1>0, <1>7, DieCases DEF Die, Exit, world
<1>8. CASE Join
  BY <1>0, <1>8 DEF Join, api, wq, world, scan
<1>9. CASE Commit
  <2>1. cacheFresh' \in BOOLEAN /\ timer' \in BOOLEAN
    BY <1>9, Zenon DEF Commit
  <2>2. UNCHANGED <<queue, rolling>> /\ Exit
    BY <1>9 DEF Commit, world
  <2> QED
    BY <1>0, <2>1, <2>2 DEF Exit
<1>10. CASE CommitFails
  BY <1>0, <1>10 DEF CommitFails, Exit, api, world
<1>11. CASE TimerFires \/ WatchEvent
  BY <1>0, <1>11 DEF TimerFires, WatchEvent, api, control, world, scan
<1>12. CASE Elapse \/ \E c \in Confs : Edit(c)
  BY <1>0, <1>12 DEF Elapse, Edit, wq, world, scan
<1>13. CASE ClusterChange
  <2>1. UNCHANGED <<cacheFresh, memFresh, queue, timer, first, disturbed, skipped>>
    BY <1>13, ChangeFrame DEF Changes, api, wq, control
  <2>2. rolling' \in BOOLEAN
    <3>1. CASE Rolls
      BY <3>1, Zenon DEF Rolls
    <3>2. CASE UNCHANGED rolling
      BY <1>0, <3>2
    <3> QED
      BY <1>13, <3>1, <3>2 DEF ClusterChange, Toggle, ServiceDeleted, ServiceCreated
  <2> QED
    BY <1>0, <2>1, <2>2
<1>14. CASE UNCHANGED vars
  BY <1>0, <1>14 DEF vars, api, wq, control, world, scan
<1> QED
  BY <1>1, <1>2, <1>3, <1>4, <1>5, <1>6, <1>7, <1>8, <1>9, <1>10, <1>11, <1>12, <1>13,
     <1>14, NextCases

\* The goroutines of a phase: each has checks that it may be handed.
Checks == [e : Entry, bad : BOOLEAN]

ChecksOf(t) == {k \in Checks : t \in Makers(k)}

GoodJobs(jobs) ==
  DOMAIN jobs \subseteq Thread /\ \A t \in DOMAIN jobs : jobs[t] \in Seq(ChecksOf(t))

Main == <<"main", 1>>

Starts ==
  \E jobs, next :
    /\ GoodJobs(jobs) /\ Dispatch(jobs, next)
    /\ next \in AfterThreads /\ (next = "commit" => verdict' = "panic")

\* Who makes a check, by its kind.
LEMMA MakersOf ==
  ASSUME NEW k
  PROVE  /\ Kind(k.e) \in {"noip", "nospeaker", "nohops", "norunning"} => Makers(k) = {Main}
         /\ Kind(k.e) = "noep" => Makers(k) = {IF k.bad THEN Main ELSE <<k.e[2], 1>>}
         /\ Kind(k.e) \in {"pool", "down", "bfd"} => Makers(k) = {<<k.e[2], 1>>}
         /\ Kind(k.e) = "pod" =>
              Makers(k) = IF k.bad THEN {k.e[2]} \X Ep ELSE {<<k.e[2], 1>>}
         /\ Kind(k.e) \in {"route", "best"} => Makers(k) = {k.e[2]} \X Ep
         /\ Kind(k.e) = "nopeer" => Makers(k) = {s \in Svc : AdOf[s] = k.e[2]} \X {1}
<1> DEFINE shared == {s \in Svc : AdOf[s] = k.e[2]} \X {1}
           kind == Kind(k.e)
           all == {k.e[2]} \X Ep
           one == {<<k.e[2], 1>>}
<1>1. Makers(k) = CASE kind = "nopeer"                  -> shared
                    [] kind \in {"route", "best"}       -> all
                    [] kind = "pod"                     -> IF k.bad THEN all ELSE one
                    [] kind = "noep"                    -> {<<IF k.bad THEN "main" ELSE k.e[2], 1>>}
                    [] kind \in {"pool", "down", "bfd"} -> one
                    [] OTHER                            -> {Main}
  BY DEF Makers, Main
<1> HIDE DEF kind, shared, all, one
<1>2. k.bad => {<<IF k.bad THEN "main" ELSE k.e[2], 1>>} = {Main}
  BY DEF Main
<1> QED
  BY <1>1, <1>2 DEF kind, shared, all, one, Main

LEMMA CheckForms ==
  ASSUME NEW e
  PROVE  /\ Bad(e).e = e /\ Bad(e).bad /\ Good(e).e = e /\ ~Good(e).bad /\ Check(e).e = e
  BY DEF Bad, Good, Check

LEMMA CheckTypes ==
  ASSUME NEW e \in Entry
  PROVE  /\ \A b \in BOOLEAN : [e |-> e, bad |-> b] \in Checks
         /\ Check(e) \in Checks /\ Bad(e) \in Checks /\ Good(e) \in Checks
<1>1. ASSUME NEW b \in BOOLEAN PROVE [e |-> e, bad |-> b] \in Checks
  BY DEF Checks
<1>2. (e \in bad) \in BOOLEAN /\ TRUE \in BOOLEAN /\ FALSE \in BOOLEAN
  OBVIOUS
<1> QED
  BY <1>1, <1>2, Zenon DEF Check, Bad, Good

LEMMA OneCheck ==
  ASSUME NEW k \in Checks, NEW t, t \in Makers(k)
  PROVE  k \in ChecksOf(t) /\ <<k>> \in Seq(ChecksOf(t))
<1>1. k \in ChecksOf(t)
  BY DEF ChecksOf
<1> HIDE DEF Checks
<1> QED
  BY <1>1

LEMMA ChecksOfChecks == ASSUME NEW t PROVE ChecksOf(t) \subseteq Checks
  BY DEF ChecksOf

LEMMA OneIsEndpoint == 1 \in Ep
  BY ConstantsAssumption DEF Ep

LEMMA MainThread == ASSUME NEW job \in Seq(ChecksOf(Main)) PROVE GoodJobs(Loop(job))
  BY OneIsEndpoint DEF GoodJobs, Loop, Main, Thread

LEMMA ServiceEntries ==
  ASSUME NEW s \in Svc, NEW k \in {"noip", "pool", "pod", "noep", "route", "best"}
  PROVE  <<k, s>> \in Entry
  BY DEF Entry, ServiceKind

LEMMA NodeEntries ==
  ASSUME NEW n \in Node, NEW k \in {"nospeaker", "nohops", "down", "bfd", "norunning"}
  PROVE  <<k, n>> \in Entry
  BY DEF Entry, NodeKind

\* A job that reports one entry of each service of a set.
LEMMA ListedJob ==
  ASSUME NEW S \in SUBSET Svc, NEW k \in {"noip", "noep"}
  PROVE  [i \in 1..Cardinality(S) |-> Bad(<<k, SetToSeq(S)[i]>>)] \in Seq(ChecksOf(Main))
<1>1. IsFiniteSet(S)
  BY ConstantsAssumption, FS_Subset
<1>2. Cardinality(S) \in Nat /\ SetToSeq(S) \in [1..Cardinality(S) -> S]
  BY <1>1, SetToSeqType
<1> DEFINE n == Cardinality(S)
           q == SetToSeq(S)
<1> HIDE DEF n, q
<1>3. n \in Nat /\ q \in [1..n -> S]
  BY <1>2 DEF n, q
<1>4. ASSUME NEW s \in Svc PROVE Bad(<<k, s>>) \in ChecksOf(Main)
  <2> DEFINE e == <<k, s>>
  <2>1. e \in Entry /\ Kind(e) = k
    BY ServiceEntries DEF Kind
  <2> HIDE DEF e
  <2>2. Main \in Makers(Bad(e)) /\ Bad(e) \in Checks
    BY <2>1, MakersOf, CheckForms, CheckTypes
  <2> QED
    BY <2>2, OneCheck DEF e
<1>5. [i \in 1..n |-> Bad(<<k, q[i]>>)] \in Seq(ChecksOf(Main))
  BY <1>3, <1>4
<1> QED
  BY <1>5 DEF n, q

LEMMA ListStarts ==
  ASSUME TypeInv, ListServices
  PROVE  Starts \/ (Return("again") /\ UNCHANGED <<after, thread>>)
<1>1. PICK ok \in BOOLEAN :
        LET all  == IF ok THEN svcs ELSE {}
            noip == {s \in all : <<"noip", s>> \in bad}
        IN IF lbsvcs' = {}
             THEN Return("again") /\ UNCHANGED <<after, thread>>
             ELSE Dispatch(Loop([i \in 1..Cardinality(noip) |->
                                   Bad(<<"noip", SetToSeq(noip)[i]>>)]), "pools")
  BY DEF ListServices
<1> DEFINE noip == {s \in (IF ok THEN svcs ELSE {}) : <<"noip", s>> \in bad}
<1>2. noip \in SUBSET Svc
  BY TypeParts DEF WorldOK
<1> HIDE DEF noip
<1>3. GoodJobs(Loop([i \in 1..Cardinality(noip) |-> Bad(<<"noip", SetToSeq(noip)[i]>>)]))
  BY <1>2, ListedJob, MainThread
<1> QED
  BY <1>1, <1>3 DEF Starts, AfterThreads, noip

LEMMA PoolsStart == ASSUME TypeInv, FetchPools PROVE Starts
<1>1. PICK ok \in BOOLEAN :
        Dispatch([t \in (IF ok /\ NoPools \notin bad THEN lbsvcs ELSE {}) \X {1} |->
                    <<Check(<<"pool", t[1]>>)>>], "ads")
  BY DEF FetchPools
<1> DEFINE jobs == [t \in (IF ok /\ NoPools \notin bad THEN lbsvcs ELSE {}) \X {1} |->
                      <<Check(<<"pool", t[1]>>)>>]
<1>2. lbsvcs \subseteq Svc
  BY TypeParts DEF ReadsOK
<1>3. DOMAIN jobs \subseteq Thread
  BY <1>2, OneIsEndpoint DEF Thread
<1>4. ASSUME NEW t \in DOMAIN jobs PROVE jobs[t] \in Seq(ChecksOf(t))
  <2>1. t[1] \in Svc /\ t = <<t[1], 1>>
    BY <1>2
  <2> DEFINE e == <<"pool", t[1]>>
  <2>2. e \in Entry /\ t[1] = e[2] /\ Kind(e) = "pool"
    BY <2>1, ServiceEntries DEF Kind
  <2>3. jobs[t] = <<Check(e)>>
    OBVIOUS
  <2> HIDE DEF jobs, e
  <2>4. t \in Makers(Check(e)) /\ Check(e) \in Checks
    BY <2>1, <2>2, MakersOf, CheckForms, CheckTypes
  <2> QED
    BY <2>3, <2>4, OneCheck
<1> HIDE DEF jobs
<1>5. GoodJobs(jobs)
  BY <1>3, <1>4 DEF GoodJobs
<1> QED
  BY <1>1, <1>5 DEF Starts, AfterThreads, jobs

LEMMA AdsStart == ASSUME TypeInv, FetchAds PROVE Starts
<1> DEFINE named(ok) == IF ok THEN {s \in pooled : <<"unadvertised", s>> \notin bad} ELSE {}
<1>1. PICK ok \in BOOLEAN :
        Dispatch([t \in named(ok) \X {1} |-> <<Check(<<"nopeer", AdOf[t[1]]>>)>>], "gate2")
  BY DEF FetchAds
<1> DEFINE jobs == [t \in named(ok) \X {1} |-> <<Check(<<"nopeer", AdOf[t[1]]>>)>>]
<1>2. named(ok) \subseteq Svc
  BY TypeParts DEF ReadsOK
<1> HIDE DEF named
<1>3. DOMAIN jobs \subseteq Thread
  BY <1>2, OneIsEndpoint DEF Thread
<1>4. ASSUME NEW t \in DOMAIN jobs PROVE jobs[t] \in Seq(ChecksOf(t))
  <2>1. t[1] \in Svc /\ t = <<t[1], 1>>
    BY <1>2
  <2> DEFINE e == <<"nopeer", AdOf[t[1]]>>
  <2>2. e \in Entry /\ e[2] = AdOf[t[1]] /\ Kind(e) = "nopeer"
    BY <2>1, ConstantsAssumption DEF Entry, Kind
  <2>3. jobs[t] = <<Check(e)>>
    OBVIOUS
  <2> HIDE DEF jobs, e
  <2>4. Makers(Check(e)) = {s \in Svc : AdOf[s] = e[2]} \X {1} /\ Check(e) \in Checks
    BY <2>2, MakersOf, CheckForms, CheckTypes
  <2>5. t \in Makers(Check(e))
    BY <2>1, <2>2, <2>4
  <2> QED
    BY <2>3, <2>4, <2>5, OneCheck
<1> HIDE DEF jobs
<1>5. GoodJobs(jobs)
  BY <1>3, <1>4 DEF GoodJobs
<1> QED
  BY <1>1, <1>5 DEF Starts, AfterThreads, jobs

\* One goroutine for each pod that is not running, or one for each service.
LEMMA EndpointsStart ==
  ASSUME TypeInv, FetchEndpoints
  PROVE  \/ Starts /\ UNCHANGED verdict
         \/ Return("panic") /\ UNCHANGED <<after, thread>>
<1> DEFINE jobs(read, dead) ==
             IF dead # {} THEN [t \in dead |-> <<Bad(<<"pod", t[1]>>)>>]
                          ELSE [t \in read \X {1} |-> <<Good(<<"pod", t[1]>>)>>]
<1>1. PICK read, dead, panics :
        /\ read \subseteq lbsvcs /\ dead \subseteq read \X Ep
        /\ IF panics THEN Return("panic") /\ UNCHANGED <<after, thread>>
                     ELSE Dispatch(jobs(read, dead), "noeps") /\ UNCHANGED verdict
  <2> DEFINE order   == SetToSeq(lbsvcs)
             Left(s) == s \notin svcs \/ <<"unready", s>> \in bad
             Bare(s) == ~Left(s) /\ <<"bare", s>> \in bad
             ends    == {i \in 1..Len(order) : Left(order[i]) \/ Bare(order[i])}
             panics(ok) == ok /\ ends # {} /\ Bare(order[Min(ends)])
             read(ok) == IF ok /\ ends = {} THEN lbsvcs ELSE {}
             dead(ok) == {t \in read(ok) \X Ep : /\ <<"pod", t[1], t[2]>> \in bad
                                                 /\ <<"noep", t[1]>> \notin bad}
  <2>1. PICK ok \in BOOLEAN :
          IF panics(ok) THEN Return("panic") /\ UNCHANGED <<after, thread>>
                        ELSE Dispatch(jobs(read(ok), dead(ok)), "noeps") /\ UNCHANGED verdict
    BY Zenon DEF FetchEndpoints
  <2>2. read(ok) \subseteq lbsvcs /\ dead(ok) \subseteq read(ok) \X Ep
    OBVIOUS
  <2> HIDE DEF read, dead, panics, jobs
  <2> QED
    BY <2>1, <2>2
<1> USE DEF jobs
<1>2. read \subseteq Svc
  BY <1>1, TypeParts DEF ReadsOK
<1> DEFINE job == jobs(read, dead)
<1>3. DOMAIN job \subseteq Thread
  BY <1>1, <1>2, OneIsEndpoint DEF Thread
<1>4. ASSUME NEW t \in DOMAIN job PROVE job[t] \in Seq(ChecksOf(t))
  <2>1. t[1] \in Svc
    BY <1>1, <1>2
  <2> DEFINE e == <<"pod", t[1]>>
  <2>2. e \in Entry /\ t[1] = e[2] /\ Kind(e) = "pod"
    BY <2>1, ServiceEntries DEF Kind
  <2>3. \/ job[t] = <<Bad(e)>> /\ t \in {t[1]} \X Ep
        \/ job[t] = <<Good(e)>> /\ t = <<t[1], 1>>
    BY <1>1
  <2> HIDE DEF job, jobs, e
  <2>4. /\ Makers(Bad(e)) = {t[1]} \X Ep /\ Makers(Good(e)) = {<<t[1], 1>>}
        /\ Bad(e) \in Checks /\ Good(e) \in Checks
    BY <2>2, MakersOf, CheckForms, CheckTypes
  <2> QED
    BY <2>3, <2>4, OneCheck
<1> HIDE DEF job, jobs
<1>5. GoodJobs(job)
  BY <1>3, <1>4 DEF GoodJobs
<1> QED
  BY <1>1, <1>5 DEF Starts, AfterThreads, job

LEMMA NoEndpointsStart == ASSUME TypeInv, CheckNoEndpoints PROVE Starts
<1> DEFINE none == {s \in eps : <<"noep", s>> \in seen}
<1>1. Dispatch(IF none # {}
                 THEN Loop([i \in 1..Cardinality(none) |-> Bad(<<"noep", SetToSeq(none)[i]>>)])
                 ELSE [t \in eps \X {1} |-> <<Good(<<"noep", t[1]>>)>>], "gate3")
  BY DEF CheckNoEndpoints
<1>2. none \in SUBSET Svc /\ eps \subseteq Svc
  BY TypeParts DEF ReadsOK
<1> HIDE DEF none
<1>3. GoodJobs(Loop([i \in 1..Cardinality(none) |-> Bad(<<"noep", SetToSeq(none)[i]>>)]))
  BY <1>2, ListedJob, MainThread
<1> DEFINE jobs == [t \in eps \X {1} |-> <<Good(<<"noep", t[1]>>)>>]
<1>4. DOMAIN jobs \subseteq Thread
  BY <1>2, OneIsEndpoint DEF Thread
<1>5. ASSUME NEW t \in DOMAIN jobs PROVE jobs[t] \in Seq(ChecksOf(t))
  <2>1. t[1] \in Svc /\ t = <<t[1], 1>>
    BY <1>2
  <2> DEFINE e == <<"noep", t[1]>>
  <2>2. e \in Entry /\ t[1] = e[2] /\ Kind(e) = "noep"
    BY <2>1, ServiceEntries DEF Kind
  <2>3. jobs[t] = <<Good(e)>>
    OBVIOUS
  <2> HIDE DEF jobs, e
  <2>4. t \in Makers(Good(e)) /\ Good(e) \in Checks
    BY <2>1, <2>2, MakersOf, CheckForms, CheckTypes
  <2> QED
    BY <2>3, <2>4, OneCheck
<1> HIDE DEF jobs
<1>6. GoodJobs(jobs)
  BY <1>4, <1>5 DEF GoodJobs
<1> QED
  BY <1>1, <1>3, <1>6 DEF Starts, AfterThreads, jobs

\* The checks of the hops of all nodes, in Reconcile's own goroutine.
LEMMA HopsStart == ASSUME TypeInv, FetchHops PROVE Starts
<1> DEFINE
      Silent(how, faulty, n) == how = "silent" /\ n \in faulty
      HasHops(how, faulty, n) == <<"nohops", n>> \notin bad /\ ~Silent(how, faulty, n)
      Hops(how, faulty, n) ==
        IF HasHops(how, faulty, n) THEN <<Good(<<"nohops", n>>)>>
        ELSE IF "nohops" \in mem.conf.ignore THEN <<>>
        ELSE <<Bad(<<"nohops", n>>)>>
      Of(how, faulty, n) ==
        IF ~Podless(n) THEN <<Good(<<"nospeaker", n>>)>> \o Hops(how, faulty, n)
        ELSE IF Short /\ ~Silent(how, faulty, n) THEN <<Bad(<<"nospeaker", n>>)>>
        ELSE <<>>
      broken(how, faulty) == {i \in 1..Len(Nodes) : Nodes[i] \in faulty /\ how # "silent"}
      Made(how, faulty, i) ==
        CASE \A j \in broken(how, faulty) : i < j -> Of(how, faulty, Nodes[i])
          [] i \in broken(how, faulty) /\ \A j \in broken(how, faulty) : i <= j ->
               SubSeq(Of(how, faulty, Nodes[i]), 1, MadeBefore[how])
          [] OTHER -> <<>>
<1>1. PICK faulty \in SUBSET Node, how \in {"silent"} \cup DOMAIN MadeBefore :
        /\ how \in {"silent", "pods"} \/ \A n \in faulty : ~Podless(n)
        /\ how = "state" => \A n \in faulty : HasHops(how, faulty, n)
        /\ Dispatch(Loop(FlattenSeq([i \in 1..Len(Nodes) |-> Made(how, faulty, i)])), "hops")
  BY DEF FetchHops
<1> DEFINE L == Len(Nodes)
           C == ChecksOf(Main)
<1>2. L \in Nat /\ \A i \in 1..L : Nodes[i] \in Node
  BY ConstantsAssumption, SetToSeqType DEF Nodes
<1>3. ASSUME NEW n \in Node
      PROVE  /\ <<Good(<<"nospeaker", n>>)>> \in Seq(C)
             /\ <<Bad(<<"nospeaker", n>>)>> \in Seq(C)
             /\ <<Good(<<"nohops", n>>)>> \in Seq(C)
             /\ <<Bad(<<"nohops", n>>)>> \in Seq(C)
  <2> DEFINE a == <<"nospeaker", n>>
             b == <<"nohops", n>>
  <2>1. a \in Entry /\ b \in Entry
    BY NodeEntries
  <2>4. Kind(a) = "nospeaker" /\ Kind(b) = "nohops"
    BY DEF Kind
  <2> HIDE DEF a, b
  <2>5. {Good(a), Bad(a), Good(b), Bad(b)} \subseteq Checks
    BY <2>1, CheckTypes
  <2>6. \A k \in {Good(a), Bad(a), Good(b), Bad(b)} : Main \in Makers(k)
    BY <2>4, MakersOf, CheckForms
  <2>2. {Good(a), Bad(a), Good(b), Bad(b)} \subseteq C
    BY <2>5, <2>6, OneCheck
  <2>3. /\ <<Good(a)>> \in Seq(C) /\ <<Bad(a)>> \in Seq(C)
        /\ <<Good(b)>> \in Seq(C) /\ <<Bad(b)>> \in Seq(C)
    BY <2>2
  <2> QED
    BY <2>3 DEF a, b
<1>4. ASSUME NEW n \in Node
      PROVE  /\ Hops(how, faulty, n) \in Seq(C)
             /\ HasHops(how, faulty, n) => Len(Hops(how, faulty, n)) = 1
  <2> HIDE DEF HasHops
  <2>1. /\ Len(<<Good(<<"nohops", n>>)>>) = 1
        /\ <<>> \in Seq(C)
    OBVIOUS
  <2> QED
    BY <1>3, <2>1
<1> HIDE DEF Hops, HasHops, C
<1>5. ASSUME NEW n \in Node
      PROVE  /\ Of(how, faulty, n) \in Seq(C)
             /\ ~Podless(n) => /\ Len(Of(how, faulty, n)) >= 1
                               /\ HasHops(how, faulty, n) => Len(Of(how, faulty, n)) = 2
  <2> DEFINE s == <<Good(<<"nospeaker", n>>)>>
             h == Hops(how, faulty, n)
  <2>6. s \in Seq(C) /\ h \in Seq(C)
    BY <1>3, <1>4, Zenon
  <2>7. Len(s) = 1
    OBVIOUS
  <2> HIDE DEF h, s
  <2>1. s \in Seq(C) /\ Len(s) = 1 /\ h \in Seq(C) /\ Len(h) \in Nat
    BY <2>6, <2>7
  <2>2. s \o h \in Seq(C) /\ Len(s \o h) = 1 + Len(h)
    BY <2>1, ConcatProperties
  <2>3. HasHops(how, faulty, n) => Len(h) = 1
    BY <1>4 DEF h
  <2>4. CASE ~Podless(n)
    <3>1. Of(how, faulty, n) = s \o h
      BY <2>4 DEF s, h
    <3> HIDE DEF Of
    <3> QED
      BY <2>1, <2>2, <2>3, <3>1
  <2>5. CASE Podless(n)
    <3> DEFINE b == <<Bad(<<"nospeaker", n>>)>>
               no == <<>>
    <3>1. Of(how, faulty, n) = b \/ Of(how, faulty, n) = no
      BY <2>5
    <3>2. b \in Seq(C)
      BY <1>3, Zenon
    <3>3. no \in Seq(C)
      OBVIOUS
    <3> HIDE DEF Of, b, no
    <3> QED
      BY <2>5, <3>1, <3>2, <3>3
  <2> QED
    BY <2>4, <2>5
<1> HIDE DEF Of
<1>6. ASSUME NEW i \in 1..L PROVE Made(how, faulty, i) \in Seq(C)
  <2>1. Nodes[i] \in Node /\ Of(how, faulty, Nodes[i]) \in Seq(C)
    BY <1>2, <1>5
  <2>2. CASE i \in broken(how, faulty)
    <3> DEFINE q == Of(how, faulty, Nodes[i])
               n == MadeBefore[how]
    <3>1. Nodes[i] \in faulty /\ how # "silent"
      BY <2>2
    <3>2. how \in {"pods", "output", "state"} /\ n = IF how = "pods" THEN 0
                                                   ELSE IF how = "output" THEN 1 ELSE 2
      BY <1>1, <3>1 DEF MadeBefore
    <3>3. n \in 0..Len(q)
      BY <1>1, <1>5, <2>1, <3>1, <3>2
    <3> HIDE DEF q, n
    <3>4. q \in Seq(C)
      BY <2>1 DEF q
    <3>5. SubSeq(q, 1, n) \in Seq(C)
      <4>1. \A j \in 1..n : q[j] \in C
        BY <3>3, <3>4
      <4> QED
        BY <3>3, <3>4, <4>1, SubSeqProperties
    <3> DEFINE p == SubSeq(q, 1, n)
               no == <<>>
    <3>6. Made(how, faulty, i) = q \/ Made(how, faulty, i) = p \/ Made(how, faulty, i) = no
      <4> DEFINE before == \A j \in broken(how, faulty) : i < j
                 least == i \in broken(how, faulty) /\ \A j \in broken(how, faulty) : i <= j
      <4>1. Made(how, faulty, i) = CASE before -> q [] least -> p [] OTHER -> no
        BY Zenon DEF q, n
      <4>2. ~before
        BY <2>2
      <4> HIDE DEF Made, before, least, p, no
      <4> QED
        BY <4>1, <4>2
    <3>7. p \in Seq(C) /\ no \in Seq(C)
      BY <3>5
    <3> HIDE DEF Made, p, no
    <3> QED
      BY <3>4, <3>6, <3>7
  <2>3. CASE i \notin broken(how, faulty)
    <3> DEFINE q == Of(how, faulty, Nodes[i])
               no == <<>>
    <3>1. Made(how, faulty, i) = q \/ Made(how, faulty, i) = no
      BY <2>3
    <3>2. q \in Seq(C) /\ no \in Seq(C)
      BY <2>1
    <3> HIDE DEF Made, q, no
    <3> QED
      BY <3>1, <3>2
  <2> QED
    BY <2>2, <2>3
<1> DEFINE seqs == [i \in 1..L |-> Made(how, faulty, i)]
<1> HIDE DEF Made
<1>7. seqs \in Seq(Seq(C))
  BY <1>2, <1>6
<1>8. GoodJobs(Loop(FlattenSeq(seqs)))
  BY <1>7, FlattenType, MainThread DEF C
<1>9. Dispatch(Loop(FlattenSeq(seqs)), "hops")
  BY <1>1 DEF L
<1> QED
  BY <1>8, <1>9 DEF Starts, AfterThreads

\* A goroutine for each hop, and one for each route.
LEMMA HopChecksStart == ASSUME TypeInv, CheckHops PROVE Starts
<1> DEFINE Bfd(n) == IF <<"bfd", n>> \notin seen THEN <<Good(<<"bfd", n>>)>>
                     ELSE IF "bfd" \in mem.conf.ignore THEN <<>>
                     ELSE <<Bad(<<"bfd", n>>)>>
           job(n) == <<[e |-> <<"down", n>>, bad |-> <<"down", n>> \in seen]>> \o Bfd(n)
           jobs == [t \in hops \X {1} |-> job(t[1])]
<1>1. Dispatch(jobs, IF first THEN "gate4" ELSE "cleanup")
  BY DEF CheckHops
<1>2. hops \subseteq Node
  BY TypeParts DEF ReadsOK
<1>3. ASSUME NEW n \in Node PROVE job(n) \in Seq(ChecksOf(<<n, 1>>))
  <2> DEFINE a == <<"down", n>>
             b == <<"bfd", n>>
             down == a \in seen
             no == <<>>
             C == ChecksOf(<<n, 1>>)
             k == [e |-> a, bad |-> down]
  <2>7. a \in Entry /\ b \in Entry /\ n = a[2] /\ n = b[2] /\ Kind(a) = "down" /\ Kind(b) = "bfd"
    BY NodeEntries DEF Kind
  <2>8. down \in BOOLEAN
    OBVIOUS
  <2>9. no \in Seq(C)
    OBVIOUS
  <2>2. Bfd(n) = <<Good(b)>> \/ Bfd(n) = no \/ Bfd(n) = <<Bad(b)>>
    OBVIOUS
  <2>3. job(n) = <<k>> \o Bfd(n) /\ k.e = a
    OBVIOUS
  <2> HIDE DEF a, b, Bfd, job, no, down
  <2>1. k \in Checks /\ Good(b) \in Checks /\ Bad(b) \in Checks
    BY <2>7, <2>8, CheckTypes
  <2> HIDE DEF k
  <2>11. Makers(k) = {<<n, 1>>}
    BY <2>3, <2>7, MakersOf
  <2>12. Good(b).e = b /\ Bad(b).e = b
    BY CheckForms
  <2>13. Makers(Good(b)) = {<<n, 1>>} /\ Makers(Bad(b)) = {<<n, 1>>}
    BY <2>7, <2>12, MakersOf
  <2>5. \A j \in {k, Good(b), Bad(b)} : <<n, 1>> \in Makers(j)
    BY <2>11, <2>13
  <2>10. <<k>> \in Seq(C) /\ <<Good(b)>> \in Seq(C) /\ <<Bad(b)>> \in Seq(C)
    BY <2>1, <2>5, OneCheck
  <2> HIDE DEF C
  <2>4. Bfd(n) \in Seq(C) /\ <<k>> \in Seq(C)
    BY <2>2, <2>9, <2>10
  <2>6. <<k>> \o Bfd(n) \in Seq(C)
    BY <2>4, ConcatProperties
  <2> QED
    BY <2>3, <2>6 DEF C
<1> HIDE DEF job
<1>4. GoodJobs(jobs)
  <2>1. DOMAIN jobs \subseteq Thread
    BY <1>2, OneIsEndpoint DEF Thread
  <2>2. ASSUME NEW t \in DOMAIN jobs PROVE jobs[t] \in Seq(ChecksOf(t))
    <3>1. t[1] \in Node /\ t = <<t[1], 1>> /\ jobs[t] = job(t[1])
      BY <1>2
    <3> QED
      BY <1>3, <3>1
  <2> HIDE DEF jobs
  <2> QED
    BY <2>1, <2>2 DEF GoodJobs
<1> HIDE DEF jobs
<1> QED
  BY <1>1, <1>4 DEF Starts, AfterThreads

LEMMA RouteChecksStart == ASSUME TypeInv, CheckRoutes PROVE Starts
<1> DEFINE job(s) == LET gone == <<"route", s>> \in seen
                     IN <<[e |-> <<"route", s>>, bad |-> gone],
                          [e |-> <<"best", s>>, bad |-> gone \/ <<"best", s>> \in seen]>>
           jobs == [t \in eps \X Ep |-> job(t[1])]
<1>1. Dispatch(jobs, IF first THEN "verdict" ELSE "clean")
  BY DEF CheckRoutes
<1>2. eps \subseteq Svc
  BY TypeParts DEF ReadsOK
<1>3. ASSUME NEW s \in Svc, NEW i \in Ep PROVE job(s) \in Seq(ChecksOf(<<s, i>>))
  <2> DEFINE a == <<"route", s>>
             b == <<"best", s>>
             gone == a \in seen
             worse == gone \/ b \in seen
             j == [e |-> a, bad |-> gone]
             k == [e |-> b, bad |-> worse]
  <2>1. a \in Entry /\ b \in Entry /\ s = a[2] /\ s = b[2] /\ Kind(a) = "route" /\ Kind(b) = "best"
    BY ServiceEntries DEF Kind
  <2>2. gone \in BOOLEAN /\ worse \in BOOLEAN /\ j.e = a /\ k.e = b
    OBVIOUS
  <2>3. job(s) = <<j, k>>
    OBVIOUS
  <2> HIDE DEF a, b, gone, worse, job
  <2>4. j \in Checks /\ k \in Checks
    BY <2>1, <2>2, CheckTypes
  <2> HIDE DEF j, k
  <2>5. Makers(j) = {s} \X Ep /\ Makers(k) = {s} \X Ep
    BY <2>1, <2>2, MakersOf
  <2>6. j \in ChecksOf(<<s, i>>) /\ k \in ChecksOf(<<s, i>>)
    BY <2>4, <2>5, OneCheck
  <2> QED
    BY <2>3, <2>6
<1> HIDE DEF job
<1>4. GoodJobs(jobs)
  <2>1. DOMAIN jobs \subseteq Thread
    BY <1>2 DEF Thread
  <2>2. ASSUME NEW t \in DOMAIN jobs PROVE jobs[t] \in Seq(ChecksOf(t))
    <3>1. t[1] \in Svc /\ t[2] \in Ep /\ t = <<t[1], t[2]>> /\ jobs[t] = job(t[1])
      BY <1>2
    <3> QED
      BY <1>3, <3>1
  <2> HIDE DEF jobs
  <2> QED
    BY <2>1, <2>2 DEF GoodJobs
<1> HIDE DEF jobs
<1> QED
  BY <1>1, <1>4 DEF Starts, AfterThreads

\* The nodes of the services whose endpoints were read, in the order they are read.
LEMMA RoutesStart ==
  ASSUME TypeInv, FetchRoutes
  PROVE  Starts /\ (UNCHANGED verdict \/ verdict' = "panic")
<1> DEFINE silenced(faulty, how) == {s \in eps : \/ Podless(NodeOf[s])
                                                 \/ how = "unlisted" /\ s \in faulty}
           nodeless == {s \in eps : <<"nodeless", s>> \in seen}
           order == SetToSeq(eps)
           stops(faulty, how) ==
             {j \in 1..Len(order) :
                order[j] \in nodeless \cup (IF how = "error" THEN faulty ELSE {})}
           panics(faulty, how) ==
             stops(faulty, how) # {} /\ order[Min(stops(faulty, how))] \in nodeless
           read(faulty, how) ==
             IF stops(faulty, how) = {} THEN order
             ELSE SubSeq(order, 1, IF panics(faulty, how) THEN Min(stops(faulty, how)) - 1
                                   ELSE Min(stops(faulty, how)))
<1>1. PICK faulty \in SUBSET eps, how \in {"unlisted", "silent", "error"} :
        /\ Dispatch(Loop(SpeakerChecks(read(faulty, how), silenced(faulty, how))),
                    IF panics(faulty, how) THEN "commit" ELSE "announced")
        /\ verdict' = IF panics(faulty, how) THEN "panic" ELSE verdict
  BY Zenon DEF FetchRoutes
<1>2. order \in Seq(Svc)
  <2>1. eps \subseteq Svc /\ IsFiniteSet(eps)
    BY TypeParts, ConstantsAssumption, FS_Subset DEF ReadsOK
  <2>2. SetToSeq(eps) \in [1..Cardinality(eps) -> eps] /\ Cardinality(eps) \in Nat
    BY <2>1, SetToSeqType
  <2> QED
    BY <2>1, <2>2
<1> HIDE DEF order
<1>3. read(faulty, how) \in Seq(Svc)
  <2> DEFINE B == stops(faulty, how)
             p == panics(faulty, how)
  <2>1. B \subseteq Nat /\ B \subseteq 1..Len(order)
    BY <1>2
  <2> HIDE DEF B, p
  <2>2. CASE B # {}
    <3> DEFINE m == IF p THEN Min(B) - 1 ELSE Min(B)
    <3>1. m \in 0..Len(order)
      <4> DEFINE x == Min(B)
      <4>1. x \in 1..Len(order)
        BY <2>1, <2>2, MinOfNaturals
      <4>3. Len(order) \in Nat
        BY <1>2
      <4>2. m = x - 1 \/ m = x
        OBVIOUS
      <4> HIDE DEF x, m
      <4> QED
        BY <4>1, <4>2, <4>3
    <3> HIDE DEF m
    <3>2. SubSeq(order, 1, m) \in Seq(Svc)
      <4>1. \A i \in 1..m : order[i] \in Svc
        BY <1>2, <3>1
      <4> QED
        BY <1>2, <3>1, <4>1, SubSeqProperties
    <3>3. read(faulty, how) = SubSeq(order, 1, m)
      BY <2>2 DEF B, m, p
    <3> QED
      BY <3>2, <3>3
  <2> QED
    BY <1>2, <2>2 DEF B
<1> DEFINE q == read(faulty, how)
           S == silenced(faulty, how)
           c == panics(faulty, how)
<1> HIDE DEF read
<1>4. ASSUME NEW s \in Svc
      PROVE  [e |-> <<"norunning", NodeOf[s]>>, bad |-> s \in S] \in ChecksOf(Main)
  <2> DEFINE b == s \in S
             e == <<"norunning", NodeOf[s]>>
             k == [e |-> e, bad |-> b]
  <2>1. b \in BOOLEAN /\ k.e = e /\ Kind(e) = "norunning"
    BY DEF Kind
  <2>2. e \in Entry
    BY NodeEntries, ConstantsAssumption
  <2> HIDE DEF b, e
  <2>3. k \in Checks
    BY <2>1, <2>2 DEF Checks
  <2> HIDE DEF k
  <2>4. Main \in Makers(k)
    BY <2>1, MakersOf
  <2> QED
    BY <2>3, <2>4, OneCheck DEF k, b, e
<1>5. Len(q) \in Nat /\ \A i \in 1..Len(q) : q[i] \in Svc
  BY <1>3
<1> HIDE DEF q, S, c, silenced, panics
<1>6. SpeakerChecks(q, S) \in Seq(ChecksOf(Main))
  <2> DEFINE k(i) == [e |-> <<"norunning", NodeOf[q[i]]>>, bad |-> q[i] \in S]
  <2>1. SpeakerChecks(q, S) = [i \in 1..Len(q) |-> k(i)]
    BY DEF SpeakerChecks
  <2>2. \A i \in 1..Len(q) : k(i) \in ChecksOf(Main)
    BY <1>4, <1>5
  <2> HIDE DEF k, ChecksOf
  <2> QED
    BY <1>5, <2>1, <2>2
<1>7. GoodJobs(Loop(SpeakerChecks(q, S)))
  BY <1>6, MainThread
<1>8. /\ Dispatch(Loop(SpeakerChecks(q, S)), IF c THEN "commit" ELSE "announced")
      /\ verdict' = IF c THEN "panic" ELSE verdict
  BY <1>1 DEF c, q, S
<1> QED
  BY <1>7, <1>8 DEF Starts, AfterThreads

LEMMA FetchStarts ==
  ASSUME TypeInv, FetchPhase
  PROVE  \/ Starts /\ (UNCHANGED verdict \/ verdict' = "panic")
         \/ (Return("again") \/ Return("panic")) /\ UNCHANGED thread
<1>1. CASE ListServices
  <2>1. UNCHANGED verdict \/ (Return("again") /\ UNCHANGED thread)
    BY <1>1 DEF ListServices
  <2> QED
    BY <1>1, <2>1, ListStarts
<1>2. CASE FetchPools \/ FetchAds \/ CheckNoEndpoints \/ FetchHops \/ CheckHops \/ CheckRoutes
  <2>1. UNCHANGED verdict
    BY <1>2 DEF FetchPools, FetchAds, CheckNoEndpoints, FetchHops, CheckHops, CheckRoutes
  <2>2. Starts
    BY <1>2, PoolsStart, AdsStart, NoEndpointsStart, HopsStart, HopChecksStart,
       RouteChecksStart
  <2> QED
    BY <2>1, <2>2
<1>3. CASE FetchEndpoints \/ FetchRoutes
  BY <1>3, EndpointsStart, RoutesStart
<1> QED
  BY <1>1, <1>2, <1>3 DEF FetchPhase

\* A goroutine that starts a check.
LEMMA FreshThread ==
  ASSUME NEW job \in Seq(Checks)
  PROVE  LET w == [Idle EXCEPT !.job = job]
         IN w \in Work /\ w.job = job /\ w.at = "test"
<1>1. job \in Seq([e : Entry, bad : BOOLEAN])
  BY DEF Checks
<1> DEFINE none == <<>>
           q == Seq([e : Entry, bad : BOOLEAN])
<1>2. [Idle EXCEPT !.job = job] = [job |-> job, at |-> "test", hdr |-> NoHeader, idx |-> 0]
  BY DEF Idle
<1>3. NoHeader \in [at : Nat, len : Nat]
  BY DEF NoHeader
<1>4. Work = [job : q, at : {"test", "mail", "index", "load", "store", "post"},
              hdr : [at : Nat, len : Nat], idx : Nat]
  BY DEF Work
<1> HIDE DEF q
<1>5. job \in q
  BY <1>1 DEF q
<1> QED
  BY <1>2, <1>3, <1>4, <1>5

\* The goroutines that start, and where the scan goes on.
Started ==
  /\ DOMAIN thread' \subseteq Thread
  /\ thread' \in [DOMAIN thread' -> Work]
  /\ \A t \in DOMAIN thread' : thread'[t].job # <<>> /\ thread'[t].at = "test"
  /\ OwnerInv'
  /\ \/ /\ pc' = "threads" /\ after' \in AfterThreads
        /\ after' = "commit" => verdict' = "panic"
     \/ /\ pc' \in AfterThreads /\ thread' = NoThread
        /\ pc' = "commit" => verdict' = "panic"

LEMMA StartsEffect == ASSUME Starts PROVE Started
<1>1. PICK jobs, next :
        /\ GoodJobs(jobs) /\ Dispatch(jobs, next)
        /\ next \in AfterThreads /\ (next = "commit" => verdict' = "panic")
  BY DEF Starts
<1> DEFINE busy == {t \in DOMAIN jobs : Handled(jobs[t]) # <<>>}
           job(t) == Handled(jobs[t])
           w(t) == [Idle EXCEPT !.job = job(t)]
<1>2. /\ thread' = [t \in busy |-> w(t)]
      /\ busy = {} => pc' = next
      /\ busy # {} => pc' = "threads" /\ after' = next
  BY <1>1 DEF Dispatch
<1>3. busy \subseteq DOMAIN jobs /\ \A t \in busy : job(t) # <<>>
  OBVIOUS
<1>4. DOMAIN jobs \subseteq Thread
  BY <1>1 DEF GoodJobs
<1>5. ASSUME NEW t \in DOMAIN jobs
      PROVE  job(t) \in Seq(ChecksOf(t)) /\ job(t) \in Seq(Checks)
  <2>1. job(t) \in Seq(ChecksOf(t))
    BY <1>1, HandledType DEF GoodJobs
  <2> HIDE DEF Checks, job
  <2>2. ChecksOf(t) \subseteq Checks
    BY ChecksOfChecks
  <2> QED
    BY <2>1, <2>2
<1>6. \A t \in busy : w(t) \in Work /\ w(t).job = job(t) /\ w(t).at = "test"
  <2> HIDE DEF job
  <2> QED
    BY <1>3, <1>5, FreshThread
<1>7. ASSUME NEW t \in busy, NEW i \in DOMAIN job(t) PROVE t \in Makers(job(t)[i])
  <2>1. job(t) \in Seq(ChecksOf(t))
    BY <1>3, <1>5
  <2> HIDE DEF job
  <2>2. job(t)[i] \in ChecksOf(t)
    BY <1>7, <2>1
  <2> QED
    BY <2>2 DEF ChecksOf
<1> HIDE DEF busy, job
<1>8. DOMAIN thread' = busy /\ \A t \in busy : thread'[t] = w(t)
  BY <1>2
<1> HIDE DEF w
<1>9. thread' \in [DOMAIN thread' -> Work]
  BY <1>2, <1>6, <1>8
<1>10. OwnerInv'
  <2>1. \A t \in busy : thread'[t].job = job(t) /\ thread'[t].at = "test"
    BY <1>6, <1>8
  <2> QED
    BY <1>7, <1>8, <2>1 DEF OwnerInv
<1>11. busy = {} => thread' = NoThread
  BY <1>2 DEF NoThread
<1> QED
  BY <1>1, <1>2, <1>3, <1>4, <1>6, <1>8, <1>9, <1>10, <1>11 DEF Started, GoodJobs


LEMMA NoThreadType ==
  DOMAIN NoThread = {} /\ NoThread \in [{} -> Work]
  BY DEF NoThread

LEMMA TaskType ==
  ASSUME ThreadInv, NEW t \in DOMAIN thread
  PROVE  /\ thread[t] \in Work /\ Task(t) \in Checks /\ Task(t).e \in Entry
         /\ 1 \in DOMAIN thread[t].job /\ Task(t) = thread[t].job[1]
<1>1. thread[t] \in Work /\ thread[t].job # <<>>
  BY DEF ThreadInv
<1> DEFINE job == thread[t].job
<1>2. job \in Seq(Checks)
  BY <1>1 DEF Work, Checks
<1> HIDE DEF job, Checks
<1>3. job # <<>>
  BY <1>1 DEF job
<1>4. Head(job) \in Checks /\ 1 \in DOMAIN job /\ Head(job) = job[1]
  BY <1>2, <1>3
<1>5. Head(job).e \in Entry
  BY <1>4 DEF Checks
<1> QED
  BY <1>1, <1>4, <1>5 DEF Task, job

\* What a step of a goroutine does to the local states of them all.
Moved(t) ==
  /\ DOMAIN thread' \subseteq DOMAIN thread
  /\ \A u \in DOMAIN thread : u # t => u \in DOMAIN thread' /\ thread'[u] = thread[u]
  /\ thread' \in [DOMAIN thread' -> Work]

\* It goes on with the same check ...
Proceeds(t, step) ==
  /\ Moved(t) /\ t \in DOMAIN thread'
  /\ thread'[t].job = thread[t].job /\ thread'[t].at = step

\* ... or with the next one, or it is done.
Finishes(t) ==
  /\ Moved(t)
  /\ t \in DOMAIN thread' => /\ thread'[t].at = "test" /\ thread'[t].job # <<>>
                             /\ thread'[t].job = Tail(thread[t].job)

LEMMA ProceedsByUpdate ==
  ASSUME ThreadInv, NEW t \in DOMAIN thread, NEW w \in Work,
         thread' = [thread EXCEPT ![t] = w], w.job = thread[t].job
  PROVE  Proceeds(t, w.at) /\ thread'[t] = w
  BY DEF ThreadInv, Proceeds, Moved

LEMMA GoToEffect ==
  ASSUME ThreadInv, NEW t \in DOMAIN thread,
         NEW step \in {"test", "mail", "index", "load", "store", "post"}, GoTo(t, step)
  PROVE  Proceeds(t, step)
<1> DEFINE w == [thread[t] EXCEPT !.at = step]
<1>1. w \in Work /\ w.job = thread[t].job /\ w.at = step
  BY DEF ThreadInv, Work
<1>2. thread' = [thread EXCEPT ![t] = w]
  BY DEF GoTo
<1> HIDE DEF w
<1> QED
  BY <1>1, <1>2, ProceedsByUpdate

LEMMA NextTaskEffect ==
  ASSUME ThreadInv, NEW t \in DOMAIN thread, NextTask(t)
  PROVE  Finishes(t)
<1> DEFINE rest == Tail(thread[t].job)
           w == [Idle EXCEPT !.job = rest]
<1>1. rest \in Seq(Checks)
  <2>1. thread[t].job \in Seq(Checks) /\ thread[t].job # <<>>
    BY DEF ThreadInv, Work, Checks
  <2> HIDE DEF Checks
  <2> QED
    BY <2>1
<1>2. thread' = IF rest = <<>> THEN Restrict(thread, DOMAIN thread \ {t})
                               ELSE [thread EXCEPT ![t] = w]
  BY DEF NextTask
<1>3. w \in Work /\ w.job = rest /\ w.at = "test"
  <2> HIDE DEF rest, Checks
  <2> QED
    BY <1>1, FreshThread
<1> HIDE DEF w
<1>4. CASE rest = <<>>
  <2>1. thread' = [u \in DOMAIN thread \ {t} |-> thread[u]]
    BY <1>2, <1>4 DEF Restrict
  <2> QED
    BY <2>1 DEF Finishes, Moved, ThreadInv
<1>5. CASE rest # <<>>
  <2>1. thread' = [thread EXCEPT ![t] = w]
    BY <1>2, <1>5
  <2>2. w.job # <<>>
    BY <1>3, <1>5
  <2>3. w.job = Tail(thread[t].job)
    BY <1>3
  <2> HIDE DEF rest
  <2> QED
    BY <1>3, <2>1, <2>2, <2>3 DEF Finishes, Moved, ThreadInv
<1> QED
  BY <1>4, <1>5

\* The steps of a goroutine, by what they do to its local state.
LEMMA ThreadSteps ==
  ASSUME ThreadInv, ListOK, NEW t \in DOMAIN thread, ThreadStep(t)
  PROVE  \/ Finishes(t) /\ (Test(t) \/ StoreAppend(t) \/ Post(t) \/ StoreDelete(t))
         \/ Test(t) /\ \/ Proceeds(t, "mail") /\ mails[Task(t).e] = 0 /\ Task(t).bad
                       \/ Proceeds(t, "load") \/ Proceeds(t, "index")
         \/ (Mail(t) \/ FindIndex(t)) /\ Proceeds(t, "load")
         \/ Load(t) /\ Proceeds(t, "store") /\ thread'[t].hdr = Header(list)
         \/ StoreAppend(t) /\ Proceeds(t, "post") /\ Task(t).e \notin alerted /\ Task(t).bad
<1>1. CASE Test(t)
  <2> DEFINE e == Task(t).e
             listed == Contains(Content(list), e)
             isbad == Task(t).bad
             unsent == mem.conf.mail /\ mails[e] = 0
  <2>2. (CASE isbad /\ ~listed  -> GoTo(t, IF unsent THEN "mail" ELSE "load")
           [] ~isbad /\ listed  -> GoTo(t, "index")
           [] isbad <=> listed  -> NextTask(t))
    BY <1>1, Zenon DEF Test
  <2>3. (unsent => mails[e] = 0) /\ (isbad => Task(t).bad)
    OBVIOUS
  <2> HIDE DEF listed, isbad, unsent
  <2>4. (GoTo(t, "mail") /\ unsent /\ isbad) \/ GoTo(t, "load") \/ GoTo(t, "index") \/ NextTask(t)
    BY <2>2
  <2> QED
    BY <1>1, <2>3, <2>4, GoToEffect, NextTaskEffect
<1>2. CASE Mail(t)
  BY <1>2, GoToEffect DEF Mail
<1>3. CASE FindIndex(t)
  <2> DEFINE k == Index(Content(list), Task(t).e)
             w == [thread[t] EXCEPT !.at = "load", !.idx = k]
  <2>1. k \in Nat
    <3>1. Content(list) \in Seq(Entry)
      BY ContentType DEF ListOK
    <3>2. k \in 0..Len(Content(list)) /\ Len(Content(list)) \in Nat
      BY <3>1, IndexType
    <3> HIDE DEF k
    <3> QED
      BY <3>2
  <2>2. thread' = [thread EXCEPT ![t].at = "load", ![t].idx = k]
    BY <1>3 DEF FindIndex
  <2> HIDE DEF k
  <2>3. w \in Work /\ w.job = thread[t].job /\ w.at = "load"
    BY <2>1 DEF ThreadInv, Work
  <2>4. thread' = [thread EXCEPT ![t] = w]
    BY <2>2 DEF ThreadInv
  <2> HIDE DEF w
  <2> QED
    BY <1>3, <2>3, <2>4, ProceedsByUpdate
<1>4. CASE Load(t)
  <2> DEFINE h == Header(list)
             w == [thread[t] EXCEPT !.at = "store", !.hdr = h]
  <2>1. h \in [at : Nat, len : Nat]
    BY HeaderType DEF ListOK
  <2>2. thread' = [thread EXCEPT ![t].at = "store", ![t].hdr = h]
    BY <1>4 DEF Load
  <2> HIDE DEF h
  <2>3. w \in Work /\ w.job = thread[t].job /\ w.at = "store" /\ w.hdr = h
    BY <2>1 DEF ThreadInv, Work
  <2>4. thread' = [thread EXCEPT ![t] = w]
    BY <2>2 DEF ThreadInv
  <2> HIDE DEF w
  <2>5. Proceeds(t, "store") /\ thread'[t] = w
    BY <2>3, <2>4, ProceedsByUpdate
  <2> QED
    BY <1>4, <2>3, <2>5 DEF h
<1>5. CASE StoreAppend(t)
  <2>1. (GoTo(t, "post") /\ Task(t).e \notin alerted /\ Task(t).bad) \/ NextTask(t)
    BY <1>5 DEF StoreAppend
  <2> QED
    BY <1>5, <2>1, GoToEffect, NextTaskEffect
<1>6. CASE Post(t)
  BY <1>6, NextTaskEffect DEF Post
<1>7. CASE StoreDelete(t)
  BY <1>7, NextTaskEffect DEF StoreDelete
<1> QED
  BY <1>1, <1>2, <1>3, <1>4, <1>5, <1>6, <1>7 DEF ThreadStep

\* Whatever goroutines write, a header that was read stays readable.
LEMMA ListGrows ==
  ASSUME TypeInv, NEW t \in DOMAIN thread, ThreadStep(t)
  PROVE  list' \in Slice /\ Grows(list, list')
<1>1. list \in Slice
  BY TypeParts DEF ListOK
<1>2. UNCHANGED list => Grows(list, list')
  BY <1>1 DEF Grows, Slice
<1>3. thread[t] \in Work /\ Task(t).e \in Entry
      /\ (thread[t].at = "store" => Points(list, thread[t].hdr))
  BY TypeParts, TaskType DEF ThreadOK
<1>4. thread[t].hdr \in [at : Nat, len : Nat] /\ thread[t].idx \in Nat
  BY <1>3 DEF Work
<1>5. CASE StoreAppend(t)
  <2>1. PICK room \in BOOLEAN : list' = Appended(list, thread[t].hdr, Task(t).e, room)
    BY <1>5 DEF StoreAppend
  <2> QED
    BY <1>1, <1>3, <1>4, <1>5, <2>1, AppendedType DEF StoreAppend, At
<1>6. CASE StoreDelete(t)
  <2>1. thread[t].hdr.len > 0
    BY <1>4, <1>6 DEF StoreDelete, InRange
  <2> QED
    BY <1>1, <1>3, <1>4, <1>6, <2>1, DeletedType DEF StoreDelete, At
<1>7. CASE Test(t) \/ Mail(t) \/ FindIndex(t) \/ Load(t) \/ Post(t)
  BY <1>1, <1>2, <1>7 DEF Test, Mail, FindIndex, Load, Post
<1> QED
  BY <1>5, <1>6, <1>7 DEF ThreadStep


\* What the phases that start goroutines do.
LEMMA FetchEffect ==
  ASSUME TypeInv, FetchPhase
  PROVE  \/ Started /\ (UNCHANGED verdict \/ verdict' = "panic")
         \/ (Return("again") \/ Return("panic")) /\ UNCHANGED thread
  BY FetchStarts, StartsEffect

\* The other phases start none.
LEMMA LoopPhases ==
  ASSUME Gate \/ Cleanup \/ CleanServices \/ Conclude
  PROVE  /\ UNCHANGED <<after, reads, thread>>
         /\ pc # "threads" /\ pc' \in Phases \ {"threads", "idle", "setup", "gate1"}
         /\ pc' = "services" => pc = "gate1"
         /\ verdict' \in {"again", "panic"} \/ (UNCHANGED verdict /\ pc' # "commit")
<1>1. CASE Gate
  <2>1. pc \in {"gate1", "gate2", "gate3", "gate4"} /\ UNCHANGED <<after, reads, thread>>
    BY <1>1, AfterGateType DEF Gate
  <2>2. \/ pc' = AfterGate[pc] /\ UNCHANGED verdict
        \/ pc' = "commit" /\ verdict' = "again"
    BY <1>1 DEF Gate, Return
  <2> QED
    BY <2>1, <2>2, AfterGateType DEF Phases
<1>2. CASE Cleanup
  BY <1>2 DEF Cleanup, Looped, Return, Phases
<1>3. CASE CleanServices
  BY <1>3 DEF CleanServices, Looped, Return, Phases
<1>4. CASE Conclude
  BY <1>4 DEF Conclude, Return, Phases
<1> QED
  BY <1>1, <1>2, <1>3, <1>4

LEMMA ControlKept ==
  ASSUME TypeInv, [Next]_vars
  PROVE  ControlOK'
<1> USE DEF ControlOK
<1>0. ControlOK /\ ThreadOK
  BY TypeParts
<1>1. CASE Get
  BY <1>0, <1>1 DEF Get, Phases
<1>2. CASE SecretMissing \/ Commit \/ CommitFails
  BY <1>2 DEF SecretMissing, Commit, CommitFails, Exit, Phases
<1>3. CASE FirstSeen \/ NoClient \/ NotDue
  BY <1>3 DEF FirstSeen, NoClient, NotDue, Leave, Return, Phases
<1>4. CASE StartScan
  BY <1>0, <1>4 DEF StartScan, Phases
<1>5. CASE ScanPhase
  <2>1. CASE FetchPhase
    BY <1>0, <2>1, FetchEffect DEF Started, Return, Phases, AfterThreads
  <2>2. CASE Gate \/ Cleanup \/ CleanServices \/ Conclude
    BY <1>0, <2>2, LoopPhases
  <2> QED
    BY <1>5, <2>1, <2>2, PhaseCases
<1>6. CASE \E t \in DOMAIN thread : ThreadStep(t)
  BY <1>0, <1>6, WorkFrame DEF Working, control
<1>7. CASE (\E t \in DOMAIN thread : ThreadPanics(t)) \/ Crash
  BY <1>7, DieCases DEF Die, Exit, Phases
<1>8. CASE Join
  BY <1>0, <1>8 DEF Join, ThreadOK, ThreadInv, Phases
<1>9. CASE TimerFires \/ WatchEvent \/ Elapse \/ \E c \in Confs : Edit(c)
  BY <1>0, <1>9 DEF TimerFires, WatchEvent, Elapse, Edit, control
<1>10. CASE ClusterChange
  BY <1>0, <1>10, ChangeFrame DEF Changes, control
<1>11. CASE UNCHANGED vars
  BY <1>0, <1>11 DEF vars, control
<1> QED
  BY <1>1, <1>2, <1>3, <1>4, <1>5, <1>6, <1>7, <1>8, <1>9, <1>10, <1>11, NextCases

LEMMA ListKept ==
  ASSUME TypeInv, [Next]_vars
  PROVE  ListOK'
<1> USE DEF ListOK
<1>0. ListOK /\ ObjectsOK
  BY TypeParts
<1>1. Whole(<<>>) \in Slice
  <2> DEFINE none == <<>>
  <2>1. none \in Seq(Entry)
    OBVIOUS
  <2> HIDE DEF none
  <2>2. Whole(none) \in Slice
    BY <2>1, WholeType
  <2> QED
    BY <2>2 DEF none
<1>2. CASE Get
  <2>1. cache.st.failed \in Seq(Entry)
    BY <1>0 DEF ObjectsOK, Object, Status
  <2> QED
    BY <1>2, <2>1, WholeType DEF Get
<1>3. CASE SecretMissing \/ Commit \/ CommitFails
  BY <1>1, <1>3 DEF SecretMissing, Commit, CommitFails, Exit
<1>4. CASE FirstSeen \/ NoClient \/ NotDue \/ StartScan
  BY <1>0, <1>4 DEF FirstSeen, NoClient, NotDue, StartScan, Leave
<1>5. CASE ScanPhase
  <2>1. CASE FetchPhase
    BY <1>0, <2>1, FetchFrame DEF Fetch
  <2>2. CASE Gate
    <3> DEFINE c == Content(list)
    <3>1. \/ list' = list \/ list' = Whole(Append(c, MCP)) \/ list' = Whole(Without(c, MCP))
      BY <2>2 DEF Gate
    <3>2. c \in Seq(Entry) /\ MCP \in Entry
      BY <1>0, ContentType DEF Entry
    <3> HIDE DEF c
    <3>3. Append(c, MCP) \in Seq(Entry) /\ Without(c, MCP) \in Seq(Entry)
      BY <3>2, WithoutType
    <3> QED
      BY <1>0, <3>1, <3>3, WholeType
  <2>3. CASE Cleanup
    <3>1. PICK silent \in SUBSET Node, unread \in SUBSET Node, room \in BOOLEAN :
            Looped(HopsThatAreGone(silent, unread, room), "gate4")
      BY <2>3 DEF Cleanup
    <3>2. HopsThatAreGone(silent, unread, room).l \in Slice
      BY <1>0, HopsLoopType DEF HopTurns
    <3> QED
      BY <3>1, <3>2 DEF Looped
  <2>4. CASE CleanServices
    <3>1. list' = list \/ \E there : Looped(ServicesThatAreGone(there), "verdict")
      BY <2>4 DEF CleanServices
    <3>2. \A there : ServicesThatAreGone(there).l \in Slice
      BY <1>0, ServicesLoopType DEF ServiceTurns
    <3> QED
      BY <1>0, <3>1, <3>2 DEF Looped
  <2>5. CASE Conclude
    BY <1>0, <2>5 DEF Conclude
  <2> QED
    BY <1>5, <2>1, <2>2, <2>3, <2>4, <2>5, PhaseCases
<1>6. CASE \E t \in DOMAIN thread : ThreadStep(t)
  BY <1>6, ListGrows
<1>7. CASE (\E t \in DOMAIN thread : ThreadPanics(t)) \/ Crash
  BY <1>1, <1>7, DieCases DEF Die, Exit
<1>8. CASE Join
  BY <1>0, <1>8, ContentType, WholeType DEF Join
<1>9. CASE TimerFires \/ WatchEvent \/ Elapse \/ \E c \in Confs : Edit(c)
  BY <1>0, <1>9 DEF TimerFires, WatchEvent, Elapse, Edit
<1>10. CASE ClusterChange
  BY <1>0, <1>10, ChangeFrame DEF Changes
<1>11. CASE UNCHANGED vars
  BY <1>0, <1>11 DEF vars
<1> QED
  BY <1>2, <1>3, <1>4, <1>5, <1>6, <1>7, <1>8, <1>9, <1>10, <1>11, NextCases

LEMMA ThreadKept ==
  ASSUME TypeInv, [Next]_vars
  PROVE  ThreadOK'
<1>0. ListOK /\ ThreadOK /\ ThreadInv
  BY TypeParts DEF ThreadOK
<1>1. ASSUME thread' = NoThread, pc' # "threads" PROVE ThreadOK'
  BY <1>1, NoThreadType DEF ThreadOK, ThreadInv
<1>2. CASE Get \/ StartScan \/ FirstSeen \/ NoClient \/ NotDue
  <2>1. pc # "threads" /\ UNCHANGED thread /\ pc' # "threads"
    BY <1>2 DEF Get, StartScan, FirstSeen, NoClient, NotDue, Prelude, Leave, Return
  <2> QED
    BY <1>0, <1>1, <2>1 DEF ThreadInv
<1>3. CASE SecretMissing \/ Commit \/ CommitFails
  BY <1>1, <1>3 DEF SecretMissing, Commit, CommitFails, Exit
<1>4. CASE FetchPhase
  <2>1. pc # "threads"
    BY <1>4 DEF FetchPhase, ListServices, FetchPools, FetchAds, FetchEndpoints,
       CheckNoEndpoints, FetchHops, CheckHops, FetchRoutes, CheckRoutes
  <2>2. CASE Started
    <3>1. pc' = "threads" => after' \in AfterThreads /\ (after' = "commit" => verdict' = "panic")
      BY <2>2 DEF Started, AfterThreads
    <3>2. pc' # "threads" => thread' = NoThread
      BY <2>2 DEF Started
    <3> QED
      BY <2>2, <3>1, <3>2 DEF Started, ThreadOK, ThreadInv, AfterThreads
  <2>3. CASE (Return("again") \/ Return("panic")) /\ UNCHANGED thread
    BY <1>0, <1>1, <2>1, <2>3 DEF Return, ThreadInv
  <2> QED
    BY <1>4, <2>2, <2>3, FetchEffect
<1>5. CASE Gate \/ Cleanup \/ CleanServices \/ Conclude
  BY <1>0, <1>1, <1>5, LoopPhases DEF ThreadInv
<1>6. CASE \E t \in DOMAIN thread : ThreadStep(t)
  <2>1. PICK t \in DOMAIN thread : ThreadStep(t)
    BY <1>6
  <2>2. pc = "threads" /\ UNCHANGED <<pc, after, verdict>>
    BY <2>1, WorkFrame DEF Working, control
  <2>3. list \in Slice /\ list' \in Slice /\ Grows(list, list')
    BY <1>0, <2>1, ListGrows DEF ListOK
  <2>4. Moved(t)
    BY <1>0, <2>1, ThreadSteps DEF Finishes, Proceeds
  <2>5. ASSUME NEW u \in DOMAIN thread'
        PROVE  thread'[u].job # <<>> /\ (thread'[u].at = "store" => Points(list', thread'[u].hdr))
    <3>1. CASE u # t
      <4>1. u \in DOMAIN thread /\ thread'[u] = thread[u]
        BY <2>4, <2>5, <3>1 DEF Moved
      <4>2. thread[u].hdr \in [at : Nat, len : Nat]
        BY <1>0, <4>1 DEF ThreadInv, Work
      <4> QED
        BY <1>0, <2>3, <4>1, <4>2, PointsKept DEF ThreadOK, ThreadInv
    <3>2. CASE u = t
      <4>1. CASE Finishes(t)
        BY <2>5, <3>2, <4>1 DEF Finishes
      <4>2. CASE Proceeds(t, "mail") \/ Proceeds(t, "load") \/ Proceeds(t, "index")
                 \/ Proceeds(t, "post")
        BY <1>0, <2>5, <3>2, <4>2 DEF Proceeds, ThreadInv
      <4>3. CASE Load(t) /\ Proceeds(t, "store") /\ thread'[t].hdr = Header(list)
        BY <1>0, <2>3, <3>2, <4>3, HeaderType DEF Load, Proceeds, ThreadInv
      <4> QED
        BY <1>0, <2>1, <4>1, <4>2, <4>3, ThreadSteps
    <3> QED
      BY <3>1, <3>2
  <2> QED
    BY <1>0, <2>2, <2>4, <2>5 DEF ThreadOK, ThreadInv, Moved
<1>7. CASE (\E t \in DOMAIN thread : ThreadPanics(t)) \/ Crash
  BY <1>1, <1>7, DieCases DEF Die, Exit
<1>8. CASE Join
  <2>1. thread' = NoThread /\ pc' \in AfterThreads
    BY <1>0, <1>8 DEF Join, ThreadInv, AfterThreads
  <2> QED
    BY <1>1, <2>1 DEF AfterThreads
<1>9. CASE UNCHANGED <<pc, after, verdict, list, thread>>
  BY <1>0, <1>9 DEF ThreadOK, ThreadInv
<1>10. CASE TimerFires \/ WatchEvent \/ Elapse \/ (\E c \in Confs : Edit(c)) \/ UNCHANGED vars
  BY <1>9, <1>10 DEF TimerFires, WatchEvent, Elapse, Edit, control, vars
<1>11. CASE ClusterChange
  BY <1>9, <1>11, ChangeFrame DEF Changes, control
<1> QED
  BY <1>2, <1>3, <1>4, <1>5, <1>6, <1>7, <1>8, <1>10, <1>11, NextCases, PhaseCases


\* What is wrong is a condition.
LEMMA BadConditions ==
  ASSUME TypeInv
  PROVE  /\ bad \subseteq Condition
         /\ \A kinds : OfKind(kinds, bad) \subseteq bad /\ OfKind(kinds, seen) \subseteq seen
  BY TypeParts, ConstantsAssumption DEF WorldOK, CanFail, OfKind

\* Past the start of a scan nothing is asked of what was read.
LEMMA ReadsScope ==
  ASSUME lbsvcs' \in SUBSET Svc, pooled' \in SUBSET lbsvcs', eps' \in SUBSET lbsvcs',
         hops' \in SUBSET Node, seen' \in SUBSET Condition,
         pc' \in {"threads", "commit"} \cup AfterThreads
  PROVE  ReadsOK'
  BY DEF ReadsOK, ScopeInv, AfterThreads

LEMMA ReadsKept ==
  ASSUME TypeInv, [Next]_vars
  PROVE  ReadsOK'
<1>0. ReadsOK /\ ThreadOK /\ bad \subseteq Condition /\ svcs \subseteq Svc
  BY TypeParts, BadConditions DEF WorldOK
<1>1. ASSUME UNCHANGED reads,
             pc' \in {"setup", "gate1", "services"} => pc \in {"idle", "setup", "gate1", "services"},
             pc' = "idle" => pc = "idle"
      PROVE  ReadsOK'
  BY <1>0, <1>1 DEF ReadsOK, ScopeInv, reads
<1>2. CASE Get \/ FirstSeen \/ NoClient \/ NotDue \/ StartScan
  BY <1>1, <1>2 DEF Get, FirstSeen, NoClient, NotDue, StartScan, Prelude, Leave, Return
<1>3. CASE SecretMissing \/ Commit \/ CommitFails \/ Die
  <2>1. Exit
    BY <1>3 DEF SecretMissing, Commit, CommitFails, Die
  <2> QED
    BY <2>1 DEF Exit, ReadsOK, ScopeInv
<1>4. CASE FetchPhase
  <2> DEFINE next == pc' \in {"threads", "commit"} \cup AfterThreads
  <2>1. next
    BY <1>4, FetchEffect DEF Started, Return
  <2>2. CASE ListServices
    <3>1. PICK ok \in BOOLEAN :
            lbsvcs' = (IF ok THEN svcs ELSE {})
                         \ {s \in (IF ok THEN svcs ELSE {}) : <<"noip", s>> \in bad}
      BY <2>2 DEF ListServices
    <3>2. lbsvcs' \subseteq Svc
      BY <1>0, <3>1
    <3>3. pooled = {} /\ eps = {} /\ UNCHANGED <<pooled, eps, hops, seen>>
      BY <1>0, <2>2 DEF ListServices, ReadsOK, ScopeInv
    <3> HIDE DEF next
    <3> QED
      BY <1>0, <2>1, <3>2, <3>3, ReadsScope DEF ReadsOK, next
  <2>3. CASE FetchPools
    <3>1. pooled' \subseteq lbsvcs
      BY <2>3 DEF FetchPools
    <3>2. UNCHANGED <<lbsvcs, eps, hops, seen>>
      BY <2>3 DEF FetchPools
    <3> QED
      BY <1>0, <2>1, <3>1, <3>2, ReadsScope DEF ReadsOK
  <2>4. CASE FetchAds \/ CheckHops \/ CheckRoutes
    <3>1. UNCHANGED reads
      BY <2>4 DEF FetchAds, CheckHops, CheckRoutes
    <3> QED
      BY <1>0, <2>1, <3>1, ReadsScope DEF ReadsOK, reads
  <2>5. CASE FetchEndpoints
    <3>1. eps' \subseteq lbsvcs
      BY <2>5 DEF FetchEndpoints
    <3>2. UNCHANGED <<lbsvcs, pooled, hops>> /\ seen' \subseteq Condition
      BY <1>0, <2>5, BadConditions DEF FetchEndpoints
    <3> QED
      BY <1>0, <2>1, <3>1, <3>2, ReadsScope DEF ReadsOK
  <2>6. CASE CheckNoEndpoints
    <3>1. eps' \subseteq eps
      BY <2>6 DEF CheckNoEndpoints
    <3>2. UNCHANGED <<lbsvcs, pooled, hops, seen>>
      BY <2>6 DEF CheckNoEndpoints
    <3> QED
      BY <1>0, <2>1, <3>1, <3>2, ReadsScope DEF ReadsOK
  <2>7. CASE FetchHops
    <3>1. hops' \subseteq Node
      BY <2>7 DEF FetchHops
    <3>2. UNCHANGED <<lbsvcs, pooled, eps>> /\ seen' \subseteq Condition
      BY <1>0, <2>7, BadConditions DEF FetchHops, ReadsOK
    <3> QED
      BY <1>0, <2>1, <3>1, <3>2, ReadsScope DEF ReadsOK
  <2>8. CASE FetchRoutes
    <3>1. PICK faulty \in SUBSET eps, how \in {"unlisted", "silent", "error"} :
            seen' = OfKind({"route", "best"}, bad)
                      \cup (IF how = "silent" THEN {"route"} \X faulty ELSE {})
      BY <2>8, Zenon DEF FetchRoutes
    <3>2. eps' \subseteq eps /\ UNCHANGED <<lbsvcs, pooled, hops>>
      BY <2>8 DEF FetchRoutes
    <3>3. {"route"} \X faulty \subseteq Condition
      BY <1>0 DEF ReadsOK, Condition, ServiceKind
    <3>4. seen' \subseteq Condition
      BY <1>0, <3>1, <3>3, BadConditions
    <3> QED
      BY <1>0, <2>1, <3>2, <3>4, ReadsScope DEF ReadsOK
  <2> QED
    BY <1>4, <2>2, <2>3, <2>4, <2>5, <2>6, <2>7, <2>8 DEF FetchPhase
<1>5. CASE Gate \/ Cleanup \/ CleanServices \/ Conclude
  BY <1>1, <1>5, LoopPhases
<1>6. CASE \E t \in DOMAIN thread : ThreadStep(t)
  BY <1>1, <1>6, WorkFrame DEF Working
<1>7. CASE (\E t \in DOMAIN thread : ThreadPanics(t)) \/ Crash
  BY <1>3, <1>7, DieCases
<1>8. CASE Join
  <2>1. pc' \in AfterThreads /\ UNCHANGED reads
    BY <1>0, <1>8 DEF Join, ThreadOK, ThreadInv, AfterThreads
  <2> QED
    BY <1>1, <2>1 DEF AfterThreads
<1>9. CASE TimerFires \/ WatchEvent \/ Elapse \/ (\E c \in Confs : Edit(c)) \/ UNCHANGED vars
  BY <1>1, <1>9 DEF TimerFires, WatchEvent, Elapse, Edit, vars
<1>10. CASE ClusterChange
  BY <1>1, <1>10, ChangeFrame DEF Changes
<1> QED
  BY <1>2, <1>3, <1>4, <1>5, <1>6, <1>7, <1>8, <1>9, <1>10, NextCases, PhaseCases

LEMMA FilesKept ==
  ASSUME TypeInv, [Next]_vars
  PROVE  FilesOK'
<1> USE DEF FilesOK
<1>0. FilesOK /\ ThreadInv
  BY TypeParts DEF ThreadOK
<1>1. CASE UNCHANGED files
  BY <1>0, <1>1 DEF files
<1>2. CASE Get \/ SecretMissing \/ FirstSeen \/ NoClient \/ NotDue \/ StartScan \/ Join
           \/ Commit \/ CommitFails
  BY <1>1, <1>2 DEF Get, SecretMissing, FirstSeen, NoClient, NotDue, StartScan, Prelude,
     Join, Commit, CommitFails
<1>3. CASE ScanPhase
  <2>1. UNCHANGED <<alerted, alerts, lost>>
    BY <1>3, PhaseFrame DEF Phase
  <2>2. mails' \in [Entry -> Nat]
    <3>1. CASE FetchPhase
      BY <1>0, <3>1, FetchFrame DEF Fetch
    <3>2. CASE Gate \/ CleanServices \/ Conclude
      BY <1>0, <3>2 DEF Gate, CleanServices, Conclude
    <3>3. CASE Cleanup
      <4>1. PICK healed, told :
              mails' = [e \in Entry |-> CASE e \in healed               -> 0
                                          [] e \in {"nospeaker"} \X told -> 1
                                          [] OTHER                       -> mails[e]]
        BY <3>3, Zenon DEF Cleanup
      <4> QED
        BY <1>0, <4>1
    <3> QED
      BY <1>3, <3>1, <3>2, <3>3, PhaseCases
  <2> QED
    BY <1>0, <2>1, <2>2
<1>4. CASE \E t \in DOMAIN thread : ThreadStep(t)
  <2>1. PICK t \in DOMAIN thread : ThreadStep(t)
    BY <1>4
  <2>2. Task(t).e \in Entry
    BY <1>0, TaskType
  <2>3. CASE Test(t) \/ Load(t) \/ StoreAppend(t)
    BY <1>1, <2>3 DEF Test, Load, StoreAppend
  <2>4. CASE Mail(t) \/ FindIndex(t)
    BY <1>0, <2>2, <2>4 DEF Mail, FindIndex
  <2>5. CASE Post(t)
    BY <1>0, <2>2, <2>5 DEF Post
  <2>6. CASE StoreDelete(t)
    BY <1>0, <2>2, <2>6 DEF StoreDelete
  <2> QED
    BY <2>1, <2>3, <2>4, <2>5, <2>6 DEF ThreadStep
<1>5. CASE (\E t \in DOMAIN thread : ThreadPanics(t)) \/ Crash
  <2>1. /\ alerted' = {}
        /\ mails' = [e \in Entry |-> 0]
        /\ alerts' = [e \in Entry |-> 0] /\ lost' = [e \in Entry |-> 0]
    BY <1>5, DieCases DEF Die
  <2> QED
    BY <2>1
<1>6. CASE TimerFires \/ WatchEvent \/ Elapse \/ (\E c \in Confs : Edit(c)) \/ UNCHANGED vars
  BY <1>1, <1>6 DEF TimerFires, WatchEvent, Elapse, Edit, vars
<1>7. CASE ClusterChange
  BY <1>1, <1>7, ChangeFrame DEF Changes
<1> QED
  BY <1>2, <1>3, <1>4, <1>5, <1>6, <1>7, NextCases

LEMMA WorldKept ==
  ASSUME TypeInv, [Next]_vars
  PROVE  WorldOK'
<1> USE DEF WorldOK
<1>0. WorldOK
  BY TypeParts
<1>1. CASE UNCHANGED <<svcs, bad, steady, ever>>
  BY <1>0, <1>1
<1>2. CASE Get \/ FirstSeen \/ NoClient \/ NotDue \/ Join \/ TimerFires \/ WatchEvent
           \/ Elapse \/ (\E c \in Confs : Edit(c)) \/ UNCHANGED vars
  BY <1>1, <1>2 DEF Get, FirstSeen, NoClient, NotDue, Prelude, Leave, Join, TimerFires,
     WatchEvent, Elapse, Edit, vars, world, scan
<1>3. CASE SecretMissing \/ Commit \/ CommitFails \/ Die
  BY <1>0, <1>3 DEF SecretMissing, Commit, CommitFails, Die, Prelude, Exit, world
<1>4. CASE StartScan
  BY <1>0, <1>4 DEF StartScan, Prelude, world
<1>5. CASE ScanPhase
  BY <1>1, <1>5, PhaseFrame DEF Phase, world
<1>6. CASE \E t \in DOMAIN thread : ThreadStep(t)
  BY <1>1, <1>6, WorkFrame DEF Working, world
<1>7. CASE (\E t \in DOMAIN thread : ThreadPanics(t)) \/ Crash
  BY <1>3, <1>7, DieCases
<1>8. CASE ClusterChange
  <2>1. svcs' \subseteq Svc /\ bad' \subseteq CanFail
    <3>1. CASE \E C \in Events : Toggle(C)
      <4>1. PICK C \in Events : Toggle(C)
        BY <3>1
      <4>2. C \subseteq CanFail
        BY DEF CanFail
      <4> QED
        BY <1>0, <4>1, <4>2 DEF Toggle
    <3>2. CASE (\E s \in Svc : ServiceDeleted(s) \/ ServiceCreated(s)) \/ Rolls
      BY <1>0, <3>2 DEF ServiceDeleted, ServiceCreated, Rolls
    <3> QED
      BY <1>8, <3>1, <3>2 DEF ClusterChange
  <2> QED
    BY <1>0, <1>8, <2>1, ChangeFrame DEF Changes
<1> QED
  BY <1>2, <1>3, <1>4, <1>5, <1>6, <1>7, <1>8, NextCases

LEMMA BoundsKept ==
  ASSUME TypeInv, [Next]_vars
  PROVE  BoundsOK'
<1> USE DEF BoundsOK
<1>0. BoundsOK /\ ReadsOK /\ MaxChanges \in Nat /\ MaxFaults \in Nat
  BY TypeParts, ConstantsAssumption
<1>1. CASE UNCHANGED bounds
  BY <1>0, <1>1 DEF bounds
<1>2. ASSUME NEW n \in Nat, Fail(n), UNCHANGED changes PROVE BoundsOK'
  BY <1>0, <1>2 DEF Fail
<1>3. CASE Get \/ Join \/ TimerFires \/ WatchEvent \/ Elapse \/ UNCHANGED vars \/ Commit
  BY <1>1, <1>3 DEF Get, Join, TimerFires, WatchEvent, Elapse, vars, Commit
<1>4. CASE SecretMissing \/ FirstSeen \/ NoClient \/ NotDue \/ StartScan \/ CommitFails
  <2>1. UNCHANGED changes /\ (UNCHANGED faults \/ Fail(1))
    BY <1>4 DEF SecretMissing, FirstSeen, NoClient, NotDue, StartScan, CommitFails,
       Prelude, Leave
  <2> QED
    BY <1>1, <1>2, <2>1 DEF bounds
<1>5. CASE ScanPhase
  <2>1. UNCHANGED changes
    BY <1>5, PhaseFrame DEF Phase
  <2>2. CASE Gate \/ ListServices \/ FetchPools \/ FetchAds \/ FetchEndpoints \/ CleanServices
    <3>1. PICK ok \in BOOLEAN : Fail(IF ok THEN 0 ELSE 1)
      BY <2>2 DEF Gate, ListServices, FetchPools, FetchAds, FetchEndpoints, CleanServices
    <3> QED
      BY <1>2, <2>1, <3>1
  <2>3. CASE CheckNoEndpoints \/ CheckHops \/ CheckRoutes \/ Conclude
    BY <1>1, <2>1, <2>3 DEF CheckNoEndpoints, CheckHops, CheckRoutes, Conclude, bounds
  <2>4. CASE FetchHops \/ Cleanup \/ FetchRoutes
    <3>1. PICK n \in Nat : Fail(n)
      <4>1. \A f \in SUBSET Node : IsFiniteSet(f)
        BY ConstantsAssumption, FS_Subset
      <4>2. \A f \in SUBSET eps : IsFiniteSet(f)
        BY <1>0, ConstantsAssumption, FS_Subset DEF ReadsOK
      <4>3. CASE FetchHops
        BY <4>1, <4>3, FS_CardinalityType DEF FetchHops
      <4>4. CASE Cleanup
        <5>1. PICK silent \in SUBSET Node, unread \in SUBSET Node :
                Fail(Cardinality(silent) + Cardinality(unread))
          BY <4>4 DEF Cleanup
        <5>2. Cardinality(silent) \in Nat /\ Cardinality(unread) \in Nat
          BY <4>1, FS_CardinalityType
        <5> QED
          BY <5>1, <5>2
      <4>5. CASE FetchRoutes
        BY <4>2, <4>5, FS_CardinalityType DEF FetchRoutes
      <4> QED
        BY <2>4, <4>3, <4>4, <4>5
    <3> QED
      BY <1>2, <2>1, <3>1
  <2> QED
    BY <1>5, <2>2, <2>3, <2>4 DEF ScanPhase
<1>6. CASE \E t \in DOMAIN thread : ThreadStep(t)
  <2>1. PICK t \in DOMAIN thread : ThreadStep(t)
    BY <1>6
  <2>2. UNCHANGED changes
    BY <2>1, WorkFrame DEF Working
  <2>3. UNCHANGED faults \/ Fail(1)
    BY <2>1 DEF ThreadStep, Test, Mail, FindIndex, Load, StoreAppend, Post, StoreDelete
  <2> QED
    BY <1>1, <1>2, <2>2, <2>3 DEF bounds
<1>7. CASE (\E t \in DOMAIN thread : ThreadPanics(t)) \/ Crash
  BY <1>1, <1>2, <1>7, DieCases DEF Die, bounds
<1>8. CASE (\E c \in Confs : Edit(c)) \/ ClusterChange
  BY <1>0, <1>8, ChangeFrame DEF Edit, Changes
<1> QED
  BY <1>3, <1>4, <1>5, <1>6, <1>7, <1>8, NextCases

LEMMA InitType == Init => TypeInv
<1> SUFFICES ASSUME Init PROVE TypeInv
  OBVIOUS
<1> DEFINE none == <<>>
<1>0. none \in Seq(Entry)
  OBVIOUS
<1>1. ObjectsOK
  <2> DEFINE no == FALSE
  <2>1. PICK c \in Confs :
          obj = [conf |-> c, st |-> [ready |-> "none", run |-> "never", healthy |-> no,
                                     failed |-> none]]
    BY DEF Init, EmptyStatus
  <2>2. no \in BOOLEAN /\ c \in Conf
    BY ConstantsAssumption
  <2> HIDE DEF no, none
  <2>3. obj \in Object
    BY <1>0, <2>1, <2>2 DEF Object, Status
  <2>4. cache = obj /\ mem = Nothing
    BY DEF Init
  <2> QED
    BY <2>3, <2>4, NothingType DEF ObjectsOK
<1>2. FlagsOK
  BY DEF Init, FlagsOK
<1>3. ControlOK
  BY DEF Init, ControlOK, Phases
<1>4. ReadsOK
  BY DEF Init, ReadsOK, ScopeInv
<1>5. ListOK
  <2>1. list = Whole(none)
    BY DEF Init
  <2> HIDE DEF none
  <2> QED
    BY <1>0, <2>1, WholeType DEF ListOK
<1>6. ThreadOK
  BY NoThreadType DEF Init, ThreadOK, ThreadInv
<1>7. FilesOK
  BY DEF Init, FilesOK
<1>8. WorldOK
  <2>1. svcs \subseteq Svc
    BY DEF Init
  <2>2. bad \in AtFirst /\ steady = {} /\ ever = {}
    BY DEF Init
  <2> QED
    BY <2>1, <2>2, ConstantsAssumption DEF WorldOK, CanFail
<1>9. BoundsOK
  BY ConstantsAssumption DEF Init, BoundsOK
<1> QED
  BY <1>1, <1>2, <1>3, <1>4, <1>5, <1>6, <1>7, <1>8, <1>9, TypeParts

Parts == /\ ObjectsOK /\ FlagsOK /\ ControlOK /\ ReadsOK /\ ListOK /\ ThreadOK
         /\ FilesOK /\ WorldOK /\ BoundsOK

LEMMA NextParts == Parts /\ [Next]_vars => Parts'
<1> SUFFICES ASSUME Parts, [Next]_vars PROVE Parts'
  OBVIOUS
<1>1. TypeInv
  BY TypeParts DEF Parts
<1> QED
  BY <1>1, ObjectsKept, FlagsKept, ControlKept, ReadsKept, ListKept, ThreadKept,
     FilesKept, WorldKept, BoundsKept DEF Parts

\* Types, a list whose header points into it, goroutines with something left to do.
THEOREM TypesHold == Spec => []TypeInv
<1>1. Init => Parts
  BY InitType, TypeParts DEF Parts
<1>2. Parts => TypeInv
  BY TypeParts DEF Parts
<1> QED
  BY <1>1, <1>2, NextParts, PTL DEF Spec

\* Each variable holds a value of its type in every reachable state.
THEOREM TypeCorrect == Spec => []TypeOK
<1>1. TypeInv => TypeOK
  BY DEF TypeInv
<1> QED
  BY <1>1, TypesHold, PTL


(***************************************************************************)
(* How often a check is mailed and alerted                                 *)
(***************************************************************************)

\* The steps, by what they do to the goroutines and the files.
LEMMA Effects ==
  ASSUME TypeInv, [Next]_vars
  PROVE  \/ UNCHANGED <<thread, files>>
         \/ Die
         \/ Started /\ UNCHANGED files
         \/ Cleanup
         \/ \E t \in DOMAIN thread : ThreadStep(t)
<1>0. ThreadInv
  BY TypeParts DEF ThreadOK
<1>1. CASE Get \/ FirstSeen \/ NoClient \/ NotDue \/ StartScan \/ Join \/ TimerFires
           \/ WatchEvent \/ Elapse \/ (\E c \in Confs : Edit(c)) \/ UNCHANGED vars
  BY <1>1 DEF Get, FirstSeen, NoClient, NotDue, StartScan, Prelude, Leave, Join,
     TimerFires, WatchEvent, Elapse, Edit, vars
<1>2. CASE SecretMissing \/ Commit \/ CommitFails
  BY <1>0, <1>2 DEF SecretMissing, Commit, CommitFails, Prelude, Exit, ThreadInv
<1>3. CASE FetchPhase
  <2>1. UNCHANGED files
    BY <1>3, FetchFrame DEF Fetch, Phase, files
  <2> QED
    BY <1>3, <2>1, FetchEffect
<1>4. CASE Gate \/ CleanServices \/ Conclude
  BY <1>4 DEF Gate, CleanServices, Conclude, Phase, files
<1>5. CASE (\E t \in DOMAIN thread : ThreadPanics(t)) \/ Crash
  BY <1>5, DieCases
<1>6. CASE ClusterChange
  BY <1>6, ChangeFrame DEF Changes
<1> QED
  BY <1>1, <1>2, <1>3, <1>4, <1>5, <1>6, NextCases, PhaseCases

LEMMA OwnerKept ==
  ASSUME TypeInv, OwnerInv, [Next]_vars
  PROVE  OwnerInv'
<1>0. ThreadInv /\ ListOK
  BY TypeParts DEF ThreadOK
<1>1. CASE UNCHANGED <<thread, files>>
  BY <1>1 DEF OwnerInv, Task
<1>2. CASE Die
  BY <1>2, NoThreadType DEF Die, Exit, OwnerInv
<1>3. CASE Started
  BY <1>3 DEF Started
<1>4. CASE Cleanup
  BY <1>4 DEF Cleanup, OwnerInv, Task
<1>5. CASE \E t \in DOMAIN thread : ThreadStep(t)
  <2>1. PICK t \in DOMAIN thread : ThreadStep(t)
    BY <1>5
  <2>2. Finishes(t) \/ \E step : Proceeds(t, step)
    BY <1>0, <2>1, ThreadSteps
  <2>3. ASSUME NEW u \in DOMAIN thread', NEW i \in DOMAIN thread'[u].job
        PROVE  /\ u \in DOMAIN thread
               /\ \E j \in DOMAIN thread[u].job : thread'[u].job[i] = thread[u].job[j]
    <3>1. Moved(t) /\ u \in DOMAIN thread
      BY <2>2, <2>3 DEF Finishes, Proceeds, Moved
    <3>2. CASE u # t \/ \E step : Proceeds(t, step)
      BY <2>3, <3>1, <3>2 DEF Moved, Proceeds
    <3>3. CASE u = t /\ Finishes(t)
      <4> DEFINE job == thread[t].job
      <4>1. job \in Seq(Checks) /\ job # <<>>
        BY <1>0 DEF ThreadInv, Work, Checks
      <4>2. thread'[u].job = Tail(job)
        BY <2>3, <3>3 DEF Finishes
      <4> HIDE DEF job, Checks
      <4>3. i + 1 \in DOMAIN job /\ Tail(job)[i] = job[i + 1]
        BY <2>3, <4>1, <4>2
      <4> QED
        BY <3>1, <3>3, <4>2, <4>3 DEF job
    <3> QED
      BY <2>2, <3>2, <3>3
  <2>4. ASSUME NEW u \in DOMAIN thread', thread'[u].at \in {"mail", "post"}
        PROVE  Task(u)'.bad
    <3>1. CASE u # t
      <4>1. u \in DOMAIN thread /\ thread'[u] = thread[u]
        BY <2>2, <2>4, <3>1 DEF Finishes, Proceeds, Moved
      <4> QED
        BY <2>4, <4>1 DEF OwnerInv, Task
    <3>2. CASE u = t
      <4>1. \/ Proceeds(t, "mail") /\ Task(t).bad
            \/ Proceeds(t, "post") /\ Task(t).bad
        BY <1>0, <2>1, <2>4, <3>2, ThreadSteps DEF Finishes, Proceeds
      <4> QED
        BY <3>2, <4>1 DEF Proceeds, Task
    <3> QED
      BY <3>1, <3>2
  <2> QED
    BY <2>3, <2>4 DEF OwnerInv
<1> QED
  BY <1>1, <1>2, <1>3, <1>4, <1>5, Effects

\* A goroutine only has checks before it that may be handed to it: of a service and an
\* endpoint, of a node, of an advertisement that its service uses, or Reconcile's own.
THEOREM OwnersHold == Spec => []OwnerInv
<1>1. Init => OwnerInv
  BY NoThreadType DEF Init, OwnerInv
<1>2. TypeInv /\ OwnerInv /\ [Next]_vars => OwnerInv'
  BY OwnerKept
<1> QED
  BY <1>1, <1>2, TypesHold, PTL DEF Spec

LEMMA NumberOfEndpoints ==
  IsFiniteSet(Ep) /\ Cardinality(Ep) = Endpoints /\ Endpoints \in Nat \ {0}
<1>1. Endpoints \in Nat \ {0}
  BY ConstantsAssumption
<1> QED
  BY <1>1, FS_Interval DEF Ep

LEMMA FiniteThreads == ASSUME TypeInv PROVE IsFiniteSet(DOMAIN thread)
<1>1. IsFiniteSet(Ep)
  BY NumberOfEndpoints
<1>2. IsFiniteSet(Svc \cup Node \cup {"main"})
  BY ConstantsAssumption, FS_Singleton, FS_Union
<1>3. IsFiniteSet(Thread)
  BY <1>1, <1>2, FS_Product DEF Thread
<1> QED
  BY <1>3, TypeParts, FS_Subset DEF ThreadOK

LEMMA WaitingFinite ==
  ASSUME TypeInv, NEW e
  PROVE  /\ IsFiniteSet(Mailing(e)) /\ Cardinality(Mailing(e)) \in Nat
         /\ IsFiniteSet(Posting(e)) /\ Cardinality(Posting(e)) \in Nat
  BY FiniteThreads, FS_Subset, FS_CardinalityType DEF Mailing, Posting

\* As many goroutines as Goroutines says may be handed a check that fails.
LEMMA MakersCount ==
  ASSUME NEW e \in Entry
  PROVE  /\ IsFiniteSet(Makers(Bad(e))) /\ Cardinality(Makers(Bad(e))) = Goroutines(e)
         /\ Goroutines(e) \in Nat
<1>0. Bad(e).e = e /\ Bad(e).bad
  BY CheckForms
<1>1. CASE Kind(e) = "nopeer"
  <2> DEFINE S == {s \in Svc : AdOf[s] = e[2]}
             n == Cardinality(S)
  <2>1. Makers(Bad(e)) = S \X {1}
    BY <1>0, <1>1, MakersOf
  <2>2. IsFiniteSet(S) /\ n \in Nat
    BY ConstantsAssumption, FS_Subset, FS_CardinalityType
  <2>3. Goroutines(e) = n
    BY <1>1 DEF Goroutines
  <2>4. IsFiniteSet({1}) /\ Cardinality({1}) = 1
    BY FS_Singleton
  <2> HIDE DEF S
  <2>5. IsFiniteSet(S \X {1}) /\ Cardinality(S \X {1}) = n * 1
    BY <2>2, <2>4, FS_Product
  <2> HIDE DEF n
  <2> QED
    BY <2>1, <2>2, <2>3, <2>5
<1>2. CASE Kind(e) \in {"pod", "route", "best"}
  <2> DEFINE A == {e[2]}
  <2>1. Makers(Bad(e)) = A \X Ep
    BY <1>0, <1>2, MakersOf
  <2>2. IsFiniteSet(Ep) /\ Cardinality(Ep) = Endpoints /\ Endpoints \in Nat
    BY NumberOfEndpoints
  <2>3. IsFiniteSet(A) /\ Cardinality(A) = 1
    BY FS_Singleton
  <2>4. Goroutines(e) = Endpoints
    BY <1>2 DEF Goroutines
  <2> HIDE DEF A
  <2>5. IsFiniteSet(A \X Ep) /\ Cardinality(A \X Ep) = 1 * Endpoints
    BY <2>2, <2>3, FS_Product
  <2> QED
    BY <2>1, <2>2, <2>4, <2>5
<1>3. CASE Kind(e) \notin {"nopeer", "pod", "route", "best"}
  <2>1. Goroutines(e) = 1
    BY <1>3 DEF Goroutines
  <2>2. \E m : Makers(Bad(e)) = {m}
    <3>1. CASE Kind(e) \in {"pool", "down", "bfd", "noep"}
      BY <1>0, <3>1, MakersOf
    <3>2. CASE Kind(e) \notin {"pool", "down", "bfd", "noep"}
      BY <1>0, <1>3, <3>2, Zenon DEF Makers
    <3> QED
      BY <3>1, <3>2
  <2>3. PICK m : Makers(Bad(e)) = {m}
    BY <2>2
  <2>4. IsFiniteSet({m}) /\ Cardinality({m}) = 1
    BY FS_Singleton
  <2> QED
    BY <2>1, <2>3, <2>4
<1> QED
  BY <1>1, <1>2, <1>3

\* The goroutines that have the same failing check before them, and for the best route
\* also those that found it again, are some of its makers.
LEMMA SameCheck ==
  ASSUME TypeInv, OwnerInv, NEW e \in Entry, NEW S \in SUBSET DOMAIN thread,
         \A u \in S : Task(u).e = e /\ (Task(u).bad \/ Kind(e) = "best")
  PROVE  Cardinality(S) <= Goroutines(e)
<1>0. ThreadInv
  BY TypeParts DEF ThreadOK
<1>1. ASSUME NEW u \in S PROVE u \in Makers(Bad(e))
  <2>1. u \in Makers(Task(u)) /\ Task(u) \in Checks /\ Task(u).e = e
    BY <1>0, <1>1, TaskType DEF OwnerInv
  <2>2. CASE Task(u).bad
    <3>1. Task(u) = Bad(e)
      BY <2>1, <2>2 DEF Checks, Bad
    <3> QED
      BY <2>1, <3>1
  <2>3. CASE Kind(e) = "best"
    <3>1. Makers(Task(u)) = {e[2]} \X Ep /\ Makers(Bad(e)) = {e[2]} \X Ep
      BY <2>1, <2>3, MakersOf, CheckForms
    <3> QED
      BY <2>1, <3>1
  <2> QED
    BY <1>1, <2>2, <2>3
<1>2. S \subseteq Makers(Bad(e))
  BY <1>1
<1> QED
  BY <1>2, MakersCount, FS_Subset

\* Who is about to send, after a step of a goroutine.
LEMMA WaitingAfter ==
  ASSUME TypeInv, NEW t \in DOMAIN thread, ThreadStep(t), NEW e
  PROVE  /\ t \notin Mailing(e)' => Mailing(e)' = Mailing(e) \ {t}
         /\ t \in Mailing(e)' => Test(t) /\ mails[e] = 0
         /\ t \notin Posting(e)' => Posting(e)' = Posting(e) \ {t}
         /\ t \in Posting(e)' => StoreAppend(t) /\ e \notin alerted
<1>0. ThreadInv /\ ListOK
  BY TypeParts DEF ThreadOK
<1>1. Moved(t)
  BY <1>0, ThreadSteps DEF Finishes, Proceeds
<1>2. \A u \in DOMAIN thread : u # t => u \in DOMAIN thread' /\ Task(u)' = Task(u)
  BY <1>1 DEF Moved, Task
<1>3. /\ t \notin Mailing(e)' => Mailing(e)' = Mailing(e) \ {t}
      /\ t \notin Posting(e)' => Posting(e)' = Posting(e) \ {t}
  BY <1>1, <1>2 DEF Moved, Mailing, Posting
<1>4. ASSUME t \in Mailing(e)' PROVE Test(t) /\ mails[e] = 0
  <2>1. t \in DOMAIN thread' /\ thread'[t].at = "mail" /\ Task(t)'.e = e
    BY <1>4 DEF Mailing
  <2>2. Test(t) /\ Proceeds(t, "mail") /\ mails[Task(t).e] = 0
    BY <1>0, <2>1, ThreadSteps DEF Finishes, Proceeds
  <2>3. Task(t)' = Task(t)
    BY <2>2 DEF Proceeds, Task
  <2> QED
    BY <2>1, <2>2, <2>3
<1>5. ASSUME t \in Posting(e)' PROVE StoreAppend(t) /\ e \notin alerted
  <2>1. t \in DOMAIN thread' /\ thread'[t].at = "post" /\ Task(t)'.e = e
    BY <1>5 DEF Posting
  <2>2. StoreAppend(t) /\ Proceeds(t, "post") /\ Task(t).e \notin alerted
    BY <1>0, <2>1, ThreadSteps DEF Finishes, Proceeds
  <2>3. Task(t)' = Task(t)
    BY <2>2 DEF Proceeds, Task
  <2> QED
    BY <2>1, <2>2, <2>3
<1> QED
  BY <1>3, <1>4, <1>5

\* A set without one of its elements, or without something else.
LEMMA FewerWait ==
  ASSUME NEW S, IsFiniteSet(S), NEW t
  PROVE  /\ Cardinality(S) \in Nat /\ Cardinality(S \ {t}) \in Nat
         /\ Cardinality(S \ {t}) = IF t \in S THEN Cardinality(S) - 1 ELSE Cardinality(S)
  BY FS_RemoveElement, FS_CardinalityType


LEMMA MailsKept ==
  ASSUME TypeInv, OwnerInv, NEW t \in DOMAIN thread, ThreadStep(t), NEW e \in Entry,
         mails[e] = 0 \/ mails[e] + Cardinality(Mailing(e)) <= Goroutines(e)
  PROVE  mails'[e] = 0 \/ mails'[e] + Cardinality(Mailing(e)') <= Goroutines(e)
<1> DEFINE M == Mailing(e)
           n == Cardinality(Mailing(e))
           g == Goroutines(e)
<1>0. ThreadInv /\ mails \in [Entry -> Nat] /\ mails[e] \in Nat /\ g \in Nat
  BY TypeParts, MakersCount DEF ThreadOK, FilesOK
<1>1. /\ IsFiniteSet(M) /\ n \in Nat /\ Cardinality(M \ {t}) \in Nat
      /\ Cardinality(M \ {t}) = IF t \in M THEN n - 1 ELSE n
  BY WaitingFinite, FewerWait
<1>4. M \subseteq DOMAIN thread /\ \A u \in M : Task(u).e = e /\ Task(u).bad
  BY DEF Mailing, OwnerInv
<1>2. CASE t \in Mailing(e)'
  BY <1>2, WaitingAfter DEF Test, files
<1>3. CASE t \notin Mailing(e)'
  <2>1. Mailing(e)' = M \ {t}
    BY <1>3, WaitingAfter
  <2> DEFINE k == Cardinality(Mailing(e)')
  <2>2. k = IF t \in M THEN n - 1 ELSE n
    BY <1>1, <2>1
  <2>3. n <= g
    BY <1>4, SameCheck
  <2>4. CASE Mail(t)
    <3>1. mails' = [mails EXCEPT ![Task(t).e] = @ + 1]
      BY <2>4 DEF Mail
    <3>2. CASE Task(t).e = e
      <4>1. t \in M
        BY <2>4, <3>2 DEF Mailing, Mail, At
      <4>2. mails'[e] = mails[e] + 1
        BY <1>0, <3>1, <3>2
      <4>3. n # 0
        BY <1>1, <4>1, FS_EmptySet
      <4> HIDE DEF M, n, k, g
      <4> QED
        BY <1>0, <1>1, <2>2, <2>3, <4>1, <4>2, <4>3 DEF n, k, g
    <3>3. CASE Task(t).e # e
      <4>1. mails'[e] = mails[e]
        BY <1>0, <3>1, <3>3
      <4> HIDE DEF M, k
      <4> QED
        BY <1>0, <1>1, <2>2, <4>1 DEF k
    <3> QED
      BY <3>2, <3>3
  <2>5. CASE FindIndex(t)
    <3>1. \/ mails' = mails
          \/ mails' = [mails EXCEPT ![Task(t).e] = 1] /\ Kind(Task(t).e) = "best"
      BY <2>5 DEF FindIndex
    <3>2. t \notin M
      BY <2>5 DEF FindIndex, At, Mailing
    <3>3. CASE mails'[e] = mails[e]
      <4> HIDE DEF M
      <4> QED
        BY <1>1, <2>2, <3>2, <3>3
    <3>4. CASE Task(t).e = e /\ Kind(e) = "best"
      <4>1. Cardinality(M \cup {t}) = n + 1
        BY <1>1, <3>2, FS_AddElement
      <4>2. \A u \in M \cup {t} : u \in DOMAIN thread /\ Task(u).e = e
        BY <1>4, <3>4
      <4>3. Cardinality(M \cup {t}) <= g
        BY <3>4, <4>2, SameCheck
      <4>4. mails'[e] = mails[e] \/ mails'[e] = 1
        BY <1>0, <3>1, <3>4
      <4>5. 1 + n <= g
        <5> HIDE DEF M, n, g
        <5> QED
          BY <1>0, <1>1, <4>1, <4>3
      <4>6. k = n
        BY <2>2, <3>2
      <4> HIDE DEF M, n, k, g
      <4> QED
        BY <3>3, <4>4, <4>5, <4>6 DEF k, g
    <3> QED
      BY <1>0, <3>1, <3>3, <3>4
  <2>6. CASE StoreDelete(t)
    <3>1. mails'[e] = mails[e] \/ mails'[e] = 0
      BY <1>0, <2>6 DEF StoreDelete
    <3> HIDE DEF M
    <3> QED
      BY <1>0, <1>1, <2>2, <3>1
  <2>7. CASE Test(t) \/ Load(t) \/ StoreAppend(t) \/ Post(t)
    <3>1. mails' = mails
      BY <2>7 DEF Test, Load, StoreAppend, Post, files
    <3> HIDE DEF M
    <3> QED
      BY <1>0, <1>1, <2>2, <3>1
  <2> QED
    BY <2>4, <2>5, <2>6, <2>7 DEF ThreadStep
<1> QED
  BY <1>2, <1>3

LEMMA AlertsKept ==
  ASSUME TypeInv, OwnerInv, NEW t \in DOMAIN thread, ThreadStep(t), NEW e \in Entry,
         alerts[e] = lost[e]
           \/ alerts[e] + Cardinality(Posting(e)) <= Goroutines(e) + lost[e],
         e \notin alerted => alerts[e] = lost[e]
  PROVE  /\ alerts'[e] = lost'[e]
              \/ alerts'[e] + Cardinality(Posting(e)') <= Goroutines(e) + lost'[e]
         /\ e \notin alerted' => alerts'[e] = lost'[e]
<1> DEFINE P == Posting(e)
           n == Cardinality(Posting(e))
           g == Goroutines(e)
<1>0. /\ ThreadInv /\ alerts \in [Entry -> Nat] /\ lost \in [Entry -> Nat]
      /\ Task(t).e \in Entry /\ alerts[e] \in Nat /\ lost[e] \in Nat /\ g \in Nat
  BY TypeParts, TaskType, MakersCount DEF ThreadOK, FilesOK
<1>1. /\ IsFiniteSet(P) /\ n \in Nat /\ Cardinality(P \ {t}) \in Nat
      /\ Cardinality(P \ {t}) = IF t \in P THEN n - 1 ELSE n
  BY WaitingFinite, FewerWait
<1>2. CASE t \in Posting(e)'
  BY <1>2, WaitingAfter DEF StoreAppend, files
<1>3. CASE t \notin Posting(e)'
  <2>1. Posting(e)' = P \ {t}
    BY <1>3, WaitingAfter
  <2> DEFINE k == Cardinality(Posting(e)')
  <2>2. k = IF t \in P THEN n - 1 ELSE n
    BY <1>1, <2>1
  <2>3. ASSUME alerts'[e] = alerts[e], lost'[e] = lost[e], e \notin alerted' => e \notin alerted
        PROVE  /\ alerts'[e] = lost'[e]
                    \/ alerts'[e] + Cardinality(Posting(e)') <= Goroutines(e) + lost'[e]
               /\ e \notin alerted' => alerts'[e] = lost'[e]
    <3> HIDE DEF P
    <3> QED
      BY <1>0, <1>1, <2>2, <2>3
  <2>4. CASE Post(t)
    <3> DEFINE more == [alerts EXCEPT ![Task(t).e] = @ + 1]
    <3>1. \/ alerted' = alerted \cup {Task(t).e} /\ alerts' = more /\ lost' = lost
          \/ alerted' = alerted /\ alerts' = more /\ lost' = [lost EXCEPT ![Task(t).e] = @ + 1]
          \/ UNCHANGED <<alerted, alerts, lost>>
      BY <2>4 DEF Post
    <3>2. CASE UNCHANGED <<alerted, alerts, lost>> \/ Task(t).e # e
      BY <1>0, <2>3, <3>1, <3>2
    <3>3. CASE Task(t).e = e /\ ~UNCHANGED <<alerted, alerts, lost>>
      <4>1. t \in P
        BY <2>4, <3>3 DEF Posting, Post, At
      <4>2. /\ alerts'[e] = alerts[e] + 1
            /\ \/ e \in alerted' /\ lost'[e] = lost[e]
               \/ alerted' = alerted /\ lost'[e] = lost[e] + 1
        BY <1>0, <3>1, <3>3
      <4>3. n # 0
        BY <1>1, <4>1, FS_EmptySet
      <4>4. n <= g
        <5>1. P \subseteq DOMAIN thread /\ \A u \in P : Task(u).e = e /\ Task(u).bad
          BY DEF Posting, OwnerInv
        <5> QED
          BY <5>1, SameCheck
      <4>5. k = n - 1
        BY <2>2, <4>1
      <4> HIDE DEF P, n, k, g
      <4>6. alerts'[e] = lost'[e] \/ alerts'[e] + k <= g + lost'[e]
        BY <1>0, <1>1, <4>2, <4>3, <4>4, <4>5 DEF n, g
      <4>7. e \notin alerted' => alerts'[e] = lost'[e]
        BY <4>2
      <4> QED
        BY <4>6, <4>7 DEF k, g
    <3> QED
      BY <3>2, <3>3
  <2>5. CASE StoreDelete(t)
    <3>1. \/ /\ alerted' = alerted \ {Task(t).e}
             /\ alerts' = [alerts EXCEPT ![Task(t).e] = 0]
             /\ lost' = [lost EXCEPT ![Task(t).e] = 0]
          \/ UNCHANGED <<alerted, alerts, lost>>
      BY <2>5 DEF StoreDelete
    <3>2. CASE UNCHANGED <<alerted, alerts, lost>> \/ Task(t).e # e
      BY <1>0, <2>3, <3>1, <3>2
    <3>3. CASE /\ alerts' = [alerts EXCEPT ![Task(t).e] = 0]
               /\ lost' = [lost EXCEPT ![Task(t).e] = 0] /\ Task(t).e = e
      BY <1>0, <3>3
    <3> QED
      BY <3>1, <3>2, <3>3
  <2>6. CASE Test(t) \/ Mail(t) \/ FindIndex(t) \/ Load(t) \/ StoreAppend(t)
    BY <2>3, <2>6 DEF Test, Mail, FindIndex, Load, StoreAppend, files
  <2> QED
    BY <2>4, <2>5, <2>6 DEF ThreadStep
<1> QED
  BY <1>2, <1>3

LEMMA SentKept ==
  ASSUME TypeInv, OwnerInv, SentInv, [Next]_vars
  PROVE  SentInv'
<1>0. /\ ThreadInv /\ mails \in [Entry -> Nat]
      /\ alerts \in [Entry -> Nat] /\ lost \in [Entry -> Nat]
  BY TypeParts DEF ThreadOK, FilesOK
<1>9. \A e \in Entry : Goroutines(e) \in Nat
  BY MakersCount
<1>3. mails' \in [Entry -> Nat] /\ alerts' \in [Entry -> Nat] /\ lost' \in [Entry -> Nat]
  BY FilesKept DEF FilesOK
<1>1. ASSUME \A e : Mailing(e)' = {} /\ Posting(e)' = {},
             \A e \in Entry : /\ mails'[e] <= Goroutines(e)
                              /\ alerts'[e] <= Goroutines(e) + lost'[e]
                              /\ e \notin alerted' => alerts'[e] = lost'[e]
      PROVE  SentInv'
  <2>1. \A e \in Entry : Cardinality(Mailing(e)') = 0 /\ Cardinality(Posting(e)') = 0
    BY <1>1, FS_EmptySet
  <2>2. ASSUME NEW e \in Entry
        PROVE  /\ mails'[e] = 0 \/ mails'[e] + Cardinality(Mailing(e)') <= Goroutines(e)
               /\ alerts'[e] = lost'[e]
                    \/ alerts'[e] + Cardinality(Posting(e)') <= Goroutines(e) + lost'[e]
               /\ e \notin alerted' => alerts'[e] = lost'[e]
    <3>1. mails'[e] \in Nat /\ alerts'[e] \in Nat /\ lost'[e] \in Nat
      BY <1>3
    <3> QED
      BY <1>1, <2>1, <3>1
  <2> QED
    BY <2>2 DEF SentInv
<1>2. ASSUME NEW e \in Entry
      PROVE  mails[e] <= Goroutines(e) /\ alerts[e] <= Goroutines(e) + lost[e]
  <2>1. /\ mails[e] \in Nat /\ alerts[e] \in Nat /\ lost[e] \in Nat /\ Goroutines(e) \in Nat
        /\ Cardinality(Mailing(e)) \in Nat /\ Cardinality(Posting(e)) \in Nat
    BY <1>0, <1>9, WaitingFinite
  <2>2. /\ mails[e] = 0 \/ mails[e] + Cardinality(Mailing(e)) <= Goroutines(e)
        /\ alerts[e] = lost[e]
             \/ alerts[e] + Cardinality(Posting(e)) <= Goroutines(e) + lost[e]
    BY DEF SentInv
  <2> QED
    BY <2>1, <2>2
<1>4. CASE UNCHANGED <<thread, files>>
  BY <1>4 DEF SentInv, Mailing, Posting, Task, files
<1>5. CASE Die
  <2>1. \A e : Mailing(e)' = {} /\ Posting(e)' = {}
    BY <1>5, NoThreadType DEF Die, Exit, Mailing, Posting
  <2>2. \A e \in Entry : mails'[e] = 0 /\ alerts'[e] = 0 /\ lost'[e] = 0
    BY <1>5 DEF Die
  <2> QED
    BY <1>1, <1>9, <2>1, <2>2
<1>6. CASE Started /\ UNCHANGED files
  <2>1. \A e : Mailing(e)' = {} /\ Posting(e)' = {}
    BY <1>6 DEF Started, Mailing, Posting
  <2>2. \A e \in Entry : e \notin alerted => alerts[e] = lost[e]
    BY DEF SentInv
  <2> QED
    BY <1>1, <1>2, <1>6, <2>1, <2>2 DEF files
<1>7. CASE Cleanup
  <2>1. thread' = NoThread /\ UNCHANGED <<alerted, alerts, lost>>
    BY <1>0, <1>7 DEF Cleanup, Phase, ThreadInv
  <2>2. \A e : Mailing(e)' = {} /\ Posting(e)' = {}
    BY <2>1, NoThreadType DEF Mailing, Posting
  <2>3. ASSUME NEW e \in Entry PROVE mails'[e] <= Goroutines(e)
    <3>1. PICK healed, told :
            mails' = [f \in Entry |-> CASE f \in healed                   -> 0
                                        [] f \in {"nospeaker"} \X told  -> 1
                                        [] OTHER                        -> mails[f]]
      BY <1>7, Zenon DEF Cleanup
    <3>2. \/ mails'[e] \in {0, mails[e]}
          \/ mails'[e] = 1 /\ e \in {"nospeaker"} \X told
      BY <3>1
    <3>3. e \in {"nospeaker"} \X told => Goroutines(e) = 1
      BY DEF Goroutines, Kind
    <3> QED
      BY <1>2, <1>9, <3>2, <3>3
  <2>5. \A e \in Entry : e \notin alerted => alerts[e] = lost[e]
    BY DEF SentInv
  <2> QED
    BY <1>1, <1>2, <2>1, <2>2, <2>3, <2>5
<1>8. CASE \E t \in DOMAIN thread : ThreadStep(t)
  BY <1>8, MailsKept, AlertsKept DEF SentInv
<1> QED
  BY <1>4, <1>5, <1>6, <1>7, <1>8, Effects

\* Once something was sent, and answered, no goroutine joins those that are about to send.
THEOREM SentHolds == Spec => []SentInv
<1>1. Init => SentInv
  BY DEF Init, SentInv
<1>2. TypeInv /\ OwnerInv /\ SentInv /\ [Next]_vars => SentInv'
  BY SentKept
<1> QED
  BY <1>1, <1>2, TypesHold, OwnersHold, PTL DEF Spec

LEMMA SentBounds ==
  ASSUME TypeInv, SentInv
  PROVE  AlertsBounded /\ MailsBounded
<1>1. ASSUME NEW e \in Entry
      PROVE  mails[e] <= Goroutines(e) /\ alerts[e] <= Goroutines(e) + lost[e]
  <2>1. /\ mails[e] \in Nat /\ alerts[e] \in Nat /\ lost[e] \in Nat /\ Goroutines(e) \in Nat
        /\ Cardinality(Mailing(e)) \in Nat /\ Cardinality(Posting(e)) \in Nat
    BY TypeParts, MakersCount, WaitingFinite DEF FilesOK
  <2>2. /\ mails[e] = 0 \/ mails[e] + Cardinality(Mailing(e)) <= Goroutines(e)
        /\ alerts[e] = lost[e]
             \/ alerts[e] + Cardinality(Posting(e)) <= Goroutines(e) + lost[e]
    BY DEF SentInv
  <2> QED
    BY <2>1, <2>2
<1> QED
  BY <1>1 DEF AlertsBounded, MailsBounded

\* No alert storm: whatever the goroutines do to the list at once, also those of services
\* that share an advertisement, until its entry is dropped a check is alerted at most once
\* for each goroutine that makes it, and once more for each alert whose answer was lost.
THEOREM AlertsAreBounded == Spec => []AlertsBounded
  BY TypesHold, SentHolds, SentBounds, PTL

\* Nor a storm of mails: at most one for each goroutine that makes the check.
THEOREM MailsAreBounded == Spec => []MailsBounded
  BY TypesHold, SentHolds, SentBounds, PTL

(***************************************************************************)
(* The queue                                                               *)
(***************************************************************************)

LEMMA WorkerKept ==
  ASSUME TypeInv, WorkerInv, [Next]_vars
  PROVE  WorkerInv'
<1>0. /\ obj \in Object /\ cache \in Object /\ mem \in Object
      /\ cacheFresh \in BOOLEAN /\ ThreadInv /\ list \in Slice
  BY TypeParts DEF ObjectsOK, FlagsOK, ThreadOK, ListOK
<1> USE DEF WorkerInv, NeverForgotten
<1>1. CASE Get
  <2> DEFINE empty == <<>>
  <2>1. empty \in Seq(Entry)
    OBVIOUS
  <2>2. mem' = [cache EXCEPT !.st.failed = empty]
    BY <1>1 DEF Get
  <2> HIDE DEF empty
  <2>3. mem'.st.ready = cache.st.ready
    BY <1>0, <2>1, <2>2, UpdateTypes
  <2> QED
    BY <1>1, <2>3 DEF Get, api
<1>2. CASE SecretMissing \/ CommitFails
  BY <1>2 DEF SecretMissing, CommitFails, Prelude, Exit, api
<1>3. CASE FirstSeen
  <2> DEFINE s == SetReadyCondition(mem.st, "Unknown")
  <2>1. mem' = [mem EXCEPT !.st = s]
    BY <1>3 DEF FirstSeen
  <2>3. s \in Status /\ s.ready = "Unknown"
    BY <1>0, UpdateTypes, StatusTypes
  <2> HIDE DEF s
  <2>2. mem'.st.ready = "Unknown"
    BY <1>0, <2>1, <2>3, UpdateTypes
  <2> QED
    BY <1>3, <2>2 DEF FirstSeen, Prelude, Leave, Return, api
<1>4. CASE NoClient \/ NotDue \/ StartScan
  BY <1>4 DEF NoClient, NotDue, StartScan, Prelude, Leave, Return, api
<1>5. CASE ScanPhase
  <2>1. UNCHANGED <<obj, cache, cacheFresh>>
    BY <1>5, PhaseFrame DEF Phase, api
  <2>2. pc' \notin {"idle", "setup"} /\ (pc' = "commit" => verdict' # "done")
    <3>1. CASE FetchPhase
      BY <3>1, FetchEffect DEF Started, Return, AfterThreads
    <3>2. CASE Gate \/ Cleanup \/ CleanServices \/ Conclude
      BY <3>2, LoopPhases
    <3> QED
      BY <1>5, <3>1, <3>2, PhaseCases
  <2> QED
    BY <2>1, <2>2
<1>6. CASE \E t \in DOMAIN thread : ThreadStep(t)
  BY <1>6, WorkFrame DEF Working, api, control, wq
<1>7. CASE (\E t \in DOMAIN thread : ThreadPanics(t)) \/ Crash
  BY <1>7, DieCases DEF Die, Exit
<1>8. CASE Join
  <2>1. pc' \in AfterThreads /\ UNCHANGED <<api, verdict>>
    BY <1>0, <1>8 DEF Join, ThreadInv, AfterThreads
  <2>2. pc' = "commit" => verdict' # "done"
    BY <1>0, <1>8 DEF Join, ThreadInv
  <2> QED
    BY <2>1, <2>2 DEF AfterThreads, api
<1>9. CASE Commit
  <2>1. obj' = [obj EXCEPT !.st = Reported]
    BY <1>9 DEF Commit
  <2>2. Reported \in Status /\ (verdict # "error" => Reported.ready = mem.st.ready)
    BY ReportedType, TypeParts
  <2>3. obj'.st.ready = Reported.ready
    BY <1>0, <2>1, <2>2, UpdateTypes
  <2>4. /\ cacheFresh' = (cacheFresh /\ obj' = obj)
        /\ timer' = (timer \/ verdict # "done")
        /\ pc = "commit" /\ memFresh /\ UNCHANGED <<cache, queue>> /\ pc' = "idle"
    BY <1>9 DEF Commit, Exit
  <2>5. verdict = "done" => obj' # obj
    BY <2>2, <2>3, <2>4
  <2>6. cacheFresh' => cache'.st.ready = obj'.st.ready
    <3>1. cacheFresh' => cacheFresh /\ obj' = obj
      BY <2>4, Zenon
    <3> QED
      BY <2>4, <3>1
  <2>7. queue' \/ timer' \/ ~cacheFresh'
    <3>1. verdict # "done" => timer'
      BY <2>4, Zenon
    <3>2. obj' # obj => ~cacheFresh'
      BY <2>4, Zenon
    <3> QED
      BY <2>5, <3>1, <3>2
  <2> QED
    BY <2>4, <2>6, <2>7
<1>10. CASE TimerFires \/ WatchEvent
  BY <1>10 DEF TimerFires, WatchEvent, api, control
<1>11. CASE Elapse
  <2>1. obj'.st.ready = obj.st.ready /\ cache'.st.ready = cache.st.ready
        /\ mem'.st.ready = mem.st.ready
    BY <1>0, <1>11, UpdateTypes DEF Elapse
  <2> QED
    BY <1>11, <2>1 DEF Elapse, wq
<1>12. CASE \E c \in Confs : Edit(c)
  BY <1>12 DEF Edit, wq
<1>13. CASE ClusterChange \/ UNCHANGED vars
  BY <1>13, ChangeFrame DEF Changes, vars, api, wq, control
<1> QED
  BY <1>1, <1>2, <1>3, <1>4, <1>5, <1>6, <1>7, <1>8, <1>9, <1>10, <1>11, <1>12, <1>13,
     NextCases

\* A reconcile that asks for no requeue stores a condition the resource did not have.
THEOREM WorkerHolds == Spec => []WorkerInv
<1>1. Init => WorkerInv
  BY DEF Init, WorkerInv, NeverForgotten
<1>2. TypeInv /\ WorkerInv /\ [Next]_vars => WorkerInv'
  BY WorkerKept
<1> QED
  BY <1>1, <1>2, TypesHold, PTL DEF Spec

\* After each Reconcile, also one that panics, the resource is queued, about to be, or an
\* event is on its way.
THEOREM NobodyIsForgotten == Spec => []NeverForgotten
<1>1. WorkerInv => NeverForgotten
  BY DEF WorkerInv
<1> QED
  BY <1>1, WorkerHolds, PTL
=============================================================================
