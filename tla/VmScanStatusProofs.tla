------------------------- MODULE VmScanStatusProofs -------------------------
(***************************************************************************)
(* Proofs about what VmScan stores in the status of its resource, and that *)
(* it implements ScanLifecycle.  PlaceInv says what a scan has found so    *)
(* far, whatever becomes of the stored object meanwhile; FreshInv what the *)
(* copy Reconcile works on has to do with that object.                     *)
(***************************************************************************)
EXTENDS VmScanProofs

(***************************************************************************)
(* What a scan finds                                                       *)
(***************************************************************************)

\* The violations found up to node k.
Found(k) == UNION {On(n) : n \in TailUpTo(k)}

LEMMA HandledIs ==
  ASSUME NEW k
  PROVE  Handled(k) <=> /\ isAffected = Shared(k)
                        /\ Found(k) \subseteq mem.affected
                        /\ TailUpTo(k) # 1..k => mem.affected = Found(k)
  BY DEF Handled, Found

\* A node with a violation joins the tail that ends with it; one without ends it.
LEMMA TailGrows ==
  ASSUME NEW k \in Nat, Shared(k + 1)
  PROVE  TailUpTo(k + 1) = TailUpTo(k) \cup {k + 1}
<1>1. ASSUME NEW n \in 1..(k + 1)
      PROVE  (\A m \in n..(k + 1) : Shared(m)) <=> (\A m \in n..k : Shared(m))
  <2>1. n..(k + 1) = (n..k) \cup {k + 1}
    OBVIOUS
  <2> QED
    BY <2>1
<1>2. \A m \in (k + 1)..k : Shared(m)
  OBVIOUS
<1>3. 1..(k + 1) = (1..k) \cup {k + 1}
  OBVIOUS
<1> QED
  BY <1>1, <1>2, <1>3 DEF TailUpTo

LEMMA TailEnds ==
  ASSUME NEW k \in Nat, ~Shared(k)
  PROVE  TailUpTo(k) = {}
<1>1. \A n \in 1..k : k \in n..k
  OBVIOUS
<1> QED
  BY <1>1 DEF TailUpTo

\* One node more.
LEMMA HandleShared ==
  ASSUME TypeInv, NEW k \in 0..N, k + 1 \in Node, k > 0 => Handled(k),
         Shared(k + 1), UNCHANGED seen, isAffected' = TRUE,
         mem'.affected = mem.affected \cup On(k + 1)
  PROVE  Handled(k + 1)'
<1>n. k \in Nat
  BY ConstantsAssumption
<1>1. TailUpTo(k + 1)' = TailUpTo(k + 1) /\ Shared(k + 1)' = Shared(k + 1)
      /\ Found(k + 1)' = Found(k + 1)
  BY DEF TailUpTo, Found, Shared, On
<1>2. TailUpTo(k + 1) = TailUpTo(k) \cup {k + 1}
  BY <1>n, TailGrows
<1>3. Found(k + 1) = Found(k) \cup On(k + 1)
  BY <1>2 DEF Found
<1>4. CASE k = 0
  <2>1. TailUpTo(0) = {} /\ Found(0) = {}
    BY DEF TailUpTo, Found
  <2>2. TailUpTo(k + 1) = 1..(k + 1)
    BY <1>2, <1>4, <2>1
  <2>3. isAffected' = Shared(k + 1)'
    BY <1>1
  <2> QED
    BY <1>1, <1>3, <1>4, <2>1, <2>2, <2>3 DEF Handled, Found
<1>5. CASE k > 0
  <2>1. /\ Found(k) \subseteq mem.affected
        /\ TailUpTo(k) # 1..k => mem.affected = Found(k)
    BY <1>5, HandledIs
  <2>2. TailUpTo(k + 1) # 1..(k + 1) => TailUpTo(k) # 1..k
    <3>1. 1..(k + 1) = (1..k) \cup {k + 1}
      BY <1>n
    <3> QED
      BY <1>2, <3>1
  <2>3. isAffected' = Shared(k + 1)'
    BY <1>1
  <2> QED
    BY <1>1, <1>3, <2>1, <2>2, <2>3 DEF Handled, Found
<1> QED
  BY <1>n, <1>4, <1>5

LEMMA HandleAlone ==
  ASSUME NEW k \in Nat, ~Shared(k), UNCHANGED seen, isAffected' = FALSE,
         mem'.affected = {}
  PROVE  Handled(k)'
<1>1. TailUpTo(k)' = {}
  <2>1. TailUpTo(k)' = TailUpTo(k)
    BY DEF TailUpTo, Shared, On
  <2> QED
    BY <2>1, TailEnds
<1>2. Shared(k)' = Shared(k)
  BY DEF Shared, On
<1>3. Shared(k)' = FALSE
  BY <1>2 DEF Shared
<1> QED
  BY <1>1, <1>3 DEF Handled

LEMMA InitPlace == Init => PlaceInv
  BY DEF Init, PlaceInv, Scanned

\* The parts of a status that a step leaves alone.
LEMMA AgedParts ==
  ASSUME NEW s \in Status
  PROVE  /\ Aged(s).verdict = s.verdict /\ Aged(s).affected = s.affected
         /\ Aged(s).poll = IF s.poll = "recent" THEN "due" ELSE s.poll
         /\ s.poll # "recent" => Aged(s) = s
  BY DEF Aged, Status

LEMMA SuccessParts ==
  ASSUME NEW s \in Status, NEW t,
         t = [SetNonViolationCondition(s, "NonViolated")
                EXCEPT !.poll = "recent", !.notified = FALSE]
  PROVE  t.verdict = "NonViolated" /\ t.affected = s.affected /\ t.poll = "recent"
  BY DEF SetNonViolationCondition, Status

LEMMA HandledFrame ==
  ASSUME NEW k, UNCHANGED <<seen, isAffected>>, mem'.affected = mem.affected
  PROVE  Handled(k)' <=> Handled(k)
  BY DEF Handled, TailUpTo, Shared, On

LEMMA PlaceFrame ==
  ASSUME PlaceInv, UNCHANGED <<pc, ns, todo, seen, isAffected, verdict>>,
         mem'.affected = mem.affected, mem'.verdict = mem.verdict
  PROVE  PlaceInv'
<1>1. \A k : Handled(k)' <=> Handled(k)
  BY HandledFrame
<1> QED
  BY <1>1 DEF PlaceInv, Scanned

\* Outside a scan there is nothing to know.
LEMMA PlaceElsewhere ==
  ASSUME TypeInv, pc' \in {"idle", "setup", "migrations"} \/ (pc' = "commit" /\ ns' # M + 1)
  PROVE  PlaceInv'
  BY DEF PlaceInv, Scanned

LEMMA NodePlace ==
  ASSUME TypeInv, PlaceInv, NEW n \in Node, ScanNode(n)
  PROVE  PlaceInv'
<1>1. /\ Take(n) /\ UNCHANGED seen
      /\ pc = "place" /\ pc' = "place" /\ n \in todo /\ \A m \in todo : n <= m
      /\ todo' = todo \ {n}
  BY DEF ScanNode, NodeShared, NodeAlone, NodeRecovered, Take
<1>2. PICK k \in 0..N :
        /\ todo = (k + 1)..N
        /\ k > 0 /\ (k < N \/ ns > 1) => Handled(k)
  BY <1>1 DEF PlaceInv
<1>3. n = k + 1 /\ k < N /\ k \in Nat /\ N \in Nat
  BY <1>1, <1>2, ConstantsAssumption
<1>4. todo' = (n + 1)..N /\ n \in 0..N
  BY <1>1, <1>2, <1>3
<1>5. mem \in Status
  BY DEF TypeInv, TypeOK
<1>6. Handled(n)'
  <2>1. CASE NodeShared(n)
    <3>1. mem'.affected = mem.affected \cup On(n)
      <4> DEFINE A == mem.affected \cup On(n)
      <4>1. \/ mem' = [mem EXCEPT !.affected = A]
            \/ \E I : mem' = [mem EXCEPT !.affected = A, !.notified = TRUE, !.incidents = I]
        BY <2>1 DEF NodeShared
      <4> HIDE DEF A
      <4>2. mem'.affected = A
        BY <1>5, <4>1 DEF Status
      <4> QED
        BY <4>2 DEF A
    <3>2. Shared(n) /\ isAffected' = TRUE
      BY <2>1 DEF NodeShared
    <3> QED
      BY <1>1, <1>2, <1>3, <3>1, <3>2, HandleShared
  <2>2. CASE NodeAlone(n) \/ NodeRecovered(n)
    <3>1. mem'.affected = {}
      <4>1. \/ mem' = [mem EXCEPT !.affected = {}]
            \/ \E I : mem' = [mem EXCEPT !.affected = {}, !.incidents = I]
        BY <2>2 DEF NodeAlone, NodeRecovered
      <4> QED
        BY <1>5, <4>1 DEF Status
    <3>2. ~Shared(n) /\ isAffected' = FALSE
      BY <2>2 DEF NodeAlone, NodeRecovered
    <3>3. n \in Nat
      BY <1>3
    <3> QED
      BY <1>1, <3>1, <3>2, <3>3, HandleAlone
  <2> QED
    BY <2>1, <2>2 DEF ScanNode
<1> QED
  BY <1>1, <1>4, <1>6 DEF PlaceInv, Scanned

LEMMA NextPlace == TypeInv /\ PlaceInv /\ [Next]_vars => PlaceInv'
<1> SUFFICES ASSUME TypeInv, PlaceInv, [Next]_vars PROVE PlaceInv'
  OBVIOUS
<1>n. N \in Nat /\ M \in Nat
  BY ConstantsAssumption
<1>t. mem \in Status
  BY DEF TypeInv, TypeOK
<1>1. CASE \E n \in Node : ScanNode(n)
  BY <1>1, NodePlace
<1>2. CASE Get \/ SecretMissing \/ StartScan \/ CheckMigrations \/ Commit \/ CommitFails \/ Crash
  BY <1>2, PlaceElsewhere DEF Get, SecretMissing, StartScan, CheckMigrations, Commit,
     CommitFails, Crash, Exit
<1>3. CASE NoClient \/ NothingToDo
  <2>1. pc' = "commit" /\ ns' = 0
    BY <1>3 DEF NoClient, NothingToDo, Return, TypeInv, ScopeInv
  <2> QED
    BY <1>n, <2>1, PlaceElsewhere
<1>4. CASE ListVmisFails
  <2>1. pc' = "commit" /\ ns' = ns /\ ns <= M
    BY <1>4 DEF ListVmisFails, Return
  <2> QED
    BY <1>n, <2>1, PlaceElsewhere
<1>5. CASE StartPlacementCheck
  <2>1. pc' = "place" /\ ns' = 1 /\ todo' = {}
    BY <1>5 DEF StartPlacementCheck, TypeInv, ScopeInv
  <2>2. N \in 0..N /\ todo' = (N + 1)..N
    BY <1>n, <2>1
  <2> QED
    BY <2>1, <2>2 DEF PlaceInv, Scanned
<1>6. CASE ListVmis
  <2>1. pc' = "place" /\ todo' = 1..N
    BY <1>6 DEF ListVmis, Node
  <2>2. 0 \in 0..N /\ todo' = (0 + 1)..N
    BY <1>n, <2>1
  <2> QED
    BY <2>1, <2>2 DEF PlaceInv, Scanned
<1>7. CASE EndScan
  <2>1. /\ pc = "place" /\ ns = M + 1 /\ pc' = "commit"
        /\ UNCHANGED <<seen, isAffected>>
        /\ verdict' = IF isAffected THEN "error" ELSE "again"
    BY <1>7 DEF EndScan, Return
  <2>2. ~isAffected => mem'.verdict = "NonViolated" /\ mem'.affected = mem.affected
    BY <1>7, <1>t, SuccessParts DEF EndScan
  <2>3. mem'.affected = mem.affected
    BY <1>7, <2>2 DEF EndScan
  <2>4. ASSUME M > 0, N > 0 PROVE Handled(N)'
    <3>1. PICK k \in 0..N :
            /\ todo = (k + 1)..N
            /\ k > 0 /\ (k < N \/ ns > 1) => Handled(k)
      BY <2>1 DEF PlaceInv
    <3>2. todo = {}
      BY <1>n, <2>1 DEF TypeInv, ScopeInv, Namespace
    <3>3. k = N
      <4>1. k < N => k + 1 \in (k + 1)..N
        BY <1>n
      <4> QED
        BY <1>n, <3>1, <3>2, <4>1
    <3>4. Handled(N)
      BY <1>n, <2>1, <2>4, <3>1, <3>3
    <3> QED
      BY <2>1, <2>3, <3>4, HandledFrame
  <2> QED
    BY <2>1, <2>2, <2>4 DEF PlaceInv, Scanned
<1>8. CASE Elapse
  BY <1>8, <1>t, AgedParts, PlaceFrame DEF Elapse
<1>9. CASE WatchEvent \/ (\E v \in Vmi : Migrate(v) \/ Delete(v))
             \/ (\E v \in Vmi, n \in Node : Land(v, n))
  BY <1>9, PlaceFrame DEF WatchEvent, Migrate, Delete, Land, Moves, worker
<1>10. CASE UNCHANGED vars
  BY <1>10, PlaceFrame DEF vars, worker
<1> QED
  BY <1>1, <1>2, <1>3, <1>4, <1>5, <1>6, <1>7, <1>8, <1>9, <1>10
     DEF Next, Reconcile, Environment

LEMMA PlaceInvHolds == Spec => [](TypeInv /\ PlaceInv)
<1>1. Init => TypeInv /\ PlaceInv
  BY InitType, InitPlace
<1>2. TypeInv /\ PlaceInv /\ [Next]_vars => TypeInv' /\ PlaceInv'
  BY NextType, NextPlace
<1> QED
  BY <1>1, <1>2, PTL DEF Spec

\* The flag and the list a scan stores are those of the last nodes, for any number of
\* nodes and namespaces and whatever the VMIs do while the scan lists them.
THEOREM VerdictIsOfTheTail == Spec => VerdictIsThatOfTheTail
<1>1. TypeInv /\ PlaceInv /\ [Next]_vars => [VerdictStep]_vars
  <2> SUFFICES ASSUME TypeInv, PlaceInv, Commit, Scanned PROVE VerdictStep
    BY DEF VerdictStep
  <2>1. /\ Handled(N) /\ verdict = IF isAffected THEN "error" ELSE "again"
        /\ ~isAffected => mem.verdict = "NonViolated"
    BY DEF PlaceInv
  <2>2. mem \in Status /\ st' = Reported
    BY DEF TypeInv, TypeOK, Commit
  <2>3. st'.affected = mem.affected
        /\ st'.verdict = IF Shared(N) THEN "Violated" ELSE "NonViolated"
    BY <2>1, <2>2 DEF Reported, SetNonViolationCondition, Status, Handled
  <2>4. Tail = TailUpTo(N) /\ Node = 1..N
    BY DEF Tail, TailUpTo, Node
  <2> QED
    BY <2>1, <2>3, <2>4 DEF VerdictStep, Handled
<1> QED
  BY <1>1, PlaceInvHolds, PTL DEF Spec, VerdictIsThatOfTheTail

(***************************************************************************)
(* "NonViolated" and the list                                              *)
(***************************************************************************)

LEMMA InitVerdict == Init => VerdictInv
  BY DEF Init, VerdictInv, ListsNothing, EmptyStatus

\* A scan that ends without a violation has an empty list.
LEMMA NothingFound ==
  ASSUME TypeInv, PlaceInv, VerdictInv, pc = "place", ns = M + 1, ~isAffected
  PROVE  mem.affected = {}
<1>n. N \in Nat /\ M \in Nat
  BY ConstantsAssumption
<1>1. CASE M = 0
  BY <1>1 DEF VerdictInv
<1>2. CASE N = 0
  BY <1>2 DEF TypeInv, TypeOK, Status, Node
<1>3. CASE M > 0 /\ N > 0
  <2>1. PICK k \in 0..N :
          /\ todo = (k + 1)..N
          /\ k > 0 /\ (k < N \/ ns > 1) => Handled(k)
    BY DEF PlaceInv
  <2>2. todo = {}
    BY <1>n DEF TypeInv, ScopeInv, Namespace
  <2>3. k = N
    <3>1. k < N => k + 1 \in (k + 1)..N
      BY <1>n
    <3> QED
      BY <1>n, <2>1, <2>2, <3>1
  <2>4. Handled(N)
    BY <1>n, <1>3, <2>1, <2>3
  <2>5. TailUpTo(N) = {}
    BY <1>n, <2>4, TailEnds DEF Handled
  <2>6. N \in 1..N
    BY <1>n, <1>3
  <2> QED
    BY <2>4, <2>5, <2>6 DEF Handled
<1> QED
  BY <1>n, <1>1, <1>2, <1>3

LEMMA NextVerdict == TypeInv /\ PlaceInv /\ VerdictInv /\ [Next]_vars => VerdictInv'
<1> SUFFICES ASSUME TypeInv, PlaceInv, VerdictInv, [Next]_vars PROVE VerdictInv'
  OBVIOUS
<1>n. M \in Nat
  BY ConstantsAssumption
<1>t. st \in Status /\ cache \in Status /\ mem \in Status
  BY DEF TypeInv, TypeOK
<1>e. EmptyStatus.affected = {} /\ ListsNothing(EmptyStatus)
  BY DEF EmptyStatus, ListsNothing
<1>1. CASE Get
  BY <1>1 DEF Get, VerdictInv, stored
<1>2. CASE SecretMissing \/ CommitFails
  BY <1>2, <1>e DEF SecretMissing, CommitFails, Exit, VerdictInv, stored
<1>3. CASE NoClient \/ NothingToDo
  BY <1>3 DEF NoClient, NothingToDo, Return, VerdictInv, stored
<1>4. CASE StartScan \/ StartPlacementCheck \/ ListVmis
  BY <1>4 DEF StartScan, StartPlacementCheck, ListVmis, VerdictInv, stored
<1>5. CASE CheckMigrations
  <2>1. mem'.affected = mem.affected
    BY <1>5, <1>t DEF CheckMigrations, Status
  <2> QED
    BY <1>5, <2>1 DEF CheckMigrations, VerdictInv, stored
<1>6. CASE ListVmisFails
  BY <1>6 DEF ListVmisFails, Return, VerdictInv, stored
<1>7. CASE \E n \in Node : ScanNode(n)
  <2>1. UNCHANGED stored /\ pc' = "place" /\ todo # {}
    BY <1>7 DEF ScanNode, NodeShared, NodeAlone, NodeRecovered, Take
  <2>2. M # 0
    BY <2>1 DEF TypeInv, ScopeInv, Namespace
  <2> QED
    BY <2>1, <2>2 DEF VerdictInv, stored
<1>8. CASE EndScan
  <2>1. UNCHANGED stored /\ pc' = "commit" /\ pc = "place" /\ ns = M + 1
    BY <1>8 DEF EndScan, Return
  <2>2. CASE isAffected
    BY <1>8, <2>1, <2>2 DEF EndScan, Return, VerdictInv, stored
  <2>3. CASE ~isAffected
    <3>1. mem.affected = {}
      BY <2>1, <2>3, NothingFound
    <3>2. mem'.affected = {}
      BY <1>8, <1>t, <2>3, <3>1, SuccessParts DEF EndScan
    <3> QED
      BY <2>1, <3>2 DEF VerdictInv, ListsNothing, stored
  <2> QED
    BY <2>2, <2>3
<1>9. CASE Commit
  <2>1. UNCHANGED cache /\ mem' = EmptyStatus /\ st' = Reported /\ pc = "commit"
    BY <1>9 DEF Commit, Exit
  <2>2. st'.affected = mem.affected /\ ListsNothing(st')
    <3>1. CASE verdict = "error"
      BY <1>t, <2>1, <3>1 DEF Reported, SetNonViolationCondition, ListsNothing, Status
    <3>2. CASE verdict = "again"
      BY <2>1, <3>2 DEF Reported, VerdictInv
    <3> QED
      BY <3>1, <3>2 DEF TypeInv, TypeOK
  <2> QED
    BY <1>e, <2>1, <2>2 DEF VerdictInv
<1>10. CASE WatchEvent
  BY <1>10 DEF WatchEvent, VerdictInv, worker
<1>11. CASE Elapse
  <2>1. /\ st'.affected = st.affected /\ st'.verdict = st.verdict
        /\ cache'.affected = cache.affected /\ cache'.verdict = cache.verdict
        /\ mem'.affected = mem.affected /\ mem'.verdict = mem.verdict
    BY <1>11, <1>t, AgedParts DEF Elapse
  <2> QED
    BY <1>11, <2>1 DEF Elapse, VerdictInv, ListsNothing
<1>12. CASE Crash
  BY <1>12, <1>e DEF Crash, Exit, VerdictInv
<1>13. CASE (\E v \in Vmi : Migrate(v) \/ Delete(v)) \/ (\E v \in Vmi, n \in Node : Land(v, n))
  BY <1>13 DEF Migrate, Delete, Land, Moves, VerdictInv, stored, worker
<1>14. CASE UNCHANGED vars
  BY <1>14 DEF vars, VerdictInv, stored, worker
<1> QED
  BY <1>1, <1>2, <1>3, <1>4, <1>5, <1>6, <1>7, <1>8, <1>9, <1>10, <1>11, <1>12, <1>13, <1>14
     DEF Next, Reconcile, Environment

\* No interleaving of scans, retries, refused updates and restarts ever shows
\* "NonViolated" next to a list of violations, for any number of nodes, also none.
THEOREM SuccessListsNothing == Spec => []NonViolatedListsNothing
<1>1. Init => VerdictInv
  BY InitVerdict
<1>2. VerdictInv => NonViolatedListsNothing
  BY DEF VerdictInv, ListsNothing, NonViolatedListsNothing
<1> QED
  BY <1>1, <1>2, PlaceInvHolds, NextVerdict, PTL DEF Spec

(***************************************************************************)
(* The copy of the object                                                  *)
(***************************************************************************)

LEMMA InitFresh == Init => FreshInv
  BY DEF Init, FreshInv

LEMMA NextFresh == TypeInv /\ PlaceInv /\ VerdictInv /\ FreshInv /\ [Next]_vars => FreshInv'
<1> SUFFICES ASSUME TypeInv, PlaceInv, VerdictInv, FreshInv, [Next]_vars PROVE FreshInv'
  OBVIOUS
<1>t. st \in Status /\ cache \in Status /\ mem \in Status
  BY DEF TypeInv, TypeOK
<1>1. CASE Get
  BY <1>1 DEF Get, FreshInv, stored
<1>2. CASE SecretMissing \/ CommitFails \/ Crash
  BY <1>2 DEF SecretMissing, CommitFails, Crash, Exit, FreshInv, stored
<1>12. CASE Commit
  <2>1. cacheFresh' <=> cacheFresh /\ st' = st
    BY <1>12 DEF Commit, TypeInv, TypeOK
  <2>2. cache' = cache /\ memFresh' = FALSE
    BY <1>12 DEF Commit, Exit
  <2> QED
    BY <2>1, <2>2 DEF FreshInv
<1>3. CASE NoClient \/ NothingToDo \/ StartScan
  BY <1>3 DEF NoClient, NothingToDo, StartScan, Return, FreshInv, stored
<1>4. CASE CheckMigrations
  <2>1. mem'.poll = mem.poll
    BY <1>4, <1>t DEF CheckMigrations, Status
  <2> QED
    BY <1>4, <2>1 DEF CheckMigrations, FreshInv, stored
<1>5. CASE StartPlacementCheck \/ ListVmis \/ ListVmisFails
  BY <1>5 DEF StartPlacementCheck, ListVmis, ListVmisFails, Return, FreshInv, stored
<1>6. CASE \E n \in Node : ScanNode(n)
  <2>1. UNCHANGED <<stored, memFresh>> /\ pc = "place" /\ pc' = "place"
    BY <1>6 DEF ScanNode, NodeShared, NodeAlone, NodeRecovered, Take
  <2>2. mem'.poll = mem.poll
    <3>1. \E A, b, I : \/ mem' = [mem EXCEPT !.affected = A]
                       \/ mem' = [mem EXCEPT !.affected = A, !.notified = b, !.incidents = I]
                       \/ mem' = [mem EXCEPT !.affected = A, !.incidents = I]
      BY <1>6 DEF ScanNode, NodeShared, NodeAlone, NodeRecovered
    <3> QED
      BY <1>t, <3>1 DEF Status
  <2> QED
    BY <2>1, <2>2 DEF FreshInv, stored
<1>7. CASE EndScan
  <2>1. UNCHANGED <<stored, memFresh>> /\ pc' = "commit" /\ pc = "place" /\ ns = M + 1
    BY <1>7 DEF EndScan, Return
  <2>2. CASE isAffected
    BY <1>7, <2>1, <2>2 DEF EndScan, Return, FreshInv, stored
  <2>3. CASE ~isAffected
    <3>1. mem'.affected = {} /\ mem'.verdict = "NonViolated" /\ mem'.poll = "recent"
      BY <1>7, <1>t, <2>1, <2>3, NothingFound, SuccessParts DEF EndScan
    <3>2. verdict' = "again"
      BY <1>7, <2>3 DEF EndScan, Return
    <3> QED
      BY <2>1, <3>1, <3>2 DEF FreshInv, stored
  <2> QED
    BY <2>2, <2>3
<1>8. CASE WatchEvent
  BY <1>8 DEF WatchEvent, FreshInv, worker
<1>9. CASE Elapse
  <2>1. /\ st' = Aged(st) /\ cache' = Aged(cache) /\ mem' = Aged(mem)
        /\ UNCHANGED <<cacheFresh, pc, memFresh, verdict>>
    BY <1>9 DEF Elapse
  <2>2. /\ mem'.affected = mem.affected /\ mem'.verdict = mem.verdict
        /\ st'.poll # "recent" /\ mem'.poll # "recent"
        /\ st.poll # "recent" => st'.poll = st.poll
        /\ mem.poll # "recent" => mem'.poll = mem.poll
        /\ mem.poll = st.poll => mem'.poll = st'.poll
        /\ mem.poll # "never" => mem'.poll # "never"
    BY <1>t, <2>1, AgedParts
  <2>3. (cacheFresh => cache' = st') /\ (mem = st => mem' = st')
    BY <2>1 DEF FreshInv
  <2> QED
    BY <2>1, <2>2, <2>3 DEF FreshInv
<1>10. CASE (\E v \in Vmi : Migrate(v) \/ Delete(v)) \/ (\E v \in Vmi, n \in Node : Land(v, n))
  BY <1>10 DEF Migrate, Delete, Land, Moves, FreshInv, stored, worker
<1>11. CASE UNCHANGED vars
  BY <1>11 DEF vars, FreshInv, stored, worker
<1> QED
  BY <1>1, <1>2, <1>3, <1>4, <1>5, <1>6, <1>7, <1>8, <1>9, <1>10, <1>11, <1>12
     DEF Next, Reconcile, Environment

LEMMA FreshInvHolds == Spec => [](TypeInv /\ VerdictInv /\ FreshInv)
<1>1. Init => VerdictInv /\ FreshInv
  BY InitVerdict, InitFresh
<1> QED
  BY <1>1, PlaceInvHolds, NextVerdict, NextFresh, PTL DEF Spec

(***************************************************************************)
(* Refinement                                                              *)
(***************************************************************************)

LEMMA InitLifecycle == Init => Lifecycle!Init
  BY DEF Init, EmptyStatus, Ready, Lifecycle!Init

LEMMA CommitLifecycle ==
  ASSUME TypeInv, VerdictInv, FreshInv, Commit
  PROVE  [Lifecycle!Next]_Lifecycle!vars
<1> USE DEF Lifecycle!Next, Lifecycle!vars
<1>t. st \in Status /\ mem \in Status /\ mem.affected \in SUBSET (Node \X Vmi)
      /\ mem.poll \in {"never", "recent", "due"} /\ verdict \in {"again", "error"}
  BY DEF TypeInv, TypeOK, Status
<1>1. pc = "commit" /\ memFresh /\ st' = Reported
  BY DEF Commit
<1>2. CASE verdict = "error"
  <2>1. st'.verdict = "Violated" /\ st'.affected = mem.affected /\ st'.poll = mem.poll
    BY <1>t, <1>1, <1>2 DEF Reported, SetNonViolationCondition, Status
  <2>2. mem.poll = st.poll
    BY <1>1, <1>2 DEF FreshInv
  <2> QED
    BY <1>t, <2>1, <2>2 DEF Ready, Lifecycle!Failure, Lifecycle!Scannable
<1>3. CASE verdict = "again" /\ mem = st
  BY <1>1, <1>3 DEF Reported
<1>4. CASE verdict = "again" /\ mem # st
  <2>1. st' = mem
    BY <1>1, <1>4 DEF Reported
  <2>2. /\ st.poll # "recent" /\ mem.poll # "never"
        /\ mem.verdict = "NonViolated" /\ mem.affected = {}
    BY <1>1, <1>4 DEF FreshInv
  <2> QED
    BY <1>t, <2>1, <2>2 DEF Ready, Lifecycle!Success, Lifecycle!Scannable
<1> QED
  BY <1>t, <1>2, <1>3, <1>4

LEMMA NextLifecycle ==
  ASSUME TypeInv, VerdictInv, FreshInv, [Next]_vars
  PROVE  [Lifecycle!Next]_Lifecycle!vars
<1> USE DEF Lifecycle!Next, Lifecycle!vars
<1>t. st \in Status
  BY DEF TypeInv, TypeOK
<1>1. CASE Commit
  BY <1>1, CommitLifecycle
<1>2. CASE Elapse
  <2>1. st' = Aged(st)
    BY <1>2 DEF Elapse
  <2> QED
    BY <1>t, <2>1, AgedParts DEF Lifecycle!Elapse
<1>3. CASE UNCHANGED st
  BY <1>3
<1>4. CASE Get \/ SecretMissing \/ NoClient \/ NothingToDo \/ StartScan \/ CheckMigrations
             \/ StartPlacementCheck \/ ListVmis \/ ListVmisFails \/ EndScan \/ CommitFails
  BY <1>3, <1>4 DEF Get, SecretMissing, NoClient, NothingToDo, StartScan, CheckMigrations,
     StartPlacementCheck, ListVmis, ListVmisFails, EndScan, CommitFails, stored
<1>5. CASE \E n \in Node : ScanNode(n)
  BY <1>3, <1>5 DEF ScanNode, NodeShared, NodeAlone, NodeRecovered, Take, stored
<1>6. CASE WatchEvent \/ Crash \/ (\E v \in Vmi : Migrate(v) \/ Delete(v))
             \/ (\E v \in Vmi, n \in Node : Land(v, n)) \/ UNCHANGED vars
  BY <1>3, <1>6 DEF WatchEvent, Crash, Migrate, Delete, Land, Moves, vars, stored
<1> QED
  BY <1>1, <1>2, <1>4, <1>5, <1>6 DEF Next, Reconcile, Environment

\* The status of a VmScan resource evolves as ScanLifecycle says, for any number of
\* nodes, namespaces and VMIs.
THEOREM Refinement == Spec => ImplementsLifecycle
<1>1. TypeInv /\ VerdictInv /\ FreshInv /\ [Next]_vars => [Lifecycle!Next]_Lifecycle!vars
  BY NextLifecycle
<1> QED
  BY <1>1, InitLifecycle, FreshInvHolds, PTL
     DEF Spec, ImplementsLifecycle, Lifecycle!Spec
=============================================================================
