--------------------- MODULE ContainerScanStatusProofs ---------------------
(***************************************************************************)
(* Proofs about what a ContainerScan reconcile stores: the verdict is that *)
(* of the first failing namespace, and the list of affected pods follows   *)
(* the last container of each pod.                                         *)
(***************************************************************************)
EXTENDS ContainerScanProofs

(***************************************************************************)
(* Where a scan stands                                                     *)
(***************************************************************************)

LEMMA InitScope == Init => ScopeInv
  BY DEF Init, ScopeInv

LEMMA ExitScope == ASSUME Exit PROVE ScopeInv'
  BY DEF Exit, ScopeInv

\* A step that ends the scan, or none of it, with what was seen unchanged.
LEMMA ScopeFrame ==
  ASSUME ScopeInv, UNCHANGED scan, pc' = pc \/ (pc' = "commit" /\ todo = {})
  PROVE  ScopeInv'
  BY DEF ScopeInv, scan

LEMMA NextScope == TypeInv /\ ScopeInv /\ [Next]_vars => ScopeInv'
<1> SUFFICES ASSUME TypeInv, ScopeInv, [Next]_vars PROVE ScopeInv'
  OBVIOUS
<1>t. /\ ns \in Nat /\ todo \subseteq DOMAIN pods /\ todo \subseteq Container
      /\ \A c \in Container : NsOf[PodOf[c]] \in Nat
  BY ConstantsAssumption DEF TypeInv, TypeOK, Namespace
<1>n. Container \subseteq Nat
  BY DEF Container
<1>1. CASE Get
  BY <1>1 DEF Get, ScopeInv, scan
<1>2. CASE SecretMissing \/ FirstSeen \/ NoClient \/ Suspended
  BY <1>2, ScopeFrame DEF SecretMissing, FirstSeen, NoClient, Suspended, Prelude, Return,
     ScopeInv
<1>3. CASE StartScan
  BY <1>3 DEF StartScan, Prelude, Return, ScopeInv
<1>4. CASE NamespaceMissing \/ ListPodsFails
  BY <1>4, ScopeFrame DEF NamespaceMissing, ListPodsFails, Scanning, Return, ScopeInv, scan
<1>5. CASE Prune
  BY <1>5 DEF Prune, Scanning, ScopeInv
<1>6. CASE ListPods
  <2>1. /\ DOMAIN pods' = todo' /\ todo' \subseteq Container /\ pc' = "containers"
        /\ \A c \in todo' : NsOf[PodOf[c]] = ns
        /\ UNCHANGED <<ns, failing, checked>> /\ checked = {} /\ ns > 0
    BY <1>6 DEF ListPods, Scanning, ScopeInv
  <2> QED
    BY <2>1 DEF ScopeInv
<1>7. ASSUME NEW c \in Container, ScanContainer(c) PROVE ScopeInv'
  <2>1. /\ pc = "containers" /\ c \in todo /\ \A d \in todo : c <= d
        /\ todo' = todo \ {c} /\ UNCHANGED <<pc, ns, pods>>
    BY <1>7 DEF ScanContainer, ContainerFailed, ContainerCompleted, ContainerIgnored, Take
  <2>2. \A e \in DOMAIN pods' \ todo', d \in todo' : e < d
    BY <1>n, <1>t, <2>1 DEF ScopeInv
  <2>3. failing' <=> checked' # {}
    <3>1. CASE ContainerFailed(c)
      <4>1. failing' = TRUE /\ c \in checked'
        BY <3>1 DEF ContainerFailed
      <4> QED
        BY <4>1
    <3>2. CASE ContainerCompleted(c) \/ ContainerIgnored(c)
      <4>1. UNCHANGED <<failing, checked>>
        BY <3>2 DEF ContainerCompleted, ContainerIgnored
      <4>2. failing <=> checked # {}
        BY DEF ScopeInv
      <4> QED
        BY <4>1, <4>2, Zenon
    <3> QED
      BY <1>7, <3>1, <3>2 DEF ScanContainer
  <2> QED
    BY <2>1, <2>2, <2>3 DEF ScopeInv
<1>8. CASE NamespaceFailed \/ NilAggregatePanic
  BY <1>8, ScopeFrame DEF NamespaceFailed, NilAggregatePanic, Scanning, Return, scan
<1>9. CASE NamespaceHealthy
  <2>1. /\ pc = "containers" /\ todo = {} /\ ~failing
        /\ UNCHANGED <<pods, todo, failing, checked>>
        /\ (pc' = "commit" /\ ns' = ns) \/ (pc' = "namespace" /\ ns' = ns + 1)
    BY <1>9 DEF NamespaceHealthy, Return
  <2> QED
    BY <1>t, <2>1 DEF ScopeInv
<1>10. CASE Commit \/ CommitFails \/ Crash
  BY <1>10, ExitScope DEF Commit, CommitFails, Crash
<1>11. CASE TimerFires \/ WatchEvent \/ Elapse \/ (\E c \in Confs : Edit(c))
  BY <1>11, ScopeFrame DEF TimerFires, WatchEvent, Elapse, Edit, worker
<1>12. CASE \/ \E c \in Container, s \in States : ContainerChanges(c, s)
            \/ \E p \in Pod : PodDeleted(p) \/ PodCreated(p)
  BY <1>12, ScopeFrame DEF ContainerChanges, PodDeleted, PodCreated, Changes, worker
<1>13. CASE UNCHANGED vars
  BY <1>13, ScopeFrame DEF vars, worker
<1> QED
  BY <1>1, <1>2, <1>3, <1>4, <1>5, <1>6, <1>7, <1>8, <1>9, <1>10, <1>11, <1>12, <1>13
     DEF Next, Reconcile, Environment

(***************************************************************************)
(* The verdict                                                             *)
(***************************************************************************)

LEMMA InitVerdict == Init => VerdictInv
  BY DEF Init, VerdictInv

\* A step within a scan that neither renews the stamp nor sees a container.
LEMMA VerdictFrame ==
  ASSUME VerdictInv, pc # "idle", pc' # "idle",
         UNCHANGED <<obj, memFresh, ns, checked>>, mem'.st.poll = mem.st.poll,
         pc = "commit" => pc' = "commit",
         pc' = "commit" => checked = {} \/ verdict' = "error"
  PROVE  VerdictInv'
  BY DEF VerdictInv

LEMMA NextVerdict == TypeInv /\ WorkerInv /\ ScopeInv /\ VerdictInv /\ [Next]_vars => VerdictInv'
<1> SUFFICES ASSUME TypeInv, WorkerInv, ScopeInv, VerdictInv, [Next]_vars PROVE VerdictInv'
  OBVIOUS
<1>t. obj \in Object /\ cache \in Object /\ mem \in Object /\ ns \in Nat
  BY ConstantsAssumption DEF TypeInv, TypeOK
<1>1. CASE Get
  BY <1>1 DEF Get, WorkerInv, ScopeInv, VerdictInv, scan, api
<1>2. CASE SecretMissing \/ FirstSeen \/ NoClient \/ Suspended
  <2>1. pc' = "commit" /\ checked' = {}
    BY <1>2 DEF SecretMissing, FirstSeen, NoClient, Suspended, Prelude, Return, ScopeInv, scan
  <2> QED
    BY <2>1 DEF VerdictInv
<1>3. CASE StartScan
  <2>1. /\ checked' = {} /\ mem' = mem
        /\ pc' = "commit" \/ (pc' = "namespace" /\ mem.st.poll # "recent")
    BY <1>3 DEF StartScan, Prelude, Return, ScopeInv
  <2> QED
    BY <2>1 DEF VerdictInv
<1>4. CASE NamespaceMissing \/ ListPodsFails \/ NamespaceFailed
  BY <1>4, VerdictFrame DEF NamespaceMissing, ListPodsFails, NamespaceFailed, Scanning, Return,
     api
<1>5. CASE Prune
  BY <1>5, PruneEffect, VerdictFrame DEF Prune, Scanning, api
<1>6. CASE ListPods
  BY <1>6, VerdictFrame DEF ListPods, Scanning, api
<1>7. ASSUME NEW c \in Container, ScanContainer(c) PROVE VerdictInv'
  <2>1. /\ pc = "containers" /\ c \in todo /\ UNCHANGED <<pc, ns, obj, memFresh>>
        /\ checked' \subseteq checked \cup {c}
    BY <1>7 DEF ScanContainer, ContainerFailed, ContainerCompleted, ContainerIgnored, Take,
       Scanning, api
  <2>2. mem'.st.poll = mem.st.poll
    BY <1>7, FailedEffect, CompletedEffect DEF ScanContainer, ContainerIgnored
  <2>3. NsOf[PodOf[c]] = ns
    BY <2>1 DEF TypeInv, TypeOK, ScopeInv
  <2> QED
    BY <2>1, <2>2, <2>3 DEF VerdictInv
<1>8. CASE NilAggregatePanic
  <2>1. pc' = "commit" /\ checked' = {}
    BY <1>8 DEF NilAggregatePanic, Scanning, Return, ScopeInv
  <2> QED
    BY <2>1 DEF VerdictInv
<1>9. CASE NamespaceHealthy
  <2>1. /\ checked' = {} /\ ns > 0
        /\ (pc' = "commit" /\ ns' = ns) \/ (pc' = "namespace" /\ ns' = ns + 1)
    BY <1>9 DEF NamespaceHealthy, Return, ScopeInv
  <2> QED
    BY <1>t, <2>1 DEF VerdictInv
<1>10. CASE Commit \/ CommitFails \/ Crash
  BY <1>10 DEF Commit, CommitFails, Crash, Exit, VerdictInv
<1>11. CASE TimerFires \/ WatchEvent
  BY <1>11 DEF TimerFires, WatchEvent, VerdictInv, worker, scan, api
<1>12. CASE Elapse
  <2>1. mem'.st.poll # "recent"
    BY <1>12, <1>t, UpdateTypes DEF Elapse
  <2> QED
    BY <1>12, <2>1 DEF Elapse, VerdictInv, scan
<1>13. ASSUME NEW c \in Confs, Edit(c) PROVE VerdictInv'
  BY <1>13 DEF Edit, VerdictInv, scan
<1>14. CASE \/ \E c \in Container, s \in States : ContainerChanges(c, s)
            \/ \E p \in Pod : PodDeleted(p) \/ PodCreated(p)
  BY <1>14 DEF ContainerChanges, PodDeleted, PodCreated, Changes, worker, scan, api, VerdictInv
<1>15. CASE UNCHANGED vars
  BY <1>15 DEF vars, worker, scan, api, VerdictInv
<1> QED
  BY <1>1, <1>2, <1>3, <1>4, <1>5, <1>6, <1>7, <1>8, <1>9, <1>10, <1>11, <1>12, <1>13,
     <1>14, <1>15 DEF Next, Reconcile, Environment

ScanInv == TypeInv /\ WorkerInv /\ ScopeInv /\ VerdictInv

LEMMA ScanInvHolds == Spec => []ScanInv
<1>1. Init => ScanInv
  BY InitType, InitWorker, InitScope, InitVerdict DEF ScanInv
<1>2. ScanInv /\ [Next]_vars => ScanInv'
  BY NextType, NextWorker, NextScope, NextVerdict DEF ScanInv
<1> QED
  BY <1>1, <1>2, PTL DEF Spec

\* The failures a scan stores are those of the first namespace that has some; success
\* is stored only if none was seen, and the stamp is renewed before a failure only by
\* an earlier namespace.
THEOREM VerdictOfTheFirstFailure == Spec => VerdictIsOfTheFirstFailure
<1>1. ScanInv /\ [Next]_vars => [VerdictStep]_vars
  <2> SUFFICES ASSUME ScanInv, Commit, ns > 0 PROVE VerdictStep
    BY DEF VerdictStep
  <2>1. /\ obj'.st.poll = mem.st.poll
        /\ obj'.st.ready = IF verdict = "error" THEN "False" ELSE mem.st.ready
    BY CommitEffect DEF ScanInv
  <2>2. pc = "commit" /\ memFresh
    BY DEF Commit
  <2>3. /\ \A c \in checked : NsOf[PodOf[c]] = ns
        /\ checked # {} => verdict = "error"
        /\ mem.st.poll = "recent" /\ obj.st.poll # "recent" => ns > 1 \/ checked = {}
    BY <2>2 DEF ScanInv, VerdictInv
  <2> QED
    BY <2>1, <2>3 DEF VerdictStep
<1> QED
  BY <1>1, ScanInvHolds, PTL DEF Spec, VerdictIsOfTheFirstFailure

(***************************************************************************)
(* The list of affected pods                                               *)
(***************************************************************************)

LEMMA MaxOfNaturals ==
  ASSUME NEW T, T \subseteq Nat, T # {}, NEW b \in Nat, \A y \in T : y <= b
  PROVE  Max(T) \in T /\ \A y \in T : y <= Max(T)
<1>1. PICK x \in T : \A y \in T : y <= x
  BY GreatestNatural
<1>2. \A y \in T : x >= y
  BY <1>1
<1>3. Max(T) \in T /\ \A y \in T : Max(T) >= y
  BY <1>2, Zenon DEF Max
<1> QED
  BY <1>3

\* No container has a say: no pods are held, or all of them are to be handled yet.
LEMMA NobodyTelling == ASSUME DOMAIN pods' \subseteq todo' PROVE ListInv'
  BY DEF ListInv, Telling

\* The pods held and what was handled stay, and so does the list, as far as they go.
LEMMA ListFrame ==
  ASSUME ListInv, UNCHANGED <<pods, todo, first>>,
         \A c \in DOMAIN pods : Listed(PodOf[c])' <=> Listed(PodOf[c])
  PROVE  ListInv'
<1>1. Telling' = Telling /\ Telling \subseteq DOMAIN pods
  BY DEF Telling
<1>2. ASSUME NEW c \in Telling, \A d \in Telling : PodOf[d] = PodOf[c] => d <= c
      PROVE  Listed(PodOf[c])' <=> pods[c] = "failed"
  BY <1>1, <1>2, Zenon DEF ListInv
<1>3. pods' = pods
  OBVIOUS
<1> QED
  BY <1>1, <1>2, <1>3, Zenon DEF ListInv

\* The container being handled is the last one of its pod so far: it decides.
LEMMA ScanContainerKeepsListInv ==
  ASSUME TypeInv, ScopeInv, ListInv, NEW c \in Container, ScanContainer(c)
  PROVE  ListInv'
<1>1. /\ pc = "containers" /\ c \in todo /\ todo' = todo \ {c} /\ UNCHANGED <<first, pods>>
      /\ c \in DOMAIN pods
  BY DEF ScanContainer, ContainerFailed, ContainerCompleted, ContainerIgnored, Take, Scanning,
     TypeInv, TypeOK
<1>2. \A e \in Telling : e \in Container /\ e < c
  BY <1>1 DEF Telling, ScopeInv
<1>n. Container \subseteq Nat
  BY DEF Container
<1>3. CASE ContainerFailed(c) \/ ContainerCompleted(c)
  <2>1. /\ Telling' = Telling \cup {c}
        /\ Listed(PodOf[c])' <=> pods[c] = "failed"
        /\ \A e \in Telling : PodOf[e] # PodOf[c] => (Listed(PodOf[e])' <=> Listed(PodOf[e]))
    <3>1. CASE ContainerFailed(c)
      <4>1. pods[c] = "failed" /\ Telling' = Telling \cup {c}
        BY <1>1, <3>1 DEF ContainerFailed, Telling
      <4>2. ToSet(mem'.st.affected) = ToSet(mem.st.affected) \cup {PodOf[c]}
        BY <3>1, FailedEffect
      <4> QED
        BY <4>1, <4>2 DEF Listed
    <3>2. CASE ContainerCompleted(c)
      <4>1. pods[c] = "zero" /\ ~first /\ Telling' = Telling \cup {c}
        BY <1>1, <3>2 DEF ContainerCompleted, Telling
      <4>2. ToSet(mem'.st.affected) = ToSet(mem.st.affected) \ {PodOf[c]}
        BY <3>2, CompletedEffect
      <4> QED
        BY <4>1, <4>2 DEF Listed
    <3> QED
      BY <1>3, <3>1, <3>2
  <2>2. ASSUME NEW e \in Telling', \A d \in Telling' : PodOf[d] = PodOf[e] => d <= e
        PROVE  Listed(PodOf[e])' <=> pods'[e] = "failed"
    <3>1. CASE e = c
      BY <1>1, <2>1, <3>1
    <3>2. CASE e # c
      <4>1. e \in Telling /\ e < c
        BY <1>2, <2>1, <3>2
      <4>2. PodOf[e] # PodOf[c]
        <5>1. c \in Telling' /\ e \in Nat /\ c \in Nat
          BY <1>n, <1>2, <2>1, <4>1
        <5>2. PodOf[c] = PodOf[e] => c <= e
          BY <2>2, <5>1
        <5> QED
          BY <4>1, <5>1, <5>2
      <4>3. Listed(PodOf[e]) <=> pods[e] = "failed"
        BY <2>1, <2>2, <4>1 DEF ListInv
      <4> QED
        BY <1>1, <2>1, <4>1, <4>2, <4>3
    <3> QED
      BY <3>1, <3>2
  <2> QED
    BY <2>2 DEF ListInv
<1>4. CASE ContainerIgnored(c)
  <2>1. Telling' = Telling /\ mem' = mem
    <3>1. ~(pods[c] = "failed" \/ (pods[c] = "zero" /\ ~first)) /\ mem' = mem
      BY <1>4 DEF ContainerIgnored
    <3> QED
      BY <1>1, <3>1 DEF Telling
  <2> QED
    BY <1>1, <2>1 DEF ListInv, Listed
<1> QED
  BY <1>3, <1>4 DEF ScanContainer

LEMMA NextList == TypeInv /\ ScopeInv /\ ListInv /\ [Next]_vars => ListInv'
<1> SUFFICES ASSUME TypeInv, ScopeInv, ListInv, [Next]_vars PROVE ListInv'
  OBVIOUS
<1>1. CASE Get \/ SecretMissing \/ FirstSeen \/ NoClient \/ Suspended \/ StartScan
  <2>1. DOMAIN pods = {} /\ pods' = pods
    BY <1>1 DEF Get, SecretMissing, FirstSeen, NoClient, Suspended, StartScan, Prelude,
       ScopeInv, scan
  <2> QED
    BY <2>1, NobodyTelling
<1>2. CASE Prune
  <2>1. /\ UNCHANGED <<pods, todo, first>>
        /\ \A c \in DOMAIN pods : c \in Container /\ NsOf[PodOf[c]] < ns
    BY <1>2 DEF Prune, Scanning, ScopeInv
  <2>2. \A c \in Container : PodOf[c] \in Pod /\ NsOf[PodOf[c]] \in Nat
    BY ConstantsAssumption DEF Namespace
  <2>3. ns \in Nat
    BY ConstantsAssumption DEF TypeInv, TypeOK
  <2>4. \A c \in DOMAIN pods : PodOf[c] \in Pod /\ NsOf[PodOf[c]] # ns
    BY <2>1, <2>2, <2>3
  <2> QED
    BY <1>2, <2>1, <2>4, PruneEffect, ListFrame
<1>3. CASE ListPods
  <2>1. DOMAIN pods' = todo'
    BY <1>3 DEF ListPods
  <2> QED
    BY <2>1, NobodyTelling
<1>4. ASSUME NEW c \in Container, ScanContainer(c) PROVE ListInv'
  BY <1>4, ScanContainerKeepsListInv
<1>5. CASE NamespaceMissing \/ ListPodsFails \/ NamespaceFailed
  BY <1>5, ListFrame DEF NamespaceMissing, ListPodsFails, NamespaceFailed, Scanning, Listed
<1>6. CASE NamespaceHealthy \/ NilAggregatePanic
  BY <1>6, HealthyEffect, ListFrame DEF NamespaceHealthy, NilAggregatePanic, Scanning, Listed
<1>7. CASE Commit \/ CommitFails \/ Crash
  <2>1. DOMAIN pods' = {}
    BY <1>7 DEF Commit, CommitFails, Crash, Exit
  <2> QED
    BY <2>1, NobodyTelling
<1>8. CASE Elapse
  <2>1. mem'.st.affected = mem.st.affected
    BY <1>8, UpdateTypes DEF Elapse, TypeInv, TypeOK
  <2> QED
    BY <1>8, <2>1, ListFrame DEF Elapse, Listed, scan
<1>9. CASE TimerFires \/ WatchEvent \/ (\E c \in Confs : Edit(c))
  BY <1>9, ListFrame DEF TimerFires, WatchEvent, Edit, Listed, worker, scan
<1>10. CASE \/ \E c \in Container, s \in States : ContainerChanges(c, s)
            \/ \E p \in Pod : PodDeleted(p) \/ PodCreated(p)
  BY <1>10, ListFrame DEF ContainerChanges, PodDeleted, PodCreated, Changes, Listed, worker,
     scan
<1>11. CASE UNCHANGED vars
  BY <1>11, ListFrame DEF vars, Listed, worker, scan
<1> QED
  BY <1>1, <1>2, <1>3, <1>4, <1>5, <1>6, <1>7, <1>8, <1>9, <1>10, <1>11
     DEF Next, Reconcile, Environment

LEMMA InitList == Init => ListInv
  BY DEF Init, ListInv, Telling

LEMMA ListInvHolds == Spec => [](TypeInv /\ ScopeInv /\ ListInv)
<1>1. Init => TypeInv /\ ScopeInv /\ ListInv
  BY InitType, InitScope, InitList
<1>2. TypeInv /\ ScopeInv /\ ListInv /\ [Next]_vars => TypeInv' /\ ScopeInv' /\ ListInv'
  BY NextType, NextScope, NextList
<1> QED
  BY <1>1, <1>2, PTL DEF Spec

\* What is stored lists a pod as the last of its containers says that failed or, in a
\* later scan, completed: also if the scan ended in a namespace after that of the pod.
THEOREM ListOfTheLastContainer == Spec => ListFollowsTheLastContainer
<1>1. TypeInv /\ ScopeInv /\ ListInv /\ [Next]_vars => [ListStep]_vars
  <2> SUFFICES ASSUME TypeInv, ScopeInv, ListInv, Commit,
                      NEW p \in {PodOf[c] : c \in DOMAIN pods}
               PROVE  LET telling == {c \in DOMAIN pods :
                            PodOf[c] = p /\ (pods[c] = "failed" \/ (pods[c] = "zero" /\ ~first))}
                      IN telling # {} =>
                           (p \in ToSet(obj'.st.affected) <=> pods[Max(telling)] = "failed")
    BY DEF ListStep
  <2> DEFINE telling == {c \in DOMAIN pods :
               PodOf[c] = p /\ (pods[c] = "failed" \/ (pods[c] = "zero" /\ ~first))}
  <2> SUFFICES ASSUME telling # {}
               PROVE  p \in ToSet(obj'.st.affected) <=> pods[Max(telling)] = "failed"
    OBVIOUS
  <2>1. telling = {c \in Telling : PodOf[c] = p}
    BY DEF Telling, ScopeInv, Commit
  <2>2. telling \subseteq Nat /\ N \in Nat /\ \A y \in telling : y <= N
    BY ConstantsAssumption DEF ScopeInv, Container
  <2> HIDE DEF telling
  <2>3. Max(telling) \in telling /\ \A y \in telling : y <= Max(telling)
    BY <2>2, MaxOfNaturals
  <2>4. Listed(p) <=> pods[Max(telling)] = "failed"
    BY <2>1, <2>3 DEF ListInv
  <2>5. obj'.st.affected = mem.st.affected
    BY CommitEffect
  <2> QED
    BY <2>4, <2>5 DEF Listed
<1> QED
  BY <1>1, ListInvHolds, PTL DEF Spec, ListFollowsTheLastContainer
=============================================================================
