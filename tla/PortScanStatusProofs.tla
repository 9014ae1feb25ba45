------------------------ MODULE PortScanStatusProofs ------------------------
(***************************************************************************)
(* Proofs about what PortScan stores in the status of its resource, and    *)
(* that it implements ScanLifecycle.  They rest on WorkerInv: what the     *)
(* copy of the object Reconcile works on has to do with the stored object, *)
(* for as long as the deferred update can succeed at all.                  *)
(***************************************************************************)
EXTENDS PortScanProofs

LEMMA InitWorker == Init => WorkerInv
  BY DEF Init, WorkerInv, NothingScanned

(***************************************************************************)
(* WorkerInv is inductive                                                  *)
(***************************************************************************)

\* A step that leaves the copy of the object behind has nothing to keep.
LEMMA StaleCopy ==
  ASSUME ~memFresh', cacheFresh' => cache' = obj',
         pc' \in {"idle", "setup"} => NothingScanned'
  PROVE  WorkerInv'
  BY DEF WorkerInv

LEMMA SetupWorker ==
  ASSUME TypeOK, WorkerInv,
         Get \/ SecretMissing \/ NilNotifyPanic \/ FirstSeen \/ Suspended
           \/ NoClient \/ StartScan
  PROVE  WorkerInv'
<1>1. CASE SecretMissing \/ NilNotifyPanic
  BY <1>1, StaleCopy DEF SecretMissing, NilNotifyPanic, Exit, api, WorkerInv,
     NothingScanned
<1>2. CASE FirstSeen
  <2>1. /\ UNCHANGED <<obj, cache, cacheFresh, memFresh, down, answered>>
        /\ pc = "setup" /\ pc' = "commit" /\ verdict' = "done" /\ mem.st.ready = "none"
        /\ mem' = [mem EXCEPT !.st = [mem.st EXCEPT !.ready = "Unknown"]]
    BY <1>2 DEF FirstSeen, SetUp, Return, SetReadyCondition, api
  <2>2. mem \in Object /\ obj \in Object
    BY DEF TypeOK
  <2>3. CASE memFresh
    <3>1. mem = obj /\ NothingScanned
      BY <2>1, <2>3 DEF WorkerInv
    <3>2. AtCommit' /\ mem'.conf = obj'.conf
      BY <2>1, <2>2, <3>1 DEF AtCommit, NothingScanned, Object, Status
    <3> QED
      BY <2>1, <3>2 DEF WorkerInv
  <2>4. CASE ~memFresh
    BY <2>1, <2>4, StaleCopy DEF WorkerInv
  <2> QED
    BY <2>3, <2>4
<1>3. CASE Suspended \/ NoClient
  BY <1>3 DEF Suspended, NoClient, SetUp, Return, api, WorkerInv, AtCommit, NothingScanned
<1>4. CASE StartScan
  <2>1. CASE ScanDue(mem.st)
    BY <1>4, <2>1 DEF StartScan, SetUp, ScanDue, api, WorkerInv, NothingScanned, Decided
  <2>2. CASE ~ScanDue(mem.st)
    BY <1>4, <2>2 DEF StartScan, SetUp, Return, api, WorkerInv, AtCommit, NothingScanned
  <2> QED
    BY <2>1, <2>2
<1>5. CASE Get
  <2>1. CASE cache.exists
    <3>1. pc' = "setup" /\ mem' = cache /\ memFresh' = cacheFresh
          /\ UNCHANGED <<obj, cache, cacheFresh, down, answered>> /\ pc = "idle"
      BY <1>5, <2>1 DEF Get, api
    <3>2. NothingScanned
      BY <3>1 DEF WorkerInv
    <3>3. NothingScanned'
      BY <3>1, <3>2 DEF NothingScanned
    <3>4. CASE ~memFresh'
      BY <3>1, <3>3, <3>4, StaleCopy DEF WorkerInv
    <3>5. CASE memFresh'
      <4>1. mem' = obj'
        BY <3>1, <3>5 DEF WorkerInv
      <4>2. cacheFresh' => cache' = obj'
        BY <3>1 DEF WorkerInv
      <4> QED
        BY <3>1, <3>3, <4>1, <4>2 DEF WorkerInv
    <3> QED
      BY <3>4, <3>5
  <2>2. CASE ~cache.exists
    BY <1>5, <2>2 DEF Get, api, WorkerInv, NothingScanned, Decided, AtCommit
  <2> QED
    BY <2>1, <2>2
<1> QED
  BY <1>1, <1>2, <1>3, <1>4, <1>5

\* One target more is decided: it is down and listed, or it answered and, unless this
\* is a first scan, it is not listed any more.
LEMMA DecideOne ==
  ASSUME TypeOK, Decided(todo), NEW t \in todo, todo' = todo \ {t}, UNCHANGED obj,
         mem'.conf = mem.conf,
         \/ /\ down' = TRUE /\ answered' = answered
            /\ mem'.st.affected = mem.st.affected \cup {t}
         \/ /\ down' = down /\ answered' = answered \cup {t}
            /\ mem'.st.affected = mem.st.affected \ {t}
         \/ /\ down' = down /\ answered' = answered \cup {t}
            /\ mem'.st.affected = mem.st.affected /\ obj.st.poll = "never"
  PROVE  Decided(todo)'
  BY DEF Decided

\* A step that probes a target, seen from the copy of the object.
LEMMA ProbeWorker ==
  ASSUME TypeOK, WorkerInv, NEW t \in Target, Probe(t),
         mem'.conf = mem.conf, mem'.st.ready = mem.st.ready, mem'.st.poll = mem.st.poll,
         \/ /\ FoundDown(t) /\ mem'.st.affected = mem.st.affected \cup {t}
         \/ /\ FoundUp(t) /\ mem'.st.affected = mem.st.affected \ {t}
         \/ /\ FoundUp(t) /\ mem'.st.affected = mem.st.affected /\ FirstScan
  PROVE  WorkerInv'
<1>1. /\ pc = "scan" /\ pc' = "scan" /\ t \in todo /\ todo' = todo \ {t}
      /\ UNCHANGED <<obj, cache, cacheFresh, memFresh>>
  BY DEF Probe, api
<1>2. CASE memFresh
  <2>1. Decided(todo) /\ mem.st.poll = obj.st.poll
    BY <1>1, <1>2 DEF WorkerInv
  <2>2. Decided(todo)'
    <3>1. CASE FoundDown(t) /\ mem'.st.affected = mem.st.affected \cup {t}
      BY <1>1, <2>1, <3>1, DecideOne DEF FoundDown
    <3>2. CASE FoundUp(t) /\ mem'.st.affected = mem.st.affected \ {t}
      BY <1>1, <2>1, <3>2, DecideOne DEF FoundUp
    <3>3. CASE FoundUp(t) /\ mem'.st.affected = mem.st.affected /\ FirstScan
      BY <1>1, <2>1, <3>3, DecideOne DEF FoundUp, FirstScan
    <3> QED
      BY <3>1, <3>2, <3>3
  <2> QED
    BY <1>1, <1>2, <2>2 DEF WorkerInv
<1>3. CASE ~memFresh
  BY <1>1, <1>3, StaleCopy DEF WorkerInv
<1> QED
  BY <1>2, <1>3

\* The parts of the copy an alert or a recovery changes.
LEMMA MemParts ==
  ASSUME TypeOK, NEW A \in SUBSET Target, NEW n \in BOOLEAN, NEW I,
         \/ mem' = [mem EXCEPT !.st.affected = A]
         \/ mem' = [mem EXCEPT !.st.affected = A, !.st.incidents = I]
         \/ mem' = [mem EXCEPT !.st.affected = A, !.st.notified = n, !.st.incidents = I]
  PROVE  /\ mem'.conf = mem.conf /\ mem'.st.ready = mem.st.ready
         /\ mem'.st.poll = mem.st.poll /\ mem'.st.affected = A
<1>1. mem \in Object
  BY DEF TypeOK
<1>2. CASE mem' = [mem EXCEPT !.st.affected = A]
  BY <1>1, <1>2 DEF Object, Status
<1>3. CASE mem' = [mem EXCEPT !.st.affected = A, !.st.incidents = I]
  BY <1>1, <1>3 DEF Object, Status
<1>4. CASE mem' = [mem EXCEPT !.st.affected = A, !.st.notified = n, !.st.incidents = I]
  BY <1>1, <1>4 DEF Object, Status
<1> QED
  BY <1>2, <1>3, <1>4

LEMMA ScanWorker ==
  ASSUME TypeOK, WorkerInv, NEW t \in Target, ScanTarget(t)
  PROVE  WorkerInv'
<1>t. mem.st.affected \in SUBSET Target
  BY DEF TypeOK, Object, Status
<1>1. CASE TargetDownFirstScan(t) \/ TargetDownLaterScan(t)
  <2>1. Probe(t) /\ FoundDown(t) /\ RaiseAlert(t)
    BY <1>1 DEF TargetDownFirstScan, TargetDownLaterScan
  <2> DEFINE A == mem.st.affected \cup {t}
  <2>2. A \in SUBSET Target
    BY <1>t
  <2> HIDE DEF A
  <2>3. \/ mem' = [mem EXCEPT !.st.affected = A]
        \/ \E I : mem' = [mem EXCEPT !.st.affected = A, !.st.notified = TRUE,
                                     !.st.incidents = I]
    BY <2>1 DEF RaiseAlert, A
  <2>4. /\ mem'.conf = mem.conf /\ mem'.st.ready = mem.st.ready
        /\ mem'.st.poll = mem.st.poll /\ mem'.st.affected = A
    BY <2>2, <2>3, MemParts
  <2> QED
    BY <2>1, <2>4, ProbeWorker DEF A
<1>2. CASE TargetStillDown(t)
  <2>1. mem.st.affected = mem.st.affected \cup {t}
    BY <1>2 DEF TargetStillDown
  <2> QED
    BY <1>2, <2>1, ProbeWorker DEF TargetStillDown
<1>3. CASE TargetRecovered(t)
  <2> DEFINE A == mem.st.affected \ {t}
  <2>1. Probe(t) /\ FoundUp(t)
    BY <1>3 DEF TargetRecovered
  <2>2. A \in SUBSET Target
    BY <1>t
  <2> HIDE DEF A
  <2>3. \/ mem' = [mem EXCEPT !.st.affected = A]
        \/ \E I : mem' = [mem EXCEPT !.st.affected = A, !.st.incidents = I]
    BY <1>3 DEF TargetRecovered, A
  <2>4. /\ mem'.conf = mem.conf /\ mem'.st.ready = mem.st.ready
        /\ mem'.st.poll = mem.st.poll /\ mem'.st.affected = A
    BY <2>2, <2>3, MemParts
  <2> QED
    BY <2>1, <2>4, ProbeWorker DEF A
<1>4. CASE TargetUpNoMailFile(t)
  <2>1. CASE FirstScan
    BY <1>4, <2>1, ProbeWorker DEF TargetUpNoMailFile
  <2>2. CASE ~FirstScan
    <3> DEFINE A == mem.st.affected \ {t}
    <3>1. A \in SUBSET Target
      BY <1>t
    <3> HIDE DEF A
    <3>2. mem' = [mem EXCEPT !.st.affected = A]
      BY <1>4, <2>2 DEF TargetUpNoMailFile, A
    <3>3. /\ mem'.conf = mem.conf /\ mem'.st.ready = mem.st.ready
          /\ mem'.st.poll = mem.st.poll /\ mem'.st.affected = A
      BY <3>1, <3>2, MemParts
    <3> QED
      BY <1>4, <3>3, ProbeWorker DEF TargetUpNoMailFile, A
  <2> QED
    BY <2>1, <2>2
<1>5. CASE TargetStillUp(t)
  <2>1. mem.st.affected = mem.st.affected \ {t}
    BY <1>5 DEF TargetStillUp
  <2> QED
    BY <1>5, <2>1, ProbeWorker DEF TargetStillUp
<1>6. CASE MalformedTarget(t)
  <2>1. /\ UNCHANGED <<obj, cache, cacheFresh, memFresh>>
        /\ pc = "scan" /\ pc' = "commit" /\ verdict' = "panic"
        /\ \/ mem' = mem
           \/ mem' = [mem EXCEPT !.st = [mem.st EXCEPT !.ready = "False"]]
    BY <1>6 DEF MalformedTarget, Return, SetReadyCondition, api
  <2>2. /\ mem'.conf = mem.conf /\ mem'.st.poll = mem.st.poll
        /\ mem'.st.ready \in {mem.st.ready, "False"}
    BY <2>1 DEF TypeOK, Object, Status
  <2> QED
    BY <2>1, <2>2 DEF WorkerInv, AtCommit
<1> QED
  BY <1>1, <1>2, <1>3, <1>4, <1>5, <1>6 DEF ScanTarget

LEMMA CommitWorker ==
  ASSUME TypeOK, WorkerInv, EndScan \/ Commit \/ CommitFails
  PROVE  WorkerInv'
<1>1. CASE EndScan
  <2>1. /\ UNCHANGED <<obj, cache, cacheFresh, memFresh, down, answered>>
        /\ pc = "scan" /\ pc' = "commit" /\ todo = {}
    BY <1>1 DEF EndScan, Return, api
  <2>2. CASE ~memFresh
    BY <2>1, <2>2, StaleCopy DEF WorkerInv
  <2>3. CASE memFresh
    <3>1. /\ obj.st.ready # "none" /\ obj.st.poll # "recent" /\ mem.conf = obj.conf
          /\ mem.st.poll = obj.st.poll /\ Decided({})
      BY <2>1, <2>3 DEF WorkerInv
    <3>2. CASE down
      <4>1. mem' = mem /\ verdict' = "error"
        BY <1>1, <3>2 DEF EndScan, Return
      <4>2. AtCommit'
        BY <2>1, <3>1, <3>2, <4>1 DEF AtCommit, Decided
      <4> QED
        BY <2>1, <2>3, <3>1, <4>1, <4>2 DEF WorkerInv
    <3>3. CASE ~down
      <4>1. /\ verdict' = "again"
            /\ mem' = [mem EXCEPT !.st = [[mem.st EXCEPT !.ready = "True"]
                                            EXCEPT !.poll = "recent"]]
        BY <1>1, <3>3 DEF EndScan, Return, SetReadyCondition
      <4>2. mem \in Object
        BY DEF TypeOK
      <4>3. /\ mem'.conf = mem.conf /\ mem'.st.ready = "True"
            /\ mem'.st.poll = "recent" /\ mem'.st.affected = mem.st.affected
        BY <4>1, <4>2 DEF Object, Status
      <4>4. AtCommit'
        BY <2>1, <3>1, <3>3, <4>1, <4>3 DEF AtCommit, Decided
      <4> QED
        BY <2>1, <2>3, <3>1, <4>3, <4>4 DEF WorkerInv
    <3> QED
      BY <3>2, <3>3
  <2> QED
    BY <2>2, <2>3
<1>2. CASE Commit
  BY <1>2, StaleCopy DEF Commit, Exit, WorkerInv, NothingScanned
<1>3. CASE CommitFails
  BY <1>3, StaleCopy DEF CommitFails, Exit, api, WorkerInv, NothingScanned
<1> QED
  BY <1>1, <1>2, <1>3

\* The clock ages every copy of the stamp alike.
LEMMA AgedParts ==
  ASSUME NEW o \in Object
  PROVE  /\ Aged(o).conf = o.conf /\ Aged(o).st.ready = o.st.ready
         /\ Aged(o).st.affected = o.st.affected
         /\ Aged(o).st.poll = IF o.st.poll = "recent" THEN "due" ELSE o.st.poll
         /\ \A r : Aged([o EXCEPT !.st.ready = r]) = [Aged(o) EXCEPT !.st.ready = r]
  BY DEF Aged, Object, Status

LEMMA ElapseWorker ==
  ASSUME TypeOK, WorkerInv, Elapse
  PROVE  WorkerInv'
<1>1. /\ obj' = Aged(obj) /\ cache' = Aged(cache) /\ mem' = Aged(mem)
      /\ UNCHANGED <<cacheFresh, memFresh, pc, todo, down, verdict, answered>>
  BY DEF Elapse
<1>2. obj \in Object /\ mem \in Object
  BY DEF TypeOK
<1>3. /\ mem'.conf = mem.conf /\ mem'.st.ready = mem.st.ready
      /\ mem'.st.affected = mem.st.affected
      /\ mem'.st.poll = IF mem.st.poll = "recent" THEN "due" ELSE mem.st.poll
  BY <1>1, <1>2, AgedParts
<1>4. /\ obj'.conf = obj.conf /\ obj'.st.ready = obj.st.ready
      /\ obj'.st.affected = obj.st.affected
      /\ obj'.st.poll = IF obj.st.poll = "recent" THEN "due" ELSE obj.st.poll
  BY <1>1, <1>2, AgedParts
<1>5. CASE ~memFresh
  BY <1>1, <1>5, StaleCopy DEF WorkerInv, NothingScanned
<1>6. CASE memFresh
  <2>1. ASSUME NEW left, Decided(left) PROVE Decided(left)'
    BY <1>1, <1>3, <1>4, <2>1 DEF Decided
  <2>2. pc = "scan" => Decided(todo)'
    BY <1>1, <1>6, <2>1 DEF WorkerInv
  <2>3. pc = "commit" => AtCommit'
    <3> SUFFICES ASSUME pc = "commit" PROVE AtCommit'
      OBVIOUS
    <3>1. AtCommit
      BY <1>6 DEF WorkerInv
    <3>2. Decided({}) => Decided({})'
      BY <2>1
    <3>3. NothingScanned' = NothingScanned
      BY <1>1 DEF NothingScanned
    <3>4. mem = [obj EXCEPT !.st.ready = "Unknown"]
            => mem' = [obj' EXCEPT !.st.ready = "Unknown"]
      BY <1>1, <1>2, AgedParts
    <3>5. mem = obj => mem' = obj'
      BY <1>1
    <3> QED
      BY <1>1, <1>3, <1>4, <3>1, <3>2, <3>3, <3>4, <3>5 DEF AtCommit
  <2> QED
    BY <1>1, <1>3, <1>4, <1>6, <2>2, <2>3 DEF WorkerInv, NothingScanned
<1> QED
  BY <1>5, <1>6

\* Steps that leave the worker and the stored object alone.
LEMMA WorkerFrame ==
  ASSUME WorkerInv, UNCHANGED <<obj, worker>>, cacheFresh' => cache' = obj'
  PROVE  WorkerInv'
  BY DEF WorkerInv, worker, NothingScanned, Decided, AtCommit

LEMMA NextWorker == TypeOK /\ WorkerInv /\ [Next]_vars => WorkerInv'
<1> SUFFICES ASSUME TypeOK, WorkerInv, [Next]_vars PROVE WorkerInv'
  OBVIOUS
<1>1. CASE Reconcile
  BY <1>1, SetupWorker, ScanWorker, CommitWorker DEF Reconcile
<1>2. CASE Elapse
  BY <1>2, ElapseWorker
<1>3. CASE Crash
  BY <1>3, StaleCopy DEF Crash, Exit, NothingScanned
<1>4. CASE Delete \/ \E c \in Confs : Edit(c) \/ Create(c)
  BY <1>4, StaleCopy DEF Delete, Edit, Create, UserWrites, WorkerInv, NothingScanned
<1>5. CASE WatchEvent
  BY <1>5, WorkerFrame DEF WatchEvent
<1>6. CASE TimerFires \/ (\E t \in Target : ReachabilityChanges(t)) \/ UNCHANGED vars
  BY <1>6, WorkerFrame DEF TimerFires, ReachabilityChanges, vars, api, WorkerInv
<1> QED
  BY <1>1, <1>2, <1>3, <1>4, <1>5, <1>6 DEF Next, Environment

LEMMA WorkerInvHolds == Spec => [](TypeOK /\ WorkerInv)
<1>1. Init => TypeOK /\ WorkerInv
  BY InitTypeOK, InitWorker
<1>2. TypeOK /\ WorkerInv /\ [Next]_vars => TypeOK' /\ WorkerInv'
  BY NextTypeOK, NextWorker
<1> QED
  BY <1>1, <1>2, PTL DEF Spec

(***************************************************************************)
(* What the status says, and when                                          *)
(***************************************************************************)

\* Only the deferred update, the clock and the user write the resource.
LEMMA WhoWrites ==
  ASSUME TypeOK, [Next]_vars
  PROVE  \/ UNCHANGED obj
         \/ Commit
         \/ obj' = Aged(obj)
         \/ \E c \in Confs : obj' = [obj EXCEPT !.conf = c]
         \/ obj' = [obj EXCEPT !.exists = FALSE]
         \/ \E c \in Confs : obj' = NewObject(c)
<1>1. CASE Get \/ SecretMissing \/ NilNotifyPanic \/ FirstSeen \/ Suspended \/ NoClient
             \/ StartScan \/ EndScan \/ CommitFails
  BY <1>1 DEF Get, SecretMissing, NilNotifyPanic, FirstSeen, Suspended, NoClient,
     StartScan, EndScan, CommitFails, api
<1>2. CASE \E t \in Target : ScanTarget(t)
  BY <1>2 DEF ScanTarget, TargetDownFirstScan, TargetDownLaterScan, TargetStillDown,
     TargetRecovered, TargetUpNoMailFile, TargetStillUp, MalformedTarget, Probe, api
<1>3. CASE Environment
  BY <1>3 DEF Environment, TimerFires, WatchEvent, Elapse, ReachabilityChanges, Edit,
     Create, Delete, UserWrites, Crash, api
<1> QED
  BY <1>1, <1>2, <1>3 DEF Next, Reconcile, vars, api

\* What the deferred update stores.
LEMMA CommitStores ==
  ASSUME TypeOK, WorkerInv, Commit
  PROVE  /\ AtCommit /\ mem.conf = obj.conf /\ obj'.conf = obj.conf
         /\ obj'.exists = obj.exists
         /\ obj'.st.poll = mem.st.poll /\ obj'.st.affected = mem.st.affected
         /\ obj'.st.ready = IF verdict = "error" THEN "False" ELSE mem.st.ready
<1>1. AtCommit /\ mem.conf = obj.conf
  BY DEF Commit, WorkerInv
<1>2. obj' = [obj EXCEPT !.st = Reported] /\ obj \in Object /\ mem.st \in Status
  BY DEF Commit, TypeOK, Object
<1>3. Reported.ready = IF verdict = "error" THEN "False" ELSE mem.st.ready
  BY <1>2 DEF Reported, SetReadyCondition, Status
<1>4. Reported.poll = mem.st.poll /\ Reported.affected = mem.st.affected
  BY <1>2 DEF Reported, SetReadyCondition, Status
<1>5. obj'.st = Reported /\ obj'.conf = obj.conf /\ obj'.exists = obj.exists
  BY <1>2 DEF Object
<1> QED
  BY <1>1, <1>3, <1>4, <1>5

LEMMA AtCommitSuccess ==
  ASSUME TypeOK, WorkerInv, [Next]_vars PROVE SuccessStep
<1>o. obj \in Object
  BY DEF TypeOK
<1>1. CASE Commit
  <2>1. AtCommit /\ mem.conf = obj.conf /\ obj'.conf = obj.conf
        /\ obj'.st.poll = mem.st.poll
        /\ obj'.st.ready = IF verdict = "error" THEN "False" ELSE mem.st.ready
    BY <1>1, CommitStores
  <2>2. ASSUME verdict = "done", mem = [obj EXCEPT !.st.ready = "Unknown"]
        PROVE  mem.st.ready = "Unknown" /\ mem.st.poll = obj.st.poll
    BY <1>o, <2>2 DEF Object, Status
  <2>3. ASSUME ~down, Decided({}) PROVE answered = mem.conf.targets
    BY <2>3 DEF Decided
  <2> QED
    BY <2>1, <2>2, <2>3 DEF AtCommit, SuccessStep
<1>2. CASE UNCHANGED obj
  BY <1>2 DEF SuccessStep
<1>3. CASE obj' = Aged(obj)
  BY <1>o, <1>3, AgedParts DEF SuccessStep
<1>4. CASE \/ \E c \in Confs : obj' = [obj EXCEPT !.conf = c]
           \/ obj' = [obj EXCEPT !.exists = FALSE]
  <2>1. obj'.st = obj.st
    BY <1>o, <1>4 DEF Object
  <2> QED
    BY <2>1 DEF SuccessStep
<1>5. CASE \E c \in Confs : obj' = NewObject(c)
  BY <1>5 DEF NewObject, EmptyStatus, SuccessStep
<1> QED
  BY <1>1, <1>2, <1>3, <1>4, <1>5, WhoWrites

\* A stored success is the outcome of one complete scan of the stored spec, however
\* many targets it has and whatever is edited, retried or restarted meanwhile.
THEOREM SuccessIsEarned == Spec => SuccessMeansAllAnswered
<1>1. TypeOK /\ WorkerInv /\ [Next]_vars => [SuccessStep]_vars
  BY AtCommitSuccess
<1> QED
  BY <1>1, WorkerInvHolds, PTL DEF Spec, SuccessMeansAllAnswered

\* The list a completed later scan stores is exact for the targets of the spec.
THEOREM LaterScanIsExact == Spec => LaterScanStoresWhatItFound
<1>1. TypeOK /\ WorkerInv /\ [Next]_vars => [LaterScanStep]_vars
  <2> SUFFICES ASSUME TypeOK, WorkerInv, Commit, ScanEnded, obj.st.poll # "never"
               PROVE  \A t \in mem.conf.targets :
                        t \in obj'.st.affected <=> t \notin answered
    BY DEF LaterScanStep
  <2>1. AtCommit /\ obj'.st.affected = mem.st.affected
    BY CommitStores
  <2>2. Decided({})
    BY <2>1 DEF AtCommit, ScanEnded, NothingScanned
  <2> QED
    BY <2>1, <2>2 DEF Decided
<1> QED
  BY <1>1, WorkerInvHolds, PTL DEF Spec, LaterScanStoresWhatItFound

\* No completed scan, first or later, leaves out a target that did not answer.
THEOREM OutagesAreListed == Spec => NoOutageDropped
<1>1. TypeOK /\ WorkerInv /\ [Next]_vars => [OutageStep]_vars
  <2> SUFFICES ASSUME TypeOK, WorkerInv, Commit, ScanEnded
               PROVE  mem.conf.targets \ answered \subseteq obj'.st.affected
    BY DEF OutageStep
  <2>1. AtCommit /\ obj'.st.affected = mem.st.affected
    BY CommitStores
  <2>2. Decided({})
    BY <2>1 DEF AtCommit, ScanEnded, NothingScanned
  <2> QED
    BY <2>1, <2>2 DEF Decided
<1> QED
  BY <1>1, WorkerInvHolds, PTL DEF Spec, NoOutageDropped

(***************************************************************************)
(* The work queue                                                          *)
(***************************************************************************)

LEMMA NextForgotten ==
  TypeOK /\ WorkerInv /\ NeverForgotten /\ [Next]_vars => NeverForgotten'
<1> SUFFICES ASSUME TypeOK, WorkerInv, NeverForgotten, [Next]_vars PROVE NeverForgotten'
  OBVIOUS
<1> USE DEF NeverForgotten
<1>1. CASE Get
  <2>1. CASE cache.exists
    BY <1>1, <2>1 DEF Get
  <2>2. CASE ~cache.exists
    BY <1>1, <2>2 DEF Get, api, WorkerInv
  <2> QED
    BY <2>1, <2>2
<1>2. CASE SecretMissing \/ NilNotifyPanic \/ CommitFails
  BY <1>2 DEF SecretMissing, NilNotifyPanic, CommitFails
<1>3. CASE FirstSeen \/ Suspended \/ NoClient \/ StartScan \/ EndScan
  BY <1>3 DEF FirstSeen, Suspended, NoClient, StartScan, EndScan, Return
<1>4. CASE \E t \in Target : ScanTarget(t)
  BY <1>4 DEF ScanTarget, TargetDownFirstScan, TargetDownLaterScan, TargetStillDown,
     TargetRecovered, TargetUpNoMailFile, TargetStillUp, MalformedTarget, Probe, Return
<1>5. CASE Commit
  <2>1. CASE verdict # "done"
    BY <1>5, <2>1 DEF Commit
  <2>2. CASE verdict = "done"
    <3>1. AtCommit /\ obj'.st.ready = mem.st.ready
      BY <1>5, <2>2, CommitStores
    <3>2. obj.st.ready = "none" /\ mem = [obj EXCEPT !.st.ready = "Unknown"]
      BY <2>2, <3>1 DEF AtCommit
    <3>3. obj' # obj
      BY <3>1, <3>2 DEF TypeOK, Object, Status
    <3> QED
      BY <1>5, <3>3 DEF Commit
  <2> QED
    BY <2>1, <2>2
<1>6. CASE TimerFires \/ WatchEvent \/ Crash \/ Delete
             \/ (\E c \in Confs : Edit(c) \/ Create(c))
  BY <1>6 DEF TimerFires, WatchEvent, Crash, Delete, Edit, Create, UserWrites
<1>7. CASE Elapse
  <2>1. obj'.exists = obj.exists
    BY <1>7 DEF Elapse, Aged, TypeOK, Object
  <2> QED
    BY <1>7, <2>1 DEF Elapse, wq
<1>8. CASE (\E t \in Target : ReachabilityChanges(t)) \/ UNCHANGED vars
  BY <1>8 DEF ReachabilityChanges, vars, api, wq, worker
<1> QED
  BY <1>1, <1>2, <1>3, <1>4, <1>5, <1>6, <1>7, <1>8 DEF Next, Reconcile, Environment

\* Although "First Seen" returns without a requeue, no resource is ever left with
\* neither a queued key, nor a timer, nor a watch event under way.
THEOREM ResourceIsNeverForgotten == Spec => []NeverForgotten
<1>1. Init => NeverForgotten
  BY DEF Init, NeverForgotten
<1> QED
  BY <1>1, NextForgotten, WorkerInvHolds, PTL DEF Spec

(***************************************************************************)
(* Refinement                                                              *)
(***************************************************************************)

LEMMA InitLifecycle == Init => Lifecycle!Init
  BY DEF Init, NewObject, EmptyStatus, Lifecycle!Init

LEMMA CommitLifecycle ==
  ASSUME TypeOK, WorkerInv, Commit PROVE [Lifecycle!Next]_Lifecycle!vars
<1> USE DEF Lifecycle!Next, Lifecycle!vars
<1>1. /\ AtCommit /\ obj'.st.poll = mem.st.poll /\ obj'.st.affected = mem.st.affected
      /\ obj'.st.ready = IF verdict = "error" THEN "False" ELSE mem.st.ready
  BY CommitStores
<1>t. obj \in Object /\ mem \in Object /\ mem.st.affected \in SUBSET Target
      /\ mem.st.poll \in {"never", "recent", "due"}
  BY DEF TypeOK, Object, Status
<1>2. CASE verdict = "done"
  <2>1. obj.st.ready = "none" /\ mem = [obj EXCEPT !.st.ready = "Unknown"]
    BY <1>1, <1>2 DEF AtCommit
  <2>2. mem.st.ready = "Unknown" /\ mem.st.poll = obj.st.poll
        /\ mem.st.affected = obj.st.affected
    BY <1>t, <2>1 DEF Object, Status
  <2> QED
    BY <1>1, <1>2, <2>1, <2>2 DEF Lifecycle!FirstSeen
<1>3. CASE verdict \in {"again", "error"} /\ obj.st.ready # "none" /\ mem = obj
  BY <1>1, <1>t, <1>3 DEF Lifecycle!Failure, Lifecycle!Scannable
<1>4. CASE verdict = "again" /\ mem # obj
  BY <1>1, <1>t, <1>4 DEF AtCommit, Decided, Lifecycle!Success, Lifecycle!Scannable
<1>5. CASE verdict = "error" /\ mem # obj
  BY <1>1, <1>t, <1>5 DEF AtCommit, Lifecycle!Failure, Lifecycle!Scannable
<1>6. CASE verdict = "panic"
  BY <1>1, <1>t, <1>6 DEF AtCommit, Lifecycle!Failure, Lifecycle!Aborted, Lifecycle!Scannable
<1> QED
  BY <1>1, <1>2, <1>3, <1>4, <1>5, <1>6 DEF AtCommit

LEMMA NextLifecycle ==
  ASSUME TypeOK, WorkerInv, [Next]_vars PROVE [Lifecycle!Next]_Lifecycle!vars
<1> USE DEF Lifecycle!Next, Lifecycle!vars
<1>o. obj \in Object
  BY DEF TypeOK
<1>1. CASE Commit
  BY <1>1, CommitLifecycle
<1>2. CASE UNCHANGED obj
  BY <1>2
<1>3. CASE obj' = Aged(obj)
  BY <1>o, <1>3, AgedParts DEF Lifecycle!Elapse
<1>4. CASE \/ \E c \in Confs : obj' = [obj EXCEPT !.conf = c]
           \/ obj' = [obj EXCEPT !.exists = FALSE]
  <2>1. obj'.st = obj.st
    BY <1>o, <1>4 DEF Object
  <2> QED
    BY <2>1
<1>5. CASE \E c \in Confs : obj' = NewObject(c)
  BY <1>5 DEF NewObject, EmptyStatus, Lifecycle!Recreate
<1> QED
  BY <1>1, <1>2, <1>3, <1>4, <1>5, WhoWrites

\* The status of a PortScan resource evolves as ScanLifecycle says, for any number of
\* targets: every step of the reconciler, the queue, the watch, the clock, the user
\* and a crash is a step of ScanLifecycle or none.
THEOREM Refinement == Spec => ImplementsLifecycle
<1>1. TypeOK /\ WorkerInv /\ [Next]_vars => [Lifecycle!Next]_Lifecycle!vars
  BY NextLifecycle
<1> QED
  BY <1>1, InitLifecycle, WorkerInvHolds, PTL
     DEF Spec, ImplementsLifecycle, Lifecycle!Spec
=============================================================================
