---------------------------- MODULE VmScanProofs ----------------------------
(***************************************************************************)
(* Proofs about VmScan for every number of nodes, namespaces and VMIs,     *)
(* every set of specs and every bound: types, and the alert channels.      *)
(***************************************************************************)
EXTENDS VmScan, TLAPS

(***************************************************************************)
(* Type correctness                                                        *)
(***************************************************************************)

TypeInv == TypeOK /\ ScopeInv

LEMMA EmptyStatusType == EmptyStatus \in Status
  BY DEF EmptyStatus, Status

LEMMA InitType == Init => TypeInv
<1> SUFFICES ASSUME Init PROVE TypeInv
  OBVIOUS
<1>1. conf \in Conf
  BY ConstantsAssumption DEF Init
<1>2. st \in Status /\ cache \in Status /\ mem \in Status
  BY EmptyStatusType DEF Init
<1>3. /\ ns \in 0..(M + 1) /\ todo \in SUBSET Node
      /\ seen \in SUBSET ((Node \cup {Pending}) \X Vmi)
      /\ place \in [Vmi -> 0..(N + 1)]
  BY ConstantsAssumption DEF Init, Node, Pending
<1>4. /\ mailFile \in [File -> {NoFile, Sent}] /\ extFile \in [File -> Nat \cup {NoFile}]
      /\ mails \in [File -> Nat]
      /\ fired \in [File -> Nat] /\ cleared \in [File -> Nat] /\ lost \in [File -> Nat]
  BY DEF Init
<1>5. ScopeInv
  BY DEF Init, ScopeInv
<1> QED
  BY <1>1, <1>2, <1>3, <1>4, <1>5 DEF Init, TypeInv, TypeOK

\* The end of a call of Reconcile.
LEMMA ExitType ==
  ASSUME Exit
  PROVE  /\ mem' \in Status /\ memFresh' \in BOOLEAN
         /\ pc' \in {"idle", "setup", "migrations", "place", "commit"}
         /\ ns' \in 0..(M + 1) /\ todo' \in SUBSET Node
         /\ seen' \in SUBSET ((Node \cup {Pending}) \X Vmi)
         /\ isAffected' \in BOOLEAN /\ verdict' \in {"again", "error"}
         /\ ScopeInv'
<1>1. mem' \in Status
  BY EmptyStatusType DEF Exit
<1>2. ns' \in 0..(M + 1)
  BY ConstantsAssumption DEF Exit
<1>3. ScopeInv'
  BY DEF Exit, ScopeInv
<1> QED
  BY <1>1, <1>2, <1>3 DEF Exit

LEMMA FailType == ASSUME TypeOK, NEW n \in Nat, Fail(n) PROVE faults' \in Nat
  BY DEF TypeOK, Fail

LEMMA SetupType ==
  ASSUME TypeInv,
         Get \/ SecretMissing \/ NoClient \/ NothingToDo \/ StartScan
  PROVE  TypeInv'
<1>1. CASE Get
  BY <1>1 DEF Get, TypeInv, TypeOK, ScopeInv, stored, files, ext, vmis
<1>2. CASE SecretMissing
  BY <1>2, ExitType, FailType DEF SecretMissing, TypeInv, TypeOK, stored, files, ext, vmis
<1>3. CASE NoClient
  BY <1>3, FailType DEF NoClient, Return, TypeInv, TypeOK, ScopeInv, stored, files, ext, vmis
<1>4. CASE NothingToDo
  BY <1>4 DEF NothingToDo, Return, TypeInv, TypeOK, ScopeInv, stored, files, ext, vmis
<1>5. CASE StartScan
  BY <1>5, ConstantsAssumption
     DEF StartScan, TypeInv, TypeOK, ScopeInv, stored, files, ext, vmis
<1> QED
  BY <1>1, <1>2, <1>3, <1>4, <1>5

LEMMA ListingType ==
  ASSUME TypeInv,
         CheckMigrations \/ StartPlacementCheck \/ ListVmis \/ ListVmisFails
  PROVE  TypeInv'
<1>c. M \in Nat /\ N \in Nat
  BY ConstantsAssumption
<1>1. CASE CheckMigrations
  <2>1. mem' \in Status /\ faults' \in Nat
    BY <1>1, FailType DEF CheckMigrations, TypeInv, TypeOK, Status
  <2>2. /\ pc = "migrations" /\ ns <= M /\ ns' = ns + 1
        /\ UNCHANGED <<stored, pc, memFresh, seen, todo, isAffected, verdict, files, ext,
                       vmis, restarts, moves>>
    BY <1>1 DEF CheckMigrations
  <2> QED
    BY <1>c, <2>1, <2>2 DEF TypeInv, TypeOK, ScopeInv, stored, files, ext, vmis
<1>2. CASE StartPlacementCheck
  BY <1>2, <1>c DEF StartPlacementCheck, TypeInv, TypeOK, ScopeInv, stored, files, ext, vmis
<1>3. CASE ListVmis
  <2>1. \A v \in Vmi : Listed(v) => place[v] \in Node \cup {Pending}
    BY <1>c DEF TypeInv, TypeOK, Listed, Node, Pending, Gone
  <2>2. seen' \in SUBSET ((Node \cup {Pending}) \X Vmi)
    BY <1>3, <2>1 DEF ListVmis, TypeInv, TypeOK
  <2>3. /\ pc = "place" /\ ns \in 1..M /\ todo' = Node
        /\ ns' \in {ns, ns + 1} /\ (todo' # {} => ns' = ns)
        /\ UNCHANGED <<stored, pc, mem, memFresh, isAffected, verdict, files, ext, vmis,
                       restarts, moves, faults>>
    BY <1>3, <1>c DEF ListVmis, TypeInv, TypeOK, ScopeInv
  <2> QED
    BY <1>c, <2>2, <2>3
       DEF TypeInv, TypeOK, ScopeInv, Namespace, stored, files, ext, vmis
<1>4. CASE ListVmisFails
  BY <1>4, FailType
     DEF ListVmisFails, Return, TypeInv, TypeOK, ScopeInv, stored, files, ext, vmis
<1> QED
  BY <1>1, <1>2, <1>3, <1>4

\* What the handling of a node keeps, whatever it finds there.
LEMMA TakeType ==
  ASSUME TypeInv, NEW n \in Node, Take(n)
  PROVE  /\ <<ns, n>> \in File
         /\ conf' \in Conf /\ st' \in Status /\ cache' \in Status
         /\ cacheFresh' \in BOOLEAN /\ memFresh' \in BOOLEAN
         /\ pc' \in {"idle", "setup", "migrations", "place", "commit"}
         /\ ns' \in 0..(M + 1) /\ todo' \in SUBSET Node
         /\ seen' \in SUBSET ((Node \cup {Pending}) \X Vmi)
         /\ verdict' \in {"again", "error"}
         /\ place' \in [Vmi -> 0..(N + 1)]
         /\ migration' \in [Vmi -> {"none", "ongoing", "completed"}]
         /\ restarts' \in Nat /\ moves' \in Nat
         /\ ScopeInv'
<1>1. /\ pc = "place" /\ n \in todo /\ todo' = todo \ {n}
      /\ ns' = IF todo' = {} THEN ns + 1 ELSE ns
      /\ UNCHANGED <<conf, st, cache, cacheFresh, pc, memFresh, seen, verdict, place,
                     migration, restarts, moves>>
  BY DEF Take, stored, vmis
<1>2. ns \in 1..M /\ M \in Nat
  BY <1>1, ConstantsAssumption DEF TypeInv, ScopeInv, Namespace
<1>3. ns' \in 1..(M + 1) /\ (todo' # {} => ns' \in 1..M)
  BY <1>1, <1>2
<1>4. ScopeInv'
  BY <1>1, <1>3 DEF ScopeInv, Namespace
<1>5. <<ns, n>> \in File
  BY <1>2 DEF File, Namespace
<1>6. ns' \in 0..(M + 1)
  BY <1>2, <1>3
<1> QED
  BY <1>1, <1>4, <1>5, <1>6 DEF TypeInv, TypeOK

LEMMA MailType ==
  ASSUME TypeOK, NEW f \in File,
         SendEmailAlert(f) \/ UNCHANGED <<mailFile, mails>>
  PROVE  mailFile' \in [File -> {NoFile, Sent}] /\ mails' \in [File -> Nat]
  BY DEF SendEmailAlert, TypeOK

LEMMA NotifyType ==
  ASSUME TypeOK, NEW f \in File, NEW outcome \in {"ok", "failed", "lost"},
         NotifyExternalSystem(f, outcome)
  PROVE  /\ extFile' \in [File -> Nat \cup {NoFile}]
         /\ fired' \in [File -> Nat] /\ lost' \in [File -> Nat]
  BY DEF NotifyExternalSystem, PostFiring, TypeOK

\* Only VMIs on a node of the list are reported for it.
LEMMA OnType == ASSUME TypeOK, NEW n \in Node PROVE On(n) \subseteq Node \X Vmi
  BY DEF TypeOK, On

LEMMA IncidentType ==
  ASSUME NEW f \in File, NEW content \in Nat \cup {NoFile}, NEW found \in BOOLEAN
  PROVE  SetIncidentID(f, content, found) \in SUBSET ((File \X Nat) \cup {Stray})
  BY DEF SetIncidentID

LEMMA SharedType ==
  ASSUME TypeInv, NEW n \in Node, NodeShared(n)
  PROVE  TypeInv'
<1> DEFINE f == <<ns, n>>
<1>f. f \in File
  BY TakeType DEF NodeShared
<1>t. TypeOK
  BY DEF TypeInv
<1> HIDE DEF f
<1>1. mailFile' \in [File -> {NoFile, Sent}] /\ mails' \in [File -> Nat]
  <2>1. SendEmailAlert(f) \/ UNCHANGED <<mailFile, mails>>
    BY DEF NodeShared, f
  <2> QED
    BY <1>f, <1>t, <2>1, MailType
<1>2. mem.affected \cup On(n) \in SUBSET (Node \X Vmi) /\ mem \in Status
  BY <1>t, OnType DEF TypeOK, Status
<1>3. /\ extFile' \in [File -> Nat \cup {NoFile}] /\ mem' \in Status
      /\ fired' \in [File -> Nat] /\ lost' \in [File -> Nat] /\ faults' \in Nat
  <2>1. CASE conf.notify /\ ~mem.notified
    <3>1. PICK outcome \in {"ok", "failed", "lost"}, found \in BOOLEAN :
            /\ NotifyExternalSystem(f, outcome)
            /\ Fail(IF outcome = "ok" THEN 0 ELSE 1)
            /\ mem' = [mem EXCEPT
                 !.affected = @ \cup On(n), !.notified = TRUE,
                 !.incidents = @ \cup SetIncidentID(f, extFile'[f], found)]
      BY <2>1 DEF NodeShared, f
    <3>2. /\ extFile' \in [File -> Nat \cup {NoFile}]
          /\ fired' \in [File -> Nat] /\ lost' \in [File -> Nat]
      BY <1>f, <1>t, <3>1, NotifyType
    <3>3. (IF outcome = "ok" THEN 0 ELSE 1) \in Nat
      OBVIOUS
    <3>4. faults' \in Nat
      BY <1>t, <3>1, <3>3, FailType
    <3> DEFINE more == SetIncidentID(f, extFile'[f], found)
    <3>5. more \in SUBSET ((File \X Nat) \cup {Stray})
      BY <1>f, <3>2, IncidentType
    <3> HIDE DEF more
    <3>6. mem.incidents \cup more \in SUBSET ((File \X Nat) \cup {Stray})
      BY <1>2, <3>5 DEF Status
    <3>7. mem' \in Status
      BY <1>2, <3>1, <3>6 DEF Status, more
    <3> QED
      BY <3>2, <3>4, <3>7
  <2>2. CASE ~(conf.notify /\ ~mem.notified)
    <3>1. /\ mem' = [mem EXCEPT !.affected = @ \cup On(n)]
          /\ UNCHANGED <<extFile, fired, lost, faults>>
      BY <2>2 DEF NodeShared
    <3>2. mem' \in Status
      BY <1>2, <3>1 DEF Status
    <3> QED
      BY <1>t, <3>1, <3>2 DEF TypeOK
  <2> QED
    BY <2>1, <2>2
<1>4. isAffected' \in BOOLEAN /\ cleared' \in [File -> Nat] /\ Take(n)
  BY <1>t DEF NodeShared, TypeOK
<1> QED
  BY <1>1, <1>3, <1>4, TakeType DEF TypeInv, TypeOK

LEMMA AloneType ==
  ASSUME TypeInv, NEW n \in Node, NodeAlone(n)
  PROVE  TypeInv'
<1>1. mem' \in Status
  BY DEF NodeAlone, TypeInv, TypeOK, Status
<1>2. Take(n) /\ isAffected' = FALSE /\ UNCHANGED <<files, ext, faults>>
  BY DEF NodeAlone
<1> QED
  BY <1>1, <1>2, TakeType DEF TypeInv, TypeOK, files, ext

LEMMA RecoveredType ==
  ASSUME TypeInv, NEW n \in Node, NodeRecovered(n)
  PROVE  TypeInv'
<1> DEFINE f == <<ns, n>>
<1>f. f \in File
  BY TakeType DEF NodeRecovered
<1>t. mem \in Status
  BY DEF TypeInv, TypeOK
<1> HIDE DEF f
<1>1. CASE conf.notify /\ mem.notified
  <2>1. PICK found \in BOOLEAN :
          mem' = [mem EXCEPT !.affected = {},
                    !.incidents = @ \ SetIncidentID(f, extFile[f], found)]
    BY <1>1 DEF NodeRecovered, f
  <2> DEFINE gone == SetIncidentID(f, extFile[f], found)
  <2>2. mem.incidents \ gone \in SUBSET ((File \X Nat) \cup {Stray})
    BY <1>t DEF Status
  <2> HIDE DEF gone
  <2>3. mem' \in Status
    BY <1>t, <2>1, <2>2 DEF Status, gone
  <2>4. /\ mailFile' = [mailFile EXCEPT ![f] = NoFile]
        /\ extFile' = [extFile EXCEPT ![f] = NoFile]
        /\ cleared' = [cleared EXCEPT ![f] = @ + 1]
    BY <1>1 DEF NodeRecovered, f
  <2>5. /\ mailFile' \in [File -> {NoFile, Sent}]
        /\ extFile' \in [File -> Nat \cup {NoFile}]
        /\ cleared' \in [File -> Nat]
    BY <1>f, <2>4 DEF TypeInv, TypeOK
  <2>6. Take(n) /\ isAffected' = FALSE /\ UNCHANGED <<mails, fired, lost, faults>>
    BY DEF NodeRecovered
  <2> QED
    BY <2>3, <2>5, <2>6, TakeType DEF TypeInv, TypeOK
<1>2. CASE ~(conf.notify /\ mem.notified)
  <2>1. mem' = [mem EXCEPT !.affected = {}] /\ UNCHANGED <<files, cleared>>
    BY <1>2 DEF NodeRecovered
  <2>2. mem' \in Status
    BY <1>t, <2>1 DEF Status
  <2>3. Take(n) /\ isAffected' = FALSE /\ UNCHANGED <<mails, fired, lost, faults>>
    BY DEF NodeRecovered
  <2> QED
    BY <2>1, <2>2, <2>3, TakeType DEF TypeInv, TypeOK, files
<1> QED
  BY <1>1, <1>2

LEMMA VerdictType ==
  ASSUME NEW s \in Status, NEW v \in {"Violated", "NonViolated"}
  PROVE  SetNonViolationCondition(s, v) \in Status
  BY DEF SetNonViolationCondition, Status

LEMMA CommitType ==
  ASSUME TypeInv, EndScan \/ Commit \/ CommitFails
  PROVE  TypeInv'
<1>1. CASE EndScan
  <2>1. mem' \in Status
    <3>1. mem \in Status
      BY DEF TypeInv, TypeOK
    <3> DEFINE s == SetNonViolationCondition(mem, "NonViolated")
    <3>2. s \in Status
      BY <3>1, VerdictType
    <3>3. mem' = mem \/ mem' = [s EXCEPT !.poll = "recent", !.notified = FALSE]
      BY <1>1 DEF EndScan
    <3> HIDE DEF s
    <3> QED
      BY <3>1, <3>2, <3>3 DEF Status
  <2>2. /\ pc = "place" /\ pc' = "commit" /\ verdict' \in {"again", "error"}
        /\ ns = M + 1 /\ UNCHANGED <<ns, todo>>
    BY <1>1 DEF EndScan, Return
  <2>3. todo' = {}
    <3>1. M \in Nat /\ ns \notin 1..M
      BY <2>2, ConstantsAssumption
    <3> QED
      BY <2>2, <3>1 DEF TypeInv, ScopeInv, Namespace
  <2>4. ScopeInv'
    BY <2>2, <2>3 DEF ScopeInv
  <2> QED
    BY <1>1, <2>1, <2>2, <2>4 DEF EndScan, TypeInv, TypeOK, stored, files, ext, vmis
<1>2. CASE Commit
  <2>1. Reported \in Status
    BY VerdictType DEF Reported, TypeInv, TypeOK
  <2>2. st' \in Status /\ cacheFresh' \in BOOLEAN
    BY <1>2, <2>1 DEF Commit
  <2> QED
    BY <1>2, <2>2, ExitType DEF Commit, TypeInv, TypeOK, files, ext, vmis
<1>3. CASE CommitFails
  <2>1. faults' \in Nat
    BY <1>3, FailType DEF CommitFails, TypeInv, TypeOK
  <2> QED
    BY <1>3, <2>1, ExitType DEF CommitFails, TypeInv, TypeOK, stored, files, ext, vmis
<1> QED
  BY <1>1, <1>2, <1>3

LEMMA AgedType == ASSUME NEW s \in Status PROVE Aged(s) \in Status
  BY DEF Aged, Status

LEMMA EnvironmentType ==
  ASSUME TypeInv, Environment
  PROVE  TypeInv'
<1>1. CASE WatchEvent
  BY <1>1 DEF WatchEvent, TypeInv, TypeOK, ScopeInv, worker, files, ext, vmis
<1>2. CASE Elapse
  BY <1>2, AgedType DEF Elapse, TypeInv, TypeOK, ScopeInv, files, ext, vmis
<1>3. ASSUME NEW v \in Vmi, NEW n \in Node, Land(v, n)
      PROVE  TypeInv'
  <2>1. /\ place' \in [Vmi -> 0..(N + 1)]
        /\ migration' \in [Vmi -> {"none", "ongoing", "completed"}]
    <3>1. n \in 0..(N + 1)
      BY ConstantsAssumption DEF Node
    <3> QED
      BY <1>3, <3>1 DEF Land, TypeInv, TypeOK
  <2>2. Moves
    BY <1>3 DEF Land
  <2> QED
    BY <2>1, <2>2 DEF Moves, TypeInv, TypeOK, ScopeInv, stored, worker, files, ext
<1>4. ASSUME NEW v \in Vmi, Migrate(v) \/ Delete(v)
      PROVE  TypeInv'
  <2>1. /\ place' \in [Vmi -> 0..(N + 1)]
        /\ migration' \in [Vmi -> {"none", "ongoing", "completed"}]
    <3>1. N + 1 \in 0..(N + 1)
      BY ConstantsAssumption
    <3> QED
      BY <1>4, <3>1 DEF Migrate, Delete, Gone, TypeInv, TypeOK
  <2>2. Moves
    BY <1>4 DEF Migrate, Delete
  <2> QED
    BY <2>1, <2>2 DEF Moves, TypeInv, TypeOK, ScopeInv, stored, worker, files, ext
<1>5. CASE Crash
  <2>1. faults' \in Nat /\ restarts' \in Nat
    BY <1>5, FailType DEF Crash, TypeInv, TypeOK
  <2>2. /\ mailFile' \in [File -> {NoFile, Sent}]
        /\ extFile' \in [File -> Nat \cup {NoFile}]
    BY <1>5 DEF Crash
  <2>3. cache' \in Status /\ cacheFresh' \in BOOLEAN
    BY <1>5 DEF Crash, TypeInv, TypeOK
  <2> QED
    BY <1>5, <2>1, <2>2, <2>3, ExitType DEF Crash, TypeInv, TypeOK, ext, vmis
<1> QED
  BY <1>1, <1>2, <1>3, <1>4, <1>5 DEF Environment

LEMMA NextType == TypeInv /\ [Next]_vars => TypeInv'
<1> SUFFICES ASSUME TypeInv, [Next]_vars PROVE TypeInv'
  OBVIOUS
<1>1. CASE Reconcile
  BY <1>1, SetupType, ListingType, SharedType, AloneType, RecoveredType, CommitType
     DEF Reconcile, ScanNode
<1>2. CASE Environment
  BY <1>2, EnvironmentType
<1>3. CASE UNCHANGED vars
  BY <1>3 DEF vars, TypeInv, TypeOK, ScopeInv, stored, worker, files, ext, vmis
<1> QED
  BY <1>1, <1>2, <1>3 DEF Next

LEMMA TypeInvHolds == Spec => []TypeInv
  BY InitType, NextType, PTL DEF Spec

\* Every reachable state is well typed.  In particular the namespace and the node that
\* are handled name a dedup file, and no VMI is listed without a node it was seen on.
THEOREM TypeCorrect == Spec => []TypeOK
<1>1. TypeInv => TypeOK
  BY DEF TypeInv
<1> QED
  BY <1>1, TypeInvHolds, PTL

(***************************************************************************)
(* The alert channels                                                      *)
(***************************************************************************)

LEMMA InitAlert == Init => AlertInv
  BY DEF Init, AlertInv, Open

\* A step that touches neither a file nor what the counters count changes nothing.
LEMMA AlertFrame ==
  ASSUME AlertInv, UNCHANGED <<files, ext, restarts>>
  PROVE  AlertInv'
  BY DEF AlertInv, Open, files, ext

\* The two parts of AlertInv, for one file.
FiringInv(f) ==
  /\ fired[f] <= cleared[f] + lost[f] + restarts + Open(extFile, f)
  /\ extFile[f] # NoFile => fired[f] > 0 /\ extFile[f] = fired[f]

MailInv(f) == mails[f] <= cleared[f] + restarts + Open(mailFile, f)

LEMMA AlertParts == AlertInv <=> \A f \in File : FiringInv(f) /\ MailInv(f)
  BY DEF AlertInv, FiringInv, MailInv

\* What AlertInv counts with.
LEMMA Counters ==
  ASSUME TypeOK, NEW f \in File
  PROVE  /\ fired[f] \in Nat /\ cleared[f] \in Nat /\ lost[f] \in Nat
         /\ mails[f] \in Nat /\ restarts \in Nat
         /\ extFile[f] \in Nat \cup {NoFile} /\ mailFile[f] \in {NoFile, Sent}
  BY DEF TypeOK

\* Posting an alert keeps the books: the n-th alert opens the file under the number n,
\* or its answer is lost.
LEMMA PostKeepsFiringInv ==
  ASSUME TypeOK, NEW f \in File, NEW outcome \in {"ok", "failed", "lost"},
         NotifyExternalSystem(f, outcome), UNCHANGED <<cleared, restarts>>,
         NEW g \in File, FiringInv(g)
  PROVE  FiringInv(g)'
<1> USE DEF FiringInv, Open
<1>1. CASE UNCHANGED <<extFile, fired, lost>>
  BY <1>1
<1>2. CASE extFile[f] = NoFile /\ PostFiring(f, outcome)
  <2>1. CASE g # f
    BY <1>2, <2>1 DEF PostFiring, TypeOK
  <2>2. CASE g = f
    <3>1. CASE outcome = "failed"
      BY <1>2, <3>1 DEF PostFiring
    <3>2. CASE outcome = "lost"
      BY <1>2, <2>2, <3>2, Counters DEF PostFiring, TypeOK
    <3>3. CASE outcome = "ok"
      BY <1>2, <2>2, <3>3, Counters, ConstantsAssumption DEF PostFiring, TypeOK
    <3> QED
      BY <3>1, <3>2, <3>3
  <2> QED
    BY <2>1, <2>2
<1> QED
  BY <1>1, <1>2 DEF NotifyExternalSystem

\* A mail is only sent when there is no file, and leaves one.
LEMMA MailKeepsMailInv ==
  ASSUME TypeOK, NEW f \in File,
         SendEmailAlert(f) \/ UNCHANGED <<mailFile, mails>>,
         UNCHANGED <<cleared, restarts>>,
         NEW g \in File, MailInv(g)
  PROVE  MailInv(g)'
<1> USE DEF MailInv, Open
<1>1. CASE UNCHANGED <<mailFile, mails>>
  BY <1>1
<1>2. CASE mailFile[f] = NoFile /\ SendEmailAlert(f)
  <2>1. CASE g # f
    BY <1>2, <2>1 DEF SendEmailAlert, TypeOK
  <2>2. CASE g = f
    BY <1>2, <2>2, Counters, ConstantsAssumption DEF SendEmailAlert, TypeOK
  <2> QED
    BY <2>1, <2>2
<1> QED
  BY <1>1, <1>2 DEF SendEmailAlert

LEMMA SharedKeepsAlertInv ==
  ASSUME TypeInv, AlertInv, NEW n \in Node, NodeShared(n)
  PROVE  AlertInv'
<1> DEFINE f == <<ns, n>>
<1>f. f \in File
  BY TakeType DEF NodeShared
<1>t. TypeOK /\ UNCHANGED <<cleared, restarts>>
  BY DEF TypeInv, NodeShared, Take
<1>1. ASSUME NEW g \in File PROVE FiringInv(g)'
  <2>1. FiringInv(g)
    BY AlertParts
  <2>2. CASE \E outcome \in {"ok", "failed", "lost"} : NotifyExternalSystem(f, outcome)
    BY <1>f, <1>t, <2>1, <2>2, PostKeepsFiringInv
  <2>3. CASE UNCHANGED <<extFile, fired, lost>>
    BY <1>t, <2>1, <2>3 DEF FiringInv, Open
  <2> QED
    BY <2>2, <2>3 DEF NodeShared
<1>2. ASSUME NEW g \in File PROVE MailInv(g)'
  <2>1. MailInv(g)
    BY AlertParts
  <2>2. SendEmailAlert(f) \/ UNCHANGED <<mailFile, mails>>
    BY DEF NodeShared
  <2> QED
    BY <1>f, <1>t, <2>1, <2>2, MailKeepsMailInv
<1> QED
  BY <1>1, <1>2 DEF AlertInv, FiringInv, MailInv

\* A recovery drops both files, and pays for one alert and one mail.
LEMMA RecoveryKeepsAlertInv ==
  ASSUME TypeInv, AlertInv, NEW n \in Node, NodeRecovered(n)
  PROVE  AlertInv'
<1> DEFINE f == <<ns, n>>
<1>f. f \in File
  BY TakeType DEF NodeRecovered
<1>t. TypeOK /\ UNCHANGED <<mails, fired, lost, restarts>>
  BY DEF TypeInv, NodeRecovered, Take
<1>1. CASE UNCHANGED <<files, cleared>>
  BY <1>1, <1>t, AlertFrame DEF ext
<1>2. CASE /\ mailFile' = [mailFile EXCEPT ![f] = NoFile]
           /\ extFile' = [extFile EXCEPT ![f] = NoFile]
           /\ cleared' = [cleared EXCEPT ![f] = @ + 1]
  <2>1. ASSUME NEW g \in File PROVE FiringInv(g)' /\ MailInv(g)'
    <3>1. FiringInv(g) /\ MailInv(g)
      BY AlertParts
    <3>2. CASE g # f
      BY <1>2, <1>t, <3>1, <3>2 DEF FiringInv, MailInv, Open, TypeOK
    <3>3. CASE g = f
      <4>1. /\ cleared'[g] = cleared[g] + 1
            /\ extFile'[g] = NoFile /\ mailFile'[g] = NoFile
        BY <1>2, <1>t, <3>3 DEF TypeOK
      <4> QED
        BY <1>t, <3>1, <4>1, Counters DEF FiringInv, MailInv, Open
    <3> QED
      BY <3>2, <3>3
  <2> QED
    BY <2>1 DEF AlertInv, FiringInv, MailInv
<1> QED
  BY <1>1, <1>2 DEF NodeRecovered

\* The files are gone, and the restart pays for each of them.
LEMMA CrashKeepsAlertInv ==
  ASSUME TypeInv, AlertInv, Crash
  PROVE  AlertInv'
<1>t. TypeOK /\ UNCHANGED ext /\ restarts' = restarts + 1
  BY DEF TypeInv, Crash
<1>1. ASSUME NEW g \in File PROVE FiringInv(g)' /\ MailInv(g)'
  <2>1. FiringInv(g) /\ MailInv(g)
    BY AlertParts
  <2>2. extFile'[g] = NoFile /\ mailFile'[g] = NoFile
    BY DEF Crash
  <2> QED
    BY <1>t, <2>1, <2>2, Counters DEF FiringInv, MailInv, Open, ext
<1> QED
  BY <1>1 DEF AlertInv, FiringInv, MailInv

LEMMA NextAlert == TypeInv /\ AlertInv /\ [Next]_vars => AlertInv'
<1> SUFFICES ASSUME TypeInv, AlertInv, [Next]_vars PROVE AlertInv'
  OBVIOUS
<1>1. CASE \E n \in Node : NodeShared(n)
  BY <1>1, SharedKeepsAlertInv
<1>2. CASE \E n \in Node : NodeRecovered(n)
  BY <1>2, RecoveryKeepsAlertInv
<1>3. CASE Crash
  BY <1>3, CrashKeepsAlertInv
<1>4. CASE \E n \in Node : NodeAlone(n)
  BY <1>4, AlertFrame DEF NodeAlone, Take
<1>5. CASE Get \/ SecretMissing \/ NoClient \/ NothingToDo \/ StartScan
  BY <1>5, AlertFrame DEF Get, SecretMissing, NoClient, NothingToDo, StartScan
<1>6. CASE CheckMigrations \/ StartPlacementCheck \/ ListVmis \/ ListVmisFails
             \/ EndScan \/ Commit \/ CommitFails
  BY <1>6, AlertFrame DEF CheckMigrations, StartPlacementCheck, ListVmis, ListVmisFails,
     EndScan, Commit, CommitFails
<1>7. CASE WatchEvent \/ Elapse \/ (\E v \in Vmi : Migrate(v) \/ Delete(v))
             \/ (\E v \in Vmi, n \in Node : Land(v, n))
  BY <1>7, AlertFrame DEF WatchEvent, Elapse, Migrate, Delete, Land, Moves
<1>8. CASE UNCHANGED vars
  BY <1>8, AlertFrame DEF vars
<1> QED
  BY <1>1, <1>2, <1>3, <1>4, <1>5, <1>6, <1>7, <1>8
     DEF Next, Reconcile, Environment, ScanNode

LEMMA AlertInvHolds == Spec => [](TypeInv /\ AlertInv)
<1>1. Init => TypeInv /\ AlertInv
  BY InitType, InitAlert
<1>2. TypeInv /\ AlertInv /\ [Next]_vars => TypeInv' /\ AlertInv'
  BY NextType, NextAlert
<1> QED
  BY <1>1, <1>2, PTL DEF Spec

\* No alert storm on any node of any namespace: each accepted firing alert is paid for
\* by a recovery, a restart or a lost answer, but for the one that is open.
THEOREM NoAlertStorm == Spec => []FiringsAccounted
<1>1. TypeInv /\ AlertInv => FiringsAccounted
  <2> SUFFICES ASSUME TypeInv, AlertInv, NEW f \in File
               PROVE  fired[f] <= cleared[f] + lost[f] + restarts + 1
    BY DEF FiringsAccounted
  <2> QED
    BY Counters DEF TypeInv, AlertInv, Open
<1> QED
  BY <1>1, AlertInvHolds, PTL

\* An ext file names the last alert that was accepted for its namespace and node.
THEOREM SuppressionIsJustified == Spec => []SuppressionJustified
<1>1. AlertInv => SuppressionJustified
  BY DEF AlertInv, SuppressionJustified
<1> QED
  BY <1>1, AlertInvHolds, PTL

\* No mail storm: a mail is repeated only after a recovery or a restart, however many
\* scans find the violation and however many VMIs share the node.
THEOREM MailsAreAccounted == Spec => []MailsAccounted
<1>1. TypeInv /\ AlertInv => MailsAccounted
  <2> SUFFICES ASSUME TypeInv, AlertInv, NEW f \in File
               PROVE  mails[f] <= cleared[f] + restarts + 1
    BY DEF MailsAccounted
  <2> QED
    BY Counters DEF TypeInv, AlertInv, Open
<1> QED
  BY <1>1, AlertInvHolds, PTL
=============================================================================
