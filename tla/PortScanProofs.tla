--------------------------- MODULE PortScanProofs ---------------------------
(***************************************************************************)
(* Proofs about PortScan for every number of targets, every naming of the  *)
(* dedup files (names may collide), every set of specs and every bound.    *)
(***************************************************************************)
EXTENDS PortScan, TLAPS

(***************************************************************************)
(* Type correctness                                                        *)
(***************************************************************************)

LEMMA EmptyStatusType == EmptyStatus \in Status
  BY DEF EmptyStatus, Status

LEMMA NothingType == Nothing \in Object
  BY EmptyStatusType DEF Nothing, Object, Conf

LEMMA NewObjectType == ASSUME NEW c \in Confs PROVE NewObject(c) \in Object
  BY EmptyStatusType, ConstantsAssumption DEF NewObject, Object

LEMMA ReadyType ==
  ASSUME NEW st \in Status, NEW r \in {"Unknown", "True", "False"}
  PROVE  SetReadyCondition(st, r) \in Status
  BY DEF SetReadyCondition, Status

LEMMA InitTypeOK == Init => TypeOK
<1> SUFFICES ASSUME Init PROVE TypeOK
  OBVIOUS
<1>1. obj \in Object
  BY NewObjectType DEF Init
<1>2. obj \in Object /\ cache \in Object /\ mem \in Object
  BY <1>1, NothingType DEF Init
<1>3. /\ cacheFresh \in BOOLEAN /\ memFresh \in BOOLEAN
      /\ queue \in BOOLEAN /\ timer \in BOOLEAN
      /\ pc \in {"idle", "setup", "scan", "commit"}
      /\ verdict \in {"again", "done", "error", "panic"}
      /\ todo \in SUBSET Target /\ down \in BOOLEAN /\ answered \in SUBSET Target
     
  BY DEF Init
<1>4. /\ mailFile \in [File -> {NoFile, Sent}]
      /\ extFile \in [File -> Nat \cup {NoFile}]
      /\ up \in [Target -> BOOLEAN]
      /\ fired \in [File -> Nat] /\ cleared \in [File -> Nat] /\ lost \in [File -> Nat]
      /\ mailDebt \in [File -> Int]
      /\ restarts \in Nat
      /\ outages \in Nat /\ faults \in Nat /\ edits \in Nat
  BY DEF Init
<1> QED
  BY <1>2, <1>3, <1>4 DEF TypeOK

\* The end of a call of Reconcile keeps the types of what it resets.
LEMMA ExitType ==
  ASSUME Exit
  PROVE  /\ mem' \in Object /\ memFresh' \in BOOLEAN
         /\ pc' \in {"idle", "setup", "scan", "commit"}
         /\ verdict' \in {"again", "done", "error", "panic"}
         /\ todo' \in SUBSET Target /\ down' \in BOOLEAN /\ answered' \in SUBSET Target
  BY NothingType DEF Exit

LEMMA FailType == ASSUME TypeOK, NEW n \in Nat, Fail(n) PROVE faults' \in Nat
  BY DEF TypeOK, Fail

LEMMA SetupTypeOK ==
  ASSUME TypeOK,
         Get \/ SecretMissing \/ NilNotifyPanic \/ FirstSeen \/ Suspended
           \/ NoClient \/ StartScan
  PROVE  TypeOK'
<1>1. CASE Get
  BY <1>1 DEF Get, TypeOK, api, ext, files
<1>2. CASE SecretMissing
  BY <1>2, ExitType, FailType DEF SecretMissing, TypeOK, api, ext, files
<1>3. CASE NilNotifyPanic
  BY <1>3, ExitType DEF NilNotifyPanic, TypeOK, api, ext, files
<1>4. CASE FirstSeen
  <2>1. mem' \in Object
    BY <1>4, ReadyType DEF FirstSeen, TypeOK, Object
  <2> QED
    BY <1>4, <2>1 DEF FirstSeen, Return, TypeOK, api, wq, ext, files
<1>5. CASE Suspended
  BY <1>5 DEF Suspended, Return, TypeOK, api, wq, ext, files
<1>6. CASE NoClient
  BY <1>6, FailType DEF NoClient, Return, TypeOK, api, wq, ext, files
<1>7. CASE StartScan
  BY <1>7 DEF StartScan, Return, TypeOK, Object, Conf, api, wq, ext, files
<1> QED
  BY <1>1, <1>2, <1>3, <1>4, <1>5, <1>6, <1>7

LEMMA ProbeFrame ==
  ASSUME TypeOK, NEW t \in Target, Probe(t), FoundDown(t) \/ FoundUp(t)
  PROVE  /\ cache' \in Object /\ obj' \in Object
         /\ cacheFresh' \in BOOLEAN /\ memFresh' \in BOOLEAN
         /\ queue' \in BOOLEAN /\ timer' \in BOOLEAN
         /\ pc' \in {"idle", "setup", "scan", "commit"}
         /\ verdict' \in {"again", "done", "error", "panic"}
         /\ todo' \in SUBSET Target /\ down' \in BOOLEAN /\ answered' \in SUBSET Target
         /\ up' \in [Target -> BOOLEAN]
         /\ restarts' \in Nat
         /\ outages' \in Nat /\ edits' \in Nat
<1>1. UNCHANGED <<api, wq, pc, memFresh, verdict, up, restarts, outages, edits>>
  BY DEF Probe
<1>2. todo' \in SUBSET Target /\ down' \in BOOLEAN /\ answered' \in SUBSET Target
  BY DEF Probe, FoundDown, FoundUp, TypeOK
<1> QED
  BY <1>1, <1>2 DEF TypeOK, api, wq

\* What the alert functions leave in the files and counters.
LEMMA PostFiringType ==
  ASSUME TypeOK, NEW f \in File, NEW outcome \in {"ok", "failed", "lost"},
         NotifyExternalSystem(f, outcome) \/ SubNotifyFiring(f, outcome)
  PROVE  /\ extFile' \in [File -> Nat \cup {NoFile}]
         /\ fired' \in [File -> Nat] /\ lost' \in [File -> Nat]
  BY DEF NotifyExternalSystem, SubNotifyFiring, PostFiring, TypeOK

LEMMA MailType ==
  ASSUME TypeOK, NEW f \in File, NEW m \in BOOLEAN,
         \/ SendEmailAlert(f) \/ SendEmailRecoveredAlert(f, m)
         \/ UNCHANGED <<mailFile, mailDebt>>
  PROVE  mailFile' \in [File -> {NoFile, Sent}] /\ mailDebt' \in [File -> Int]
  BY DEF SendEmailAlert, SendEmailRecoveredAlert, TypeOK

LEMMA RaiseAlertTypeOK ==
  ASSUME TypeOK, NEW t \in Target, Probe(t), FoundDown(t), RaiseAlert(t)
  PROVE  TypeOK'
<1> DEFINE f == FileOf[t]
<1>f. f \in File
  BY ConstantsAssumption
<1>1. mailFile' \in [File -> {NoFile, Sent}] /\ mailDebt' \in [File -> Int]
  <2>1. SendEmailAlert(f) \/ UNCHANGED <<mailFile, mailDebt>>
    BY DEF RaiseAlert
  <2> QED
    BY <2>1, <1>f, MailType
<1>2. cleared' \in [File -> Nat]
  BY DEF RaiseAlert, TypeOK
<1>3. /\ extFile' \in [File -> Nat \cup {NoFile}] /\ mem' \in Object
      /\ fired' \in [File -> Nat] /\ lost' \in [File -> Nat] /\ faults' \in Nat
  <2>1. CASE mem.conf.notify = "yes"
    <3>1. PICK outcome \in {"ok", "failed", "lost"}, found \in BOOLEAN :
            /\ NotifyExternalSystem(f, outcome) \/ SubNotifyFiring(f, outcome)
            /\ Fail(Failures(outcome))
            /\ mem' = [mem EXCEPT
                 !.st.affected = @ \cup {t},
                 !.st.notified = TRUE,
                 !.st.incidents = @ \cup SetIncidentID(f, extFile'[f], found)]
      BY <2>1 DEF RaiseAlert
    <3>2. /\ extFile' \in [File -> Nat \cup {NoFile}]
          /\ fired' \in [File -> Nat] /\ lost' \in [File -> Nat]
      BY <3>1, <1>f, PostFiringType
    <3>3. Failures(outcome) \in Nat
      BY DEF Failures
    <3>4. faults' \in Nat
      BY <3>1, <3>3, FailType
    <3>5. SetIncidentID(f, extFile'[f], found) \in SUBSET ((File \X Nat) \cup {Stray})
      BY <3>2, <1>f DEF SetIncidentID
    <3>6. mem' \in Object
      BY <3>1, <3>5 DEF TypeOK, Object, Status
    <3> QED
      BY <3>2, <3>4, <3>6
  <2>2. CASE mem.conf.notify # "yes"
    <3>1. /\ mem' = [mem EXCEPT !.st.affected = @ \cup {t}]
          /\ UNCHANGED <<extFile, fired, lost, faults>>
      BY <2>2 DEF RaiseAlert
    <3>2. mem' \in Object
      BY <3>1 DEF TypeOK, Object, Status
    <3> QED
      BY <3>1, <3>2 DEF TypeOK
  <2> QED
    BY <2>1, <2>2
<1> QED
  BY <1>1, <1>2, <1>3, ProbeFrame DEF TypeOK

LEMMA RecoveredTypeOK ==
  ASSUME TypeOK, NEW t \in Target, TargetRecovered(t)
  PROVE  TypeOK'
<1> DEFINE f == FileOf[t]
<1>f. f \in File
  BY ConstantsAssumption
<1>1. PICK mailed \in BOOLEAN, found \in BOOLEAN :
        /\ SendEmailRecoveredAlert(f, mailed)
        /\ \/ mem' = [mem EXCEPT
                !.st.affected = @ \ {t},
                !.st.incidents = @ \ SetIncidentID(f, extFile[f], found)]
           \/ mem' = [mem EXCEPT !.st.affected = @ \ {t}]
        /\ Fail(IF mem.conf.email /\ ~mailed THEN 1 ELSE 0)
  BY DEF TargetRecovered
<1>2. mailFile' \in [File -> {NoFile, Sent}] /\ mailDebt' \in [File -> Int]
  BY <1>1, <1>f, MailType
<1>3. mem' \in Object
  <2>1. mem \in Object
    BY DEF TypeOK
  <2>2. CASE mem' = [mem EXCEPT !.st.affected = @ \ {t}]
    BY <2>1, <2>2 DEF Object, Status
  <2>3. CASE mem' = [mem EXCEPT
                 !.st.affected = @ \ {t},
                 !.st.incidents = @ \ SetIncidentID(f, extFile[f], found)]
    <3> DEFINE gone == SetIncidentID(f, extFile[f], found)
    <3>1. mem.st.incidents \ gone \in SUBSET ((File \X Nat) \cup {Stray})
      BY <2>1 DEF Object, Status
    <3> HIDE DEF gone
    <3> QED
      BY <2>1, <2>3, <3>1 DEF Object, Status, gone
  <2> QED
    BY <1>1, <2>2, <2>3
<1>4. faults' \in Nat
  <2>1. (IF mem.conf.email /\ ~mailed THEN 1 ELSE 0) \in Nat
    OBVIOUS
  <2> QED
    BY <1>1, <2>1, FailType
<1>5. /\ extFile' \in [File -> Nat \cup {NoFile}] /\ cleared' \in [File -> Nat]
      /\ fired' \in [File -> Nat] /\ lost' \in [File -> Nat]
  BY <1>f DEF TargetRecovered, TypeOK
<1> QED
  BY <1>2, <1>3, <1>4, <1>5, ProbeFrame DEF TargetRecovered, TypeOK

LEMMA ScanTypeOK ==
  ASSUME TypeOK, NEW t \in Target, ScanTarget(t)
  PROVE  TypeOK'
<1>1. CASE TargetDownFirstScan(t)
  BY <1>1, RaiseAlertTypeOK DEF TargetDownFirstScan
<1>2. CASE TargetDownLaterScan(t)
  BY <1>2, RaiseAlertTypeOK DEF TargetDownLaterScan
<1>3. CASE TargetStillDown(t)
  BY <1>3, ProbeFrame DEF TargetStillDown, TypeOK, files, ext
<1>4. CASE TargetRecovered(t)
  BY <1>4, RecoveredTypeOK
<1>5. CASE TargetUpNoMailFile(t)
  <2>1. mem' \in Object
    BY <1>5 DEF TargetUpNoMailFile, TypeOK, Object, Status
  <2> QED
    BY <1>5, <2>1, ProbeFrame DEF TargetUpNoMailFile, TypeOK, files, ext
<1>6. CASE TargetStillUp(t)
  BY <1>6, ProbeFrame DEF TargetStillUp, TypeOK, files, ext
<1>7. CASE MalformedTarget(t)
  <2>1. mem' \in Object
    BY <1>7, ReadyType DEF MalformedTarget, TypeOK, Object
  <2>2. UNCHANGED <<api, wq, memFresh, down, answered, files, up, ext, restarts,
                    outages, faults, edits>>
    BY <1>7 DEF MalformedTarget
  <2>3. /\ pc' = "commit" /\ verdict' = "panic" /\ todo' = {}
    BY <1>7 DEF MalformedTarget, Return
  <2> QED
    BY <2>1, <2>2, <2>3 DEF TypeOK, api, wq, files, ext
<1> QED
  BY <1>1, <1>2, <1>3, <1>4, <1>5, <1>6, <1>7 DEF ScanTarget

LEMMA CommitTypeOK ==
  ASSUME TypeOK, EndScan \/ Commit \/ CommitFails
  PROVE  TypeOK'
<1>1. CASE EndScan
  <2>1. mem' \in Object
    BY <1>1, ReadyType DEF EndScan, TypeOK, Object, Status
  <2> QED
    BY <1>1, <2>1 DEF EndScan, Return, TypeOK, api, wq, files, ext
<1>2. CASE Commit
  <2>1. Reported \in Status
    BY ReadyType DEF Reported, TypeOK, Object
  <2>2. obj' \in Object
    BY <1>2, <2>1 DEF Commit, TypeOK, Object
  <2>3. cacheFresh' \in BOOLEAN /\ timer' \in BOOLEAN
    BY <1>2 DEF Commit
  <2> QED
    BY <1>2, <2>2, <2>3, ExitType DEF Commit, TypeOK, files, ext
<1>3. CASE CommitFails
  <2>1. faults' \in Nat
    BY <1>3, FailType DEF CommitFails, TypeOK
  <2> QED
    BY <1>3, <2>1, ExitType DEF CommitFails, TypeOK, api, files, ext
<1> QED
  BY <1>1, <1>2, <1>3

LEMMA AgedType == ASSUME NEW o \in Object PROVE Aged(o) \in Object
  BY DEF Aged, Object, Status

LEMMA EnvironmentTypeOK ==
  ASSUME TypeOK, Environment
  PROVE  TypeOK'
<1>1. CASE TimerFires
  BY <1>1 DEF TimerFires, TypeOK, api, worker, files, ext
<1>2. CASE WatchEvent
  BY <1>2 DEF WatchEvent, TypeOK, worker, files, ext
<1>3. CASE Elapse
  BY <1>3, AgedType DEF Elapse, TypeOK, wq, files, ext
<1>4. ASSUME NEW t \in Target, ReachabilityChanges(t)
      PROVE  TypeOK'
  BY <1>4 DEF ReachabilityChanges, TypeOK, api, wq, worker, files, ext
<1>5. ASSUME NEW o \in Object, UserWrites(o)
      PROVE  TypeOK'
  <2>1. obj' \in Object /\ edits' \in Nat
    BY <1>5 DEF UserWrites, TypeOK
  <2>2. cacheFresh' \in BOOLEAN /\ memFresh' \in BOOLEAN
    BY <1>5 DEF UserWrites
  <2>3. UNCHANGED <<cache, wq, pc, mem, todo, down, verdict, answered, files, up, ext,
                    restarts, outages, faults>>
    BY <1>5 DEF UserWrites
  <2> QED
    BY <2>1, <2>2, <2>3 DEF TypeOK, wq, files, ext
<1>6. ASSUME NEW c \in Confs, Edit(c) \/ Create(c)
      PROVE  TypeOK'
  <2>1. [obj EXCEPT !.conf = c] \in Object
    BY ConstantsAssumption DEF TypeOK, Object
  <2> QED
    BY <1>5, <1>6, <2>1, NewObjectType DEF Edit, Create
<1>7. CASE Delete
  <2>1. [obj EXCEPT !.exists = FALSE] \in Object
    BY DEF TypeOK, Object
  <2> QED
    BY <1>5, <1>7, <2>1 DEF Delete
<1>8. CASE Crash
  <2>1. /\ faults' \in Nat /\ restarts' \in Nat
    BY <1>8, FailType DEF Crash, TypeOK
  <2>2. obj.exists \in BOOLEAN
    BY DEF TypeOK, Object
  <2>3. /\ obj' \in Object /\ cache' \in Object
        /\ cacheFresh' \in BOOLEAN /\ queue' \in BOOLEAN /\ timer' \in BOOLEAN
    BY <1>8, <2>2 DEF Crash, TypeOK
  <2>4. /\ mailFile' \in [File -> {NoFile, Sent}]
        /\ extFile' \in [File -> Nat \cup {NoFile}]
    BY <1>8 DEF Crash
  <2> QED
    BY <1>8, <2>1, <2>3, <2>4, ExitType DEF Crash, TypeOK, ext
<1> QED
  BY <1>1, <1>2, <1>3, <1>4, <1>6, <1>7, <1>8 DEF Environment

LEMMA NextTypeOK == TypeOK /\ [Next]_vars => TypeOK'
<1> SUFFICES ASSUME TypeOK, [Next]_vars PROVE TypeOK'
  OBVIOUS
<1>1. CASE Reconcile
  BY <1>1, SetupTypeOK, ScanTypeOK, CommitTypeOK DEF Reconcile
<1>2. CASE Environment
  BY <1>2, EnvironmentTypeOK
<1>3. CASE UNCHANGED vars
  BY <1>3 DEF vars, TypeOK, api, wq, worker, files, ext
<1> QED
  BY <1>1, <1>2, <1>3 DEF Next

\* Every reachable state is well typed: the status only lists targets, every recorded
\* incident belongs to a numbered alert, and a dedup file never holds anything but
\* what its kind of file may hold.
THEOREM TypeCorrect == Spec => []TypeOK
  BY InitTypeOK, NextTypeOK, PTL DEF Spec

(***************************************************************************)
(* The alert channels                                                      *)
(***************************************************************************)

LEMMA InitAlert == Init => AlertInv
  BY DEF Init, AlertInv, Open

\* A step that touches neither a file nor what the counters count changes nothing.
LEMMA AlertFrame ==
  ASSUME AlertInv, UNCHANGED <<files, ext, restarts>>
  PROVE  AlertInv'
  BY DEF AlertInv, Open, files, ext

\* The part of AlertInv that speaks of the external system, and that of the mails.
FiringInv(f) ==
  /\ fired[f] <= cleared[f] + lost[f] + restarts + Open(extFile, f)
  /\ extFile[f] # NoFile => fired[f] > 0 /\ extFile[f] = fired[f]

MailInv(f) == mailDebt[f] <= restarts + Open(mailFile, f)

\* Posting an alert keeps the books: the n-th alert opens file n, or is lost.
LEMMA PostKeepsFiringInv ==
  ASSUME TypeOK, NEW f \in File, NEW outcome \in {"ok", "failed", "lost"},
         NotifyExternalSystem(f, outcome) \/ SubNotifyFiring(f, outcome),
         UNCHANGED <<cleared, restarts>>,
         NEW g \in File, FiringInv(g)
  PROVE  FiringInv(g)'
<1> USE DEF FiringInv, Open
<1>1. CASE UNCHANGED <<extFile, fired, lost>>
  BY <1>1
<1>2. CASE extFile[f] = NoFile /\ PostFiring(f, outcome)
  <2>1. CASE g # f
    BY <1>2, <2>1 DEF PostFiring, TypeOK
  <2>2. CASE g = f
    <3>0. /\ fired[f] \in Nat /\ cleared[f] \in Nat /\ lost[f] \in Nat /\ restarts \in Nat
          /\ NoFile \notin Nat
      BY ConstantsAssumption DEF TypeOK
    <3>1. CASE outcome = "failed"
      BY <1>2, <2>2, <3>1 DEF PostFiring, TypeOK
    <3>2. CASE outcome = "lost"
      <4>1. fired'[f] = fired[f] + 1 /\ lost'[f] = lost[f] + 1 /\ extFile'[f] = NoFile
        BY <1>2, <3>2 DEF PostFiring, TypeOK
      <4> QED
        BY <1>2, <2>2, <3>0, <4>1
    <3>3. CASE outcome = "ok"
      <4>1. /\ fired'[f] = fired[f] + 1 /\ lost'[f] = lost[f]
            /\ extFile'[f] = fired[f] + 1
        BY <1>2, <3>3 DEF PostFiring, TypeOK
      <4> QED
        BY <1>2, <2>2, <3>0, <4>1
    <3> QED
      BY <3>1, <3>2, <3>3
  <2> QED
    BY <2>1, <2>2
<1> QED
  BY <1>1, <1>2 DEF NotifyExternalSystem, SubNotifyFiring

LEMMA MailKeepsMailInv ==
  ASSUME TypeOK, NEW f \in File, NEW m \in BOOLEAN,
         \/ SendEmailAlert(f) \/ SendEmailRecoveredAlert(f, m)
         \/ UNCHANGED <<mailFile, mailDebt>>,
         UNCHANGED restarts,
         NEW g \in File, MailInv(g)
  PROVE  MailInv(g)'
<1> USE DEF MailInv, Open
<1>0. /\ mailDebt[f] \in Int /\ mailDebt[g] \in Int /\ restarts \in Nat
      /\ NoFile # Sent /\ mailFile \in [File -> {NoFile, Sent}]
      /\ mailDebt \in [File -> Int]
  BY ConstantsAssumption DEF TypeOK
<1>1. CASE UNCHANGED <<mailFile, mailDebt>>
  BY <1>1
<1>2. CASE SendEmailAlert(f)
  BY <1>0, <1>2 DEF SendEmailAlert
<1>3. CASE SendEmailRecoveredAlert(f, m)
  BY <1>0, <1>3 DEF SendEmailRecoveredAlert
<1> QED
  BY <1>1, <1>2, <1>3

LEMMA RaiseAlertKeepsAlertInv ==
  ASSUME TypeOK, AlertInv, NEW t \in Target, Probe(t), RaiseAlert(t)
  PROVE  AlertInv'
<1> DEFINE f == FileOf[t]
<1>f. f \in File
  BY ConstantsAssumption
<1>r. UNCHANGED <<restarts, cleared>>
  BY DEF Probe, RaiseAlert
<1>1. ASSUME NEW g \in File PROVE FiringInv(g)'
  <2>0. FiringInv(g)
    BY DEF AlertInv, FiringInv
  <2>1. CASE mem.conf.notify = "yes"
    <3>1. PICK outcome \in {"ok", "failed", "lost"} :
            NotifyExternalSystem(f, outcome) \/ SubNotifyFiring(f, outcome)
      BY <2>1 DEF RaiseAlert
    <3> QED
      BY <1>f, <1>r, <2>0, <3>1, PostKeepsFiringInv
  <2>2. CASE mem.conf.notify # "yes"
    BY <1>r, <2>0, <2>2 DEF RaiseAlert, FiringInv, Open
  <2> QED
    BY <2>1, <2>2
<1>2. ASSUME NEW g \in File PROVE MailInv(g)'
  <2>0. MailInv(g)
    BY DEF AlertInv, MailInv
  <2>1. SendEmailAlert(f) \/ UNCHANGED <<mailFile, mailDebt>>
    BY DEF RaiseAlert
  <2> QED
    BY <1>f, <1>r, <2>0, <2>1, MailKeepsMailInv
<1> QED
  BY <1>1, <1>2, <1>r DEF AlertInv, FiringInv, MailInv

LEMMA RecoveryKeepsAlertInv ==
  ASSUME TypeOK, AlertInv, NEW t \in Target, TargetRecovered(t)
  PROVE  AlertInv'
<1> DEFINE f == FileOf[t]
<1>f. f \in File
  BY ConstantsAssumption
<1>r. /\ UNCHANGED <<restarts, fired, lost>>
      /\ extFile' = [extFile EXCEPT ![f] = NoFile]
      /\ cleared' = IF extFile[f] = NoFile THEN cleared
                                           ELSE [cleared EXCEPT ![f] = @ + 1]
  BY DEF TargetRecovered, Probe
<1>m. PICK mailed \in BOOLEAN : SendEmailRecoveredAlert(f, mailed)
  BY DEF TargetRecovered
<1>1. ASSUME NEW g \in File PROVE FiringInv(g)'
  <2>0. /\ FiringInv(g)
        /\ fired[g] \in Nat /\ cleared[g] \in Nat /\ lost[g] \in Nat /\ restarts \in Nat
        /\ extFile \in [File -> Nat \cup {NoFile}] /\ cleared \in [File -> Nat]
    BY DEF AlertInv, FiringInv, TypeOK
  <2>1. CASE g = f /\ extFile[f] # NoFile
    <3>1. extFile'[g] = NoFile /\ cleared'[g] = cleared[g] + 1
      BY <1>f, <1>r, <2>0, <2>1
    <3> QED
      BY <1>r, <2>0, <2>1, <3>1 DEF FiringInv, Open
  <2>2. CASE ~(g = f /\ extFile[f] # NoFile)
    <3>1. extFile'[g] = extFile[g] /\ cleared'[g] = cleared[g]
      BY <1>f, <1>r, <2>0, <2>2
    <3> QED
      BY <1>r, <2>0, <3>1 DEF FiringInv, Open
  <2> QED
    BY <2>1, <2>2
<1>2. ASSUME NEW g \in File PROVE MailInv(g)'
  <2>0. MailInv(g)
    BY DEF AlertInv, MailInv
  <2> QED
    BY <1>f, <1>r, <1>m, <2>0, MailKeepsMailInv
<1> QED
  BY <1>1, <1>2 DEF AlertInv, FiringInv, MailInv

\* A restart takes every file away and is counted once.
LEMMA CrashKeepsAlertInv ==
  ASSUME TypeOK, AlertInv, Crash
  PROVE  AlertInv'
<1>1. /\ UNCHANGED ext /\ restarts' = restarts + 1
      /\ mailFile' = [g \in File |-> NoFile] /\ extFile' = [g \in File |-> NoFile]
  BY DEF Crash
<1>2. ASSUME NEW g \in File
      PROVE  /\ fired'[g] <= cleared'[g] + lost'[g] + restarts' + Open(extFile, g)'
             /\ extFile'[g] = NoFile
             /\ mailDebt'[g] <= restarts' + Open(mailFile, g)'
  <2>1. /\ fired[g] \in Nat /\ cleared[g] \in Nat /\ lost[g] \in Nat
        /\ restarts \in Nat /\ mailDebt[g] \in Int
    BY DEF TypeOK
  <2>2. fired[g] <= cleared[g] + lost[g] + restarts + 1 /\ mailDebt[g] <= restarts + 1
    BY <2>1 DEF AlertInv, Open
  <2> QED
    BY <1>1, <2>1, <2>2 DEF Open, ext
<1> QED
  BY <1>1, <1>2 DEF AlertInv, ext

LEMMA NextAlert == TypeOK /\ AlertInv /\ [Next]_vars => AlertInv'
<1> SUFFICES ASSUME TypeOK, AlertInv, [Next]_vars PROVE AlertInv'
  OBVIOUS
<1>1. CASE \E t \in Target : TargetDownFirstScan(t) \/ TargetDownLaterScan(t)
  BY <1>1, RaiseAlertKeepsAlertInv DEF TargetDownFirstScan, TargetDownLaterScan
<1>2. CASE \E t \in Target : TargetRecovered(t)
  BY <1>2, RecoveryKeepsAlertInv
<1>3. CASE Crash
  BY <1>3, CrashKeepsAlertInv
<1>4. CASE \E t \in Target : \/ TargetStillDown(t) \/ TargetUpNoMailFile(t)
                             \/ TargetStillUp(t) \/ MalformedTarget(t)
  BY <1>4, AlertFrame DEF TargetStillDown, TargetUpNoMailFile, TargetStillUp,
     MalformedTarget, Probe
<1>5. CASE Get \/ SecretMissing \/ NilNotifyPanic \/ FirstSeen \/ Suspended \/ NoClient
             \/ StartScan \/ EndScan \/ Commit \/ CommitFails
  BY <1>5, AlertFrame DEF Get, SecretMissing, NilNotifyPanic, FirstSeen, Suspended,
     NoClient, StartScan, EndScan, Commit, CommitFails
<1>6. CASE TimerFires \/ WatchEvent \/ Elapse \/ Delete
             \/ (\E t \in Target : ReachabilityChanges(t))
             \/ (\E c \in Confs : Edit(c) \/ Create(c))
  BY <1>6, AlertFrame DEF TimerFires, WatchEvent, Elapse, Delete, ReachabilityChanges,
     Edit, Create, UserWrites
<1>7. CASE UNCHANGED vars
  BY <1>7, AlertFrame DEF vars
<1> QED
  BY <1>1, <1>2, <1>3, <1>4, <1>5, <1>6, <1>7
     DEF Next, Reconcile, Environment, ScanTarget

LEMMA AlertInvHolds == Spec => [](TypeOK /\ AlertInv)
<1>1. Init => TypeOK /\ AlertInv
  BY InitTypeOK, InitAlert
<1>2. TypeOK /\ AlertInv /\ [Next]_vars => TypeOK' /\ AlertInv'
  BY NextTypeOK, NextAlert
<1> QED
  BY <1>1, <1>2, PTL DEF Spec

\* No alert storm, for any number of targets, even when their dedup files collide:
\* each accepted firing alert is paid for by a recovery, a restart or a lost answer.
THEOREM NoAlertStorm == Spec => []FiringsAccounted
<1>1. TypeOK /\ AlertInv => FiringsAccounted
  <2> SUFFICES ASSUME TypeOK, AlertInv, NEW f \in File
               PROVE  fired[f] <= cleared[f] + lost[f] + restarts + 1
    BY DEF FiringsAccounted
  <2>1. /\ fired[f] \in Nat /\ cleared[f] \in Nat /\ lost[f] \in Nat /\ restarts \in Nat
    BY DEF TypeOK
  <2> QED
    BY <2>1 DEF AlertInv, Open
<1> QED
  BY <1>1, AlertInvHolds, PTL

\* A dedup file always names the last alert the external system accepted under it.
THEOREM SuppressionIsJustified == Spec => []SuppressionJustified
<1>1. AlertInv => SuppressionJustified
  BY DEF AlertInv, SuppressionJustified
<1> QED
  BY <1>1, AlertInvHolds, PTL

\* Alert mails and recovered mails alternate, up to one more for each restart.
THEOREM MailsAlternate == Spec => []MailsAccounted
<1>1. TypeOK /\ AlertInv => MailsAccounted
  <2> SUFFICES ASSUME TypeOK, AlertInv, NEW f \in File
               PROVE  mailDebt[f] <= restarts + 1
    BY DEF MailsAccounted
  <2>1. mailDebt[f] \in Int /\ restarts \in Nat
    BY DEF TypeOK
  <2> QED
    BY <2>1 DEF AlertInv, Open
<1> QED
  BY <1>1, AlertInvHolds, PTL
=============================================================================
