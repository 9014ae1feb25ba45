------------------------------ MODULE PortScan ------------------------------
(***************************************************************************)
(* The PortScan reconciler: one PortScan resource, the API server object   *)
(* and the informer cache the reconciler reads it from, the work queue     *)
(* that schedules Reconcile, the dedup files Reconcile leaves in the       *)
(* container, the mails and the alerts it sends, and the user and the      *)
(* network around it.                                                      *)
(*                                                                         *)
(* Reconcile is split where the rest of the system can move between two    *)
(* of its steps: the read of the object, the checks up to the scan, the    *)
(* handling of one target, the end of the scan and the deferred status     *)
(* update.  The files and the copy of the object are private to the one    *)
(* worker of the controller, so the steps inside the handling of a target  *)
(* need no interleaving of their own; a crash among them is the outcome of *)
(* a failed or unanswered call followed by Crash.                          *)
(***************************************************************************)
EXTENDS Integers, FiniteSets

CONSTANTS
  N,            \* number of entries of spec.target, scanned in the order 1..N
  File,         \* names of dedup files
  FileOf,       \* the name HandleCNString(host)-port gives each target
  Malformed,    \* the targets written without a port
  Confs,        \* the specs a user may write
  MaxOutages,   \* bound: changes of reachability
  MaxFaults,    \* bound: failed calls and crashes
  MaxEdits,     \* bound: user edits, deletions and creations
  NoFile,       \* the file does not exist
  Sent,         \* the content "sent"
  Stray         \* the ticket that may answer a query without a fingerprint

Target == 1..N

Conf == [targets : SUBSET Target,              \* spec.target
         email   : BOOLEAN,                    \* suspendEmail present and false
         notify  : {"unset", "no", "yes"},     \* notifyExternal
         suspend : BOOLEAN]

ASSUME ConstantsAssumption ==
  /\ N \in Nat
  /\ FileOf \in [Target -> File]
  /\ Malformed \subseteq Target
  /\ Confs \subseteq Conf
  /\ MaxOutages \in Nat /\ MaxFaults \in Nat /\ MaxEdits \in Nat
  /\ NoFile \notin Nat /\ Sent \notin Nat /\ NoFile # Sent

VARIABLES
  \* the API server and the watch
  obj,          \* the stored resource
  cache,        \* the informer's copy
  cacheFresh,   \* the informer has seen the latest version
  \* the work queue of the controller
  queue,        \* the key is queued (or marked dirty while it is processed)
  timer,        \* a delayed add is pending (RequeueAfter or rate limited)
  \* the worker
  pc,
  mem,          \* the copy Reconcile works on
  memFresh,     \* it is the latest version of the stored resource
  todo,         \* targets not yet probed
  down,         \* errorp is not empty
  verdict,      \* how Reconcile returns
  \* the container's file system, one mail and one ext file per name
  mailFile, extFile,
  \* the network
  up,
  \* observation
  answered,     \* targets that answered in this reconcile
  fired,        \* firing alerts the external system accepted, per file name;
                \* the n-th one carries fingerprint n
  cleared,      \* ext files removed by a recovery
  lost,         \* accepted alerts whose answer never came
  mailDebt,     \* alert mails minus recovered mails
  restarts,
  outages, faults, edits

api      == <<obj, cache, cacheFresh>>
wq       == <<queue, timer>>
worker   == <<pc, mem, memFresh, todo, down, verdict, answered>>
files    == <<mailFile, extFile>>
ext      == <<fired, cleared, lost, mailDebt>>
vars     == <<api, wq, worker, files, up, ext, restarts,
              outages, faults, edits>>

-----------------------------------------------------------------------------
(* The resource *)

EmptyStatus == [ready |-> "none", poll |-> "never", affected |-> {},
                notified |-> FALSE, incidents |-> {}]

NewObject(c) == [exists |-> TRUE, conf |-> c, st |-> EmptyStatus]

\* What the worker holds between two calls of Reconcile.
Nothing == [exists |-> FALSE,
            conf |-> [targets |-> {}, email |-> FALSE, notify |-> "no", suspend |-> FALSE],
            st |-> EmptyStatus]

\* SetReadyCondition; the reason, message and transition time are left out.
SetReadyCondition(st, status) == [st EXCEPT !.ready = status]

\* (mutant) only the first scan is ever due
ScanDueOnce(st) == st.poll = "never"

\* LastPollTime is nil, or older than the check interval.
ScanDue(st) == st.poll # "recent"

FirstScan == mem.st.poll = "never"

Init ==
  /\ \E c \in Confs : obj = NewObject(c)
  /\ cache = obj /\ cacheFresh = TRUE
  /\ queue = TRUE /\ timer = FALSE
  /\ pc = "idle" /\ mem = Nothing /\ memFresh = FALSE
  /\ todo = {} /\ down = FALSE /\ verdict = "again"
  /\ mailFile = [f \in File |-> NoFile] /\ extFile = [f \in File |-> NoFile]
  /\ up \in [Target -> BOOLEAN] /\ \A t \in Malformed : ~up[t]
  /\ answered = {}
  /\ fired = [f \in File |-> 0] /\ cleared = [f \in File |-> 0]
  /\ lost = [f \in File |-> 0] /\ mailDebt = [f \in File |-> 0]
  /\ restarts = 0
  /\ outages = 0 /\ faults = 0 /\ edits = 0

\* n calls of this step fail, within the bound.
Fail(n) == faults + n <= MaxFaults /\ faults' = faults + n

-----------------------------------------------------------------------------
(* Reconcile up to the scan *)

Return(v) == pc' = "commit" /\ verdict' = v

\* The call of Reconcile is over and its variables are gone.
Exit ==
  /\ pc' = "idle" /\ mem' = Nothing /\ memFresh' = FALSE
  /\ todo' = {} /\ down' = FALSE /\ verdict' = "again" /\ answered' = {}

\* The worker takes the key and reads the object from the informer cache.
Get ==
  /\ pc = "idle" /\ queue
  /\ queue' = FALSE
  /\ IF cache.exists
       THEN /\ pc' = "setup" /\ mem' = cache /\ memFresh' = cacheFresh
       ELSE UNCHANGED <<pc, mem, memFresh>>   \* not found: ignored
  /\ UNCHANGED <<api, timer, todo, down, verdict, answered, files, up, ext,
                 restarts, outages, faults, edits>>

\* The secret or the config map cannot be read.  Reconcile returns before the
\* deferred update is registered, and the key is retried.
SecretMissing ==
  /\ pc = "setup" /\ mem.conf.notify = "yes"
  /\ Fail(1)
  /\ Exit /\ timer' = TRUE
  /\ UNCHANGED <<api, queue, files, up, ext, restarts, outages, edits>>

\* *NotifyExtenal is dereferenced without a check; the panic is recovered by the
\* controller, which retries the key.
NilNotifyPanic ==
  /\ pc = "setup" /\ mem.conf.notify = "unset"
  /\ Exit /\ timer' = TRUE
  /\ UNCHANGED <<api, queue, files, up, ext, restarts, outages, faults, edits>>

SetUp == pc = "setup" /\ mem.conf.notify # "unset"

FirstSeen ==
  /\ SetUp /\ mem.st.ready = "none"
  /\ mem' = [mem EXCEPT !.st = SetReadyCondition(@, "Unknown")]
  /\ Return("done")
  /\ UNCHANGED <<api, wq, memFresh, todo, down, answered, files, up, ext,
                 restarts, outages, faults, edits>>

Suspended ==
  /\ SetUp /\ mem.st.ready # "none" /\ mem.conf.suspend
  /\ Return("again")
  /\ UNCHANGED <<api, wq, mem, memFresh, todo, down, answered, files, up, ext,
                 restarts, outages, faults, edits>>

\* No in-cluster configuration or client: an error like that of a failed scan.
NoClient ==
  /\ SetUp /\ mem.st.ready # "none" /\ ~mem.conf.suspend
  /\ Fail(1)
  /\ Return("error")
  /\ UNCHANGED <<api, wq, mem, memFresh, todo, down, answered, files, up, ext,
                 restarts, outages, edits>>

\* The first scan starts at once, a later one when the interval has passed.
StartScan ==
  /\ SetUp /\ mem.st.ready # "none" /\ ~mem.conf.suspend
  /\ IF ScanDue(mem.st)
       THEN /\ pc' = "scan" /\ todo' = mem.conf.targets /\ UNCHANGED verdict
       ELSE /\ Return("again") /\ UNCHANGED todo
  /\ UNCHANGED <<api, wq, mem, memFresh, down, answered, files, up, ext,
                 restarts, outages, faults, edits>>

-----------------------------------------------------------------------------
(* Alert channels (portutil) *)

\* (mutant) the mail file is not looked at
SendEmailAlways(f) ==
  /\ mailFile' = [mailFile EXCEPT ![f] = Sent]
  /\ mailDebt' = [mailDebt EXCEPT ![f] = @ + 1]

\* SendEmailAlert: the file is written before the mail is sent, so a mail that
\* fails is not tried again.  Nothing but "sent" is ever written to a mail file.
SendEmailAlert(f) ==
  IF mailFile[f] = NoFile
    THEN /\ mailFile' = [mailFile EXCEPT ![f] = Sent]
         /\ mailDebt' = [mailDebt EXCEPT ![f] = @ + 1]
    ELSE UNCHANGED <<mailFile, mailDebt>>

\* SendEmailRecoveredAlert: the file goes only when the mail was sent.
SendEmailRecoveredAlert(f, mailed) ==
  IF mailFile[f] = Sent /\ mailed
    THEN /\ mailFile' = [mailFile EXCEPT ![f] = NoFile]
         /\ mailDebt' = [mailDebt EXCEPT ![f] = @ - 1]
    ELSE UNCHANGED <<mailFile, mailDebt>>

\* (mutant) the fingerprint is written before the POST
PostAfterWrite(f, outcome) ==
  /\ fired' = IF outcome = "failed" THEN fired ELSE [fired EXCEPT ![f] = @ + 1]
  /\ lost' = IF outcome = "lost" THEN [lost EXCEPT ![f] = @ + 1] ELSE lost
  /\ extFile' = [extFile EXCEPT ![f] = fired[f] + 1]

\* (mutant) the content of a mail file is written to the ext file
PostFiringWritesSent(f, outcome) ==
  /\ fired' = IF outcome = "failed" THEN fired ELSE [fired EXCEPT ![f] = @ + 1]
  /\ lost' = IF outcome = "lost" THEN [lost EXCEPT ![f] = @ + 1] ELSE lost
  /\ extFile' = IF outcome = "ok" THEN [extFile EXCEPT ![f] = Sent] ELSE extFile

\* The POST of a firing alert under a new fingerprint: the external system takes
\* it and answers 200, or nothing reaches it (or it refuses), or it takes it and
\* the answer is lost.
PostFiring(f, outcome) ==
  /\ fired' = IF outcome = "failed" THEN fired ELSE [fired EXCEPT ![f] = @ + 1]
  /\ lost' = IF outcome = "lost" THEN [lost EXCEPT ![f] = @ + 1] ELSE lost
  /\ extFile' = IF outcome = "ok" THEN [extFile EXCEPT ![f] = fired[f] + 1]
                                  ELSE extFile

\* NotifyExternalSystem: whatever the status, nothing is posted while the file
\* holds a fingerprint.
NotifyExternalSystem(f, outcome) ==
  IF extFile[f] # NoFile THEN UNCHANGED <<extFile, fired, lost>>
                         ELSE PostFiring(f, outcome)

\* SubNotifyExternalSystem with status "firing".
SubNotifyFiring(f, outcome) ==
  IF extFile[f] # NoFile THEN UNCHANGED <<extFile, fired, lost>>
                         ELSE PostFiring(f, outcome)

\* SetIncidentID asks for the ticket of the fingerprint in the ext file.  There may be
\* none yet; without a fingerprint the query has no key, and what comes back is up to
\* the external system.
SetIncidentID(f, content, found) ==
  CASE ~found                      -> {}
    [] found /\ content # NoFile   -> {<<f, content>>}
    [] OTHER                       -> {Stray}

-----------------------------------------------------------------------------
(* The scan *)

\* Targets are taken in the order of the list.
Probe(t) ==
  /\ pc = "scan" /\ t \in todo /\ \A u \in todo : t <= u
  /\ t \notin Malformed
  /\ todo' = todo \ {t}
  /\ UNCHANGED <<api, wq, pc, memFresh, verdict, up, restarts,
                 outages, edits>>

FoundDown(t) == ~up[t] /\ down' = TRUE /\ UNCHANGED answered
FoundUp(t)   == up[t] /\ answered' = answered \cup {t} /\ UNCHANGED down

Failures(outcome) == IF outcome = "ok" THEN 0 ELSE 1

\* A target newly found down is listed and alerted through both channels.
\* ExternalNotified is set whatever became of the POST.
RaiseAlert(t) ==
  LET f == FileOf[t] IN
  /\ IF mem.conf.email THEN SendEmailAlert(f) ELSE UNCHANGED <<mailFile, mailDebt>>
  /\ IF mem.conf.notify = "yes"
       THEN \E outcome \in {"ok", "failed", "lost"}, found \in BOOLEAN :
              /\ IF FirstScan THEN NotifyExternalSystem(f, outcome)
                              ELSE SubNotifyFiring(f, outcome)
              /\ Fail(Failures(outcome))
              /\ mem' = [mem EXCEPT
                   !.st.affected = @ \cup {t},
                   !.st.notified = TRUE,
                   !.st.incidents = @ \cup SetIncidentID(f, extFile'[f], found)]
       ELSE /\ mem' = [mem EXCEPT !.st.affected = @ \cup {t}]
            /\ UNCHANGED <<extFile, fired, lost, faults>>
  /\ UNCHANGED cleared

TargetDownFirstScan(t) ==
  /\ Probe(t) /\ FoundDown(t) /\ FirstScan /\ t \notin mem.st.affected
  /\ RaiseAlert(t)

TargetDownLaterScan(t) ==
  /\ Probe(t) /\ FoundDown(t) /\ ~FirstScan /\ t \notin mem.st.affected
  /\ RaiseAlert(t)

TargetStillDown(t) ==
  /\ Probe(t) /\ FoundDown(t) /\ t \in mem.st.affected
  /\ UNCHANGED <<mem, files, ext, faults>>

\* An affected target answers and its mail file is there: the recovered mail,
\* then (only if some alert was raised) the "resolved" POST; then the target and its ext
\* file go.  SubNotifyExternalSystem is given the mail file for the fingerprint: it sends
\* "sent", or nothing when the recovered mail has removed the file, and changes nothing.
TargetRecovered(t) ==
  LET f == FileOf[t] IN
  /\ Probe(t) /\ FoundUp(t)
  /\ mailFile[f] # NoFile /\ t \in mem.st.affected
  /\ \E mailed \in (IF mem.conf.email THEN BOOLEAN ELSE {FALSE}),
        found \in BOOLEAN :
       /\ SendEmailRecoveredAlert(f, mailed)
       /\ mem' = IF mem.conf.notify = "yes" /\ mem.st.notified
                   THEN [mem EXCEPT
                      !.st.affected = @ \ {t},
                      !.st.incidents = @ \ SetIncidentID(f, extFile[f], found)]
                   ELSE [mem EXCEPT !.st.affected = @ \ {t}]
       /\ Fail(IF mem.conf.email /\ ~mailed THEN 1 ELSE 0)
  /\ extFile' = [extFile EXCEPT ![f] = NoFile]
  /\ cleared' = IF extFile[f] = NoFile THEN cleared
                                       ELSE [cleared EXCEPT ![f] = @ + 1]
  /\ UNCHANGED <<fired, lost>>

\* (mutant) a later scan does nothing about it either
TargetUpNoAction(t) ==
  /\ Probe(t) /\ FoundUp(t)
  /\ mailFile[FileOf[t]] = NoFile
  /\ UNCHANGED <<mem, files, ext, faults>>

\* An affected target answers and has no mail file: the first scan does nothing
\* about it, a later one drops it from the list without any message.
TargetUpNoMailFile(t) ==
  /\ Probe(t) /\ FoundUp(t)
  /\ mailFile[FileOf[t]] = NoFile
  /\ mem' = IF FirstScan THEN mem ELSE [mem EXCEPT !.st.affected = @ \ {t}]
  /\ UNCHANGED <<files, ext, faults>>

TargetStillUp(t) ==
  /\ Probe(t) /\ FoundUp(t)
  /\ mailFile[FileOf[t]] # NoFile /\ t \notin mem.st.affected
  /\ UNCHANGED <<mem, files, ext, faults>>

\* strings.SplitN gives one part and the index of the port is out of range.  The
\* deferred update still runs, with what the scan has changed so far; it reports a
\* failure if the host name could not be read either.
MalformedTarget(t) ==
  /\ pc = "scan" /\ t \in todo /\ \A u \in todo : t <= u
  /\ t \in Malformed
  /\ \E hostError \in BOOLEAN :
       mem' = IF hostError THEN [mem EXCEPT !.st = SetReadyCondition(@, "False")] ELSE mem
  /\ todo' = {} /\ Return("panic")
  /\ UNCHANGED <<api, wq, memFresh, down, answered, files, up, ext, restarts,
                 outages, faults, edits>>

\* (mutant) the stamp is renewed and success reported whatever the scan found
EndScanAlwaysReady ==
  /\ pc = "scan" /\ todo = {}
  /\ Return("again")
  /\ mem' = [mem EXCEPT !.st = [SetReadyCondition(@, "True") EXCEPT !.poll = "recent"]]
  /\ UNCHANGED <<api, wq, memFresh, todo, down, answered, files, up, ext,
                 restarts, outages, faults, edits>>

\* (mutant) the stamp is renewed by a failed scan too
EndScanStampsFailure ==
  /\ pc = "scan" /\ todo = {}
  /\ Return(IF down THEN "error" ELSE "again")
  /\ mem' = [mem EXCEPT !.st = [SetReadyCondition(@, "True") EXCEPT !.poll = "recent"]]
  /\ UNCHANGED <<api, wq, memFresh, todo, down, answered, files, up, ext,
                 restarts, outages, faults, edits>>

\* Every target was probed.
EndScan ==
  /\ pc = "scan" /\ todo = {}
  /\ IF down
       THEN /\ Return("error") /\ UNCHANGED mem
       ELSE /\ Return("again")
            /\ mem' = [mem EXCEPT !.st = [SetReadyCondition(@, "True")
                                            EXCEPT !.poll = "recent"]]
  /\ UNCHANGED <<api, wq, memFresh, todo, down, answered, files, up, ext,
                 restarts, outages, faults, edits>>

-----------------------------------------------------------------------------
(* The deferred status update *)

\* (mutant) an error reports on the stored status and drops what the scan changed
ReportedOnStored ==
  IF verdict = "error" THEN SetReadyCondition(obj.st, "False") ELSE mem.st

\* An error is reported on the copy the scan has changed.
Reported == IF verdict = "error" THEN SetReadyCondition(mem.st, "False") ELSE mem.st

\* (mutant) only an error brings the key back
CommitRequeuesErrors ==
  /\ pc = "commit" /\ memFresh
  /\ obj' = [obj EXCEPT !.st = Reported]
  /\ cacheFresh' = (cacheFresh /\ obj' = obj)
  /\ timer' = (timer \/ verdict \in {"error", "panic"})
  /\ Exit
  /\ UNCHANGED <<cache, queue, files, up, ext, restarts,
                 outages, faults, edits>>

\* The update names the version that was read.  A result without an error and
\* without RequeueAfter schedules nothing; an error or a delay does.
Commit ==
  /\ pc = "commit" /\ memFresh
  /\ obj' = [obj EXCEPT !.st = Reported]
  /\ cacheFresh' = (cacheFresh /\ obj' = obj)
  /\ timer' = (timer \/ verdict # "done")
  /\ Exit
  /\ UNCHANGED <<cache, queue, files, up, ext, restarts,
                 outages, faults, edits>>

\* A conflict or a failed call turns into an error and the key is retried; all
\* that the scan did outside the status stays done.
CommitFails ==
  /\ pc = "commit"
  /\ IF memFresh THEN Fail(1) ELSE UNCHANGED faults
  /\ timer' = TRUE
  /\ Exit
  /\ UNCHANGED <<api, queue, files, up, ext, restarts, outages, edits>>

-----------------------------------------------------------------------------
(* The controller's queue and watch, the clock, the network and the user *)

\* The delay of a requeue is over.
TimerFires ==
  /\ timer
  /\ timer' = FALSE /\ queue' = TRUE
  /\ UNCHANGED <<api, worker, files, up, ext, restarts,
                 outages, faults, edits>>

\* The watch delivers the latest version and queues the key.
WatchEvent ==
  /\ ~cacheFresh
  /\ cache' = obj /\ cacheFresh' = TRUE /\ queue' = TRUE
  /\ UNCHANGED <<obj, timer, worker, files, up, ext, restarts,
                 outages, faults, edits>>

Aged(o) == [o EXCEPT !.st.poll = IF @ = "recent" THEN "due" ELSE @]

\* The check interval passes since the last success.
Elapse ==
  /\ obj.st.poll = "recent" \/ cache.st.poll = "recent" \/ mem.st.poll = "recent"
  /\ obj' = Aged(obj) /\ cache' = Aged(cache) /\ mem' = Aged(mem)
  /\ UNCHANGED <<cacheFresh, wq, pc, memFresh, todo, down, verdict, answered, files,
                 up, ext, restarts, outages, faults, edits>>

ReachabilityChanges(t) ==
  /\ t \notin Malformed
  /\ outages < MaxOutages /\ outages' = outages + 1
  /\ up' = [up EXCEPT ![t] = ~@]
  /\ UNCHANGED <<api, wq, worker, files, ext, restarts, faults, edits>>

\* The user writes the object: what was read before is now an old version.
UserWrites(o) ==
  /\ edits < MaxEdits /\ edits' = edits + 1
  /\ obj' = o /\ o # obj
  /\ cacheFresh' = FALSE /\ memFresh' = FALSE
  /\ UNCHANGED <<cache, wq, pc, mem, todo, down, verdict, answered, files, up, ext,
                 restarts, outages, faults>>

Edit(c)   == obj.exists /\ UserWrites([obj EXCEPT !.conf = c])
Delete    == obj.exists /\ UserWrites([obj EXCEPT !.exists = FALSE])
Create(c) == ~obj.exists /\ UserWrites(NewObject(c))

\* The manager process dies.  The files are in the container's writable layer, so
\* the new container starts without them; its informer lists every resource.
Crash ==
  /\ Fail(1)
  /\ Exit /\ timer' = FALSE /\ queue' = obj.exists
  /\ cache' = obj /\ cacheFresh' = TRUE
  /\ mailFile' = [f \in File |-> NoFile] /\ extFile' = [f \in File |-> NoFile]
  /\ restarts' = restarts + 1
  /\ UNCHANGED <<obj, up, ext, outages, edits>>

-----------------------------------------------------------------------------

ScanTarget(t) ==
  \/ TargetDownFirstScan(t) \/ TargetDownLaterScan(t) \/ TargetStillDown(t)
  \/ TargetRecovered(t) \/ TargetUpNoMailFile(t) \/ TargetStillUp(t)
  \/ MalformedTarget(t)

\* The steps of Reconcile.
Reconcile ==
  \/ Get \/ SecretMissing \/ NilNotifyPanic \/ FirstSeen \/ Suspended \/ NoClient
  \/ StartScan \/ (\E t \in Target : ScanTarget(t)) \/ EndScan
  \/ Commit \/ CommitFails

Environment ==
  \/ TimerFires \/ WatchEvent \/ Elapse
  \/ \E t \in Target : ReachabilityChanges(t)
  \/ \E c \in Confs : Edit(c) \/ Create(c)
  \/ Delete \/ Crash

Next == Reconcile \/ Environment

\* The worker keeps running, timers fire, watch events arrive and time passes;
\* nothing makes the network, the user or a fault move.
Fairness ==
  /\ WF_vars(Reconcile)
  /\ WF_vars(TimerFires) /\ WF_vars(WatchEvent) /\ WF_vars(Elapse)

Spec == Init /\ [][Next]_vars
FairSpec == Spec /\ Fairness

-----------------------------------------------------------------------------
(* Properties *)

Status == [ready : {"none", "Unknown", "True", "False"},
           poll : {"never", "recent", "due"},
           affected : SUBSET Target,
           notified : BOOLEAN,
           incidents : SUBSET ((File \X Nat) \cup {Stray})]

Object == [exists : BOOLEAN, conf : Conf, st : Status]

\* Every variable keeps its type; an incident is that of an accepted alert.
TypeOK ==
  /\ obj \in Object /\ cache \in Object /\ mem \in Object
  /\ cacheFresh \in BOOLEAN /\ memFresh \in BOOLEAN
  /\ queue \in BOOLEAN /\ timer \in BOOLEAN
  /\ pc \in {"idle", "setup", "scan", "commit"}
  /\ verdict \in {"again", "done", "error", "panic"}
  /\ todo \in SUBSET Target /\ down \in BOOLEAN /\ answered \in SUBSET Target
  /\ mailFile \in [File -> {NoFile, Sent}]
  /\ extFile \in [File -> Nat \cup {NoFile}]
  /\ up \in [Target -> BOOLEAN]
  /\ fired \in [File -> Nat] /\ cleared \in [File -> Nat] /\ lost \in [File -> Nat]
  /\ mailDebt \in [File -> Int]
  /\ restarts \in Nat
  /\ outages \in Nat /\ faults \in Nat /\ edits \in Nat

\* No alert storm.  Whatever is retried, lost, edited or read from a stale cache,
\* every firing alert the external system accepted under a dedup file is accounted
\* for: by a recovery that cleared the file, a restart that lost it, a lost answer,
\* or the one outage in progress.
FiringsAccounted ==
  \A f \in File : fired[f] <= cleared[f] + lost[f] + restarts + 1

\* A dedup file suppresses alerts only in the name of an alert the external system
\* has accepted: the last one posted under that file.
SuppressionJustified ==
  \A f \in File : extFile[f] # NoFile => fired[f] > 0 /\ extFile[f] = fired[f]

\* Between two alert mails for a file there is a recovered mail or a restart, even
\* though the mail file is written before the mail is sent and the status that
\* remembers the outage may never be stored.
MailsAccounted == \A f \in File : mailDebt[f] <= restarts + 1

\* Why the three invariants above hold: each dedup file stands for one open alert (or
\* one mail) that the sums count, and only a recovery or a restart removes a file.
Open(file, f) == IF file[f] = NoFile THEN 0 ELSE 1

AlertInv ==
  \A f \in File :
    /\ fired[f] <= cleared[f] + lost[f] + restarts + Open(extFile, f)
    /\ extFile[f] # NoFile => fired[f] > 0 /\ extFile[f] = fired[f]
    /\ mailDebt[f] <= restarts + Open(mailFile, f)

\* A resource is never forgotten: when the worker is idle the key is queued, a timer
\* runs, or a watch event is under way (the only thing that follows "First Seen",
\* which returns without a requeue).
NeverForgotten ==
  pc = "idle" /\ obj.exists => queue \/ timer \/ ~cacheFresh

\* Ready "True" and a new LastPollTime are stored only at the end of a scan in which
\* every listed target answered.
SuccessStep ==
  (obj'.st.ready = "True" /\ obj.st.ready # "True")
    \/ (obj'.st.poll = "recent" /\ obj.st.poll # "recent")
  => answered = mem.conf.targets /\ obj'.conf = mem.conf

SuccessMeansAllAnswered == [][SuccessStep]_vars

ScanEnded == pc = "commit" /\ verdict # "panic" /\ (down \/ answered # {})

\* The list a completed later scan stores agrees with what the scan found, although
\* it was computed on a copy of the object and by a different branch for each file
\* state: a target of the spec is affected exactly when it did not answer.
LaterScanStep ==
  Commit /\ ScanEnded /\ obj.st.poll # "never"
    => \A t \in mem.conf.targets : t \in obj'.st.affected <=> t \notin answered

LaterScanStoresWhatItFound == [][LaterScanStep]_vars

\* After a first scan, too, no target that did not answer is missing.
OutageStep ==
  Commit /\ ScanEnded => mem.conf.targets \ answered \subseteq obj'.st.affected

NoOutageDropped == [][OutageStep]_vars

\* Why they hold: what Reconcile knows of the stored resource while its copy is the
\* latest version.  A scan has decided about every target but those left.
Decided(left) ==
  /\ left \subseteq mem.conf.targets
  /\ answered \subseteq mem.conf.targets \ left
  /\ \A t \in mem.conf.targets \ left : t \in answered \/ (down /\ t \in mem.st.affected)
  /\ obj.st.poll # "never" => \A t \in answered : t \notin mem.st.affected
  /\ ~down => mem.st.affected \subseteq obj.st.affected

NothingScanned == answered = {} /\ ~down

AtCommit ==
  \/ /\ verdict = "done" /\ obj.st.ready = "none" /\ NothingScanned
     /\ mem = [obj EXCEPT !.st.ready = "Unknown"]
  \/ /\ verdict \in {"again", "error"} /\ obj.st.ready # "none" /\ NothingScanned
     /\ mem = obj
  \/ /\ verdict = "again" /\ ~down /\ Decided({})
     /\ obj.st.ready # "none" /\ mem.st.ready = "True"
     /\ obj.st.poll # "recent" /\ mem.st.poll # "never"
  \/ /\ verdict = "error" /\ down /\ Decided({})
     /\ obj.st.ready # "none" /\ mem.st.poll = obj.st.poll
  \/ /\ verdict = "panic" /\ mem.st.ready \in {obj.st.ready, "False"}
     /\ obj.st.ready # "none" /\ mem.st.poll = obj.st.poll

WorkerInv ==
  /\ cacheFresh => cache = obj
  /\ pc \in {"idle", "setup"} => NothingScanned
  /\ memFresh =>
       /\ pc # "idle" /\ mem.conf = obj.conf
       /\ pc = "setup" => mem = obj
       /\ pc = "scan" => /\ obj.st.ready # "none" /\ mem.st.ready = obj.st.ready
                         /\ obj.st.poll # "recent" /\ mem.st.poll = obj.st.poll
                         /\ Decided(todo)
       /\ pc = "commit" => AtCommit

\* PortScan keeps the promises of ScanLifecycle.
Lifecycle == INSTANCE ScanLifecycle WITH
  Announced <- TRUE,
  ready <- obj.st.ready, poll <- obj.st.poll, affected <- obj.st.affected
ImplementsLifecycle == Lifecycle!Spec

Scanned ==
  /\ obj.exists /\ ~obj.conf.suspend /\ obj.conf.notify # "unset"
  /\ Malformed = {}

\* A target that is down for good, in a resource that is scanned, ends up reported:
\* no stale read, conflict, restart or overlooked retry hides it for ever.
DownIsReported ==
  \A t \in Target :
    <>[](Scanned /\ t \in obj.conf.targets /\ ~up[t])
      => <>[](obj.st.ready = "False" /\ t \in obj.st.affected)

\* Once every target answers for good, the resource becomes ready and none of its
\* targets stays listed, even if the files that remember the outage are gone.
UpIsReported ==
  <>[](Scanned /\ \A t \in obj.conf.targets : up[t])
    => <>[](obj.st.ready = "True" /\ obj.st.affected \cap obj.conf.targets = {})
=============================================================================
