---------------------------- MODULE ContainerScan ----------------------------
(***************************************************************************)
(* The ContainerScan reconciler: it goes through some namespaces, lists    *)
(* their pods, reports the first namespace that has a container which      *)
(* exited with an error or is in CrashLoopBackOff, and raises an alert per *)
(* container, or per pod if the resource aggregates alerts.                *)
(*                                                                         *)
(* The calls that read the cluster (the pods on the list of affected pods, *)
(* the pods of a namespace, and these again before the files are removed)  *)
(* are steps of their own: containers restart and pods come and go between *)
(* them.  Mails are left out: SendEmailAlert and SendEmailRecoverAlert     *)
(* return when the mail file cannot be read, and nothing but SendEmailAlert*)
(* writes one, so neither ever sends or changes anything.                  *)
(***************************************************************************)
EXTENDS Integers, FiniteSets, Sequences, SequencesExt

CONSTANTS
  N,            \* number of containers, in the order the pods are listed in
  M,            \* number of target namespaces, in the order of the spec
  Pod,          \* pods; their names differ, also between namespaces
  PodOf, NsOf,  \* the pod of each container, the namespace of each pod
  Confs,        \* the specs a user may write
  MaxChanges,   \* bound: containers that change state, pods that come and go
  MaxFaults,    \* bound: failed calls and crashes
  MaxEdits,     \* bound: edits of the spec
  NoFile,       \* the file does not exist
  Sent,         \* a content no ext file has
  Stray         \* the ticket that may answer a query without a fingerprint

Container == 1..N
Namespace == 1..M
File == Container \cup Pod          \* ext files: one per container, one per pod

Conf == [aggregate : {"unset", "no", "yes"}, notify : BOOLEAN, suspend : BOOLEAN]

ASSUME ConstantsAssumption ==
  /\ N \in Nat /\ M \in Nat
  /\ PodOf \in [Container -> Pod] /\ NsOf \in [Pod -> Namespace]
  /\ Confs \subseteq Conf
  /\ MaxChanges \in Nat /\ MaxFaults \in Nat /\ MaxEdits \in Nat
  /\ NoFile \notin Nat /\ Sent \notin Nat

VARIABLES
  obj, cache, cacheFresh,     \* the stored resource and the informer's copy
  queue, timer,               \* the key is queued; a delayed add is pending
  \* the worker
  pc, mem, memFresh,
  first,        \* the branch taken: no LastRunTime when Reconcile started
  ns,           \* the namespace being handled
  pods,         \* the containers in the last list of pods, with their state
  todo,         \* those not yet handled
  failing,      \* afcontainers, or afpods, is not empty
  verdict,      \* how Reconcile returns
  \* the container's file system
  extFile,
  \* the cluster
  podUp,        \* the pods that exist
  state,        \* the state of each container
  \* observation
  checked,      \* failing containers seen in this reconcile
  fired,        \* firing alerts accepted, per file; the n-th has fingerprint n
  cleared,      \* ext files removed
  lost,         \* accepted alerts whose answer never came
  resolved,     \* <<file, fingerprint>> of the "resolved" messages accepted
  restarts, changes, faults, edits

api     == <<obj, cache, cacheFresh>>
wq      == <<queue, timer>>
scan    == <<first, ns, pods, todo, failing, checked>>
worker  == <<pc, mem, memFresh, verdict, scan>>
ext     == <<fired, lost, resolved>>
cluster == <<podUp, state>>
vars    == <<api, wq, worker, extFile, cleared, ext, cluster, restarts, changes,
             faults, edits>>

-----------------------------------------------------------------------------

EmptyStatus == [ready |-> "none", poll |-> "never", affected |-> <<>>,
                notified |-> FALSE, incidents |-> {}]

Nothing == [conf |-> [aggregate |-> "no", notify |-> FALSE, suspend |-> FALSE],
            st |-> EmptyStatus]

SetReadyCondition(st, status) == [st EXCEPT !.ready = status]

\* What the reconciler tells apart: terminated with an error or in CrashLoopBackOff,
\* terminated without, and anything else.
States == {"failed", "zero", "running"}

Init ==
  /\ \E c \in Confs : obj = [conf |-> c, st |-> EmptyStatus]
  /\ cache = obj /\ cacheFresh = TRUE
  /\ queue = TRUE /\ timer = FALSE
  /\ pc = "idle" /\ mem = Nothing /\ memFresh = FALSE /\ verdict = "again"
  /\ first = FALSE /\ ns = 0 /\ pods = <<>> /\ todo = {} /\ failing = FALSE
  /\ checked = {}
  /\ extFile = [f \in File |-> NoFile]
  /\ podUp = Pod /\ state \in [Container -> States]
  /\ fired = [f \in File |-> 0] /\ cleared = [f \in File |-> 0]
  /\ lost = [f \in File |-> 0] /\ resolved = {}
  /\ restarts = 0 /\ changes = 0 /\ faults = 0 /\ edits = 0

Fail(n) == faults + n <= MaxFaults /\ faults' = faults + n

Return(v) == pc' = "commit" /\ verdict' = v

Exit ==
  /\ pc' = "idle" /\ mem' = Nothing /\ memFresh' = FALSE /\ verdict' = "again"
  /\ first' = FALSE /\ ns' = 0 /\ pods' = <<>> /\ todo' = {} /\ failing' = FALSE
  /\ checked' = {}

-----------------------------------------------------------------------------
(* Reconcile up to the scan *)

Get ==
  /\ pc = "idle" /\ queue
  /\ queue' = FALSE
  /\ pc' = "setup" /\ mem' = cache /\ memFresh' = cacheFresh
  /\ UNCHANGED <<api, timer, verdict, scan, extFile, cleared, ext, cluster,
                 restarts, changes, faults, edits>>

\* What no step between the read and the scan changes.
Prelude ==
  /\ pc = "setup"
  /\ UNCHANGED <<api, wq, memFresh, extFile, cleared, ext, cluster, restarts,
                 changes, edits>>

\* The secret or the config map is missing.  The deferred update is registered by
\* now, so even a resource that was never seen is reported as not ready.
SecretMissing ==
  /\ Prelude /\ mem.conf.notify /\ Fail(1)
  /\ Return("error")
  /\ UNCHANGED <<mem, scan>>

FirstSeen ==
  /\ Prelude /\ mem.st.ready = "none"
  /\ mem' = [mem EXCEPT !.st = SetReadyCondition(@, "Unknown")]
  /\ Return("done")
  /\ UNCHANGED <<scan, faults>>

NoClient ==
  /\ Prelude /\ mem.st.ready # "none" /\ Fail(1)
  /\ Return("error")
  /\ UNCHANGED <<mem, scan>>

\* A suspended resource is not requeued: only an edit brings it back.
Suspended ==
  /\ Prelude /\ mem.st.ready # "none" /\ mem.conf.suspend
  /\ Return("done")
  /\ UNCHANGED <<mem, scan, faults>>

StartScan ==
  /\ Prelude /\ mem.st.ready # "none" /\ ~mem.conf.suspend
  /\ IF mem.st.poll # "recent" /\ M > 0
       THEN /\ pc' = "namespace" /\ ns' = 1 /\ first' = (mem.st.poll = "never")
            /\ UNCHANGED verdict
       ELSE Return("again") /\ UNCHANGED <<ns, first>>
  /\ UNCHANGED <<mem, pods, todo, failing, checked, faults>>

-----------------------------------------------------------------------------
(* The scan of one namespace *)

\* What no step of the scan changes.
Scanning ==
  UNCHANGED <<api, wq, memFresh, first, cluster, restarts, changes, edits>>

NamespaceMissing ==
  /\ pc = "namespace" /\ Fail(1)
  /\ Return("error")
  /\ Scanning
  /\ UNCHANGED <<mem, ns, pods, todo, failing, checked, extFile, cleared, ext>>

\* The visit of position i of the list that is being ranged over: the loop goes on over
\* the length it started with, on an array whose tail deleteElementSlice has moved one
\* place down.
Visit(a, gone, i) ==
  LET p  == a.array[i]
      at == {j \in 1..a.len : a.array[j] = p}
  IN IF p \notin gone \/ at = {} THEN a
     ELSE [array |-> [j \in DOMAIN a.array |->
              IF Min(at) <= j /\ j < a.len THEN a.array[j + 1] ELSE a.array[j]],
           len |-> a.len - 1]

PruneWhileRanging(list, gone) ==
  LET pass[i \in 0..Len(list)] ==
        IF i = 0 THEN [array |-> list, len |-> Len(list)] ELSE Visit(pass[i - 1], gone, i)
  IN SubSeq(pass[Len(list)].array, 1, pass[Len(list)].len)

\* The files in fs go, where there are any.
RemoveFiles(fs) ==
  /\ extFile' = [f \in File |-> IF f \in fs THEN NoFile ELSE extFile[f]]
  /\ cleared' = [f \in File |-> IF f \in fs /\ extFile[f] # NoFile
                                  THEN cleared[f] + 1 ELSE cleared[f]]

\* (mutant) nothing is pruned
PruneForgotten ==
  /\ pc = "namespace" /\ pc' = "list"
  /\ Scanning
  /\ UNCHANGED <<verdict, mem, ns, pods, todo, failing, checked, extFile, cleared, ext,
                 faults>>

\* Listed pods of the namespace that cannot be read, because they are gone or because
\* the call failed, leave the list.  Their files go only if alerts are aggregated; the
\* other branch removes file names without their directory, which removes nothing.
Prune ==
  /\ pc = "namespace"
  /\ \E unread \in SUBSET {p \in podUp \cap ToSet(mem.st.affected) : NsOf[p] = ns} :
       LET list == mem.st.affected
           kept == PruneWhileRanging(list,
                     {p \in ToSet(list) : NsOf[p] = ns /\ (p \notin podUp \/ p \in unread)})
       IN /\ Fail(Cardinality(unread))
          /\ mem' = [mem EXCEPT !.st.affected = kept]
          /\ RemoveFiles(IF mem.conf.aggregate = "yes" THEN ToSet(list) \ ToSet(kept) ELSE {})
  /\ pc' = "list"
  /\ Scanning
  /\ UNCHANGED <<verdict, ns, pods, todo, failing, checked, ext>>

ListPods ==
  /\ pc = "list"
  /\ todo' = {c \in Container : PodOf[c] \in podUp /\ NsOf[PodOf[c]] = ns}
  /\ pods' = [c \in todo' |-> state[c]]
  /\ pc' = "containers"
  /\ Scanning
  /\ UNCHANGED <<verdict, mem, ns, failing, checked, extFile, cleared, ext, faults>>

ListPodsFails ==
  /\ pc = "list" /\ Fail(1)
  /\ Return("error")
  /\ Scanning
  /\ UNCHANGED <<mem, ns, pods, todo, failing, checked, extFile, cleared, ext>>

FileOf(c) == IF mem.conf.aggregate = "yes" THEN PodOf[c] ELSE c

\* (mutant) an empty answer is written to the ext file
PostFiringWritesSent(f, outcome) ==
  /\ fired' = IF outcome = "failed" THEN fired ELSE [fired EXCEPT ![f] = @ + 1]
  /\ lost' = IF outcome = "lost" THEN [lost EXCEPT ![f] = @ + 1] ELSE lost
  /\ extFile' = IF outcome = "ok" THEN [extFile EXCEPT ![f] = Sent] ELSE extFile

\* A firing alert under a new fingerprint is taken, refused, or taken without an answer.
PostFiring(f, outcome) ==
  /\ fired' = IF outcome = "failed" THEN fired ELSE [fired EXCEPT ![f] = @ + 1]
  /\ lost' = IF outcome = "lost" THEN [lost EXCEPT ![f] = @ + 1] ELSE lost
  /\ extFile' = IF outcome = "ok" THEN [extFile EXCEPT ![f] = fired[f] + 1]
                                  ELSE extFile

\* NotifyExternalSystem, or SubNotifyExternalSystem with status "firing": nothing is
\* posted while the file holds a fingerprint.
NotifyExternalSystem(f, outcome) ==
  IF extFile[f] # NoFile THEN UNCHANGED <<extFile, fired, lost>>
                         ELSE PostFiring(f, outcome)

\* The ticket of the fingerprint in a file; without a fingerprint the query has no key.
SetIncidentID(f, content, found) ==
  CASE ~found                      -> {}
    [] found /\ content # NoFile   -> {<<f, content>>}
    [] OTHER                       -> {Stray}

\* The containers are handled in the order of the list.
Take(c) ==
  /\ pc = "containers" /\ c \in todo /\ \A d \in todo : c <= d
  /\ todo' = todo \ {c}
  /\ Scanning
  /\ UNCHANGED <<pc, verdict, ns, pods>>

Listed(p) == p \in ToSet(mem.st.affected)

\* A failed container: its pod is listed and an alert raised.  With aggregated alerts
\* the ticket is looked up in a file that is never written.
ContainerFailed(c) ==
  LET p == PodOf[c]  f == FileOf(c)
      list == IF Listed(p) THEN mem.st.affected ELSE Append(mem.st.affected, p)
  IN
  /\ Take(c) /\ pods[c] = "failed"
  /\ failing' = TRUE /\ checked' = checked \cup {c}
  /\ IF mem.conf.notify
       THEN \E outcome \in {"ok", "failed", "lost"}, found \in BOOLEAN :
              /\ NotifyExternalSystem(f, outcome)
              /\ Fail(IF outcome = "ok" THEN 0 ELSE 1)
              /\ mem' = [mem EXCEPT
                   !.st.affected = list, !.st.notified = TRUE,
                   !.st.incidents = @ \cup SetIncidentID(f,
                      IF f = c THEN extFile'[f] ELSE NoFile, found)]
       ELSE /\ mem' = [mem EXCEPT !.st.affected = list]
            /\ UNCHANGED <<extFile, fired, lost, faults>>
  /\ UNCHANGED <<resolved, cleared>>

\* (mutant) the pod stays on the list
ContainerCompletedKeepsPod(c) ==
  /\ Take(c) /\ pods[c] = "zero" /\ ~first
  /\ UNCHANGED <<mem, failing, checked, extFile, cleared, ext, faults>>

\* (mutant) the fingerprint is made up
ResolvedFingerprintNew(c) == {<<c, fired[c] + 1>>}

\* The fingerprint of a "resolved" message is what the container's own ext file holds.
ResolvedFingerprint(c) == IF extFile[c] = NoFile THEN {} ELSE {<<c, extFile[c]>>}

\* A completed container in a later scan takes its pod off the list, whatever the
\* other containers of the pod do, and closes the alert in its own ext file, which
\* stays.  In a first scan nothing is done about it.
ContainerCompleted(c) ==
  LET p == PodOf[c]  f == FileOf(c)
      list == RemoveFirst(mem.st.affected, p)
  IN
  /\ Take(c) /\ pods[c] = "zero" /\ ~first
  /\ IF mem.conf.notify /\ mem.st.notified
       THEN \E posted \in BOOLEAN, found \in BOOLEAN :
              /\ resolved' = resolved \cup (IF posted THEN ResolvedFingerprint(c) ELSE {})
              /\ Fail(IF posted THEN 0 ELSE 1)
              /\ mem' = [mem EXCEPT
                   !.st.affected = list,
                   !.st.incidents = @ \ SetIncidentID(f, extFile[f], found)]
       ELSE /\ mem' = [mem EXCEPT !.st.affected = list]
            /\ UNCHANGED <<resolved, faults>>
  /\ UNCHANGED <<failing, checked, extFile, cleared, fired, lost>>

ContainerIgnored(c) ==
  /\ Take(c) /\ (pods[c] = "running" \/ (pods[c] = "zero" /\ first))
  /\ UNCHANGED <<mem, failing, checked, extFile, cleared, ext, faults>>

\* (mutant) a namespace with a failed container does not end the scan
NamespaceFailedGoesOn ==
  /\ pc = "containers" /\ todo = {} /\ failing
  /\ IF ns = M THEN Return("again") /\ UNCHANGED ns
               ELSE pc' = "namespace" /\ ns' = ns + 1 /\ UNCHANGED verdict
  /\ failing' = FALSE
  /\ Scanning
  /\ UNCHANGED <<mem, pods, todo, checked, extFile, cleared, ext, faults>>

\* The first namespace with a failed container ends the scan; the stamp that the
\* namespaces before it have renewed stays.
NamespaceFailed ==
  /\ pc = "containers" /\ todo = {} /\ failing
  /\ Return("error")
  /\ Scanning
  /\ UNCHANGED <<mem, ns, pods, todo, failing, checked, extFile, cleared, ext, faults>>

Stamped(st) == [st EXCEPT !.poll = "recent", !.notified = FALSE]

\* A namespace without a failed container renews the stamp and reports success at
\* once.  remoteFiles lists its pods again and removes the ext files of those it gets;
\* an unreadable list is only logged.
NamespaceHealthy ==
  /\ pc = "containers" /\ todo = {} /\ ~failing
  /\ \E read \in BOOLEAN :
       LET there == IF read THEN {c \in Container : PodOf[c] \in podUp /\ NsOf[PodOf[c]] = ns}
                            ELSE {}
       IN /\ Fail(IF read THEN 0 ELSE 1)
          /\ mem.conf.aggregate = "unset" => there = {}
          /\ RemoveFiles({FileOf(c) : c \in there})
  /\ mem' = [mem EXCEPT !.st = SetReadyCondition(Stamped(@), "True")]
  /\ IF ns = M THEN Return("again") /\ UNCHANGED ns
               ELSE pc' = "namespace" /\ ns' = ns + 1 /\ UNCHANGED verdict
  /\ Scanning
  /\ UNCHANGED <<pods, todo, failing, checked, ext>>

\* *AggregateAlerts is dereferenced for the first container of the new list: the stamp
\* is renewed, the condition is not, and the deferred update stores just that.
NilAggregatePanic ==
  /\ pc = "containers" /\ todo = {} /\ ~failing
  /\ mem.conf.aggregate = "unset"
  /\ \E c \in Container : PodOf[c] \in podUp /\ NsOf[PodOf[c]] = ns
  /\ mem' = [mem EXCEPT !.st = Stamped(@)]
  /\ Return("panic")
  /\ Scanning
  /\ UNCHANGED <<ns, pods, todo, failing, checked, extFile, cleared, ext, faults>>

-----------------------------------------------------------------------------
(* The deferred status update, the queue and the watch *)

\* (mutant) an error is not reported
ReportedAsIs == mem.st

Reported == IF verdict = "error" THEN SetReadyCondition(mem.st, "False") ELSE mem.st

\* (mutant) only an error brings the key back
CommitRequeuesErrors ==
  /\ pc = "commit" /\ memFresh
  /\ obj' = [obj EXCEPT !.st = Reported]
  /\ cacheFresh' = (cacheFresh /\ obj' = obj)
  /\ timer' = (timer \/ verdict = "error")
  /\ Exit
  /\ UNCHANGED <<cache, queue, extFile, cleared, ext, cluster, restarts, changes,
                 faults, edits>>

Commit ==
  /\ pc = "commit" /\ memFresh
  /\ obj' = [obj EXCEPT !.st = Reported]
  /\ cacheFresh' = (cacheFresh /\ obj' = obj)
  /\ timer' = (timer \/ verdict # "done")
  /\ Exit
  /\ UNCHANGED <<cache, queue, extFile, cleared, ext, cluster, restarts, changes,
                 faults, edits>>

CommitFails ==
  /\ pc = "commit"
  /\ IF memFresh THEN Fail(1) ELSE UNCHANGED faults
  /\ timer' = TRUE
  /\ Exit
  /\ UNCHANGED <<api, queue, extFile, cleared, ext, cluster, restarts, changes, edits>>

TimerFires ==
  /\ timer
  /\ timer' = FALSE /\ queue' = TRUE
  /\ UNCHANGED <<api, worker, extFile, cleared, ext, cluster, restarts, changes,
                 faults, edits>>

WatchEvent ==
  /\ ~cacheFresh
  /\ cache' = obj /\ cacheFresh' = TRUE /\ queue' = TRUE
  /\ UNCHANGED <<obj, timer, worker, extFile, cleared, ext, cluster, restarts,
                 changes, faults, edits>>

-----------------------------------------------------------------------------
(* The clock, the user, the cluster *)

Aged(o) == [o EXCEPT !.st.poll = IF @ = "recent" THEN "due" ELSE @]

Elapse ==
  /\ obj.st.poll = "recent" \/ cache.st.poll = "recent" \/ mem.st.poll = "recent"
  /\ obj' = Aged(obj) /\ cache' = Aged(cache) /\ mem' = Aged(mem)
  /\ UNCHANGED <<cacheFresh, wq, pc, memFresh, verdict, scan, extFile, cleared, ext,
                 cluster, restarts, changes, faults, edits>>

Edit(c) ==
  /\ edits < MaxEdits /\ edits' = edits + 1
  /\ c # obj.conf /\ obj' = [obj EXCEPT !.conf = c]
  /\ cacheFresh' = FALSE /\ memFresh' = FALSE
  /\ UNCHANGED <<cache, wq, pc, mem, verdict, scan, extFile, cleared, ext, cluster,
                 restarts, changes, faults>>

Changes ==
  /\ changes < MaxChanges /\ changes' = changes + 1
  /\ UNCHANGED <<api, wq, worker, extFile, cleared, ext, restarts, faults, edits>>

ContainerChanges(c, s) ==
  /\ PodOf[c] \in podUp /\ state[c] # s
  /\ state' = [state EXCEPT ![c] = s] /\ UNCHANGED podUp
  /\ Changes

PodDeleted(p) ==
  /\ p \in podUp /\ podUp' = podUp \ {p} /\ UNCHANGED state
  /\ Changes

\* A pod of the same name comes back, as those of a stateful set do.
PodCreated(p) ==
  /\ p \notin podUp /\ podUp' = podUp \cup {p}
  /\ state' = [c \in Container |-> IF PodOf[c] = p THEN "running" ELSE state[c]]
  /\ Changes

\* The manager dies, and its container's files with it.
Crash ==
  /\ Fail(1)
  /\ Exit /\ timer' = FALSE /\ queue' = TRUE
  /\ cache' = obj /\ cacheFresh' = TRUE
  /\ extFile' = [f \in File |-> NoFile]
  /\ restarts' = restarts + 1
  /\ UNCHANGED <<obj, cleared, ext, cluster, changes, edits>>

-----------------------------------------------------------------------------

ScanContainer(c) == ContainerFailed(c) \/ ContainerCompleted(c) \/ ContainerIgnored(c)

Reconcile ==
  \/ Get \/ SecretMissing \/ FirstSeen \/ NoClient \/ Suspended \/ StartScan
  \/ NamespaceMissing \/ Prune \/ ListPods \/ ListPodsFails
  \/ (\E c \in Container : ScanContainer(c))
  \/ NamespaceFailed \/ NamespaceHealthy \/ NilAggregatePanic
  \/ Commit \/ CommitFails

Environment ==
  \/ TimerFires \/ WatchEvent \/ Elapse
  \/ \E c \in Confs : Edit(c)
  \/ \E c \in Container, s \in States : ContainerChanges(c, s)
  \/ \E p \in Pod : PodDeleted(p) \/ PodCreated(p)
  \/ Crash

Next == Reconcile \/ Environment

\* The worker keeps running, timers fire, watch events arrive and time passes.
Fairness ==
  /\ WF_vars(Reconcile) /\ WF_vars(TimerFires) /\ WF_vars(WatchEvent)
  /\ WF_vars(Elapse)

Spec == Init /\ [][Next]_vars
FairSpec == Spec /\ Fairness

-----------------------------------------------------------------------------
(* Properties *)

Status == [ready : {"none", "Unknown", "True", "False"},
           poll : {"never", "recent", "due"},
           affected : Seq(Pod),
           notified : BOOLEAN,
           incidents : SUBSET ((File \X Nat) \cup {Stray})]

Object == [conf : Conf, st : Status]

TypeOK ==
  /\ obj \in Object /\ cache \in Object /\ mem \in Object
  /\ cacheFresh \in BOOLEAN /\ memFresh \in BOOLEAN
  /\ queue \in BOOLEAN /\ timer \in BOOLEAN
  /\ pc \in {"idle", "setup", "namespace", "list", "containers", "commit"}
  /\ verdict \in {"again", "done", "error", "panic"}
  /\ first \in BOOLEAN /\ ns \in 0..M /\ failing \in BOOLEAN
  /\ todo \in SUBSET Container /\ checked \in SUBSET Container
  /\ todo \subseteq DOMAIN pods
  /\ pods \in [DOMAIN pods -> States]
  /\ extFile \in [File -> Nat \cup {NoFile}]
  /\ podUp \in SUBSET Pod /\ state \in [Container -> States]
  /\ fired \in [File -> Nat] /\ cleared \in [File -> Nat] /\ lost \in [File -> Nat]
  /\ resolved \in SUBSET (Container \X Nat)
  /\ restarts \in Nat /\ changes \in Nat /\ faults \in Nat /\ edits \in Nat

\* No alert storm: each alert accepted under a file is accounted for by a removal of
\* the file, a restart, a lost answer, or the failure in progress, although
\* remoteFiles and the pruning remove files of containers that may be failing again.
FiringsAccounted ==
  \A f \in File : fired[f] <= cleared[f] + lost[f] + restarts + 1

\* A "resolved" message closes an alert that was accepted for that very container.
ResolvedWasFired == \A r \in resolved : r[2] \in 1..fired[r[1]]

\* A resource that is not suspended is never forgotten, although a suspended one is
\* dropped from the queue altogether and may be resumed while it is being looked at.
NeverForgotten ==
  pc = "idle" /\ ~obj.conf.suspend => queue \/ timer \/ ~cacheFresh

\* What a scan stores is about the first namespace that has a failed container: all it
\* saw fail are there, and "True" means that it saw none in any namespace.
\* The stamp is renewed only if that is not the first namespace.
VerdictStep ==
  Commit /\ ns > 0 =>
    /\ \A c \in checked : NsOf[PodOf[c]] = ns
    /\ checked # {} => obj'.st.ready = "False"
    /\ obj'.st.ready = "True" => checked = {}
    /\ obj'.st.poll = "recent" /\ obj.st.poll # "recent"
         => \A c \in checked : NsOf[PodOf[c]] # 1

VerdictIsOfTheFirstFailure == [][VerdictStep]_vars

\* A pod with several containers is listed as the last one of them says that failed
\* or, in a later scan, completed.
ListStep ==
  Commit =>
    \A p \in {PodOf[c] : c \in DOMAIN pods} :
      LET telling == {c \in DOMAIN pods :
                        PodOf[c] = p /\ (pods[c] = "failed" \/ (pods[c] = "zero" /\ ~first))}
      IN telling # {} =>
           (p \in ToSet(obj'.st.affected) <=> pods[Max(telling)] = "failed")

ListFollowsTheLastContainer == [][ListStep]_vars

\* "last successful run (where there is no failed containers)": a scan that renews
\* the stamp saw no failed container.
StampMeansNoFailure ==
  [][Commit /\ obj'.st.poll = "recent" /\ obj.st.poll # "recent" => checked = {}]_vars

Active == ~obj.conf.suspend /\ obj.conf.aggregate # "unset" /\ M > 0

AllHealthy == \A c \in Container : PodOf[c] \in podUp => state[c] # "failed"

\* A container that stays failed ends up in the condition, although the namespaces
\* before it report success in every scan and their stamp delays the retry.
FailureIsReported ==
  \A c \in Container :
    <>[](Active /\ PodOf[c] \in podUp /\ state[c] = "failed") => <>[](obj.st.ready = "False")

\* When no container fails any more, the resource becomes ready, and a pod that is gone
\* leaves the list, although a pass over the list may overlook some.
RecoveryIsReported ==
  /\ <>[](Active /\ AllHealthy) => <>[](obj.st.ready = "True")
  /\ \A p \in Pod :
       <>[](Active /\ AllHealthy /\ p \notin podUp) => <>[](p \notin ToSet(obj.st.affected))

(***************************************************************************)
(* The inductive invariants behind the safety properties                   *)
(***************************************************************************)

\* A pod is listed once.
DistinctInv ==
  /\ IsInjective(obj.st.affected) /\ IsInjective(cache.st.affected)
  /\ IsInjective(mem.st.affected)

\* Where a scan stands: the containers it holds were listed in the namespace being
\* handled or in the one before, and those handled precede those to do.
ScopeInv ==
  /\ failing <=> checked # {}
  /\ todo # {} => pc = "containers"
  /\ pc \in {"idle", "setup"} => ns = 0 /\ checked = {} /\ DOMAIN pods = {}
  /\ pc \in {"namespace", "list"} => checked = {}
  /\ pc \in {"namespace", "list", "containers"} => ns > 0
  /\ DOMAIN pods \subseteq Container
  /\ \A c \in DOMAIN pods :
       /\ pc \in {"namespace", "list"} => NsOf[PodOf[c]] < ns
       /\ pc = "containers" => NsOf[PodOf[c]] = ns
  /\ \A c \in DOMAIN pods \ todo, d \in todo : c < d

\* A fingerprint on file is that of the last alert accepted under it, each accepted
\* alert is paid for, and the resolved ones were fired.
Open(files, f) == IF files[f] = NoFile THEN 0 ELSE 1

AlertInv ==
  /\ \A f \in File :
       /\ fired[f] <= cleared[f] + lost[f] + restarts + Open(extFile, f)
       /\ extFile[f] # NoFile => extFile[f] = fired[f] /\ fired[f] > 0
  /\ \A r \in resolved : r[2] \in 1..fired[r[1]]

\* A fresh copy agrees with the resource, and a reconcile that asks for no requeue has
\* a reason that a fresh copy shows.
WorkerInv ==
  /\ cacheFresh => cache = obj
  /\ memFresh => mem.conf = obj.conf
  /\ pc = "setup" /\ memFresh => mem = obj
  /\ pc = "commit" /\ memFresh /\ verdict = "done" =>
       mem.conf.suspend \/ (obj.st.ready = "none" /\ mem.st.ready = "Unknown")
  /\ pc = "idle" /\ ~obj.conf.suspend => queue \/ timer \/ ~cacheFresh

\* A failed container makes the verdict, and a stamp renewed in this scan comes from an
\* earlier namespace or from one without failed containers.
VerdictInv ==
  /\ \A c \in checked : NsOf[PodOf[c]] = ns
  /\ pc = "commit" /\ checked # {} => verdict = "error"
  /\ pc # "idle" /\ memFresh /\ mem.st.poll = "recent" /\ obj.st.poll # "recent" =>
       ns > 1 \/ (pc = "commit" /\ checked = {})

\* The containers handled so far that have a say about the list.
Telling == {c \in DOMAIN pods \ todo : pods[c] = "failed" \/ (pods[c] = "zero" /\ ~first)}

\* A pod is listed as the last of its containers handled so far says.
ListInv ==
  \A c \in Telling :
    (\A d \in Telling : PodOf[d] = PodOf[c] => d <= c) =>
      (Listed(PodOf[c]) <=> pods[c] = "failed")
=============================================================================
