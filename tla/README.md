# Verification of monitoring-wo-webhooks

This directory holds TLA+ modules that model the reconcilers of the operator in
`src/`, the TLC configurations that check them on small instances, and proofs
about them for every value of the constants, checked by TLAPS.

`PROJECT.json` lists the components, the runs, the mutants that each property
rules out, the source lines every definition stands for, the hazards and the
theorems. All other files are modules (`*.tla`) and TLC configurations (`*.cfg`).

## 1. The system

The operator watches four kinds of cluster-scoped resources. Each kind has one
controller (controller-runtime v0.20.2, one worker, one replica), and one
resource is one monitoring job. A controller's `Reconcile` reads the resource
from the informer cache, scans something, sends mails and alerts, and writes the
resource's status in a deferred function. Mails and alerts are deduplicated with
files in the container's own file system: a *mail file* holding `sent`, and an
*ext file* holding the fingerprint of the last alert the external system took.

| part | code | state | operations |
|---|---|---|---|
| PortScan reconciler | `internal/controller/portscan_controller.go`, `internal/portscan/portutil/util.go` | status (condition, `LastPollTime`, `AffectedTargets`, `ExternalNotified`, `IncidentID`), mail and ext files | dial every target; mail, alert, look up tickets; mail and resolve on recovery |
| VmScan reconciler | `internal/controller/vmscan_controller.go`, `internal/vmscan/util/util.go` | status (also `Migrations`), mail and ext files per namespace and node | list VMIs, keep the list of migrations, count VMIs per node |
| ContainerScan reconciler | `internal/controller/containerscan_controller.go`, `internal/containerscan/util/util.go` | status (`AffectedPods`), ext files per container or per pod | prune the list, list pods, alert per container or per pod, remove files of healthy namespaces |
| MetallbScan reconciler | `internal/controller/metallbscan_controller.go`, `internal/metallbscan/util/util.go` | status (`FailedChecks`, `IncidentID`), two files per check | services, pools, advertisements, endpoints, BGP hops and routes; goroutines per service |
| status and specs | `api/v1alpha1/*_types.go` | the resources | conversions of conditions |
| webhooks | `api/v1alpha1/*_webhook.go` | none | defaults and validation, not registered |
| manager | `cmd/main.go`, `Dockerfile`, `config/` | process, container file system | start, restart |

How the parts interact:

- *API server → reconciler.* The informer's copy lags behind the stored
  resource. `Status().Update` is refused when the copy that was read is not the
  latest version. The error makes `Reconcile` return an error, and the key is
  retried. An accepted update makes a watch event, which queues the key again.
- *Work queue → reconciler.* A key is handled by one worker at a time. An event
  during the handling marks it dirty. `RequeueAfter`, an error or a panic
  (recovered by controller-runtime) adds it again later. A return of
  `ctrl.Result{}, nil` adds nothing.
- *Reconciler → files → external system.* A file is read before a mail or a
  POST and written after it (ext file) or before it (mail file). The files do
  not survive a restart of the container; the status does.
- *The world.* Hosts, VMIs, pods and services change between any two calls that
  look at them.

What is hard in this code: stale reads followed by side effects that a refused
update cannot undo; failures between the POST, the file and the status; the loss
of the files on restart; verdicts assembled from several lists taken at
different moments; returns that rely on a watch event; lists that are changed
while they are ranged over; optional pointers that are dereferenced; and, in
MetallbScan, goroutines that append to the same status without a lock.
`PROJECT.json` names 40 such hazards with their lines.

What makes each component correct:

- PortScan: no alert or mail storm whatever is retried; files suppress only what
  was really sent; the stored list agrees with what the scan found; success is
  reported only when all targets answered; lasting outages and recoveries end up
  reported; the key is never lost.
- VmScan: the same for alerts and mails; a stored verdict that fits what was
  seen; the list of migrations settles.
- ContainerScan: the same for alerts; a verdict that fits the first failing
  namespace; a list that fits the containers; deleted pods leave the list;
  suspended resources come back when resumed.
- MetallbScan: a check that fails all through a scan is listed at its end and one
  that passes is not, unless goroutines raced; whatever a race, a rolling update or
  a deleted service left behind is repaired by later scans; no alert or mail storm.

## 2. Modules

| module | models |
|---|---|
| `ScanLifecycle` | the abstract promise to a user who watches one resource: condition, success stamp, list |
| `PortScan` | one PortScan resource, API server and informer, work queue, worker, files, mails, alerts, network, user, restarts |
| `VmScan` | one VmScan resource, informer, worker, files, mails, alerts, VMIs that migrate, restarts |
| `ContainerScan` | one ContainerScan resource, API server and informer, work queue, worker, ext files, alerts, pods and containers, restarts |
| `MetallbScan` | one MetallbScan resource, API server and informer, work queue, worker, the goroutines of each phase, the shared list, files, mails, alerts, services and nodes that break and heal, rolling updates, restarts |
| `MCPortScan`, `MCVmScan`, `MCContainerScan`, `MCMetallbScan` | the values of the constants for TLC |
| `PortScanProofs` | types, alerts and mails of PortScan, proved |
| `PortScanStatusProofs` | what PortScan stores, and that it implements `ScanLifecycle`, proved |
| `VmScanProofs` | types, alerts and mails of VmScan, proved |
| `VmScanStatusProofs` | what VmScan stores, and that it implements `ScanLifecycle`, proved |
| `InductionLemmas` | induction over the naturals by sets, and the existence of functions defined by iteration |
| `ContainerScanProofs` | the pruning of the list, types, alerts and the queue of ContainerScan, proved |
| `ContainerScanStatusProofs` | what a ContainerScan stores of its namespaces, proved |
| `MetallbScanProofs` | the shared slice, types, alerts, mails and the queue of MetallbScan, proved |

`PortScan` and `VmScan` are shown to implement `ScanLifecycle` with `INSTANCE ...
WITH`. ContainerScan does not: its stamp is renewed together with `False`
(section 4, `ContainerScan_stamp`), so for it the module states weaker and exact
properties of its own.

### State and steps

The four reconciler modules share one shape. `obj` (`st` in VmScan) is the
stored resource and `cache` the informer's copy. `cacheFresh` and `memFresh` say
whether the cache, or the copy `mem` that `Reconcile` works on, is the latest
version. Resource versions are not counted: only "latest or not" matters to the
code. `queue` and `timer` are the work queue. `pc` is where `Reconcile` stands:

- `Get` takes the key and the informer's copy;
- the next step is one early return (`SecretMissing`, `FirstSeen`, `NoClient`,
  `Suspended`, ...) or `StartScan`;
- then one step for each item, or for each call that reads the cluster;
- `EndScan` (in ContainerScan `NamespaceFailed`, `NamespaceHealthy` and
  `NilAggregatePanic`) decides;
- `Commit` or `CommitFails` is the deferred status update.

A step handles its item completely: mail, POST, file, ticket and status change.
Files and `mem` belong to the one worker, so nothing can come between these
except a crash, and a crash there leaves what a failed or unanswered call
followed by `Crash` leaves. Calls that read the cluster are steps of their own
because the cluster moves between them.

The condition, the stamp, the list, the notified flag and the tickets of the
status are kept; messages, times and events are not. A time stamp is `never`,
`recent` or `due`, and `Elapse` turns a recent one into one older than the
interval. The n-th alert accepted under a file has fingerprint n. A ticket is
named by its file and fingerprint, and `Stray` is whatever the external system
answers to a query with an empty key. A POST is taken, refused, or taken without
an answer (`lost`).

Counters (`fired`, `cleared`, `lost`, `mailDebt`, `restarts`, `alerts`; `mails` in
VmScan) and sets (`answered`, `checked`, `resolved`, `steady`, `ever`, with the flags
`disturbed` and `skipped`) observe and never guard a step.

In `ContainerScan` a container is `failed` (terminated with an error or in
CrashLoopBackOff), `zero` (terminated without) or `running`. Mails are left out
there because `SendEmailAlert` returns when the mail file cannot be read and
nothing else writes one. `PruneWhileRanging` follows the Go slice: the loop keeps
the length it started with and the array's tail has moved.

In `VmScan` the work queue is left open: every return of `Reconcile` asks for
another call, so a call may come at any time.

### MetallbScan

A scan is a sequence of phases, and `pc` names the next one:

`gate1` `services` `pools` `ads` `gate2` `endpoints` `noeps` `gate3` `nodes` `hops`
`cleanup` `gate4` `routes` `announced` `clean` `verdict`

A first scan leaves out `cleanup` and `clean` and hardly drops any entry. Each phase
reads the cluster as it is at that moment; what a later phase uses of that read is kept
in `lbsvcs`, `pooled`, `eps`, `hops` and `seen`, the locals of `Reconcile`. A `Gate` is
`CheckMCPINProgress`: a rolling update ends the scan without a verdict.

A phase hands its checks to threads (`Dispatch`): one per service, pod, hop or route
where the code starts goroutines, and the single thread `main` where it loops in its own.
A thread's steps are its accesses to what it shares with the others:

| step | code |
|---|---|
| `Test` | `slices.Contains(status.FailedChecks, ...)`, and whether the mail file is there |
| `Mail` | `SendEmailAlert` |
| `FindIndex` | `slices.Index` |
| `Load` | the read of `status.FailedChecks` as the argument of `append` |
| `StoreAppend`, `StoreDelete` | the write into the array and of the new header |
| `Post` | the POST and the write of the fingerprint |
| `Join` | `wg.Wait` |

`list` holds backing arrays and the header that `FailedChecks` is: an append writes in
place while there is room and otherwise, as the Go runtime may choose, into a new array
with or without room; a deletion moves the tail down inside the array. Two goroutines
that loaded the same header therefore lose an append or double a deletion exactly as the
code does, and an index past the end of the list ends the process (`ThreadPanics`). A
panic of `Reconcile`'s own loops is recovered from (`verdict` `panic`).

What is wrong in the cluster is a set `bad` of conditions such as `<<"pool", s>>` (the IP
of service s is in no pool) or `<<"down", n>>` (the hop of node n is not established);
their texts in `FailedChecks` are `Entry`. The peers of an advertisement are checked by
one goroutine for each service it covers (1172), while the entry and the files are named
after the advertisement (1230-1240): `AdOf` says which services share one.

Some conditions have no text (`Unlisted`). An "unadvertised" pool has no entry because
the goroutine does nothing when the name of the advertisement is empty (1175); a hop
without a remote AS is left out (2370); "quiet" is a node without a speaker pod while the
daemonset counts all of its pods; endpoints that are not ready end the reading of all
endpoints (2137); and an endpoint without a target reference (2141, "bare") or a node
name (2175, "nodeless") is a panic in every scan. "Not valid" hops do not exist because
`valid` is always true (2375).

`NoPools` is the one condition about the cluster: when no pool has an address,
`checkIpPool` returns an error (1958-1960), and every scan skips the checks of pools and
of advertisements. Nothing is then listed, and Ready may be True for as long as that
lasts. `Hidden` names what keeps a scan from making a check in this way, and the
properties about single scans and about liveness except it; `skipped` is a read that
fails by itself.

## 3. Bounds

`MaxOutages`, `MaxMoves`, `MaxChanges`: how often the world changes.
`MaxFaults`: failed calls, lost answers and crashes. `MaxEdits`: edits, deletions
and creations by the user. Everything else (retries, stale reads, elapsed
intervals, conflicts) is unbounded. The properties compare a scan with the one
before or with the next, so two changes (fail and recover, or fail again) and one
or two faults placed anywhere meet every case split of the code. Two items are
enough for one to be handled before and one after the other; three appear where
order within a list matters (`PortScan_status`, `ContainerScan_scan`). The
theorems of section 5 need no bound.

In `MetallbScan`, `Events` is the set of things that may break, or be mended, together,
`AtFirst` what may be wrong when the resource is created, and `MaxChanges` counts events,
services that come and go, rolling updates and edits together. One change is enough for
the two liveness properties: what is wrong at first may heal or stay, or something new
breaks, at any step of any scan. Some of the events of `MetallbScan_scan` concern one
service or node each; the event about the pools concerns both services, so that two
goroutines change the list at once, and the initial states have up to three failures of
different phases. `MetallbScan_alerts` has two services on one advertisement without
peers, hence two goroutines with the same check, and a fault: both may alert, and one of
them twice when an answer is lost and the status update that follows is refused, which
is three alerts for one entry, the bound. The goroutines of several endpoints of a
service, and the mail sent by mistake when a route is the best again, are not in that
run; the theorems cover them.

Deadlock is checked except in two runs: in `PortScan_status` the user may delete
the resource for good, and in `ContainerScan_scan` a suspended resource is not
requeued. The system really may stop there.

## 4. Runs

| run | question and result |
|---|---|
| `PortScan_alerts` | Two targets, both channels, two outages, two faults. `FiringsAccounted`: accepted alerts per file are at most recoveries + lost answers + restarts + 1. `SuppressionJustified`: a file names the last accepted alert. `MailsAccounted`: the same for mails. |
| `PortScan_status` | Edits, deletions, a target without a port, a resource without `notifyExternal`. `NeverForgotten`, `SuccessMeansAllAnswered`, `LaterScanStoresWhatItFound`, `NoOutageDropped`, and the refinement `ImplementsLifecycle`. |
| `PortScan_live` | `DownIsReported` and `UpIsReported` under fairness. |
| `VmScan_alerts` | Two nodes, two VMIs in one namespace that move three times. Alerts and mails as above. |
| `VmScan_place` | Two namespaces. `VerdictIsThatOfTheTail`: the stored list is that of the nodes after the last one without a violation, and the verdict that of the last node. `NonViolatedListsNothing`, `ImplementsLifecycle`, and under fairness `PlacementIsReported` (for the last node) and `MigrationsSettle`. |
| `VmScan_verdict` | violated: success is stored by a scan that saw a violation on an earlier node. |
| `ContainerScan_alerts` | Two containers of one pod, alerts per container, per pod, and with `aggregateAlerts` unset. `FiringsAccounted`; `ResolvedWasFired`: a resolved message closes an alert accepted for that very container. |
| `ContainerScan_scan` | Three containers, two pods, two namespaces, suspension. `VerdictIsOfTheFirstFailure`, `ListFollowsTheLastContainer` (a pod's last failed or completed container decides), `NeverForgotten`, and under fairness `FailureIsReported` and `RecoveryIsReported`. |
| `ContainerScan_stamp` | violated: `LastRunTime`, documented as the last run without failed containers, is renewed by a scan that found one. |
| `MetallbScan_alerts` | Two services on one advertisement, whose goroutines find the same check failed or mended; a failed call, a lost answer or a crash. `AlertsBounded`, `MailsBounded`: a check is alerted, and mailed, at most once per goroutine that makes it until its entry is dropped, and alerted once more per lost answer, although the goroutines test before they write and a refused update loses the list. |
| `MetallbScan_scan` | Two services, fifteen events (among them: all pools are gone, endpoints are not ready, Reconcile panics on an endpoint), services that come and go, rolling updates, suspension. `FailingChecksAreListed`: what fails all through a scan is on the list at its end, if no stale header or index was used, no read failed and nothing hid the check (`Hidden`). `HealedChecksAreDropped`: what passes all through a later scan is off the list. `NeverForgotten`, and under fairness `FailureIsReported` and `RecoveryIsReported`, also after races: a lost entry is found again, a doubled one is dropped, and only the entries that no phase tests any more, of deleted services and their advertisements and nodes (`Orphans`), may stay. |
| `MetallbScan_ready` | violated: a service without an IP leaves the list in the very scan that lists it, and Ready is True. |

The module `MCContainerScan` also has TLC evaluate, on every list of up to four
pods and every set of deleted ones, what `PruneWhileRanging` keeps: pods that
still exist, in order; not the first deleted one; and exactly the right ones when
the list has at most two entries. Longer lists may keep deleted pods, which
`RecoveryIsReported` shows to be repaired by later scans. `PruningIsSafe` proves the
part of it that later scans rest on for lists of every length.

### Fairness

`WF(Reconcile)`: the one worker runs while there is work, and no step of it waits
for another (dials and HTTP requests have timeouts). `WF(TimerFires)`,
`WF(WatchEvent)`: the queue's delayed adds and the informer of controller-runtime.
`WF(Elapse)`: time passes. No fairness is assumed of faults, users, hosts, VMIs,
pods, services or nodes. The liveness properties have the form "if the world stays so for
ever, the status ends up so for ever".

Those of MetallbScan have one more hypothesis, `PanicsEnd`: goroutines do not end the
process again and again. Two goroutines that delete can do so in each scan, and each
restart begins with the same list; that they do not for ever is a property of the Go
scheduler that no fairness of the code's own steps expresses.

## 5. Proofs

Every theorem holds for all values of the constants that satisfy the module's
`ConstantsAssumption`, which TLC evaluates in every run, and assumes nothing else. The
bounds of section 3 are arbitrary naturals there.

Each proof has the same shape: an inductive invariant, one lemma per part of it or
per group of variables, with a step for each action, and a last step in temporal logic.
The inductive invariants stand at the ends of the modules they are about and were
checked by TLC before they were proved.

### PortScan

For any number of targets, any naming of the files (also when two targets share one)
and any specs:

- `TypeCorrect`: `PortScan` keeps `TypeOK`.
- `NoAlertStorm`, `SuppressionIsJustified`, `MailsAlternate`: the three invariants of
  `PortScan_alerts` about alerts and mails. None is inductive. `AlertInv` is: a
  file that exists stands for one open alert (or mail) that the sums count, so
  the bound is `... + restarts + Open(file)` in place of `+ 1`, and each step
  either creates the file together with the alert, removes it together with a
  recovery, or loses it together with a restart.
- `ResourceIsNeverForgotten`: with the work queue invariant.
- `SuccessIsEarned`, `LaterScanIsExact`, `OutagesAreListed`: from `WorkerInv`,
  which says what `mem` has to do with `obj` while `memFresh` holds: equal before
  the scan, `Decided(todo)` during it (every target already handled answered or is
  listed), and one of five cases at the commit, one per return of `Reconcile`.
  When `memFresh` is lost nothing needs to be known, because the update is refused.
- `Refinement`: initial states map to initial states of `ScanLifecycle`, and
  every step to a step or a stutter. Only `Commit`, `Elapse` and the user's
  actions touch the mapped state.

### VmScan

For any nodes, namespaces, VMIs and files:

- `TypeCorrect`, and from `AlertInv` `NoAlertStorm`, `SuppressionIsJustified` and
  `MailsAreAccounted`. The argument is PortScan's, but mails are not symmetric: a scan
  that finds a node in order sends the recovered mail again, so what is bounded is the
  mails against the debt the file stands for.
- `VerdictIsOfTheTail`: an action property. `VerdictInv` carries through the scan which
  nodes were passed and what the flag and the list say of the nodes since the last clean
  one; `PlaceInv` says what the lists of VMIs taken before it contain.
- `SuccessListsNothing`: with `FreshInv`, which relates `mem` to the stored status while
  the update can still be accepted.
- `Refinement` of `ScanLifecycle`.

### ContainerScan

For any pods, containers and namespaces:

- `PruningIsSafe`: the loop that deletes from the list it ranges over keeps every pod
  that exists, adds none, doubles none, and shortens each list in which there is a
  deleted pod. Repeated scans therefore end with none.
- `TypeCorrect`; `PodsAreListedOnce` from `DistinctInv`, on which the removal of the
  first entry of a pod depends.
- `NoAlertStorm` and `ResolvedMeansFired` from `AlertInv`: what a file holds was
  accepted for that container, and nothing else was accepted since. `ScopeInv` keeps the
  containers that are still to be looked at apart from those done.
- `ResourceIsNeverForgotten` from `WorkerInv`: a suspended resource is not requeued, so
  a resumption has to be seen by the copy that is worked on or by an event to come.
- `VerdictOfTheFirstFailure` and `ListOfTheLastContainer`: action properties, from
  `VerdictInv` and `ListInv`, which say the same of the part of a scan that is done.

### MetallbScan

For any services, nodes, advertisements and endpoints, and every interleaving of the
goroutines:

- `TypeCorrect`. Types are not obvious here: what a goroutine writes goes through a
  header it read some time ago. `ListInv` says that such a header points into an array
  that is at least as long; it is inductive because no write makes an array shorter
  (`Grows`). `ThreadInv` says that goroutines exist in one phase only and have something
  left to do, and `ScopeInv` that nothing of an earlier scan is left when the services
  are listed. The loops over the list and the choice of the checks are recursive
  functions: `Iterates` of `InductionLemmas` gives their existence, and an induction over
  the naturals the type of every turn.
- `OwnersHold`: `OwnerInv`. Each check has `Makers`, the goroutines it may be handed to:
  those of the endpoints of a service, of the services that share an advertisement, the
  one of a service, hop or node, or Reconcile's own. A goroutine only ever has checks
  before it that it is a maker of, and only a failing one when it is about to send. The
  makers of a failing check number `Goroutines` (`MakersCount`).
- `AlertsAreBounded`, `MailsAreBounded`: `SentInv` counts what was sent for a check
  together with the goroutines that have seen no file and are about to send. Once
  something was sent and answered the file is there and none joins them, so the sum does
  not grow; before, `OwnerInv` bounds it. An alert whose answer is lost leaves no file and
  is counted with the others and in `lost`. The alerts that are mailed by mistake when a
  route is the best again are sent by a goroutine that is itself not among those waiting.
- `NobodyIsForgotten`: from `WorkerInv`. The one return that asks for no requeue stores
  a condition the resource did not have, so that a watch event follows.

### Induction

The induction theorems of the library take an operator as a parameter, which none of the
provers at hand can instantiate. `InductionLemmas` therefore states induction by sets
(`NatInductionSet`: a set that has 0 and with n also n + 1 contains every natural), from
`WFMin`'s argument that a set of naturals has a least element, and that a function which
iterates a step exists and has the type of its step. What a recursive function of the
models returns is proved with these.

### Only model-checked

- All liveness properties, and what follows from fairness: TLAPS has neither fairness
  nor `ENABLED` here.
- `FailingChecksAreListed` and `HealedChecksAreDropped` of MetallbScan: they need, on top
  of the invariants above, what each of the sixteen phases has read and handed to its
  goroutines.
- The runs that expect a violation: there is nothing to prove.
- That an accepted alert is closed when its target answers again (PortScan), or when a
  container of an aggregated pod recovers (ContainerScan), is not stated anywhere: it is
  false of the code, which looks for the fingerprint in the mail file, not in the
  `-ext` file (`portscan_controller.go:235-251`), or under another name than the one it
  was written to (`containerscan_controller.go:521`).

## 6. Not modelled, and why

- In MetallbScan: `IncidentID` and its tickets; services with several IPs or in several
  pools, nodes with several hops, services whose endpoints are on several nodes (each adds
  entries of the kinds that are there, to the same list, by the same goroutines); slice headers that are
  torn between two goroutines' writes of their words; the map of the config map, which all
  goroutines write (their messages may be mixed up, or the runtime ends the process, which
  is `Crash`); the deletion of the resource, which PortScan models; and branches that
  never run (1058-1087, 1570-1622 but for its tests, 1840-1865).
- A read that fails by itself in `MetallbScan` skips the phase; the run of the two exact
  properties has no such faults, and the properties except scans with one (`skipped`).
  That a cluster without pools is reported, or that an endpoint on which Reconcile panics
  ever gets a verdict, is false of the code and stated by no text of the repository:
  `Active` and `Hidden` except both, and `RecoveryIsReported` says what follows when they
  are mended.
- Webhooks: they are not registered in `cmd/main.go` (114-126, 156-162), so their
  defaults never apply. PortScan and ContainerScan therefore allow the unset
  optional fields.
- Generated code, tests, command-line flags, metrics, manifests: no behaviour of
  the reconcilers depends on them, except that the deployment has one replica and
  no volume, which is why `Crash` empties the files.
- Wording of mails and alerts, events, logs, Prometheus and TLS settings.
- An update that is stored although its answer is lost: to the resource it is a
  `Commit` followed by a retry, which `TimerFires` and `WatchEvent` already give.
- Two targets that share a file after `HandleCNString` dropped punctuation: the
  theorems cover the sharing for the alert bounds; what two sharing hosts may
  expect of each other is not stated anywhere in the code.

## 7. Plan

1. Done: `ScanLifecycle`, `PortScan`, `VmScan`, `ContainerScan`, `MetallbScan`; their
   types, the bounds on alerts and mails, what the first three store, the refinements, and
   that no resource is forgotten, proved.
2. `FailingChecksAreListed` for any services, nodes and endpoints: the invariant follows
   an entry from the phase that makes the check to the verdict.
3. `HealedChecksAreDropped`: the same with entries that are listed once.
