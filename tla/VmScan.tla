------------------------------- MODULE VmScan -------------------------------
(***************************************************************************)
(* The VmScan reconciler: it lists the controller VMIs of some namespaces  *)
(* and reports a violation when a node runs two of them.  One resource,    *)
(* the informer cache it is read from, the dedup files, one per namespace  *)
(* and node, the mails and alerts, and the VMIs, which migrate, and may be *)
(* deleted, between any two of the calls that list them.                   *)
(*                                                                         *)
(* When Reconcile is called is left open (a timer, a retry or a watch      *)
(* event: at any time).  The handling of one node is one step: it works on *)
(* private files and a private copy of the object.                         *)
(***************************************************************************)
EXTENDS Integers, FiniteSets

CONSTANTS
  N,            \* number of nodes, in the order nodeList gives them
  M,            \* number of target namespaces, in the order of the spec
  Vmi,          \* the VMIs whose name contains "controller"
  NsOf,         \* the namespace of each
  Confs,        \* specs: who is alerted, and whether the scan is suspended
  MaxMoves,     \* bound: migrations, landings and deletions
  MaxFaults,    \* bound: failed calls and crashes
  NoFile,       \* the file does not exist
  Sent,         \* the content "sent"
  Stray         \* the ticket that may answer a query without a fingerprint

Node == 1..N
Namespace == 1..M
File == Namespace \X Node
Conf == [email : BOOLEAN, notify : BOOLEAN, suspend : BOOLEAN]
Pending == 0                \* Status.NodeName is empty
Gone == N + 1               \* the VMI is deleted

ASSUME ConstantsAssumption ==
  /\ N \in Nat /\ M \in Nat
  /\ NsOf \in [Vmi -> Namespace]
  /\ Confs \subseteq Conf
  /\ MaxMoves \in Nat /\ MaxFaults \in Nat
  /\ NoFile \notin Nat /\ Sent \notin Nat /\ NoFile # Sent

VARIABLES
  conf,         \* the spec
  st,           \* the stored status
  cache,        \* the informer's copy of it
  cacheFresh,   \* the informer has seen the latest version
  \* the worker
  pc, mem, memFresh,
  ns,           \* the namespace being handled
  seen,         \* vmiNodes: <<node, VMI>> pairs, kept from one namespace to the next
  todo,         \* nodes not yet handled in this namespace
  isAffected,
  verdict,      \* how Reconcile returns
  \* the container's file system
  mailFile, extFile,
  \* the cluster
  place,        \* where each VMI runs
  migration,    \* its migration state: none, ongoing, completed
  \* observation
  mails,        \* alert mails, per file
  fired,        \* firing alerts accepted, per file; the n-th has fingerprint n
  cleared,      \* recoveries that removed the files
  lost,         \* accepted alerts whose answer never came
  restarts, moves, faults

worker == <<pc, mem, memFresh, ns, seen, todo, isAffected, verdict>>
files  == <<mailFile, extFile>>
ext    == <<mails, fired, cleared, lost>>
vmis   == <<place, migration>>
stored == <<conf, st, cache, cacheFresh>>
vars   == <<stored, worker, files, ext, vmis, restarts, moves, faults>>

-----------------------------------------------------------------------------

EmptyStatus == [verdict |-> "none", poll |-> "never", affected |-> {},
                notified |-> FALSE, incidents |-> {}, migrations |-> {}]

Init ==
  /\ conf \in Confs
  /\ st = EmptyStatus /\ cache = st /\ cacheFresh = TRUE
  /\ pc = "idle" /\ mem = EmptyStatus /\ memFresh = FALSE
  /\ ns = 0 /\ seen = {} /\ todo = {} /\ isAffected = FALSE /\ verdict = "again"
  /\ mailFile = [f \in File |-> NoFile] /\ extFile = [f \in File |-> NoFile]
  /\ place \in [Vmi -> Node \cup {Pending}]
  /\ migration = [v \in Vmi |-> "none"]
  /\ mails = [f \in File |-> 0]
  /\ fired = [f \in File |-> 0] /\ cleared = [f \in File |-> 0]
  /\ lost = [f \in File |-> 0]
  /\ restarts = 0 /\ moves = 0 /\ faults = 0

Fail(n) == faults + n <= MaxFaults /\ faults' = faults + n

Return(v) == pc' = "commit" /\ verdict' = v

Exit ==
  /\ pc' = "idle" /\ mem' = EmptyStatus /\ memFresh' = FALSE
  /\ ns' = 0 /\ seen' = {} /\ todo' = {} /\ isAffected' = FALSE /\ verdict' = "again"

SetNonViolationCondition(s, v) == [s EXCEPT !.verdict = v]

-----------------------------------------------------------------------------
(* Reconcile up to the scan *)

Get ==
  /\ pc = "idle"
  /\ pc' = "setup" /\ mem' = cache /\ memFresh' = cacheFresh
  /\ UNCHANGED <<stored, ns, seen, todo, isAffected, verdict, files, ext, vmis,
                 restarts, moves, faults>>

\* The secret or config map is missing: an error before the deferred update exists.
SecretMissing ==
  /\ pc = "setup" /\ conf.notify /\ Fail(1)
  /\ Exit
  /\ UNCHANGED <<stored, files, ext, vmis, restarts, moves>>

\* No in-cluster configuration or client, or the nodes cannot be listed.
NoClient ==
  /\ pc = "setup" /\ Fail(1)
  /\ Return("error")
  /\ UNCHANGED <<stored, mem, memFresh, ns, seen, todo, isAffected, files, ext, vmis,
                 restarts, moves>>

\* Suspended, or the interval has not passed.
NothingToDo ==
  /\ pc = "setup" /\ (conf.suspend \/ mem.poll = "recent")
  /\ Return("again")
  /\ UNCHANGED <<stored, mem, memFresh, ns, seen, todo, isAffected, files, ext, vmis,
                 restarts, moves, faults>>

StartScan ==
  /\ pc = "setup" /\ ~conf.suspend /\ mem.poll # "recent"
  /\ pc' = "migrations" /\ ns' = 1
  /\ UNCHANGED <<stored, mem, memFresh, seen, todo, isAffected, verdict, files, ext,
                 vmis, restarts, moves, faults>>

-----------------------------------------------------------------------------
(* The scan *)

Listed(v) == NsOf[v] = ns /\ place[v] # Gone

\* (mutant) a completed migration is not taken off the list
CheckMigrationsAdding ==
  /\ pc = "migrations" /\ ns <= M
  /\ mem' = [mem EXCEPT !.migrations =
               @ \cup {v \in Vmi : Listed(v) /\ migration[v] = "ongoing"}]
  /\ ns' = ns + 1
  /\ UNCHANGED <<stored, pc, memFresh, seen, todo, isAffected, verdict, files, ext,
                 vmis, restarts, moves, faults>>

\* The migrations of one namespace; a list that cannot be read counts as empty.
CheckMigrations ==
  /\ pc = "migrations" /\ ns <= M
  /\ \/ /\ mem' = [mem EXCEPT !.migrations =
             (@ \ {v \in Vmi : Listed(v) /\ migration[v] = "completed"})
                \cup {v \in Vmi : Listed(v) /\ migration[v] = "ongoing"}]
        /\ UNCHANGED faults
     \/ Fail(1) /\ UNCHANGED mem
  /\ ns' = ns + 1
  /\ UNCHANGED <<stored, pc, memFresh, seen, todo, isAffected, verdict, files, ext,
                 vmis, restarts, moves>>

StartPlacementCheck ==
  /\ pc = "migrations" /\ ns = M + 1
  /\ pc' = "place" /\ ns' = 1
  /\ UNCHANGED <<stored, mem, memFresh, seen, todo, isAffected, verdict, files, ext,
                 vmis, restarts, moves, faults>>

\* (mutant) the VMIs of earlier namespaces are forgotten
ListVmisOfOneNamespace ==
  /\ pc = "place" /\ todo = {} /\ ns <= M
  /\ seen' = {<<place[v], v>> : v \in {w \in Vmi : Listed(w)}}
  /\ todo' = Node
  /\ IF todo' = {} THEN ns' = ns + 1 ELSE UNCHANGED ns
  /\ UNCHANGED <<stored, pc, mem, memFresh, isAffected, verdict, files, ext, vmis,
                 restarts, moves, faults>>

ListVmis ==
  /\ pc = "place" /\ todo = {} /\ ns <= M
  /\ seen' = seen \cup {<<place[v], v>> : v \in {w \in Vmi : Listed(w)}}
  /\ todo' = Node
  /\ IF todo' = {} THEN ns' = ns + 1 ELSE UNCHANGED ns
  /\ UNCHANGED <<stored, pc, mem, memFresh, isAffected, verdict, files, ext, vmis,
                 restarts, moves, faults>>

ListVmisFails ==
  /\ pc = "place" /\ todo = {} /\ ns <= M
  /\ Fail(1)
  /\ Return("error")
  /\ UNCHANGED <<stored, mem, memFresh, ns, seen, todo, isAffected, files, ext, vmis,
                 restarts, moves>>

On(n) == {p \in seen : p[1] = n}
Shared(n) == Cardinality(On(n)) > 1

\* The nodes are taken in order; after the last one comes the next namespace.
Take(n) ==
  /\ pc = "place" /\ n \in todo /\ \A m \in todo : n <= m
  /\ todo' = todo \ {n}
  /\ ns' = IF todo' = {} THEN ns + 1 ELSE ns
  /\ UNCHANGED <<stored, pc, memFresh, seen, verdict, vmis, restarts, moves>>

\* (mutant) the mail file is not looked at
SendEmailAlways(f) ==
  /\ mailFile' = [mailFile EXCEPT ![f] = Sent]
  /\ mails' = [mails EXCEPT ![f] = @ + 1]

\* SendEmailAlert writes the file whether or not the mail could be sent.
SendEmailAlert(f) ==
  IF mailFile[f] = NoFile
    THEN /\ mailFile' = [mailFile EXCEPT ![f] = Sent]
         /\ mails' = [mails EXCEPT ![f] = @ + 1]
    ELSE UNCHANGED <<mailFile, mails>>

\* (mutant) the fingerprint is written before the POST
PostAfterWrite(f, outcome) ==
  /\ fired' = IF outcome = "failed" THEN fired ELSE [fired EXCEPT ![f] = @ + 1]
  /\ lost' = IF outcome = "lost" THEN [lost EXCEPT ![f] = @ + 1] ELSE lost
  /\ extFile' = [extFile EXCEPT ![f] = fired[f] + 1]

\* (mutant) the content of a mail file is written to the ext file
PostFiringWritesSent(f, outcome) ==
  /\ fired' = IF outcome = "failed" THEN fired ELSE [fired EXCEPT ![f] = @ + 1]
  /\ lost' = IF outcome = "lost" THEN [lost EXCEPT ![f] = @ + 1] ELSE lost
  /\ extFile' = IF outcome = "ok" THEN [extFile EXCEPT ![f] = Sent] ELSE extFile

\* A firing alert under a new fingerprint is taken, refused, or taken without an answer.
PostFiring(f, outcome) ==
  /\ fired' = IF outcome = "failed" THEN fired ELSE [fired EXCEPT ![f] = @ + 1]
  /\ lost' = IF outcome = "lost" THEN [lost EXCEPT ![f] = @ + 1] ELSE lost
  /\ extFile' = IF outcome = "ok" THEN [extFile EXCEPT ![f] = fired[f] + 1]
                                  ELSE extFile

\* NotifyExternalSystem in a first scan and SubNotifyExternalSystem in a later one:
\* nothing is posted while the file holds a fingerprint.
NotifyExternalSystem(f, outcome) ==
  IF extFile[f] # NoFile THEN UNCHANGED <<extFile, fired, lost>>
                         ELSE PostFiring(f, outcome)

SetIncidentID(f, content, found) ==
  CASE ~found                      -> {}
    [] found /\ content # NoFile   -> {<<f, content>>}
    [] OTHER                       -> {Stray}

\* A node with two controller VMIs, of whatever namespaces listed so far: they are
\* listed, a mail is sent once per dedup file, and an alert is raised unless one is
\* marked as raised already, for whatever node.
NodeShared(n) ==
  LET f == <<ns, n>> IN
  /\ Take(n) /\ Shared(n)
  /\ isAffected' = TRUE
  /\ IF conf.email THEN SendEmailAlert(f) ELSE UNCHANGED <<mailFile, mails>>
  /\ IF conf.notify /\ ~mem.notified
       THEN \E outcome \in {"ok", "failed", "lost"}, found \in BOOLEAN :
              /\ NotifyExternalSystem(f, outcome)
              /\ Fail(IF outcome = "ok" THEN 0 ELSE 1)
              /\ mem' = [mem EXCEPT
                   !.affected = @ \cup On(n), !.notified = TRUE,
                   !.incidents = @ \cup SetIncidentID(f, extFile'[f], found)]
       ELSE /\ mem' = [mem EXCEPT !.affected = @ \cup On(n)]
            /\ UNCHANGED <<extFile, fired, lost, faults>>
  /\ UNCHANGED cleared

\* (mutant) a violation found before still counts
NodeAloneKeepsFlag(n) ==
  /\ Take(n) /\ ~Shared(n) /\ extFile[<<ns, n>>] = NoFile
  /\ mem' = [mem EXCEPT !.affected = {}]
  /\ UNCHANGED <<isAffected, files, ext, faults>>

\* (mutant) what other nodes have added is kept
NodeAloneKeepsOthers(n) ==
  /\ Take(n) /\ ~Shared(n) /\ extFile[<<ns, n>>] = NoFile
  /\ isAffected' = FALSE
  /\ UNCHANGED <<mem, files, ext, faults>>

\* A node without a violation clears the flag and the list, also for the nodes
\* before it.
NodeAlone(n) ==
  /\ Take(n) /\ ~Shared(n) /\ extFile[<<ns, n>>] = NoFile
  /\ isAffected' = FALSE
  /\ mem' = [mem EXCEPT !.affected = {}]
  /\ UNCHANGED <<files, ext, faults>>

\* It has an ext file: a recovered mail goes out, which looks at the mail file and leaves
\* it, and only if an alert is marked as raised are the ticket and both files dropped (the
\* "resolved" POST in between takes its fingerprint from the mail file and changes nothing
\* here).
NodeRecovered(n) ==
  LET f == <<ns, n>> IN
  /\ Take(n) /\ ~Shared(n) /\ extFile[f] # NoFile
  /\ isAffected' = FALSE
  /\ IF conf.notify /\ mem.notified
       THEN /\ \E found \in BOOLEAN :
                 mem' = [mem EXCEPT
                   !.affected = {},
                   !.incidents = @ \ SetIncidentID(f, extFile[f], found)]
            /\ mailFile' = [mailFile EXCEPT ![f] = NoFile]
            /\ extFile' = [extFile EXCEPT ![f] = NoFile]
            /\ cleared' = [cleared EXCEPT ![f] = @ + 1]
       ELSE /\ mem' = [mem EXCEPT !.affected = {}]
            /\ UNCHANGED <<files, cleared>>
  /\ UNCHANGED <<mails, fired, lost, faults>>

\* (mutant) a scan that found a violation also renews the stamp
EndScanStampsFailure ==
  /\ pc = "place" /\ ns = M + 1
  /\ Return(IF isAffected THEN "error" ELSE "again")
  /\ mem' = [SetNonViolationCondition(mem, "NonViolated")
               EXCEPT !.poll = "recent", !.notified = FALSE]
  /\ UNCHANGED <<stored, memFresh, ns, seen, todo, isAffected, files, ext, vmis,
                 restarts, moves, faults>>

EndScan ==
  /\ pc = "place" /\ ns = M + 1
  /\ IF isAffected
       THEN Return("error") /\ UNCHANGED mem
       ELSE /\ Return("again")
            /\ mem' = [SetNonViolationCondition(mem, "NonViolated")
                         EXCEPT !.poll = "recent", !.notified = FALSE]
  /\ UNCHANGED <<stored, memFresh, ns, seen, todo, isAffected, files, ext, vmis,
                 restarts, moves, faults>>

-----------------------------------------------------------------------------
(* The deferred status update *)

Reported == IF verdict = "error" THEN SetNonViolationCondition(mem, "Violated") ELSE mem

Commit ==
  /\ pc = "commit" /\ memFresh
  /\ st' = Reported
  /\ cacheFresh' = (cacheFresh /\ st' = st)
  /\ Exit
  /\ UNCHANGED <<conf, cache, files, ext, vmis, restarts, moves, faults>>

CommitFails ==
  /\ pc = "commit"
  /\ IF memFresh THEN Fail(1) ELSE UNCHANGED faults
  /\ Exit
  /\ UNCHANGED <<stored, files, ext, vmis, restarts, moves>>

-----------------------------------------------------------------------------
(* The watch, the clock, the cluster *)

WatchEvent ==
  /\ ~cacheFresh
  /\ cache' = st /\ cacheFresh' = TRUE
  /\ UNCHANGED <<conf, st, worker, files, ext, vmis, restarts, moves, faults>>

Aged(s) == [s EXCEPT !.poll = IF @ = "recent" THEN "due" ELSE @]

Elapse ==
  /\ st.poll = "recent" \/ cache.poll = "recent" \/ mem.poll = "recent"
  /\ st' = Aged(st) /\ cache' = Aged(cache) /\ mem' = Aged(mem)
  /\ UNCHANGED <<conf, cacheFresh, pc, memFresh, ns, seen, todo, isAffected, verdict,
                 files, ext, vmis, restarts, moves, faults>>

Moves ==
  /\ moves < MaxMoves /\ moves' = moves + 1
  /\ UNCHANGED <<stored, worker, files, ext, restarts, faults>>

Migrate(v) ==
  /\ place[v] \in Node /\ migration[v] # "ongoing"
  /\ migration' = [migration EXCEPT ![v] = "ongoing"] /\ UNCHANGED place
  /\ Moves

\* The VMI arrives on a node, or stays on its own because the migration failed.
Land(v, n) ==
  /\ migration[v] = "ongoing"
  /\ migration' = [migration EXCEPT ![v] = "completed"]
  /\ place' = [place EXCEPT ![v] = n]
  /\ Moves

Delete(v) ==
  /\ place[v] # Gone
  /\ place' = [place EXCEPT ![v] = Gone] /\ UNCHANGED migration
  /\ Moves

\* The manager dies, and its container's files with it.
Crash ==
  /\ Fail(1)
  /\ Exit
  /\ cache' = st /\ cacheFresh' = TRUE
  /\ mailFile' = [f \in File |-> NoFile] /\ extFile' = [f \in File |-> NoFile]
  /\ restarts' = restarts + 1
  /\ UNCHANGED <<conf, st, ext, vmis, moves>>

-----------------------------------------------------------------------------

ScanNode(n) == NodeShared(n) \/ NodeAlone(n) \/ NodeRecovered(n)

Reconcile ==
  \/ Get \/ SecretMissing \/ NoClient \/ NothingToDo \/ StartScan
  \/ CheckMigrations \/ StartPlacementCheck \/ ListVmis \/ ListVmisFails
  \/ (\E n \in Node : ScanNode(n)) \/ EndScan
  \/ Commit \/ CommitFails

Environment ==
  \/ WatchEvent \/ Elapse
  \/ \E v \in Vmi : Migrate(v) \/ Delete(v) \/ \E n \in Node : Land(v, n)
  \/ Crash

Next == Reconcile \/ Environment

\* Every return of Reconcile asks for another call, so the worker keeps running; watch
\* events arrive and time passes.
Fairness == WF_vars(Reconcile) /\ WF_vars(WatchEvent) /\ WF_vars(Elapse)

Spec == Init /\ [][Next]_vars
FairSpec == Spec /\ Fairness

-----------------------------------------------------------------------------
(* Properties *)

Status == [verdict : {"none", "Violated", "NonViolated"},
           poll : {"never", "recent", "due"},
           affected : SUBSET (Node \X Vmi),
           notified : BOOLEAN,
           incidents : SUBSET ((File \X Nat) \cup {Stray}),
           migrations : SUBSET Vmi]

TypeOK ==
  /\ conf \in Conf
  /\ st \in Status /\ cache \in Status /\ mem \in Status
  /\ cacheFresh \in BOOLEAN /\ memFresh \in BOOLEAN
  /\ pc \in {"idle", "setup", "migrations", "place", "commit"}
  /\ ns \in 0..(M + 1) /\ todo \in SUBSET Node
  /\ seen \in SUBSET ((Node \cup {Pending}) \X Vmi)
  /\ isAffected \in BOOLEAN /\ verdict \in {"again", "error"}
  /\ mailFile \in [File -> {NoFile, Sent}]
  /\ extFile \in [File -> Nat \cup {NoFile}]
  /\ place \in [Vmi -> 0..(N + 1)]
  /\ migration \in [Vmi -> {"none", "ongoing", "completed"}]
  /\ mails \in [File -> Nat]
  /\ fired \in [File -> Nat] /\ cleared \in [File -> Nat] /\ lost \in [File -> Nat]
  /\ restarts \in Nat /\ moves \in Nat /\ faults \in Nat

\* No alert storm: each accepted alert of a node is accounted for by a recovery that
\* removed its file, a restart, a lost answer, or the violation in progress.
FiringsAccounted ==
  \A f \in File : fired[f] <= cleared[f] + lost[f] + restarts + 1

\* A file suppresses alerts only in the name of the last alert accepted for its node.
SuppressionJustified ==
  \A f \in File : extFile[f] # NoFile => fired[f] > 0 /\ extFile[f] = fired[f]

\* No mail storm: a mail about a node is repeated only after a recovery or a restart,
\* although a later scan asks for one mail for every VMI on the node.
MailsAccounted ==
  \A f \in File : mails[f] <= cleared[f] + restarts + 1

\* "NonViolated" is never shown next to a list of violations.
NonViolatedListsNothing == st.verdict = "NonViolated" => st.affected = {}

\* The nodes handled after the last one that was found without a violation.
Tail == {n \in Node : \A m \in n..N : Shared(m)}

Scanned == pc = "commit" /\ ns = M + 1 /\ M > 0 /\ N > 0

\* The violations a scan stores are those of the last nodes in the order of the list,
\* and it reports one exactly when the very last node has one: the flag and the list
\* of all earlier nodes are cleared by a node without a violation, whatever the
\* namespaces they come from.
VerdictStep ==
  Commit /\ Scanned =>
    /\ st'.verdict = IF Shared(N) THEN "Violated" ELSE "NonViolated"
    /\ (UNION {On(n) : n \in Tail}) \subseteq st'.affected
    /\ Tail # Node => st'.affected = UNION {On(n) : n \in Tail}

VerdictIsThatOfTheTail == [][VerdictStep]_vars

\* The report is "Success. No VMI placement violation found.": the scan has seen no node
\* with two VMIs.
SuccessFoundNone ==
  [][Commit /\ Scanned /\ st'.verdict = "NonViolated" => \A n \in Node : ~Shared(n)]_vars

\* The inductive invariants behind these properties.

\* Nodes are only left to be handled while a namespace is.
ScopeInv ==
  /\ pc \in {"idle", "setup"} => ns = 0
  /\ pc \in {"migrations", "place"} => ns \in 1..(M + 1)
  /\ todo # {} => pc = "place" /\ ns \in Namespace

\* A file that exists stands for one open alert, or one mail that went out.
Open(file, f) == IF file[f] = NoFile THEN 0 ELSE 1

AlertInv ==
  \A f \in File :
    /\ fired[f] <= cleared[f] + lost[f] + restarts + Open(extFile, f)
    /\ extFile[f] # NoFile => fired[f] > 0 /\ extFile[f] = fired[f]
    /\ mails[f] <= cleared[f] + restarts + Open(mailFile, f)

\* After node k: the flag is its own, the list that of the nodes up to it which were
\* handled since the last one without a violation.
TailUpTo(k) == {n \in 1..k : \A m \in n..k : Shared(m)}

Handled(k) ==
  LET found == UNION {On(n) : n \in TailUpTo(k)} IN
  /\ isAffected = Shared(k)
  /\ found \subseteq mem.affected
  /\ TailUpTo(k) # 1..k => mem.affected = found

PlaceInv ==
  /\ pc = "place" =>
       \E k \in 0..N :
         /\ todo = (k + 1)..N
         /\ k > 0 /\ (k < N \/ ns > 1) => Handled(k)
  /\ Scanned =>
       /\ Handled(N)
       /\ verdict = IF isAffected THEN "error" ELSE "again"
       /\ ~isAffected => mem.verdict = "NonViolated"

ListsNothing(s) == s.verdict = "NonViolated" => s.affected = {}

VerdictInv ==
  /\ M = 0 => st.affected = {} /\ cache.affected = {} /\ mem.affected = {}
  /\ ListsNothing(st) /\ ListsNothing(cache)
  /\ pc \in {"idle", "setup"} \/ (pc = "commit" /\ verdict = "again") => ListsNothing(mem)

\* What the copy Reconcile works on has to do with the stored status, for as long as
\* the deferred update can succeed.
FreshInv ==
  /\ cacheFresh => cache = st
  /\ memFresh =>
       /\ pc # "idle"
       /\ pc = "setup" => mem = st
       /\ pc \in {"migrations", "place"} => st.poll # "recent" /\ mem.poll = st.poll
       /\ pc = "commit" /\ verdict = "error" => mem.poll = st.poll
       /\ pc = "commit" /\ verdict = "again" =>
            \/ mem = st
            \/ /\ st.poll # "recent" /\ mem.poll # "never"
               /\ mem.verdict = "NonViolated" /\ mem.affected = {}

\* VmScan keeps the promises of ScanLifecycle, but announces nothing.
Ready(v) == CASE v = "Violated" -> "False" [] v = "NonViolated" -> "True" [] OTHER -> v

Lifecycle == INSTANCE ScanLifecycle WITH
  Target <- Node \X Vmi, Announced <- FALSE,
  ready <- Ready(st.verdict), poll <- st.poll, affected <- st.affected
ImplementsLifecycle == Lifecycle!Spec

RunsOn(n) == {v \in Vmi : place[v] = n}

\* What lasts is reported: two VMIs on the last node for good end up listed under
\* "Violated", and no node with two of them for good ends in "NonViolated".
PlacementIsReported ==
  /\ <>[](~conf.suspend /\ M > 0 /\ N > 0 /\ Cardinality(RunsOn(N)) > 1)
       => <>[](st.verdict = "Violated" /\ \A v \in RunsOn(N) : <<N, v>> \in st.affected)
  /\ <>[](~conf.suspend /\ \A n \in Node : Cardinality(RunsOn(n)) <= 1)
       => <>[](st.verdict = "NonViolated")

\* The list of migrations settles: a migration that lasts is listed and a VMI that has
\* completed its migration and is still there is not.
MigrationsSettle ==
  \A v \in Vmi :
    <>[](~conf.suspend /\ place[v] # Gone)
      => /\ <>[](migration[v] = "ongoing") => <>[](v \in st.migrations)
         /\ <>[](migration[v] = "completed") => <>[](v \notin st.migrations)
=============================================================================
