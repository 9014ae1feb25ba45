----------------------------- MODULE MetallbScan -----------------------------
(***************************************************************************)
(* The MetallbScan reconciler: it checks the load balancer services of the *)
(* cluster in phases and keeps the checks that fail in FailedChecks.       *)
(*                                                                         *)
(* Most phases start a goroutine per service, BGP hop or route and wait    *)
(* for them all.  The goroutines share FailedChecks and its backing array  *)
(* without a lock, so each of their accesses is a step here.  A phase that *)
(* loops in Reconcile's own goroutine is a phase with the one thread       *)
(* "main".  Reads of the cluster are steps of their own: things break and  *)
(* heal between the phases.                                                *)
(*                                                                         *)
(* Abstractions: a service has one IP, one pool, and its endpoints on one  *)
(* node; a node has one BGP hop; a slice header is read and written in one *)
(* step; the text of a message and IncidentID are left out.  Services may  *)
(* share an advertisement, and with it the entry and the files of its      *)
(* peers.                                                                  *)
(***************************************************************************)
EXTENDS Integers, FiniteSets, Sequences, SequencesExt, FiniteSetsExt

CONSTANTS
  Svc, Node, Ad, \* load balancer services, worker nodes, BGP advertisements
  NodeOf,       \* the node of the endpoints of a service
  AdOf,         \* the advertisement of the pool of a service
  Endpoints,    \* number of endpoints of a service
  Events,       \* what may go wrong, or be mended, at once: sets of conditions
  AtFirst,      \* what may be wrong when the resource is created: the same
  MayChange,    \* what else may change: "services" come and go, nodes are "rolling"
  Confs,        \* the specs a user may write
  MaxChanges,   \* bound: changes of the cluster and of the spec
  MaxFaults     \* bound: failed calls and crashes

Ep == 1..Endpoints

ServiceKind == {"noip", "pool", "pod", "noep", "route", "best"}
NodeKind    == {"nospeaker", "nohops", "down", "bfd"}

\* No pool has an address.
NoPools == <<"nopools", "cluster">>

\* What may be wrong and has no text: an endpoint is not ready, has no target reference
\* ("bare") or no node name; a pool is in no advertisement; a node has no speaker pod
\* although the daemonset has all of its pods ("quiet"); a hop has no remote AS.
Unlisted == ({"unready", "bare", "nodeless", "unadvertised"} \X Svc)
              \cup ({"quiet", "noas"} \X Node) \cup {NoPools}

\* What may be wrong: a kind, and the service, advertisement or node it is about; for
\* "pod" also the endpoint.
Condition == ((ServiceKind \ {"pod"}) \X Svc) \cup ({"pod"} \X Svc \X Ep)
               \cup ({"nopeer"} \X Ad) \cup (NodeKind \X Node) \cup Unlisted

\* The texts in FailedChecks.
MCP   == <<"mcp", "pool">>
Entry == (ServiceKind \X Svc) \cup ({"nopeer"} \X Ad)
           \cup (({"norunning"} \cup NodeKind) \X Node) \cup {MCP}

Conf == [notify : BOOLEAN, mail : BOOLEAN, suspend : BOOLEAN,
         ignore : SUBSET {"bfd", "nohops"}]

CanFail == UNION Events

ASSUME ConstantsAssumption ==
  /\ IsFiniteSet(Svc) /\ IsFiniteSet(Node)
  /\ Svc \cap Node = {} /\ Svc \cap Ad = {} /\ Node \cap Ad = {}
  /\ NodeOf \in [Svc -> Node] /\ AdOf \in [Svc -> Ad]
  /\ Endpoints \in Nat \ {0}
  /\ Events \subseteq SUBSET Condition /\ AtFirst \subseteq SUBSET UNION Events
  /\ MayChange \subseteq {"services", "rolling"}
  /\ Confs \subseteq Conf
  /\ MaxChanges \in Nat /\ MaxFaults \in Nat

VARIABLES
  obj, cache, cacheFresh,   \* the stored resource and the informer's copy
  queue, timer,             \* the key is queued; a delayed add is pending
  \* Reconcile
  pc, mem, memFresh, verdict,
  first,        \* no LastRunTime when the scan started
  after,        \* the phase that follows the threads
  lbsvcs,       \* the services with an IP, as listed
  pooled,       \* those found in a pool
  eps,          \* those whose endpoints, and then routes, were read
  hops,         \* the nodes whose hop was read
  seen,         \* what was wrong in the last read that a later phase uses
  \* its goroutines
  list,         \* FailedChecks: backing arrays, and the header
  thread,       \* the local state of each
  \* the container's file system
  alerted,      \* the checks whose ext file holds a fingerprint
  mails,        \* alert mails sent since the mail file was removed; 0: no file
  \* the cluster
  svcs, bad, rolling,
  \* observation
  steady, ever, \* what was wrong all through the scan, and at some time in it
  disturbed,    \* the list was changed with a stale header or index
  skipped,      \* a read of the scan failed
  alerts,       \* alerts taken for a check since its ext file was removed
  lost,         \* those of them without an answer
  changes, faults

api     == <<obj, cache, cacheFresh>>
wq      == <<queue, timer>>
reads   == <<lbsvcs, pooled, eps, hops, seen>>
control == <<mem, memFresh, verdict, first, after>>
files   == <<alerted, mails, alerts, lost>>
world   == <<svcs, bad, rolling>>
scan    == <<steady, ever, disturbed, skipped>>
bounds  == <<changes, faults>>
vars    == <<api, wq, pc, control, reads, list, thread, files, world, scan, bounds>>

-----------------------------------------------------------------------------
(* FailedChecks: a header that points into a backing array *)

Whole(s) == [arrays |-> <<s>>, at |-> 1, len |-> Len(s)]

Header(l) == [at |-> l.at, len |-> l.len]

Content(l) == SubSeq(l.arrays[l.at], 1, l.len)

\* append, from a header h read before: in place, or in a new array.
Appended(l, h, e, room) ==
  LET kept == SubSeq(l.arrays[h.at], 1, h.len)
      over == SubSeq(l.arrays[h.at], h.len + 2, Len(l.arrays[h.at]))
  IN IF room
       THEN [arrays |-> [l.arrays EXCEPT ![h.at] = kept \o <<e>> \o over],
             at |-> h.at, len |-> h.len + 1]
       ELSE [arrays |-> Append(l.arrays, Append(kept, e)),
             at |-> Len(l.arrays) + 1, len |-> h.len + 1]

HasRoom(l, h) == Len(l.arrays[h.at]) > h.len

\* (mutant) append(slice[:i-1], slice[i:]...)
DeletedBefore(l, h, i) ==
  [arrays |-> [l.arrays EXCEPT ![h.at] =
      [j \in 1..Len(@) |-> IF i <= j + 1 /\ j < h.len THEN @[j + 1] ELSE @[j]]],
   at |-> h.at, len |-> h.len - 1]

\* append(slice[:i], slice[i+1:]...): the tail moves down inside the array.
Deleted(l, h, i) ==
  [arrays |-> [l.arrays EXCEPT ![h.at] =
      [j \in 1..Len(@) |-> IF i <= j /\ j < h.len THEN @[j + 1] ELSE @[j]]],
   at |-> h.at, len |-> h.len - 1]

InRange(h, i) == i \in 1..h.len

Index(s, e) == SelectInSeq(s, LAMBDA x : x = e)

Without(s, e) == IF Contains(s, e) THEN RemoveAt(s, Index(s, e)) ELSE s

-----------------------------------------------------------------------------

EmptyStatus == [ready |-> "none", run |-> "never", healthy |-> FALSE, failed |-> <<>>]

Nothing == [conf |-> [notify |-> FALSE, mail |-> FALSE, suspend |-> FALSE, ignore |-> {}],
            st |-> EmptyStatus]

SetReadyCondition(st, status) == [st EXCEPT !.ready = status]

\* Goroutines: the service or node they look at, and the endpoint; or Reconcile's own.
Thread == (Svc \cup Node \cup {"main"}) \X Ep

NoHeader == [at |-> 0, len |-> 0]
Idle     == [job |-> <<>>, at |-> "test", hdr |-> NoHeader, idx |-> 0]
NoThread == [t \in {} |-> Idle]

Init ==
  /\ \E c \in Confs : obj = [conf |-> c, st |-> EmptyStatus]
  /\ cache = obj /\ cacheFresh = TRUE
  /\ queue = TRUE /\ timer = FALSE
  /\ pc = "idle" /\ mem = Nothing /\ memFresh = FALSE /\ verdict = "again"
  /\ first = FALSE /\ after = "none"
  /\ lbsvcs = {} /\ pooled = {} /\ eps = {} /\ hops = {} /\ seen = {}
  /\ list = Whole(<<>>) /\ thread = NoThread
  /\ alerted = {} /\ mails = [e \in Entry |-> 0]
  /\ alerts = [e \in Entry |-> 0] /\ lost = [e \in Entry |-> 0]
  /\ svcs \in (IF "services" \in MayChange THEN SUBSET Svc ELSE {Svc})
  /\ bad \in {B \in AtFirst : \A c \in B : c[2] \notin Svc \ svcs}
  /\ rolling = FALSE
  /\ steady = {} /\ ever = {} /\ disturbed = FALSE /\ skipped = FALSE
  /\ changes = 0 /\ faults = 0

Fail(n) == faults + n <= MaxFaults /\ faults' = faults + n

Return(v) == pc' = "commit" /\ verdict' = v

Scanning == pc \notin {"idle", "setup"}

\* The locals of a call are gone.
Exit ==
  /\ pc' = "idle" /\ mem' = Nothing /\ memFresh' = FALSE /\ verdict' = "again"
  /\ first' = FALSE /\ after' = "none"
  /\ lbsvcs' = {} /\ pooled' = {} /\ eps' = {} /\ hops' = {} /\ seen' = {}
  /\ list' = Whole(<<>>) /\ thread' = NoThread
  /\ steady' = {} /\ ever' = {} /\ disturbed' = FALSE /\ skipped' = FALSE

-----------------------------------------------------------------------------
(* Reconcile, up to the scan *)

Get ==
  /\ pc = "idle" /\ queue
  /\ pc' = "setup" /\ queue' = FALSE
  /\ mem' = [cache EXCEPT !.st.failed = <<>>] /\ list' = Whole(cache.st.failed)
  /\ memFresh' = cacheFresh
  /\ UNCHANGED <<api, timer, verdict, first, after, reads, thread, files, world, scan,
                 bounds>>

\* What no step between the read and the scan changes.
Prelude ==
  /\ pc = "setup"
  /\ UNCHANGED <<api, queue, files, world, changes>>

\* The secret or the config map is missing.  The deferred update is not registered yet:
\* nothing is stored.
SecretMissing ==
  /\ Prelude /\ mem.conf.notify /\ Fail(1)
  /\ Exit /\ timer' = TRUE

Leave(v) ==
  /\ Return(v)
  /\ UNCHANGED <<timer, memFresh, first, after, reads, list, thread, scan>>

FirstSeen ==
  /\ Prelude /\ mem.st.ready = "none"
  /\ mem' = [mem EXCEPT !.st = SetReadyCondition(@, "Unknown")]
  /\ Leave("done") /\ UNCHANGED faults

NoClient ==
  /\ Prelude /\ mem.st.ready # "none" /\ Fail(1)
  /\ Leave("error") /\ UNCHANGED mem

\* Nothing to do: the resource is suspended, or the interval has not passed.
NotDue ==
  /\ Prelude /\ mem.st.ready # "none"
  /\ mem.conf.suspend \/ mem.st.run = "recent"
  /\ Leave("again") /\ UNCHANGED <<mem, faults>>

StartScan ==
  /\ Prelude /\ mem.st.ready # "none" /\ ~mem.conf.suspend /\ mem.st.run # "recent"
  /\ pc' = "gate1" /\ first' = (mem.st.run = "never")
  /\ steady' = bad /\ ever' = bad
  /\ UNCHANGED <<timer, verdict, mem, memFresh, after, reads, list, thread, disturbed,
                 skipped, faults>>

-----------------------------------------------------------------------------
(* The phases of a scan *)

\* A goroutine's job is a sequence of checks, each found bad or good.
Bad(e)   == [e |-> e, bad |-> TRUE]
Good(e)  == [e |-> e, bad |-> FALSE]
Check(e) == [e |-> e, bad |-> e \in bad]

Kind(e) == e[1]

\* What is wrong of some kinds, among B.
OfKind(kinds, B) == {c \in B : Kind(c) \in kinds}

\* What is dropped again in a first scan too: CheckBGPHopWorkers and GetBGPIPRoute are
\* the same in both.
AlwaysDropped == {"nospeaker", "nohops", "norunning"}

\* (mutant) goroutines drop checks in a first scan only
HandlesGoodAtFirst(k) == k.bad \/ first \/ Kind(k.e) \in AlwaysDropped

\* A first scan adds checks and drops hardly any.
Handles(k) == k.bad \/ ~first \/ Kind(k.e) \in AlwaysDropped

\* The checks of a job that this scan does something about, in order.
Handled(job) ==
  LET kept[i \in 0..Len(job)] ==
        IF i = 0 THEN <<>>
        ELSE IF Handles(job[i]) THEN Append(kept[i - 1], job[i]) ELSE kept[i - 1]
  IN kept[Len(job)]

\* The goroutines start.
Dispatch(jobs, next) ==
  LET busy == {t \in DOMAIN jobs : Handled(jobs[t]) # <<>>}
  IN /\ thread' = [t \in busy |-> [Idle EXCEPT !.job = Handled(jobs[t])]]
     /\ IF busy = {} THEN pc' = next /\ UNCHANGED after
                     ELSE pc' = "threads" /\ after' = next

\* A loop in Reconcile's own goroutine.
Loop(job) == [t \in {<<"main", 1>>} |-> job]

\* What no phase changes.
Phase == UNCHANGED <<api, wq, memFresh, first, alerted, alerts, lost, world, steady, ever,
                     changes>>

\* A phase that only reads the cluster and starts goroutines.
Fetch == Phase /\ UNCHANGED <<mem, list, mails, disturbed>>

AfterGate == [gate1 |-> "services", gate2 |-> "endpoints", gate3 |-> "nodes",
              gate4 |-> "routes"]

\* A rolling update of the nodes ends the scan, without a verdict.  A failed read means
\* that none is in progress.  Only a later scan drops the entry again.
Gate ==
  /\ pc \in DOMAIN AfterGate
  /\ \E ok \in BOOLEAN :
       /\ Fail(IF ok THEN 0 ELSE 1)
       /\ LET c == Content(list)
          IN IF ok /\ rolling
               THEN /\ list' = IF Contains(c, MCP) THEN list ELSE Whole(Append(c, MCP))
                    /\ Return("again")
               ELSE /\ list' = IF first THEN list ELSE Whole(Without(c, MCP))
                    /\ pc' = AfterGate[pc] /\ UNCHANGED verdict
  /\ Phase
  /\ UNCHANGED <<mem, after, reads, thread, mails, disturbed, skipped>>

\* Services without an IP are reported.  They are never dropped here, and if no service
\* has an IP the scan ends without a verdict.
ListServices ==
  /\ pc = "services"
  /\ \E ok \in BOOLEAN :
       LET all  == IF ok THEN svcs ELSE {}
           noip == {s \in all : <<"noip", s>> \in bad}
       IN /\ Fail(IF ok THEN 0 ELSE 1) /\ skipped' = (skipped \/ ~ok)
          /\ lbsvcs' = all \ noip
          /\ IF lbsvcs' = {}
               THEN Return("again") /\ UNCHANGED <<after, thread>>
               ELSE /\ Dispatch(Loop([i \in 1..Cardinality(noip) |->
                                        Bad(<<"noip", SetToSeq(noip)[i]>>)]), "pools")
                    /\ UNCHANGED verdict
  /\ Fetch /\ UNCHANGED <<pooled, eps, hops, seen>>

\* GetBGPIPPoolsPeer; an error skips the phase, and the next.  It is an error too that no
\* pool has an address.
FetchPools ==
  /\ pc = "pools"
  /\ \E ok \in BOOLEAN :
       LET read == IF ok /\ NoPools \notin bad THEN lbsvcs ELSE {}
       IN /\ Fail(IF ok THEN 0 ELSE 1) /\ skipped' = (skipped \/ ~ok)
          /\ pooled' = {s \in read : <<"pool", s>> \notin bad}
          /\ Dispatch([t \in read \X {1} |-> <<Check(<<"pool", t[1]>>)>>], "ads")
  /\ Fetch /\ UNCHANGED <<verdict, lbsvcs, eps, hops, seen>>

\* GetBGPIPAd.  A pool that is not advertised has no advertisement name, and a check
\* without that name does nothing.  The peers are checked by one goroutine for each
\* service, under the name of the advertisement.
FetchAds ==
  /\ pc = "ads"
  /\ \E ok \in BOOLEAN :
       LET named == IF ok THEN {s \in pooled : <<"unadvertised", s>> \notin bad} ELSE {}
       IN /\ Fail(IF ok THEN 0 ELSE 1) /\ skipped' = (skipped \/ ~ok)
          /\ Dispatch([t \in named \X {1} |-> <<Check(<<"nopeer", AdOf[t[1]]>>)>>],
                      "gate2")
  /\ Fetch /\ UNCHANGED <<verdict, reads>>

\* GetSvcEndPoints and the running pods.  The first service that is gone, or that has no
\* ready address, ends it with no endpoints of any service; one with an endpoint that has
\* no target reference ends it with a panic.  One goroutine for each pod that is not
\* running; only when all run, one for each service to drop its entry.
FetchEndpoints ==
  /\ pc = "endpoints"
  /\ \E ok \in BOOLEAN :
       LET order   == SetToSeq(lbsvcs)
           Left(s) == s \notin svcs \/ <<"unready", s>> \in bad
           Bare(s) == ~Left(s) /\ <<"bare", s>> \in bad
           ends    == {i \in 1..Len(order) : Left(order[i]) \/ Bare(order[i])}
           panics  == ok /\ ends # {} /\ Bare(order[Min(ends)])
           read    == IF ok /\ ends = {} THEN lbsvcs ELSE {}
           dead    == {t \in read \X Ep : /\ <<"pod", t[1], t[2]>> \in bad
                                          /\ <<"noep", t[1]>> \notin bad}
       IN /\ Fail(IF ok THEN 0 ELSE 1)
          /\ skipped' = (skipped \/ ~ok \/ ~(lbsvcs \subseteq svcs))
          /\ eps' = read /\ seen' = OfKind({"noep", "nodeless"}, bad)
          /\ IF panics THEN Return("panic") /\ UNCHANGED <<after, thread>>
             ELSE /\ Dispatch(IF dead # {} THEN [t \in dead |-> <<Bad(<<"pod", t[1]>>)>>]
                                ELSE [t \in read \X {1} |-> <<Good(<<"pod", t[1]>>)>>],
                              "noeps")
                  /\ UNCHANGED verdict
  /\ Fetch /\ UNCHANGED <<lbsvcs, pooled, hops>>

\* The services without a target pod, and otherwise a goroutine for each service.
CheckNoEndpoints ==
  /\ pc = "noeps"
  /\ LET none == {s \in eps : <<"noep", s>> \in seen}
     IN /\ eps' = eps \ none
        /\ Dispatch(IF none # {}
                      THEN Loop([i \in 1..Cardinality(none) |->
                                   Bad(<<"noep", SetToSeq(none)[i]>>)])
                      ELSE [t \in eps \X {1} |-> <<Good(<<"noep", t[1]>>)>>], "gate3")
  /\ Fetch /\ UNCHANGED <<verdict, lbsvcs, pooled, hops, seen, skipped, faults>>

\* Nodes in a list order.
Nodes == SetToSeq(Node)

\* The checks of a node that are made before its pods, the hops in the output of the
\* command, or the state of a hop cannot be read.
MadeBefore == [pods |-> 0, output |-> 1, state |-> 2]

\* No speaker pod runs on a node; the daemonset lacks pods.
Podless(n) == <<"nospeaker", n>> \in bad \/ <<"quiet", n>> \in bad
Short      == \E n \in Node : <<"nospeaker", n>> \in bad

\* CheckBGPHopWorkers.  A command that fails in a speaker pod leaves an empty output and
\* no error: no hops.  A daemonset that cannot be read leaves a node without a pod out.
\* Any other error skips the rest of the nodes, and all hops.  A hop without a remote AS
\* is left out.
FetchHops ==
  /\ pc = "nodes"
  /\ \E faulty \in SUBSET Node, how \in {"silent"} \cup DOMAIN MadeBefore :
       LET Silent(n)  == how = "silent" /\ n \in faulty
           HasHops(n) == <<"nohops", n>> \notin bad /\ ~Silent(n)
           Hops(n)   == IF HasHops(n) THEN <<Good(<<"nohops", n>>)>>
                        ELSE IF "nohops" \in mem.conf.ignore THEN <<>>
                        ELSE <<Bad(<<"nohops", n>>)>>
           Checks(n) == IF ~Podless(n) THEN <<Good(<<"nospeaker", n>>)>> \o Hops(n)
                        ELSE IF Short /\ ~Silent(n) THEN <<Bad(<<"nospeaker", n>>)>>
                        ELSE <<>>
           broken == {i \in 1..Len(Nodes) : Nodes[i] \in faulty /\ how # "silent"}
           Made(i) == CASE \A j \in broken : i < j -> Checks(Nodes[i])
                        [] i \in broken /\ \A j \in broken : i <= j ->
                             SubSeq(Checks(Nodes[i]), 1, MadeBefore[how])
                        [] OTHER -> <<>>
       IN /\ Fail(Cardinality(faulty)) /\ skipped' = (skipped \/ faulty # {})
          /\ how \in {"silent", "pods"} \/ \A n \in faulty : ~Podless(n)
          /\ how = "state" => \A n \in faulty : HasHops(n)
          /\ hops' = IF broken # {} THEN {}
                     ELSE {n \in Node : ~Podless(n) /\ HasHops(n) /\ <<"noas", n>> \notin bad}
          /\ seen' = OfKind({"nodeless"}, seen) \cup OfKind({"down", "bfd"}, bad)
          /\ Dispatch(Loop(FlattenSeq([i \in 1..Len(Nodes) |-> Made(i)])), "hops")
  /\ Fetch /\ UNCHANGED <<verdict, lbsvcs, pooled, eps>>

\* One goroutine for each hop.
CheckHops ==
  /\ pc = "hops"
  /\ LET Bfd(n) == IF <<"bfd", n>> \notin seen THEN <<Good(<<"bfd", n>>)>>
                   ELSE IF "bfd" \in mem.conf.ignore THEN <<>>
                   ELSE <<Bad(<<"bfd", n>>)>>
     IN Dispatch([t \in hops \X {1} |->
                    <<[e |-> <<"down", t[1]>>, bad |-> <<"down", t[1]>> \in seen]>>
                      \o Bfd(t[1])],
                 IF first THEN "gate4" ELSE "cleanup")
  /\ Fetch /\ UNCHANGED <<verdict, reads, skipped, faults>>

\* deleteElementSlice in a loop over the list itself.  The loop visits the length it
\* started with; an index past the end is a panic.  (Each turn's value is chosen from a
\* set of one, and so is computed once.)
DeleteAt(a, i) ==
  IF InRange(Header(a.l), i) THEN [a EXCEPT !.l = Deleted(@, Header(@), i), !.n = @ + 1]
                             ELSE [a EXCEPT !.panic = TRUE]

Loops(Visit(_, _), start) ==
  LET done[i \in 0..start.l.len] ==
        IF i = 0 THEN start ELSE CHOOSE b \in {Visit(a, i) : a \in {done[i - 1]}} : TRUE
  IN done[start.l.len]

\* The list after a loop, and how Reconcile goes on.
Looped(end, next) ==
  /\ list' = end.l /\ disturbed' = (disturbed \/ end.n > 1)
  /\ IF end.panic THEN Return("panic") ELSE pc' = next /\ UNCHANGED verdict

\* CheckIfBGPHopExists.  The worker of a "down" entry is kept for the entries after it,
\* whatever they are about.  Pods that cannot be read count as none (unread).  A command
\* that fails leaves no hop, and a daemonset that cannot be read adds no entry (silent).
\* The array may have room for what is added, and the loop then goes on in that array.
VisitHop(a, i, silent, unread, room) ==
  LET check  == a.l.arrays[list.at][i]
      worker == IF Kind(check) = "down" THEN check[2] ELSE a.worker
      e      == <<"nospeaker", worker>>
      b      == [a EXCEPT !.worker = worker]
      found  == Contains(Content(b.l), e)
      c      == IF found
                  THEN [b EXCEPT !.l = Deleted(@, Header(@), Index(Content(@), e)),
                                 !.n = @ + 1, !.healed = @ \cup {e}]
                  ELSE b
  IN IF a.panic THEN a
     ELSE IF worker = "none" THEN b
     ELSE IF worker \in unread \/ Podless(worker)
       THEN IF found \/ ~Short \/ worker \in silent THEN b
            ELSE [b EXCEPT !.l = Appended(@, Header(@), e, room \/ HasRoom(@, Header(@))),
                           !.added = @ \cup {worker}]
     ELSE IF <<"nohops", worker>> \in bad \/ worker \in silent THEN DeleteAt(c, i)
     ELSE c

HopsThatAreGone(silent, unread, room) ==
  Loops(LAMBDA a, i : VisitHop(a, i, silent, unread, room),
        [l |-> list, n |-> 0, panic |-> FALSE, worker |-> "none", healed |-> {}, added |-> {}])

Cleanup ==
  /\ pc = "cleanup"
  /\ \E silent, unread \in SUBSET Node, room \in BOOLEAN :
       LET end  == HopsThatAreGone(silent, unread, room)
           told == {n \in end.added : mem.conf.mail /\ mails[<<"nospeaker", n>>] = 0}
       IN /\ Fail(Cardinality(silent) + Cardinality(unread))
          /\ skipped' = (skipped \/ silent # {} \/ unread # {})
          /\ Looped(end, "gate4")
          /\ mails' = [e \in Entry |-> CASE e \in end.healed               -> 0
                                          [] e \in {"nospeaker"} \X told  -> 1
                                          [] OTHER                        -> mails[e]]
  /\ Phase
  /\ UNCHANGED <<mem, after, reads, thread>>

\* Whether a speaker pod runs on the node of each service, in order.
SpeakerChecks(order, silenced) ==
  [i \in 1..Len(order) |-> [e |-> <<"norunning", NodeOf[order[i]]>>,
                            bad |-> order[i] \in silenced]]

\* GetBGPIPRoute, for the services whose endpoints were read.  A list of speaker pods
\* that cannot be read counts as empty, a command that fails leaves no route, and any
\* other error skips all routes.  An endpoint that was read without a node name ends it
\* with a panic, after the services before it.
FetchRoutes ==
  /\ pc = "routes"
  /\ \E faulty \in SUBSET eps, how \in {"unlisted", "silent", "error"} :
       LET silenced == {s \in eps : \/ Podless(NodeOf[s])
                                    \/ how = "unlisted" /\ s \in faulty}
           nodeless == {s \in eps : <<"nodeless", s>> \in seen}
           order  == SetToSeq(eps)
           stops  == {j \in 1..Len(order) :
                        order[j] \in nodeless \cup (IF how = "error" THEN faulty ELSE {})}
           panics == stops # {} /\ order[Min(stops)] \in nodeless
           read   == IF stops = {} THEN order
                     ELSE SubSeq(order, 1, IF panics THEN Min(stops) - 1 ELSE Min(stops))
       IN /\ Fail(Cardinality(faulty)) /\ skipped' = (skipped \/ faulty # {})
          /\ how = "error" => faulty \cap silenced = {}
          /\ eps' = IF stops = {} THEN eps \ silenced ELSE {}
          /\ seen' = OfKind({"route", "best"}, bad)
                       \cup (IF how = "silent" THEN {"route"} \X faulty ELSE {})
          /\ Dispatch(Loop(SpeakerChecks(read, silenced)),
                      IF panics THEN "commit" ELSE "announced")
          /\ verdict' = IF panics THEN "panic" ELSE verdict
  /\ Fetch /\ UNCHANGED <<lbsvcs, pooled, hops>>

\* One goroutine for each route; a route that is not there is not the best one either.
CheckRoutes ==
  /\ pc = "announced"
  /\ Dispatch([t \in eps \X Ep |->
        LET gone == <<"route", t[1]>> \in seen
        IN <<[e |-> <<"route", t[1]>>, bad |-> gone],
             [e |-> <<"best", t[1]>>, bad |-> gone \/ <<"best", t[1]>> \in seen]>>],
       IF first THEN "verdict" ELSE "clean")
  /\ Fetch /\ UNCHANGED <<verdict, reads, skipped, faults>>

\* (mutant) the pools are forgotten
CleanedNoPools == {"noip", "noep"}

\* The entries the cleanup of deleted services looks for.
Cleaned == {"noip", "pool", "noep"}

\* The entries of services that are not listed any more, among those with an IP.  The
\* last entry of the list takes the list with it.
VisitService(a, i, there) ==
  LET check == a.l.arrays[list.at][i]
  IN IF a.panic \/ Kind(check) \notin Cleaned \/ check[2] \in there THEN a
     ELSE IF a.l.len = 1 THEN [a EXCEPT !.l = [@ EXCEPT !.len = 0], !.n = @ + 1]
     ELSE DeleteAt(a, i)

ServicesThatAreGone(there) ==
  Loops(LAMBDA a, i : VisitService(a, i, there), [l |-> list, n |-> 0, panic |-> FALSE])

CleanServices ==
  /\ pc = "clean"
  /\ \E ok \in BOOLEAN :
       LET there == IF ok THEN {s \in svcs : <<"noip", s>> \notin bad} ELSE {}
       IN /\ Fail(IF ok THEN 0 ELSE 1) /\ skipped' = (skipped \/ ~ok)
          /\ IF there = {} THEN pc' = "verdict" /\ UNCHANGED <<verdict, list, disturbed>>
                           ELSE Looped(ServicesThatAreGone(there), "verdict")
  /\ Phase
  /\ UNCHANGED <<mem, after, reads, thread, mails>>

\* (mutant) one entry may be left
ConcludeOneLeft ==
  /\ pc = "verdict"
  /\ LET empty == list.len <= 1
     IN mem' = [mem EXCEPT !.st = SetReadyCondition([@ EXCEPT !.run = "recent",
                                                              !.healthy = empty],
                                                    IF empty THEN "True" ELSE "False")]
  /\ Return("again")
  /\ Phase
  /\ UNCHANGED <<after, reads, list, thread, mails, disturbed, skipped,
                 faults>>

Conclude ==
  /\ pc = "verdict"
  /\ LET empty == list.len = 0
     IN mem' = [mem EXCEPT !.st = SetReadyCondition([@ EXCEPT !.run = "recent",
                                                              !.healthy = empty],
                                                    IF empty THEN "True" ELSE "False")]
  /\ Return("again")
  /\ Phase
  /\ UNCHANGED <<after, reads, list, thread, mails, disturbed, skipped,
                 faults>>

-----------------------------------------------------------------------------
(* The goroutines *)

Task(t) == Head(thread[t].job)

At(t, step) == pc = "threads" /\ t \in DOMAIN thread /\ thread[t].at = step

GoTo(t, step) == thread' = [thread EXCEPT ![t].at = step]

NextTask(t) ==
  LET rest == Tail(thread[t].job)
  IN thread' = IF rest = <<>> THEN Restrict(thread, DOMAIN thread \ {t})
                              ELSE [thread EXCEPT ![t] = [Idle EXCEPT !.job = rest]]

\* What no step of a goroutine changes.
Working == UNCHANGED <<api, wq, pc, control, reads, world, steady, ever, skipped, changes>>

\* (mutant) the file is not looked at before a mail is sent
TestAlways(t) ==
  LET k == Task(t)  listed == Contains(Content(list), k.e)
  IN
  /\ At(t, "test")
  /\ CASE k.bad /\ ~listed  -> GoTo(t, IF mem.conf.mail THEN "mail" ELSE "load")
       [] ~k.bad /\ listed  -> GoTo(t, "index")
       [] k.bad <=> listed  -> NextTask(t)
  /\ Working /\ UNCHANGED <<list, files, disturbed, faults>>

\* Whether the entry is on the list decides what is done; SendEmailAlert looks for its
\* file.
Test(t) ==
  LET k == Task(t)
      listed == Contains(Content(list), k.e)
      unsent == mem.conf.mail /\ mails[k.e] = 0
  IN
  /\ At(t, "test")
  /\ CASE k.bad /\ ~listed  -> GoTo(t, IF unsent THEN "mail" ELSE "load")
       [] ~k.bad /\ listed  -> GoTo(t, "index")
       [] k.bad <=> listed  -> NextTask(t)
  /\ Working /\ UNCHANGED <<list, files, disturbed, faults>>

\* SendEmailAlert sends, and writes the file.
Mail(t) ==
  /\ At(t, "mail") /\ GoTo(t, "load")
  /\ mails' = [mails EXCEPT ![Task(t).e] = @ + 1]
  /\ Working /\ UNCHANGED <<list, alerted, alerts, lost, disturbed, faults>>

\* slices.Index.  When the best route is back, SendEmailAlert is called by mistake: it
\* sends an alert if the one at the failure was not sent.
FindIndex(t) ==
  LET e == Task(t).e
      wrong == Kind(e) = "best" /\ mem.conf.mail /\ mails[e] = 0
  IN
  /\ At(t, "index")
  /\ thread' = [thread EXCEPT ![t].at = "load", ![t].idx = Index(Content(list), e)]
  /\ mails' = IF wrong THEN [mails EXCEPT ![e] = 1] ELSE mails
  /\ Working /\ UNCHANGED <<list, alerted, alerts, lost, disturbed, faults>>

\* status.FailedChecks is read; what follows works on this header.
Load(t) ==
  /\ At(t, "load")
  /\ thread' = [thread EXCEPT ![t].at = "store", ![t].hdr = Header(list)]
  /\ Working /\ UNCHANGED <<list, files, disturbed, faults>>

Stale(t) ==
  \/ thread[t].hdr # Header(list)
  \/ ~Task(t).bad /\ (InRange(Header(list), thread[t].idx)
                        => Content(list)[thread[t].idx] # Task(t).e)

\* The checks the external system hears of.
Posted == {"noip", "pool", "nopeer", "pod", "noep", "down", "bfd", "route", "best"}

Notified(e) == mem.conf.notify /\ Kind(e) \in Posted

\* (mutant) the file is not looked at before an alert is sent
StoreAppendAlways(t) ==
  LET e == Task(t).e  h == thread[t].hdr
  IN
  /\ At(t, "store") /\ Task(t).bad
  /\ \E room \in BOOLEAN :
       (HasRoom(list, h) => room) /\ list' = Appended(list, h, e, room)
  /\ disturbed' = (disturbed \/ Stale(t))
  /\ IF Notified(e) THEN GoTo(t, "post") ELSE NextTask(t)
  /\ Working /\ UNCHANGED <<files, faults>>

\* append.  NotifyExternalSystem, or SubNotifyExternalSystem with "firing", sends
\* nothing while the file holds a fingerprint.
StoreAppend(t) ==
  LET e == Task(t).e  h == thread[t].hdr
  IN
  /\ At(t, "store") /\ Task(t).bad
  /\ \E room \in BOOLEAN :
       (HasRoom(list, h) => room) /\ list' = Appended(list, h, e, room)
  /\ disturbed' = (disturbed \/ Stale(t))
  /\ IF Notified(e) /\ e \notin alerted THEN GoTo(t, "post") ELSE NextTask(t)
  /\ Working /\ UNCHANGED <<files, faults>>

\* (mutant) the file is named after the service alone
PostOneFile(t) ==
  LET e == Task(t).e
  IN
  /\ At(t, "post") /\ NextTask(t)
  /\ \/ /\ alerted' = alerted \cup {<<e[2]>>} /\ alerts' = [alerts EXCEPT ![e] = @ + 1]
        /\ UNCHANGED <<lost, faults>>
     \/ /\ alerts' = [alerts EXCEPT ![e] = @ + 1] /\ lost' = [lost EXCEPT ![e] = @ + 1]
        /\ Fail(1) /\ UNCHANGED alerted
     \/ Fail(1) /\ UNCHANGED <<alerted, alerts, lost>>
  /\ Working /\ UNCHANGED <<list, mails, disturbed>>

\* The alert is taken and the fingerprint written; or it is taken and its answer is lost;
\* or it is refused.  The entry is on the list all the same.
Post(t) ==
  LET e == Task(t).e
  IN
  /\ At(t, "post") /\ NextTask(t)
  /\ \/ /\ alerted' = alerted \cup {e} /\ alerts' = [alerts EXCEPT ![e] = @ + 1]
        /\ UNCHANGED <<lost, faults>>
     \/ /\ alerts' = [alerts EXCEPT ![e] = @ + 1] /\ lost' = [lost EXCEPT ![e] = @ + 1]
        /\ Fail(1) /\ UNCHANGED alerted
     \/ Fail(1) /\ UNCHANGED <<alerted, alerts, lost>>
  /\ Working /\ UNCHANGED <<list, mails, disturbed>>

\* The entry goes, and the files of its mail and of its alert; the file of the alert of
\* a hop that was down stays.  Whether the "resolved" message is taken makes no
\* difference.
StoreDelete(t) ==
  LET e == Task(t).e
  IN
  /\ At(t, "store") /\ ~Task(t).bad
  /\ InRange(thread[t].hdr, thread[t].idx)
  /\ list' = Deleted(list, thread[t].hdr, thread[t].idx)
  /\ disturbed' = (disturbed \/ Stale(t))
  /\ mails' = [mails EXCEPT ![e] = 0]
  /\ IF Notified(e) /\ Kind(e) # "down"
       THEN /\ alerted' = alerted \ {e}
            /\ alerts' = [alerts EXCEPT ![e] = 0] /\ lost' = [lost EXCEPT ![e] = 0]
       ELSE UNCHANGED <<alerted, alerts, lost>>
  /\ NextTask(t)
  /\ Working /\ UNCHANGED faults

\* wg.Wait
Join ==
  /\ pc = "threads" /\ thread = NoThread
  /\ pc' = after /\ after' = "none"
  /\ list' = Whole(Content(list))
  /\ UNCHANGED <<api, wq, verdict, mem, memFresh, first, reads, thread, files, world,
                 scan, bounds>>

-----------------------------------------------------------------------------
(* The deferred update, the queue and the watch, the cluster *)

Reported ==
  LET st == [mem.st EXCEPT !.failed = Content(list)]
  IN IF verdict = "error" THEN SetReadyCondition(st, "False") ELSE st

\* (mutant) only an error brings the key back
CommitRequeuesErrors ==
  /\ pc = "commit" /\ memFresh
  /\ obj' = [obj EXCEPT !.st = Reported]
  /\ cacheFresh' = (cacheFresh /\ obj' = obj)
  /\ timer' = (timer \/ verdict = "error")
  /\ Exit
  /\ UNCHANGED <<cache, queue, files, world, bounds>>

\* A panic of Reconcile itself is recovered from, after the deferred update.
Commit ==
  /\ pc = "commit" /\ memFresh
  /\ obj' = [obj EXCEPT !.st = Reported]
  /\ cacheFresh' = (cacheFresh /\ obj' = obj)
  /\ timer' = (timer \/ verdict # "done")
  /\ Exit
  /\ UNCHANGED <<cache, queue, files, world, bounds>>

CommitFails ==
  /\ pc = "commit"
  /\ IF memFresh THEN Fail(1) ELSE UNCHANGED faults
  /\ Exit /\ timer' = TRUE
  /\ UNCHANGED <<api, queue, files, world, changes>>

TimerFires ==
  /\ timer
  /\ timer' = FALSE /\ queue' = TRUE
  /\ UNCHANGED <<api, pc, control, reads, list, thread, files, world, scan, bounds>>

WatchEvent ==
  /\ ~cacheFresh
  /\ cache' = obj /\ cacheFresh' = TRUE /\ queue' = TRUE
  /\ UNCHANGED <<obj, timer, pc, control, reads, list, thread, files, world, scan,
                 bounds>>

\* The interval passes.
Aged(o) == [o EXCEPT !.st.run = IF @ = "recent" THEN "due" ELSE @]

Elapse ==
  /\ obj.st.run = "recent" \/ cache.st.run = "recent" \/ mem.st.run = "recent"
  /\ obj' = Aged(obj) /\ cache' = Aged(cache) /\ mem' = Aged(mem)
  /\ UNCHANGED <<cacheFresh, wq, pc, memFresh, verdict, first, after, reads, list, thread,
                 files, world, scan, bounds>>

Edit(c) ==
  /\ changes < MaxChanges /\ changes' = changes + 1
  /\ c # obj.conf /\ obj' = [obj EXCEPT !.conf = c]
  /\ cacheFresh' = FALSE /\ memFresh' = FALSE
  /\ UNCHANGED <<cache, wq, pc, mem, verdict, first, after, reads, list, thread, files,
                 world, scan, faults>>

\* The manager dies, and its container's files with it.
Die ==
  /\ Exit /\ timer' = FALSE /\ queue' = TRUE
  /\ cache' = obj /\ cacheFresh' = TRUE
  /\ alerted' = {} /\ mails' = [e \in Entry |-> 0]
  /\ alerts' = [e \in Entry |-> 0] /\ lost' = [e \in Entry |-> 0]
  /\ UNCHANGED <<obj, world, changes>>

Crash == Fail(1) /\ Die

\* An index taken before another goroutine's deletion is past the end: a panic outside
\* Reconcile's own goroutine ends the process.
ThreadPanics(t) ==
  /\ At(t, "store") /\ ~Task(t).bad /\ ~InRange(thread[t].hdr, thread[t].idx)
  /\ Die /\ UNCHANGED faults

\* A change of the cluster, and what it means to the scan in progress.
Changes ==
  /\ changes < MaxChanges /\ changes' = changes + 1
  /\ IF Scanning THEN steady' = steady \cap bad' /\ ever' = ever \cup bad'
                 ELSE UNCHANGED <<steady, ever>>
  /\ UNCHANGED <<api, wq, pc, control, reads, list, thread, files, disturbed, skipped,
                 faults>>

\* Something breaks, or is mended.
Toggle(C) ==
  /\ \A c \in C : c[2] \notin Svc \ svcs
  /\ bad' = IF C \subseteq bad THEN bad \ C ELSE bad \cup C
  /\ UNCHANGED <<svcs, rolling>> /\ Changes

ServiceDeleted(s) ==
  /\ "services" \in MayChange /\ s \in svcs /\ svcs' = svcs \ {s}
  /\ bad' = {c \in bad : c[2] # s}
  /\ UNCHANGED rolling /\ Changes

ServiceCreated(s) ==
  /\ "services" \in MayChange /\ s \in Svc \ svcs /\ svcs' = svcs \cup {s}
  /\ UNCHANGED <<bad, rolling>> /\ Changes

\* A rolling update of the nodes starts, or ends.
Rolls ==
  /\ "rolling" \in MayChange /\ rolling' = ~rolling
  /\ UNCHANGED <<svcs, bad>> /\ Changes

-----------------------------------------------------------------------------

Step(t) ==
  \/ Test(t) \/ Mail(t) \/ FindIndex(t) \/ Load(t) \/ StoreAppend(t) \/ Post(t)
  \/ StoreDelete(t) \/ ThreadPanics(t)

Reconcile ==
  \/ Get \/ SecretMissing \/ FirstSeen \/ NoClient \/ NotDue \/ StartScan
  \/ Gate \/ ListServices \/ FetchPools \/ FetchAds \/ FetchEndpoints
  \/ CheckNoEndpoints \/ FetchHops \/ CheckHops \/ Cleanup \/ FetchRoutes \/ CheckRoutes
  \/ CleanServices \/ Conclude
  \/ (\E t \in DOMAIN thread : Step(t)) \/ Join
  \/ Commit \/ CommitFails

Environment ==
  \/ TimerFires \/ WatchEvent \/ Elapse
  \/ \E c \in Confs : Edit(c)
  \/ \E C \in Events : Toggle(C)
  \/ \E s \in Svc : ServiceDeleted(s) \/ ServiceCreated(s)
  \/ Rolls \/ Crash

Next == Reconcile \/ Environment

\* The worker keeps running, timers fire, watch events arrive and time passes.
Fairness ==
  /\ WF_vars(Reconcile) /\ WF_vars(TimerFires) /\ WF_vars(WatchEvent)
  /\ WF_vars(Elapse)

Spec == Init /\ [][Next]_vars
FairSpec == Spec /\ Fairness

-----------------------------------------------------------------------------
(* Properties *)

Status == [ready : {"none", "Unknown", "True", "False"}, run : {"never", "recent", "due"},
           healthy : BOOLEAN, failed : Seq(Entry)]

Object == [conf : Conf, st : Status]

Work == [job : Seq([e : Entry, bad : BOOLEAN]),
         at : {"test", "mail", "index", "load", "store", "post"},
         hdr : [at : Nat, len : Nat], idx : Nat]

TypeOK ==
  /\ obj \in Object /\ cache \in Object /\ mem \in Object
  /\ cacheFresh \in BOOLEAN /\ memFresh \in BOOLEAN
  /\ queue \in BOOLEAN /\ timer \in BOOLEAN
  /\ pc \in {"idle", "setup", "services", "pools", "ads", "endpoints", "noeps", "nodes",
             "hops", "cleanup", "routes", "announced", "clean", "verdict", "threads",
             "commit"}
            \cup DOMAIN AfterGate
  /\ verdict \in {"again", "done", "error", "panic"} /\ first \in BOOLEAN
  /\ lbsvcs \in SUBSET Svc /\ pooled \in SUBSET lbsvcs /\ eps \in SUBSET lbsvcs
  /\ hops \in SUBSET Node
  /\ \A i \in DOMAIN list.arrays : list.arrays[i] \in Seq(Entry)
  /\ list.at \in DOMAIN list.arrays /\ list.len \in 0..Len(list.arrays[list.at])
  /\ DOMAIN thread \subseteq Thread /\ \A t \in DOMAIN thread : thread[t] \in Work
  /\ alerted \in SUBSET Entry
  /\ mails \in [Entry -> Nat] /\ alerts \in [Entry -> Nat] /\ lost \in [Entry -> Nat]
  /\ svcs \in SUBSET Svc /\ bad \in SUBSET CanFail /\ rolling \in BOOLEAN
  /\ seen \in SUBSET Condition
  /\ steady \in SUBSET ever /\ ever \in SUBSET CanFail
  /\ disturbed \in BOOLEAN /\ skipped \in BOOLEAN
  /\ changes \in 0..MaxChanges /\ faults \in 0..MaxFaults

\* The goroutines that make a check in one scan.  All services that share an
\* advertisement make the one check of its peers.
Goroutines(e) ==
  CASE Kind(e) = "nopeer"                   -> Cardinality({s \in Svc : AdOf[s] = e[2]})
    [] Kind(e) \in {"pod", "route", "best"} -> Endpoints
    [] OTHER                                -> 1

\* No alert storm: the list that decides about alerts is written by all goroutines at
\* once, and what a scan adds to it is lost by a refused update, but until its entry is
\* dropped again a check is alerted at most once by each goroutine that makes it, and
\* once more for each alert whose answer was lost.
AlertsBounded == \A e \in Entry : alerts[e] <= Goroutines(e) + lost[e]

\* Nor a storm of mails.
MailsBounded == \A e \in Entry : mails[e] <= Goroutines(e)

\* A resource is never forgotten: after each Reconcile, also one that panics or cannot
\* store its status, the key is queued, about to be, or an event is on its way.
NeverForgotten == pc = "idle" => queue \/ timer \/ ~cacheFresh

EntryOf(c) == <<c[1], c[2]>>

\* What a scan tests in a phase of its own, and finds failed or passed.
Tested(c) == Kind(c) # "noip" /\ c \notin Unlisted

\* Something among B keeps a scan of the services S from making the check, or leaves it
\* open what the check finds.  Without pools no check of a pool or of an advertisement is
\* made, in any scan: the read fails.
Hidden(c, B, S) ==
  LET s == c[2]
      Wrong(kinds, about) == (kinds \X about) \cap B # {}
  IN CASE Kind(c) = "pool"        -> Wrong({"noip"}, {s}) \/ NoPools \in B
       [] Kind(c) = "nopeer"      ->
            NoPools \in B \/ \A v \in S : AdOf[v] = s =>
                                 Wrong({"noip", "pool", "unadvertised"}, {v})
       [] Kind(c) \in {"pod", "noep"} ->
            Wrong({"noip", "noep"} \ {Kind(c)}, {s}) \/ Wrong({"unready", "bare"}, Svc)
       [] Kind(c) \in {"route", "best"} ->
            \/ Wrong({"noip", "noep"}, {s}) \/ Wrong({"unready", "bare", "nodeless"}, Svc)
            \/ Wrong({"nospeaker", "quiet"}, {NodeOf[s]})
       [] Kind(c) = "nospeaker"   -> Wrong({"quiet"}, {s})
       [] Kind(c) = "nohops"      -> Wrong({"nospeaker", "quiet"}, {s})
       [] Kind(c) \in {"down", "bfd"} -> Wrong({"nospeaker", "quiet", "nohops", "noas"}, {s})
       [] OTHER                   -> FALSE

\* A check that fails all through a scan is on the list at its end, in whatever phase
\* and by whichever goroutine it was made, unless goroutines, or a loop, worked with an
\* index or a header that was stale, or a read failed.
FailingStep ==
  Conclude /\ ~disturbed /\ ~skipped =>
    \A c \in steady :
      Tested(c) /\ Kind(c) \notin mem.conf.ignore /\ ~Hidden(c, ever, lbsvcs)
      => EntryOf(c) \in ToSet(Content(list))

FailingChecksAreListed == [][FailingStep]_vars

\* A check that passes all through a later scan is off the list at its end.  For pods,
\* and for services without any, no other service may fail the same check.
HealedStep ==
  Conclude /\ ~first /\ ~disturbed /\ ~skipped /\ memFresh =>
    \A c \in Condition :
      /\ Tested(c) /\ c[2] \in lbsvcs \cup Ad \cup Node
      /\ c \notin ever /\ ~Hidden(c, ever, lbsvcs)
      /\ Kind(c) = "best" => <<"route", c[2]>> \notin ever
      /\ Kind(c) \in {"pod", "noep"} => OfKind({Kind(c)}, ever) = {}
      /\ Cardinality({i \in DOMAIN obj.st.failed : obj.st.failed[i] = EntryOf(c)}) <= 1
      => EntryOf(c) \notin ToSet(Content(list))

HealedChecksAreDropped == [][HealedStep]_vars

\* printcolumn Ready: "if set to true, all metallb checks are completed successfully".
ReadyMeansPassed ==
  [][Conclude /\ ~disturbed /\ ~skipped /\ mem'.st.ready = "True" => steady = {}]_vars

\* The goroutines do not end the process again and again.
PanicsEnd == <>[][\A t \in Thread : ~ThreadPanics(t)]_vars

\* Scans are made, to the end: a service has an IP, and none has an endpoint on which
\* Reconcile panics.
Active == /\ ~obj.conf.suspend /\ ~rolling
          /\ \E s \in svcs : <<"noip", s>> \notin bad
          /\ \A s \in svcs : <<"bare", s>> \notin bad /\ <<"nodeless", s>> \notin bad

\* A check that keeps failing ends up in the condition, whatever races and lost entries
\* there are on the way, unless something else keeps every scan from making it, or from
\* its verdict.
FailureIsReported ==
  PanicsEnd =>
    \A c \in CanFail :
      Tested(c) =>
        (<>[](/\ Active /\ c \in bad /\ ~Hidden(c, bad, svcs)
              /\ Kind(c) \notin obj.conf.ignore)
           => <>[](obj.st.ready = "False"))

\* Entries that no phase tests again: of services that are gone, of advertisements that
\* no service uses, and of nodes where no service has endpoints any more.
Orphans ==
  ({"pod", "route", "best"} \X (Svc \ svcs))
    \cup ({"nopeer"} \X {a \in Ad : \A s \in svcs : AdOf[s] # a})
    \cup ({"norunning"} \X {n \in Node : \A s \in svcs : NodeOf[s] # n})

\* When everything is mended the list gets empty and the resource ready, but for the
\* entries of deleted services.
RecoveryIsReported ==
  PanicsEnd /\ <>[](Active /\ bad = {}) =>
    <>[](/\ ToSet(obj.st.failed) \subseteq Orphans
         /\ (obj.st.ready = "True") <=> (obj.st.failed = <<>>))

-----------------------------------------------------------------------------
(* The inductive invariants behind the safety properties *)

\* A header that can be read and written through, however often the list it was read
\* from has been written to since.
Points(l, h) == h.at \in DOMAIN l.arrays /\ h.len \in 0..Len(l.arrays[h.at])

ListInv ==
  /\ list \in [arrays : Seq(Seq(Entry)), at : Nat, len : Nat] /\ Points(list, Header(list))
  /\ \A t \in DOMAIN thread : thread[t].at = "store" => Points(list, thread[t].hdr)

\* Goroutines run in one phase only, and each has a check left to do.
ThreadInv ==
  /\ thread \in [DOMAIN thread -> Work]
  /\ pc # "threads" => thread = NoThread
  /\ pc = "threads" =>
       /\ after \in {"pools", "ads", "gate2", "noeps", "gate3", "hops", "cleanup", "gate4",
                     "announced", "clean", "verdict", "commit"}
       /\ after = "commit" => verdict = "panic"
  /\ \A t \in DOMAIN thread : thread[t].job # <<>>

\* Nothing was read yet when the services are listed.
ScopeInv ==
  pc \in {"idle", "setup", "gate1", "services"} => pooled = {} /\ eps = {}

TypeInv == TypeOK /\ ListInv /\ ThreadInv /\ ScopeInv

\* The goroutines that a check may be handed to.
Makers(k) ==
  LET about == k.e[2]
  IN CASE Kind(k.e) = "nopeer" -> {s \in Svc : AdOf[s] = about} \X {1}
       [] Kind(k.e) \in {"route", "best"} -> {about} \X Ep
       [] Kind(k.e) = "pod"    -> IF k.bad THEN {about} \X Ep ELSE {<<about, 1>>}
       [] Kind(k.e) = "noep"   -> {<<IF k.bad THEN "main" ELSE about, 1>>}
       [] Kind(k.e) \in {"pool", "down", "bfd"} -> {<<about, 1>>}
       [] OTHER -> {<<"main", 1>>}

\* Every goroutine has checks before it that it may be handed, so that at most as many as
\* Goroutines says have the same failing check; only a failing check is about to be sent.
OwnerInv ==
  \A t \in DOMAIN thread :
    /\ \A i \in DOMAIN thread[t].job : t \in Makers(thread[t].job[i])
    /\ thread[t].at \in {"mail", "post"} => Task(t).bad

\* The goroutines that found no file, and are about to send.
Mailing(e) == {t \in DOMAIN thread : thread[t].at = "mail" /\ Task(t).e = e}
Posting(e) == {t \in DOMAIN thread : thread[t].at = "post" /\ Task(t).e = e}

\* Once something was sent, and answered, no goroutine joins those that are about to send.
SentInv ==
  \A e \in Entry :
    /\ mails[e] = 0 \/ mails[e] + Cardinality(Mailing(e)) <= Goroutines(e)
    /\ alerts[e] = lost[e]
         \/ alerts[e] + Cardinality(Posting(e)) <= Goroutines(e) + lost[e]
    /\ e \notin alerted => alerts[e] = lost[e]

\* A reconcile that asks for no requeue stores a condition the resource did not have.
WorkerInv ==
  /\ cacheFresh => cache.st.ready = obj.st.ready
  /\ pc = "setup" /\ memFresh => mem.st.ready = obj.st.ready
  /\ pc = "commit" /\ verdict = "done" /\ memFresh =>
       obj.st.ready = "none" /\ mem.st.ready = "Unknown"
  /\ NeverForgotten
=============================================================================
