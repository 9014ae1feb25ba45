--------------------------- MODULE MCContainerScan ---------------------------
(* Instances of ContainerScan for TLC. *)
EXTENDS ContainerScan

CONSTANTS a, b                      \* the pods

\* One container in the first pod and namespace, two in the second.
PodOf3 == <<a, b, b>>
OnePod == [c \in Container |-> a]
OneNamespace == [p \in Pod |-> 1]
NsOf2 == [p \in Pod |-> IF p = a THEN 1 ELSE 2]

Cnf(g, n, s) == [aggregate |-> g, notify |-> n, suspend |-> s]
Alerting  == {Cnf("yes", TRUE, FALSE), Cnf("no", TRUE, FALSE), Cnf("unset", FALSE, FALSE)}
Silent    == {Cnf("no", FALSE, FALSE)}
Toggled   == {Cnf("no", FALSE, FALSE), Cnf("unset", FALSE, TRUE)}

\* Pruning while ranging, over every list of up to four pods: what stays is in order,
\* every pod that is not gone stays, the first one that is gone leaves, and up to two
\* entries are pruned exactly.
Lists == {s \in UNION {[1..n -> 1..4] : n \in 0..4} : IsInjective(s)}

ASSUME PruneWhileRangingIsSound ==
  \A s \in Lists : \A gone \in SUBSET ToSet(s) :
    LET kept == PruneWhileRanging(s, gone)
        exact == SelectSeq(s, LAMBDA p : p \notin gone)
    IN /\ kept = SelectSeq(s, LAMBDA p : p \in ToSet(kept))
       /\ ToSet(exact) \subseteq ToSet(kept)
       /\ gone # {} => kept # s
       /\ Len(s) <= 2 => kept = exact
=============================================================================
