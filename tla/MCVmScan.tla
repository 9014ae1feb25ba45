------------------------------ MODULE MCVmScan ------------------------------
(* Instances of VmScan for TLC. *)
EXTENDS VmScan

OneNamespace == [v \in Vmi |-> 1]
Spread == [v \in Vmi |-> IF v = 1 THEN 1 ELSE 2]

Cnf(e, n, s) == [email |-> e, notify |-> n, suspend |-> s]
AllOn     == {Cnf(TRUE, TRUE, FALSE)}
Silent    == {Cnf(FALSE, FALSE, FALSE)}
MaySuspend == {Cnf(FALSE, FALSE, FALSE), Cnf(FALSE, FALSE, TRUE)}
=============================================================================
