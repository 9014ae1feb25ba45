---------------------------- MODULE MCPortScan ----------------------------
(* Instances of PortScan for TLC. *)
EXTENDS PortScan

OwnFiles == [t \in Target |-> t]                          \* one file per target

Spc(ts, mail, ntf, susp) ==
  [targets |-> ts, email |-> mail, notify |-> ntf, suspend |-> susp]

Hosts == {1, 2}                       \* the targets written with a port

AllOn     == {Spc(Hosts, TRUE, "yes", FALSE)}
Channels  == {Spc(Hosts, e, n, FALSE) : e \in BOOLEAN, n \in {"no", "yes"}}
Edited    == {Spc(Hosts, TRUE, "yes", FALSE), Spc({1}, FALSE, "no", TRUE),
              Spc({2, 3}, TRUE, "no", FALSE), Spc({1}, FALSE, "unset", FALSE)}
=============================================================================
