---------------------------- MODULE MCMetallbScan ----------------------------
(* Instances of MetallbScan for TLC. *)
EXTENDS MetallbScan

CONSTANTS s1, s2, n1, a1            \* two services, a worker node, an advertisement

SameNode == [v \in Svc |-> n1]
SameAd   == [v \in Svc |-> a1]

Cnf(ntf, ml, sus) == [notify |-> ntf, mail |-> ml, suspend |-> sus, ignore |-> {}]

Alerting == {Cnf(TRUE, TRUE, FALSE)}
Silent   == {Cnf(FALSE, FALSE, FALSE)}
Pausing  == {Cnf(FALSE, FALSE, FALSE), Cnf(FALSE, FALSE, TRUE)}

NoIP     == {{<<"noip", s1>>}}

\* The check of the peers of the advertisement that both services share.
PeersLost == {{<<"nopeer", a1>>}}
Sometimes == {{}, {<<"nopeer", a1>>}}

\* A pool that covers both services, or one of them; all pools, which is no pool to the
\* code; anything else one by one.
Several ==
  {{<<"pool", s1>>, <<"pool", s2>>}, {NoPools, <<"pool", s1>>, <<"pool", s2>>}}
    \cup {{c} : c \in
            {<<"pool", s1>>, <<"nopeer", a1>>, <<"pod", s1, 1>>, <<"noep", s1>>,
             <<"route", s1>>, <<"best", s1>>, <<"nospeaker", n1>>, <<"nohops", n1>>,
             <<"down", n1>>, <<"bfd", n1>>, <<"unready", s1>>, <<"bare", s1>>,
             <<"nodeless", s1>>}}

AllWell  == {{}}
Some     == {{}, {<<"pool", s1>>}, {<<"pod", s1, 1>>, <<"best", s1>>, <<"down", n1>>}}
=============================================================================
