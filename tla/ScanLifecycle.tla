--------------------------- MODULE ScanLifecycle ---------------------------
(***************************************************************************)
(* What a user who watches one monitoring resource is promised: the        *)
(* condition, the last-success stamp and the list of affected items that   *)
(* the API server shows, and nothing of how a reconciler computes them.    *)
(*                                                                         *)
(*   - a reconciler that announces its resources reports a new one         *)
(*     "Unknown", once, and scans it afterwards;                           *)
(*   - the last-success stamp is renewed only together with the verdict    *)
(*     "True", and such a success never adds an affected item;             *)
(*   - a failed scan reports "False" and leaves the stamp alone;           *)
(*   - a scan that aborts in a panic leaves both alone.                    *)
(*                                                                         *)
(* PortScan.tla, which announces, and VmScan.tla, which does not, are      *)
(* shown to implement this module.                                         *)
(***************************************************************************)

CONSTANTS
  Target,                 \* the items a scan watches
  Announced               \* TRUE if "First Seen" comes before the first scan

VARIABLES
  ready,                  \* the Ready condition; "none" before the first report
  poll,                   \* LastPollTime: never set, recent, or older than the interval
  affected                \* AffectedTargets

vars == <<ready, poll, affected>>

Init ==
  /\ ready = "none"
  /\ poll = "never"
  /\ affected = {}

\* The resource is new and gets its first condition.
FirstSeen ==
  /\ Announced /\ ready = "none"
  /\ ready' = "Unknown"
  /\ UNCHANGED <<poll, affected>>

Scannable == Announced => ready # "none"

\* A scan in which every item answered.
Success ==
  /\ Scannable
  /\ ready' = "True"
  /\ poll' \in {"recent", "due"}
  /\ poll # "recent"
  /\ affected' \subseteq affected

\* A scan that found an item down, or that could not run.
Failure ==
  /\ Scannable
  /\ ready' = "False"
  /\ affected' \subseteq Target
  /\ UNCHANGED poll

\* A scan cut short by a panic: the list may have changed, the verdict not.
Aborted ==
  /\ Scannable
  /\ affected' \subseteq Target
  /\ UNCHANGED <<ready, poll>>

\* The check interval passes since the last success.
Elapse ==
  /\ poll = "recent"
  /\ poll' = "due"
  /\ UNCHANGED <<ready, affected>>

\* The resource is deleted and created again.
Recreate ==
  /\ ready' = "none"
  /\ poll' = "never"
  /\ affected' = {}

Next == FirstSeen \/ Success \/ Failure \/ Aborted \/ Elapse \/ Recreate

Spec == Init /\ [][Next]_vars
=============================================================================
