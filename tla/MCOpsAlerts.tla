----------------------------- MODULE MCOpsAlerts -----------------------------
(* Instances of OpsAlerts for TLC. *)
EXTENDS OpsAlerts

CONSTANTS ats, slow

TwoTiers == {ats, slow}
SameInterval == [t \in TwoTiers |-> 1]
SlowIsSlower == [t \in TwoTiers |-> IF t = ats THEN 1 ELSE 2]
=============================================================================
