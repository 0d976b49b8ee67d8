---------------------------- MODULE PostingLedger ----------------------------
(***************************************************************************)
(* What the pipeline promises about one posting, whoever runs the cycles:  *)
(* it is alerted at most once in the life of its record, only while it is  *)
(* claimed; an alert is never taken back, a claim may be; a muted posting  *)
(* is not alerted; only a lapsed record is forgotten.                      *)
(***************************************************************************)
EXTENDS Naturals

CONSTANT Jobs

VARIABLES phase,   \* where each posting stands
          alerts   \* alerts sent in the life of its record

ledger == <<phase, alerts>>

Standing == {"open", "claimed", "alerted", "muted", "lapsed"}

Init ==
    /\ phase = [j \in Jobs |-> "open"]
    /\ alerts = [j \in Jobs |-> 0]

Move(j, from, to) == phase[j] \in from /\ phase' = [phase EXCEPT ![j] = to]

Claim(j) == Move(j, {"open"}, "claimed") /\ UNCHANGED alerts
Withdraw(j) == Move(j, {"claimed"}, "open") /\ UNCHANGED alerts
Mute(j) == Move(j, {"open"}, "muted") /\ UNCHANGED alerts
Lapse(j) == Move(j, {"claimed", "alerted", "muted"}, "lapsed") /\ UNCHANGED alerts

Alert(j) ==
    /\ Move(j, {"claimed"}, "alerted")
    /\ alerts' = [alerts EXCEPT ![j] = @ + 1]

\* One prune forgets every lapsed record.
Forget ==
    /\ phase' = [j \in Jobs |-> IF phase[j] = "lapsed" THEN "open" ELSE phase[j]]
    /\ alerts' = [j \in Jobs |-> IF phase[j] = "lapsed" THEN 0 ELSE alerts[j]]

Next ==
    \/ \E j \in Jobs : Claim(j) \/ Withdraw(j) \/ Mute(j) \/ Lapse(j) \/ Alert(j)
    \/ Forget

Spec == Init /\ [][Next]_ledger
=============================================================================
