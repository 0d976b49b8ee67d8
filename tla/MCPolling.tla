------------------------------ MODULE MCPolling ------------------------------
(***************************************************************************)
(* What the poller keeps beside its cycles, side by side: an instance each *)
(* of VendorPacer, BoardPolling and OpsAlerts.  A behaviour is one of      *)
(* these parts, and the others stay as they began.                         *)
(***************************************************************************)
EXTENDS BoardPolling

CONSTANTS PacerBoards, Places, Window, MinGap, MaxGap, PacerMishaps,     \* VendorPacer
          Tiers, Every, Ats, watchdog, Stopped, Llm, Cooldown, K,        \* OpsAlerts
          Never, OpsFaults, OpsMishaps,
          daemon, b1, ats, slow    \* what Polling.cfg names

VARIABLES part,
          \* VendorPacer
          gap, ahead, left, taskPc, wait, clear, early, burst, pacerMishaps,
          \* OpsAlerts
          age, recent, state, opsPc, todo, held, outbox, passed, dead, llmDown, told, quiet,
          faults, opsMishaps

pacerVars == <<gap, ahead, left, taskPc, wait, clear, early, burst, pacerMishaps>>
opsVars == <<age, recent, state, opsPc, todo, held, outbox, passed, dead, llmDown, told,
             quiet, faults, opsMishaps>>

OneRunner == {daemon}
OneBoard == {b1}
EveryOutcome == {"fresh", "quiet", "transient", "unscreened", "paced", "dead", "blocked",
                 "limited"}
SlowIsSlower == [t \in Tiers |-> IF t = ats THEN 1 ELSE 2]

Pacer == INSTANCE VendorPacer WITH
    Boards <- PacerBoards, MaxMishaps <- PacerMishaps, pc <- taskPc, mishaps <- pacerMishaps

Ops == INSTANCE OpsAlerts WITH
    MaxFaults <- OpsFaults, MaxMishaps <- OpsMishaps, pc <- opsPc, mishaps <- opsMishaps

ASSUME PollerAssumption == Pacer!PacerAssumption /\ Ops!OpsAssumption

PollerInit == part \in {"pacer", "tier", "ops"} /\ Pacer!Init /\ Init /\ Ops!Init

PollerNext ==
    /\ UNCHANGED part
    /\ \/ part = "pacer" /\ Pacer!Next /\ UNCHANGED <<vars, opsVars>>
       \/ part = "tier" /\ Next /\ UNCHANGED <<pacerVars, opsVars>>
       \/ part = "ops" /\ Ops!Next /\ UNCHANGED <<pacerVars, vars>>

pollerVars == <<part, pacerVars, vars, opsVars>>

\* The fairness of each, of the part that is run.
PollerFairness ==
    /\ WF_pacerVars(part = "pacer" /\ Pacer!Tick)
    /\ WF_vars(part = "tier" /\ Tick)
    /\ WF_opsVars(part = "ops" /\ Ops!Tick)
    /\ WF_pacerVars(part = "pacer" /\ Pacer!NextCycle)
    /\ WF_pacerVars(part = "pacer" /\ \E b \in Pacer!Board : Pacer!Fetches(b))
    /\ \A r \in Daemons : WF_vars(part = "tier" /\ Cycle(r))
    /\ \A b \in Boards : WF_vars(part = "tier" /\ Recover(b))
    /\ \A e \in Ops!Evaluators : WF_opsVars(part = "ops" /\ Ops!Turn(e))

PollerSpec == PollerInit /\ [][PollerNext]_pollerVars /\ PollerFairness

\* BoardPolling!PolledAgain, where the tier runs.
BoardsArePolledAgain == part = "tier" => PolledAgain

\* VendorPacer!SlotsAreSpaced.
SlotsAreSpaced == Pacer!SlotsAreSpaced

\* VendorPacer!CyclesEnd, where the pacer runs.
PacedCyclesEnd == part = "pacer" => Pacer!CyclesEnd

\* OpsAlerts: a recovery is owed of what the operator was told is down (RecoveryIsOwed), and
\* the watchdog repeats itself no sooner than the cooldown (WatchdogIsQuiet); with the types.
AlertsAreHonest == [](Ops!TypeOK /\ Ops!RecoveryIsOwed) /\ Ops!WatchdogIsQuiet

\* OpsAlerts!FaultsAreTold, where the alerts run.
FaultsAreTold == part = "ops" => Ops!FaultsAreTold
=============================================================================
