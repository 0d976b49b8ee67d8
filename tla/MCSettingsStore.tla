--------------------------- MODULE MCSettingsStore ---------------------------
(***************************************************************************)
(* Two instances of SettingsStore side by side, over the same variables:   *)
(* one in which the web process and the command line edit, and one in      *)
(* which two tabs of the web process and the poller read.                  *)
(***************************************************************************)
EXTENDS SettingsStore

CONSTANTS tab1, tab2, watch, x, y

Both == {tab1, tab2}
PollerAndWeb == [t \in {tab1, tab2, watch} |-> IF t = watch THEN "poller" ELSE "web"]
ThreeProcesses ==
    [t \in {tab1, tab2, watch} |-> CASE t = tab1 -> "web" [] t = tab2 -> "cli"
                                     [] t = watch -> "poller"]
Two == {0, 1}
XAndY == {x, y}
OneFile == {[title |-> 1, boards |-> {x}]}

VARIABLE part

Edits == INSTANCE SettingsStore WITH
    Process <- ThreeProcesses, MaxMishaps <- 0,
    Kinds <- {"section", "row", "source", "review", "restore", "import", "force"}

Reads == INSTANCE SettingsStore WITH
    Process <- PollerAndWeb, Entries <- {x}, Imports <- {}, MaxUpgrades <- 0,
    Kinds <- {"setup", "section", "page", "watch"}

EitherInit ==
    \/ part = "edits" /\ Edits!Init
    \/ part = "reads" /\ Reads!Init

EitherNext ==
    /\ UNCHANGED part
    /\ \/ part = "edits" /\ Edits!Next
       \/ part = "reads" /\ Reads!Next

EitherSpec ==
    /\ EitherInit /\ [][EitherNext]_<<vars, part>>
    /\ part = "reads" => Reads!Fairness

\* The types of the instance at hand.
EitherTypeOK ==
    /\ part = "edits" => Edits!TypeOK
    /\ part = "reads" => Reads!TypeOK

\* The triggers catch up where the poller watches; with the types.
TriggersFollow == []EitherTypeOK /\ (part = "reads" => TriggersCatchUp)
=============================================================================
